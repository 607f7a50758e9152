------------------------------- MODULE MC_Lane -------------------------------
(* Contracts with bash and the net, with bash and no net on a platform     *)
(* that cannot take it away, reading only, and one nobody can grant.       *)
EXTENDS Lane

Ask(caps, calls, usd) == [caps |-> caps, calls |-> calls, usd |-> usd]

MCContracts ==
    {Ask(<<"fs:worktree", "net:allowlist", "proc:bash">>, 2, 1),
     Ask(<<"fs:worktree", "fs:readonly:elsewhere", "net:none", "proc:bash">>, 1, 1),
     Ask(<<"fs:readonly:sub", "net:none">>, 1, 1), Ask(<<"fs:worktree", "other">>, 1, 1)}
MCTurnCosts == {0, 2}
=============================================================================
