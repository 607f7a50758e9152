-------------------------------- MODULE Lane --------------------------------
(***************************************************************************)
(* Lane WR: one dispatch from its git worktree (adapters/base.Worktree)    *)
(* through the tool loop (adapters/raw_adapter) and the checks on each     *)
(* call (adapters/tools, kernel/capabilities) to its result.               *)
(*                                                                         *)
(* The worktree's path is made of task, contract and lane, so retries of a *)
(* contract use the same path one after another, and two submissions with  *)
(* the same task id use it at once.  A process may be killed at any step;  *)
(* the directory and git's registration of it stay.  The worker is free:   *)
(* any number of calls in a turn, of any tool on any place.                *)
(*                                                                         *)
(* A run is identified by a number; the directory is the set of the runs   *)
(* whose changes it holds, of which git may show less.  Contracts have a   *)
(* repository.                                                             *)
(***************************************************************************)
EXTENDS Integers, Sequences, FiniteSets

CONSTANTS
    None,
    Processes,
    Contracts,      \* [caps, calls, usd]: capabilities and ceilings
    MaxPerTurn,     \* bound on the tool calls in one turn
    TurnCosts,      \* what one turn can cost
    NET_SANDBOX_AVAILABLE,
    MaxRuns         \* bound on the number of runs

(* What a contract can ask for.  The path of fs:readonly is resolved from  *)
(* the directory of the process: it may lie in the worktree, above it, or  *)
(* elsewhere.  "other" is a capability nobody knows.                       *)
ReadOnly == {"fs:readonly:sub", "fs:readonly:above", "fs:readonly:elsewhere"}
FileCaps == {"fs:worktree"} \cup ReadOnly
Caps == FileCaps \cup {"net:none", "net:allowlist", "proc:bash", "other"}

ASSUME LaneAssumption ==
    /\ \A c \in Contracts : c.caps \in Seq(Caps) /\ c.calls \in Nat /\ c.usd \in Nat
    /\ MaxPerTurn \in Nat \ {0} /\ MaxRuns \in Nat
    /\ TurnCosts \subseteq Nat
    /\ NET_SANDBOX_AVAILABLE \in BOOLEAN

VARIABLES
    dir,        \* the directory: None, or the runs whose changes are in it
    shown,      \* the runs with changes that git would show of it as staged
    linked,     \* whether its .git file, which ties it to git, is there
    registered, \* whether git has the path as a worktree
    proc,       \* per process: where it is in a dispatch
    contractOf, \* per run, in the order they began: its contract
    overlapped  \* recorded: two processes were on the path at once

vars == <<dir, shown, linked, registered, proc, contractOf, overlapped>>

(* The tools, and the places a path can point to: below the path scope of  *)
(* a token for a subdirectory, elsewhere in the worktree, outside it.      *)
Tools == {"read_file", "apply_patch", "bash"}
Called == Tools \cup {"unknown"}
Places == {"sub", "tree", "out"}

Idle == [phase |-> "idle", run |-> 0, pending |-> 0, calls |-> 0, usd |-> 0, text |-> "",
         status |-> None, artifact |-> None, wrote |-> FALSE]

Init ==
    /\ dir = None /\ shown = {} /\ linked = FALSE /\ registered = FALSE
    /\ proc = [p \in Processes |-> Idle]
    /\ contractOf = << >> /\ overlapped = FALSE

Become(p, s) == proc' = [proc EXCEPT ![p] = s]
Goto(p, phase) == Become(p, [proc[p] EXCEPT !.phase = phase])

Contract(p) == contractOf[proc[p].run]

Dispatching(p) == proc[p].phase \notin {"idle", "over"}

-----------------------------------------------------------------------------
(* Worktree.__enter__: whatever is at the path is removed ...              *)
Begin(p) ==
    /\ ~Dispatching(p) /\ Len(contractOf) < MaxRuns
    /\ \E c \in Contracts : contractOf' = Append(contractOf, c)
    /\ Become(p, [Idle EXCEPT !.phase = "pruning", !.run = Len(contractOf) + 1])
    /\ dir' = None /\ shown' = {} /\ linked' = FALSE
    /\ overlapped' = (overlapped \/ \E q \in Processes \ {p} : Dispatching(q))
    /\ UNCHANGED registered

(* Mutant of Pruned: nothing is forgotten.                                 *)
PrunedNever == registered

(* ... then git forgets worktrees whose directory is gone ...              *)
Pruned == registered /\ linked

Prune(p) ==
    /\ proc[p].phase = "pruning"
    /\ registered' = Pruned
    /\ Goto(p, "adding")
    /\ UNCHANGED <<dir, shown, linked, contractOf, overlapped>>

(* ... and a new one is added.  This fails if something is at the path     *)
(* after all, and may fail for another reason (base_ref names nothing).    *)
Add(p) ==
    /\ proc[p].phase = "adding"
    /\ \/ /\ dir = None /\ ~registered
          /\ dir' = {} /\ shown' = {} /\ linked' = TRUE /\ registered' = TRUE
          /\ Goto(p, "minting")
       \/ /\ Become(p, [proc[p] EXCEPT !.phase = "over", !.status = "raised"])
          /\ UNCHANGED <<dir, shown, linked, registered>>    \* AdapterError, before the with
    /\ UNCHANGED <<contractOf, overlapped>>

-----------------------------------------------------------------------------
(* parse_contract_capabilities: the token's tools, path scope and net; the *)
(* last capability on files sets the scope.                                *)
Has(c, cap) == \E i \in DOMAIN c.caps : c.caps[i] = cap
Reads(c) == \E cap \in ReadOnly : Has(c, cap)

(* Mutant of ToolsOf: reading and writing come together.                   *)
ToolsOfFiles(c) ==
    (IF Has(c, "fs:worktree") \/ Reads(c) THEN {"read_file", "apply_patch"} ELSE {})
    \cup (IF Has(c, "proc:bash") THEN {"bash"} ELSE {})

ToolsOf(c) ==
    (IF Has(c, "fs:worktree") THEN {"read_file", "apply_patch"} ELSE {})
    \cup (IF Reads(c) THEN {"read_file"} ELSE {})
    \cup (IF Has(c, "proc:bash") THEN {"bash"} ELSE {})

Covers(cap) ==
    CASE cap \in {"fs:worktree", "fs:readonly:above"} -> {"sub", "tree"}
      [] cap = "fs:readonly:sub" -> {"sub"}
      [] OTHER -> {}

ScopeOf(c) ==
    UNION {Covers(c.caps[i]) : i \in {k \in DOMAIN c.caps :
        /\ c.caps[k] \in FileCaps
        /\ \A j \in DOMAIN c.caps : c.caps[j] \in FileCaps => j <= k}}

(* The token is minted, unless a capability is unknown.                    *)
Mint(p) ==
    /\ proc[p].phase = "minting"
    /\ \/ /\ ~Has(Contract(p), "other")
          /\ Become(p, [proc[p] EXCEPT !.phase = "turn", !.status = "done"])
       \/ /\ Has(Contract(p), "other")
          /\ Become(p, [proc[p] EXCEPT !.phase = "exiting", !.status = "raised"])
    /\ UNCHANGED <<dir, shown, linked, registered, contractOf, overlapped>>

(* Mutant of Spent: only the dollars are looked at.                        *)
SpentInDollars(p) == proc[p].usd >= Contract(p).usd

(* The head of the loop: a ceiling is reached ...                          *)
Spent(p) == proc[p].calls >= Contract(p).calls \/ proc[p].usd >= Contract(p).usd

Exhausted(p) ==
    /\ proc[p].phase = "turn" /\ Spent(p)
    /\ Become(p, [proc[p] EXCEPT !.phase = "diffing", !.status = "failed"])
    /\ UNCHANGED <<dir, shown, linked, registered, contractOf, overlapped>>

(* ... or the model is asked: it answers with calls, or with a text that   *)
(* is plain, long, or a refusal; or the request fails.                     *)
Turn(p) ==
    /\ proc[p].phase = "turn" /\ ~Spent(p)
    /\ \/ \E usd \in TurnCosts :
            LET s == [proc[p] EXCEPT !.usd = @ + usd]
            IN  \/ \E n \in 1 .. MaxPerTurn :
                    Become(p, [s EXCEPT !.phase = "calling", !.pending = n])
                \/ \E text \in {"plain", "long", "refusal"} :
                    Become(p, [s EXCEPT !.phase = "diffing", !.text = text])
       \/ Become(p, [proc[p] EXCEPT !.phase = "exiting", !.status = "failed"])
    /\ UNCHANGED <<dir, shown, linked, registered, contractOf, overlapped>>

Granted(c, tool, place) ==
    /\ tool \in ToolsOf(c)
    /\ tool \in {"read_file", "apply_patch"} => place \in ScopeOf(c)

(* A command that cannot be run without net, or has no directory to run    *)
(* in, raises; and any tool may, once it is allowed: a path with a NUL, a  *)
(* directory where a file is wanted, output that is no text.               *)
MustRaise(c, tool) ==
    tool = "bash" /\ \/ ~Has(c, "net:allowlist") /\ ~NET_SANDBOX_AVAILABLE
                     \/ dir = None
MayRaise(c, tool) == tool \in ToolsOf(c)

(* Mutant of Counted: a denied call costs nothing.                         *)
CountedIfGranted(s, granted) == IF granted THEN s.calls + 1 ELSE s.calls

Counted(s, granted) == s.calls + 1

AfterCall(pending) == IF pending = 1 THEN "turn" ELSE "calling"

(* Files change.  What git shows of it is open: it leaves out what is      *)
(* ignored, what the worker has committed itself, and what it has undone.  *)
Writes(run) ==
    /\ dir' = (IF dir = None THEN {} ELSE dir) \cup {run}
    /\ shown' \in SUBSET (shown \cup {run})

(* One call of the turn: ToolBox.dispatch turns a denial into a result and *)
(* lets other exceptions through, of which some come after the change.     *)
(* apply_patch creates missing parents.                                    *)
Call(p) ==
    /\ proc[p].phase = "calling"
    /\ \E tool \in Called, place \in Places :
        LET c == Contract(p)
            granted == Granted(c, tool, place)
            s == [proc[p] EXCEPT !.calls = Counted(proc[p], granted), !.pending = @ - 1,
                                 !.phase = AfterCall(proc[p].pending)]
            raised == [s EXCEPT !.phase = "exiting", !.pending = 0, !.status = "raised"]
        IN  \/ /\ ~granted \/ ~MustRaise(c, tool)
               /\ Become(p, s) /\ UNCHANGED <<dir, shown>>
            \/ /\ granted /\ tool # "read_file" /\ ~MustRaise(c, tool)
               /\ Writes(s.run)
               /\ \E t \in {s, raised} : Become(p, [t EXCEPT !.wrote = s.run \in shown'])
            \/ /\ MayRaise(c, tool)
               /\ Become(p, raised) /\ UNCHANGED <<dir, shown>>
    /\ UNCHANGED <<linked, registered, contractOf, overlapped>>

(* detect_refusal, which a budget that ran out never looks like.           *)
Refuses(text, diff) == text = "refusal" \/ (text = "long" /\ diff = {})

(* Mutant of Staged: files that are new are not in the diff.               *)
StagedTracked == {}

(* The staged diff; without its .git file the directory is no worktree.    *)
Staged == IF linked THEN shown ELSE {}

(* The artifact, and the result it is judged by; or the diff holds what is *)
(* no text, which raises.                                                  *)
Diff(p) ==
    /\ proc[p].phase = "diffing"
    /\ \/ Become(p, [proc[p] EXCEPT !.phase = "exiting", !.artifact = Staged, !.text = "",
                        !.status = IF Refuses(proc[p].text, Staged) THEN "refused" ELSE @])
       \/ /\ Staged # {}
          /\ Become(p, [proc[p] EXCEPT !.phase = "exiting", !.text = "", !.status = "raised"])
    /\ UNCHANGED <<dir, shown, linked, registered, contractOf, overlapped>>

-----------------------------------------------------------------------------
(* Mutant of Removed: only the directory goes.                             *)
RemovedByHand == registered

(* Worktree.__exit__: git removes what is a worktree, then the rest goes.  *)
Removed == registered /\ ~linked

Exit(p) ==
    /\ proc[p].phase = "exiting"
    /\ registered' = Removed
    /\ dir' = None /\ shown' = {} /\ linked' = FALSE
    /\ Goto(p, "over")
    /\ UNCHANGED <<contractOf, overlapped>>

(* The process is killed.                                                  *)
Killed(p) ==
    /\ Dispatching(p)
    /\ Become(p, Idle)
    /\ UNCHANGED <<dir, shown, linked, registered, contractOf, overlapped>>

Steps(p) ==
    \/ Prune(p) \/ Add(p) \/ Mint(p) \/ Exhausted(p) \/ Turn(p) \/ Call(p) \/ Diff(p) \/ Exit(p)

Next == \E p \in Processes : Begin(p) \/ Steps(p) \/ Killed(p)

(* One thread runs a dispatch, requests have a timeout, commands too.      *)
Spec == Init /\ [][Next]_vars /\ \A p \in Processes : WF_vars(Steps(p))
-----------------------------------------------------------------------------
RunIds == 1 .. Len(contractOf)
Phases == {"idle", "pruning", "adding", "minting", "turn", "calling", "diffing", "exiting", "over"}

Dispatches ==
    [phase : Phases, run : RunIds \cup {0}, pending : 0 .. MaxPerTurn, calls : Nat, usd : Nat,
     text : {"", "plain", "long", "refusal"},
     status : {None, "done", "failed", "refused", "raised"},
     artifact : {None} \cup SUBSET RunIds, wrote : BOOLEAN]

TypeOK ==
    /\ dir \in {None} \cup SUBSET RunIds /\ shown \in SUBSET RunIds
    /\ linked \in BOOLEAN /\ registered \in BOOLEAN /\ overlapped \in BOOLEAN
    /\ contractOf \in Seq(Contracts)
    /\ proc \in [Processes -> Dispatches]
    /\ \A p \in Processes : proc[p].pending > 0 <=> proc[p].phase = "calling"

(* However the process before it ended, the path can be used again: as     *)
(* long as no two processes are on it at once, adding the worktree finds   *)
(* neither a directory nor a registration.                                 *)
PathReusable ==
    ~overlapped =>
        \A p \in Processes : proc[p].phase = "adding" => dir = None /\ ~registered

(* "The worktree is the blast radius; it must not survive": when a         *)
(* dispatch is over, its directory and registration are gone, whether it   *)
(* came to a result or raised in the middle of a turn.                     *)
Disposable ==
    ~overlapped =>
        \A p \in Processes :
            proc[p].phase = "over" /\ (\A q \in Processes \ {p} : ~Dispatching(q)) /\
            proc[p].run = Len(contractOf) =>
                dir = None /\ ~registered

(* "The diff is the artifact": what a dispatch returns are changes of its  *)
(* own worker and nothing an earlier, perhaps killed, run left behind; and *)
(* it returns them if, after the worker's last change, git has something   *)
(* of its to show, that is neither ignored nor committed nor undone.       *)
OwnArtifact ==
    ~overlapped =>
        \A p \in Processes :
            proc[p].artifact # None =>
                proc[p].artifact = IF proc[p].wrote THEN {proc[p].run} ELSE {}

(* A worktree is only ever changed on behalf of a contract that grants     *)
(* writing files or running commands, even where two runs share it.        *)
ChangesAreGranted ==
    dir # None => \A i \in dir : Has(contractOf[i], "fs:worktree") \/ Has(contractOf[i], "proc:bash")

(* The ceilings are looked at once a turn, so they can be overrun by no    *)
(* more than a turn; and who has used up the calls is never done.          *)
CeilingsHold ==
    \A p \in Processes :
        proc[p].run # 0 =>
            LET s == proc[p]  c == Contract(p)
            IN  /\ s.calls + s.pending < c.calls + MaxPerTurn
                /\ \E cost \in TurnCosts \cup {0} : s.usd = 0 \/ s.usd < c.usd + cost
                /\ s.status = "done" /\ s.phase \in {"diffing", "exiting", "over"} =>
                    s.calls < c.calls

(* A dispatch comes to an end, however long its worker goes on.            *)
DispatchEnds == \A p \in Processes : Dispatching(p) ~> ~Dispatching(p)
=============================================================================
