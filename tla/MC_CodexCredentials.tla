------------------------ MODULE MC_CodexCredentials ------------------------
(* Two programs, which are alike, two logins, three tokens in a session.   *)
EXTENDS CodexCredentials
=============================================================================
