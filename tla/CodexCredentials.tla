-------------------------- MODULE CodexCredentials --------------------------
(***************************************************************************)
(* adapters/codex_oauth.py: several programs use, and refresh, the same    *)
(* credentials file ~/.codex/auth.json, which "codex login" wrote.         *)
(*                                                                         *)
(* A refresh reads the file, exchanges its refresh token at the token      *)
(* service, and writes the file again; other programs may do the same in   *)
(* between, and each may be killed at any point.  The service is external. *)
(* Whether it hands out a new refresh token with each exchange, the old    *)
(* one being worth nothing then, or never does, is its policy.             *)
(***************************************************************************)
EXTENDS Integers

CONSTANTS
    Programs,   \* what uses the file: submissions, health checks, benchmarks
    Sessions,   \* logins; each starts refresh tokens of its own
    None,       \* no session
    MaxTokens   \* bound: tokens a session ever has; the last is not exchanged

ASSUME CredentialsAssumption ==
    /\ None \notin Sessions
    /\ MaxTokens \in Nat \ {0}

VARIABLES
    rotates,    \* the service's policy
    current,    \* per session the number of the refresh token that is valid
    file,       \* auth.json
    prog,       \* per program the request it makes
    begun,      \* the logins made so far
    lost        \* recorded: a valid token that was granted was never saved

vars == <<rotates, current, file, prog, begun, lost>>

NoFile == [state |-> "missing", session |-> None, token |-> 0]
EmptyFile == [state |-> "empty", session |-> None, token |-> 0]
Credentials(s, t) == [state |-> "whole", session |-> s, token |-> t]

(* session and token: the tokens a refresh has read, then those granted.   *)
(* denied and spent count, for the properties, answers of 401 and tokens   *)
(* exchanged in the request, up to two (bound): more is no different.      *)
OneMore(n) == IF n < 2 THEN n + 1 ELSE n

Resting(out) == [phase |-> "idle", call |-> "none", attempt |-> 1, session |-> None,
                 token |-> 0, denied |-> 0, spent |-> 0, out |-> out]

Init ==
    /\ rotates \in BOOLEAN
    /\ current = [s \in Sessions |-> 0]
    /\ file = NoFile
    /\ prog = [p \in Programs |-> Resting("none")]
    /\ begun = {}
    /\ lost = FALSE

Phase(p, phase) == prog' = [prog EXCEPT ![p].phase = phase]

-----------------------------------------------------------------------------
(* What a caller makes of the end of request(): CodexAdapter._run_oauth of *)
(* respond, LunaClient or CodexAdapter.healthcheck of list_models, and     *)
(* quota_status, whose first load can raise what it does not expect.       *)
Reported(request, end) ==
    LET first == request.call = "quota_status" /\ request.attempt = 1
    IN  CASE end = "ok"    -> "done"
          [] end = "wall"  -> "quota_exhausted"
          [] end = "no file" /\ first -> "no_credentials"
          [] end = "bad file" /\ first -> "raised"
          [] OTHER -> "failed"

Ended(p, end) ==
    [Resting(Reported(prog[p], end)) EXCEPT !.denied = prog[p].denied, !.spent = prog[p].spent]

End(p, end) == prog' = [prog EXCEPT ![p] = Ended(p, end)]

(* request() begins, for one of its callers.                               *)
Call(p) ==
    /\ prog[p].phase = "idle"
    /\ \E c \in {"respond", "list_models", "quota_status"} :
        prog' = [prog EXCEPT ![p] = [Resting("none") EXCEPT !.phase = "load", !.call = c]]
    /\ UNCHANGED <<rotates, current, file, begun, lost>>

(* CodexAuth.load, at the beginning and after a refresh.                   *)
Load(p) ==
    /\ prog[p].phase = "load"
    /\ CASE file.state = "whole"   -> Phase(p, "send")
         [] file.state = "missing" -> End(p, "no file")
         [] file.state = "empty"   -> End(p, "bad file")
    /\ UNCHANGED <<rotates, current, file, begun, lost>>

(* What the endpoint answers: a status, no answer at all being one of the  *)
(* others, and whether its error is usage_limit_reached.                   *)
Answer == [status : {"200", "401", "429", "other"}, limited : BOOLEAN]

(* Mutant of Refreshes: a quota wall is taken for an authentication error. *)
Refreshes_at_wall(p, answer) == answer.status \in {"401", "429"} /\ prog[p].attempt = 1

(* Mutant of Refreshes: as often as the endpoint asks for it.              *)
Refreshes_always(p, answer) == answer.status = "401"

Refreshes(p, answer) == answer.status = "401" /\ prog[p].attempt = 1

(* request() looks for the quota error at a 429 only, respond at any       *)
(* status but 200.                                                         *)
_raise_for_quota(p, answer) ==
    /\ answer.limited
    /\ answer.status = "429" \/ (prog[p].call = "respond" /\ answer.status # "200")

(* One attempt and the endpoint's answer.                                  *)
Attempt(p) ==
    /\ prog[p].phase = "send"
    /\ \E answer \in Answer :
        IF Refreshes(p, answer)
        THEN prog' = [prog EXCEPT ![p].phase = "refresh", ![p].attempt = 2,
                                  ![p].denied = IF answer.status = "401" THEN OneMore(@) ELSE @]
        ELSE End(p, IF _raise_for_quota(p, answer) THEN "wall"
                    ELSE IF answer.status = "200" THEN "ok" ELSE "failed")
    /\ UNCHANGED <<rotates, current, file, begun, lost>>

(* refresh(): read the file; one that is not whole raises.                 *)
ReadFile(p) ==
    /\ prog[p].phase = "refresh"
    /\ IF file.state = "whole"
       THEN prog' = [prog EXCEPT ![p].phase = "exchange", ![p].session = file.session,
                                 ![p].token = file.token]
       ELSE End(p, "raised")
    /\ UNCHANGED <<rotates, current, file, begun, lost>>

Valid(s, t) == t = current[s]

Accepted(p) ==
    /\ Valid(prog[p].session, prog[p].token)
    /\ rotates => prog[p].token + 1 < MaxTokens

Rotated(p) == IF rotates THEN prog[p].token + 1 ELSE prog[p].token

(* The POST: the service grants new tokens, and a new refresh token as its *)
(* policy is, or refuses.                                                  *)
Exchange(p) ==
    /\ prog[p].phase = "exchange"
    /\ Accepted(p)
    /\ current' = [current EXCEPT ![prog[p].session] = Rotated(p)]
    /\ prog' = [prog EXCEPT ![p].phase = "granted", ![p].token = Rotated(p),
                            ![p].spent = OneMore(@)]
    /\ UNCHANGED <<rotates, file, begun, lost>>

Refused(p) ==
    /\ prog[p].phase = "exchange"
    /\ End(p, "raised")
    /\ UNCHANGED <<rotates, current, file, begun, lost>>

(* The service has exchanged the token, and its answer does not arrive.    *)
AnswerLost(p) ==
    /\ prog[p].phase = "exchange"
    /\ Accepted(p)
    /\ current' = [current EXCEPT ![prog[p].session] = Rotated(p)]
    /\ lost' = (lost \/ rotates)
    /\ prog' = [prog EXCEPT ![p] = [Ended(p, "raised") EXCEPT !.spent = OneMore(@)]]
    /\ UNCHANGED <<rotates, file, begun>>

(* write_text empties the file and writes what was read with what was      *)
(* granted.                                                                *)
OpenFile(p) ==
    /\ prog[p].phase = "granted"
    /\ file' = EmptyFile
    /\ Phase(p, "write")
    /\ UNCHANGED <<rotates, current, begun, lost>>

(* Mutant of Written: the refresh token that was read is kept.             *)
Written_old(p) ==
    Credentials(prog[p].session, IF rotates THEN prog[p].token - 1 ELSE prog[p].token)

Written(p) == Credentials(prog[p].session, prog[p].token)

WriteFile(p) ==
    /\ prog[p].phase = "write"
    /\ file' = Written(p)
    /\ Phase(p, "load")
    /\ UNCHANGED <<rotates, current, begun, lost>>

-----------------------------------------------------------------------------
(* A program is killed; tokens it has not yet written are gone, and a file *)
(* it has emptied stays empty.                                             *)
Holds(p) == prog[p].phase \in {"granted", "write"}

Kill(p) ==
    /\ prog[p].phase # "idle"
    /\ prog' = [prog EXCEPT ![p] = Resting("killed")]
    /\ lost' = (lost \/ Holds(p))
    /\ UNCHANGED <<rotates, current, file, begun>>

(* codex login writes the file for a new session.                          *)
Login(s) ==
    /\ s \notin begun
    /\ begun' = begun \cup {s}
    /\ file' = Credentials(s, current[s])
    /\ lost' = FALSE
    /\ UNCHANGED <<rotates, current, prog>>

Step(p) ==
    \/ Load(p) \/ Attempt(p) \/ ReadFile(p)
    \/ Exchange(p) \/ Refused(p) \/ AnswerLost(p)
    \/ OpenFile(p) \/ WriteFile(p)

Next ==
    \/ \E p \in Programs : Call(p) \/ Step(p) \/ Kill(p)
    \/ \E s \in Sessions : Login(s)

Spec == Init /\ [][Next]_vars

(* A request is one thread's work, and each of its two kinds of calls has  *)
(* a timeout (request, refresh).                                           *)
FairSpec == Spec /\ \A p \in Programs : WF_vars(Step(p))

-----------------------------------------------------------------------------
Request ==
    [phase : {"idle", "load", "send", "refresh", "exchange", "granted", "write"},
     call : {"none", "respond", "list_models", "quota_status"},
     attempt : 1 .. 2, session : Sessions \cup {None}, token : Nat, denied : Nat, spent : Nat,
     out : {"none", "done", "quota_exhausted", "no_credentials", "raised", "failed", "killed"}]

TypeOK ==
    /\ rotates \in BOOLEAN /\ lost \in BOOLEAN
    /\ current \in [Sessions -> Nat]
    /\ file \in [state : {"missing", "empty", "whole"}, session : Sessions \cup {None}, token : Nat]
    /\ prog \in [Programs -> Request]
    /\ begun \in SUBSET Sessions

(* Programs that refresh at the same time never lock each other out: as    *)
(* long as no granted token was lost by a kill or on the way, the file     *)
(* holds a refresh token the service still takes, or a program that has    *)
(* one is about to write it (refresh).                                     *)
Saved == file.state = "whole" /\ Valid(file.session, file.token)

Saving == \E p \in Programs : Holds(p) /\ Valid(prog[p].session, prog[p].token)

NoLockoutByRacing == file.state # "missing" /\ ~lost => Saved \/ Saving

(* A request spends at most one refresh token, and only for a 401: a quota *)
(* wall, or anything else the endpoint answers, spends none (request).     *)
SpendsOnlyWhenDenied ==
    \A p \in Programs : prog[p].spent <= 1 /\ prog[p].spent <= prog[p].denied

(* A request comes to an end, whatever the endpoint and the token service  *)
(* answer (request retries once).                                          *)
RequestEnds == \A p \in Programs : prog[p].phase # "idle" ~> prog[p].phase = "idle"
=============================================================================
