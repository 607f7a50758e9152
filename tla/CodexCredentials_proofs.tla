---------------------- MODULE CodexCredentials_proofs ----------------------
(***************************************************************************)
(* Proofs about CodexCredentials, for any number of programs, logins and   *)
(* tokens: programs that refresh at the same time never lock each other    *)
(* out, and a request spends a token only when it was denied.              *)
(***************************************************************************)
EXTENDS CodexCredentials, TLAPS

(* Tokens in the file and in memory are of logins made, and were valid once.*)
Read(p) == Holds(p) \/ prog[p].phase = "exchange"

FromLogins ==
    /\ file.state = "whole" => file.session \in begun /\ file.token <= current[file.session]
    /\ \A p \in Programs : Read(p) =>
        prog[p].session \in begun /\ prog[p].token <= current[prog[p].session]

OneForAll == ~rotates => \A s \in Sessions : current[s] = 0

HoldersAreValid ==
    \A p \in Programs : Holds(p) => Valid(prog[p].session, prog[p].token)

(* While a program has a new token to write, nobody else has it: neither   *)
(* the file nor a program that has read the file.                          *)
SoleHolder ==
    rotates => \A p \in Programs : Holds(p) =>
        /\ file.state = "whole" /\ file.session = prog[p].session
            => file.token < current[file.session]
        /\ \A q \in Programs \ {p} : Read(q) /\ prog[q].session = prog[p].session
            => ~Holds(q) /\ prog[q].token < current[prog[q].session]

(* An outdated file is about to be written, and so is an empty one.        *)
Kept ==
    ~lost =>
        /\ file.state = "whole" =>
            \/ Valid(file.session, file.token)
            \/ \E p \in Programs : Holds(p) /\ prog[p].session = file.session
        /\ file.state = "empty" => \E p \in Programs : prog[p].phase = "write"

(* A token is spent after the one 401 that allows it.                      *)
Counted ==
    \A p \in Programs :
        /\ prog[p].spent <= prog[p].denied /\ prog[p].denied <= 1
        /\ prog[p].phase # "idle" /\ prog[p].attempt = 1 => prog[p].denied = 0
        /\ prog[p].phase \in {"refresh", "exchange"} =>
            prog[p].attempt = 2 /\ prog[p].denied = 1 /\ prog[p].spent = 0
        /\ Holds(p) => prog[p].attempt = 2

IInv == TypeOK /\ FromLogins /\ OneForAll /\ HoldersAreValid /\ SoleHolder /\ Kept /\ Counted

-----------------------------------------------------------------------------
LEMMA RestingRequest ==
  ASSUME NEW out \in {"none", "done", "quota_exhausted", "no_credentials", "raised", "failed",
                      "killed"}
  PROVE  /\ Resting(out) \in Request
         /\ Resting(out).phase = "idle" /\ Resting(out).attempt = 1
         /\ Resting(out).denied = 0 /\ Resting(out).spent = 0
BY DEF Resting, Request

LEMMA InitIInv == Init => IInv
<1> SUFFICES ASSUME Init PROVE IInv
  OBVIOUS
<1>1. TypeOK
  <2>1. prog \in [Programs -> Request]
    BY RestingRequest DEF Init
  <2>2. file \in [state : {"missing", "empty", "whole"}, session : Sessions \cup {None}, token : Nat]
    BY DEF Init, NoFile
  <2>3. current \in [Sessions -> Nat] /\ begun \in SUBSET Sessions
    BY DEF Init
  <2>4. rotates \in BOOLEAN /\ lost \in BOOLEAN
    BY Zenon DEF Init
  <2> QED  BY <2>1, <2>2, <2>3, <2>4 DEF TypeOK
<1>2. FromLogins /\ OneForAll /\ HoldersAreValid /\ SoleHolder /\ Kept /\ Counted
  BY DEF Init, NoFile, Resting, FromLogins, OneForAll, HoldersAreValid, SoleHolder, Kept, Counted, Read, Holds
<1> QED  BY <1>1, <1>2 DEF IInv

(* The end of a request keeps its counts and nothing else.                 *)
LEMMA EndedRequest ==
  ASSUME TypeOK, NEW p \in Programs, NEW end
  PROVE  /\ Ended(p, end) \in Request
         /\ Ended(p, end).phase = "idle"
         /\ Ended(p, end).denied = prog[p].denied /\ Ended(p, end).spent = prog[p].spent
<1>1. Reported(prog[p], end)
        \in {"done", "quota_exhausted", "no_credentials", "raised", "failed"}
  BY DEF Reported
<1>2. prog[p].denied \in Nat /\ prog[p].spent \in Nat
  BY DEF TypeOK, Request
<1> DEFINE r == Resting(Reported(prog[p], end))
<1>3. r \in Request /\ r.phase = "idle"
  BY <1>1, RestingRequest
<1>4. Ended(p, end) = [r EXCEPT !.denied = prog[p].denied, !.spent = prog[p].spent]
  BY DEF Ended
<1> HIDE DEF r
<1> QED  BY <1>2, <1>3, <1>4 DEF Request

(* A step of one program that holds no new token, and comes to hold none,  *)
(* takes none from the others.                                             *)
LEMMA QuietStep ==
  ASSUME IInv, NEW p \in Programs, NEW r \in Request,
         prog' = [prog EXCEPT ![p] = r],
         ~Holds(p), r.phase \in {"idle", "load", "send", "refresh"},
         r.spent <= r.denied /\ r.denied <= 1,
         r.phase # "idle" /\ r.attempt = 1 => r.denied = 0,
         r.phase = "refresh" => r.attempt = 2 /\ r.denied = 1 /\ r.spent = 0,
         UNCHANGED <<rotates, current, file, begun, lost>>
  PROVE  IInv'
<1>1. prog'[p] = r /\ \A q \in Programs \ {p} : prog'[q] = prog[q]
  BY DEF IInv, TypeOK
<1>2. TypeOK'
  BY DEF IInv, TypeOK
<1>3. \A q \in Programs :
        /\ Holds(q)' => Holds(q) /\ q # p
        /\ Read(q)' => Read(q) /\ q # p
  BY <1>1 DEF Holds, Read
<1>4. \A q \in Programs : Holds(q) => q # p /\ Holds(q)' /\ prog'[q] = prog[q]
  BY <1>1 DEF Holds
<1>5. FromLogins' /\ OneForAll' /\ HoldersAreValid'
  BY <1>1, <1>3 DEF IInv, FromLogins, OneForAll, HoldersAreValid, Valid
<1>6. SoleHolder'
  BY <1>1, <1>3 DEF IInv, SoleHolder
<1>7. Kept'
  BY <1>1, <1>4 DEF IInv, Kept, Valid, Holds
<1>8. Counted'
  BY <1>1 DEF IInv, Counted, Holds
<1> QED  BY <1>2, <1>5, <1>6, <1>7, <1>8 DEF IInv

-----------------------------------------------------------------------------
LEMMA CallIInv ==
  ASSUME IInv, NEW p \in Programs, Call(p)
  PROVE  IInv'
<1>1. PICK c \in {"respond", "list_models", "quota_status"} :
        prog' = [prog EXCEPT ![p] = [Resting("none") EXCEPT !.phase = "load", !.call = c]]
  BY DEF Call
<1> DEFINE x == Resting("none")
           r == [x EXCEPT !.phase = "load", !.call = c]
<1>2. x \in Request /\ x.attempt = 1 /\ x.denied = 0 /\ x.spent = 0
  BY RestingRequest
<1>3. ~Holds(p) /\ UNCHANGED <<rotates, current, file, begun, lost>>
  BY DEF Call, Holds
<1>4. prog' = [prog EXCEPT ![p] = r]
  BY <1>1
<1> HIDE DEF x
<1>5. r \in Request /\ r.phase = "load" /\ r.denied = 0 /\ r.spent = 0
  BY <1>2 DEF Request
<1>6. r.spent <= r.denied /\ r.denied <= 1
  BY <1>5
<1> HIDE DEF r
<1> QED  BY <1>3, <1>4, <1>5, <1>6, QuietStep

(* What a request that ends without a token to write changes: nothing.     *)
LEMMA EndIInv ==
  ASSUME IInv, NEW p \in Programs, NEW end, End(p, end), ~Holds(p),
         UNCHANGED <<rotates, current, file, begun, lost>>
  PROVE  IInv'
<1> DEFINE r == Ended(p, end)
<1>1. r \in Request /\ r.phase = "idle" /\ r.denied = prog[p].denied /\ r.spent = prog[p].spent
  BY EndedRequest DEF IInv
<1>2. r.spent <= r.denied /\ r.denied <= 1
  BY <1>1 DEF IInv, Counted
<1>3. prog' = [prog EXCEPT ![p] = r]
  BY DEF End
<1> HIDE DEF r
<1> QED  BY <1>1, <1>2, <1>3, QuietStep

LEMMA LoadIInv ==
  ASSUME IInv, NEW p \in Programs, Load(p)
  PROVE  IInv'
<1>1. prog[p].phase = "load" /\ ~Holds(p) /\ UNCHANGED <<rotates, current, file, begun, lost>>
  BY DEF Load, Holds
<1>2. file.state \in {"missing", "empty", "whole"}
  BY DEF IInv, TypeOK
<1>3. CASE file.state = "whole"
  <2> DEFINE r == [prog[p] EXCEPT !.phase = "send"]
  <2>1. prog' = [prog EXCEPT ![p] = r]
    BY <1>3 DEF Load, Phase, IInv, TypeOK
  <2>2. prog[p] \in Request
    BY DEF IInv, TypeOK
  <2>3. /\ r \in Request /\ r.phase = "send" /\ r.denied = prog[p].denied
        /\ r.spent = prog[p].spent /\ r.attempt = prog[p].attempt
    BY <2>2 DEF Request
  <2>4. /\ r.spent <= r.denied /\ r.denied <= 1
        /\ r.attempt = 1 => r.denied = 0
    BY <1>1, <2>3 DEF IInv, Counted
  <2> HIDE DEF r
  <2> QED  BY <1>1, <2>1, <2>3, <2>4, QuietStep
<1>4. CASE file.state = "missing"
  <2>1. End(p, "no file")
    BY <1>4 DEF Load
  <2> QED  BY <1>1, <2>1, EndIInv
<1>5. CASE file.state = "empty"
  <2>1. End(p, "bad file")
    BY <1>5 DEF Load
  <2> QED  BY <1>1, <2>1, EndIInv
<1> QED  BY <1>2, <1>3, <1>4, <1>5

LEMMA AttemptIInv ==
  ASSUME IInv, NEW p \in Programs, Attempt(p)
  PROVE  IInv'
<1>1. prog[p].phase = "send" /\ ~Holds(p) /\ UNCHANGED <<rotates, current, file, begun, lost>>
  BY DEF Attempt, Holds
<1>2. PICK answer \in Answer :
        IF Refreshes(p, answer)
        THEN prog' = [prog EXCEPT ![p].phase = "refresh", ![p].attempt = 2,
                                  ![p].denied = IF answer.status = "401" THEN OneMore(@) ELSE @]
        ELSE \E end : End(p, end)
  BY DEF Attempt
<1>3. CASE ~Refreshes(p, answer)
  BY <1>1, <1>2, <1>3, EndIInv
<1>4. CASE Refreshes(p, answer)
  <2> DEFINE r == [prog[p] EXCEPT !.phase = "refresh", !.attempt = 2, !.denied = 1]
  <2>1. answer.status = "401" /\ prog[p].attempt = 1
    BY <1>4 DEF Refreshes
  <2>2. prog[p] \in Request
    BY DEF IInv, TypeOK
  <2>3. prog[p].denied = 0 /\ prog[p].spent = 0
    BY <1>1, <2>1, <2>2 DEF IInv, Counted, Request
  <2>4. prog' = [prog EXCEPT ![p] = [prog[p] EXCEPT !.phase = "refresh", !.attempt = 2,
                                                    !.denied = OneMore(@)]]
    BY <1>2, <1>4, <2>1, <2>2 DEF IInv, TypeOK
  <2>5. [prog[p] EXCEPT !.phase = "refresh", !.attempt = 2, !.denied = OneMore(@)] = r
    BY <2>2, <2>3 DEF Request, OneMore
  <2>6. 2 \in 1 .. 2 /\ 1 \in Nat
    OBVIOUS
  <2>7. r \in Request
    BY <2>2, <2>6 DEF Request
  <2>8. r.phase = "refresh" /\ r.attempt = 2 /\ r.denied = 1 /\ r.spent = 0
    BY <2>2, <2>3 DEF Request
  <2>9. r.spent <= r.denied /\ r.denied <= 1 /\ r.attempt # 1
    BY <2>8
  <2>10. prog' = [prog EXCEPT ![p] = r]
    BY <2>4, <2>5
  <2> HIDE DEF r
  <2> QED  BY <1>1, <2>7, <2>8, <2>9, <2>10, QuietStep
<1> QED  BY <1>3, <1>4

LEMMA RefusedIInv ==
  ASSUME IInv, NEW p \in Programs, Refused(p)
  PROVE  IInv'
BY EndIInv DEF Refused, Holds

-----------------------------------------------------------------------------
LEMMA ReadFileIInv ==
  ASSUME IInv, NEW p \in Programs, ReadFile(p)
  PROVE  IInv'
<1>1. prog[p].phase = "refresh" /\ ~Holds(p) /\ UNCHANGED <<rotates, current, file, begun, lost>>
  BY DEF ReadFile, Holds
<1>2. CASE file.state # "whole"
  <2>1. End(p, "raised")
    BY <1>2 DEF ReadFile
  <2> QED  BY <1>1, <2>1, EndIInv
<1>3. CASE file.state = "whole"
  <2>1. prog' = [prog EXCEPT ![p].phase = "exchange", ![p].session = file.session,
                             ![p].token = file.token]
    BY <1>3 DEF ReadFile
  <2>2. prog[p] \in Request /\ file.session \in Sessions \cup {None} /\ file.token \in Nat
    BY DEF IInv, TypeOK
  <2>3. /\ prog'[p] = [prog[p] EXCEPT !.phase = "exchange", !.session = file.session,
                                      !.token = file.token]
        /\ \A q \in Programs \ {p} : prog'[q] = prog[q]
    BY <2>1 DEF IInv, TypeOK
  <2>4. /\ prog'[p].phase = "exchange" /\ prog'[p].session = file.session
        /\ prog'[p].token = file.token /\ prog'[p].attempt = prog[p].attempt
        /\ prog'[p].denied = prog[p].denied /\ prog'[p].spent = prog[p].spent
    BY <2>2, <2>3 DEF Request
  <2>5. TypeOK'
    <3>1. prog'[p] \in Request
      BY <2>2, <2>3 DEF Request
    <3> QED  BY <1>1, <2>1, <2>2, <3>1 DEF IInv, TypeOK, Request
  <2>6. \A q \in Programs : Holds(q)' <=> Holds(q)
    BY <1>1, <2>3, <2>4 DEF Holds
  <2>7. \A q \in Programs : Holds(q) => q # p /\ prog'[q] = prog[q]
    BY <1>1, <2>3
  <2>8. FromLogins' /\ OneForAll' /\ HoldersAreValid'
    BY <1>1, <1>3, <2>3, <2>4, <2>6, <2>7
       DEF IInv, FromLogins, OneForAll, HoldersAreValid, Valid, Read
  <2>9. SoleHolder'
    <3> SUFFICES ASSUME rotates, NEW h \in Programs, Holds(h)
                 PROVE  /\ file.state = "whole" /\ file.session = prog[h].session
                          => file.token < current[file.session]
                        /\ \A q \in Programs \ {h} :
                              Read(q)' /\ prog'[q].session = prog[h].session
                                => ~Holds(q) /\ prog'[q].token < current[prog'[q].session]
      BY <1>1, <2>6, <2>7 DEF SoleHolder
    <3>1. file.session = prog[h].session => file.token < current[file.session]
      BY <1>3 DEF IInv, SoleHolder
    <3>2. ASSUME NEW q \in Programs \ {h}, q # p, Read(q)', prog'[q].session = prog[h].session
          PROVE  ~Holds(q) /\ prog'[q].token < current[prog'[q].session]
      <4>1. Read(q) /\ prog'[q] = prog[q]
        BY <2>3, <3>2 DEF Read, Holds
      <4> QED  BY <3>2, <4>1 DEF IInv, SoleHolder
    <3> QED  BY <1>1, <2>4, <3>1, <3>2
  <2>10. Kept'
    BY <1>1, <2>3, <2>4, <2>6, <2>7 DEF IInv, Kept, Valid
  <2>11. Counted'
    <3>1. /\ prog[p].spent <= prog[p].denied /\ prog[p].denied <= 1
          /\ prog[p].attempt = 2 /\ prog[p].denied = 1 /\ prog[p].spent = 0
      BY <1>1 DEF IInv, Counted
    <3>2. ASSUME NEW q \in Programs \ {p}
          PROVE  prog'[q] = prog[q]
      BY <2>3
    <3>3. prog'[p].spent <= prog'[p].denied /\ prog'[p].denied <= 1
      BY <2>4, <3>1
    <3> QED  BY <2>4, <3>1, <3>2, <3>3 DEF IInv, Counted, Holds
  <2> QED  BY <2>5, <2>8, <2>9, <2>10, <2>11 DEF IInv
<1> QED  BY <1>2, <1>3

(* What the service does with a token it takes.                            *)
LEMMA Rotation ==
  ASSUME IInv, NEW p \in Programs, prog[p].phase = "exchange", Accepted(p),
         current' = [current EXCEPT ![prog[p].session] = Rotated(p)]
  PROVE  /\ prog[p].session \in Sessions /\ prog[p].session \in begun
         /\ prog[p].token = current[prog[p].session]
         /\ Rotated(p) \in Nat
         /\ current' \in [Sessions -> Nat]
         /\ current'[prog[p].session] = Rotated(p)
         /\ \A s \in Sessions \ {prog[p].session} : current'[s] = current[s]
         /\ rotates => Rotated(p) = current[prog[p].session] + 1
         /\ ~rotates => Rotated(p) = current[prog[p].session] /\ current' = current
<1>1. prog[p] \in Request /\ current \in [Sessions -> Nat] /\ begun \subseteq Sessions
  BY DEF IInv, TypeOK
<1>2. prog[p].session \in begun
  BY DEF IInv, FromLogins, Read
<1>3. prog[p].token = current[prog[p].session] /\ prog[p].token \in Nat
  BY <1>1 DEF Accepted, Valid, Request
<1>4. Rotated(p) \in Nat
  BY <1>3 DEF Rotated
<1> QED  BY <1>1, <1>2, <1>3, <1>4 DEF Rotated

LEMMA ExchangeIInv ==
  ASSUME IInv, NEW p \in Programs, Exchange(p)
  PROVE  IInv'
<1> DEFINE s == prog[p].session
<1>1. /\ prog[p].phase = "exchange" /\ Accepted(p)
      /\ current' = [current EXCEPT ![s] = Rotated(p)]
      /\ prog' = [prog EXCEPT ![p].phase = "granted", ![p].token = Rotated(p), ![p].spent = OneMore(@)]
      /\ UNCHANGED <<rotates, file, begun, lost>>
  BY DEF Exchange
<1>2. /\ s \in Sessions /\ s \in begun /\ prog[p].token = current[s] /\ Rotated(p) \in Nat
      /\ current' \in [Sessions -> Nat] /\ current'[s] = Rotated(p)
      /\ \A t \in Sessions \ {s} : current'[t] = current[t]
      /\ rotates => Rotated(p) = current[s] + 1
      /\ ~rotates => Rotated(p) = current[s] /\ current' = current
  BY <1>1, Rotation
<1>3. current \in [Sessions -> Nat] /\ begun \subseteq Sessions /\ prog[p] \in Request
  BY DEF IInv, TypeOK
<1>0. prog[p].spent = 0 /\ prog[p].denied = 1 /\ prog[p].attempt = 2 /\ prog[p].session = s
  BY <1>1 DEF IInv, Counted
<1> HIDE DEF s
<1>4. /\ prog'[p] = [prog[p] EXCEPT !.phase = "granted", !.token = Rotated(p), !.spent = 1]
      /\ \A q \in Programs \ {p} : prog'[q] = prog[q]
  BY <1>0, <1>1, <1>3 DEF IInv, TypeOK, OneMore
<1>5. /\ prog'[p] \in Request /\ prog'[p].phase = "granted" /\ prog'[p].session = s
      /\ prog'[p].token = Rotated(p) /\ prog'[p].spent = 1
      /\ prog'[p].denied = 1 /\ prog'[p].attempt = 2
  BY <1>0, <1>2, <1>3, <1>4 DEF Request
<1>6. TypeOK'
  <2>1. prog' \in [Programs -> Request]
    BY <1>1, <1>4, <1>5 DEF IInv, TypeOK
  <2> QED  BY <1>1, <1>2, <2>1 DEF IInv, TypeOK
<1>7. \A t \in Sessions : current[t] \in Nat /\ current'[t] \in Nat /\ current[t] <= current'[t]
  BY <1>2, <1>3
<1>8. \A q \in Programs \ {p} : (Holds(q)' <=> Holds(q)) /\ (Read(q)' <=> Read(q))
  BY <1>4 DEF Holds, Read
<1>9. Holds(p)' /\ ~Holds(p) /\ Read(p)
  BY <1>1, <1>5 DEF Holds, Read
<1>10. \A q \in Programs : prog[q].token \in Nat /\ file.token \in Nat
  BY DEF IInv, TypeOK, Request
<1>11. FromLogins'
  <2>1. file.state = "whole" => file.session \in begun /\ file.token <= current'[file.session]
    BY <1>3, <1>7, <1>10 DEF IInv, FromLogins
  <2>2. ASSUME NEW q \in Programs \ {p}, Read(q)
        PROVE  prog[q].session \in begun /\ prog[q].token <= current'[prog[q].session]
    BY <1>3, <1>7, <1>10, <2>2 DEF IInv, FromLogins
  <2>3. prog'[p].session \in begun /\ prog'[p].token <= current'[prog'[p].session]
    BY <1>2, <1>5
  <2>4. \A q \in Programs \ {p} : Read(q)' =>
          prog'[q].session \in begun /\ prog'[q].token <= current'[prog'[q].session]
    BY <1>4, <1>8, <2>2
  <2>5. \A q \in Programs : Read(q)' =>
          prog'[q].session \in begun /\ prog'[q].token <= current'[prog'[q].session]
    BY <2>3, <2>4
  <2>6. file' = file /\ begun' = begun
    BY <1>1
  <2> QED  BY <2>1, <2>5, <2>6 DEF FromLogins
<1>12. OneForAll'
  BY <1>1, <1>2 DEF IInv, OneForAll
<1>13. ASSUME rotates, NEW q \in Programs \ {p}, Holds(q)
       PROVE  prog[q].session # s
  BY <1>2, <1>9, <1>13, <1>3, <1>0 DEF IInv, SoleHolder
<1>14. HoldersAreValid'
  <2>1. ASSUME NEW q \in Programs \ {p}, Holds(q)
        PROVE  prog[q].token = current'[prog[q].session]
    <3>1. prog[q].token = current[prog[q].session] /\ prog[q].session \in Sessions
      BY <1>3, <2>1 DEF IInv, HoldersAreValid, Valid, FromLogins, Read
    <3> QED  BY <1>2, <1>13, <2>1, <3>1
  <2> QED  BY <1>2, <1>4, <1>5, <1>8, <2>1 DEF HoldersAreValid, Valid
<1>15. SoleHolder'
  <2> SUFFICES ASSUME rotates, NEW q \in Programs, Holds(q)'
               PROVE  /\ file.state = "whole" /\ file.session = prog'[q].session
                        => file.token < current'[file.session]
                      /\ \A r \in Programs \ {q} :
                            Read(r)' /\ prog'[r].session = prog'[q].session
                              => ~Holds(r)' /\ prog'[r].token < current'[prog'[r].session]
    BY <1>1 DEF SoleHolder
  <2>1. CASE q = p
    <3>1. file.state = "whole" /\ file.session = s => file.token < current'[s]
      BY <1>2, <1>3, <1>10 DEF IInv, FromLogins
    <3>2. ASSUME NEW r \in Programs \ {p}, Read(r), prog[r].session = s
          PROVE  ~Holds(r) /\ prog[r].token < current'[s]
      BY <1>2, <1>3, <1>10, <1>13, <3>2 DEF IInv, FromLogins
    <3> QED  BY <1>4, <1>5, <1>8, <2>1, <3>1, <3>2
  <2>2. CASE q # p
    <3>1. Holds(q) /\ prog'[q] = prog[q] /\ prog[q].session # s
      BY <1>4, <1>8, <1>13, <2>2
    <3>2. prog[q].session \in Sessions
      BY <1>3, <3>1 DEF IInv, FromLogins, Read
    <3>3. current'[prog[q].session] = current[prog[q].session]
      BY <1>2, <3>1, <3>2
    <3>4. ASSUME file.state = "whole", file.session = prog[q].session
          PROVE  file.token < current'[file.session]
      BY <3>1, <3>3, <3>4 DEF IInv, SoleHolder
    <3>5. ASSUME NEW r \in Programs \ {q}, Read(r)', prog'[r].session = prog'[q].session
          PROVE  ~Holds(r)' /\ prog'[r].token < current'[prog'[r].session]
      <4>1. r # p
        BY <1>5, <3>1, <3>5
      <4>2. Read(r) /\ prog'[r] = prog[r]
        BY <1>4, <1>8, <3>5, <4>1
      <4> QED  BY <1>8, <3>1, <3>3, <3>5, <4>1, <4>2 DEF IInv, SoleHolder
    <3> QED  BY <3>1, <3>4, <3>5
  <2> QED  BY <2>1, <2>2
<1>16. Kept'
  <2>1. CASE file.state = "whole" /\ file.session = s
    BY <1>5, <1>9, <2>1, <1>1 DEF Kept
  <2>2. CASE file.state = "whole" /\ file.session # s
    <3>1. current'[file.session] = current[file.session]
      BY <1>2, <1>3, <2>2 DEF IInv, FromLogins
    <3> QED  BY <1>1, <1>4, <1>8, <1>9, <2>2, <3>1 DEF IInv, Kept, Valid
  <2>3. CASE file.state # "whole"
    <3>1. \A q \in Programs : prog[q].phase = "write" => prog'[q].phase = "write"
      BY <1>1, <1>4
    <3> QED  BY <1>1, <2>3, <3>1 DEF IInv, Kept
  <2> QED  BY <2>1, <2>2, <2>3
<1>17. Counted'
  <2>1. prog'[p].spent <= prog'[p].denied /\ prog'[p].denied <= 1
    BY <1>5
  <2>2. \A q \in Programs \ {p} : prog'[q] = prog[q]
    BY <1>4
  <2> QED  BY <1>5, <2>1, <2>2 DEF IInv, Counted, Holds
<1> QED  BY <1>6, <1>11, <1>12, <1>14, <1>15, <1>16, <1>17 DEF IInv

(* The token is exchanged and its answer lost: nobody has the new one.      *)
LEMMA AnswerLostIInv ==
  ASSUME IInv, NEW p \in Programs, AnswerLost(p)
  PROVE  IInv'
<1> DEFINE s == prog[p].session
           e == Ended(p, "raised")
<1>1. /\ prog[p].phase = "exchange" /\ Accepted(p)
      /\ current' = [current EXCEPT ![s] = Rotated(p)]
      /\ lost' = (lost \/ rotates)
      /\ prog' = [prog EXCEPT ![p] = [e EXCEPT !.spent = OneMore(@)]]
      /\ UNCHANGED <<rotates, file, begun>>
  BY DEF AnswerLost
<1>2. /\ s \in Sessions /\ s \in begun /\ prog[p].token = current[s] /\ Rotated(p) \in Nat
      /\ current' \in [Sessions -> Nat] /\ current'[s] = Rotated(p)
      /\ \A t \in Sessions \ {s} : current'[t] = current[t]
      /\ rotates => Rotated(p) = current[s] + 1
      /\ ~rotates => Rotated(p) = current[s] /\ current' = current
  BY <1>1, Rotation
<1>3. current \in [Sessions -> Nat] /\ begun \subseteq Sessions
  BY DEF IInv, TypeOK
<1>4. prog[p].spent = 0 /\ prog[p].denied = 1 /\ prog[p].session = s
  BY <1>1 DEF IInv, Counted
<1>5. e \in Request /\ e.phase = "idle" /\ e.denied = 1 /\ e.spent = 0
  BY <1>4, EndedRequest DEF IInv
<1> HIDE DEF s, e
<1>6. [e EXCEPT !.spent = OneMore(@)] = [e EXCEPT !.spent = 1]
  BY <1>5 DEF Request, OneMore
<1>7. /\ prog'[p] = [e EXCEPT !.spent = 1]
      /\ \A q \in Programs \ {p} : prog'[q] = prog[q]
      /\ prog' \in [Programs -> Request]
  <2>1. [e EXCEPT !.spent = 1] \in Request
    BY <1>5 DEF Request
  <2> QED  BY <1>1, <1>6, <2>1 DEF IInv, TypeOK
<1>8. prog'[p].phase = "idle" /\ prog'[p].denied = 1 /\ prog'[p].spent = 1
  BY <1>5, <1>7 DEF Request
<1>9. \A q \in Programs :
        /\ Holds(q)' <=> Holds(q)
        /\ Read(q)' <=> Read(q) /\ q # p
  BY <1>1, <1>7, <1>8 DEF Holds, Read
<1>10. ~Holds(p) /\ Read(p)
  BY <1>1 DEF Holds, Read
<1>11. TypeOK'
  <2>1. lost' \in BOOLEAN
    BY <1>1, Zenon
  <2> QED  BY <1>1, <1>2, <1>7, <2>1 DEF IInv, TypeOK
<1>12. \A t \in Sessions : current[t] \in Nat /\ current'[t] \in Nat /\ current[t] <= current'[t]
  BY <1>2, <1>3
<1>13. \A q \in Programs : prog[q].token \in Nat /\ file.token \in Nat
  BY DEF IInv, TypeOK, Request
<1>14. FromLogins'
  <2>1. file.state = "whole" => file.session \in begun /\ file.token <= current'[file.session]
    BY <1>3, <1>12, <1>13 DEF IInv, FromLogins
  <2>2. ASSUME NEW q \in Programs, q # p, Read(q)
        PROVE  prog[q].session \in begun /\ prog[q].token <= current'[prog[q].session]
    BY <1>3, <1>12, <1>13, <2>2 DEF IInv, FromLogins
  <2>3. \A q \in Programs : Read(q)' =>
          prog'[q].session \in begun /\ prog'[q].token <= current'[prog'[q].session]
    BY <1>7, <1>9, <2>2
  <2>4. file' = file /\ begun' = begun
    BY <1>1
  <2> QED  BY <2>1, <2>3, <2>4 DEF FromLogins
<1>15. OneForAll'
  BY <1>1, <1>2 DEF IInv, OneForAll
<1>16. ASSUME NEW q \in Programs, Holds(q)
       PROVE  /\ q # p /\ prog'[q] = prog[q]
              /\ prog[q].session \in Sessions
              /\ prog[q].token = current[prog[q].session]
              /\ rotates => prog[q].session # s
              /\ current'[prog[q].session] = current[prog[q].session]
  <2>1. q # p /\ prog'[q] = prog[q]
    BY <1>7, <1>10, <1>16
  <2>2. prog[q].session \in Sessions /\ prog[q].token = current[prog[q].session]
    BY <1>3, <1>16 DEF IInv, HoldersAreValid, Valid, FromLogins, Read
  <2>3. rotates => prog[q].session # s
    BY <1>2, <1>3, <1>4, <1>10, <1>16, <2>1 DEF IInv, SoleHolder
  <2> QED  BY <1>2, <2>1, <2>2, <2>3
<1>17. HoldersAreValid'
  BY <1>9, <1>16 DEF HoldersAreValid, Valid
<1>18. SoleHolder'
  <2> SUFFICES ASSUME rotates, NEW q \in Programs, Holds(q)
               PROVE  /\ file.state = "whole" /\ file.session = prog[q].session
                        => file.token < current'[file.session]
                      /\ \A r \in Programs \ {q} :
                            Read(r)' /\ prog'[r].session = prog[q].session
                              => ~Holds(r) /\ prog'[r].token < current'[prog'[r].session]
    BY <1>1, <1>9, <1>16 DEF SoleHolder
  <2>1. ASSUME file.state = "whole", file.session = prog[q].session
        PROVE  file.token < current'[file.session]
    BY <1>16, <2>1 DEF IInv, SoleHolder
  <2>2. ASSUME NEW r \in Programs \ {q}, Read(r)', prog'[r].session = prog[q].session
        PROVE  ~Holds(r) /\ prog'[r].token < current'[prog'[r].session]
    <3>1. Read(r) /\ prog'[r] = prog[r]
      BY <1>7, <1>9, <2>2
    <3> QED  BY <1>16, <2>2, <3>1 DEF IInv, SoleHolder
  <2> QED  BY <2>1, <2>2
<1>19. Kept'
  <2>1. CASE rotates
    BY <1>1, <2>1 DEF Kept
  <2>2. CASE ~rotates
    <3>1. \A q \in Programs : prog[q].phase = "write" => prog'[q].phase = "write"
      BY <1>1, <1>7
    <3>2. current' = current /\ file' = file /\ (lost' <=> lost)
      BY <1>1, <1>2, <2>2
    <3> QED  BY <1>9, <1>16, <3>1, <3>2 DEF IInv, Kept, Valid
  <2> QED  BY <2>1, <2>2
<1>20. Counted'
  <2>1. prog'[p].spent <= prog'[p].denied /\ prog'[p].denied <= 1
    BY <1>8
  <2> QED  BY <1>7, <1>8, <2>1 DEF IInv, Counted, Holds
<1> QED  BY <1>11, <1>14, <1>15, <1>17, <1>18, <1>19, <1>20 DEF IInv

-----------------------------------------------------------------------------
(* What a change of the phase alone leaves.                                *)
LEMMA PhaseStep ==
  ASSUME TypeOK, NEW p \in Programs,
         NEW phase \in {"load", "write"}, Phase(p, phase)
  PROVE  /\ prog' \in [Programs -> Request]
         /\ prog'[p].phase = phase
         /\ prog'[p].session = prog[p].session /\ prog'[p].token = prog[p].token
         /\ prog'[p].attempt = prog[p].attempt /\ prog'[p].denied = prog[p].denied
         /\ prog'[p].spent = prog[p].spent
         /\ \A q \in Programs \ {p} : prog'[q] = prog[q]
<1>1. prog[p] \in Request
  BY DEF TypeOK
<1>2. /\ prog'[p] = [prog[p] EXCEPT !.phase = phase]
      /\ \A q \in Programs \ {p} : prog'[q] = prog[q]
  BY DEF TypeOK, Phase
<1>3. [prog[p] EXCEPT !.phase = phase] \in Request
  BY <1>1 DEF Request
<1>4. prog' \in [Programs -> Request]
  BY <1>2, <1>3 DEF TypeOK, Phase
<1> QED  BY <1>1, <1>2, <1>4 DEF Request

LEMMA OpenFileIInv ==
  ASSUME IInv, NEW p \in Programs, OpenFile(p)
  PROVE  IInv'
<1>1. /\ prog[p].phase = "granted" /\ Phase(p, "write") /\ file'.state = "empty"
      /\ file' = EmptyFile /\ UNCHANGED <<rotates, current, begun, lost>>
  BY DEF OpenFile, EmptyFile
<1>2. /\ prog' \in [Programs -> Request] /\ prog'[p].phase = "write"
      /\ prog'[p].session = prog[p].session /\ prog'[p].token = prog[p].token
      /\ prog'[p].attempt = prog[p].attempt /\ prog'[p].denied = prog[p].denied
      /\ prog'[p].spent = prog[p].spent
      /\ \A q \in Programs \ {p} : prog'[q] = prog[q]
  BY <1>1, PhaseStep DEF IInv
<1>3. TypeOK'
  BY <1>1, <1>2 DEF IInv, TypeOK, EmptyFile
<1>4. \A q \in Programs :
        /\ Holds(q)' <=> Holds(q)
        /\ Read(q)' <=> Read(q)
        /\ prog'[q].session = prog[q].session /\ prog'[q].token = prog[q].token
  BY <1>1, <1>2 DEF Holds, Read
<1>5. FromLogins' /\ OneForAll' /\ HoldersAreValid' /\ SoleHolder'
  <2>1. file'.state # "whole"
    BY <1>1
  <2> QED  BY <1>1, <1>4, <2>1
           DEF IInv, FromLogins, OneForAll, HoldersAreValid, SoleHolder, Valid
<1>6. Kept'
  BY <1>1, <1>2 DEF Kept
<1>7. Counted'
  BY <1>1, <1>2 DEF IInv, Counted, Holds
<1> QED  BY <1>3, <1>5, <1>6, <1>7 DEF IInv

LEMMA WriteFileIInv ==
  ASSUME IInv, NEW p \in Programs, WriteFile(p)
  PROVE  IInv'
<1>1. /\ prog[p].phase = "write" /\ Phase(p, "load") /\ Holds(p)
      /\ file' = Credentials(prog[p].session, prog[p].token)
      /\ UNCHANGED <<rotates, current, begun, lost>>
  BY DEF WriteFile, Written, Holds
<1>2. /\ prog' \in [Programs -> Request] /\ prog'[p].phase = "load"
      /\ prog'[p].attempt = prog[p].attempt /\ prog'[p].denied = prog[p].denied
      /\ prog'[p].spent = prog[p].spent
      /\ \A q \in Programs \ {p} : prog'[q] = prog[q]
  BY <1>1, PhaseStep DEF IInv
<1>3. /\ prog[p].session \in begun /\ prog[p].session \in Sessions /\ prog[p].token \in Nat
      /\ prog[p].token = current[prog[p].session]
  BY <1>1 DEF IInv, TypeOK, Request, FromLogins, HoldersAreValid, Valid, Read
<1>4. /\ file' \in [state : {"missing", "empty", "whole"}, session : Sessions \cup {None},
                    token : Nat]
      /\ file'.state = "whole" /\ file'.session = prog[p].session /\ file'.token = prog[p].token
  BY <1>1, <1>3 DEF Credentials
<1>5. TypeOK'
  BY <1>1, <1>2, <1>4 DEF IInv, TypeOK
<1>6. \A q \in Programs :
        /\ Holds(q)' <=> Holds(q) /\ q # p
        /\ Read(q)' <=> Read(q) /\ q # p
  BY <1>1, <1>2 DEF Holds, Read
<1>7. FromLogins'
  BY <1>1, <1>2, <1>3, <1>4, <1>6 DEF IInv, FromLogins
<1>8. OneForAll' /\ HoldersAreValid'
  BY <1>1, <1>2, <1>6 DEF IInv, OneForAll, HoldersAreValid, Valid
<1>9. SoleHolder'
  <2>1. ASSUME rotates, NEW q \in Programs \ {p}, Holds(q)
        PROVE  prog[q].session # prog[p].session
    BY <1>1, <2>1 DEF IInv, SoleHolder, Read
  <2> QED  BY <1>1, <1>2, <1>4, <1>6, <2>1 DEF IInv, SoleHolder
<1>10. Kept'
  BY <1>1, <1>3, <1>4 DEF Kept, Valid
<1>11. Counted'
  BY <1>1, <1>2 DEF IInv, Counted, Holds
<1> QED  BY <1>5, <1>7, <1>8, <1>9, <1>10, <1>11 DEF IInv

(* A program that is killed with a new token takes it along.               *)
LEMMA KillIInv ==
  ASSUME IInv, NEW p \in Programs, Kill(p)
  PROVE  IInv'
<1> DEFINE r == Resting("killed")
<1>1. /\ prog' = [prog EXCEPT ![p] = r]
      /\ lost' = (lost \/ Holds(p))
      /\ UNCHANGED <<rotates, current, file, begun>>
  BY DEF Kill
<1>2. r \in Request /\ r.phase = "idle" /\ r.denied = 0 /\ r.spent = 0
  BY RestingRequest
<1> HIDE DEF r
<1>3. r.spent <= r.denied /\ r.denied <= 1
  BY <1>2
<1>4. CASE ~Holds(p)
  <2>1. lost' = lost
    <3>1. lost \in BOOLEAN
      BY DEF IInv, TypeOK
    <3> QED  BY <1>1, <1>4, <3>1
  <2> QED  BY <1>1, <1>2, <1>3, <1>4, <2>1, QuietStep
<1>5. CASE Holds(p)
  <2>1. lost' = TRUE
    BY <1>1, <1>5
  <2>2. prog'[p] = r /\ \A q \in Programs \ {p} : prog'[q] = prog[q]
    BY <1>1 DEF IInv, TypeOK
  <2>3. TypeOK'
    BY <1>1, <1>2, <2>1 DEF IInv, TypeOK
  <2>4. \A q \in Programs :
          /\ Holds(q)' <=> Holds(q) /\ q # p
          /\ Read(q)' <=> Read(q) /\ q # p
    BY <1>2, <2>2 DEF Holds, Read
  <2>5. FromLogins' /\ OneForAll' /\ HoldersAreValid' /\ SoleHolder'
    BY <1>1, <2>2, <2>4 DEF IInv, FromLogins, OneForAll, HoldersAreValid, SoleHolder, Valid
  <2>6. Kept'
    BY <2>1 DEF Kept
  <2>7. Counted'
    BY <1>2, <1>3, <2>2 DEF IInv, Counted, Holds
  <2> QED  BY <2>3, <2>5, <2>6, <2>7 DEF IInv
<1> QED  BY <1>4, <1>5

LEMMA LoginIInv ==
  ASSUME IInv, NEW s \in Sessions, Login(s)
  PROVE  IInv'
<1>1. /\ s \notin begun /\ begun' = begun \cup {s} /\ file' = Credentials(s, current[s])
      /\ lost' = FALSE /\ UNCHANGED <<rotates, current, prog>>
  BY DEF Login
<1>2. current[s] \in Nat
  BY DEF IInv, TypeOK
<1>3. file'.state = "whole" /\ file'.session = s /\ file'.token = current[s]
  BY <1>1 DEF Credentials
<1>4. TypeOK'
  BY <1>1, <1>2 DEF IInv, TypeOK, Credentials
<1>5. \A q \in Programs : (Holds(q)' <=> Holds(q)) /\ (Read(q)' <=> Read(q))
  BY <1>1 DEF Holds, Read
<1>6. FromLogins' /\ OneForAll' /\ HoldersAreValid' /\ Counted'
  BY <1>1, <1>2, <1>3, <1>5
     DEF IInv, FromLogins, OneForAll, HoldersAreValid, Valid, Counted
<1>7. SoleHolder'
  <2>1. \A q \in Programs : Holds(q) => prog[q].session # s
    BY <1>1 DEF IInv, FromLogins, Read
  <2> QED  BY <1>1, <1>3, <1>5, <2>1 DEF IInv, SoleHolder
<1>8. Kept'
  BY <1>1, <1>3 DEF Kept, Valid
<1> QED  BY <1>4, <1>6, <1>7, <1>8 DEF IInv

LEMMA NextIInv == IInv /\ [Next]_vars => IInv'
<1> SUFFICES ASSUME IInv, [Next]_vars PROVE IInv'
  OBVIOUS
<1>1. ASSUME NEW p \in Programs, Step(p) PROVE IInv'
  BY <1>1, LoadIInv, AttemptIInv, ReadFileIInv, ExchangeIInv, RefusedIInv, AnswerLostIInv,
     OpenFileIInv, WriteFileIInv DEF Step
<1>2. CASE UNCHANGED vars
  BY <1>2 DEF vars, IInv, TypeOK, FromLogins, OneForAll, HoldersAreValid, SoleHolder, Kept,
              Counted, Valid, Holds, Read
<1> QED  BY <1>1, <1>2, CallIInv, KillIInv, LoginIInv DEF Next

-----------------------------------------------------------------------------
LEMMA Inductive == Spec => []IInv
BY InitIInv, NextIInv, PTL DEF Spec

(* The file and the requests keep their types.                             *)
THEOREM TypeCorrect == Spec => []TypeOK
BY Inductive, PTL DEF IInv

(* However many programs refresh at the same time, a valid refresh token   *)
(* is in the file or about to be (refresh).                                *)
THEOREM NobodyIsLockedOut == Spec => []NoLockoutByRacing
<1>1. IInv => NoLockoutByRacing
  <2> SUFFICES ASSUME IInv, file.state # "missing", ~lost
               PROVE  Saved \/ Saving
    BY DEF NoLockoutByRacing
  <2>1. CASE file.state = "whole"
    BY <2>1 DEF IInv, Kept, HoldersAreValid, Saved, Saving
  <2>2. CASE file.state = "empty"
    <3>1. PICK p \in Programs : prog[p].phase = "write"
      BY <2>2 DEF IInv, Kept
    <3> QED  BY <3>1 DEF IInv, HoldersAreValid, Saving, Holds
  <2> QED  BY <2>1, <2>2 DEF IInv, TypeOK
<1> QED  BY <1>1, Inductive, PTL

(* A request spends one token at most, and only after a 401 (request).     *)
THEOREM TokensAreForDenials == Spec => []SpendsOnlyWhenDenied
<1>1. IInv => SpendsOnlyWhenDenied
  <2> SUFFICES ASSUME IInv, NEW p \in Programs
               PROVE  prog[p].spent <= 1 /\ prog[p].spent <= prog[p].denied
    BY DEF SpendsOnlyWhenDenied
  <2>1. prog[p].spent \in Nat /\ prog[p].denied \in Nat
    BY DEF IInv, TypeOK, Request
  <2> QED  BY <2>1 DEF IInv, Counted
<1> QED  BY <1>1, Inductive, PTL
=============================================================================
