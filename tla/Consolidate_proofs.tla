-------------------------- MODULE Consolidate_proofs --------------------------
(***************************************************************************)
(* Proofs about HeldoutRotation and Consolidate, for any contracts, texts, *)
(* months and share, any outcomes and any number of rows.                  *)
(*                                                                         *)
(* First the rotations alone: however often they are killed and run again  *)
(* over restored files, verify accuses only files somebody has changed,    *)
(* and a contract is logged once.  Then what the learning loop makes of    *)
(* its rows meanwhile: what the filter keeps is the top, and work that     *)
(* failed its checks gets there only where passing work leaves room.       *)
(***************************************************************************)
EXTENDS Consolidate, FiniteSetTheorems, WellFoundedInduction, SequenceTheorems, TLAPS

(* What a rotation has in memory: every file still to be moved has a line. *)
LeftAreChosen ==
    \A c \in rotation.left : \E l \in rotation.lines : l.name = c

(* A line holds the hash of the file on the bench until the file is moved; *)
(* then the file withheld has that hash, unless somebody changes it.       *)
LinesAreRight ==
    \A l \in rotation.lines :
        IF l.name \in rotation.left
        THEN bench[l.name] # Absent /\ l.hash = file_hash(l.name, bench[l.name])
        ELSE Intact(l) \/ l.name \in touched

(* No contract is chosen twice, or chosen again.                           *)
LinesAreNew ==
    /\ \A l, m \in rotation.lines : l.name = m.name => l = m
    /\ \A l \in rotation.lines, s \in Stamps : \A m \in manifest[s] : l.name # m.name

(* The manifest is written when all files are moved, and starts empty.     *)
WritesLast ==
    /\ rotation.phase = "writing" => rotation.left = {} /\ manifest[rotation.stamp] = {}
    /\ rotation.phase = "idle" => rotation = Idle

IInv ==
    /\ TypeOK
    /\ LeftAreChosen /\ LinesAreRight /\ LinesAreNew /\ WritesLast
    /\ VerifyAccusesRightly /\ LoggedOnce

-----------------------------------------------------------------------------
(* What verify says, line by line.                                         *)
LEMMA Accusations ==
  VerifyAccusesRightly
    <=> \A s \in Stamps : \A l \in manifest[s] : Intact(l) \/ l.name \in touched
BY DEF VerifyAccusesRightly, problems, Lines

(* A line that was right stays right while its file is not moved: others'  *)
(* files may be moved or changed, and its own only by a recorded change.   *)
LEMMA StaysRight ==
  ASSUME TypeOK, NEW l \in Line, Intact(l) \/ l.name \in touched,
         NEW c \in Contracts, NEW t \in Texts \cup {Absent},
         held' = [held EXCEPT ![c] = t],
         \/ touched' = touched \cup {c}
         \/ touched' = touched \ {c} /\ l.name # c
  PROVE  Intact(l)' \/ l.name \in touched'
<1>1. l.name \in Contracts
  BY DEF Line
<1>2. CASE l.name = c
  BY <1>2
<1>3. CASE l.name # c
  <2>1. held'[l.name] = held[l.name]
    BY <1>1, <1>3 DEF TypeOK
  <2> QED  BY <2>1, <1>3 DEF Intact
<1> QED  BY <1>2, <1>3

LEMMA InitIInv == Init => IInv
<1> SUFFICES ASSUME Init PROVE IInv
  OBVIOUS
<1> USE DEF Init, Idle
<1>1. TypeOK
  BY DEF TypeOK
<1>2. LeftAreChosen /\ LinesAreRight /\ LinesAreNew /\ WritesLast
  BY DEF LeftAreChosen, LinesAreRight, LinesAreNew, WritesLast
<1>3. VerifyAccusesRightly
  BY Accusations
<1>4. LoggedOnce
  BY DEF LoggedOnce
<1> QED  BY <1>1, <1>2, <1>3, <1>4 DEF IInv

-----------------------------------------------------------------------------
LEMMA BeginIInv ==
  ASSUME IInv, NEW s \in Stamps, Begin(s)
  PROVE  IInv'
<1>1. PICK picked \in SUBSET Pool :
        rotation' = [phase |-> "moving", stamp |-> s, left |-> picked,
                     lines |-> {[name |-> c, hash |-> file_hash(c, bench[c])] : c \in picked}]
  BY DEF Begin
<1>2. UNCHANGED <<bench, held, manifest, touched>>
  BY DEF Begin
<1>3. \A c \in picked : c \in Contracts /\ bench[c] \in Texts /\ c \notin already_held
  BY DEF Pool, IInv, TypeOK
<1>4. rotation'.left = picked /\ rotation'.phase = "moving" /\ rotation'.stamp = s
  BY <1>1
<1>5. \A l : l \in rotation'.lines
        <=> \E c \in picked : l = [name |-> c, hash |-> file_hash(c, bench[c])]
  BY <1>1
<1>6. TypeOK'
  <2>1. rotation'.lines \in SUBSET Line
    BY <1>3, <1>5 DEF Line
  <2>2. picked \in SUBSET Contracts
    BY <1>3
  <2>3. rotation' \in [phase : {"idle", "moving", "writing"}, stamp : Stamps \cup {Absent},
                       lines : SUBSET Line, left : SUBSET Contracts]
    BY <1>1, <2>1, <2>2
  <2> QED  BY <1>2, <1>4, <2>3 DEF IInv, TypeOK
<1>7. LeftAreChosen'
  <2> SUFFICES ASSUME NEW c \in picked
               PROVE  \E l \in rotation'.lines : l.name = c
    BY <1>4 DEF LeftAreChosen
  <2>1. [name |-> c, hash |-> file_hash(c, bench[c])] \in rotation'.lines
    BY <1>1
  <2> QED  BY <2>1
<1>8. LinesAreRight'
  <2> SUFFICES ASSUME NEW l \in rotation'.lines
               PROVE  /\ l.name \in rotation'.left
                      /\ bench'[l.name] # Absent /\ l.hash = file_hash(l.name, bench'[l.name])
    BY DEF LinesAreRight, Intact, file_hash
  <2> QED  BY <1>2, <1>3, <1>4, <1>5, RotationAssumption
<1>9. LinesAreNew'
  BY <1>2, <1>3, <1>5 DEF LinesAreNew, already_held, Lines
<1>10. WritesLast' /\ VerifyAccusesRightly' /\ LoggedOnce'
  BY <1>2, <1>4, Accusations
     DEF IInv, WritesLast, VerifyAccusesRightly, problems, Intact, Lines, LoggedOnce
<1> QED  BY <1>6, <1>7, <1>8, <1>9, <1>10 DEF IInv

LEMMA MoveIInv ==
  ASSUME IInv, NEW c \in Contracts, Move(c)
  PROVE  IInv'
<1>1. /\ rotation.phase = "moving" /\ c \in rotation.left
      /\ held' = [held EXCEPT ![c] = bench[c]]
      /\ bench' = [bench EXCEPT ![c] = Absent]
      /\ rotation' = [rotation EXCEPT !.left = @ \ {c}]
      /\ touched' = touched \ {c}
      /\ manifest' = manifest
  BY DEF Move
<1>2. /\ rotation'.phase = "moving" /\ rotation'.stamp = rotation.stamp
      /\ rotation'.lines = rotation.lines /\ rotation'.left = rotation.left \ {c}
  BY <1>1 DEF IInv, TypeOK
<1>3. TypeOK'
  BY <1>1, <1>2 DEF IInv, TypeOK
<1>4. bench[c] \in Texts \cup {Absent}
  BY DEF IInv, TypeOK
<1>5. LeftAreChosen'
  BY <1>2 DEF IInv, LeftAreChosen
<1>6. LinesAreRight'
  <2> SUFFICES ASSUME NEW l \in rotation.lines
               PROVE  IF l.name \in rotation.left \ {c}
                      THEN bench'[l.name] # Absent /\ l.hash = file_hash(l.name, bench'[l.name])
                      ELSE Intact(l)' \/ l.name \in touched'
    BY <1>2 DEF LinesAreRight
  <2>1. l \in Line /\ l.name \in Contracts
    BY DEF IInv, TypeOK, Line
  <2>2. CASE l.name = c
    <3>1. bench[c] # Absent /\ l.hash = file_hash(c, bench[c])
      BY <1>1, <2>2 DEF IInv, LinesAreRight
    <3>2. held'[c] = bench[c]
      BY <1>1 DEF IInv, TypeOK
    <3> QED  BY <2>2, <3>1, <3>2 DEF Intact
  <2>3. CASE l.name # c /\ l.name \in rotation.left
    <3>1. bench'[l.name] = bench[l.name]
      BY <1>1, <2>1, <2>3 DEF IInv, TypeOK
    <3> QED  BY <2>3, <3>1 DEF IInv, LinesAreRight
  <2>4. CASE l.name \notin rotation.left
    <3>1. l.name # c
      BY <1>1, <2>4
    <3>2. Intact(l) \/ l.name \in touched
      BY <2>4 DEF IInv, LinesAreRight
    <3> QED  BY <1>1, <1>4, <2>1, <2>4, <3>1, <3>2, StaysRight DEF IInv
  <2> QED  BY <2>2, <2>3, <2>4
<1>7. LinesAreNew' /\ WritesLast' /\ LoggedOnce'
  BY <1>1, <1>2 DEF IInv, LinesAreNew, WritesLast, LoggedOnce
<1>8. VerifyAccusesRightly'
  <2> SUFFICES ASSUME NEW s \in Stamps, NEW l \in manifest[s]
               PROVE  Intact(l)' \/ l.name \in touched'
    BY <1>1 DEF VerifyAccusesRightly, problems, Lines, Intact
  <2>1. l \in Line
    BY DEF IInv, TypeOK
  <2>2. l.name # c
    BY <1>1 DEF IInv, LeftAreChosen, LinesAreNew
  <2>3. Intact(l) \/ l.name \in touched
    BY Accusations DEF IInv
  <2> QED  BY <1>1, <1>4, <2>1, <2>2, <2>3, StaysRight DEF IInv
<1> QED  BY <1>3, <1>5, <1>6, <1>7, <1>8 DEF IInv

LEMMA OpenIInv ==
  ASSUME IInv, OpenManifest
  PROVE  IInv'
<1>1. /\ rotation.phase = "moving" /\ rotation.left = {}
      /\ manifest' = [manifest EXCEPT ![rotation.stamp] = {}]
      /\ rotation' = [rotation EXCEPT !.phase = "writing"]
      /\ UNCHANGED <<bench, held, touched>>
  BY DEF OpenManifest
<1>2. /\ rotation'.phase = "writing" /\ rotation'.stamp = rotation.stamp
      /\ rotation'.lines = rotation.lines /\ rotation'.left = {}
  BY <1>1 DEF IInv, TypeOK
<1>3. rotation.stamp \in Stamps
  BY <1>1 DEF IInv, TypeOK
<1>4. /\ manifest'[rotation.stamp] = {}
      /\ \A s \in Stamps : manifest'[s] \subseteq manifest[s]
  BY <1>1, <1>3 DEF IInv, TypeOK
<1>5. TypeOK'
  BY <1>1, <1>2, <1>3 DEF IInv, TypeOK
<1>6. LeftAreChosen' /\ LinesAreRight' /\ LinesAreNew' /\ WritesLast'
  BY <1>1, <1>2, <1>4 DEF IInv, LeftAreChosen, LinesAreRight, LinesAreNew, WritesLast, Intact
<1>7. VerifyAccusesRightly'
  BY <1>1, <1>4 DEF IInv, VerifyAccusesRightly, problems, Lines, Intact
<1>8. LoggedOnce'
  BY <1>4 DEF IInv, LoggedOnce
<1> QED  BY <1>5, <1>6, <1>7, <1>8 DEF IInv

LEMMA WriteIInv ==
  ASSUME IInv, WriteManifest
  PROVE  IInv'
<1>1. /\ rotation.phase = "writing"
      /\ manifest' = [manifest EXCEPT ![rotation.stamp] = rotation.lines]
      /\ rotation' = Idle
      /\ UNCHANGED <<bench, held, touched>>
  BY DEF WriteManifest
<1>2. rotation.stamp \in Stamps /\ rotation.left = {} /\ manifest[rotation.stamp] = {}
  BY <1>1 DEF IInv, TypeOK, WritesLast
<1>3. \A s \in Stamps :
        manifest'[s] = IF s = rotation.stamp THEN rotation.lines ELSE manifest[s]
  BY <1>1, <1>2 DEF IInv, TypeOK
<1>4. TypeOK'
  BY <1>1, <1>2 DEF IInv, TypeOK, Idle
<1>5. LeftAreChosen' /\ LinesAreRight' /\ LinesAreNew' /\ WritesLast'
  BY <1>1 DEF LeftAreChosen, LinesAreRight, LinesAreNew, WritesLast, Idle
<1>6. VerifyAccusesRightly'
  <2> SUFFICES ASSUME NEW s \in Stamps, NEW l \in manifest'[s]
               PROVE  Intact(l) \/ l.name \in touched
    BY <1>1 DEF VerifyAccusesRightly, problems, Lines, Intact
  <2>1. CASE s = rotation.stamp
    BY <1>2, <1>3, <2>1 DEF IInv, LinesAreRight
  <2>2. CASE s # rotation.stamp
    BY <1>3, <2>2, Accusations DEF IInv
  <2> QED  BY <2>1, <2>2
<1>7. LoggedOnce'
  BY <1>2, <1>3 DEF IInv, LinesAreNew, LoggedOnce
<1> QED  BY <1>4, <1>5, <1>6, <1>7 DEF IInv

LEMMA KillIInv ==
  ASSUME IInv, Kill
  PROVE  IInv'
<1>1. rotation' = Idle /\ UNCHANGED <<bench, held, manifest, touched>>
  BY DEF Kill
<1>2. TypeOK'
  BY <1>1 DEF IInv, TypeOK, Idle
<1>3. LeftAreChosen' /\ LinesAreRight' /\ LinesAreNew' /\ WritesLast'
  BY <1>1 DEF LeftAreChosen, LinesAreRight, LinesAreNew, WritesLast, Idle
<1>4. VerifyAccusesRightly' /\ LoggedOnce'
  BY <1>1 DEF IInv, VerifyAccusesRightly, problems, Lines, Intact, LoggedOnce
<1> QED  BY <1>2, <1>3, <1>4 DEF IInv

LEMMA EditBenchIInv ==
  ASSUME IInv, NEW c \in Contracts, EditBench(c)
  PROVE  IInv'
<1>1. PICK t \in Texts : bench' = [bench EXCEPT ![c] = t]
  BY DEF EditBench
<1>2. rotation = Idle /\ UNCHANGED <<held, manifest, rotation, touched>>
  BY DEF EditBench, IInv, WritesLast
<1>3. TypeOK'
  BY <1>1, <1>2 DEF IInv, TypeOK
<1>4. LeftAreChosen' /\ LinesAreRight' /\ LinesAreNew' /\ WritesLast'
  BY <1>2 DEF LeftAreChosen, LinesAreRight, LinesAreNew, WritesLast, Idle
<1>5. VerifyAccusesRightly' /\ LoggedOnce'
  BY <1>2 DEF IInv, VerifyAccusesRightly, problems, Lines, Intact, LoggedOnce
<1> QED  BY <1>3, <1>4, <1>5 DEF IInv

LEMMA TamperIInv ==
  ASSUME IInv, NEW c \in Contracts, Tamper(c)
  PROVE  IInv'
<1>1. PICK t \in Texts \cup {Absent} : held' = [held EXCEPT ![c] = t]
  BY DEF Tamper
<1>2. touched' = touched \cup {c} /\ UNCHANGED <<bench, manifest, rotation>>
  BY DEF Tamper
<1>3. TypeOK'
  BY <1>1, <1>2 DEF IInv, TypeOK
<1>4. \A l \in Line : Intact(l) \/ l.name \in touched => Intact(l)' \/ l.name \in touched'
  BY <1>1, <1>2, StaysRight DEF IInv
<1>5. LeftAreChosen' /\ LinesAreNew' /\ WritesLast' /\ LoggedOnce'
  BY <1>2 DEF IInv, LeftAreChosen, LinesAreNew, WritesLast, LoggedOnce
<1>6. LinesAreRight'
  BY <1>2, <1>4 DEF IInv, TypeOK, LinesAreRight
<1>7. VerifyAccusesRightly'
  <2> SUFFICES ASSUME NEW s \in Stamps, NEW l \in manifest[s]
               PROVE  Intact(l)' \/ l.name \in touched'
    BY <1>2 DEF VerifyAccusesRightly, problems, Lines, Intact
  <2> QED  BY <1>4, Accusations DEF IInv, TypeOK
<1> QED  BY <1>3, <1>5, <1>6, <1>7 DEF IInv

LEMMA NextIInv == IInv /\ [Next]_files => IInv'
<1> SUFFICES ASSUME IInv, [Next]_files PROVE IInv'
  OBVIOUS
<1>1. CASE Rotate
  BY <1>1, BeginIInv, MoveIInv, OpenIInv, WriteIInv, KillIInv DEF Rotate
<1>2. CASE Around
  BY <1>2, EditBenchIInv, TamperIInv DEF Around
<1>3. CASE UNCHANGED files
  BY <1>3 DEF files, IInv, TypeOK, LeftAreChosen, LinesAreRight, LinesAreNew, WritesLast,
              VerifyAccusesRightly, problems, Lines, Intact, LoggedOnce
<1> QED  BY <1>1, <1>2, <1>3 DEF Next

-----------------------------------------------------------------------------
LEMMA Inductive == Spec => []IInv
BY InitIInv, NextIInv, PTL DEF Spec

(* The files, the manifests and the rotation keep their types.             *)
THEOREM TypeCorrect == Spec => []TypeOK
BY Inductive, PTL DEF IInv

(* rotate --verify accuses nothing but files somebody has changed, wherever *)
(* rotations were killed and however they were run again (rotate, verify). *)
THEOREM AccusedWereTouched == Spec => []VerifyAccusesRightly
BY Inductive, PTL DEF IInv

(* A contract is logged in one manifest, and once (choose, already_held).  *)
THEOREM WithheldAtOneDate == Spec => []LoggedOnce
BY Inductive, PTL DEF IInv

-----------------------------------------------------------------------------
(* A training set is built beside the rotations and leaves them alone.     *)
LEMMA BesideRotations == CSpec => Spec
<1>1. CInit => Init
  BY DEF CInit
<1>2. [CNext]_vars => [Next]_files
  BY DEF CNext, Build, vars, files
<1> QED  BY <1>1, <1>2, PTL DEF CSpec, Spec

LEMMA Least ==
  ASSUME NEW T \in SUBSET Nat, T # {}
  PROVE  \E m \in T : \A n \in T : m <= n
<1> DEFINE R == OpToRel(<, Nat)
<1>1. IsWellFoundedOn(R, Nat)
  BY NatLessThanWellFounded
<1>2. \A a, b \in Nat : <<a, b>> \in R <=> a < b
  BY DEF OpToRel
<1> HIDE DEF R
<1>3. PICK m \in T : \A n \in T : ~(<<n, m>> \in R)
  BY <1>1, WFMin
<1>4. m \in Nat /\ \A n \in T : n \in Nat
  OBVIOUS
<1>5. ASSUME NEW n \in T
      PROVE  m <= n
  <2>1. ~(n < m)
    BY <1>2, <1>3, <1>4
  <2> QED  BY <1>4, <2>1
<1> QED  BY <1>5

-----------------------------------------------------------------------------
(* The score is one of the 200 points, whatever verdicts and costs say.    *)
LEMMA Scores ==
  ASSUME NEW r \in Row
  PROVE  Value(r) \in Nat /\ Value(r) <= 200
<1> DEFINE o == Label(r)
           e == efficiency(o.cost)
           s2 == Share(o.v2, W_V2)
           s3 == Share(o.v3, W_V3)
<1>1. o.v1 \in BOOLEAN /\ o.cost \in Nat \cup {None}
  BY ConsolidateAssumption DEF Label, Row
<1>2. e \in 0 .. 20
  <2>1. CASE o.cost = None
    BY <2>1 DEF efficiency, W_COST
  <2>2. CASE o.cost # None
    <3> DEFINE c == o.cost
    <3>1. c \in Nat
      BY <1>1, <2>2
    <3>2. e = IF c > 100 THEN 0 ELSE (20 * (100 - c)) \div 100
      BY <2>2 DEF efficiency, W_COST
    <3> HIDE DEF c, e
    <3> QED  BY <3>1, <3>2
  <2> QED  BY <2>1, <2>2
<1>3. s2 \in 0 .. 50
  BY DEF Share, W_V2
<1>4. s3 \in 0 .. 30
  BY DEF Share, W_V3
<1>5. Sum(o) = (IF o.v1 THEN 100 ELSE 0) + s2 + s3 + e
  BY DEF Sum, W_V1
<1>6. Value(r) = IF ~o.v1 /\ Sum(o) > 50 THEN 50 ELSE Sum(o)
  BY DEF Value, score_outcome
<1> HIDE DEF o, e, s2, s3
<1>7. CASE o.v1
  BY <1>2, <1>3, <1>4, <1>5, <1>6, <1>7 DEF o
<1>8. CASE ~o.v1
  BY <1>2, <1>3, <1>4, <1>5, <1>6, <1>8 DEF o
<1> QED  BY <1>7, <1>8

LEMMA LiveFacts ==
  ASSUME NEW rows \in Seq(Row)
  PROVE  /\ Live(rows) \subseteq DOMAIN rows /\ IsFiniteSet(Live(rows))
         /\ \A i \in Live(rows) : rows[i] \in Row /\ Value(rows[i]) \in Nat /\ Value(rows[i]) <= 200
         /\ Cardinality(Live(rows)) \in Nat
<1>1. DOMAIN rows = 1 .. Len(rows) /\ Len(rows) \in Nat
  BY LenProperties
<1>2. Live(rows) \in SUBSET (1 .. Len(rows))
  BY <1>1 DEF Live
<1>3. IsFiniteSet(Live(rows))
  <2>1. IsFiniteSet(1 .. Len(rows))
    BY <1>1, FS_Interval
  <2> QED  BY <1>2, <2>1, FS_Subset
<1>4. \A i \in 1 .. Len(rows) : rows[i] \in Row
  BY <1>1, ElementOfSeq
<1> QED  BY <1>1, <1>2, <1>3, <1>4, Scores, FS_CardinalityType

(* The quantile's index: among n rows it is the one at three fifths.       *)
LEMMA Index ==
  ASSUME NEW n \in Nat \ {0}
  PROVE  CutIndex(n) = (n * 60) \div 100 /\ CutIndex(n) \in 0 .. n - 1
BY DEF CutIndex

(* There is a row at the quantile: the least value that more rows than     *)
(* the index do not exceed is the value of one of them.                    *)
LEMMA CutExists ==
  ASSUME NEW rows \in Seq(Row), Live(rows) # {}
  PROVE  \E c \in Live(rows) : IsCut(rows, c)
<1> DEFINE L == Live(rows)
           n == Cardinality(L)
           k == CutIndex(n)
           V(i) == Value(rows[i])
           Upto(v) == {j \in L : V(j) <= v}
           Below(v) == {j \in L : V(j) < v}
           T == {v \in Nat : Cardinality(Upto(v)) > k}
<1>1. IsFiniteSet(L) /\ L # {} /\ \A i \in L : V(i) \in Nat /\ V(i) <= 200
  <2>1. IsFiniteSet(L) /\ L # {}
    BY LiveFacts
  <2>2. \A i \in L : V(i) \in Nat /\ V(i) <= 200
    BY LiveFacts
  <2> QED  BY <2>1, <2>2
<1>2. n \in Nat \ {0} /\ k \in Nat /\ k < n
  <2> HIDE DEF L
  <2>1. n \in Nat /\ n # 0
    BY <1>1, FS_EmptySet, FS_CardinalityType
  <2> HIDE DEF n
  <2>2. k \in 0 .. n - 1
    BY <2>1, Index
  <2> QED  BY <2>1, <2>2
<1> HIDE DEF L, n, k, V
<1>3. \A v : IsFiniteSet(Upto(v)) /\ IsFiniteSet(Below(v))
  <2> TAKE v
  <2>1. Upto(v) \in SUBSET L /\ Below(v) \in SUBSET L
    OBVIOUS
  <2> QED  BY <1>1, <2>1, FS_Subset
<1>4. 200 \in T
  <2>1. Upto(200) = L
    BY <1>1
  <2> QED  BY <1>2, <2>1 DEF n
<1>5. PICK m \in T : \A v \in T : m <= v
  BY <1>4, Least
<1>6. m \in Nat /\ Cardinality(Upto(m)) > k
  OBVIOUS
<1>7. Cardinality(Below(m)) <= k
  <2>1. CASE m = 0
    <3>1. Below(m) = {}
      BY <1>1, <2>1
    <3>2. Cardinality(Below(m)) = 0
      BY <3>1, FS_EmptySet
    <3> QED  BY <1>2, <3>2
  <2>2. CASE m # 0
    <3>1. m - 1 \in Nat /\ ~(m <= m - 1)
      BY <1>6, <2>2
    <3>2. Below(m) = Upto(m - 1)
      BY <1>1, <1>6, <3>1
    <3>3. m - 1 \notin T
      BY <1>5, <3>1
    <3>4. ~(Cardinality(Upto(m - 1)) > k)
      BY <3>1, <3>3
    <3>5. Cardinality(Below(m)) = Cardinality(Upto(m - 1))
      BY <3>2
    <3>6. Cardinality(Upto(m - 1)) \in Nat
      BY <1>3, FS_CardinalityType
    <3> HIDE DEF Below, Upto
    <3> QED  BY <1>2, <3>4, <3>5, <3>6
  <2> QED  BY <2>1, <2>2
<1>8. \E c \in L : V(c) = m
  <2> SUFFICES ASSUME \A c \in L : V(c) # m
               PROVE  FALSE
    OBVIOUS
  <2>1. Below(m) = Upto(m)
    BY <1>1, <1>6
  <2>2. Cardinality(Upto(m)) \in Nat
    BY <1>3, FS_CardinalityType
  <2>3. Cardinality(Upto(m)) <= k
    BY <1>7, <2>1
  <2> HIDE DEF Below, Upto
  <2> QED  BY <1>2, <1>6, <2>2, <2>3
<1> QED  BY <1>6, <1>7, <1>8 DEF IsCut, L, n, k, V

-----------------------------------------------------------------------------
(* What is kept: at least as many rows as are not below the quantile.      *)
LEMMA KeptEnough ==
  ASSUME NEW rows \in Seq(Row)
  PROVE  LET live == Live(rows)
         IN  Cardinality(advantage_filter(rows))
                >= Cardinality(live) - (Cardinality(live) * 60) \div 100
<1> DEFINE L == Live(rows)
           K == advantage_filter(rows)
           n == Cardinality(L)
           q == (n * 60) \div 100
<1>1. IsFiniteSet(L) /\ n \in Nat
  BY LiveFacts
<1>2. K \in SUBSET L
  BY DEF advantage_filter
<1>3. IsFiniteSet(K) /\ Cardinality(K) \in Nat
  <2> HIDE DEF L, K
  <2> QED  BY <1>1, <1>2, FS_Subset, FS_CardinalityType
<1>4. CASE L = {}
  <2> HIDE DEF L, K
  <2>1. n = 0
    BY <1>4, FS_EmptySet
  <2> HIDE DEF n
  <2>2. n - q = 0
    BY <2>1
  <2> QED  BY <1>3, <2>2 DEF n, L, K
<1>5. CASE L # {}
  <2>1. PICK c \in L : IsCut(rows, c)
    BY <1>5, CutExists
  <2> DEFINE V(i) == Value(rows[i])
             B == {j \in L : V(j) < V(c)}
             U == {j \in L : V(j) >= V(c)}
  <2>2. \A i \in L : V(i) \in Nat
    BY LiveFacts
  <2>3. Cardinality(B) <= CutIndex(n)
    BY <2>1 DEF IsCut
  <2>4. U \subseteq K
    BY <2>1 DEF advantage_filter
  <2> HIDE DEF L, K, V
  <2>5. B \cup U = L /\ B \cap U = {} /\ B \in SUBSET L /\ U \in SUBSET L /\ U \in SUBSET K
    <3>1. \A j \in L : ~(V(j) < V(c)) <=> V(j) >= V(c)
      BY <2>2
    <3> QED  BY <2>4, <3>1
  <2> HIDE DEF B, U
  <2>6. IsFiniteSet(B) /\ IsFiniteSet(U) /\ Cardinality(U) <= Cardinality(K)
    BY <1>1, <1>3, <2>5, FS_Subset
  <2>7. n = Cardinality(B) + Cardinality(U) - Cardinality({})
    BY <2>5, <2>6, FS_Union
  <2>8. Cardinality(B) \in Nat /\ Cardinality(U) \in Nat /\ Cardinality({}) = 0
    BY <2>6, FS_CardinalityType, FS_EmptySet
  <2>9. n # 0
    BY <1>1, <1>5, FS_EmptySet
  <2> DEFINE b == Cardinality(B)
             u == Cardinality(U)
             m == Cardinality(K)
  <2> HIDE DEF n
  <2>10. CutIndex(n) = q /\ CutIndex(n) \in 0 .. n - 1
    BY <1>1, <2>9, Index
  <2>11. b \in Nat /\ u \in Nat /\ m \in Nat /\ n \in Nat /\ q \in Nat /\ b <= q /\ u <= m /\ n = b + u
    BY <1>1, <1>3, <2>3, <2>6, <2>7, <2>8, <2>10
  <2> HIDE DEF b, u, m, q
  <2>12. m >= n - q
    BY <2>11
  <2> QED  BY <2>12 DEF m, n, q, L, K
<1> QED  BY <1>4, <1>5

-----------------------------------------------------------------------------
(* What is in a training set is what the filter kept of its rows.          *)
BInv ==
    /\ built.rows \in Seq(Row) /\ Len(built.rows) <= MaxRows
    /\ built.kept = advantage_filter(built.rows)

LEMMA NothingBuilt ==
  ASSUME built = NotBuilt
  PROVE  BInv
<1>1. << >> \in Seq(Row) /\ Len(<< >>) = 0
  BY EmptySeq
<1>2. advantage_filter(<< >>) = {}
  BY DEF advantage_filter, Live
<1> QED  BY <1>1, <1>2, ConsolidateAssumption DEF BInv, NotBuilt

LEMMA BuildHolds ==
  ASSUME Build
  PROVE  BInv'
<1>1. PICK n \in 0 .. MaxRows : \E rows \in [1 .. n -> Scored] :
        built' = [rows |-> rows, kept |-> advantage_filter(rows)]
  BY DEF Build
<1>2. PICK rows \in [1 .. n -> Scored] :
        built' = [rows |-> rows, kept |-> advantage_filter(rows)]
  BY <1>1
<1>3. n \in Nat /\ n <= MaxRows
  BY ConsolidateAssumption
<1>4. rows \in [1 .. n -> Row]
  BY DEF Scored
<1>5. rows \in Seq(Row) /\ Len(rows) = n
  BY <1>3, <1>4, SeqDef, LenProperties
<1>6. built'.rows = rows /\ built'.kept = advantage_filter(rows)
  BY <1>2
<1>7. advantage_filter(built.rows)' = advantage_filter(rows)
  BY <1>6 DEF advantage_filter, Live, IsCut
<1> QED  BY <1>3, <1>5, <1>6, <1>7 DEF BInv

LEMMA BuiltRight == CSpec => []BInv
<1>1. CInit => BInv
  BY NothingBuilt DEF CInit
<1>2. BInv /\ [CNext]_vars => BInv'
  <2> SUFFICES ASSUME BInv, [CNext]_vars
               PROVE  BInv'
    OBVIOUS
  <2>1. CASE Build
    BY <2>1, BuildHolds
  <2>2. CASE built' = NotBuilt
    <3>1. built'.rows = << >> /\ built'.kept = {}
      BY <2>2 DEF NotBuilt
    <3>2. << >> \in Seq(Row) /\ Len(<< >>) = 0 /\ 0 <= MaxRows
      BY EmptySeq, ConsolidateAssumption
    <3>3. advantage_filter(built.rows)' = {}
      BY <3>1 DEF advantage_filter, Live
    <3> QED  BY <3>1, <3>2, <3>3 DEF BInv
  <2>3. CASE UNCHANGED vars
    BY <2>3 DEF vars, BInv
  <2> QED  BY <2>1, <2>2, <2>3 DEF CNext
<1> QED  BY <1>1, <1>2, PTL DEF CSpec

(* Training sets are of rows of the query, and rotations keep their types  *)
(* beside them.                                                            *)
THEOREM DatasetsTyped == CSpec => [](TypeOK /\ BuiltTypeOK)
<1>1. BInv => BuiltTypeOK
  <2> SUFFICES ASSUME BInv
               PROVE  built.kept \subseteq DOMAIN built.rows
    BY DEF BInv, BuiltTypeOK
  <2>1. Live(built.rows) \subseteq DOMAIN built.rows
    BY DEF Live
  <2> QED  BY <2>1 DEF BInv, advantage_filter
<1> QED  BY <1>1, BuiltRight, BesideRotations, TypeCorrect, PTL

(* What a rotation promises it keeps while training sets are built.        *)
THEOREM RotationsHold == CSpec => [](VerifyAccusesRightly /\ LoggedOnce)
BY BesideRotations, AccusedWereTouched, WithheldAtOneDate, PTL

(* The filter keeps at least the share asked for, and all it keeps scores  *)
(* higher than all it drops, for any rows (advantage_filter).              *)
THEOREM TopIsKept == CSpec => []KeepsTheTop
<1>1. BInv => KeepsTheTop
  <2> SUFFICES ASSUME BInv
               PROVE  KeepsTheTop
    OBVIOUS
  <2> DEFINE rows == built.rows
  <2>1. rows \in Seq(Row) /\ built.kept = advantage_filter(rows)
    BY DEF BInv
  <2>2. Cardinality(built.kept)
            >= Cardinality(Live(rows)) - (Cardinality(Live(rows)) * 60) \div 100
    BY <2>1, KeptEnough
  <2>3. ASSUME NEW i \in built.kept, NEW j \in Live(rows) \ built.kept
        PROVE  Value(rows[i]) > Value(rows[j])
    <3>1. i \in Live(rows)
      BY <2>1 DEF advantage_filter
    <3>2. PICK c \in Live(rows) : IsCut(rows, c) /\ Value(rows[i]) >= Value(rows[c])
      BY <2>1 DEF advantage_filter
    <3>3. ~(Value(rows[j]) >= Value(rows[c]))
      BY <2>1, <3>2 DEF advantage_filter
    <3>4. Value(rows[i]) \in Nat /\ Value(rows[j]) \in Nat /\ Value(rows[c]) \in Nat
      BY <2>1, <3>1, <3>2, LiveFacts
    <3> QED  BY <3>2, <3>3, <3>4
  <2> QED  BY <2>2, <2>3 DEF KeepsTheTop
<1> QED  BY <1>1, BuiltRight, PTL
=============================================================================
