-------------------------- MODULE Executive_proofs --------------------------
(***************************************************************************)
(* Who answers an event, and what is acted on: proofs about PolicyStore,   *)
(* and after them about Wake, for any processes, patches, verbs,           *)
(* answers and bounds.  That a process has a reflex is a matter of what    *)
(* was written to the file, by whom and when; that a wake acts is one of   *)
(* what the executive of record said last.                                 *)
(***************************************************************************)
EXTENDS PolicyStore, Wake, SequenceTheorems, FiniteSetTheorems, WellFoundedInduction, TLAPS

(* A reflex was put in the file by hand, or the executive wrote it, with   *)
(* the time and the ttl it was written with.                               *)
Traced(r) ==
    \/ r.no = 0
    \/ /\ r.author = "executive" /\ r.no \in DOMAIN wrote
       /\ r.created = wrote[r.no].ts /\ r.ttl = wrote[r.no].ttl /\ r.ttl > 0

Loaded(r) == Traced(r) /\ r.author = "executive"

AllTraced ==
    /\ \A i \in DOMAIN wrote : wrote[i].ts <= wrote[i].at
    /\ file # Garbled => \A r \in Elements(file) : Traced(r)
    /\ \A p \in Processes :
        /\ \A r \in Elements(proc[p].reflexes) : Loaded(r)
        /\ proc[p].ts <= clock

Holds(s, no) == \E r \in Elements(s) : r.no = no

(* While processes follow one another and no save is disturbed, what is    *)
(* saved and alive is in the memory of who is up, and in the file unless   *)
(* it is being written.                                                    *)
Saving(p) == proc[p].phase = "saving"

Kept ==
    ~overlapped =>
        /\ \A p, q \in Processes : Up(p) /\ Up(q) => p = q
        /\ \A p \in Processes : Saving(p) => file = << >>
        /\ file # Garbled
        /\ \A no \in {n \in saved : Alive(n)} :
            /\ \A p \in Processes : Up(p) => Holds(proc[p].reflexes, no)
            /\ (\A p \in Processes : ~Saving(p)) => Holds(file, no)

PInv == TypeOK /\ AllTraced /\ Kept

-----------------------------------------------------------------------------
LEMMA Least ==
  ASSUME NEW T \in SUBSET Nat, T # {}
  PROVE  \E m \in T : \A n \in T : m <= n
<1> DEFINE R == OpToRel(<, Nat)
<1>1. IsWellFoundedOn(R, Nat)
  BY NatLessThanWellFounded
<1>2. \A a, b \in Nat : <<a, b>> \in R <=> a < b
  BY DEF OpToRel
<1> HIDE DEF R
<1>3. PICK m \in T : \A n \in T : ~(<<n, m>> \in R)
  BY <1>1, WFMin
<1>4. \A n \in T : ~(n < m) /\ n \in Nat
  BY <1>2, <1>3
<1> QED  BY <1>4

(* The k-th of a set of positions has k of them up to it.                  *)
UpTo(I, i) == {j \in I : j <= i}

LEMMA UpToFacts ==
  ASSUME NEW n \in Nat, NEW I \in SUBSET (1 .. n)
  PROVE  /\ IsFiniteSet(I) /\ Cardinality(I) \in Nat
         /\ \A i \in Nat : IsFiniteSet(UpTo(I, i)) /\ Cardinality(UpTo(I, i)) \in Nat
         /\ \A i \in Nat : Cardinality(UpTo(I, i)) <= Cardinality(I)
         /\ \A i \in Nat : \A j \in I :
                i < j => Cardinality(UpTo(I, i)) < Cardinality(UpTo(I, j))
<1>1. IsFiniteSet(I) /\ Cardinality(I) \in Nat /\ \A j \in I : j \in Nat
  <2>1. IsFiniteSet(1 .. n)
    BY FS_Interval
  <2>2. IsFiniteSet(I)
    BY <2>1, FS_Subset
  <2>3. \A j \in I : j \in 1 .. n
    OBVIOUS
  <2> QED  BY <2>2, <2>3, FS_CardinalityType
<1>2. ASSUME NEW i \in Nat
      PROVE  /\ IsFiniteSet(UpTo(I, i)) /\ Cardinality(UpTo(I, i)) \in Nat
             /\ Cardinality(UpTo(I, i)) <= Cardinality(I)
  <2>1. UpTo(I, i) \in SUBSET I
    BY DEF UpTo
  <2> QED  BY <1>1, <2>1, FS_Subset, FS_CardinalityType
<1>3. ASSUME NEW i \in Nat, NEW j \in I, i < j
      PROVE  Cardinality(UpTo(I, i)) < Cardinality(UpTo(I, j))
  <2>1. j \in Nat
    BY <1>1
  <2>2. UpTo(I, i) \in SUBSET UpTo(I, j) /\ j \in UpTo(I, j) /\ j \notin UpTo(I, i)
    <3>1. \A x \in I : x <= i => x <= j
      BY <1>1, <1>3, <2>1
    <3>2. j <= j /\ ~(j <= i)
      BY <1>3, <2>1
    <3> QED  BY <3>1, <3>2 DEF UpTo
  <2>3. IsFiniteSet(UpTo(I, j)) /\ UpTo(I, i) # UpTo(I, j)
    BY <1>2, <2>1, <2>2
  <2> QED  BY <1>2, <2>1, <2>2, <2>3, FS_Subset
<1> QED  BY <1>1, <1>2, <1>3

LEMMA NthFacts ==
  ASSUME NEW n \in Nat, NEW I \in SUBSET (1 .. n), NEW k \in 1 .. Cardinality(I)
  PROVE  Nth(I, k) \in I /\ Cardinality(UpTo(I, Nth(I, k))) = k
<1> DEFINE c(i) == Cardinality(UpTo(I, i))
           T == {i \in Nat : c(i) >= k}
<1>0. \A j \in I : j \in Nat /\ 1 <= j /\ j <= n
  <2>1. \A j \in I : j \in 1 .. n
    OBVIOUS
  <2> QED  BY <2>1
<1>1. /\ Cardinality(I) \in Nat /\ k \in Nat /\ k > 0 /\ k <= Cardinality(I)
      /\ \A i \in Nat : c(i) \in Nat
  <2>1. Cardinality(I) \in Nat /\ \A i \in Nat : c(i) \in Nat
    BY UpToFacts
  <2> HIDE DEF c
  <2> QED  BY <2>1
<1>2. n \in T
  <2>1. UpTo(I, n) = I
    BY <1>0 DEF UpTo
  <2> QED  BY <1>1, <2>1
<1>3. PICK m \in T : \A i \in T : m <= i
  <2>1. T \in SUBSET Nat /\ T # {}
    BY <1>2
  <2> HIDE DEF T
  <2> QED  BY <2>1, Least
<1>4. m # 0
  <2>1. UpTo(I, 0) = {}
    <3>1. \A j \in I : ~(j <= 0)
      BY <1>0
    <3> QED  BY <3>1 DEF UpTo
  <2>2. c(0) = 0
    BY <2>1, FS_EmptySet
  <2> QED  BY <1>1, <2>2
<1>5. m \in Nat /\ m - 1 \in Nat /\ m - 1 < m
  BY <1>4
<1>6. c(m - 1) < k
  <2>1. m - 1 \notin T
    BY <1>3, <1>5
  <2> QED  BY <1>1, <1>5, <2>1
<1>7. m \in I
  <2> SUFFICES ASSUME m \notin I PROVE FALSE
    OBVIOUS
  <2>1. \A j \in I : j <= m <=> j <= m - 1
    BY <1>0, <1>5
  <2>2. UpTo(I, m) = UpTo(I, m - 1)
    BY <2>1 DEF UpTo
  <2> QED  BY <1>1, <1>5, <1>6, <2>2
<1>8. c(m) = k
  <2>1. UpTo(I, m) = UpTo(I, m - 1) \cup {m} /\ m \notin UpTo(I, m - 1)
    <3>1. \A j \in I : j <= m <=> j <= m - 1 \/ j = m
      BY <1>0, <1>5
    <3>2. m <= m /\ ~(m <= m - 1)
      BY <1>5
    <3> QED  BY <1>7, <3>1, <3>2 DEF UpTo
  <2>2. c(m) = c(m - 1) + 1
    BY <1>5, <2>1, UpToFacts, FS_AddElement
  <2> QED  BY <1>1, <1>5, <1>6, <2>2
<1>9. \E i \in I : Cardinality({j \in I : j <= i}) = k
  BY <1>7, <1>8 DEF UpTo
<1> QED  BY <1>9 DEF Nth, UpTo

(* At lists the positions in order, each of them once.                     *)
LEMMA NthOrder ==
  ASSUME NEW n \in Nat, NEW I \in SUBSET (1 .. n)
  PROVE  /\ \A k, l \in 1 .. Cardinality(I) : k <= l <=> Nth(I, k) <= Nth(I, l)
         /\ \A i \in I : \E k \in 1 .. Cardinality(I) : Nth(I, k) = i
<1>0. \A j \in I : j \in Nat /\ 0 < j
  <2>1. \A j \in I : j \in 1 .. n
    OBVIOUS
  <2> QED  BY <2>1
<1>1. /\ Cardinality(I) \in Nat
      /\ \A i \in Nat : Cardinality(UpTo(I, i)) \in Nat /\ Cardinality(UpTo(I, i)) <= Cardinality(I)
      /\ \A i \in Nat : \A j \in I :
            i < j => Cardinality(UpTo(I, i)) < Cardinality(UpTo(I, j))
  BY UpToFacts
<1>2. ASSUME NEW k \in 1 .. Cardinality(I)
      PROVE  Nth(I, k) \in I /\ Nth(I, k) \in Nat /\ Cardinality(UpTo(I, Nth(I, k))) = k
  <2>1. Nth(I, k) \in I /\ Cardinality(UpTo(I, Nth(I, k))) = k
    BY NthFacts
  <2> QED  BY <1>0, <2>1
<1>3. ASSUME NEW k \in 1 .. Cardinality(I), NEW l \in 1 .. Cardinality(I)
      PROVE  k <= l <=> Nth(I, k) <= Nth(I, l)
  <2>1. /\ Nth(I, k) \in I /\ Nth(I, k) \in Nat /\ Cardinality(UpTo(I, Nth(I, k))) = k
        /\ Nth(I, l) \in I /\ Nth(I, l) \in Nat /\ Cardinality(UpTo(I, Nth(I, l))) = l
    BY <1>2
  <2>2. /\ Nth(I, k) < Nth(I, l) => k < l
        /\ Nth(I, l) < Nth(I, k) => l < k
    BY <1>1, <2>1
  <2>3. k \in Nat /\ l \in Nat
    BY <1>1
  <2> QED  BY <2>1, <2>2, <2>3
<1>4. ASSUME NEW i \in I
      PROVE  \E k \in 1 .. Cardinality(I) : Nth(I, k) = i
  <2> DEFINE k == Cardinality(UpTo(I, i))
  <2>1. i \in Nat /\ UpTo(I, 0) = {}
    <3>1. \A j \in I : ~(j <= 0)
      BY <1>0
    <3> QED  BY <1>0, <3>1 DEF UpTo
  <2>2. 0 < i
    BY <1>0
  <2>3. k > 0
    BY <1>1, <2>1, <2>2, FS_EmptySet
  <2>4. k \in 1 .. Cardinality(I)
    BY <1>1, <2>1, <2>3
  <2>5. Nth(I, k) \in I /\ Nth(I, k) \in Nat /\ Cardinality(UpTo(I, Nth(I, k))) = k
    BY <1>2, <2>4
  <2>6. ~(Nth(I, k) < i) /\ ~(i < Nth(I, k))
    BY <1>1, <2>1, <2>5
  <2>7. Nth(I, k) = i
    BY <2>1, <2>5, <2>6
  <2> QED  BY <2>4, <2>7
<1> QED  BY <1>3, <1>4

LEMMA AtFacts ==
  ASSUME NEW S, NEW s \in Seq(S), NEW I \in SUBSET (DOMAIN s)
  PROVE  /\ At(s, I) \in Seq(S) /\ DOMAIN At(s, I) = 1 .. Cardinality(I)
         /\ \A k \in DOMAIN At(s, I) : Nth(I, k) \in I /\ At(s, I)[k] = s[Nth(I, k)]
         /\ \A i \in I : \E k \in DOMAIN At(s, I) : Nth(I, k) = i
         /\ \A k, l \in DOMAIN At(s, I) : k <= l <=> Nth(I, k) <= Nth(I, l)
         /\ Elements(At(s, I)) = {s[i] : i \in I}
<1>1. Len(s) \in Nat /\ DOMAIN s = 1 .. Len(s) /\ \A i \in DOMAIN s : s[i] \in S
  BY ElementOfSeq, LenProperties
<1>2. Cardinality(I) \in Nat
  BY <1>1, UpToFacts
<1>3. \A k \in 1 .. Cardinality(I) : Nth(I, k) \in I
  BY <1>1, NthFacts
<1> DEFINE a == At(s, I)
<1>4. /\ DOMAIN a = 1 .. Cardinality(I)
      /\ \A k \in 1 .. Cardinality(I) : a[k] = s[Nth(I, k)] /\ a[k] \in S
      /\ a = [k \in 1 .. Cardinality(I) |-> a[k]]
  BY <1>1, <1>3 DEF At
<1> HIDE DEF a
<1>5. a \in Seq(S)
  <2>1. a \in [1 .. Cardinality(I) -> S]
    BY <1>4
  <2> QED  BY <1>2, <2>1, SeqDef
<1>6. /\ \A i \in I : \E k \in 1 .. Cardinality(I) : Nth(I, k) = i
      /\ \A k, l \in 1 .. Cardinality(I) : k <= l <=> Nth(I, k) <= Nth(I, l)
  BY <1>1, NthOrder
<1>7. Elements(a) = {s[i] : i \in I}
  BY <1>3, <1>4, <1>6 DEF Elements
<1> QED  BY <1>3, <1>4, <1>5, <1>6, <1>7 DEF a

-----------------------------------------------------------------------------
(* Types, and where every reflex comes from.                               *)
ProcessState ==
    [phase : {"down", "refused", "idle", "waiting", "reflex", "deciding", "saving"},
     task : TaskTypes \cup {None}, reflexes : Seq(ReflexType), type : Types \cup {None}, ts : 0 .. MaxClock,
     by : ReflexType \cup {None}]

Written == [at : 0 .. MaxClock, ts : 0 .. MaxClock, ttl : {r.ttl : r \in Patches}]

LEMMA ElementsTyped ==
  ASSUME NEW S, NEW s \in Seq(S)
  PROVE  /\ \A i \in DOMAIN s : s[i] \in S /\ i \in Nat /\ i >= 1
         /\ Elements(s) \subseteq S
<1>1. Len(s) \in Nat /\ DOMAIN s = 1 .. Len(s) /\ \A i \in DOMAIN s : s[i] \in S
  BY ElementOfSeq, LenProperties
<1> QED  BY <1>1 DEF Elements

LEMMA EmptyTyped ==
  /\ << >> \in Seq(ReflexType) /\ Elements(<< >>) = {}
  /\ Down \in ProcessState /\ Down.phase = "down" /\ Down.reflexes = << >> /\ Down.ts = 0
<1>1. << >> \in Seq(ReflexType) /\ DOMAIN << >> = {}
  BY EmptySeq
<1>2. 0 \in 0 .. MaxClock
  BY PolicyAssumption
<1> QED  BY <1>1, <1>2 DEF Down, ProcessState, Elements

(* A process that is idle again, or for the first time.                    *)
LEMMA IdleTyped ==
  ASSUME NEW s \in Seq(ReflexType), NEW task \in TaskTypes \cup {None},
         NEW idle, idle = Idle(task, s)
  PROVE  idle \in ProcessState /\ idle.phase = "idle" /\ idle.reflexes = s /\ idle.ts = 0
BY EmptyTyped DEF ProcessState, Idle

LEMMA AppendElements ==
  ASSUME NEW S, NEW s \in Seq(S), NEW r \in S
  PROVE  Append(s, r) \in Seq(S) /\ Elements(Append(s, r)) = Elements(s) \cup {r}
<1> DEFINE a == Append(s, r)
<1>1. /\ a \in Seq(S) /\ Len(a) = Len(s) + 1
      /\ \A i \in 1 .. Len(s) : a[i] = s[i]
      /\ a[Len(s) + 1] = r
  BY AppendProperties
<1>2. Len(s) \in Nat /\ DOMAIN s = 1 .. Len(s) /\ DOMAIN a = 1 .. Len(a)
  BY <1>1, LenProperties
<1> HIDE DEF a
<1>3. /\ \A i \in DOMAIN a : i \in DOMAIN s \/ i = Len(s) + 1
      /\ \A i \in DOMAIN s : i \in DOMAIN a
      /\ Len(s) + 1 \in DOMAIN a
  BY <1>1, <1>2
<1>4. Elements(a) = Elements(s) \cup {r}
  BY <1>1, <1>2, <1>3 DEF Elements
<1> QED  BY <1>1, <1>4 DEF a

LEMMA JoinElements ==
  ASSUME NEW S, NEW s \in Seq(S), NEW u \in Seq(S)
  PROVE  s \o u \in Seq(S) /\ Elements(s \o u) = Elements(s) \cup Elements(u)
<1>1. /\ s \o u \in Seq(S) /\ Len(s \o u) = Len(s) + Len(u)
      /\ \A i \in 1 .. Len(s) : (s \o u)[i] = s[i]
      /\ \A i \in 1 .. Len(u) : (s \o u)[Len(s) + i] = u[i]
  BY ConcatProperties
<1>2. /\ Len(s) \in Nat /\ Len(u) \in Nat /\ DOMAIN s = 1 .. Len(s) /\ DOMAIN u = 1 .. Len(u)
      /\ DOMAIN (s \o u) = 1 .. Len(s) + Len(u)
  BY <1>1, LenProperties
<1> DEFINE w == s \o u
<1> HIDE DEF w
<1>3. ASSUME NEW k \in DOMAIN w PROVE w[k] \in Elements(s) \cup Elements(u)
  <2>1. CASE k <= Len(s)
    BY <1>1, <1>2, <1>3, <2>1 DEF Elements, w
  <2>2. CASE k > Len(s)
    <3>1. k - Len(s) \in 1 .. Len(u) /\ k = Len(s) + (k - Len(s))
      BY <1>2, <1>3, <2>2 DEF w
    <3> QED  BY <1>1, <1>2, <3>1 DEF Elements, w
  <2> QED  BY <1>2, <1>3, <2>1, <2>2 DEF w
<1>4. ASSUME NEW i \in DOMAIN s PROVE s[i] \in Elements(w)
  BY <1>1, <1>2, <1>4 DEF Elements, w
<1>5. ASSUME NEW i \in DOMAIN u PROVE u[i] \in Elements(w)
  <2>1. Len(s) + i \in DOMAIN w /\ w[Len(s) + i] = u[i]
    BY <1>1, <1>2, <1>5 DEF w
  <2> QED  BY <2>1 DEF Elements
<1> QED  BY <1>1, <1>3, <1>4, <1>5 DEF Elements, w

(* One process moves.                                                      *)
LEMMA BecomeFacts ==
  ASSUME TypeOK, NEW p \in Processes, NEW s \in ProcessState, Become(p, s)
  PROVE  /\ proc' \in [Processes -> ProcessState] /\ proc'[p] = s
         /\ \A q \in Processes : q # p => proc'[q] = proc[q]
BY DEF TypeOK, ProcessState, Become

LEMMA ProcessFacts ==
  ASSUME TypeOK, NEW p \in Processes
  PROVE  /\ proc[p] \in ProcessState /\ proc[p].reflexes \in Seq(ReflexType)
         /\ proc[p].ts \in 0 .. MaxClock /\ proc[p].task \in TaskTypes \cup {None}
BY DEF TypeOK, ProcessState

(* What the executive wrote stays written, and a reflex stays traced.      *)
LEMMA StaysTraced ==
  ASSUME TypeOK, NEW r, Traced(r),
         wrote' = wrote \/ \E w \in Written : wrote' = Append(wrote, w)
  PROVE  Traced(r)'
<1>1. wrote \in Seq(Written)
  BY DEF TypeOK, Written
<1>2. \A i \in DOMAIN wrote : i \in DOMAIN wrote' /\ wrote'[i] = wrote[i]
  <2>1. ASSUME NEW w \in Written, wrote' = Append(wrote, w)
        PROVE  \A i \in DOMAIN wrote : i \in DOMAIN wrote' /\ wrote'[i] = wrote[i]
    <3> DEFINE a == Append(wrote, w)
    <3>1. /\ Len(a) = Len(wrote) + 1 /\ a \in Seq(Written)
          /\ \A i \in 1 .. Len(wrote) : a[i] = wrote[i]
      BY <1>1, AppendProperties
    <3>2. Len(wrote) \in Nat /\ DOMAIN wrote = 1 .. Len(wrote) /\ DOMAIN a = 1 .. Len(a)
      BY <1>1, <3>1, LenProperties
    <3> HIDE DEF a
    <3>3. \A i \in DOMAIN wrote : i \in DOMAIN a
      BY <3>1, <3>2
    <3> QED  BY <2>1, <3>1, <3>2, <3>3 DEF a
  <2> QED  BY <2>1
<1> QED  BY <1>2 DEF Traced

(* What purge_expired leaves: some of the reflexes, in their order.        *)
LEMMA PurgeFacts ==
  ASSUME NEW s \in Seq(ReflexType)
  PROVE  /\ purge_expired(s) \in Seq(ReflexType)
         /\ Elements(purge_expired(s)) = {r \in Elements(s) : ~expired(r, clock)}
<1> DEFINE I == {i \in DOMAIN s : ~expired(s[i], clock)}
<1>1. I \in SUBSET (DOMAIN s)
  OBVIOUS
<1>2. purge_expired(s) = At(s, I)
  BY DEF purge_expired
<1>3. {s[i] : i \in I} = {r \in Elements(s) : ~expired(r, clock)}
  BY DEF Elements
<1> HIDE DEF I
<1> QED  BY <1>1, <1>2, <1>3, AtFacts

LEMMA MatchFacts ==
  ASSUME TypeOK, NEW p \in Processes, Match(p)
  PROVE  \E s \in ProcessState :
            /\ Become(p, s) /\ s.phase \in {"reflex", "deciding"} /\ s.ts = proc[p].ts
            /\ s.reflexes = proc[p].reflexes \/ s.reflexes = purge_expired(proc[p].reflexes)
<1> DEFINE live == purge_expired(proc[p].reflexes)
<1>0. proc[p] \in ProcessState /\ live \in Seq(ReflexType)
  BY ProcessFacts, PurgeFacts
<1> HIDE DEF live
<1>1. CASE Become(p, [proc[p] EXCEPT !.phase = "deciding", !.type = None])
  <2> DEFINE s == [proc[p] EXCEPT !.phase = "deciding", !.type = None]
  <2>1. /\ s \in ProcessState /\ s.phase = "deciding" /\ s.ts = proc[p].ts
        /\ s.reflexes = proc[p].reflexes
    BY <1>0 DEF ProcessState
  <2> QED  BY <1>1, <2>1
<1>2. CASE Become(p, [proc[p] EXCEPT !.phase = "deciding", !.type = None, !.reflexes = live])
  <2> DEFINE s == [proc[p] EXCEPT !.phase = "deciding", !.type = None, !.reflexes = live]
  <2>1. s \in ProcessState /\ s.phase = "deciding" /\ s.ts = proc[p].ts /\ s.reflexes = live
    BY <1>0 DEF ProcessState
  <2> QED  BY <1>2, <2>1 DEF live
<1>3. ASSUME NEW i \in DOMAIN live,
             Become(p, [proc[p] EXCEPT !.phase = "reflex", !.reflexes = live,
                                       !.type = None, !.by = live[i]])
      PROVE  \E s \in ProcessState :
                Become(p, s) /\ s.phase = "reflex" /\ s.ts = proc[p].ts /\ s.reflexes = live
  <2> DEFINE s == [proc[p] EXCEPT !.phase = "reflex", !.reflexes = live,
                                  !.type = None, !.by = live[i]]
  <2>1. live[i] \in ReflexType
    BY <1>0, ElementsTyped
  <2>2. s \in ProcessState /\ s.phase = "reflex" /\ s.ts = proc[p].ts /\ s.reflexes = live
    BY <1>0, <2>1 DEF ProcessState
  <2> QED  BY <1>3, <2>2
<1> QED  BY <1>1, <1>2, <1>3 DEF Match, live

(* The idle process after a load, a save or an answer.                     *)
LEMMA LoadFacts ==
  ASSUME TypeOK, NEW p \in Processes, Load(p)
  PROVE  \E s \in ProcessState :
            /\ Become(p, s) /\ s.ts = 0
            /\ \/ Parses(file) /\ s.phase = "idle" /\ s.reflexes = file
               \/ s.phase = "refused" /\ s.reflexes = << >>
<1>1. CASE Parses(file) /\ \E task \in TaskTypes : Become(p, Idle(task, file))
  <2>1. file \in Seq(ReflexType)
    BY <1>1 DEF Parses, TypeOK
  <2>2. PICK task \in TaskTypes : Become(p, Idle(task, file))
    BY <1>1
  <2> QED  BY <1>1, <2>1, <2>2, IdleTyped
<1>2. CASE Become(p, [Down EXCEPT !.phase = "refused"])
  <2> DEFINE s == [Down EXCEPT !.phase = "refused"]
  <2>1. s \in ProcessState /\ s.ts = 0 /\ s.phase = "refused" /\ s.reflexes = << >>
    BY EmptyTyped DEF ProcessState
  <2> QED  BY <1>2, <2>1
<1> QED  BY <1>1, <1>2 DEF Load

LEMMA SaveFacts ==
  ASSUME TypeOK, NEW p \in Processes, Save(p)
  PROVE  \/ file' = Garbled /\ file # << >>
         \/ /\ file' \in Seq(ReflexType)
            /\ file = << >> => file' = proc[p].reflexes
            /\ \A r \in Elements(file') :
                r \in Elements(proc[p].reflexes) \/ (file # Garbled /\ r \in Elements(file))
<1> DEFINE new == proc[p].reflexes
<1>1. new \in Seq(ReflexType) /\ file' \in Over(new, file)
  BY ProcessFacts DEF Save
<1> HIDE DEF new
<1>2. CASE file' = new
  BY <1>1, <1>2 DEF new
<1>3. CASE file # << >> /\ file' = Garbled
  BY <1>3
<1>4. CASE file # << >> /\ file # Garbled /\ file' = new \o SubSeq(file, Len(new) + 1, Len(file))
  <2> DEFINE rest == SubSeq(file, Len(new) + 1, Len(file))
  <2>1. file \in Seq(ReflexType)
    BY <1>4 DEF TypeOK
  <2>2. Len(new) \in Nat /\ Len(file) \in Nat
    BY <1>1, <2>1, LenProperties
  <2>3. rest \in Seq(ReflexType) /\ Elements(rest) \subseteq Elements(file)
    <3>1. CASE Len(new) + 1 <= Len(file)
      <4>0. /\ Len(new) + 1 \in 1 .. Len(file) + 1 /\ Len(file) \in Len(new) + 1 - 1 .. Len(file)
            /\ \A i \in Len(new) + 1 .. Len(file) : file[i] \in ReflexType /\ i \in DOMAIN file
        BY <2>1, <2>2, <3>1, ElementsTyped, LenProperties
      <4>1. /\ rest \in Seq(ReflexType)
            /\ Len(rest) = Len(file) - Len(new)
            /\ \A i \in 1 .. Len(file) - Len(new) : rest[i] = file[Len(new) + i]
        BY <2>1, <2>2, <4>0, SubSeqProperties
      <4>2. DOMAIN rest = 1 .. Len(file) - Len(new)
        BY <4>1, LenProperties
      <4>3. \A i \in 1 .. Len(file) - Len(new) : Len(new) + i \in DOMAIN file
        BY <2>1, <2>2, LenProperties
      <4> HIDE DEF rest
      <4> QED  BY <4>1, <4>2, <4>3 DEF Elements
    <3>2. CASE Len(file) < Len(new) + 1
      <4>1. rest = << >>
        BY <2>1, <2>2, <3>2, SubSeqEmpty
      <4> QED  BY <4>1, EmptyTyped
    <3> QED  BY <2>2, <3>1, <3>2
  <2> HIDE DEF rest
  <2>4. /\ new \o rest \in Seq(ReflexType)
        /\ Elements(new \o rest) = Elements(new) \cup Elements(rest)
    BY <1>1, <2>3, JoinElements
  <2> QED  BY <1>4, <2>3, <2>4 DEF rest, new
<1>5. CASE file = << >>
  BY <1>1, <1>2, <1>5 DEF Over
<1> QED  BY <1>1, <1>2, <1>3, <1>4, <1>5 DEF Over

LEMMA AuthorFacts ==
  ASSUME TypeOK, AllTraced, NEW p \in Processes, Author(p)
  PROVE  \/ /\ UNCHANGED <<wrote, file>>
            /\ \E s \in ProcessState :
                Become(p, s) /\ s.phase = "idle" /\ s.ts = 0 /\ s.reflexes = proc[p].reflexes
         \/ /\ file' = << >> /\ Len(wrote') <= MaxAuthored
            /\ \E w \in Written : wrote' = Append(wrote, w) /\ w.ts <= w.at
            /\ \E s \in ProcessState, r \in ReflexType :
                /\ Become(p, s) /\ s.phase = "saving" /\ s.ts = proc[p].ts
                /\ s.reflexes = Append(proc[p].reflexes, r) /\ Loaded(r)'
<1>0. /\ proc[p] \in ProcessState /\ proc[p].reflexes \in Seq(ReflexType)
      /\ proc[p].ts \in 0 .. MaxClock /\ proc[p].ts <= clock /\ clock \in 0 .. MaxClock
  BY ProcessFacts DEF AllTraced, TypeOK
<1>1. /\ wrote \in Seq(Written) /\ Len(wrote) \in Nat
      /\ Len(wrote) < MaxAuthored /\ MaxAuthored \in Nat
  BY LenProperties, PolicyAssumption DEF Author, TypeOK, Written
<1>2. PICK patch \in Patches :
        LET r == Reflex(patch, "executive", proc[p].ts, Len(wrote) + 1)
        IN  \/ /\ ~Refused(patch)
               /\ Become(p, [proc[p] EXCEPT !.phase = "saving", !.reflexes = Known(@, r)])
               /\ wrote' = Append(wrote, [at |-> clock, ts |-> proc[p].ts, ttl |-> patch.ttl])
               /\ file' = << >>
            \/ /\ Refused(patch)
               /\ Become(p, Idle(proc[p].task, proc[p].reflexes))
               /\ UNCHANGED <<wrote, file>>
  BY DEF Author
<1>3. CASE /\ Become(p, Idle(proc[p].task, proc[p].reflexes))
           /\ UNCHANGED <<wrote, file>>
  BY <1>0, <1>3, ProcessFacts, IdleTyped
<1>4. ASSUME ~Refused(patch), file' = << >>, NEW r, NEW w,
             r = Reflex(patch, "executive", proc[p].ts, Len(wrote) + 1),
             w = [at |-> clock, ts |-> proc[p].ts, ttl |-> patch.ttl],
             wrote' = Append(wrote, w),
             Become(p, [proc[p] EXCEPT !.phase = "saving",
                                       !.reflexes = Append(proc[p].reflexes, r)])
      PROVE  /\ Len(wrote') <= MaxAuthored
             /\ w \in Written /\ w.ts <= w.at
             /\ \E s \in ProcessState :
                /\ Become(p, s) /\ s.phase = "saving" /\ s.ts = proc[p].ts
                /\ s.reflexes = Append(proc[p].reflexes, r) /\ r \in ReflexType /\ Loaded(r)'
  <2> DEFINE s == [proc[p] EXCEPT !.phase = "saving", !.reflexes = Append(proc[p].reflexes, r)]
  <2>1. patch.ttl > 0 /\ patch.on \in EventType \cup {None} /\ patch.task \in TaskTypes \cup {None}
    BY <1>4, PolicyAssumption DEF Refused
  <2>2. Len(wrote) + 1 \in 0 .. MaxAuthored
    BY <1>1
  <2>3. r \in ReflexType
    BY <1>0, <1>4, <2>1, <2>2 DEF Reflex, ReflexType
  <2>4. w \in Written /\ w.ts <= w.at
    BY <1>0, <1>4 DEF Written
  <2>5. /\ r.author = "executive" /\ r.no = Len(wrote) + 1
        /\ r.created = w.ts /\ r.ttl = w.ttl /\ r.ttl > 0
    BY <1>4, <2>1 DEF Reflex
  <2>6. /\ Len(wrote') = Len(wrote) + 1 /\ wrote'[Len(wrote) + 1] = w
        /\ wrote' \in Seq(Written)
    BY <1>1, <1>4, <2>4, AppendProperties
  <2>7. r.no \in DOMAIN wrote'
    BY <1>1, <2>5, <2>6, LenProperties
  <2>8. Loaded(r)'
    BY <2>5, <2>6, <2>7 DEF Loaded, Traced
  <2>9. Append(proc[p].reflexes, r) \in Seq(ReflexType)
    BY <1>0, <2>3, AppendElements
  <2>10. s \in ProcessState /\ s.phase = "saving" /\ s.ts = proc[p].ts
         /\ s.reflexes = Append(proc[p].reflexes, r)
    BY <1>0, <2>9 DEF ProcessState
  <2>11. Len(wrote') <= MaxAuthored
    BY <1>1, <2>6
  <2>12. Become(p, s)
    BY <1>4
  <2> HIDE DEF s
  <2> QED  BY <2>3, <2>4, <2>8, <2>10, <2>11, <2>12
<1>5. CASE ~Refused(patch)
  <2> DEFINE r0 == Reflex(patch, "executive", proc[p].ts, Len(wrote) + 1)
             w0 == [at |-> clock, ts |-> proc[p].ts, ttl |-> patch.ttl]
  <2>1. \E r, w : r = r0 /\ w = w0
    OBVIOUS
  <2>2. PICK r, w : r = r0 /\ w = w0
    BY <2>1
  <2>3. /\ Become(p, [proc[p] EXCEPT !.phase = "saving",
                                     !.reflexes = Append(proc[p].reflexes, r0)])
        /\ wrote' = Append(wrote, w0) /\ file' = << >>
    BY <1>2, <1>5 DEF Known
  <2> QED  BY <1>4, <1>5, <2>2, <2>3
<1> QED  BY <1>2, <1>3, <1>5

LEMMA HandEditFacts ==
  ASSUME TypeOK, HandEdit
  PROVE  /\ file' \in Seq(ReflexType)
         /\ \/ /\ file # Garbled
               /\ \A r \in Elements(file') : r \in Elements(file) \/ r.no = 0
               /\ \A r \in Elements(file) : r.no # 0 => r \in Elements(file')
            \/ file = Garbled /\ file' = << >>
<1>1. ASSUME file # Garbled, NEW e \in Edits,
             file' = Append(file, Reflex(e.patch, e.author, e.created, 0))
      PROVE  /\ file' \in Seq(ReflexType)
             /\ \A r \in Elements(file') : r \in Elements(file) \/ r.no = 0
             /\ Elements(file) \subseteq Elements(file')
  <2> DEFINE r == Reflex(e.patch, e.author, e.created, 0)
  <2>1. /\ e.patch \in Patches /\ e.author \in {"executive", "developer"}
        /\ e.created \in 0 .. MaxClock /\ 0 \in 0 .. MaxAuthored
        /\ e.patch.on \in EventType \cup {None} /\ e.patch.task \in TaskTypes \cup {None}
    BY PolicyAssumption
  <2>2. r \in ReflexType /\ r.no = 0
    BY <2>1 DEF Reflex, ReflexType
  <2>3. file' = Append(file, r) /\ file \in Seq(ReflexType)
    BY <1>1 DEF TypeOK
  <2> HIDE DEF r
  <2>4. file' \in Seq(ReflexType) /\ Elements(file') = Elements(file) \cup {r}
    BY <2>2, <2>3, AppendElements
  <2> QED  BY <2>2, <2>4
<1>2. CASE file # Garbled /\ file' = At(file, {i \in DOMAIN file : file[i].no # 0})
  <2> DEFINE I == {i \in DOMAIN file : file[i].no # 0}
  <2>1. I \in SUBSET (DOMAIN file) /\ file \in Seq(ReflexType)
    BY <1>2 DEF TypeOK
  <2>2. {file[i] : i \in I} = {r \in Elements(file) : r.no # 0}
    BY DEF Elements
  <2> HIDE DEF I
  <2>3. file' \in Seq(ReflexType) /\ Elements(file') = {r \in Elements(file) : r.no # 0}
    BY <1>2, <2>1, <2>2, AtFacts DEF I
  <2> QED  BY <1>2, <2>3
<1>3. CASE file = Garbled /\ file' = << >>
  BY <1>3, EmptyTyped
<1> QED  BY <1>1, <1>2, <1>3 DEF HandEdit

-----------------------------------------------------------------------------
(* A step of one process: what is in its memory then was written by the    *)
(* executive, and what is in the file is traced.                           *)
Moved(p) ==
    /\ \E s \in ProcessState :
        /\ Become(p, s) /\ s.ts <= clock
        /\ \A r \in Elements(s.reflexes) : Loaded(r)'
    /\ clock' = clock
    /\ wrote' = wrote \/ \E w \in Written : wrote' = Append(wrote, w) /\ w.ts <= w.at
    /\ Len(wrote') <= MaxAuthored
    /\ saved' \subseteq DOMAIN wrote' /\ overlapped' \in BOOLEAN
    /\ file' \in Seq(ReflexType) \cup {Garbled}
    /\ file' # Garbled => \A r \in Elements(file') : Traced(r)'

LEMMA RunsMove ==
  ASSUME TypeOK, AllTraced, NEW p \in Processes, Runs(p)
  PROVE  Moved(p)
<1>0. /\ proc[p] \in ProcessState /\ proc[p].reflexes \in Seq(ReflexType)
      /\ proc[p].ts <= clock /\ clock \in Nat /\ Len(wrote) <= MaxAuthored
      /\ saved \subseteq DOMAIN wrote /\ overlapped \in BOOLEAN
      /\ file \in Seq(ReflexType) \cup {Garbled} /\ wrote \in Seq(Written)
  BY ProcessFacts DEF AllTraced, TypeOK, Written
<1>1. ASSUME NEW r, Traced(r), wrote' = wrote \/ \E w \in Written : wrote' = Append(wrote, w)
      PROVE  Traced(r)'
  BY <1>1, StaysTraced
<1>2. /\ \A r \in Elements(proc[p].reflexes) : Loaded(r)
      /\ file # Garbled => \A r \in Elements(file) : Traced(r)
  BY DEF AllTraced
<1>3. ASSUME UNCHANGED <<wrote, clock>>, NEW s \in ProcessState, Become(p, s), s.ts <= clock,
             \A r \in Elements(s.reflexes) : Loaded(r),
             file' \in Seq(ReflexType) \cup {Garbled},
             file' # Garbled => \A r \in Elements(file') : Traced(r),
             saved' \subseteq DOMAIN wrote, overlapped' \in BOOLEAN
      PROVE  Moved(p)
  <2>1. \A r : Traced(r) => Traced(r)'
    BY <1>1, <1>3
  <2>2. \A r : Loaded(r) => Loaded(r)'
    BY <2>1 DEF Loaded
  <2> QED  BY <1>0, <1>3, <2>1, <2>2 DEF Moved
<1>4. CASE Load(p)
  <2>1. PICK s \in ProcessState :
            /\ Become(p, s) /\ s.ts = 0
            /\ \/ Parses(file) /\ s.phase = "idle" /\ s.reflexes = file
               \/ s.phase = "refused" /\ s.reflexes = << >>
    BY <1>4, LoadFacts
  <2>2. \A r \in Elements(s.reflexes) : Loaded(r)
    BY <1>2, <2>1, EmptyTyped DEF Parses, Loaded
  <2>3. UNCHANGED <<file, clock, wrote, saved>> /\ overlapped' \in BOOLEAN
    BY <1>0, <1>4 DEF Load
  <2> QED  BY <1>0, <1>2, <1>3, <2>1, <2>2, <2>3
<1>5. CASE Receive(p)
  <2>1. PICK type \in Types :
            Become(p, [proc[p] EXCEPT !.phase = "waiting", !.type = type, !.ts = clock])
    BY <1>5 DEF Receive
  <2> DEFINE s == [proc[p] EXCEPT !.phase = "waiting", !.type = type, !.ts = clock]
  <2>2. s \in ProcessState /\ s.ts = clock /\ s.reflexes = proc[p].reflexes
    BY <1>0 DEF ProcessState, TypeOK
  <2>3. UNCHANGED <<file, clock, wrote, saved, overlapped>> /\ Become(p, s)
    BY <1>5, <2>1 DEF Receive
  <2> HIDE DEF s
  <2>4. s.ts <= clock
    BY <1>0, <2>2
  <2> QED  BY <1>0, <1>2, <1>3, <2>2, <2>3, <2>4
<1>6. CASE Match(p)
  <2>1. PICK s \in ProcessState :
            /\ Become(p, s) /\ s.phase \in {"reflex", "deciding"} /\ s.ts = proc[p].ts
            /\ s.reflexes = proc[p].reflexes \/ s.reflexes = purge_expired(proc[p].reflexes)
    BY <1>6, MatchFacts
  <2>2. \A r \in Elements(s.reflexes) : Loaded(r)
    BY <1>0, <1>2, <2>1, PurgeFacts
  <2>3. UNCHANGED <<file, clock, wrote, saved, overlapped>>
    BY <1>6 DEF Match
  <2> QED  BY <1>0, <1>2, <1>3, <2>1, <2>2, <2>3
<1>7. CASE Answered(p)
  <2> DEFINE s == Idle(proc[p].task, proc[p].reflexes)
  <2>1. s \in ProcessState /\ s.reflexes = proc[p].reflexes /\ s.ts = 0
    BY <1>0, ProcessFacts, IdleTyped
  <2>2. UNCHANGED <<file, clock, wrote, saved, overlapped>> /\ Become(p, s)
    BY <1>7 DEF Answered
  <2> HIDE DEF s
  <2>3. s.ts <= clock
    BY <1>0, <2>1
  <2> QED  BY <1>0, <1>2, <1>3, <2>1, <2>2, <2>3
<1>8. CASE Author(p)
  <2>0. UNCHANGED <<clock, saved, overlapped>>
    BY <1>8 DEF Author
  <2>1. CASE /\ UNCHANGED <<wrote, file>>
             /\ \E s \in ProcessState :
                Become(p, s) /\ s.phase = "idle" /\ s.ts = 0 /\ s.reflexes = proc[p].reflexes
    BY <1>0, <1>2, <1>3, <2>0, <2>1
  <2>2. CASE /\ file' = << >> /\ Len(wrote') <= MaxAuthored
             /\ \E w \in Written : wrote' = Append(wrote, w) /\ w.ts <= w.at
             /\ \E s \in ProcessState, r \in ReflexType :
                /\ Become(p, s) /\ s.phase = "saving" /\ s.ts = proc[p].ts
                /\ s.reflexes = Append(proc[p].reflexes, r) /\ Loaded(r)'
    <3>1. PICK s \in ProcessState, r \in ReflexType :
                /\ Become(p, s) /\ s.phase = "saving" /\ s.ts = proc[p].ts
                /\ s.reflexes = Append(proc[p].reflexes, r) /\ Loaded(r)'
      BY <2>2
    <3>2. \A x : Loaded(x) => Loaded(x)'
      BY <1>1, <2>2 DEF Loaded
    <3>3. Elements(s.reflexes) = Elements(proc[p].reflexes) \cup {r}
      BY <1>0, <3>1, AppendElements
    <3>4. \A x \in Elements(s.reflexes) : Loaded(x)'
      BY <1>2, <3>1, <3>2, <3>3
    <3>5. saved \subseteq DOMAIN wrote'
      <4>1. PICK w \in Written : wrote' = Append(wrote, w)
        BY <2>2
      <4>2. Len(Append(wrote, w)) = Len(wrote) + 1 /\ Append(wrote, w) \in Seq(Written)
        BY <1>0, AppendProperties
      <4>3. /\ Len(wrote) \in Nat /\ DOMAIN wrote = 1 .. Len(wrote)
            /\ DOMAIN wrote' = 1 .. Len(wrote) + 1
        BY <1>0, <4>1, <4>2, LenProperties
      <4>4. \A i \in 1 .. Len(wrote) : i \in 1 .. Len(wrote) + 1
        BY <4>3
      <4> QED  BY <1>0, <4>3, <4>4
    <3> QED  BY <1>0, <2>0, <2>2, <3>1, <3>4, <3>5, EmptyTyped DEF Moved
  <2> QED  BY <1>8, <2>1, <2>2, AuthorFacts
<1>9. CASE Save(p)
  <2> DEFINE s == Idle(proc[p].task, proc[p].reflexes)
  <2>1. s \in ProcessState /\ s.reflexes = proc[p].reflexes /\ s.ts = 0
    BY <1>0, ProcessFacts, IdleTyped
  <2>2. /\ UNCHANGED <<clock, wrote, overlapped>> /\ Become(p, s)
        /\ saved' = saved \cup ({r.no : r \in Elements(proc[p].reflexes)} \ {0})
    BY <1>9 DEF Save
  <2> HIDE DEF s
  <2>3. s.ts <= clock
    BY <1>0, <2>1
  <2>4. saved' \subseteq DOMAIN wrote
    BY <1>0, <1>2, <2>2 DEF Loaded, Traced
  <2>5. file' = Garbled
        \/ (file' \in Seq(ReflexType) /\ \A r \in Elements(file') : Traced(r))
    BY <1>2, <1>9, SaveFacts DEF Loaded
  <2> QED  BY <1>0, <1>2, <1>3, <2>1, <2>2, <2>3, <2>4, <2>5
<1>10. CASE Stop(p)
  <2>1. Down \in ProcessState /\ Down.ts <= clock /\ Elements(Down.reflexes) = {}
    BY <1>0, EmptyTyped
  <2>2. UNCHANGED <<file, clock, wrote, saved>> /\ Become(p, Down) /\ overlapped' \in BOOLEAN
    BY <1>0, <1>10 DEF Stop
  <2> QED  BY <1>0, <1>2, <1>3, <2>1, <2>2
<1> QED  BY <1>4, <1>5, <1>6, <1>7, <1>8, <1>9, <1>10 DEF Runs

LEMMA TypeNext ==
  ASSUME TypeOK, AllTraced, [Next]_vars
  PROVE  TypeOK' /\ AllTraced'
<1>1. ASSUME NEW p \in Processes, Runs(p) PROVE TypeOK' /\ AllTraced'
  <2>0. Moved(p)
    BY <1>1, RunsMove
  <2>1. PICK s \in ProcessState :
            Become(p, s) /\ s.ts <= clock /\ \A r \in Elements(s.reflexes) : Loaded(r)'
    BY <2>0 DEF Moved
  <2>2. /\ proc' \in [Processes -> ProcessState] /\ proc'[p] = s
        /\ \A q \in Processes : q # p => proc'[q] = proc[q]
    BY <2>1, BecomeFacts
  <2>3. /\ wrote' \in Seq(Written)
        /\ \A i \in DOMAIN wrote' : wrote'[i].ts <= wrote'[i].at
    <3>1. wrote \in Seq(Written) /\ \A i \in DOMAIN wrote : wrote[i].ts <= wrote[i].at
      BY DEF TypeOK, AllTraced, Written
    <3>2. ASSUME NEW w \in Written, wrote' = Append(wrote, w), w.ts <= w.at
          PROVE  /\ wrote' \in Seq(Written)
                 /\ \A i \in DOMAIN wrote' : wrote'[i].ts <= wrote'[i].at
      <4>1. /\ wrote' \in Seq(Written) /\ Len(wrote') = Len(wrote) + 1
            /\ \A i \in 1 .. Len(wrote) : wrote'[i] = wrote[i]
            /\ wrote'[Len(wrote) + 1] = w
        BY <3>1, <3>2, AppendProperties
      <4>2. /\ Len(wrote) \in Nat /\ DOMAIN wrote = 1 .. Len(wrote)
            /\ DOMAIN wrote' = 1 .. Len(wrote) + 1
        BY <3>1, <4>1, LenProperties
      <4>3. \A i \in DOMAIN wrote' : i \in DOMAIN wrote \/ i = Len(wrote) + 1
        BY <4>2
      <4> QED  BY <3>1, <3>2, <4>1, <4>2, <4>3
    <3> QED  BY <2>0, <3>1, <3>2 DEF Moved
  <2>4. TypeOK'
    BY <2>0, <2>2, <2>3 DEF Moved, TypeOK, ProcessState, Written
  <2>5. \A r : Loaded(r) => Loaded(r)'
    BY <2>0, StaysTraced DEF Moved, Loaded
  <2>6. ASSUME NEW q \in Processes
        PROVE  (\A r \in Elements(proc'[q].reflexes) : Loaded(r)') /\ proc'[q].ts <= clock'
    BY <2>0, <2>1, <2>2, <2>5 DEF Moved, AllTraced
  <2>7. Elements(file)' = Elements(file')
    BY DEF Elements
  <2>8. \A q \in Processes : Elements(proc[q].reflexes)' = Elements(proc'[q].reflexes)
    BY DEF Elements
  <2>9. AllTraced'
    BY <2>0, <2>3, <2>6, <2>7, <2>8 DEF AllTraced, Moved
  <2> QED  BY <2>4, <2>9
<1>2. CASE HandEdit
  <2>1. UNCHANGED <<proc, clock, wrote, saved>> /\ overlapped' \in BOOLEAN
    BY <1>2 DEF HandEdit, TypeOK
  <2>2. file' \in Seq(ReflexType) /\ \A r \in Elements(file') : Traced(r)
    BY <1>2, HandEditFacts, EmptyTyped DEF AllTraced, Traced
  <2>3. \A r \in Elements(file') : Traced(r)'
    BY <2>1, <2>2 DEF Traced
  <2>4. TypeOK'
    BY <2>1, <2>2 DEF TypeOK
  <2>5. AllTraced'
    BY <2>1, <2>3 DEF AllTraced, Loaded, Traced, Elements
  <2> QED  BY <2>4, <2>5
<1>3. CASE Tick
  <2>1. clock' = clock + 1 /\ clock < MaxClock /\ UNCHANGED <<file, proc, wrote, saved, overlapped>>
    BY <1>3 DEF Tick
  <2>2. clock' \in 0 .. MaxClock
    BY <2>1, PolicyAssumption DEF TypeOK
  <2>3. \A p \in Processes : proc[p].ts <= clock'
    BY <2>1, ProcessFacts DEF TypeOK, AllTraced
  <2>4. TypeOK'
    BY <2>1, <2>2 DEF TypeOK
  <2>5. AllTraced'
    BY <2>1, <2>3 DEF AllTraced, Loaded, Traced, Elements
  <2> QED  BY <2>4, <2>5
<1>4. CASE UNCHANGED vars
  BY <1>4 DEF vars, TypeOK, AllTraced, Loaded, Traced, Elements
<1> QED  BY <1>1, <1>2, <1>3, <1>4 DEF Next

-----------------------------------------------------------------------------
(* A saved reflex that was alive before was saved before, or is being      *)
(* saved; and what is alive is not purged.                                 *)
LEMMA StaysAlive ==
  ASSUME PInv, [Next]_vars, NEW no \in saved, Alive(no)'
  PROVE  Alive(no)
<1>1. no \in DOMAIN wrote /\ wrote \in Seq(Written) /\ clock \in Nat /\ clock' \in Nat
  <2>1. clock' = clock \/ clock' = clock + 1
    BY DEF Next, Tick, HandEdit, Runs, Load, Receive, Match, Answered, Author, Save, Stop, vars
  <2> QED  BY <2>1 DEF PInv, TypeOK, Written
<1>2. wrote'[no] = wrote[no] /\ clock <= clock'
  <2>1. CASE UNCHANGED wrote
    <3>1. clock' = clock \/ clock' = clock + 1
      BY DEF Next, Tick, HandEdit, Runs, Load, Receive, Match, Answered, Author, Save, Stop, vars
    <3> QED  BY <1>1, <2>1, <3>1
  <2>2. ASSUME NEW p \in Processes, Author(p) PROVE wrote'[no] = wrote[no] /\ clock' = clock
    <3>1. wrote' = wrote \/ \E w \in Written : wrote' = Append(wrote, w)
      BY <2>2, AuthorFacts DEF PInv
    <3>2. ASSUME NEW w \in Written, wrote' = Append(wrote, w) PROVE wrote'[no] = wrote[no]
      <4>1. /\ \A i \in 1 .. Len(wrote) : Append(wrote, w)[i] = wrote[i]
            /\ DOMAIN wrote = 1 .. Len(wrote)
        BY <1>1, AppendProperties, LenProperties
      <4> QED  BY <1>1, <3>2, <4>1
    <3> QED  BY <2>2, <3>1, <3>2 DEF Author
  <2>3. UNCHANGED wrote \/ \E p \in Processes : Author(p)
    BY DEF Next, Tick, HandEdit, Runs, Load, Receive, Match, Answered, Save, Stop, vars
  <2> QED  BY <1>1, <2>1, <2>2, <2>3
<1>3. wrote[no] \in Written
  BY <1>1, ElementsTyped
<1>4. wrote[no].ts \in Int /\ wrote[no].ttl * Day \in Int
  <2>1. wrote[no].ttl \in Int /\ wrote[no].ts \in Int
    BY <1>3, PolicyAssumption DEF Written
  <2> QED  BY <2>1, PolicyAssumption
<1> DEFINE d == wrote[no].ts + wrote[no].ttl * Day
<1>5. d \in Int
  BY <1>4
<1>6. Alive(no)' <=> clock' < d
  BY <1>2 DEF Alive
<1>7. Alive(no) <=> clock < d
  BY DEF Alive
<1> HIDE DEF d
<1> QED  BY <1>1, <1>2, <1>5, <1>6, <1>7

LEMMA AliveIsNotPurged ==
  ASSUME TypeOK, AllTraced, NEW p \in Processes, NEW no \in saved, Alive(no),
         Holds(proc[p].reflexes, no)
  PROVE  Holds(purge_expired(proc[p].reflexes), no)
<1>1. PICK r \in Elements(proc[p].reflexes) : r.no = no
  BY DEF Holds
<1>2. Loaded(r) /\ no # 0
  <2>1. saved \subseteq DOMAIN wrote /\ wrote \in Seq(Written)
    BY DEF TypeOK, Written
  <2> QED  BY <2>1, ElementsTyped DEF AllTraced
<1>3. r.created = wrote[no].ts /\ r.ttl = wrote[no].ttl
  BY <1>1, <1>2 DEF Loaded, Traced
<1>4. clock \in Int /\ wrote[no].ts + wrote[no].ttl * Day \in Int
  <2>1. no \in DOMAIN wrote /\ wrote \in Seq(Written) /\ clock \in Int
    BY DEF TypeOK, Written
  <2>2. wrote[no] \in Written
    BY <2>1, ElementsTyped
  <2>3. wrote[no].ttl \in Int /\ wrote[no].ts \in Int
    BY <2>2, PolicyAssumption DEF Written
  <2> QED  BY <2>1, <2>3, PolicyAssumption
<1> DEFINE d == wrote[no].ts + wrote[no].ttl * Day
<1>5. expired(r, clock) <=> clock >= d
  BY <1>3 DEF expired
<1>6. clock < d
  BY DEF Alive
<1> HIDE DEF d
<1>7. ~expired(r, clock)
  BY <1>4, <1>5, <1>6 DEF d
<1>8. proc[p].reflexes \in Seq(ReflexType)
  BY ProcessFacts
<1> QED  BY <1>1, <1>7, <1>8, PurgeFacts DEF Holds

LEMMA StaysUndisturbed ==
  ASSUME TypeOK, [Next]_vars, ~overlapped'
  PROVE  ~overlapped
<1>1. CASE UNCHANGED overlapped
  BY <1>1
<1>2. ASSUME NEW B, overlapped' = (overlapped \/ B)
      PROVE  ~overlapped
  BY <1>2
<1>3. CASE HandEdit
  BY <1>2, <1>3 DEF HandEdit
<1>4. ASSUME NEW p \in Processes, Load(p) PROVE ~overlapped
  BY <1>2, <1>4 DEF Load
<1>5. ASSUME NEW p \in Processes, Stop(p) PROVE ~overlapped
  BY <1>2, <1>5 DEF Stop
<1> QED
  BY <1>1, <1>3, <1>4, <1>5
     DEF Next, Tick, Runs, Receive, Match, Answered, Author, Save, vars

(* When nobody but p is up, only what p has and the file matter.           *)
LEMMA OneMoves ==
  ASSUME TypeOK, NEW p \in Processes, NEW s \in ProcessState, Become(p, s),
         \A q \in Processes : Up(q) => q = p,
         s.phase = "saving" => file' = << >>, file' # Garbled,
         \A no \in {n \in saved' : Alive(n)'} :
            /\ s.phase \notin {"down", "refused"} => Holds(s.reflexes, no)
            /\ s.phase # "saving" => Holds(file', no)
  PROVE  Kept'
<1>1. proc'[p] = s /\ \A q \in Processes : q # p => proc'[q] = proc[q]
  BY BecomeFacts
<1>2. \A q \in Processes : Up(q)' => q = p
  BY <1>1 DEF Up
<1>3. \A q \in Processes : Saving(q)' => q = p
  BY <1>2 DEF Saving, Up
<1>4. /\ \A q, q2 \in Processes : Up(q)' /\ Up(q2)' => q = q2
      /\ \A q \in Processes : Saving(q)' => file' = << >>
  BY <1>1, <1>2, <1>3 DEF Saving
<1>5. ASSUME NEW no \in saved', Alive(no)'
      PROVE  /\ \A q \in Processes : Up(q)' => Holds(proc'[q].reflexes, no)
             /\ (\A q \in Processes : ~Saving(q)') => Holds(file', no)
  BY <1>1, <1>2, <1>5 DEF Up, Saving
<1>6. \A no : /\ Holds(file, no)' <=> Holds(file', no)
              /\ \A q : Holds(proc[q].reflexes, no)' <=> Holds(proc'[q].reflexes, no)
  BY DEF Holds, Elements
<1> QED  BY <1>4, <1>5, <1>6 DEF Kept

LEMMA KeptRuns ==
  ASSUME PInv, NEW p \in Processes, Runs(p), ~overlapped'
  PROVE  Kept'
<1>0. /\ TypeOK /\ AllTraced /\ proc[p] \in ProcessState /\ proc[p].reflexes \in Seq(ReflexType)
      /\ [Next]_vars
  BY ProcessFacts DEF PInv, Next
<1>1. ~overlapped /\ Kept
  BY <1>0, StaysUndisturbed DEF PInv
<1>2. /\ \A q1, q2 \in Processes : Up(q1) /\ Up(q2) => q1 = q2
      /\ \A q \in Processes : Saving(q) => file = << >>
      /\ file # Garbled /\ file \in Seq(ReflexType)
      /\ \A no \in {n \in saved : Alive(n)} :
            /\ \A q \in Processes : Up(q) => Holds(proc[q].reflexes, no)
            /\ (\A q \in Processes : ~Saving(q)) => Holds(file, no)
  BY <1>0, <1>1 DEF Kept, TypeOK
<1>3. ASSUME NEW no \in saved, Alive(no)' PROVE Alive(no)
  BY <1>0, <1>3, StaysAlive
(* The file is as it was, and p is up: what p has must be kept.            *)
<1>4. ASSUME Up(p), ~Saving(p), UNCHANGED <<file, saved>>,
             NEW s \in ProcessState, Become(p, s), s.phase # "saving",
             s.phase \in {"down", "refused"}
             \/ \A no \in saved : Alive(no) => Holds(s.reflexes, no)
      PROVE  Kept'
  <2>1. \A q \in Processes : Up(q) => q = p
    BY <1>2, <1>4
  <2>2. \A q \in Processes : ~Saving(q)
    BY <1>4, <2>1 DEF Saving, Up
  <2>3. \A no \in saved : Alive(no) => Holds(file, no)
    BY <1>2, <2>2
  <2> QED  BY <1>0, <1>2, <1>3, <1>4, <2>1, <2>3, OneMoves
<1>5. Up(p) => \A no \in saved : Alive(no) => Holds(proc[p].reflexes, no)
  BY <1>2
<1>6. CASE Load(p)
  <2>1. PICK s \in ProcessState :
            /\ Become(p, s) /\ s.ts = 0
            /\ \/ Parses(file) /\ s.phase = "idle" /\ s.reflexes = file
               \/ s.phase = "refused" /\ s.reflexes = << >>
    BY <1>0, <1>6, LoadFacts
  <2>2. UNCHANGED <<file, saved>> /\ \A q \in Processes : Up(q) => q = p
    BY <1>6 DEF Load
  <2>3. ~Up(p)
    BY <1>6 DEF Load, Up
  <2>4. \A q \in Processes : ~Saving(q)
    BY <2>2, <2>3 DEF Saving, Up
  <2>5. \A no \in saved : Alive(no) => Holds(file, no)
    BY <1>2, <2>4
  <2> QED  BY <1>0, <1>2, <1>3, <2>1, <2>2, <2>5, OneMoves
<1>7. CASE Receive(p)
  <2>1. PICK type \in Types :
            Become(p, [proc[p] EXCEPT !.phase = "waiting", !.type = type, !.ts = clock])
    BY <1>7 DEF Receive
  <2> DEFINE s == [proc[p] EXCEPT !.phase = "waiting", !.type = type, !.ts = clock]
  <2>2. s \in ProcessState /\ s.phase = "waiting" /\ s.reflexes = proc[p].reflexes
    BY <1>0 DEF ProcessState, TypeOK
  <2>3. UNCHANGED <<file, saved>> /\ Become(p, s) /\ Up(p) /\ ~Saving(p)
    BY <1>7, <2>1 DEF Receive, Up, Saving
  <2> HIDE DEF s
  <2> QED  BY <1>4, <1>5, <2>2, <2>3
<1>8. CASE Match(p)
  <2>1. PICK s \in ProcessState :
            /\ Become(p, s) /\ s.phase \in {"reflex", "deciding"} /\ s.ts = proc[p].ts
            /\ s.reflexes = proc[p].reflexes \/ s.reflexes = purge_expired(proc[p].reflexes)
    BY <1>0, <1>8, MatchFacts
  <2>2. UNCHANGED <<file, saved>> /\ Up(p) /\ ~Saving(p)
    BY <1>8 DEF Match, Up, Saving
  <2>3. \A no \in saved : Alive(no) => Holds(s.reflexes, no)
    BY <1>0, <1>5, <2>1, <2>2, AliveIsNotPurged
  <2> QED  BY <1>4, <2>1, <2>2, <2>3
<1>9. CASE Answered(p)
  <2> DEFINE s == Idle(proc[p].task, proc[p].reflexes)
  <2>1. s \in ProcessState /\ s.reflexes = proc[p].reflexes /\ s.phase = "idle"
    BY <1>0, ProcessFacts, IdleTyped
  <2>2. UNCHANGED <<file, saved>> /\ Become(p, s) /\ Up(p) /\ ~Saving(p)
    BY <1>9 DEF Answered, Up, Saving
  <2> HIDE DEF s
  <2> QED  BY <1>4, <1>5, <2>1, <2>2
<1>10. CASE Author(p)
  <2>0. UNCHANGED saved /\ Up(p) /\ ~Saving(p)
    BY <1>10 DEF Author, Up, Saving
  <2>1. CASE /\ UNCHANGED <<wrote, file>>
             /\ \E s \in ProcessState :
                Become(p, s) /\ s.phase = "idle" /\ s.ts = 0 /\ s.reflexes = proc[p].reflexes
    BY <1>4, <1>5, <2>0, <2>1
  <2>2. CASE /\ file' = << >>
             /\ \E s \in ProcessState, r \in ReflexType :
                /\ Become(p, s) /\ s.phase = "saving"
                /\ s.reflexes = Append(proc[p].reflexes, r)
    <3>1. PICK s \in ProcessState, r \in ReflexType :
            /\ Become(p, s) /\ s.phase = "saving"
            /\ s.reflexes = Append(proc[p].reflexes, r)
      BY <2>2
    <3>2. Elements(proc[p].reflexes) \subseteq Elements(s.reflexes)
      BY <1>0, <3>1, AppendElements
    <3>3. \A no \in saved : Alive(no) => Holds(s.reflexes, no)
      BY <1>5, <2>0, <3>2 DEF Holds
    <3>4. \A q \in Processes : Up(q) => q = p
      BY <1>2, <2>0
    <3>5. << >> # Garbled
      BY EmptyTyped, GarbledIsNoFile
    <3> QED  BY <1>0, <1>3, <2>0, <2>2, <3>1, <3>3, <3>4, <3>5, OneMoves
  <2> QED  BY <1>0, <1>10, <2>1, <2>2, AuthorFacts
<1>11. CASE Save(p)
  <2> DEFINE s == Idle(proc[p].task, proc[p].reflexes)
  <2>1. s \in ProcessState /\ s.reflexes = proc[p].reflexes /\ s.phase = "idle"
    BY <1>0, ProcessFacts, IdleTyped
  <2>2. /\ saved' = saved \cup ({r.no : r \in Elements(proc[p].reflexes)} \ {0})
        /\ Become(p, s) /\ Up(p) /\ Saving(p)
    BY <1>11 DEF Save, Up, Saving
  <2> HIDE DEF s
  <2>3. file' = proc[p].reflexes
    BY <1>0, <1>2, <1>11, <2>2, SaveFacts
  <2>4. \A no \in saved' : Alive(no)' => Holds(proc[p].reflexes, no)
    BY <1>3, <1>5, <2>2 DEF Holds
  <2>5. \A q \in Processes : Up(q) => q = p
    BY <1>2, <2>2
  <2>6. file' # Garbled
    BY <1>0, <2>3, GarbledIsNoFile
  <2> QED  BY <1>0, <2>1, <2>2, <2>3, <2>4, <2>5, <2>6, OneMoves
<1>12. CASE Stop(p)
  <2>0. Become(p, Down) /\ UNCHANGED <<file, clock, wrote, saved>> /\ ~Saving(p)
    BY <1>12 DEF Stop, Saving
  <2>1. CASE Up(p)
    BY <1>4, <2>0, <2>1, EmptyTyped
  <2>2. CASE ~Up(p)
    <3>1. /\ proc'[p] = Down /\ \A q \in Processes : q # p => proc'[q] = proc[q]
      BY <1>0, <2>0, EmptyTyped, BecomeFacts
    <3>2. \A q \in Processes : (Up(q)' <=> Up(q)) /\ (Saving(q)' <=> Saving(q))
      BY <2>0, <2>2, <3>1, EmptyTyped DEF Up, Saving
    <3>3. \A q \in Processes : Up(q) => proc'[q] = proc[q]
      BY <2>2, <3>1
    <3>4. \A no : /\ Holds(file, no)' <=> Holds(file, no)
                  /\ \A q \in Processes :
                        Up(q) => (Holds(proc[q].reflexes, no)' <=> Holds(proc[q].reflexes, no))
      BY <2>0, <3>3 DEF Holds, Elements
    <3>5. \A no : Alive(no)' <=> Alive(no)
      BY <2>0 DEF Alive
    <3> QED  BY <1>2, <2>0, <3>2, <3>4, <3>5 DEF Kept
  <2> QED  BY <2>1, <2>2
<1> QED  BY <1>6, <1>7, <1>8, <1>9, <1>10, <1>11, <1>12 DEF Runs

LEMMA KeptNext ==
  ASSUME PInv, [Next]_vars
  PROVE  Kept'
<1> SUFFICES ASSUME ~overlapped' PROVE Kept'
  BY DEF Kept
<1>0. TypeOK /\ AllTraced
  BY DEF PInv
<1>1. ASSUME NEW p \in Processes, Runs(p) PROVE Kept'
  BY <1>1, KeptRuns
<1>2. CASE Tick \/ HandEdit \/ UNCHANGED vars
  <2>1. UNCHANGED <<proc, wrote, saved>> /\ ~overlapped
    BY <1>0, <1>2, StaysUndisturbed DEF Tick, HandEdit, vars
  <2>2. /\ \A q1, q2 \in Processes : Up(q1) /\ Up(q2) => q1 = q2
        /\ \A q \in Processes : Saving(q) => file = << >>
        /\ file # Garbled
        /\ \A no \in {n \in saved : Alive(n)} :
            /\ \A q \in Processes : Up(q) => Holds(proc[q].reflexes, no)
            /\ (\A q \in Processes : ~Saving(q)) => Holds(file, no)
    BY <2>1 DEF PInv, Kept
  <2>3. /\ file' # Garbled
        /\ \A q \in Processes : Saving(q) => file' = file
        /\ \A no \in saved : Holds(file, no) => Holds(file', no)
    <3>1. CASE UNCHANGED file
      BY <2>2, <3>1
    <3>2. CASE HandEdit
      <4>1. \A q \in Processes : ~Saving(q)
        BY <3>2 DEF HandEdit, Saving
      <4>2. /\ file' \in Seq(ReflexType)
            /\ \A r \in Elements(file) : r.no # 0 => r \in Elements(file')
        BY <1>0, <2>2, <3>2, HandEditFacts
      <4>3. \A no \in saved : no # 0
        <5>1. saved \subseteq DOMAIN wrote /\ wrote \in Seq(Written)
          BY <1>0 DEF TypeOK, Written
        <5> QED  BY <5>1, ElementsTyped
      <4> QED  BY <4>1, <4>2, <4>3, GarbledIsNoFile DEF Holds
    <3> QED  BY <1>2, <3>1, <3>2 DEF Tick, vars
  <2>4. \A no \in saved : Alive(no)' => Alive(no)
    BY StaysAlive
  <2>5. \A q \in Processes : (Up(q)' <=> Up(q)) /\ (Saving(q)' <=> Saving(q))
    BY <2>1 DEF Up, Saving
  <2>6. \A no : /\ Holds(file, no)' <=> Holds(file', no)
                /\ \A q : Holds(proc[q].reflexes, no)' <=> Holds(proc[q].reflexes, no)
    BY <2>1 DEF Holds, Elements
  <2> QED  BY <2>1, <2>2, <2>3, <2>4, <2>5, <2>6 DEF Kept
<1> QED  BY <1>1, <1>2 DEF Next

-----------------------------------------------------------------------------
(* What the comparisons of _in_window amount to, on both sides of          *)
(* midnight: the hours from start up to end, round the clock.              *)
LEMMA Clockwise ==
  ASSUME NEW start \in 0 .. Day - 1, NEW end \in 0 .. Day - 1, NEW now \in 0 .. Day - 1
  PROVE  (\E h \in start .. start + ((end - start) % Day) - 1 : now = h % Day)
            <=> IF start <= end THEN start <= now /\ now < end ELSE now >= start \/ now < end
<1>0. Day \in Nat /\ Day > 0
  BY PolicyAssumption
<1>1. ASSUME NEW x \in 0 .. Day - 1
      PROVE  x % Day = x /\ (x + Day) % Day = x
  BY <1>0
<1>2. CASE start <= end
  <2>1. end - start \in 0 .. Day - 1
    BY <1>0, <1>2
  <2>2. start + ((end - start) % Day) - 1 = end - 1
    BY <1>0, <1>1, <2>1
  <2>3. ASSUME NEW h \in start .. end - 1 PROVE h % Day = h
    <3>1. h \in 0 .. Day - 1
      BY <1>0
    <3> QED  BY <1>1, <3>1
  <2>4. (\E h \in start .. end - 1 : now = h % Day) <=> now \in start .. end - 1
    BY <2>3
  <2>5. now \in start .. end - 1 <=> start <= now /\ now < end
    BY <1>0
  <2> QED  BY <1>2, <2>2, <2>4, <2>5
<1>3. CASE ~(start <= end)
  <2>1. end - start + Day \in 0 .. Day - 1
    BY <1>0, <1>3
  <2>2. (end - start) % Day = end - start + Day
    BY <1>0, <1>3
  <2>3. start + ((end - start) % Day) - 1 = end + Day - 1
    BY <1>0, <2>2
  <2>4. ASSUME NEW h \in start .. end + Day - 1
        PROVE  h % Day = IF h < Day THEN h ELSE h - Day
    <3>1. CASE h < Day
      <4>1. h \in 0 .. Day - 1
        BY <1>0, <3>1
      <4> QED  BY <1>1, <3>1, <4>1
    <3>2. CASE ~(h < Day)
      <4>1. h - Day \in 0 .. Day - 1 /\ h = (h - Day) + Day
        BY <1>0, <3>2
      <4>2. ((h - Day) + Day) % Day = h - Day
        BY <1>1, <4>1
      <4> QED  BY <3>2, <4>1, <4>2
    <3> QED  BY <3>1, <3>2
  <2>5. ASSUME now >= start PROVE \E h \in start .. end + Day - 1 : now = h % Day
    <3>1. now \in start .. end + Day - 1 /\ now < Day
      BY <1>0, <2>5
    <3> QED  BY <2>4, <3>1
  <2>6. ASSUME now < end PROVE \E h \in start .. end + Day - 1 : now = h % Day
    <3>1. now + Day \in start .. end + Day - 1 /\ ~(now + Day < Day) /\ (now + Day) - Day = now
      BY <1>0, <2>6
    <3> QED  BY <2>4, <3>1
  <2>7. ASSUME NEW h \in start .. end + Day - 1, now = h % Day PROVE now >= start \/ now < end
    BY <1>0, <2>4, <2>7
  <2> QED  BY <1>3, <2>3, <2>5, <2>6, <2>7
<1> QED  BY <1>2, <1>3

LEMMA MatchesCovers ==
  ASSUME NEW r \in ReflexType, NEW type, NEW task, NEW ts \in Nat
  PROVE  _matches(r, type, task, ts) <=> Covers(r, type, task, ts)
<1>1. (r.on # None => r.on = type) /\ (r.task # None => r.task = task)
        <=> r.on \in {type, None} /\ r.task \in {task, None}
  OBVIOUS
<1>2. CASE r.window = None
  BY <1>1, <1>2 DEF _matches, Covers
<1>3. CASE r.window # None
  <2> DEFINE w == r.window
             now == (ts + w.zone) % Day
  <2>1. /\ w.start \in 0 .. Day - 1 /\ w.end \in 0 .. Day - 1
        /\ w.zone \in Nat \cup {None}
    BY <1>3, PolicyAssumption DEF ReflexType
  <2>2. CASE w.zone = None
    BY <1>1, <1>3, <2>2 DEF _matches, Covers, _in_window
  <2>3. CASE w.zone # None
    <3>1. ts + w.zone \in Int /\ Day \in Nat /\ Day > 0
      BY <2>1, <2>3, PolicyAssumption
    <3>2. now \in 0 .. Day - 1
      BY <3>1
    <3>3. (\E h \in w.start .. w.start + ((w.end - w.start) % Day) - 1 : now = h % Day)
            <=> IF w.start <= w.end THEN w.start <= now /\ now < w.end
                                    ELSE now >= w.start \/ now < w.end
      BY <2>1, <3>2, Clockwise
    <3>4. now \in HoursOf(w)
            <=> \E h \in w.start .. w.start + ((w.end - w.start) % Day) - 1 : now = h % Day
      BY DEF HoursOf
    <3>5. _in_window(w, ts)
            <=> IF w.start <= w.end THEN w.start <= now /\ now < w.end
                                    ELSE now >= w.start \/ now < w.end
      BY <2>3 DEF _in_window
    <3>6. _in_window(w, ts) <=> now \in HoursOf(w)
      BY <3>3, <3>4, <3>5
    <3> QED  BY <1>1, <1>3, <2>3, <3>6 DEF _matches, Covers
  <2> QED  BY <2>2, <2>3
<1> QED  BY <1>2, <1>3

(* match() purges and then looks for the first hit: that is the first of   *)
(* those that are alive and cover the event.                               *)
Answering(p) == {i \in DOMAIN proc[p].reflexes : Answers(p, i)}

LEMMA FirstHit ==
  ASSUME TypeOK, NEW p \in Processes, Reflexable(proc[p].type),
         NEW live, live = purge_expired(proc[p].reflexes),
         NEW hits, hits = {i \in DOMAIN live : _matches(live[i], proc[p].type, proc[p].task, proc[p].ts)}
  PROVE  /\ hits = {} => Answering(p) = {}
         /\ \A k \in hits : (\A l \in hits : k <= l) =>
                \E i \in Answering(p) :
                    live[k] = proc[p].reflexes[i] /\ \A j \in Answering(p) : i <= j
<1> DEFINE s == proc[p].reflexes
           I == {i \in DOMAIN s : ~expired(s[i], clock)}
<1>1. s \in Seq(ReflexType) /\ \A i \in DOMAIN s : s[i] \in ReflexType
  BY ProcessFacts, ElementsTyped
<1>2. /\ I \in SUBSET (DOMAIN s) /\ live = At(s, I)
      /\ DOMAIN live = 1 .. Cardinality(I)
      /\ \A k \in DOMAIN live : Nth(I, k) \in I /\ live[k] = s[Nth(I, k)]
      /\ \A i \in I : \E k \in DOMAIN live : Nth(I, k) = i
      /\ \A k, l \in DOMAIN live : k <= l <=> Nth(I, k) <= Nth(I, l)
  <2>1. I \in SUBSET (DOMAIN s) /\ live = At(s, I)
    BY DEF purge_expired
  <2> HIDE DEF I, s
  <2> QED  BY <1>1, <2>1, AtFacts
<1>3. proc[p].ts \in Nat
  BY ProcessFacts, PolicyAssumption
<1>4. ASSUME NEW i \in DOMAIN s
      PROVE  Answers(p, i) <=> i \in I /\ _matches(s[i], proc[p].type, proc[p].task, proc[p].ts)
  <2>1. _matches(s[i], proc[p].type, proc[p].task, proc[p].ts) <=> Covers(s[i], proc[p].type, proc[p].task, proc[p].ts)
    BY <1>1, <1>3, MatchesCovers
  <2>2. clock < s[i].created + s[i].ttl * Day <=> ~expired(s[i], clock)
    <3>1. s[i].created \in Int /\ s[i].ttl * Day \in Int /\ clock \in Int
      <4>0. s[i] \in ReflexType
        BY <1>1
      <4> HIDE DEF s, I
      <4>1. s[i].ttl \in Int /\ s[i].created \in Int
        BY <4>0, PolicyAssumption DEF ReflexType
      <4> QED  BY <4>1, PolicyAssumption DEF TypeOK
    <3> DEFINE d == s[i].created + s[i].ttl * Day
    <3>2. d \in Int
      BY <3>1
    <3>3. expired(s[i], clock) <=> clock >= d
      BY DEF expired
    <3> HIDE DEF d
    <3>4. clock < d <=> ~expired(s[i], clock)
      BY <3>1, <3>2, <3>3
    <3> QED  BY <3>4 DEF d
  <2> QED  BY <2>1, <2>2 DEF Answers, Reflexable
<1> HIDE DEF I
<1>5. \A i : i \in Answering(p) <=> i \in I /\ _matches(s[i], proc[p].type, proc[p].task, proc[p].ts)
  BY <1>2, <1>4 DEF Answering
<1>6. \A k : k \in hits <=> k \in DOMAIN live /\ Nth(I, k) \in Answering(p)
  BY <1>2, <1>5
<1>7. hits = {} => Answering(p) = {}
  BY <1>2, <1>5, <1>6
<1>8. ASSUME NEW k \in hits, \A l \in hits : k <= l
      PROVE  /\ Nth(I, k) \in Answering(p) /\ live[k] = s[Nth(I, k)]
             /\ \A j \in Answering(p) : Nth(I, k) <= j
  <2>1. ASSUME NEW j \in Answering(p) PROVE Nth(I, k) <= j
    <3>1. PICK l \in DOMAIN live : Nth(I, l) = j
      BY <1>2, <1>5
    <3> QED  BY <1>2, <1>6, <1>8, <3>1
  <2> QED  BY <1>2, <1>6, <2>1
<1> QED  BY <1>7, <1>8

(* An event that waits is answered by match(), and only so.                *)
LEMMA OnlyMatchAnswers ==
  ASSUME TypeOK, [Next]_vars, NEW p \in Processes,
         proc[p].phase = "waiting", proc'[p].phase \in {"reflex", "deciding"}
  PROVE  Match(p)
<1>1. ASSUME NEW q \in Processes, Runs(q) PROVE Match(p)
  <2>1. PICK s : proc' = [proc EXCEPT ![q] = s]
    BY <1>1 DEF Runs, Load, Receive, Match, Answered, Author, Save, Stop, Become
  <2>2. q = p
    BY <2>1 DEF TypeOK
  <2>3. ~Stop(p)
    BY EmptyTyped, BecomeFacts DEF Stop
  <2> QED  BY <1>1, <2>2, <2>3 DEF Runs, Load, Receive, Answered, Author, Save
<1> QED  BY <1>1 DEF Next, HandEdit, Tick, vars

LEMMA Decides ==
  ASSUME TypeOK, NEW p \in Processes, Match(p)
  PROVE  \/ Answering(p) = {} /\ proc'[p].phase = "deciding"
         \/ \E i \in Answering(p) :
                /\ proc'[p].phase = "reflex" /\ proc'[p].by = proc[p].reflexes[i]
                /\ \A j \in Answering(p) : i <= j
<1>0. proc[p] \in ProcessState /\ proc[p].reflexes \in Seq(ReflexType)
  BY ProcessFacts
<1>1. CASE /\ ~Reflexable(proc[p].type)
           /\ Become(p, [proc[p] EXCEPT !.phase = "deciding", !.type = None])
  <2>1. proc'[p].phase = "deciding"
    BY <1>0, <1>1 DEF Become, ProcessState, TypeOK
  <2>2. Answering(p) = {}
    BY <1>1 DEF Answering, Answers, Reflexable
  <2> QED  BY <2>1, <2>2
<1> DEFINE live == purge_expired(proc[p].reflexes)
           hits == {i \in DOMAIN live : _matches(live[i], proc[p].type, proc[p].task, proc[p].ts)}
<1>2. CASE /\ Reflexable(proc[p].type) /\ hits = {}
           /\ Become(p, [proc[p] EXCEPT !.phase = "deciding", !.type = None, !.reflexes = live])
  <2>1. proc'[p].phase = "deciding"
    BY <1>0, <1>2 DEF Become, ProcessState, TypeOK
  <2> QED  BY <1>2, <2>1, FirstHit
<1>3. ASSUME Reflexable(proc[p].type), NEW k \in hits, \A l \in hits : k <= l,
             Become(p, [proc[p] EXCEPT !.phase = "reflex", !.reflexes = live,
                                       !.type = None, !.by = live[k]])
      PROVE  \E i \in Answering(p) :
                /\ proc'[p].phase = "reflex" /\ proc'[p].by = proc[p].reflexes[i]
                /\ \A j \in Answering(p) : i <= j
  <2>1. proc'[p].phase = "reflex" /\ proc'[p].by = live[k]
    BY <1>0, <1>3 DEF Become, ProcessState, TypeOK
  <2>2. \E i \in Answering(p) :
            live[k] = proc[p].reflexes[i] /\ \A j \in Answering(p) : i <= j
    BY <1>3, FirstHit
  <2> HIDE DEF live
  <2> QED  BY <2>1, <2>2
<1> QED  BY <1>1, <1>2, <1>3 DEF Match

-----------------------------------------------------------------------------
LEMMA PInvInit == Init => PInv
<1> SUFFICES ASSUME Init PROVE PInv
  OBVIOUS
<1>1. /\ file = << >> /\ clock = 0 /\ wrote = << >> /\ saved = {} /\ overlapped = FALSE
      /\ \A p \in Processes : proc[p] = Down
  BY DEF Init
<1>2. TypeOK
  <2>1. << >> \in Seq(Written) /\ Len(<< >>) = 0 /\ clock \in 0 .. MaxClock
    BY <1>1, EmptySeq, PolicyAssumption
  <2>2. proc \in [Processes -> ProcessState]
    BY EmptyTyped DEF Init
  <2>3. file \in Seq(ReflexType) \cup {Garbled} /\ overlapped \in BOOLEAN
    BY <1>1, EmptyTyped
  <2>4. /\ wrote \in Seq(Written) /\ Len(wrote) <= MaxAuthored
        /\ saved \subseteq DOMAIN wrote
    BY <1>1, <2>1, PolicyAssumption
  <2> QED  BY <2>1, <2>2, <2>3, <2>4 DEF TypeOK, Written, ProcessState
<1>3. AllTraced
  <2>1. DOMAIN wrote = {}
    BY <1>1
  <2> QED  BY <1>1, <2>1, EmptyTyped DEF AllTraced
<1>4. Kept
  BY <1>1, EmptyTyped, GarbledIsNoFile DEF Kept, Up, Saving
<1> QED  BY <1>2, <1>3, <1>4 DEF PInv

LEMMA PInvHolds == Spec => []PInv
<1>1. PInv /\ [Next]_vars => PInv'
  BY TypeNext, KeptNext DEF PInv
<1> QED  BY PInvInit, <1>1, PTL DEF Spec

(* Whatever is written, edited and mixed up, the state keeps its type.     *)
THEOREM TypeCorrect == Spec => []TypeOK
<1>1. PInv => TypeOK
  BY DEF PInv
<1> QED  BY <1>1, PInvHolds, PTL

(* No rule is in force under a name other than the executive's, and what   *)
(* it decided on is as it was written, for any number of processes that    *)
(* load, edit and save one file and for any hand edits between, also where *)
(* saves mix: a file with another name in it is refused.                   *)
THEOREM VouchedOrRefused == Spec => []InForceAsWritten
<1>1. PInv => InForceAsWritten
  <2> SUFFICES ASSUME PInv, NEW p \in Processes, NEW r \in Elements(proc[p].reflexes)
               PROVE  /\ r.author = "executive"
                      /\ r.no # 0 => /\ r.ttl > 0 /\ r.created = wrote[r.no].ts
                                     /\ r.ttl = wrote[r.no].ttl
    BY DEF InForceAsWritten
  <2>1. Loaded(r)
    BY DEF PInv, AllTraced
  <2> QED  BY <2>1 DEF Loaded, Traced
<1> QED  BY <1>1, PInvHolds, PTL

(* While processes follow one another and no save is disturbed, a reflex   *)
(* that is saved and alive is not lost, whatever developers do between the *)
(* saves and whoever is killed then.                                       *)
THEOREM SavedPersist == Spec => []ReflexesPersist
<1>1. PInv => ReflexesPersist
  <2> SUFFICES ASSUME PInv, ~overlapped, NEW no \in saved, Alive(no)
               PROVE  \/ \E r \in IF file = Garbled THEN {} ELSE Elements(file) : r.no = no
                      \/ \E p \in Processes :
                            /\ proc[p].phase = "saving"
                            /\ \E r \in Elements(proc[p].reflexes) : r.no = no
    BY DEF ReflexesPersist
  <2>1. /\ file # Garbled
        /\ \A p \in Processes : Up(p) => Holds(proc[p].reflexes, no)
        /\ (\A p \in Processes : ~Saving(p)) => Holds(file, no)
    BY DEF PInv, Kept
  <2>2. \A p \in Processes : Saving(p) => Up(p)
    BY DEF Saving, Up
  <2> QED  BY <2>1, <2>2 DEF Saving, Holds
<1> QED  BY <1>1, PInvHolds, PTL

(* What answers an event, for reflexes of any task types, windows, zones   *)
(* and lives: a reflex exactly when one that is alive covers the event of  *)
(* this task, the first one.                                               *)
THEOREM TheRulesDecide == Spec => RulesDecide
<1>1. PInv /\ [Next]_vars =>
        \A p \in Processes :
            proc[p].phase = "waiting" /\ proc'[p].phase \in {"reflex", "deciding"} =>
                LET answering == {i \in DOMAIN proc[p].reflexes : Answers(p, i)}
                IN  \/ answering = {} /\ proc'[p].phase = "deciding"
                    \/ \E i \in answering :
                        /\ proc'[p].phase = "reflex" /\ proc'[p].by = proc[p].reflexes[i]
                        /\ \A j \in answering : i <= j
  <2> SUFFICES ASSUME PInv, [Next]_vars, NEW p \in Processes,
                      proc[p].phase = "waiting", proc'[p].phase \in {"reflex", "deciding"}
               PROVE  \/ Answering(p) = {} /\ proc'[p].phase = "deciding"
                      \/ \E i \in Answering(p) :
                            /\ proc'[p].phase = "reflex" /\ proc'[p].by = proc[p].reflexes[i]
                            /\ \A j \in Answering(p) : i <= j
    BY DEF Answering
  <2>1. Match(p) /\ TypeOK
    BY OnlyMatchAnswers DEF PInv
  <2> QED  BY <2>1, Decides
<1> QED  BY <1>1, PInvHolds, PTL DEF Spec, RulesDecide

(* A reflex of the executive's that fires was written less than its ttl    *)
(* ago, however often it was saved and loaded since: its stamp is never    *)
(* renewed.                                                                *)
THEOREM NoneFiresExpired == Spec => ExpiredNeverFires
<1>1. PInv /\ [Next]_vars =>
        \A p \in Processes :
            Fires(p) /\ proc'[p].by.no # 0 =>
                LET w == wrote[proc'[p].by.no] IN clock < w.at + w.ttl * Day
  <2> SUFFICES ASSUME PInv, [Next]_vars, NEW p \in Processes, Fires(p),
                      proc'[p].by.no # 0
               PROVE  clock < wrote[proc'[p].by.no].at + wrote[proc'[p].by.no].ttl * Day
    OBVIOUS
  <2>1. Match(p) /\ TypeOK /\ AllTraced
    BY OnlyMatchAnswers DEF PInv, Fires
  <2>2. PICK i \in Answering(p) : proc'[p].by = proc[p].reflexes[i]
    BY <2>1, Decides DEF Fires
  <2>3. PICK r \in ReflexType : r = proc[p].reflexes[i]
    BY <2>1, ProcessFacts, ElementsTyped DEF Answering
  <2>4. Loaded(r) /\ r.no # 0 /\ clock < r.created + r.ttl * Day
    BY <2>1, <2>2, <2>3 DEF Answering, Answers, AllTraced, Elements
  <2>5. PICK w \in Written : w = wrote[r.no]
    BY <2>1, <2>4, ElementsTyped DEF Loaded, Traced, TypeOK, Written
  <2>6. r.created = w.ts /\ r.ttl = w.ttl /\ w.ts <= w.at
    BY <2>1, <2>4, <2>5 DEF Loaded, Traced, AllTraced
  <2>7. w.ttl \in Int /\ w.ts \in Int /\ w.at \in Int /\ clock \in Int
    BY <2>1, PolicyAssumption DEF Written, TypeOK
  <2>8. w.ttl * Day \in Int
    BY <2>7, PolicyAssumption
  <2>9. clock < w.at + w.ttl * Day
    BY <2>4, <2>6, <2>7, <2>8
  <2> QED  BY <2>2, <2>3, <2>5, <2>9
<1> QED  BY <1>1, PInvHolds, PTL DEF Spec, ExpiredNeverFires

-----------------------------------------------------------------------------
(* Wakes.                                                                  *)

(* While the executive of record is asked, it has given nothing but        *)
(* invalid answers; then there is a decision.                              *)
Asked ==
    /\ phase = "record" =>
        attempt = Len(heard) + 1 /\ \A i \in DOMAIN heard : heard[i] = Invalid
    /\ phase \in {"candidate", "acting"} => decision \in AllVerbs

(* The shadow's books count what was recorded.                             *)
Books ==
    /\ agreement.routine_total = Cardinality(Routine)
    /\ agreement.routine_agreed = Cardinality(Routine) - Cardinality(Routine \cap Differing)
    /\ agreement.gate_divergences = Cardinality(Differing \cap AtAGate)

WInv == WTypeOK /\ Asked /\ ActsOnTheRecord /\ ShownCompressed /\ Books

-----------------------------------------------------------------------------
LedgerType == [plan : Nat, outcomes : Nat, questions : Nat, state : SUBSET Keys]

LEMMA LimitFacts ==
  ASSUME NEW n \in Nat, NEW limit \in Nat
  PROVE  AtMost(n, limit) \in Nat /\ AtMost(n, limit) <= limit
BY DEF AtMost

(* What compress() drops, it drops whatever the ledger holds.              *)
LEMMA CompressFacts ==
  ASSUME NEW l \in LedgerType
  PROVE  /\ compress(l) \in LedgerType
         /\ compress(l).outcomes <= CompactOutcomes /\ compress(l).plan <= CompactPlan
         /\ "_contract_rejected" \notin compress(l).state
<1> DEFINE first == [l EXCEPT !.outcomes = AtMost(@, CompactOutcomes),
                              !.plan = AtMost(@, CompactPlan), !.state = @ \ Transient]
           q == IF OverCap(first) THEN AtMost(l.questions, CompactQuestions) ELSE l.questions
<1>1. /\ CompactOutcomes \in Nat /\ CompactPlan \in Nat /\ CompactQuestions \in Nat
      /\ l.outcomes \in Nat /\ l.plan \in Nat /\ l.questions \in Nat /\ l.state \subseteq Keys
  BY WakeAssumption DEF LedgerType
<1>2. /\ AtMost(l.outcomes, CompactOutcomes) \in Nat
      /\ AtMost(l.outcomes, CompactOutcomes) <= CompactOutcomes
      /\ AtMost(l.plan, CompactPlan) \in Nat /\ AtMost(l.plan, CompactPlan) <= CompactPlan
      /\ q \in Nat
  BY <1>1, LimitFacts
<1>3. /\ first \in LedgerType /\ first.outcomes = AtMost(l.outcomes, CompactOutcomes)
      /\ first.plan = AtMost(l.plan, CompactPlan) /\ first.state = l.state \ Transient
      /\ first.questions = l.questions
  BY <1>1, <1>2 DEF LedgerType
<1>4. compress(l) = [first EXCEPT !.questions = IF OverCap(first)
                                                THEN AtMost(@, CompactQuestions) ELSE @,
                                  !.state = @ \cup {"_last_compression"}]
  BY DEF compress
<1> HIDE DEF first
<1>5. compress(l) = [first EXCEPT !.questions = q, !.state = @ \cup {"_last_compression"}]
  BY <1>3, <1>4 DEF LedgerType
<1> HIDE DEF q
<1>6. /\ compress(l) \in LedgerType
      /\ compress(l).outcomes = first.outcomes /\ compress(l).plan = first.plan
      /\ compress(l).state = first.state \cup {"_last_compression"}
  BY <1>2, <1>3, <1>5 DEF LedgerType, Keys, Transient
<1>7. "_contract_rejected" \in Transient /\ "_contract_rejected" # "_last_compression"
  BY DEF Transient
<1> QED  BY <1>2, <1>3, <1>6, <1>7

LEMMA MarkedTyped ==
  ASSUME NEW l \in LedgerType, NEW keys \in SUBSET Keys
  PROVE  Marked(l, keys) \in LedgerType
BY DEF Marked, LedgerType

LEMMA RecordedTyped ==
  ASSUME NEW l \in LedgerType, NEW n \in Nat
  PROVE  record_outcome(l, n) \in LedgerType
<1>1. l.outcomes + n \in Nat /\ RECENT_OUTCOMES_KEPT \in Nat
  BY WakeAssumption DEF LedgerType
<1>2. AtMost(l.outcomes + n, RECENT_OUTCOMES_KEPT) \in Nat
  BY <1>1, LimitFacts
<1> QED  BY <1>2 DEF record_outcome, LedgerType

LEMMA DispatchedTyped ==
  ASSUME NEW l \in LedgerType, NEW lanes \in Nat
  PROVE  Dispatched(l, lanes) \subseteq LedgerType
<1> SUFFICES ASSUME NEW n \in 0 .. lanes, NEW keys \in SUBSET {"lane_drained", "_contract_rejected"}
             PROVE  Marked(record_outcome(l, n), keys) \in LedgerType
  BY DEF Dispatched
<1>1. keys \in SUBSET Keys
  BY DEF Keys, Transient
<1> QED  BY <1>1, RecordedTyped, MarkedTyped

LEMMA EffectsTyped ==
  ASSUME NEW l \in LedgerType, NEW verb \in AllVerbs, NEW m \in Effects(verb, l)
  PROVE  m \in LedgerType
<1>1. /\ {"last_route"} \in SUBSET Keys /\ {"escalation"} \in SUBSET Keys
      /\ {"plan_revised"} \in SUBSET Keys
  BY DEF Keys
<1>2. /\ Dispatched(l, 1) \subseteq LedgerType /\ Dispatched(l, 2) \subseteq LedgerType
      /\ Dispatched(Marked(l, {"last_route"}), 1) \subseteq LedgerType
      /\ Marked(l, {"escalation"}) \in LedgerType
      /\ record_outcome(l, 1) \in LedgerType /\ record_outcome(compress(l), 1) \in LedgerType
  BY <1>1, DispatchedTyped, MarkedTyped, RecordedTyped, CompressFacts
<1>3. ASSUME NEW n \in PlanLengths \cup {l.plan}
      PROVE  Marked([l EXCEPT !.plan = n], {"plan_revised"}) \in LedgerType
  <2>1. [l EXCEPT !.plan = n] \in LedgerType
    BY WakeAssumption DEF LedgerType
  <2> QED  BY <1>1, <2>1, MarkedTyped
<1>4. [l EXCEPT !.questions = @ + 1] \in LedgerType
  BY DEF LedgerType
<1>5. CASE verb \in {"dispatch", "retry"}
  BY <1>2, <1>5 DEF Effects
<1>6. CASE verb = "route"
  BY <1>2, <1>6 DEF Effects
<1>7. CASE verb = "race"
  BY <1>2, <1>7 DEF Effects
<1>8. CASE verb \in {"verify", "edit_policy"}
  BY <1>2, <1>8 DEF Effects
<1>9. CASE verb = "escalate"
  BY <1>2, <1>9 DEF Effects
<1>10. CASE verb = "compress_ledger"
  BY <1>2, <1>10 DEF Effects
<1>11. CASE verb = "revise_plan"
  BY <1>3, <1>11 DEF Effects
<1>12. CASE verb = "request_human"
  BY <1>4, <1>12 DEF Effects
<1>13. CASE verb \in {"checkpoint", "halt"}
  BY <1>13 DEF Effects
<1> QED
  BY <1>5, <1>6, <1>7, <1>8, <1>9, <1>10, <1>11, <1>12, <1>13 DEF AllVerbs

LEMMA DecidedTyped ==
  ASSUME NEW verbs \in SUBSET AllVerbs, NEW a \in Valid(verbs) \cup {Invalid, Raises}, a # Raises
  PROVE  /\ Decided(a) \in AllVerbs
         /\ Decided(a) = IF a.confident THEN a.verb ELSE "escalate"
<1>1. "escalate" \in AllVerbs
  BY DEF AllVerbs
<1>2. CASE a = Invalid
  BY <1>1, <1>2 DEF Decided, Invalid
<1>3. CASE a # Invalid
  BY <1>1, <1>3 DEF Decided, Valid, apply_confidence_gate
<1> QED  BY <1>2, <1>3

-----------------------------------------------------------------------------
(* The wake begins: what is shown is under the cap, or compressed.         *)
LEMMA BeginKeeps ==
  ASSUME WInv, Begin
  PROVE  WInv'
<1>1. ledger \in LedgerType /\ wakes \in Nat /\ wakes < MaxWakes /\ MaxWakes \in Nat
      /\ MAX_INVALID_ATTEMPTS \in Nat \ {0}
  BY WakeAssumption DEF WInv, WTypeOK, LedgerType, Begin
<1> DEFINE c == [compress(ledger) EXCEPT !.state = @ \cup {"_forced_compression"}]
<1>2. /\ c \in LedgerType /\ c.outcomes <= CompactOutcomes /\ c.plan <= CompactPlan
      /\ "_contract_rejected" \notin c.state
  <2>1. /\ compress(ledger) \in LedgerType
        /\ compress(ledger).outcomes <= CompactOutcomes /\ compress(ledger).plan <= CompactPlan
        /\ "_contract_rejected" \notin compress(ledger).state
    BY <1>1, CompressFacts
  <2> QED  BY <2>1 DEF LedgerType, Keys, Transient
<1>3. ledger' = IF OverCap(ledger) THEN c ELSE ledger
  BY DEF Begin
<1> HIDE DEF c
<1>4. ledger' \in LedgerType
  BY <1>1, <1>2, <1>3
<1>5. /\ phase' = "record" /\ attempt' = 1 /\ decision' = NoVerb /\ wakes' = wakes + 1
      /\ heard' = << >> /\ UNCHANGED <<agreement, compared>>
  BY DEF Begin
<1>6. << >> \in Seq(Valid(Verbs) \cup {Invalid, Raises}) /\ Len(<< >>) = 0 /\ DOMAIN << >> = {}
  BY EmptySeq
<1>7. WTypeOK'
  <2>1. attempt' \in 0 .. MAX_INVALID_ATTEMPTS /\ wakes' \in 0 .. MaxWakes
    BY <1>1, <1>5
  <2> QED  BY <1>4, <1>5, <1>6, <2>1 DEF WInv, WTypeOK, LedgerType
<1>8. ShownCompressed'
  <2>1. CASE OverCap(ledger)
    BY <1>2, <1>3, <2>1 DEF ShownCompressed
  <2>2. CASE ~OverCap(ledger)
    <3>1. ledger' = ledger
      BY <1>3, <2>2
    <3>2. ~OverCap(ledger')
      BY <2>2, <3>1
    <3>3. OverCap(ledger)' <=> OverCap(ledger')
      BY DEF OverCap, Tokens
    <3> QED  BY <3>2, <3>3 DEF ShownCompressed
  <2> QED  BY <2>1, <2>2
<1>9. Asked' /\ ActsOnTheRecord'
  BY <1>5, <1>6 DEF Asked, ActsOnTheRecord
<1>10. Books'
  BY <1>5 DEF WInv, Books, Routine, Differing, AtAGate
<1> QED  BY <1>7, <1>8, <1>9, <1>10 DEF WInv

(* The executive of record answers: what it is asked for again was invalid. *)
LEMMA RecordKeeps ==
  ASSUME WInv, RecordAnswers
  PROVE  WInv'
<1> DEFINE A == Valid(Verbs) \cup {Invalid, Raises}
<1>1. PICK a \in A :
        /\ heard' = Append(heard, a)
        /\ \/ a = Raises /\ phase' = "over" /\ UNCHANGED <<attempt, decision>>
           \/ Again(a) /\ attempt' = attempt + 1 /\ UNCHANGED <<phase, decision>>
           \/ /\ a # Raises /\ ~Again(a)
              /\ phase' = "candidate" /\ attempt' = 1 /\ decision' = Decided(a)
  BY DEF RecordAnswers
<1>2. phase = "record" /\ UNCHANGED <<ledger, agreement, wakes, compared>>
  BY DEF RecordAnswers
<1>3. /\ heard \in Seq(A) /\ attempt = Len(heard) + 1 /\ \A i \in DOMAIN heard : heard[i] = Invalid
      /\ attempt \in 0 .. MAX_INVALID_ATTEMPTS /\ MAX_INVALID_ATTEMPTS \in Nat \ {0}
      /\ Verbs \in SUBSET AllVerbs
  BY <1>2, WakeAssumption DEF WInv, WTypeOK, Asked
<1> DEFINE h == Append(heard, a)
<1>4. /\ h \in Seq(A) /\ Len(h) = Len(heard) + 1
      /\ \A i \in 1 .. Len(heard) : h[i] = heard[i]
      /\ h[Len(heard) + 1] = a
  <2> HIDE DEF A
  <2> QED  BY <1>3, AppendProperties
<1>5. /\ Len(heard) \in Nat /\ DOMAIN heard = 1 .. Len(heard)
      /\ DOMAIN h = 1 .. Len(heard) + 1 /\ heard' = h
  <2> HIDE DEF A
  <2> QED  BY <1>1, <1>3, <1>4, LenProperties
<1> HIDE DEF h
<1>6. Books'
  BY <1>2 DEF WInv, Books, Routine, Differing, AtAGate
<1>7. CASE a = Raises /\ phase' = "over" /\ UNCHANGED <<attempt, decision>>
  <2>1. WTypeOK'
    BY <1>2, <1>4, <1>5, <1>7 DEF WInv, WTypeOK
  <2> QED  BY <1>6, <1>7, <2>1 DEF WInv, Asked, ActsOnTheRecord, ShownCompressed
<1>8. CASE Again(a) /\ attempt' = attempt + 1 /\ UNCHANGED <<phase, decision>>
  <2>1. a = Invalid /\ attempt' \in 0 .. MAX_INVALID_ATTEMPTS
    BY <1>3, <1>8 DEF Again
  <2>2. WTypeOK'
    BY <1>2, <1>4, <1>5, <1>8, <2>1 DEF WInv, WTypeOK
  <2>3. \A i \in DOMAIN h : h[i] = Invalid
    <3>1. \A i \in DOMAIN h : i \in DOMAIN heard \/ i = Len(heard) + 1
      BY <1>5
    <3> QED  BY <1>3, <1>4, <1>5, <2>1, <3>1
  <2>4. Asked'
    BY <1>2, <1>3, <1>4, <1>5, <1>8, <2>3 DEF Asked
  <2>5. ActsOnTheRecord' /\ ShownCompressed'
    <3>1. OverCap(ledger)' <=> OverCap(ledger)
      BY <1>2 DEF OverCap, Tokens
    <3> QED  BY <1>2, <1>8, <3>1 DEF WInv, ActsOnTheRecord, ShownCompressed
  <2> QED  BY <1>6, <2>2, <2>4, <2>5 DEF WInv
<1>9. CASE /\ a # Raises /\ ~Again(a)
           /\ phase' = "candidate" /\ attempt' = 1 /\ decision' = Decided(a)
  <2>1. Decided(a) \in AllVerbs /\ Decided(a) = IF a.confident THEN a.verb ELSE "escalate"
    BY <1>3, <1>9, DecidedTyped
  <2>2. attempt' \in 0 .. MAX_INVALID_ATTEMPTS
    BY <1>3, <1>9
  <2>3. WTypeOK'
    BY <1>2, <1>4, <1>5, <1>9, <2>1, <2>2 DEF WInv, WTypeOK
  <2>4. Asked'
    BY <1>9, <2>1 DEF Asked
  <2> DEFINE invalid == {i \in DOMAIN h : h[i] = Invalid}
  <2>5. Len(h) <= MAX_INVALID_ATTEMPTS /\ h[Len(h)] = a
    BY <1>3, <1>4, <1>5
  <2>6. \A i \in DOMAIN h :
            i \in invalid <=> i \in 1 .. Len(heard) \/ (i = Len(heard) + 1 /\ a = Invalid)
    <3>1. \A i \in DOMAIN h : i \in DOMAIN heard \/ i = Len(heard) + 1
      BY <1>5
    <3>2. Len(heard) + 1 \notin 1 .. Len(heard)
      BY <1>5
    <3> QED  BY <1>3, <1>4, <1>5, <3>1, <3>2
  <2>7. invalid = IF a = Invalid THEN 1 .. MAX_INVALID_ATTEMPTS ELSE 1 .. Len(h) - 1
    <3>1. CASE a = Invalid
      <4>1. Len(heard) + 1 = MAX_INVALID_ATTEMPTS
        BY <1>3, <1>5, <1>9, <3>1 DEF Again
      <4>2. \A i \in DOMAIN h : i \in invalid
        BY <1>5, <2>6, <3>1
      <4> QED  BY <1>5, <3>1, <4>1, <4>2
    <3>2. CASE a # Invalid
      <4>1. Len(h) - 1 = Len(heard) /\ \A i \in 1 .. Len(heard) : i \in DOMAIN h
        BY <1>4, <1>5
      <4> QED  BY <2>6, <3>2, <4>1
    <3> QED  BY <3>1, <3>2
  <2>8. ActsOnTheRecord'
    BY <1>5, <1>9, <2>1, <2>5, <2>7 DEF ActsOnTheRecord
  <2>9. ShownCompressed'
    BY <1>9 DEF ShownCompressed
  <2> QED  BY <1>6, <2>3, <2>4, <2>8, <2>9 DEF WInv
<1> QED  BY <1>1, <1>7, <1>8, <1>9

-----------------------------------------------------------------------------
Agreement ==
    [total : Nat, agreed : Nat, routine_total : Nat, routine_agreed : Nat,
     gate_divergences : Nat, disagreements : Nat]

LEMMA AgreementFields ==
  ASSUME WTypeOK
  PROVE  /\ agreement \in Agreement
         /\ agreement.total \in Nat /\ agreement.agreed \in Nat
         /\ agreement.routine_total \in Nat /\ agreement.routine_agreed \in Nat
         /\ agreement.gate_divergences \in Nat /\ agreement.disagreements \in Nat
BY DEF WTypeOK, Agreement

(* The counts of a list that grows by one.                                 *)
LEMMA OneMore ==
  ASSUME NEW n \in Nat, NEW I \in SUBSET (1 .. n), NEW b \in BOOLEAN,
         NEW J, J = I \cup (IF b THEN {n + 1} ELSE {})
  PROVE  Cardinality(I) \in Nat /\ Cardinality(J) = Cardinality(I) + Count(b)
<1>1. IsFiniteSet(I) /\ Cardinality(I) \in Nat
  <2>1. IsFiniteSet(1 .. n)
    BY FS_Interval
  <2>2. IsFiniteSet(I)
    BY <2>1, FS_Subset
  <2> QED  BY <2>2, FS_CardinalityType
<1>2. n + 1 \notin I
  <2>1. n + 1 \notin 1 .. n
    OBVIOUS
  <2> QED  BY <2>1
<1>3. CASE b
  <2>1. J = I \cup {n + 1}
    BY <1>3
  <2>2. Cardinality(J) = Cardinality(I) + 1
    BY <1>1, <1>2, <2>1, FS_AddElement
  <2> QED  BY <1>1, <1>3, <2>2 DEF Count
<1>4. CASE ~b
  <2>1. J = I
    BY <1>4
  <2> QED  BY <1>1, <1>4, <2>1 DEF Count
<1> QED  BY <1>3, <1>4

(* Two more decisions: the books grow as the record does.                  *)
LEMMA BooksKept ==
  ASSUME WInv, NEW real \in AllVerbs, NEW shadow \in AllVerbs,
         agreement' = Observed(real, shadow),
         compared' = Append(compared, [real |-> real, shadow |-> shadow])
  PROVE  /\ Books' /\ compared' \in Seq([real : AllVerbs, shadow : AllVerbs])
         /\ agreement' \in Agreement
<1> DEFINE Pair == [real : AllVerbs, shadow : AllVerbs]
           pair == [real |-> real, shadow |-> shadow]
           routine == real \in ROUTINE_VERBS
           differ == shadow # real
           gate == {real, shadow} \cap GATE_VERBS # {}
           n == Len(compared)
           more(I, b) == I \cup (IF b THEN {n + 1} ELSE {})
<1>1. /\ compared \in Seq(Pair) /\ pair \in Pair /\ pair.real = real /\ pair.shadow = shadow
      /\ compared' = Append(compared, pair)
  BY DEF WInv, WTypeOK
<1>2. /\ compared' \in Seq(Pair) /\ Len(compared') = n + 1
      /\ \A i \in 1 .. n : compared'[i] = compared[i]
      /\ compared'[n + 1] = pair
  <2> HIDE DEF Pair, pair
  <2> QED  BY <1>1, AppendProperties
<1>3. n \in Nat /\ DOMAIN compared = 1 .. n /\ DOMAIN compared' = 1 .. n + 1
  <2> HIDE DEF Pair
  <2> QED  BY <1>1, <1>2, LenProperties
<1>4. /\ agreement'.routine_total = agreement.routine_total + Count(routine)
      /\ agreement'.routine_agreed = agreement.routine_agreed + Count(routine /\ ~differ)
      /\ agreement'.gate_divergences = agreement.gate_divergences + Count(differ /\ gate)
  BY DEF Observed, WInv, WTypeOK
<1>5. agreement' \in Agreement
  <2> DEFINE agreed == Count(shadow = real)
             routines == Count(real \in ROUTINE_VERBS)
             both == Count(real \in ROUTINE_VERBS /\ shadow = real)
             differs == Count(shadow # real)
             gates == Count(shadow # real /\ {real, shadow} \cap GATE_VERBS # {})
  <2>1. /\ agreed \in Nat /\ routines \in Nat /\ both \in Nat /\ differs \in Nat /\ gates \in Nat
    BY DEF Count
  <2>2. agreement' = [agreement EXCEPT
            !.total = @ + 1, !.agreed = @ + agreed, !.routine_total = @ + routines,
            !.routine_agreed = @ + both, !.disagreements = @ + differs,
            !.gate_divergences = @ + gates]
    BY DEF Observed
  <2> HIDE DEF agreed, routines, both, differs, gates
  <2>3. agreement \in Agreement
    BY DEF WInv, WTypeOK, Agreement
  <2>4. /\ agreement.total + 1 \in Nat /\ agreement.agreed + agreed \in Nat
        /\ agreement.routine_total + routines \in Nat /\ agreement.routine_agreed + both \in Nat
        /\ agreement.disagreements + differs \in Nat /\ agreement.gate_divergences + gates \in Nat
    <3>1. /\ agreement.total \in Nat /\ agreement.agreed \in Nat
          /\ agreement.routine_total \in Nat /\ agreement.routine_agreed \in Nat
          /\ agreement.gate_divergences \in Nat /\ agreement.disagreements \in Nat
      BY AgreementFields DEF WInv
    <3>2. \A m, k \in Nat : m + k \in Nat
      OBVIOUS
    <3>3. agreement.total + 1 \in Nat
      BY <3>1
    <3>4. agreement.agreed + agreed \in Nat
      BY <2>1, <3>1, <3>2
    <3>5. agreement.routine_total + routines \in Nat
      BY <2>1, <3>1, <3>2
    <3>6. agreement.routine_agreed + both \in Nat
      BY <2>1, <3>1, <3>2
    <3>7. agreement.disagreements + differs \in Nat /\ agreement.gate_divergences + gates \in Nat
      BY <2>1, <3>1, <3>2
    <3> QED  BY <3>3, <3>4, <3>5, <3>6, <3>7
  <2> QED  BY <2>2, <2>3, <2>4 DEF Agreement
<1> HIDE DEF n, pair
<1>6. \A i \in 1 .. n + 1 : i \in 1 .. n \/ i = n + 1
  BY <1>3
<1>7. n + 1 \notin 1 .. n /\ n + 1 \in 1 .. n + 1 /\ \A i \in 1 .. n : i \in 1 .. n + 1
  BY <1>3
<1> DEFINE real_(i) == compared'[i].real
           shadow_(i) == compared'[i].shadow
<1>8. /\ Routine' = {i \in 1 .. n + 1 : real_(i) \in ROUTINE_VERBS}
      /\ Differing' = {i \in 1 .. n + 1 : shadow_(i) # real_(i)}
      /\ AtAGate' = {i \in 1 .. n + 1 : {real_(i), shadow_(i)} \cap GATE_VERBS # {}}
      /\ Routine = {i \in 1 .. n : real_(i) \in ROUTINE_VERBS}
      /\ Differing = {i \in 1 .. n : shadow_(i) # real_(i)}
      /\ AtAGate = {i \in 1 .. n : {real_(i), shadow_(i)} \cap GATE_VERBS # {}}
  BY <1>2, <1>3 DEF Routine, Differing, AtAGate
<1>9. real_(n + 1) = real /\ shadow_(n + 1) = shadow
  BY <1>1, <1>2
<1> HIDE DEF real_, shadow_
<1>10. /\ Routine' = more(Routine, routine)
       /\ Differing' = more(Differing, differ)
       /\ AtAGate' = more(AtAGate, gate)
       /\ Routine \in SUBSET (1 .. n) /\ Differing \in SUBSET (1 .. n)
       /\ AtAGate \in SUBSET (1 .. n)
  BY <1>6, <1>7, <1>8, <1>9
<1> HIDE DEF routine, differ, gate
<1>11. /\ (Routine \cap Differing)' = more(Routine \cap Differing, routine /\ differ)
       /\ (Differing \cap AtAGate)' = more(Differing \cap AtAGate, differ /\ gate)
       /\ Routine \cap Differing \in SUBSET (1 .. n) /\ Differing \cap AtAGate \in SUBSET (1 .. n)
  BY <1>7, <1>10
<1>12. /\ Cardinality(Routine') = Cardinality(Routine) + Count(routine)
       /\ Cardinality((Routine \cap Differing)')
            = Cardinality(Routine \cap Differing) + Count(routine /\ differ)
       /\ Cardinality((Differing \cap AtAGate)')
            = Cardinality(Differing \cap AtAGate) + Count(differ /\ gate)
       /\ Cardinality(Routine) \in Nat /\ Cardinality(Routine \cap Differing) \in Nat
       /\ Cardinality(Differing \cap AtAGate) \in Nat
  <2>1. routine \in BOOLEAN /\ (routine /\ differ) \in BOOLEAN /\ (differ /\ gate) \in BOOLEAN
    BY DEF routine, differ, gate
  <2>2. /\ Cardinality(Routine') = Cardinality(Routine) + Count(routine)
        /\ Cardinality(Routine) \in Nat
    BY <1>3, <1>10, <2>1, OneMore
  <2> DEFINE I == Routine \cap Differing
             J == Differing \cap AtAGate
  <2>3. /\ I \in SUBSET (1 .. n) /\ (I)' = I \cup (IF routine /\ differ THEN {n + 1} ELSE {})
        /\ J \in SUBSET (1 .. n) /\ (J)' = J \cup (IF differ /\ gate THEN {n + 1} ELSE {})
    BY <1>11
  <2> HIDE DEF I, J
  <2>4. Cardinality((I)') = Cardinality(I) + Count(routine /\ differ) /\ Cardinality(I) \in Nat
    BY <1>3, <2>1, <2>3, OneMore
  <2>5. Cardinality((J)') = Cardinality(J) + Count(differ /\ gate) /\ Cardinality(J) \in Nat
    BY <1>3, <2>1, <2>3, OneMore
  <2> QED  BY <2>2, <2>4, <2>5 DEF I, J
<1>13. Count(routine /\ ~differ) = Count(routine) - Count(routine /\ differ)
  BY DEF Count
<1>14. /\ Count(routine) \in Nat /\ Count(routine /\ differ) \in Nat
  BY DEF Count
<1>15. Books'
  BY <1>4, <1>12, <1>13, <1>14 DEF Books, WInv
<1> QED  BY <1>2, <1>5, <1>15

(* The candidate answers; the decision of the record is not touched.       *)
LEMMA CandidateKeeps ==
  ASSUME WInv, CandidateAnswers
  PROVE  WInv'
<1>1. PICK a \in Valid(CandidateVerbs) \cup {Invalid, Raises} :
        \/ /\ a = Raises
           /\ agreement' = [agreement EXCEPT !.disagreements = @ + 1]
           /\ phase' = "acting" /\ UNCHANGED <<attempt, compared>>
        \/ Again(a) /\ attempt' = attempt + 1 /\ UNCHANGED <<phase, agreement, compared>>
        \/ /\ a # Raises /\ ~Again(a)
           /\ agreement' = Observed(decision, Decided(a))
           /\ compared' = Append(compared, [real |-> decision, shadow |-> Decided(a)])
           /\ phase' = "acting" /\ UNCHANGED attempt
  BY DEF CandidateAnswers
<1>2. phase = "candidate" /\ UNCHANGED <<ledger, decision, wakes, heard>>
  BY DEF CandidateAnswers
<1>3. phase' \in {"candidate", "acting"}
  BY <1>1, <1>2
<1>4. Asked' /\ ActsOnTheRecord' /\ ShownCompressed'
  BY <1>2, <1>3 DEF WInv, Asked, ActsOnTheRecord, ShownCompressed
<1>5. CASE /\ agreement' = [agreement EXCEPT !.disagreements = @ + 1]
           /\ phase' = "acting" /\ UNCHANGED <<attempt, compared>>
  <2>0. agreement' \in Agreement
    <3>1. agreement \in Agreement /\ agreement.disagreements \in Nat
      BY AgreementFields DEF WInv
    <3>2. agreement.disagreements + 1 \in Nat
      BY <3>1
    <3> QED  BY <1>5, <3>1, <3>2 DEF Agreement
  <2>1. WTypeOK'
    BY <1>2, <1>5, <2>0 DEF WInv, WTypeOK, Agreement
  <2>2. Books'
    BY <1>5 DEF WInv, WTypeOK, Books, Routine, Differing, AtAGate
  <2> QED  BY <1>4, <2>1, <2>2 DEF WInv
<1>6. CASE Again(a) /\ attempt' = attempt + 1 /\ UNCHANGED <<phase, agreement, compared>>
  <2>1. attempt' \in 0 .. MAX_INVALID_ATTEMPTS
    <3>1. attempt \in 0 .. MAX_INVALID_ATTEMPTS /\ MAX_INVALID_ATTEMPTS \in Nat
      BY WakeAssumption DEF WInv, WTypeOK
    <3>2. attempt < MAX_INVALID_ATTEMPTS
      BY <1>6 DEF Again
    <3> QED  BY <1>6, <3>1, <3>2
  <2>2. WTypeOK'
    BY <1>2, <1>6, <2>1 DEF WInv, WTypeOK
  <2>3. Books'
    BY <1>6 DEF WInv, Books, Routine, Differing, AtAGate
  <2> QED  BY <1>4, <2>2, <2>3 DEF WInv
<1>7. CASE /\ a # Raises
           /\ agreement' = Observed(decision, Decided(a))
           /\ compared' = Append(compared, [real |-> decision, shadow |-> Decided(a)])
           /\ phase' = "acting" /\ UNCHANGED attempt
  <2>1. decision \in AllVerbs /\ Decided(a) \in AllVerbs
    BY <1>2, <1>7, DecidedTyped, WakeAssumption DEF WInv, Asked
  <2>2. /\ Books' /\ compared' \in Seq([real : AllVerbs, shadow : AllVerbs])
        /\ agreement' \in Agreement
    BY <1>7, <2>1, BooksKept
  <2>3. WTypeOK'
    BY <1>2, <1>7, <2>2 DEF WInv, WTypeOK, Agreement
  <2> QED  BY <1>4, <2>2, <2>3 DEF WInv
<1> QED  BY <1>1, <1>5, <1>6, <1>7

LEMMA ActKeeps ==
  ASSUME WInv, Act
  PROVE  WInv'
<1>1. /\ phase = "acting" /\ phase' \in {"idle", "over"} /\ ledger' \in Effects(decision, ledger)
      /\ UNCHANGED <<attempt, decision, agreement, wakes, heard, compared>>
  BY DEF Act
<1>2. ledger' \in LedgerType
  BY <1>1, EffectsTyped DEF WInv, WTypeOK, LedgerType, Asked
<1>3. WTypeOK'
  BY <1>1, <1>2 DEF WInv, WTypeOK, LedgerType
<1>4. Asked' /\ ActsOnTheRecord' /\ ShownCompressed'
  BY <1>1 DEF Asked, ActsOnTheRecord, ShownCompressed
<1>5. Books'
  BY <1>1 DEF WInv, Books, Routine, Differing, AtAGate
<1> QED  BY <1>3, <1>4, <1>5 DEF WInv

LEMMA WInvInit ==
  ASSUME WInit
  PROVE  WInv
<1>1. /\ phase = "idle" /\ attempt = 0 /\ decision = NoVerb /\ wakes = 0
      /\ heard = << >> /\ compared = << >>
      /\ agreement = [total |-> 0, agreed |-> 0, routine_total |-> 0, routine_agreed |-> 0,
                      gate_divergences |-> 0, disagreements |-> 0]
  BY DEF WInit
<1>2. /\ << >> \in Seq(Valid(Verbs) \cup {Invalid, Raises})
      /\ << >> \in Seq([real : AllVerbs, shadow : AllVerbs]) /\ DOMAIN << >> = {}
  BY EmptySeq
<1>3. WTypeOK
  <2>1. PICK n \in PlanLengths :
            ledger = [plan |-> n, outcomes |-> 0, questions |-> 0, state |-> {}]
    BY DEF WInit
  <2>2. ledger \in [plan : Nat, outcomes : Nat, questions : Nat, state : SUBSET Keys]
    BY <2>1, WakeAssumption
  <2>3. attempt \in 0 .. MAX_INVALID_ATTEMPTS /\ wakes \in 0 .. MaxWakes
    BY <1>1, WakeAssumption
  <2> QED  BY <1>1, <1>2, <2>2, <2>3 DEF WTypeOK
<1>4. Books
  <2>1. Routine = {} /\ Differing = {}
    BY <1>1, <1>2 DEF Routine, Differing
  <2>2. Routine \cap Differing = {} /\ Differing \cap AtAGate = {}
    BY <2>1
  <2> QED  BY <1>1, <2>1, <2>2, FS_EmptySet DEF Books
<1>5. Asked /\ ActsOnTheRecord /\ ShownCompressed
  BY <1>1 DEF Asked, ActsOnTheRecord, ShownCompressed
<1> QED  BY <1>3, <1>4, <1>5 DEF WInv

LEMMA WInvHolds == WSpec => []WInv
<1>1. WInit => WInv
  BY WInvInit
<1>2. WInv /\ [WNext]_wakeVars => WInv'
  <2> SUFFICES ASSUME WInv, [WNext]_wakeVars PROVE WInv'
    OBVIOUS
  <2>1. CASE UNCHANGED wakeVars
    <3>1. OverCap(ledger)' <=> OverCap(ledger)
      BY <2>1 DEF wakeVars, OverCap, Tokens
    <3> QED
      BY <2>1, <3>1 DEF wakeVars, WInv, WTypeOK, Asked, ActsOnTheRecord, ShownCompressed, Books,
                        Routine, Differing, AtAGate
  <2> QED  BY <2>1, BeginKeeps, RecordKeeps, CandidateKeeps, ActKeeps DEF WNext
<1> QED  BY <1>1, <1>2, PTL DEF WSpec

(* Whatever is answered and comes of it, the state of a wake keeps its     *)
(* type.                                                                   *)
THEOREM WakeTypeCorrect == WSpec => []WTypeOK
<1>1. WInv => WTypeOK
  BY DEF WInv
<1> QED  BY <1>1, WInvHolds, PTL

(* Every wake begins under the cap, or with what compression drops         *)
(* dropped, for any cap and any verbs that filled the ledger.              *)
THEOREM ShownIsCompressed == WSpec => []ShownCompressed
<1>1. WInv => ShownCompressed
  BY DEF WInv
<1> QED  BY <1>1, WInvHolds, PTL

(* For any number of attempts allowed, what is acted on is the last answer *)
(* of the executive of record if it was sure, and otherwise an escalation. *)
THEOREM RecordActs == WSpec => []ActsOnTheRecord
<1>1. WInv => ActsOnTheRecord
  BY DEF WInv
<1> QED  BY <1>1, WInvHolds, PTL

(* For any bar, any number of events and any answers: a candidate that can *)
(* be promoted has earned it.                                              *)
THEOREM PromotionsAreEarned == WSpec => []PromotionEarned
<1>1. WInv => PromotionEarned
  <2> SUFFICES ASSUME WInv, promotable
               PROVE  /\ Cardinality(Routine) >= MinEvents
                      /\ 100 * Cardinality(Routine \cap Differing)
                            <= (100 - Bar) * Cardinality(Routine)
                      /\ Differing \cap AtAGate = {}
    BY DEF PromotionEarned
  <2> DEFINE r == Cardinality(Routine)
             d == Cardinality(Routine \cap Differing)
  <2>1. /\ agreement.routine_total = r /\ agreement.routine_agreed = r - d
        /\ Cardinality(Differing \cap AtAGate) = 0
    BY DEF WInv, Books, promotable
  <2>2. IsFiniteSet(DOMAIN compared)
    <3>1. Len(compared) \in Nat /\ DOMAIN compared = 1 .. Len(compared)
      BY LenProperties DEF WInv, WTypeOK
    <3> QED  BY <3>1, FS_Interval
  <2>3. /\ IsFiniteSet(Routine) /\ IsFiniteSet(Routine \cap Differing)
        /\ IsFiniteSet(Differing \cap AtAGate)
    <3>1. /\ Routine \in SUBSET (DOMAIN compared)
          /\ Routine \cap Differing \in SUBSET (DOMAIN compared)
          /\ Differing \cap AtAGate \in SUBSET (DOMAIN compared)
      BY DEF Routine, Differing
    <3> QED  BY <2>2, <3>1, FS_Subset
  <2>4. Differing \cap AtAGate = {}
    BY <2>1, <2>3, FS_EmptySet
  <2>5. r \in Nat /\ d \in Nat /\ Bar \in Nat
    BY <2>3, FS_CardinalityType, WakeAssumption
  <2>6. r >= MinEvents /\ 100 * (r - d) >= Bar * r
    BY <2>1 DEF promotable
  <2> HIDE DEF r, d
  <2>7. 100 * (r - d) = 100 * r - 100 * d /\ (100 - Bar) * r = 100 * r - Bar * r /\ Bar * r \in Int
    BY <2>5
  <2>8. 100 * d <= (100 - Bar) * r
    BY <2>5, <2>6, <2>7
  <2> QED  BY <2>4, <2>6, <2>8 DEF r, d
<1> QED  BY <1>1, WInvHolds, PTL
=============================================================================
