----------------------------- MODULE PolicyStore -----------------------------
(***************************************************************************)
(* kernel/policy_runtime.py: the reflexes of several processes that share  *)
(* one routing_policy.yaml.  A process loads the file once, when it        *)
(* starts, answers events from its own memory, and writes its whole memory *)
(* back when the executive authors a reflex.  A developer may edit the     *)
(* file by hand at any time, and put the executive's name under a rule.    *)
(*                                                                         *)
(* The file is written by Path.write_text: it is truncated, then written,  *)
(* and the process may be killed in between.  Two writers that have both   *)
(* truncated it write over each other's bytes.                             *)
(*                                                                         *)
(* Time is counted in hours of which Day make a day; events carry the time *)
(* they were emitted at, expiry is judged by the wall clock.               *)
(***************************************************************************)
EXTENDS Integers, Sequences, FiniteSets, Events

CONSTANTS
    None,
    Garbled,        \* the content of a file that is no YAML any more
    Processes,
    Types,          \* the types of the events emitted
    TaskTypes,      \* what a submission can be said to be about
    Patches,        \* what the executive writes: match, action, ttl
    Edits,          \* what a developer writes: a patch, a name, a time
    Day,            \* hours per day
    MaxClock,       \* bound on the hours that pass
    MaxAuthored     \* bound on the reflexes written

(* A window is a range of hours and its zone's distance from UTC, None for *)
(* a zone the code does not know.                                          *)
ASSUME PolicyAssumption ==
    /\ Types \subseteq EventType /\ None \notin EventType
    /\ Day \in Nat \ {0} /\ MaxClock \in Nat /\ MaxAuthored \in Nat /\ Patches # {}
    /\ \A r \in Patches :
        /\ r.on \in EventType \cup {None} /\ r.task \in TaskTypes \cup {None}
        /\ r.ttl \in Int /\ r.acts \in BOOLEAN
        /\ r.window = None \/ /\ r.window.start \in 0 .. Day - 1
                              /\ r.window.end \in 0 .. Day - 1
                              /\ r.window.zone \in Nat \cup {None}
    /\ Edits \subseteq [patch : Patches, author : {"executive", "developer"}, created : 0 .. MaxClock]
    /\ None \notin TaskTypes

VARIABLES
    file,       \* the reflexes in the file, or that it is garbled
    proc,       \* per process: its task, phase, reflexes in memory, event
    clock,      \* the wall clock, in hours
    \* recorded for the properties only
    wrote,      \* per reflex the executive wrote: when, and for how long
    saved,      \* the executive's reflexes some process has saved
    overlapped  \* whether two processes were up at once, or a save was disturbed

vars == <<file, proc, clock, wrote, saved, overlapped>>

Down == [phase |-> "down", task |-> None, reflexes |-> << >>, type |-> None, ts |-> 0, by |-> None]

Idle(task, reflexes) == [Down EXCEPT !.phase = "idle", !.task = task, !.reflexes = reflexes]

(* A reflex: what it matches, its provenance; no tells those apart that    *)
(* the executive decided on, and is 0 for a rule written by hand.          *)
Reflex(patch, author, ts, no) ==
    [on |-> patch.on, task |-> patch.task, window |-> patch.window, ttl |-> patch.ttl,
     author |-> author, created |-> ts, no |-> no]

Init ==
    /\ file = << >> /\ proc = [p \in Processes |-> Down] /\ clock = 0
    /\ wrote = << >> /\ saved = {} /\ overlapped = FALSE

Elements(s) == {s[i] : i \in DOMAIN s}

(* What a sequence has at some of its positions, in the same order.        *)
Nth(I, k) == CHOOSE i \in I : Cardinality({j \in I : j <= i}) = k

At(s, I) == [k \in 1 .. Cardinality(I) |-> s[Nth(I, k)]]

Become(p, s) == proc' = [proc EXCEPT ![p] = s]

Up(p) == proc[p].phase \notin {"down", "refused"}

-----------------------------------------------------------------------------
(* Mutant of Parses: the author is not looked at.                          *)
ParsesAnyone(f) == f # Garbled

(* _parse refuses the file for one reflex without the right provenance.    *)
Parses(f) == f # Garbled /\ \A r \in Elements(f) : r.author = "executive"

(* cmd_submit: a task of some type; PolicyRuntime(): load.                 *)
Load(p) ==
    /\ proc[p].phase = "down"
    /\ \/ Parses(file) /\ \E task \in TaskTypes : Become(p, Idle(task, file))
       \/ ~Parses(file) /\ Become(p, [Down EXCEPT !.phase = "refused"])
    /\ overlapped' = (overlapped \/ \E q \in Processes \ {p} : Up(q))
    /\ UNCHANGED <<file, clock, wrote, saved>>

(* The bus takes an event emitted now; it may be handled later.            *)
Receive(p) ==
    /\ proc[p].phase = "idle"
    /\ \E type \in Types :
        Become(p, [proc[p] EXCEPT !.phase = "waiting", !.type = type, !.ts = clock])
    /\ UNCHANGED <<file, clock, wrote, saved, overlapped>>

expired(r, now) == now >= r.created + r.ttl * Day

(* Mutant of purge_expired: expiry is judged when the file is loaded.      *)
purge_expired_never(rs) == rs

purge_expired(rs) == At(rs, {i \in DOMAIN rs : ~expired(rs[i], clock)})

(* Mutant of _in_window: a range over midnight is taken for an empty one.  *)
_in_window_same_day(w, ts) ==
    /\ w.zone # None
    /\ LET now == (ts + w.zone) % Day  IN  w.start <= now /\ now < w.end

(* A zone that is not known fails the match.                               *)
_in_window(w, ts) ==
    /\ w.zone # None
    /\ LET now == (ts + w.zone) % Day
       IN  IF w.start <= w.end THEN w.start <= now /\ now < w.end
                               ELSE now >= w.start \/ now < w.end

_matches(r, type, task, ts) ==
    /\ r.on # None => r.on = type
    /\ r.task # None => r.task = task
    /\ r.window # None => _in_window(r.window, ts)

(* match: the first live reflex that matches, or the executive wakes.  The *)
(* types no reflex may answer do not even purge.                           *)
Match(p) ==
    /\ proc[p].phase = "waiting"
    /\ \/ /\ ~Reflexable(proc[p].type)
          /\ Become(p, [proc[p] EXCEPT !.phase = "deciding", !.type = None])
       \/ /\ Reflexable(proc[p].type)
          /\ LET live == purge_expired(proc[p].reflexes)
                 hits == {i \in DOMAIN live :
                            _matches(live[i], proc[p].type, proc[p].task, proc[p].ts)}
             IN  \/ \E i \in hits :
                     /\ \A j \in hits : i <= j
                     /\ Become(p, [proc[p] EXCEPT !.phase = "reflex", !.reflexes = live,
                                                  !.type = None, !.by = live[i]])
                 \/ /\ hits = {}
                    /\ Become(p, [proc[p] EXCEPT !.phase = "deciding", !.type = None, !.reflexes = live])
    /\ UNCHANGED <<file, clock, wrote, saved, overlapped>>

(* The wake is over: the reflex's dispatch, or a decision without a patch. *)
Answered(p) ==
    /\ proc[p].phase \in {"reflex", "deciding"}
    /\ Become(p, Idle(proc[p].task, proc[p].reflexes))
    /\ UNCHANGED <<file, clock, wrote, saved, overlapped>>

(* Mutant of Known: a reflex replaces those on the same events.            *)
KnownOthers(rs, r) == Append(At(rs, {i \in DOMAIN rs : rs[i].on # r.on}), r)

Known(rs, r) == Append(rs, r)

Refused(patch) == patch.ttl <= 0 \/ ~patch.acts

(* edit_policy: author refuses the patch, or stamps it with the time of    *)
(* the event, and save opens the file.                                     *)
Author(p) ==
    /\ proc[p].phase = "deciding" /\ Len(wrote) < MaxAuthored
    /\ \E patch \in Patches :
        LET r == Reflex(patch, "executive", proc[p].ts, Len(wrote) + 1)
        IN  \/ /\ ~Refused(patch)
               /\ Become(p, [proc[p] EXCEPT !.phase = "saving", !.reflexes = Known(@, r)])
               /\ wrote' = Append(wrote, [at |-> clock, ts |-> proc[p].ts, ttl |-> patch.ttl])
               /\ file' = << >>
            \/ /\ Refused(patch)              \* PolicyError: decision_invalid
               /\ Become(p, Idle(proc[p].task, proc[p].reflexes))
               /\ UNCHANGED <<wrote, file>>
    /\ UNCHANGED <<clock, saved, overlapped>>

(* The bytes of new over those another process has written since this one  *)
(* truncated the file: what is longer stays, and need not fit.             *)
Over(new, old) ==
    IF old = << >> THEN {new}
    ELSE {new, Garbled} \cup (IF old = Garbled THEN {}
                              ELSE {new \o SubSeq(old, Len(new) + 1, Len(old))})

(* save: the text replaces what is in the file.                            *)
Save(p) ==
    /\ proc[p].phase = "saving"
    /\ file' \in Over(proc[p].reflexes, file)
    /\ saved' = saved \cup ({r.no : r \in Elements(proc[p].reflexes)} \ {0})
    /\ Become(p, Idle(proc[p].task, proc[p].reflexes))
    /\ UNCHANGED <<clock, wrote, overlapped>>

(* The process ends, or is killed; what it held in memory is gone.         *)
Stop(p) ==
    /\ proc[p].phase # "down"
    /\ Become(p, Down)
    /\ overlapped' = (overlapped \/ proc[p].phase = "saving")
    /\ UNCHANGED <<file, clock, wrote, saved>>

(* A developer adds a rule, under this name or that, or removes what was   *)
(* added by hand; a file that nobody can read is mended.                   *)
HandEdit ==
    /\ \/ /\ file # Garbled /\ \A r \in Elements(file) : r.no # 0
          /\ \E e \in Edits : file' = Append(file, Reflex(e.patch, e.author, e.created, 0))
       \/ /\ file # Garbled /\ \E r \in Elements(file) : r.no = 0
          /\ file' = At(file, {i \in DOMAIN file : file[i].no # 0})
       \/ file = Garbled /\ file' = << >>
    /\ overlapped' = (overlapped \/ \E p \in Processes : proc[p].phase = "saving")
    /\ UNCHANGED <<proc, clock, wrote, saved>>

Tick ==
    /\ clock < MaxClock
    /\ clock' = clock + 1
    /\ UNCHANGED <<file, proc, wrote, saved, overlapped>>

Runs(p) == Load(p) \/ Receive(p) \/ Match(p) \/ Answered(p) \/ Author(p) \/ Save(p) \/ Stop(p)

Next == HandEdit \/ Tick \/ \E p \in Processes : Runs(p)

Spec == Init /\ [][Next]_vars

-----------------------------------------------------------------------------
ReflexType ==
    [on : EventType \cup {None}, task : TaskTypes \cup {None}, window : {r.window : r \in Patches},
     ttl : {r.ttl : r \in Patches}, author : {"executive", "developer"},
     created : 0 .. MaxClock, no : 0 .. MaxAuthored]

ASSUME GarbledIsNoFile == Garbled \notin Seq(ReflexType)

TypeOK ==
    /\ file \in Seq(ReflexType) \cup {Garbled}
    /\ proc \in [Processes ->
            [phase : {"down", "refused", "idle", "waiting", "reflex", "deciding", "saving"},
             task : TaskTypes \cup {None}, reflexes : Seq(ReflexType),
             type : Types \cup {None}, ts : 0 .. MaxClock, by : ReflexType \cup {None}]]
    /\ clock \in 0 .. MaxClock
    /\ wrote \in Seq([at : 0 .. MaxClock, ts : 0 .. MaxClock, ttl : {r.ttl : r \in Patches}])
    /\ Len(wrote) <= MaxAuthored /\ saved \subseteq DOMAIN wrote
    /\ overlapped \in BOOLEAN

(* No rule is in force under another name than the executive's, and those  *)
(* it decided on are as it wrote them, with their time and their ttl: not  *)
(* changed by hand edits before, between or during the saves of any        *)
(* process, nor by two saves that mix.  A rule forged by hand in the       *)
(* executive's name is in force all the same: load believes the file.      *)
InForceAsWritten ==
    \A p \in Processes : \A r \in Elements(proc[p].reflexes) :
        /\ r.author = "executive"
        /\ r.no # 0 => r.ttl > 0 /\ r.created = wrote[r.no].ts /\ r.ttl = wrote[r.no].ttl

(* No reflex the executive decided on is in force for longer than its ttl  *)
(* after that, however often it was saved, lost and loaded since.          *)
Fires(p) == proc[p].phase = "waiting" /\ proc'[p].phase = "reflex"

ExpiredNeverFires ==
    [][\A p \in Processes :
        Fires(p) /\ proc'[p].by.no # 0 =>
            LET w == wrote[proc'[p].by.no] IN clock < w.at + w.ttl * Day]_vars

(* A wake is answered by a reflex exactly when one in memory is alive and  *)
(* covers the event of this task -- by the hours from start up to end,     *)
(* taken round the clock in its own zone -- and then by the first such one.*)
HoursOf(w) == {h % Day : h \in w.start .. w.start + ((w.end - w.start) % Day) - 1}

Covers(r, type, task, ts) ==
    /\ r.on \in {type, None} /\ r.task \in {task, None}
    /\ r.window = None \/ (r.window.zone # None /\ (ts + r.window.zone) % Day \in HoursOf(r.window))

Answers(p, i) ==
    LET r == proc[p].reflexes[i]
    IN  /\ proc[p].type \notin NEVER_REFLEXABLE
        /\ clock < r.created + r.ttl * Day
        /\ Covers(r, proc[p].type, proc[p].task, proc[p].ts)

RulesDecide ==
    [][\A p \in Processes :
        proc[p].phase = "waiting" /\ proc'[p].phase \in {"reflex", "deciding"} =>
            LET answering == {i \in DOMAIN proc[p].reflexes : Answers(p, i)}
            IN  \/ answering = {} /\ proc'[p].phase = "deciding"
                \/ \E i \in answering :
                    /\ proc'[p].phase = "reflex" /\ proc'[p].by = proc[p].reflexes[i]
                    /\ \A j \in answering : i <= j]_vars

(* "Persist, or the reflex exists only for this process" (_verb_edit_      *)
(* policy): as long as processes follow one another and no save is         *)
(* disturbed, a saved reflex that is still alive is in the file, or in the *)
(* memory that is being written to it.                                     *)
Alive(no) == clock < wrote[no].ts + wrote[no].ttl * Day

ReflexesPersist ==
    ~overlapped =>
        \A no \in {n \in saved : Alive(n)} :
            \/ \E r \in IF file = Garbled THEN {} ELSE Elements(file) : r.no = no
            \/ \E p \in Processes :
                proc[p].phase = "saving" /\ \E r \in Elements(proc[p].reflexes) : r.no = no
=============================================================================
