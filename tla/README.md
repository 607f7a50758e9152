# Chingis: TLA+ models, model checking and proofs

Chingis runs a task by asking a language model (the *executive*) for one decision per
event and executing the decision with deterministic code (the *kernel*).  Workers run in
*lanes*, each behind an adapter.  Everything that happens is first written to a hash
chained audit log.  The modules in this directory model the kernel, check it on small
instances with TLC and prove its main guarantees with TLAPS.

## 1. Inventory

| component | code | state it keeps | operations | what makes it correct |
|---|---|---|---|---|
| event vocabulary | `kernel/events.py` | - | priorities, reflexable types | - |
| audit log | `kernel/audit.py` | table `events` | `head`, `append`, `verify_chain` | one append-only verifiable history per task, whoever writes |
| event bus | `kernel/bus.py` | heap, counter, next seq, halted, processed | `emit`, `halt`, `run` | logged before seen; every event once; by priority, then arrival; a run ends |
| meters | `kernel/meters.py` | spent and fired thresholds per meter | `preflight`, `charge` | thresholds told once, ascending; overrun bounded |
| quota ledger | `kernel/meters.py` | usage per lane and window | `record`, `burn_rate`, `anomalous` | estimates only |
| runtime | `kernel/runtime.py` | contracts, retries, failure streaks, drained lanes, reflex marker | one wake per event, twelve verbs | see section 4 |
| policy runtime | `kernel/policy_runtime.py` | reflexes, YAML file | `load`, `author`, `save`, `purge_expired`, `match` | provenance, expiry, nothing lost between processes |
| executive client | `executive/client.py` | transcript of a request | `decide`, `validate`, gate | always a valid decision; low confidence escalates |
| ledger | `executive/ledger.py` | goal, plan, outcomes, budget | `record_outcome`, `compress`, `render` | stays under its cap |
| shadow executive | `executive/shadow.py`, `client_local.py` | agreement counts | `decide` | never influences the run |
| contract store | `contracts/store.py` | table `contracts` | `validate`, `put`, `set_status` | key per task and contract; only valid contracts |
| submission | `cli.py`, `kernel/decision_log.py` | tables `decisions`, `outcomes` | `cmd_submit`, `record_outcomes` | each decision beside its event, each contract beside its outcome |
| worktrees | `adapters/base.py` | directory and git registration | enter, diff, exit | a path can be used again after a crash |
| lanes | `adapters/*_adapter.py`, `adapters/tools` | per call | `run` | ceilings on time, calls, retries |
| credentials | `adapters/codex_oauth.py` | token file that `codex login` wrote | `load`, `refresh`, `request` | programs never lock each other out; no token spent on a quota wall; a request ends |
| capabilities, screener | `kernel/capabilities.py`, `kernel/screen.py` | tokens; counters | issue, check; screen | text of a worker never reaches the executive raw |
| verification | `verify/` | - | V1 (tests), V3 (sampled review) | - |
| replay | `kernel/replay.py` | - | recompute the chain and the order | agrees with the run |
| learning loop | `loop/` | datasets, probes, promotion records | consolidate, score, promote, ratchet | trains on good work only, and on nothing withheld |
| operations | `ops/` | held-out files, manifests | rotate, verify, provenance check | what is logged is withheld, once, and unchanged |
| reports, benchmarks | `evals/`, `benchmarks/` | - | read only | - |

How they interact.  `cli.cmd_submit` builds adapters, meters, policy, store and audit log
and gives them to a `Runtime`, which owns one `Bus`.  The runtime registers `_wake` for
every event; a wake calls the policy (may a reflex answer?) or the executive, and then one
verb.  Verbs emit further events, call adapters and write to store, ledger and policy
file.  When `run()` has returned, `cmd_submit` writes decisions and outcomes.  All of
one task is one thread.  The concurrency is between processes that share the database,
the policy file or the credentials file, and between a process and whatever ends it.  The
operator's rotation of withheld contracts and the learning loop run beside the tasks, over
the files and the rows they leave.

What is hard: two processes on one task id; events emitted in the middle of a verb that
raises, halts or is killed; reflexes that cause what they answer; budgets whose estimate
and cost come from different places; counters per lane and per contract that many verbs
touch; what survives a process and what does not.  `PROJECT.json` lists each hazard at its
line with the properties that cover it.

## 2. Modules

| module | models | in one sentence |
|---|---|---|
| `Events` | `events.py` | types, priorities, the types no reflex may answer |
| `EventHistory` | (abstract) | a history that grows by one event at a time |
| `AuditLog` | `audit.py` | several processes append to one task's log; SELECT and INSERT are two steps |
| `TaskQueue` | (abstract) | publish, deliver the most urgent, abandon |
| `Bus` | `bus.py` | the loop of one task and the life of its process, the handlers left open |
| `Meters` | `meters.py` | preflight on an estimate, charge of a cost |
| `Runtime` | `runtime.py` | the handlers: composes `Bus` and `Meters` with contracts, lanes and reflexes |
| `Submit` | `cli.py`, `decision_log.py`, `store.py` | several submissions on one database, from the task id to the last outcome row |
| `PolicyStore` | `policy_runtime.py` | several processes and a developer on one policy file |
| `Wake` | `client.py`, `client_local.py`, `shadow.py`, `ledger.py`, `_wake` | the inside of a wake: ledger shown, executive asked, candidate asked, ledger changed |
| `Lane` | `raw_adapter.py`, `tools`, `capabilities.py`, `Worktree` of `base.py` | dispatches on lane WR, one after another or at once, on one worktree path |
| `HeldoutRotation` | `rotate_heldout.py` | files moved one by one, a manifest written last, kills in between |
| `Consolidate` | `consolidate.py`, `score.py` | training sets built beside the rotations: join, exclusion, score, filter |
| `CodexCredentials` | `codex_oauth.py` and its callers | programs that use and refresh one credentials file at once |
| `Parts_proofs` | | theorems about the two parts of the runtime, `Bus` and `Meters` |
| `Executive_proofs` | | theorems about `PolicyStore` and `Wake` |
| other `*_proofs` | | theorems about `AuditLog`, `Runtime`, `Submit`, `Lane`, `Consolidate` (with `HeldoutRotation`), `CodexCredentials` |
| `MC_*` | | values for the constants; `MC_Parts` (`Bus`, `Meters`) and `MC_Executive` (`PolicyStore`, `Wake`) check two modules that share nothing in one run |

Refinements: `AuditLog` implements `EventHistory` (the history is what the hash of the last
row stands for) and `Bus` implements `TaskQueue`.  `Runtime` is built from the actions of `Bus`, so
that what is proved of `Bus` holds of it (`OrderingContract`).  From one start of a process to the next `Runtime` also implements `Meters`, its
`flight` being the dispatch that passed preflight.  Definitions of `Meters` and `Wake` that other modules
have too begin with `M` and `W` (`MInit`, `WSpec`).  `Consolidate` extends `HeldoutRotation`: its training set is built from what the
rotations have withheld by then.

Correspondence of state and actions:

* `AuditLog`.  `rows` is the table of one task; `nextSeq[w]` is `Bus._next_seq` of process
  `w`.  `BeginAppend` is `append()` up to the INSERT, `Insert` the INSERT under
  `UNIQUE (task_id, seq)`, `RejectAppend` the `ValueError`, `Stop` an INSERT that raises or
  a kill.  A hash is the sequence of bodies it was computed from: SHA-256 is taken to be
  injective.  Every statement is a transaction of its own (`isolation_level=None`), durable
  (`synchronous = FULL`).
* `Bus`.  `queue` is the heap as a set of (priority, tiebreak) pairs, `Pop` takes the least.
  `mode` says where the process is.  `born` and `base` are recorded for the properties.
  `EmitRaises` spends a number (`bus.py:84`) and nothing else.
* `Meters`.  Amounts are whole units and percentages are cross-multiplied, so no floating
  point rounding is modelled.  `Notice`, `Crossed`, `Returned` build the list `charge()`
  returns; `told` accumulates it for the properties.
* `Runtime`.  A wake is `WakeReflex`, `WakeExecutive` or `WakeUnanswered` (the executive's
  call raised).  What the verb has still to do is in `todo` (dispatches, a verifier call),
  `flight` (the adapter that is running) and `outbox` (emissions and halts, in the code's
  order); `StartDispatch`, `Finish`, `AdapterRaises`, `Verify`, `FlushEmit`, `FlushHalt` work
  these off, `HandlersReturn` ends the wake.  The code does all that in one call; it is
  split because the process may be killed or an audit write may fail between any two
  effects.  The executive is free: any verb at any wake, with any parameters, since `validate` looks
  at none of them.  A race has a list of lanes of any length (`Races`), none included; parameters that are
  not of the kind the verb expects make it raise, before it has done anything (`WakeUnanswered`), between
  two lanes of a race, or after its contract was stored (`DispatchRaises`).  Adapters are free too: any
  status at any cost, or an exception.  `verb` in `todo` and `flight` keeps of a dispatch which verb it belongs to.

* `Submit`.  A submission runs its task as in `Runtime`, of which only what reaches the database
  is kept: `Wake`, `StartDispatch` (the contract is put), `FinishDispatch` (its events).  Then
  `RecordDecision` and `RecordOutcome` write one row per step, as the autocommit connection
  does.  Of the dictionary `record_outcomes` builds, `Terminal` has the places of a contract's
  results among the processed events and `IsOutcome` the last of them.  An executive may call a contract
  by its local name or by the qualified one that is its row's key, which `row_id` leaves as it is
  (`Qualified`): both are one row.  `shell[p]` is what the process holds in memory; a row's `by` and `no` are
  recorded for the properties and not columns.  A process that is killed simply takes no
  further step.
* `PolicyStore`.  `Load`, `Match`, `Author` and `Save` are the methods of those names;
  `Author` ends with the truncation and `Save` begins with the write of `write_text`.  Purging keeps
  a sequence's elements at some positions (`At`).  A process has the task type it was started with
  (`Idle`), which a reflex may ask for.  What a developer writes (`Edits`) has a name and a time of the
  developer's choosing; `no`, which tells the executive's own reflexes from it, is recorded for the properties.  Time is in
  hours.  The layout of the file is left out.
* `Wake`.  `Begin` is `_wake` up to the call of `decide`; `RecordAnswers` and `CandidateAnswers`
  are one answer each, `Act` is the verb, of which only the marks it leaves in the ledger and
  whether it halts are kept.  An entry of the ledger counts one token, so the cap and the
  numbers of entries `compress` keeps are constants.  `heard` and `compared`, the answers of
  one request and the pairs of verbs decided side by side, are recorded for the properties.  The command line builds a client without a shadow; without one, `Act`
  follows at once.
* `Lane`.  `dir`, `linked` and `registered` are what of a worktree outlives a process: the
  directory as the set of runs whose changes it holds, its `.git` file, git's registration.  `shown` has the
  runs of which the staged diff would show something: a change may be ignored by git, or committed by the
  worker itself through `bash`, or undone, so each change leaves that open (`Writes`).
  `Begin`, `Prune`, `Add` are the three effects of `Worktree.__enter__`, `Exit` is `__exit__`;
  in between `Mint`, the head of the loop (`Exhausted`), a request (`Turn`), one tool call
  (`Call`) and the end (`Diff`) are steps, because a process may be killed between any two.
  The worker is free: calls of any tool on any place, in turns of any length up to a bound.  A
  `bash` command adds changes; that it might damage the worktree's own `.git`, or make branches and
  further worktrees in the repository it belongs to, is left out.  Once it is allowed a call of any tool may raise (`MayRaise`), and so may the diff.
  Contracts have a repository, and V1, which runs before `Exit`, is not included.

* `HeldoutRotation`.  `Begin` is `rotate --commit` up to the first move: `choose` and the hashes,
  which stay in memory (`rotation.lines`).  `Move` is one `shutil.move`, a rename.
  `OpenManifest` and `WriteManifest` are the two effects of `write_text`, which empties the file
  before it fills it.  `problems` is what `--verify` prints.  Which contracts the seeded sample picks
  is left open.  Around the program the operator writes, edits and restores benchmark files
  (`EditBench`, not while a rotation runs) and somebody changes what is withheld (`Tamper`;
  `touched` records it for the property).
* `Consolidate`.  `Build` is `build_dataset` on any few rows the database may hold, of which
  those that are excluded leave no trace and the others are `Scored`.  A row has the
  contract its run was about and what became of its work, which the code does not look at, and
  whether the join finds that outcome (`found`): it joins on the name the executive gave the contract, where
  outcomes are stored under the name with its task, so only rows older than that convention, or of
  a name that was qualified already, are found.  Scores are integers, in 200ths, so that no
  rounding is modelled; the weights and the cap of 0.25 are 100, 50, 30, 20 and 50.
* `CodexCredentials`.  `Call` is a caller entering `request`; `Load`, `Attempt`, `ReadFile`, `Exchange`,
  `OpenFile` and `WriteFile` are the steps up to which another program may get in between, or the
  program be killed.  An answer has a status, and may say `usage_limit_reached` under any of them: `request`
  looks for that at a 429 only, `respond` at anything but a 200 (`_raise_for_quota`).  The token service is external: it takes a session's newest refresh token
  and either grants a new one each time or never (`rotates`).  It may refuse a valid one
  (`Refused`), and its answer may be lost (`AnswerLost`).  A service that rotates only sometimes,
  or that ends a session when an old token is presented, is not modelled.  `denied`, `spent` and
  `lost` are recorded for the properties.

Operators whose comment begins with "Mutant of" are deliberately wrong versions of a
definition, used to see that a property notices the mistake.

## 3. Runs

| run | instance | what it shows |
|---|---|---|
| `audit` | 2 writers started twice each, 2 bodies, 4 rows | `ChainVerifies`, `RunsNeverInterleave`, `AppendOnly`, `ImplementsHistory` |
| `parts` | bus: 4 event types of 3 priorities, 2 of them equally urgent; log of 4, 3 turns, 2 processes; meters: limits 10, 5 and 1, amounts 0, 1, 3, 12 | `LogFirst`, `NoneLostNoneTwice`, `PriorityOrder`, `ImplementsQueue`; `FiredIffReached`, `ToldOnceAscending`, `OverrunBounded` |
| `budget` | dispatch, race, verify, edit_policy; a reflex for any event, perhaps left by an earlier task; limits 3; costs up to 4; estimates 0 and 1; races of up to 3 lanes | `ReflexesStayBetweenWakes`, `ThresholdsReachTheLog`, `HardHaltStopsTheRun` |
| `all` | all verbs, two lanes, races of none, 2 and 3 lanes, ceiling 1, drain after 2 failures, 2 turns | `DrainedIffOutage`, `RunTerminates` |
| `race` | as `budget`, without reflexes; races of 2 lanes | refutes `NoDispatchAfterHardHalt`; section 5 |
| `submit` | 2 submissions, 2 tasks, one contract under its local and its qualified name, a lane the store refuses | `HandledMeansRecorded`, `LabelsHaveEvidence` |
| `executive` | policy: 2 processes, 2 task types, a day of 2 hours, 4 patches, 2 reflexes, edits under either name; wakes: 3 wakes, 2 attempts, cap 7 with a goal of 1, plans of 2 and 5, promotion after 2 routine events at 60 percent | `ReflexesPersist`, `InForceAsWritten`, `ExpiredNeverFires`, `RulesDecide`; `ShownCompressed`, `ActsOnTheRecord`, `PromotionEarned` |
| `lane` | 2 processes, 4 contracts, 2 runs, 2 calls per turn, ceilings of 1 and 2, no network sandbox | `PathReusable`, `Disposable`, `OwnArtifact`, `ChangesAreGranted`, `CeilingsHold`, `DispatchEnds` |
| `consolidate` | 2 contracts, 2 texts each, 2 months (alike), a share of 75 percent, up to 3 rows, 4 outcomes found, one missed and none | `VerifyAccusesRightly`, `LoggedOnce`, `KeepsTheTop` |
| `credentials` | 2 programs, 2 logins, 3 tokens per session, both kinds of service, counts up to 2 | `NoLockoutByRacing`, `SpendsOnlyWhenDenied`, `RequestEnds` |
| `withheld` | as `consolidate` | refutes `NeverTrainsOnWithheld`; section 5 |
| `weakened` | as `consolidate` | refutes `WeakenedNeverTaught`; section 5 |

`parts` and `executive` each check two modules that share no state: the variable `part` says which
of the two a behaviour is about, and the other one keeps still.

Bounds and why they are enough.  `MaxRows`, `MaxLog` and `MaxRuns` cap the log and the
number of processes; `MaxEvents` is the code's own parameter of `run()`.  The races of
`AuditLog` need two writers and a restart: a third writer would do to the second what the
second does to the first.  `Bus` needs two equally urgent events, a more urgent and a less
urgent one.  A streak goes wrong with one more failure than the
limit, hence a limit of 2.  Races of three lanes leave one to do behind the lane that ends the budget and
one behind that.  The meters' limits are such that 60, 85 and 100 percent
fall on an amount, between two, and are crossed together.  Each run of `Runtime` gives the
executive the verbs of one subject, because all verbs together with long logs is beyond an
explicit state search; `all` has all verbs with a short run, and a lane without adapter is
in `budget`.  In `Submit` the second task's log is shorter than the first's: what
matters there is only that it is another task.  Three events on a task are what a
contract with two results needs, also one under each of its names, and four let a threshold overtake one of them.
`NamesApart` keeps the qualified name to behaviours in which one submission has not started yet: what a second one does
to the rows of a first is explored with the local name, and the theorems have no such limit.  `PolicyStore` needs two
reflexes (the first of two must win, the second must not displace it), one expiry, a window over
midnight, one within a day that asks for one of the two task types, and one in a zone nobody knows.  A day
of two hours has an hour in a window and one outside it.  `ForgedMeetsOne` leaves out behaviours in which a
rule forged in the executive's name is about while both reflexes have been written; the theorems have them.  `Lane` needs a run that dies and one that follows, or two at
once, hence two runs.  In `Wake` the ledger passes its cap in the second wake, and three events
can agree, miss and differ at a gate; more wakes only make the state space larger.  In a lane, two calls in a turn are enough to pass a ceiling in the middle of one.
A share
of 75 percent of two contracts is one and a half, which rounds to two, and of one contract one: a
rotation of both files, killed between them, is followed by one of the file that is left or was
restored.  Two months are needed for a manifest to be in the way of another, or of itself.  Three
rows put the quantile on a row and between equal ones.  What the join misses is alike to the score, so one
outcome of those, and none at all, are enough (`Missed`).  For the
credentials a third program would find the file as the second does; three tokens let a
program hold one that was valid twice ago; the second login replaces the session while
programs still hold tokens of the first.  Deadlock checking is off:
a task that is over, or whose bounds are used up, stops.

Type invariants are not among the runs' properties: that of every module is proved for all
instances (section 6).

Fairness.  `RunTerminates` assumes weak fairness of the loop's own steps: one
thread executes them one after another, and handlers are plain functions.  It
assumes in addition that an adapter that runs comes back, since each lane runs its
worker under a timeout.  `DispatchEnds` assumes weak fairness of the steps of one dispatch,
which are one thread's; requests have the client's timeout and commands one of 120 seconds.  `RequestEnds` assumes it of the
steps of one request, again one thread's: the request to the endpoint and the exchange of
the token each have a timeout (`codex_oauth.py:96`, `:120`).  No fairness is assumed of the environment: that a process
is started, an event emitted, the bus halted, or a process killed.

## 4. What holds

* The audit log of a task is one verifiable history even when two processes append to it;
  events of two runs never alternate; nothing committed is changed.
* An event is in the log before a handler sees it; while its process lives it is queued or
  processed, once; the order is priority then arrival, over whole runs.
* A run ends, whatever the executive decides.
* Thresholds fire exactly when reached, are told once and in ascending order, and reach the
  log even when they are behind the one that halts the bus.  After 100 percent no further
  event is taken, and all that still runs is the rest of a race under way, however many lanes it names.  A guarded meter exceeds its limit by at most one dispatch's cost.
* No reflex answers an event a reflex caused, or one of a type it must not answer -
  through all emissions of a dispatch, and also for reflexes an earlier task left in the file.
* A lane is drained exactly when its failed results since its last success reach the limit.
* A submission that reports success has a decision row for each decision and, for each contract of
  which its run *handled* a result, the last one it handled, although another may have used the same
  task.  A result logged after a halt, or queued at one, and a timeout, which is no terminal event, leave no
  outcome (section 5).
* Wherever a submission stops, no outcome is stored without its contract and without a logged
  event that says the same.
* No rule answers events under another name than the executive's, and those it did write are in force as
  written and within their ttl; they are lost only when processes overlap or a save is disturbed.  (A rule
  written by hand under its name is believed; section 5.)  An event is answered by the first live reflex
  that covers its type, its hour and the type of its task.
* Whatever killed the dispatch before, the path of a worktree can be used again; a dispatch that
  is over, even by an exception in the middle of a turn, leaves neither directory nor
  registration; the artifact holds changes of its own worker only, and has them if git has something to show after
  the last of them, neither ignored nor committed nor undone.  This is for dispatches
  that do not overlap; even where two share a directory, only what a contract grants changes it.
* The executive is never shown a ledger over the cap that compression could still shorten.  What
  is acted on is its own last answer, or an escalation, after at most two attempts; a
  candidate never acts, and one that is promotable agreed as often as is asked for.
* The ceilings of lane WR are passed by less than one turn, and its loop ends however often
  calls are denied.
* However rotations are killed and run again, `--verify` accuses only files somebody has changed,
  and a contract is logged once.  (The other direction does not hold; section 5.)
* The training set has at least two fifths of the rows not disqualified, and nothing that was dropped scores
  as high as what was kept.  Whether the score knows what became of the work is another matter (section 5).
* Programs that refresh the same credentials at once never lock each other out: unless one of them
  is killed, or an answer is lost, with a new token not yet saved, the file has a valid token
  or is about to.  A quota wall spends no token, a request at most one, and it ends.

## 5. Where code and documents disagree

Three have a run with a counterexample and an entry under `findings`:

1. `race`: a race goes on dispatching after a lane has used up the budget, because a preflight of zero
   passes at exactly the limit (`StartDispatch`), while `tests/test_b3_scenarios.py:185` says that
   no dispatch may follow a hard halt.  `HardHaltStopsTheRun` states what is left of it.
2. `weakened`: outcomes are stored under task and contract name and joined under the name in the decision
   (`consolidate.py:43`), so that a trajectory of the present code finds its outcome only if the executive
   qualified the name itself: none is disqualified for weakened tests, all score the same, and the filter keeps
   all (`Row`, `Label`; `loop/score.py:7-9`).
3. `withheld`: the check that keeps withheld contracts out of the training set compares hashes of
   two different things and never finds one (`Excluded`; `loop/consolidate.py:6-7`, `:48`).

What else the models show, without a run of its own:

* a retry that does not name its contract is counted on the event's contract and runs a new one (`RetryKey`,
  `IdFor`), although `runtime.py:401` says that a retry is a revised one.  The new contract has a
  count of its own, so that `MAX_RETRIES_PER_CONTRACT` bounds no chain of such retries;
* `record_outcomes` sees the processed events only.  Of a result that was queued when the bus was
  halted, or that a race logged after it, no outcome is written and the submission reports success
  (`Terminal`), while `cli.py:120` says one row per contract.  A contract that only timed out
  has none either: `timeout` is not in `TERMINAL_EVENTS`;
* `load` believes the author that stands in the policy file (`Parses`), so a rule written by hand under
  the executive's name is in force, although `policy_runtime.py:9-10` says there is no code path for it;
* the i-th decision's row is linked to the event numbered i, not to the one it was taken on
  (`EventIndex`), although `kernel/decision_log.py:3-4` promises a row per wake with its event;
* results on lane W3 cannot be recorded, because `VALID_LANES` lacks it and the store refuses its
  contracts (`Put`, `RecordOutcome`), although `tests/test_outcome_recording.py:110-112` says
  that migration 002 fixed that;
* a second rotation in a month replaces the manifest of the first, and a rotation that is killed
  before the manifest leaves files withheld that no manifest names; `--verify` reports neither
  (`OpenManifest`, `Kill`).  A file edited between its hash and its move would be accused: that is
  excluded from the model;
* a refresh that overlaps a `codex login` puts the session before it back (`WriteFile`), and one that
  is killed between emptying and writing the file leaves it empty until the next login (`OpenFile`,
  `Kill`); `quota_status` then raises (`Reported`).  The docstring of `codex_oauth.py:9-10` says
  that the module never writes credentials;
* a contract the store refuses is dispatched all the same (`ContractFor`), also one whose
  budget lacks a field, of which `store.py` says that unmetered dispatch is not allowed;
* the verify verb raises under `V1Runner`, the verifier the command line installs
  (`HandlerRaises`);
* the policy file `save()` writes lays out `match` and `action` over several lines, which the
  grammar of `ops/check_policy_provenance.py:24` refuses, so the kernel's own rules block a commit;
* an answer that is JSON but not an object (`null`, a number) raises a `TypeError` from `validate`,
  which `decide` does not handle: no second attempt, no escalation (`Raises`);
* a long goal or plan keeps the ledger over its "hard" cap after compression, and it is then
  compressed at each wake (`Begin`, `ShownCompressed`);
* a candidate that raises is not part of the rate `promotable` looks at (`CandidateAnswers`);
* an adapter that raises is not counted as a failure of its lane (`AdapterRaises`), so a lane
  that raises every time is never drained, although `runtime.py:440-442` says that sustained
  failure drains it;
* the path of `fs:readonly:<path>` is resolved from the directory of the process and not from the
  worktree (`Covers`): a relative path grants nothing there, unless it leads above it;
* a path that escapes the worktree is denied without an entry in `Registry.denials`, which says it
  has "every denial" (`capabilities.py:88`, `:169`);
* an unnamed dispatch can take the id of a contract the executive named (`IdFor`);
* a decision the confidence gate turned into an escalation goes to the tier `sol`, which has
  no transport, so that nothing stops (`Escalate`);
* a submission started before another has recorded its decisions takes the same task, and its
  contracts overwrite the other's (`Start`, `Put`).

## 6. Proofs

The `*_proofs` modules hold for all values of the constants under the assumptions named in the
modules: `BusAssumption`, `BoundsAreNat`, `MetersAssumption`, `RuntimeAssumption`, `PartsAssumption`,
`SubmitAssumption`, `LaneAssumption`, `RotationAssumption`, `ConsolidateAssumption`,
`CredentialsAssumption`, `PolicyAssumption`, `GarbledIsNoFile`, `WakeAssumption`.  They say that bounds, limits and
costs are natural numbers and verdicts booleans, a day has hours, some reflex can be written, that emitted types are event types, adapters lanes and patches well formed, and
that the values for "none" and for a file that is no YAML are not among the others.  TLC evaluates each of them in the runs.

* `Bus`.  `PriorityOrder` speaks of the events processed; it is not inductive.  `IInv` adds
  that a queue entry and a processed entry carry the type and priority of their log row,
  that tie-breaks are ordered as the sequence numbers are, that what was emitted before the last
  `Pop` and is still waiting is outranked by what was taken, and that what is not
  taken is waiting.  `LogFirst`, `NoneLostNoneTwice` and `PriorityOrder` follow, and the
  refinement of `TaskQueue`: under `IInv` the least heap entry is the most urgent waiting
  event.
* `AuditLog`.  `AInv` adds that the table has a last row, that a writer's next number is
  never beyond the end of the table (so a number that continues the head is exactly the
  writer's own), that a pending row extends the table as it was when the head was read,
  and that if it is still insertable it extends it now.  The last part is the point: the
  UNIQUE constraint on the number is enough to make SELECT and INSERT as good as one step.
* `Meters`.  `FiredIffReached` is inductive with the type invariant; `OverrunBounded` needs
  that a dispatch in flight started within the limit.  `ToldOnceAscending` needs `FiredIffReached`:
  what a charge returns has not fired before, so it is above all that was told of its meter.
  `MInv` has all of these.
* `Runtime`.  Every step of a verb is a step of the bus or leaves it alone (`BusStep`), by which it has what `Parts_proofs` shows of the bus (`OrderingContract`).  In the same
  way every step that is not a restart is one of the meters or leaves them alone (`RuntimeDrivesMeters`): no
  adapter runs without a preflight, none is charged twice, and one that raises is not charged.  So their
  promises hold in the runtime (`MetersHold`), where dispatches of races, retries and reflexes follow
  one another and processes are killed with an adapter running.  `IInv` is the bus's, and one
  part per promise, which says what must be so between the effects of one verb:
  `WorkOK` that only the rest of a race, of any length, can be left to do once a verb has begun
  (`HardHaltStopsTheRun`); `HaltComes` that after a meter's limit the halt is in the outbox or done;
  `ReflexesMarked` that the marker is up while a reflex is executed and is in every payload it
  caused (`ReflexesStayBetweenWakes`); `StreaksCounted` that the counter of a lane is the
  length of its streak, and that a drained lane has no adapter running, so that nothing lowers it
  again; `ThresholdsKept` that what was told is what was logged followed by what is in the
  outbox, shifted by one while a halt is at its head.  `ThresholdsReachTheLog` pairs the k-th
  logged threshold with the k-th told (`Logged`, `Rank`) and is that part for an empty outbox.
* `Submit`.  `Held` says of each submission that lives: what it has waiting or has taken are rows of
  the log it has written itself, so that rows others append to the same task do not change what
  its events say; it has not taken more than it emitted and not decided more than it has taken, so
  that the number a decision is linked by (`EventIndex`) is that of a row, and no decision goes
  unrecorded; and what it believes to have recorded is in the tables, or was replaced by another.
  `HandledMeansRecorded` and `LabelsHaveEvidence` follow.  No submission is assumed to be alone
  on its task, or its contract names to be its own.
* `Lane`.  `RunsDiffer` gives each run to one process.  `Alone` and `PathFollows`, while no two
  dispatches were on the path at once, say that the process on it has the last run and what is
  there in each phase: no directory and no `.git` file when pruning, no registration either when adding, from then on both and
  its own changes, of which git shows some exactly if it did after the last of them.  `PathReusable`, `Disposable` and `OwnArtifact` are cases of that.
  `ChangesAreGranted` and `CeilingsHold` are inductive with `RunsDiffer`, also where dispatches overlap.
* `HeldoutRotation`.  That verify accuses rightly depends on what the rotation has in memory:
  `IInv` adds that a line's hash is that of the file on the bench until the file is
  moved and of the withheld file afterwards (unless touched), that no chosen contract is in a
  manifest yet, and that the manifest is empty, and every file moved, when it is written.
* `Consolidate`.  A step of `Consolidate` is a step of the rotations or leaves them alone
  (`BesideRotations`), so that all of the above holds beside the learning loop.  About the filter, for any
  number of rows and any outcomes: a score is one of the 200 points; the quantile is the value of some row (the least value that
  enough rows do not exceed, by the least-number argument of lemma `Least`), whose place in the order
  of the values is fixed by counting.  `KeepsTheTop` follows by cardinalities.
* `CodexCredentials`.  `NoLockoutByRacing` rests on `SoleHolder`: with a rotating service, while a program
  has a new token to write, the file and all who have read it have older ones of that session.
  So an exchange that succeeds under another program's nose is of another session, and a
  write never replaces a newer token of its own session.  `Kept` then says
  who is about to repair an outdated or empty file.

* `PolicyStore`.  `PInv` has two parts beside the types.  `AllTraced`: every reflex in a memory or in the
  file was either written by hand, and has no entry in `wrote`, or carries the stamp and the ttl of its
  entry, so nothing that is loaded, purged, saved or edited away renews one; and all that a memory holds is under the executive's name, because `Parses` rejects files with
  another.  `InForceAsWritten` follows, and `ExpiredNeverFires`, since a
  reflex is stamped with the time of an event, which is never later than the clock.  `Kept` is about
  two places at once: while processes follow one another and no save is disturbed, a saved reflex that is alive
  is in the memory of whoever is up *and*, unless a save has truncated it, in the file; the first is
  what makes the next save write it, and the second the next process read it.  `ReflexesPersist`
  follows.  `RulesDecide` needs that purging keeps the order: `At` selects the elements at a set of positions,
  and the k-th smallest position exists and grows with k for every finite set (`NthFacts`, `NthOrder`), so that the first
  hit among what is left is the first among what there was, whatever its task type; and that `_in_window` is membership in
  the window's hours (`MatchesCovers`), over midnight and for an empty window too.
* `Wake`.  `Asked` says how many answers a request has had in each phase, all invalid while it is
  asked again; with it `ActsOnTheRecord` is inductive.  `ShownCompressed` follows from what `compress` leaves for
  any ledger (`CompressFacts`).  `PromotionEarned` relates counters to what was decided: `Books` says that
  they are the numbers of positions of `compared` that are routine, that differ, and that differ at a gate,
  and each new pair adds its position to the sets it belongs to (`BooksKept`).

Only model-checked:

* liveness (`RunTerminates`, `DispatchEnds`, `RequestEnds`), which this prover does not reach;
* that the three properties of section 5 are refuted, which are counterexamples and no theorems.

## 7. Not modelled, and what is left

Pure text (screener, prompts, reports), batch experiments and the vendored lane configuration
are left out: their state is a counter or none, and what could be wrong is in the text.  The
local and dsh lanes are one subprocess or request under a timeout, which `Runtime` has as an
adapter that returns anything.  `ratchet.py` loads, edits and saves a file like `PolicyStore`'s, in
one process; `promote.py` compares numbers; `replay.py` only reads, and `verify_chain`, its core, is in
`AuditLog`.  Sampling and reviewers (`verify/`) are independent draws and calls.

`git worktree add` is one step of `Lane`.  Killing the program does not kill the git it has started; should git be
killed too in the middle of it, it leaves a registration that is locked as initializing, which
`git worktree prune` keeps, and the path is not free until somebody unlocks it.

Every safety invariant and action property that a passing run checks is proved for all instances.  What could be
added next is a lane that stands between `Lane` and `Runtime`, with V1 before the worktree is removed,
and the other files of the learning loop; both would be new models.
