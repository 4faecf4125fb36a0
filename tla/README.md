# A TLA+ model of process-manager

`process-manager` is a Rust library that starts, watches, restarts and stops operating-system
processes. Client threads call a `ProcessManager`; a background *reaper* thread polls every
managed process, reports its exit, restarts it and works through dependencies. Both work on one
`DashMap` of processes whose shards are locked one at a time, and both let go of it in the middle
of what they do. This directory holds a model of that concurrency, the properties it should have,
the instances TLC checks, and theorems TLAPS proves for every value of the constants.

## 1. Inventory

| Component | State it keeps | Operations | Interaction |
|---|---|---|---|
| process table (`process/`) | per process: config, pid, `Child` handle, state, `spawn_sequence`, `cascade_flag`, `resolved_deps`, restart state | `state()`, `send_signal`, `force_kill` | shared `DashMap`, one lock per shard |
| manager operations (`manager/process.rs`) | `next_id`, `next_spawn_sequence`, the call in progress | `start`, `start_with_deps`, `stop`, `stop_label`, `stop_all`, `restart`, `restart_label`, `send_signal`, queries, `Drop` | reads and removes entries under short guards; sleeps without one |
| dependencies (`manager/dependency.rs`) | none (bindings live in the process) | snapshot, cycle check, label binding, `all_deps_running` | called by `start` and by the reaper |
| reaper (`reaper/loop.rs`) | lists of ids and exits collected in a cycle | phases 1, 1b, 2 to 6 of a poll cycle | the same `DashMap`; sends exit events |
| reaper handle (`reaper/handle.rs`) | `stop_flag`, join handle, event sender | stop, join | `Drop` sets the flag and joins |
| restart state (`process/restart_state.rs`) | `restart_count`, `next_eligible_restart`, `last_started_at` | delay, schedule, rate limit, eligibility, stable uptime | inside the process; compared with the reaper's reading of the clock |
| supervisor strategy (`config/supervisor_strategy.rs`) | none | OneForOne, OneForAll, RestForOne | Phase 1b of the reaper |
| configuration (`config/`) | immutable | builder, validation, serde | copied into the process |
| signals (`signal/`) | none | conversion to nix signals | used by `kill` |
| socket manager and builder (`process-manager-socket/`) | sockets by name, files | build, remove, drop | none with the manager |

What is hard: every operation of the manager is a sequence of short critical sections, and the
reaper works on ids it collected phases ago. The hazards are listed line by line under `hazards`
in `PROJECT.json`; the properties below are aimed at them. What makes each component correct:

* every process: its id is used once, its children run one after another, and none is replaced
  before its exit has been reported (`ImplementsLifecycle`);
* process table: the recorded state agrees with the handle held (`HandleMatchesState`), whoever
  wrote it last;
* manager operations: a process is in the map or in the hands of one call (`OneRecord`), no child
  outlives its record (`NoOrphan`), calls return (`CallsReturn`), `Drop` stops what it should
  (`DropStopsAll`), a signal reaches its target only (`SignalIsTargeted`);
* reaper: an exit is noticed (`ExitNoticed`) and reported once (`ExitReportedOnce`), giving up is
  final (`FailedIsFinal`), restarts are bounded (`RestartsBounded`), the thread does not block
  (`ReaperNeverBlocks`);
* dependencies: a process that runs has every dependency bound (`DependenciesBound`), waiting ends
  (`WaitingEnds`) and does not go round in a circle (`NoCircularWait`), a dependent does not outlive its dependency (`DependentsFollow`);
* restart state: a backoff lasts as long as it should and no longer (`BackoffHolds`, `BackoffEnds`),
  the count is reset for stable uptime (`UptimeCounts`) and for no less (`UptimeEarned`), a crash
  loop ends (`CrashLoopEnds`), and no delay is too long for the reaper (`ReaperSurvives`);
* strategies: a cascade stays in its group and order (`CascadeStaysInGroup`), ends
  (`CascadeEnds`), leaves no flag behind (`FlagResetOnRestart`); the order is strict
  (`SpawnOrderStrict`).

## 2. Modules

| Module | Models | Code |
|---|---|---|
| `ProcessTable` | the map, its locks, the children, exit events; the pure decisions on one process; dependency resolution and cycle detection | `process/*`, `manager/dependency.rs`, `DashMap`, fork/wait/kill (external) |
| `ManagerOps` | the client operations, step by step | `manager/process.rs` |
| `ReaperLoop` | the reaper thread, phase by phase | `reaper/loop.rs`, `reaper/exited.rs` |
| `Supervision` | the composition with the children and the clock, fairness, all properties | the whole crate |
| `Lifecycle` | abstract: what is promised of each process alone | |
| `LifecycleRefinement` | the mapping under which `Supervision` implements `Lifecycle` | |
| `RestartBackoff` | one process under backoff on a clock, the reaper that polls it | `process/restart_state.rs`, `config/restart_policy.rs`, phases 1 to 4 of `reaper/loop.rs` |
| `MCSupervision` | constants for TLC; reference definition of a cycle | |
| `SupervisionProofs` | what the helpers return; the inductive invariant, type correctness | |
| `SpawnOrderProofs` | strictness of the spawn order | |
| `ExitReportProofs` | what any step may do to the records and the children; one owner for every handle, one report for every exit | |
| `NoRestartProofs` | what holds as long as nobody calls `restart()` | |
| `LifecycleProofs` | the refinement of `Lifecycle` | |
| `OrphanProofs` | no child is lost, and `Drop` stops the rest; clients without a reaper | |
| `DependencyProofs` | a spawned process has all its dependencies bound; what the cycle search finds, and that no processes wait in a circle | |
| `RestartBackoffProofs` | every invariant and action property of `RestartBackoff` | |

`ManagerOps`, `ReaperLoop`, `Supervision`, `LifecycleRefinement` and `MCSupervision` each extend the
one before; `Lifecycle` and `RestartBackoff` stand alone. The proof modules are a chain as well:
`SupervisionProofs`, `ExitReportProofs`, `NoRestartProofs`, `LifecycleProofs`, and from there
`OrphanProofs` and `DependencyProofs`, each on its own; `SpawnOrderProofs` needs the first alone. `Supervision.Next` is the disjunction of what a client
thread does (`Calls`, `Steps`), what the reaper does (`ReaperNext`), a child exiting (`Exits`),
time passing (`BackoffElapses`, `UptimeReached`, `DependencyExpires`) and the receiver of events
going away (`Closes`).

### State

| Variable | Code |
|---|---|
| `processes`, `next_id`, `next_spawn_sequence` | fields of `ProcessManager` |
| `locks` | shards whose guard is held by a thread that is blocked (a guard that is taken and dropped in one step needs no variable) |
| `os`, `reaped`, `doomed` | the children: unborn, alive or exited; collected by `wait()`; hit by a fatal signal |
| `events`, `chan_open` | what has been sent on the exit channel, per process; whether the receiver exists |
| `calls` | per client thread: the program counter and the locals of the call in progress |
| `stop_flag`, `dropping` | `ReaperHandle::stop_flag`, `Drop` begun |
| `rpc`, `todo`, `cur`, `exited`, `origins`, `to_spawn`, `to_fail` | the reaper: program counter, the ids of the phase, and the lists `exited`, cascade origins, `waiting_to_spawn`, `waiting_to_fail` |

### What is one step

A step ends where the code drops its guard and another thread can see the difference.

* Collecting a list by iteration is one step. It needs every shard free (`AllFree`); an
  operation on one entry needs the shard of that entry (`Free`). A thread that blocks under a
  guard puts the shard in `locks`: `wait()` on a live child in `restart()` (`RestartBlocks`) and in
  Phase 3 (`ScheduleBlocks`), and `perform_restart()` meeting its own guard (`RestartWedges`).
  Shards are numbered by `Shard`; an iteration that stops at its first match blocks only if that
  match does not lie below the shard it holds (`NoMatchBelow`, `BindingsBelow`).
* `start()`: the id and the cycle check, then resolving, testing, spawning and inserting.
* `stop()`: reading the entry; removing and signalling it; the end of the grace period; the end of
  the wait after SIGKILL. The grace loop polls `is_running()`, but `stop()` has just set the state
  to Stopping, which `state()` returns as it is, so the loop never ends early; `is_alive(Polled(..))`
  says so.
* `stop_many()`: one step per id removed, then the signals, the end of the grace period, SIGKILL
  and reaping.
* `restart()`: the state is read once; either the restart in place (reset, spawn) or `stop()`
  followed by spawn and insert. `restart_label()` does this for one id after another.
* the reaper: phases that take a guard per id (1, flagging, 3, 4, 5, 6) are one step per id in any
  order; in Phase 5 binding and rechecking one id are one step, and spawning is another.

### Data

In `ProcessTable` time is abstracted to the tests the code makes of it: `backoff` (has `next_eligible_restart`
passed), `stable` (has `min_uptime` been reached) and `expired` (the dependency timeout). Phases 1
and 4 use the one clock value the cycle reads, so these two change only while the reaper sleeps.
`UptimeReached` is only offered where a count above 0 can be reset by it. A configuration has one
field that is not in the code: `on_kill`, how the program reacts to its kill signal (dies, ignores
it, may not be signalled).

Events are kept as a history per process: what the receiver does with them does not matter here.

### The lifecycle and its mapping

`Lifecycle` knows of a process whether it is unused, down (no child: waiting, or between two
children), up, leaving (taken by a call that stops it) or gone, its last child, and what has been
reported of it. Its `LifeNext` lets every process make a step of its own at the same time, since
one step of the system may move several (`stop_many()` puts back all it could not kill). What it
promises: no id comes back; a child is new when it is spawned, and is spawned only when nothing is
left of the one before but a report of its exit; an exit is reported once; only a Farewell follows
a Failed report.

`LifecycleRefinement` reads this off the implementation. A process is up while its record has a
handle, leaving while the record is in the hands of a call (`calls[t].held`), unused until its id
has been handed out and inserted. Its child is the pid of the record, which outlives the handle, and
once the record is gone, the pid in the reaper's list of exits it still has to report.

Two things had to be allowed that one would not write down first. A call may take a process while
the reaper has its exit to report, so that the report comes after the process is gone
(`ReportExit`). And `stop()` of a process it has seen Waiting emits Stopped whatever has become of
the process since (`Farewell`): after the reaper has failed it, the receiver gets Failed and then
Stopped, and it says so even of a process that another call has taken to stop it. `restart()` is excluded: it takes ids up again and drops children whose exit nobody reports.

### The clock of restarts

`RestartBackoff` gives up the map, the clients' calls and the other processes, and keeps the clock.
Every `Instant` is kept as its distance from the present, and the distances stop counting where
neither a test nor a property tells them apart (`Horizon`, `MaxLag`), so the state space is finite
although time is not. The reaper's sleep may end up to `MaxLag` late and its cycle may take up to
`MaxLag`; all tests of the cycle use the reading taken at its start, `lag` ago. The siblings of a
supervised group are only there as the cascade that may take the process down. That restart is
counted but not rate limited, so nothing in the code bounds the count; the model bounds it by
`CascadeBound`. `MaxDuration` stands for the longest `Duration`, 2^64 seconds.

## 3. Runs

`MaxId` bounds the ids `start()` may assign and `MaxPid` the successful forks; when the pids are
used up a fork fails, so that every run also takes the error paths of spawning. Two ids show a
process and its neighbour, three a group with an order or a dependency chain; three or four pids
allow each to be restarted.

| Run | Instance | Checks |
|---|---|---|
| `restart` | 2 ids, 3 pids; backoff with `max_restarts` 1, and a child that may not be signalled; clean and failing exits; poll, `stop_many`, closed channel | `HandleMatchesState`, `NoOrphan`, `ExitReportedOnce`, `RestartsBounded`, `FailedIsFinal`, `ImplementsLifecycle` |
| `cascade` | 3 ids, 4 pids; a OneForAll and a RestForOne group | `CascadeStaysInGroup`, `CascadeEnds`, `ExitReportedOnce`, `ImplementsLifecycle` |
| `dependencies` | 3 ids, 3 pids; a process that needs one other by label and one by id; `stop` with cascade | `DependenciesBound`, `HandleMatchesState`, `ImplementsLifecycle` |
| `lifecycle` | 2 ids, 3 pids; children that ignore the signal, wait for another or for each other, or survive `Drop`; blocking start | `NoCircularWait`, `ImplementsLifecycle`, `DropStopsAll`, `CallsReturn`, `ExitNoticed`, `WaitingEnds`, `DependentsFollow` |
| `clients` | 2 ids, 2 pids; restart, stop and signals against the automatic restarts | `SpawnOrderStrict`, `ExitReportedOnce` |
| `concurrent` | 2 clients (symmetric), 2 ids, 3 pids, no reaper; start, stop, stop_many, restart | `NoOrphan`, `OneRecord`, `SpawnOrderStrict` |
| `backoff` | poll interval 1, lag 2, delays 2 and 3 (6 before the cap, where 7 fits), 2 restarts, `min_uptime` 8; a child that exits at any tick, polling, a cascade, failing forks | `ReaperSurvives`, `BackoffEnds`, `UptimeCounts`, `BackoffHolds`, `UptimeEarned`, `CrashLoopEnds` |
| `backoff_overflow` | 5 restarts of doubling delay against a longest duration of 15 | `ReaperSurvives`, which does not hold (section 5) |
| `reaper_blocks`, `stop_orphans`, `stale_flag`, `broadcast` | small instances | one documented statement each, which the code does not keep (section 5) |

The bounds of `BackoffHolds` and `UptimeEarned` are exact: on this instance each is violated when its
slack is one tick less. Those of `BackoffEnds` and `UptimeCounts` are the ones that can be proved for
every timing, and are one tick wider than what this instance reaches. `min_uptime` is longer than a
round (`Round` is the time between two looks of the reaper), the second delay is cut by the cap, and
the lag is longer than the sleep, so that each of the tests decides something.

`MCSupervision` also holds an assumption TLC evaluates before each of its runs: the depth-first search
`detect_cycle`, with its shared set of visited labels, refuses a new process just when a label it can
reach lies on a circle, for every graph over the run's labels with up to two dependencies each.
(`CyclesDetected` proves it for all graphs, with circles defined in another way.)

`TypeOK` is checked in every passing run with a reaper. Every property of a passing run has a mutant in
`PROJECT.json`: a plausible error in a mapped definition that breaks it. The mutated forms stand
next to the originals, marked `Mutant`.

Deadlock is not checked where the system may really stop: in `restart`, `clients`, `concurrent`
and `lifecycle` the ids and pids run out, the reaper ends when the channel is closed or the manager
dropped, and clients need not call; in `dependencies` the reaper can block on itself (section 5).

### Fairness

The reaper and the threads inside a call are scheduled, and a child that has been sent a fatal
signal dies (weak fairness of `ReaperNext`, `Steps(t)` and `q \in doomed /\ Exits(q)`); a backoff
delay and a dependency timeout elapse. These are what the operating system and the clock give any
program; the same holds of `Tick` and `ReaperNext` in `RestartBackoff`. No client has to call anything (`Calls` has no fairness), no other child has to exit, no
process has to reach a stable uptime, and an id in the middle of a phase is not favoured over
another: the phases are finite. `CascadeEnds` is checked for children that die of their kill
signal: the cascade has no escalation, so it is false for one that ignores it.

### Which properties exclude which operations

`NoOrphan` and `HandleMatchesState` do not hold once `restart()` or `stop()` run against the
reaper's automatic restarts (section 5): the runs that check them leave that pair out and keep all
else, and so do those that check `ImplementsLifecycle`. `OneRecord` and `NoOrphan` for two clients
are therefore checked without a reaper.

`NoCircularWait` is checked for one client: two `start()` calls that take their snapshots before
either has inserted its process both pass the cycle check, as TLC shows when two threads start the
two processes of the circle. It relies on one process per label and on dependencies by label
(`manager/dependency.rs:33` and `:85`). These are the hypotheses of the theorem (`StartsAlone`,
`LabelsAgree`, `DependByLabel`).

## 4. Proofs

The theorems about `Supervision` hold for any finite or infinite set of threads, any `MaxId` and
`MaxPid`, any set of configurations and any assignment of ids to shards, under the assumptions named
in `ProcessTable`, `ManagerOps` and `ReaperLoop`: `BoundsAssumption`, `ConfigsAssumption`,
`ShardAssumption`, `NoProcessAssumption`, `EnvironmentAssumption`, `OpsAssumption`,
`NoExitAssumption`. They say that constants are of the sort they stand for, and that `NoProcess` is
neither a process nor a configuration. What a theorem needs
beyond that is in its statement. The invariants were checked with TLC before they were proved.

### Whatever the clients call

* `TypeCorrect == Spec => []TypeOK` (`SupervisionProofs`). `TypeOK` is not inductive. A call that
  has taken a process out of the map goes on with what it took, so `GoodCall` says what a call at
  each step carries: a process in `held` between removal and reaping, an id and a configuration
  between the two halves of `restart()`. And a thread that wakes up from `wait()` uses the entry
  again without looking whether it is there: it is, because the thread still holds the guard.
  `GuardInv` says that a blocked thread holds the shard of an entry in the map, and that no two
  blocked threads hold the same shard. `IInv` is the conjunction, and `Invariance` proves it. There
  is one lemma per action for the types; for the guards, a frame lemma (`GuardFrame`) covers every
  step that neither takes nor gives back a guard, and the five others are proved apart.
* `SpawnOrder == Spec => []SpawnOrderStrict` (`SpawnOrderProofs`). A record that `stop_many()` has
  removed can go back into the map next to a successor `restart()` has put there, so the order has to
  be strict over the records in the hands of calls too: `SeqInv` says that all numbers in use are
  below the next one and that no two records, in the map or in a call, share one.
* `HandlesApart` and `ExitsReportedOnce == Spec => []ExitReportedOnce` (`ExitReportProofs`).
  The module first proves that every step is a `RecordStep`: each entry of the map is as it
  was, came from the hands of a call, or was changed by one of the handful of edits the code knows,
  each with what the children were doing (`Respawns`, `Strikes`, `Schedules`, `Requeues`, `Resets`,
  ...). From then on a proof has one case per edit in place of one per action. `HandleInv` says that
  no two records share a handle, in the map or in hands, though `restart()` may put two records under
  one id. `ReportInv` then says that a handle whose exit has been reported, or is about to be, is in
  an entry the reaper is still to remove or to release before it looks again (`Due`).

* `CyclesDetected` (`DependencyProofs`): in every graph over a finite set of labels, `detect_cycle`
  reports a cycle just when the label of the new process is, or leads to, a label on a circle
  (`CircleFrom`). Circles are sets of labels each of which needs another of the set, so that the
  statement shares nothing with the search. The search is a function of what it has visited and of
  the path it is on, and each call visits one label more; the proofs go by induction on the number
  of labels not yet visited. The induction is on the set of numbers for which the fact holds
  (`EveryNumber`, by well-foundedness), as the library's theorem takes an operator. `SearchDefined`
  unfolds the function; `SearchSound` says that a search that finds nothing leaves a set of visited
  labels that is closed and has no circle (`Closed`, `CircleFree`),
  which is why one set may be shared between branches; `SearchJustified` that a search that finds
  something has met its own path, and the path is the circle.
* `NoCirclesOfWaiting`, that is `NoCircularWait`, from any number of threads. It needs three
  hypotheses, and without any one of them it is false: `DependByLabel`, of the configurations (a
  dependency by `Id` is not in the graph); `LabelsAgree`, of the behaviour (the graph has one process
  per label); `StartsAlone`, of its steps (two `start()` calls do not see each other's process).
  The invariant `NoCircle` is about every configuration in use, be it in the map, in the hands of a
  call or on its way into the map, since `stop_many()` and `restart()` put back what they took.
  `EveryUseStep` says that only `start()` brings a new configuration into use. When it does and no
  other call is in progress, all that is in use is in the map it looks at.

### As long as nobody calls `restart()`

`restart()` gives an id a second record, and drops handles whose exit nobody has reported. What
section 5 says of it is what makes the following false with it, so the theorems assume
`NoRestart == "restart" \notin Ops`; everything else may run, from any number of threads.

* `OneRecordEach`: a process has one record, in the map or in the hands of one call (`IdInv`: an id
  that `start()` has not inserted yet is nowhere). `EveryTrackStep` follows from it and from
  `RecordStep`: a record of a process is a first one, the one there was, or one the reaper has
  visited. The rest of this section is proved along it.
* `HandlesMatch` and `CascadesStayInGroup`. The reaper collects ids and acts on them later, and no
  longer looks at the state. `FlagInv` and `RestartInv` say why it may: what is on the list of a
  phase cannot leave the state it was listed in, except out of the map for good.
* `RestartsWithinLimit`. The count is tested in Phase 1 and raised in Phase 3 (`LimitInv`). It
  holds where `GroupsApart`: no OneForOne process carries the label of one that starts cascades. The
  cascade flag is what decides otherwise, and it overrides the limit: a member of a group that
  others take down is restarted however often that happens.
* `FailedEventIsFinal`, also without `stop()`: a `stop()` that has read Waiting says Stopped after
  Failed (section 5). `OverInv` says that a process of which Failed has been sent is out of the map,
  not in the list of exits, and that what a call still holds of it will not be put back.
* `EveryLifecycleKept == ASSUME NoRestart PROVE Spec => ImplementsLifecycle` (`LifecycleProofs`).
  `Lifecycle` speaks of each process alone, so a step is split by what it does to one process:
  to its record (`TrackStep`), to its life and child as the mapping reads them (`LifeBefore`,
  `ChildAfter`) and to its events (`EventStep`); one `Maps..` lemma per action of `Lifecycle` puts
  these together. `PhaseInv` holds what no single record shows: a child whose handle is gone has
  been reported, what Phase 5 spawns has no child, and `stop()` works on ids that have been used.
  The attempt to prove it showed that `Farewell` was too narrow: a `stop()` that has read Waiting may
  say Stopped of a process that another client is stopping at that moment, a case no run with one
  client reaches.
* `NoChildIsLost` (`OrphanProofs`), also without `stop()`, which does lose children (section 5), and
  with `DependentsDie`: Phase 6 sends one signal to a process whose dependency has gone and removes
  the entry at once, so the signal must be enough. `FateStep` says of every step that an entry that
  goes, goes into the hands of a call, or has no child that runs and has not been killed; and the
  same of what a call lets go of. The reason often lies several steps back. `ManyInv` says what
  `stop_many()` holds at each of its steps: what comes to the grace period has been marked Stopping,
  what comes to be reaped has been killed or cannot be. `FailInv` says that what Phase 5 has listed
  to fail has no child and is not also on the list of those to spawn; `BoundInv`, that only
  a process with dependencies is bound to one, so that Phase 6 kills only those.
* `DropStopsTheRest`, from the same. `DropInv` says that while `Drop` runs no other call does and the
  reaper has ended, that every entry with a child to stop is on the list of ids `Drop` still works
  through, and that what it puts back because it may not kill it is Failed.
* `DependenciesAreBound` (`DependencyProofs`), where every process may be killed: one that
  `stop_many()` may not kill goes back into the map, perhaps after a dependent has been bound to
  another process of its label. `DependenciesBound` compares the lengths of two lists, one of which
  the reaper appends to, cycle by cycle, whatever it finds unbound at that moment. `DepInv` says by a
  function which dependency each binding stands for (`Matching`) and that no two bindings to
  processes still there stand for the same one (`Apart`). A binding whose process has gone may have
  been replaced, so the list can grow longer than the dependencies; but no entry comes back
  (`LastingStep`), and when Phase 5 finds as many bindings as dependencies and all of them running,
  the function is injective, and by a pigeonhole argument (`WholeBinds`) none is left over.

### Clients by themselves

Without a reaper, and with processes that do not depend on one another, clients may call everything,
`restart()` included.

* `ClientsKeepOneRecord` (`OrphanProofs`). With dependencies it is false: `restart()` of a Waiting
  process lets go of the guard between removing and inserting, and two calls that have both read
  Waiting both insert one. Without them nothing is ever Waiting. The invariant `OwnInv` says that
  the id a call will insert is its own (`Mine`): in no other call's hands, and not in the map.
* `ClientsLoseNoChild`, from the same, where every process may be killed: `stop()` lets go of one it
  may not signal. `AloneInv` says in which states a record can be while nobody polls it.

### The clock of restarts

`RestartBackoffProofs` proves all of what the run `backoff` checks but its liveness property, for
every length of the sleep, of the reaper's lag, of the delays and of `min_uptime`: `TypeCorrect`,
`ReaperLives`, `BackoffIsKept`, `BackoffIsOver`, `UptimeIsCounted`, `UptimeIsEarned`. None of these
is inductive. What the times are depends on where the reaper is in its cycle, so the invariant
bounds each by how long it has slept or how old its reading of the clock is (`DeathInv`, `DelayInv`,
`CreditInv`). The proofs changed the bounds: as they were stated before, some held only where the
reaper's lag is no longer than its sleep. `ReaperLives` needs `DelaysFit`, that the uncapped delay
fits a `Duration` for every count that can be reached; without it the reaper panics (section 5).
`DelayAssumption` is arithmetic, that a quotient of natural numbers is one.

### What is not proved

* Everything that needs fairness, which is out of the prover's reach: `CallsReturn`, `ExitNoticed`,
  `CascadeEnds`, `WaitingEnds`, `DependentsFollow`, `CrashLoopEnds`.
* Nothing is said of `DependenciesBound` where a client calls `restart()`, which clears the bindings,
  or where a process may not be killed: there it does not hold, and no run checks it.
* That `detect_cycle` agrees with the reference definition of `MCSupervision`, which follows paths and
  is there because TLC can evaluate it.

## 5. What the model found

Each of these is a run with `expect: violation`; TLC prints the steps.

* `reaper_blocks`: `perform_restart()` holds `get_mut()` on its own entry while it iterates the map
  to resolve labels, so it can wait for its own guard. `reaper/loop.rs:33` says the reaper does not
  block, and a comment in Phase 5 explains how that phase avoids this.
* `stop_orphans`: `stop()` reads Restarting, drops the guard, and removes the entry without a signal;
  the reaper may have respawned the process in between.
* `stale_flag`: Phase 1b flags members that Phase 1 has already found dead; the flag survives the
  restart, although the field is documented as reset by it.
* `broadcast`: `send_signal()` on a Waiting process calls `kill(0, ..)`; `stop_many()` has a comment
  that this must never happen.

* `backoff_overflow`: `current_delay()` makes a `Duration` of the uncapped delay, which panics when it
  does not fit, before `max_delay` is applied. With the default delay and multiplier the 64th restart
  without a stable uptime in between, by a crash or by a cascade, ends the reaper's thread for good.

Seen while modelling, without a run of their own:

* Failed is documented as the end of a process (`book/src/process/state.md`), yet a `stop()` that has
  read Waiting emits Stopped after it.
* `config/restart_policy.rs:34-37` says that the count is kept if a process crashes before
  `min_uptime`. The uptime is tested before the exit, so the time a child has been dead counts: a
  crash up to one round early resets the count.
* `start_with_deps()` that times out leaves a Failed entry without a child in the map, which nothing
  removes or reports, and which Phase 5 may still spawn.
* Cycles that two concurrent `start()` calls close, or that go through an `Id`, or through a second
  process with the same label, are not detected.

* `restart()` of a Restarting process races with Phase 4: two children for one entry, or a `wait()`
  under the guard for as long as the new child lives. A `stop()` that has read Waiting can remove
  what `restart()` has put under the id meanwhile.
* `restart()` gives the process a new `spawn_sequence` and clears `resolved_deps`; the documentation
  of both fields speaks of them as stable across restarts.
* `stop()` returns early, without its cascade, when the child is already gone (ESRCH), and drops the
  record of a child it may not signal (EPERM), where `stop_many()` puts it back.
* Phase 6 sends the kill signal and removes the entry at once. A dependent that ignores the signal runs
  on with no record, and the reader of the Failed event is not told that it does.
* Without a reaper a Waiting process stays so: nothing else starts it.
* The first backoff delay is `initial_delay * multiplier`, as the count is incremented first.
* A comment in `config/process.rs` says that stopping a dependency does not affect its dependents;
  Phase 6 fails them.

## 6. Not modelled

* Reader threads, captured output, environment and stdio; configuration builder, serde and
  `validate()`; labels beyond their equality, signals beyond what they do to a child; the consumption
  of events. These are data the behaviour does not depend on, or pure input and output.
* Reuse of pids by the operating system, and the recursive read lock of `DashMap`.
* `process-manager-socket`. It shares no state, call or message with the process manager. `SocketManager`
  is a map from names to paths each of whose operations is one atomic `DashMap` call, and
  `SocketBuilder` asks which files exist: there is nothing in it that takes several steps to go wrong,
  except that two `build()` calls before the first socket is created return the same name.
* In `RestartBackoff`: `stop()`, `restart()` and dependencies, which `Supervision` has.

`Labelled` operations on several processes are modelled by their list of ids.

## 7. Plan

Done: `ProcessTable`, `ManagerOps`, `ReaperLoop`, `Supervision` with their runs; `Lifecycle` and its
refinement; the depth-first search; `RestartBackoff`; the proofs of section 4.

Every invariant and every action property that a run checks is stated by a theorem. What is left to
TLC is liveness, which is out of the prover's reach. A next step would be `NoOrphan` for clients that
call `stop()` next to a reaper. It is false now, because of what `stop()` does with a process it has
read as Restarting, and would hold if `stop()` looked at the state again once it has the entry.
