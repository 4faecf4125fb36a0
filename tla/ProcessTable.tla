---------------------------- MODULE ProcessTable ----------------------------
(***************************************************************************)
(* The state every part of the process manager shares: the DashMap of      *)
(* managed processes, the operating-system children behind them, the exit- *)
(* event channel, and the pure decisions taken on one process.             *)
(*                                                                         *)
(* Time is abstracted to the three tests the code makes of it: whether a   *)
(* backoff delay has elapsed, whether a child has reached min_uptime, and  *)
(* whether a Waiting process has exceeded its dependency timeout.          *)
(***************************************************************************)
EXTENDS Integers, Sequences, FiniteSets

CONSTANTS
    MaxId,         \* bound on next_id: how many ProcessIds start() may assign
    MaxPid,        \* bound on successful forks; further forks fail (EAGAIN)
    Labels,        \* the labels of the configurations
    Configs,       \* the configurations clients may pass to start()
    Shard,         \* the DashMap shard each ProcessId hashes to
    NoProcess,     \* an id with no entry in the DashMap
    ExitStatuses,  \* how children exit: a subset of {"ok", "err"}
    SpawnMayFail,  \* may a fork or exec fail before the pids run out?
    HasReaper      \* built by with_reaper() rather than new()?

ProcessId == 1 .. MaxId
Pid == 1 .. MaxPid

DependencyRef == [kind : {"Label"}, target : Labels]
                   \cup [kind : {"Id"}, target : ProcessId]

\* backoff tells RestartPolicy::Backoff from Immediate.  on_kill is not a
\* field of the code: it is how the program reacts to its kill signal.
ProcessConfig ==
    [label : Labels,
     depends_on : Seq(DependencyRef),
     restart_on_exit : BOOLEAN,
     restart_trigger : {"CrashOnly", "Always"},
     backoff : BOOLEAN,
     max_restarts : Nat,
     supervisor_strategy : {"OneForOne", "OneForAll", "RestForOne"},
     cascade_stop : BOOLEAN,
     terminate_on_exit : BOOLEAN,
     on_kill : {"dies", "ignores", "denied"}]

ProcessState == {"Starting", "Running", "Stopping", "Stopped", "Crashed",
                 "Restarting", "Failed", "Waiting"}

\* pid 0 is "no OS process yet", child 0 is Option::None.  backoff is
\* next_eligible_restart, stable and expired are what the clock says of
\* last_started_at and waiting_since.  Reader threads are left out.
Process ==
    [config : Configs,
     pid : 0 .. MaxPid,
     child : 0 .. MaxPid,
     state : ProcessState,
     spawn_sequence : Nat,
     cascade_flag : BOOLEAN,
     resolved_deps : Seq(ProcessId),
     restart_count : Nat,
     backoff : {"none", "pending", "elapsed"},
     stable : BOOLEAN,
     expired : BOOLEAN]

\* exited tells whether exit_status is Some.
ProcessExitEvent ==
    [pid : 0 .. MaxPid, state : {"Stopped", "Crashed", "Failed"}, exited : BOOLEAN]

ASSUME BoundsAssumption == MaxId \in Nat \ {0} /\ MaxPid \in Nat
ASSUME ConfigsAssumption == Configs \subseteq ProcessConfig
ASSUME ShardAssumption == Shard \in [ProcessId -> Nat]
ASSUME NoProcessAssumption == NoProcess \notin Process /\ NoProcess \notin Configs
ASSUME EnvironmentAssumption ==
    /\ ExitStatuses \subseteq {"ok", "err"}
    /\ SpawnMayFail \in BOOLEAN
    /\ HasReaper \in BOOLEAN

VARIABLES
    processes,            \* the DashMap
    next_id,
    next_spawn_sequence,
    locks,                \* shards whose guard a blocked thread holds
    os,                   \* each OS child: unborn, alive, or its exit status
    reaped,               \* pids whose status has been collected by wait()
    doomed,               \* pids a fatal signal has been delivered to
    events,               \* the exit events sent so far, per ProcessId
    chan_open             \* does the receiver of exit events still exist?

mapVars == <<processes, next_id, next_spawn_sequence>>
osVars == <<os, reaped, doomed>>
eventVars == <<events, chan_open>>
tableVars == <<mapVars, locks, osVars, eventVars>>

TableTypeOK ==
    /\ processes \in [ProcessId -> Process \cup {NoProcess}]
    /\ next_id \in 1 .. (MaxId + 1)
    /\ next_spawn_sequence \in Nat
    /\ locks \subseteq {Shard[i] : i \in ProcessId}
    /\ os \in [Pid -> {"unborn", "alive", "ok", "err"}]
    /\ reaped \subseteq Pid
    /\ doomed \subseteq Pid
    /\ events \in [ProcessId -> Seq(ProcessExitEvent)]
    /\ chan_open \in BOOLEAN

TableInit ==
    /\ processes = [i \in ProcessId |-> NoProcess]
    /\ next_id = 1
    /\ next_spawn_sequence = 1
    /\ locks = {}
    /\ os = [q \in Pid |-> "unborn"]
    /\ reaped = {}
    /\ doomed = {}
    /\ events = [i \in ProcessId |-> <<>>]
    /\ chan_open = TRUE

-----------------------------------------------------------------------------
(* The DashMap.                                                            *)

Present == {i \in ProcessId : processes[i] # NoProcess}

Labelled(l) == {i \in Present : processes[i].config.label = l}

InState(S) == {i \in Present : processes[i].state \in S}

\* An operation on one entry needs its shard, an iteration needs every one.
Free(i) == Shard[i] \notin locks
AllFree == locks = {}

\* dependents()
Dependents(i) ==
    {d \in Present : \E k \in DOMAIN processes[d].resolved_deps :
                        processes[d].resolved_deps[k] = i}

\* The orders in which an iteration may list a set of ids.
Listings(S) ==
    {s \in UNION {[1 .. n -> S] : n \in 0 .. MaxId} :
        /\ \A i \in S : \E k \in DOMAIN s : s[k] = i
        /\ \A j, k \in DOMAIN s : s[j] = s[k] => j = k}

-----------------------------------------------------------------------------
(* The operating system: fork, exit, wait and kill.                        *)

Alive(q) == q # 0 /\ os[q] = "alive"
Exited(q) == q # 0 /\ os[q] \in {"ok", "err"}

NextPid(q) == os[q] = "unborn" /\ \A r \in Pid : r < q => os[r] # "unborn"

SpawnOk(q) == NextPid(q) /\ os' = [os EXCEPT ![q] = "alive"]

SpawnFails == (SpawnMayFail \/ \A q \in Pid : os[q] # "unborn") /\ UNCHANGED os

\* A child exits by itself or of a signal.
ChildExits(q) ==
    /\ os[q] = "alive"
    /\ \E s \in ExitStatuses : os' = [os EXCEPT ![q] = s]
    /\ UNCHANGED <<mapVars, locks, reaped, doomed, eventVars>>

\* The status a wait() on this handle collects, if the child has exited.
Collected(p) == IF Exited(p.child) THEN {p.child} ELSE {}

\* What kill() answers for the pid a process records.
KillResult(p) ==
    IF p.pid = 0 \/ p.pid \in reaped THEN "ESRCH"
    ELSE IF p.config.on_kill = "denied" THEN "EPERM" ELSE "Ok"

\* Mutants: the signal is never sent.
SignalLost(p) == {}
KillLost(p) == {}

\* Process::send_signal(kill_signal) and Process::force_kill()
send_signal(p) ==
    IF KillResult(p) = "Ok" /\ p.config.on_kill = "dies" THEN {p.pid} ELSE {}
force_kill(p) == IF KillResult(p) = "Ok" THEN {p.pid} ELSE {}

-----------------------------------------------------------------------------
(* Process::state() and what the reaper does to one process.               *)

is_terminated(s) == s \in {"Stopped", "Crashed", "Failed"}
is_alive(s) == s \in {"Starting", "Running", "Stopping", "Restarting", "Waiting"}

Polls(p) == p.state \in ProcessState \ {"Stopped", "Crashed", "Failed",
                                        "Stopping", "Restarting", "Waiting"}

\* The process after state(); the status collected is reaped as well.
Polled(p) ==
    IF ~Polls(p) THEN p
    ELSE [p EXCEPT !.state = IF p.child = 0 THEN "Stopped"
                             ELSE IF os[p.child] = "alive" THEN "Running"
                             ELSE IF os[p.child] = "ok" THEN "Stopped"
                             ELSE "Crashed"]

PollReaps(p) == IF Polls(p) THEN Collected(p) ELSE {}

\* A freshly spawned or queued process, as start() and restart() build it.
NewProcess(c, q, s, deps) ==
    [config |-> c, pid |-> q, child |-> q,
     state |-> IF q = 0 THEN "Waiting" ELSE "Starting",
     spawn_sequence |-> s, cascade_flag |-> FALSE, resolved_deps |-> deps,
     restart_count |-> 0, backoff |-> "none", stable |-> FALSE,
     expired |-> FALSE]

should_restart(trigger, s) ==
    \/ trigger = "CrashOnly" /\ s = "Crashed"
    \/ trigger = "Always"

\* Mutant: one restart too many.
RateLimitedLate(p) == p.restart_count > p.config.max_restarts

is_rate_limited(p) == p.restart_count >= p.config.max_restarts

check_stable_uptime(p) ==
    IF p.state = "Running" /\ p.config.restart_on_exit /\ p.config.backoff /\ p.stable
    THEN [p EXCEPT !.restart_count = 0]
    ELSE p

is_eligible_for_restart(p) ==
    p.config.restart_on_exit /\ p.backoff \in {"none", "elapsed"}

\* Mutants: the handle is kept; the process is left as it is.
ScheduledWithHandle(p) ==
    [p EXCEPT !.state = "Restarting", !.restart_count = @ + 1,
              !.backoff = IF p.config.backoff THEN "pending" ELSE "elapsed"]
ScheduledInPlace(p) == [p EXCEPT !.restart_count = @ + 1]

\* Phase 3: the handle is released and the restart scheduled.
Scheduled(p) ==
    LET released == [p EXCEPT !.child = 0, !.state = "Restarting"]
    IN IF ~p.config.restart_on_exit THEN released
       ELSE [released EXCEPT !.restart_count = @ + 1,
                             !.backoff = IF p.config.backoff THEN "pending"
                                         ELSE "elapsed"]

\* perform_restart(): a new child, or back to Waiting for dependencies.
Respawned(p, q, deps) ==
    [p EXCEPT !.child = q, !.pid = q, !.state = "Starting",
              !.resolved_deps = deps, !.stable = FALSE, !.backoff = "none"]

Requeued(p, deps) ==
    [p EXCEPT !.state = "Waiting", !.resolved_deps = deps,
              !.cascade_flag = FALSE, !.expired = FALSE]

\* Mutant: the handle of the new child is not stored.
SpawnedWithoutHandle(p, q) ==
    [p EXCEPT !.pid = q, !.state = "Starting", !.expired = FALSE, !.stable = FALSE]

\* spawn_waiting_process()
SpawnedWaiting(p, q) ==
    [p EXCEPT !.child = q, !.pid = q, !.state = "Starting", !.expired = FALSE,
              !.stable = FALSE]

\* Phase 1b: the target of a supervisor cascade.
Flagged(p) == [p EXCEPT !.cascade_flag = TRUE, !.state = "Stopping"]

-----------------------------------------------------------------------------
(* Dependencies.                                                           *)

\* The ids a label may be bound to: the first match of an iteration.
Matches(l, S) == {i \in Labelled(l) : processes[i].state \in S}

\* resolve_dependencies(): every binding it may return; with a label that
\* matches nothing it is an error, which the callers turn into no binding.
resolve_dependencies(depends_on) ==
    LET choices(d) == IF d.kind = "Id" THEN {d.target}
                      ELSE Matches(d.target, {"Starting", "Running"})
        bindings == {s \in [DOMAIN depends_on -> ProcessId] :
                        \A k \in DOMAIN s : s[k] \in choices(depends_on[k])}
    IN IF bindings = {} THEN {<<>>} ELSE bindings

\* all_deps_running() polls each dependency in turn and stops at the first
\* that is not Running.
DepRunning(i) ==
    processes[i] # NoProcess /\ Polled(processes[i]).state = "Running"

all_deps_running(deps) == \A k \in DOMAIN deps : DepRunning(deps[k])

Visited(deps) == {deps[k] : k \in {j \in DOMAIN deps :
                                     \A h \in 1 .. (j - 1) : DepRunning(deps[h])}}

\* Mutant: a dependency that has been removed is taken to be still there.
TerminalIfPresent(i) ==
    /\ processes[i] # NoProcess
    /\ \/ processes[i].state = "Failed"
       \/ processes[i].state = "Stopped" /\ ~processes[i].config.restart_on_exit

\* Phases 5 and 6: a dependency that will not come back.
TerminalDep(i) ==
    \/ processes[i] = NoProcess
    \/ processes[i].state = "Failed"
    \/ processes[i].state = "Stopped" /\ ~processes[i].config.restart_on_exit

any_dep_terminal(deps) == \E k \in DOMAIN deps : TerminalDep(deps[k])

\* Mutant: a process that is waiting itself is left out of the snapshot.
SnapshotsOfSpawned(c) ==
    {g \in [Labels -> {<<>>} \cup {processes[i].config.depends_on : i \in Present}
                        \cup {c.depends_on}] :
        \A l \in Labels :
            IF l = c.label THEN g[l] = c.depends_on
            ELSE LET spawned == Labelled(l) \ InState({"Waiting"}) IN
                 IF spawned = {} THEN g[l] = <<>>
                 ELSE \E i \in spawned : g[l] = processes[i].config.depends_on}

\* build_dependency_snapshot(): one process per label, whichever the
\* iteration visits last, and the new process for its own label.
DependencySnapshots(c) ==
    {g \in [Labels -> {<<>>} \cup {processes[i].config.depends_on : i \in Present}
                        \cup {c.depends_on}] :
        \A l \in Labels :
            IF l = c.label THEN g[l] = c.depends_on
            ELSE IF Labelled(l) = {} THEN g[l] = <<>>
            ELSE \E i \in Labelled(l) : g[l] = processes[i].config.depends_on}

\* dfs_cycle(): the label it is called for, the labels on the path to that,
\* and those already visited.
Searches == [label : Labels, path_labels : SUBSET Labels, visited : SUBSET Labels]

\* One round of its loop: it skips an Id and a label visited before, stops at
\* a cycle, and calls itself for any other label.
Follow(dfs, path, before, dep) ==
    IF before.cycle \/ dep.kind = "Id" THEN before
    ELSE IF dep.target \in path THEN [before EXCEPT !.cycle = TRUE]
    ELSE IF dep.target \in before.visited THEN before
    ELSE dfs[[label |-> dep.target, path_labels |-> path, visited |-> before.visited]]

\* What is known after each round.
Rounds(g, dfs, at) ==
    LET after[k \in 0 .. Len(g[at.label])] ==
            IF k = 0 THEN [cycle |-> FALSE, visited |-> at.visited]
            ELSE Follow(dfs, at.path_labels \cup {at.label}, after[k - 1],
                        g[at.label][k])
    IN after

dfs_cycle(g) ==
    LET dfs[at \in Searches] ==
            [Rounds(g, dfs, at)[Len(g[at.label])] EXCEPT !.visited = @ \cup {at.label}]
    IN dfs

\* detect_cycle() of a new process.
detect_cycle(g, c) ==
    dfs_cycle(g)[[label |-> c.label, path_labels |-> {}, visited |-> {}]].cycle
=============================================================================
