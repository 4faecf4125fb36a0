----------------------------- MODULE ReaperLoop -----------------------------
(***************************************************************************)
(* The reaper thread: one poll cycle after another, each of them a         *)
(* sequence of phases over ids collected in an earlier phase.              *)
(*                                                                         *)
(* A phase that works through a list of ids takes them one at a time, in   *)
(* any order, so that client calls run in between; collecting a list is    *)
(* one step.                                                               *)
(***************************************************************************)
EXTENDS ManagerOps

VARIABLES
    todo,      \* the ids the current phase has still to visit
    cur,       \* the id whose child the reaper is blocked on
    exited,    \* the ExitedProcess of each id found to have exited this cycle
    origins,   \* the crashes that trigger a supervisor cascade
    to_spawn,  \* waiting_to_spawn
    to_fail    \* waiting_to_fail

reaperVars == <<rpc, todo, cur, exited, origins, to_spawn, to_fail>>
scratch == <<cur, exited, origins, to_spawn, to_fail>>

ReaperStep == {"sleep", "detect", "cascade", "flag", "remove", "emit", "schedule",
               "schedule_wait", "eligible", "restart", "waiting", "check",
               "spawn", "fail", "running", "failfast", "wedged", "done"}

ExitedProcess ==
    [pid : 0 .. MaxPid, state : {"Stopped", "Crashed", "Failed"}, restart : BOOLEAN]

\* NoProcess also stands for an id that has not been found to have exited.
ASSUME NoExitAssumption == NoProcess \notin ExitedProcess

CascadeOrigin ==
    [id : ProcessId, label : Labels, seq : Nat, strategy : {"OneForAll", "RestForOne"}]

ReaperTypeOK ==
    /\ rpc \in ReaperStep
    /\ todo \subseteq ProcessId
    /\ cur \in 0 .. MaxId
    /\ exited \in [ProcessId -> ExitedProcess \cup {NoProcess}]
    /\ origins \subseteq CascadeOrigin
    /\ to_spawn \subseteq ProcessId
    /\ to_fail \subseteq ProcessId

NoneExited == [i \in ProcessId |-> NoProcess]

ReaperInit ==
    /\ rpc = IF HasReaper THEN "sleep" ELSE "done"
    /\ todo = {}
    /\ cur = 0
    /\ exited = NoneExited
    /\ origins = {}
    /\ to_spawn = {}
    /\ to_fail = {}

-----------------------------------------------------------------------------
In(pc) == rpc = pc

Goto(pc) == rpc' = pc

\* One id of the current phase is done; after the last comes the next phase.
Done(i, next) ==
    /\ todo' = todo \ {i}
    /\ rpc' = IF todo = {i} THEN next ELSE rpc

\* The ids a phase collects, which it skips when there are none.
Collect(ids, phase, next) ==
    /\ todo' = ids
    /\ rpc' = IF ids = {} THEN next ELSE phase

\* Mutant: the flag is never looked at.
SleepsAgain == "sleep"

\* The cycle is over: the loop tests the flag before it sleeps again.
AfterCycle == IF stop_flag THEN "done" ELSE "sleep"

\* Mutant: processes in a terminal state are not polled.
BeginCycleSkipsTerminated ==
    /\ In("sleep")
    /\ todo' = {i \in ProcessId : i \in Present => ~is_terminated(processes[i].state)}
    /\ Goto("detect")
    /\ UNCHANGED <<tableVars, managerVars, scratch>>

BeginCycle ==
    /\ In("sleep")
    /\ todo' = ProcessId
    /\ Goto("detect")
    /\ UNCHANGED <<tableVars, managerVars, scratch>>

-----------------------------------------------------------------------------
(* Phase 1: exits are detected and decided on.                             *)

BaseState(p) == IF os[p.child] = "ok" THEN "Stopped" ELSE "Crashed"

RestartTriggered(p) ==
    p.config.restart_on_exit /\ should_restart(p.config.restart_trigger, BaseState(p))

\* Mutant: an exit that is followed by a restart is reported as such.
EventStateRestarting(p) == IF RestartTriggered(p) THEN "Restarting" ELSE BaseState(p)

EventState(p) ==
    IF p.cascade_flag THEN "Stopped"
    ELSE IF RestartTriggered(p) /\ p.config.backoff /\ is_rate_limited(p)
    THEN "Failed" ELSE BaseState(p)

\* Mutant: restarted although the limit has been reached.
RestartsRegardless(p) ==
    IF p.cascade_flag THEN p.config.restart_on_exit ELSE RestartTriggered(p)

WillRestart(p) ==
    IF p.cascade_flag THEN p.config.restart_on_exit
    ELSE RestartTriggered(p) /\ EventState(p) # "Failed"

StartsCascade(p) ==
    ~p.cascade_flag /\ WillRestart(p) /\ p.config.supervisor_strategy # "OneForOne"

DetectExit(i) ==
    LET p == check_stable_uptime(processes[i]) IN
    /\ In("detect")
    /\ i \in todo \cap Present
    /\ Free(i)
    /\ p.state # "Restarting"
    /\ Exited(p.child)
    /\ exited' = [exited EXCEPT ![i] = [pid |-> p.pid, state |-> EventState(p),
                                        restart |-> WillRestart(p)]]
    /\ origins' = IF StartsCascade(p)
                  THEN origins \cup {[id |-> i, label |-> p.config.label,
                                      seq |-> p.spawn_sequence,
                                      strategy |-> p.config.supervisor_strategy]}
                  ELSE origins
    /\ Put(i, [p EXCEPT !.cascade_flag = FALSE])
    /\ reaped' = reaped \cup {p.child}
    /\ todo' = todo \ {i}
    /\ UNCHANGED <<next_id, next_spawn_sequence, locks, os, doomed, eventVars,
                   managerVars, rpc, cur, to_spawn, to_fail>>

DetectAlive(i) ==
    LET p == check_stable_uptime(processes[i]) IN
    /\ In("detect")
    /\ i \in todo \cap Present
    /\ Free(i)
    /\ p.state = "Restarting" \/ ~Exited(p.child)
    /\ Put(i, IF p.state = "Starting" THEN [p EXCEPT !.state = "Running"] ELSE p)
    /\ todo' = todo \ {i}
    /\ UNCHANGED <<next_id, next_spawn_sequence, locks, osVars, eventVars,
                   managerVars, rpc, scratch>>

EndDetect ==
    /\ In("detect")
    /\ todo \cap Present = {}
    /\ todo' = {}
    /\ Goto(IF origins # {} THEN "cascade"
            ELSE IF exited # NoneExited THEN "remove" ELSE "eligible")
    /\ UNCHANGED <<tableVars, managerVars, scratch>>

-----------------------------------------------------------------------------
(* Phase 1b: the cascade of a OneForAll or RestForOne crash.               *)

\* Mutant: the label of the group is not compared.
TargetsOfAnyGroup ==
    {i \in InState({"Running", "Starting"}) :
        \E o \in origins : i # o.id /\ (o.strategy = "RestForOne"
                                          => processes[i].spawn_sequence > o.seq)}

\* A set: flagging a process twice is flagging it once.
CascadeTargets ==
    {i \in InState({"Running", "Starting"}) :
        \E o \in origins :
            /\ i # o.id
            /\ processes[i].config.label = o.label
            /\ \/ o.strategy = "OneForAll"
               \/ /\ o.strategy = "RestForOne"
                  /\ processes[i].spawn_sequence > o.seq}

CollectTargets ==
    /\ In("cascade")
    /\ AllFree
    /\ Collect(CascadeTargets, "flag", "remove")
    /\ UNCHANGED <<tableVars, managerVars, scratch>>

FlagTarget(i) ==
    LET p == processes[i] IN
    /\ In("flag")
    /\ i \in todo
    /\ Free(i)
    /\ IF p # NoProcess /\ p.pid # 0
       THEN Put(i, Flagged(p)) /\ doomed' = doomed \cup send_signal(p)
       ELSE UNCHANGED <<processes, doomed>>
    /\ Done(i, "remove")
    /\ UNCHANGED <<next_id, next_spawn_sequence, locks, os, reaped, eventVars,
                   managerVars, scratch>>

-----------------------------------------------------------------------------
(* Phases 2 and 3: exits are reported, restarts scheduled.                 *)

ToRestart == {i \in ProcessId : exited[i] # NoProcess /\ exited[i].restart}

\* Mutant: a process that has exited and failed stays in the map.
FailedNotRemoved ==
    {i \in ProcessId : exited[i] # NoProcess /\ ~exited[i].restart
                         /\ exited[i].state # "Failed"}

ToRemove == {i \in ProcessId : exited[i] # NoProcess /\ ~exited[i].restart}

RemoveExited ==
    /\ In("remove")
    /\ \A i \in ToRemove : Free(i)
    /\ processes' = [i \in ProcessId |-> IF i \in ToRemove THEN NoProcess
                                         ELSE processes[i]]
    /\ origins' = {}
    /\ Goto("emit")
    /\ UNCHANGED <<next_id, next_spawn_sequence, locks, osVars, eventVars,
                   managerVars, todo, cur, exited, to_spawn, to_fail>>

\* Mutant: an exit that is followed by a restart is not reported.
FinalExits == ToRemove

ToReport == {i \in ProcessId : exited[i] # NoProcess}

\* A closed channel ends the thread.
EmitEvents ==
    /\ In("emit")
    /\ IF chan_open
       THEN /\ events' = [i \in ProcessId |->
                  IF i \in ToReport
                  THEN Append(events[i], [pid |-> exited[i].pid,
                                          state |-> exited[i].state,
                                          exited |-> TRUE])
                  ELSE events[i]]
            /\ Collect(ToRestart, "schedule", "eligible")
       ELSE Goto("done") /\ UNCHANGED <<events, todo>>
    /\ exited' = NoneExited
    /\ UNCHANGED <<mapVars, locks, osVars, chan_open, managerVars, cur, origins,
                   to_spawn, to_fail>>

ScheduleRestart(i) ==
    LET p == processes[i] IN
    /\ In("schedule")
    /\ i \in todo
    /\ Free(i)
    /\ IF p = NoProcess THEN UNCHANGED <<processes, reaped>>
       ELSE /\ ~Alive(p.child)
            /\ Put(i, Scheduled(p))
            /\ reaped' = reaped \cup Collected(p)
    /\ Done(i, "eligible")
    /\ UNCHANGED <<next_id, next_spawn_sequence, locks, os, doomed, eventVars,
                   managerVars, scratch>>

\* The entry holds a new child by now: wait() blocks under its guard.
ScheduleBlocks(i) ==
    /\ In("schedule")
    /\ i \in todo \cap Present
    /\ Free(i)
    /\ Alive(processes[i].child)
    /\ cur' = i
    /\ locks' = locks \cup {Shard[i]}
    /\ Goto("schedule_wait")
    /\ UNCHANGED <<mapVars, osVars, eventVars, managerVars, todo, exited, origins,
                   to_spawn, to_fail>>

ScheduleResumes ==
    LET p == processes[cur] IN
    /\ In("schedule_wait")
    /\ ~Alive(p.child)
    /\ Put(cur, Scheduled(p))
    /\ reaped' = reaped \cup Collected(p)
    /\ locks' = locks \ {Shard[cur]}
    /\ todo' = todo \ {cur}
    /\ Goto(IF todo = {cur} THEN "eligible" ELSE "schedule")
    /\ cur' = 0
    /\ UNCHANGED <<next_id, next_spawn_sequence, os, doomed, eventVars, managerVars,
                   exited, origins, to_spawn, to_fail>>

-----------------------------------------------------------------------------
(* Phase 4: perform_restart().                                             *)

CollectEligible ==
    /\ In("eligible")
    /\ AllFree
    /\ Collect({i \in InState({"Restarting"}) : is_eligible_for_restart(processes[i])},
               "restart", "waiting")
    /\ UNCHANGED <<tableVars, managerVars, scratch>>

\* A process that cannot be spawned is removed and reported as Failed.
RemoveFailed(i) ==
    /\ Put(i, NoProcess)
    /\ Emit(i, processes[i].pid, "Failed")

\* perform_restart() holds the guard of its own entry while it resolves the
\* labels: an iteration that meets no match before its own shard, and
\* a dependency in that shard, block the thread on itself.
Below(i) == {d \in ProcessId : Shard[d] < Shard[i]}

NoMatchBelow(i, depends_on) ==
    \E k \in DOMAIN depends_on :
        /\ depends_on[k].kind = "Label"
        /\ Matches(depends_on[k].target, {"Starting", "Running"}) \cap Below(i) = {}

BindingsBelow(i, depends_on) ==
    {s \in resolve_dependencies(depends_on) :
        \A k \in DOMAIN s : depends_on[k].kind = "Label" => s[k] \in Below(i)}

OwnShard(i, deps) == \E d \in Visited(deps) : Shard[d] = Shard[i]

\* The entry vanished since it was collected.
RestartSkips(i) ==
    /\ In("restart")
    /\ i \in todo \ Present
    /\ Done(i, "waiting")
    /\ UNCHANGED <<tableVars, managerVars, scratch>>

RestartSpawns(i) ==
    LET p == processes[i]  depends_on == p.config.depends_on IN
    /\ In("restart")
    /\ i \in todo \cap Present
    /\ Free(i)
    /\ depends_on # <<>> => AllFree /\ ~NoMatchBelow(i, depends_on)
    /\ \E deps \in BindingsBelow(i, depends_on) :
        /\ ~OwnShard(i, deps)
        /\ all_deps_running(deps)
        /\ \/ \E q \in Pid :
                /\ SpawnOk(q)
                /\ processes' = [PollAll(Visited(deps)) EXCEPT
                      ![i] = Respawned(p, q, IF deps = <<>> THEN p.resolved_deps
                                             ELSE deps)]
                /\ UNCHANGED events
           \/ /\ SpawnFails
              /\ processes' = [PollAll(Visited(deps)) EXCEPT ![i] = NoProcess]
              /\ Emit(i, p.pid, "Failed")
        /\ reaped' = reaped \cup PollAllReaps(Visited(deps))
    /\ Done(i, "waiting")
    /\ UNCHANGED <<next_id, next_spawn_sequence, locks, doomed, chan_open,
                   managerVars, scratch>>

RestartWaits(i) ==
    LET p == processes[i]  depends_on == p.config.depends_on IN
    /\ In("restart")
    /\ i \in todo \cap Present
    /\ AllFree
    /\ ~NoMatchBelow(i, depends_on)
    /\ \E deps \in BindingsBelow(i, depends_on) :
        /\ ~OwnShard(i, deps)
        /\ ~all_deps_running(deps)
        /\ processes' = [PollAll(Visited(deps)) EXCEPT ![i] = Requeued(p, deps)]
        /\ reaped' = reaped \cup PollAllReaps(Visited(deps))
    /\ Done(i, "waiting")
    /\ UNCHANGED <<next_id, next_spawn_sequence, locks, os, doomed, eventVars,
                   managerVars, scratch>>

RestartWedges(i) ==
    LET depends_on == processes[i].config.depends_on IN
    /\ In("restart")
    /\ i \in todo \cap Present
    /\ AllFree
    /\ \/ NoMatchBelow(i, depends_on)
       \/ \E deps \in BindingsBelow(i, depends_on) : OwnShard(i, deps)
    /\ locks' = locks \cup {Shard[i]}
    /\ Goto("wedged")
    /\ UNCHANGED <<mapVars, osVars, eventVars, managerVars, todo, scratch>>

-----------------------------------------------------------------------------
(* Phase 5: Waiting processes are bound, spawned, or failed.               *)

CollectWaiting ==
    /\ In("waiting")
    /\ AllFree
    /\ Collect(InState({"Waiting"}), "check", "running")
    /\ UNCHANGED <<tableVars, managerVars, scratch>>

AllRunning(deps) ==
    \A k \in DOMAIN deps :
        processes[deps[k]] # NoProcess /\ processes[deps[k]].state = "Running"

\* The dependencies no resolved id stands for yet.
Unresolved(p) ==
    {k \in DOMAIN p.config.depends_on :
        LET d == p.config.depends_on[k] IN
        ~ \E j \in DOMAIN p.resolved_deps :
            IF d.kind = "Id" THEN p.resolved_deps[j] = d.target
            ELSE p.resolved_deps[j] \in Labelled(d.target)}

\* Those of them that can be bound now, and the ids each may be bound to.
Candidates(d) == IF d.kind = "Id" THEN {d.target} ELSE Matches(d.target, {"Running"})

Bindable(p) == {k \in Unresolved(p) : Candidates(p.config.depends_on[k]) # {}}

\* newly_resolved: one id for each bindable dependency.
NewlyResolved(p) ==
    {s \in [1 .. Cardinality(Bindable(p)) -> ProcessId] :
        \E place \in [Bindable(p) -> DOMAIN s] :
            /\ \A j, k \in Bindable(p) : j < k => place[j] < place[k]
            /\ \A k \in Bindable(p) : s[place[k]] \in Candidates(p.config.depends_on[k])}

\* Mutant: one dependency that is bound is enough.
SomeResolved(p) == p.resolved_deps # <<>> \/ p.config.depends_on = <<>>

AllResolved(p) == Len(p.resolved_deps) = Len(p.config.depends_on)

\* Mutant: a process that must fail is put on no list.
NeverFails(i, spawn, fail) ==
    /\ to_spawn' = IF spawn THEN to_spawn \cup {i} ELSE to_spawn
    /\ UNCHANGED to_fail
    /\ todo' = todo \ {i}
    /\ Goto(IF todo # {i} THEN "check"
            ELSE IF to_spawn' # {} THEN "spawn" ELSE "running")

\* What becomes of a Waiting process: the lists it is put on.
NextCheck(i, spawn, fail) ==
    /\ to_spawn' = IF spawn THEN to_spawn \cup {i} ELSE to_spawn
    /\ to_fail' = IF fail THEN to_fail \cup {i} ELSE to_fail
    /\ todo' = todo \ {i}
    /\ Goto(IF todo # {i} THEN "check"
            ELSE IF to_spawn' # {} THEN "spawn"
            ELSE IF to_fail' # {} THEN "fail" ELSE "running")

CheckWaiting(i) ==
    LET p == processes[i] IN
    /\ In("check")
    /\ i \in todo
    /\ AllFree
    /\ IF p = NoProcess THEN NextCheck(i, FALSE, FALSE) /\ UNCHANGED processes
       ELSE IF p.expired THEN NextCheck(i, FALSE, TRUE) /\ UNCHANGED processes
       ELSE IF AllResolved(p) \/ Bindable(p) = {}
       THEN /\ NextCheck(i, AllResolved(p) /\ AllRunning(p.resolved_deps),
                         /\ ~(AllResolved(p) /\ AllRunning(p.resolved_deps))
                         /\ any_dep_terminal(p.resolved_deps))
            /\ UNCHANGED processes
       ELSE \E newly \in NewlyResolved(p) :
              LET bound == [p EXCEPT !.resolved_deps = @ \o newly] IN
              /\ Put(i, bound)
              /\ NextCheck(i, AllResolved(bound) /\ AllRunning(bound.resolved_deps),
                           FALSE)
    /\ UNCHANGED <<next_id, next_spawn_sequence, locks, osVars, eventVars,
                   managerVars, cur, exited, origins>>

\* The lists are worked through without another look at the state.
SpawnWaiting(i) ==
    LET p == processes[i] IN
    /\ In("spawn")
    /\ i \in to_spawn
    /\ Free(i)
    /\ IF p = NoProcess THEN UNCHANGED <<processes, os, events>>
       ELSE \/ \E q \in Pid : /\ SpawnOk(q)
                              /\ Put(i, SpawnedWaiting(p, q))
                              /\ UNCHANGED events
            \/ SpawnFails /\ RemoveFailed(i)
    /\ to_spawn' = to_spawn \ {i}
    /\ Goto(IF to_spawn # {i} THEN "spawn"
            ELSE IF to_fail # {} THEN "fail" ELSE "running")
    /\ UNCHANGED <<next_id, next_spawn_sequence, locks, reaped, doomed, chan_open,
                   managerVars, todo, cur, exited, origins, to_fail>>

FailWaiting(i) ==
    /\ In("fail")
    /\ i \in to_fail
    /\ Free(i)
    /\ IF processes[i] = NoProcess
       THEN UNCHANGED <<processes, events>> /\ Goto(IF to_fail = {i} THEN "running" ELSE rpc)
       ELSE /\ RemoveFailed(i)
            /\ Goto(IF ~chan_open THEN "done"
                    ELSE IF to_fail = {i} THEN "running" ELSE rpc)
    /\ to_fail' = to_fail \ {i}
    /\ UNCHANGED <<next_id, next_spawn_sequence, locks, osVars, chan_open,
                   managerVars, todo, cur, exited, origins, to_spawn>>

-----------------------------------------------------------------------------
(* Phase 6: Running processes whose dependency is gone are failed.         *)

CollectRunning ==
    /\ In("running")
    /\ AllFree
    /\ Collect({i \in InState({"Running"}) : processes[i].resolved_deps # <<>>},
               "failfast", AfterCycle)
    /\ UNCHANGED <<tableVars, managerVars, scratch>>

\* Killed and removed at once: nobody waits for the child.
FailRunning(i) ==
    LET p == processes[i] IN
    /\ In("failfast")
    /\ i \in todo
    /\ AllFree
    /\ IF p = NoProcess THEN UNCHANGED <<processes, doomed, events>> /\ Done(i, AfterCycle)
       ELSE IF ~any_dep_terminal(p.resolved_deps)
       THEN UNCHANGED <<processes, doomed, events>> /\ Done(i, AfterCycle)
       ELSE /\ RemoveFailed(i)
            /\ doomed' = doomed \cup send_signal(p)
            /\ IF chan_open THEN Done(i, AfterCycle)
               ELSE Goto("done") /\ UNCHANGED todo
    /\ UNCHANGED <<next_id, next_spawn_sequence, locks, os, reaped, chan_open,
                   managerVars, scratch>>

-----------------------------------------------------------------------------
ReaperNext ==
    \/ BeginCycle \/ EndDetect \/ CollectTargets \/ RemoveExited \/ EmitEvents
    \/ CollectEligible \/ CollectWaiting \/ CollectRunning \/ ScheduleResumes
    \/ \E i \in ProcessId :
        \/ DetectExit(i) \/ DetectAlive(i) \/ FlagTarget(i)
        \/ ScheduleRestart(i) \/ ScheduleBlocks(i)
        \/ RestartSkips(i) \/ RestartSpawns(i) \/ RestartWaits(i) \/ RestartWedges(i)
        \/ CheckWaiting(i) \/ SpawnWaiting(i) \/ FailWaiting(i) \/ FailRunning(i)
=============================================================================
