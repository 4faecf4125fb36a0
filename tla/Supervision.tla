---------------------------- MODULE Supervision -----------------------------
(***************************************************************************)
(* The whole system: client threads calling the manager, the reaper        *)
(* thread, the children, and the clock; and what is expected of it.        *)
(***************************************************************************)
EXTENDS ReaperLoop

vars == <<tableVars, managerVars, reaperVars>>

TypeOK == TableTypeOK /\ ManagerTypeOK /\ ReaperTypeOK

Init == TableInit /\ ManagerInit /\ ReaperInit

-----------------------------------------------------------------------------
(* The clock.  Phase 1 and Phase 4 read it once, before the cycle; the     *)
(* dependency timeout is read when it is tested.                           *)

BackoffElapses(i) ==
    /\ In("sleep")
    /\ i \in Present
    /\ processes[i].backoff = "pending"
    /\ Put(i, [processes[i] EXCEPT !.backoff = "elapsed"])
    /\ UNCHANGED <<next_id, next_spawn_sequence, locks, osVars, eventVars,
                   managerVars, reaperVars>>

\* Only a count above 0 is ever reset by it.
UptimeReached(i) ==
    /\ In("sleep")
    /\ i \in InState({"Starting", "Running"})
    /\ processes[i].config.backoff
    /\ processes[i].restart_count > 0
    /\ ~processes[i].stable
    /\ Put(i, [processes[i] EXCEPT !.stable = TRUE])
    /\ UNCHANGED <<next_id, next_spawn_sequence, locks, osVars, eventVars,
                   managerVars, reaperVars>>

DependencyExpires(i) ==
    /\ i \in InState({"Waiting"})
    /\ ~processes[i].expired
    /\ Put(i, [processes[i] EXCEPT !.expired = TRUE])
    /\ UNCHANGED <<next_id, next_spawn_sequence, locks, osVars, eventVars,
                   managerVars, reaperVars>>

Exits(q) == ChildExits(q) /\ UNCHANGED <<managerVars, reaperVars>>

\* What the client threads do leaves the reaper's own variables alone.
Calls(t) == CallNext(t) /\ UNCHANGED <<todo, scratch>>
Steps(t) == StepNext(t) /\ UNCHANGED <<todo, scratch>>

Closes == CloseChannel /\ UNCHANGED <<todo, scratch>>

Next ==
    \/ \E t \in Threads : Calls(t) \/ Steps(t)
    \/ ReaperNext
    \/ \E q \in Pid : Exits(q)
    \/ \E i \in ProcessId : BackoffElapses(i) \/ UptimeReached(i) \/ DependencyExpires(i)
    \/ Closes

Spec == Init /\ [][Next]_vars

\* The threads are scheduled, time passes, and a child that has been sent a
\* fatal signal dies.  Nothing else has to exit, and no call has to be made.
Fairness ==
    /\ WF_vars(ReaperNext)
    /\ \A t \in Threads : WF_vars(Steps(t))
    /\ \A q \in Pid : WF_vars(q \in doomed /\ Exits(q))
    /\ \A i \in ProcessId : WF_vars(BackoffElapses(i)) /\ WF_vars(DependencyExpires(i))

FairSpec == Spec /\ Fairness

-----------------------------------------------------------------------------
(* Safety                                                                  *)

\* The state of a managed process agrees with the handle it holds, whichever
\* thread changed it last: while it is Starting, Running or Stopping there is
\* a child to wait for, and while it is Waiting or Restarting none is left
\* behind.  restart() breaks this between its reset and its spawn.
HandleMatchesState ==
    \A i \in Present : LET p == processes[i] IN
        /\ p.child \in {0, p.pid}
        /\ p.state \in {"Starting", "Running", "Stopping", "Stopped", "Crashed"}
             => p.child # 0
        /\ p.state \in {"Waiting", "Restarting"} => p.child = 0

\* The children that the map or a call in progress can still wait for.
Owned(q) ==
    \/ \E i \in Present : processes[i].child = q
    \/ \E t \in Threads : \E i \in Held(t) : calls[t].held[i].child = q

\* No child outlives its record: one that is alive and has not been killed
\* is in the map, or in the hands of a call, so that it can be stopped.
NoOrphan == \A q \in Pid : Alive(q) => q \in doomed \/ Owned(q)

\* However many clients stop and restart it, a process has one record, which
\* is in the map or in the hands of a single call.
OneRecord ==
    \A t \in Threads : \A i \in Held(t) :
        i \notin Present /\ \A u \in Threads \ {t} : i \notin Held(u)

\* No two processes have the same spawn_sequence, whether start() or
\* restart() gave it: "started after" is a strict order for RestForOne.
SpawnOrderStrict ==
    \A i, j \in Present :
        processes[i].spawn_sequence = processes[j].spawn_sequence => i = j

\* However the reaper's phases and the clients' calls interleave, the exit
\* of a child is reported at most once.
ExitReportedOnce ==
    \A i, j \in ProcessId : \A a \in DOMAIN events[i], b \in DOMAIN events[j] :
        /\ events[i][a].exited /\ events[j][b].exited
        /\ events[i][a].pid = events[j][b].pid
        => i = j /\ a = b

\* A Failed event is the last one its process gets.
FailedIsFinal ==
    \A i \in ProcessId : \A k \in DOMAIN events[i] :
        events[i][k].state = "Failed" => k = Len(events[i])

\* Between two stable uptimes a process under OneForOne with a backoff is
\* restarted at most max_restarts times.
RestartsBounded ==
    \A i \in Present : LET p == processes[i] IN
        p.config.backoff /\ p.config.supervisor_strategy = "OneForOne"
            => p.restart_count <= p.config.max_restarts

\* A spawned process has every dependency bound: as many ids as it has
\* dependencies and, while they are all still there, one for each of them.
DependenciesBound ==
    \A i \in InState({"Starting", "Running", "Stopping"}) : LET p == processes[i] IN
        /\ Len(p.resolved_deps) = Len(p.config.depends_on)
        /\ (\A k \in DOMAIN p.resolved_deps : p.resolved_deps[k] \in Present)
             => Unresolved(p) = {}

\* What may fulfil a dependency: the process it names, or any of the label.
Carriers(d) == IF d.kind = "Id" THEN {d.target} \cap Present ELSE Labelled(d.target)

\* Waiting processes each of which needs what only they themselves can be.
WaitInACircle(S) ==
    \A i \in S : \E k \in DOMAIN processes[i].config.depends_on :
        LET carriers == Carriers(processes[i].config.depends_on[k]) IN
        carriers # {} /\ carriers \subseteq S

\* No processes wait for one another: start() refuses the one that would
\* close the circle.
NoCircularWait ==
    \A S \in SUBSET InState({"Waiting"}) : S # {} => ~WaitInACircle(S)

Dropped == dropping /\ \A t \in Threads : At(t, "idle")

\* After Drop the only children alive are those on their way out, those that
\* were not to be terminated, and those that may not be killed.
DropStopsAll ==
    Dropped => \A q \in Pid : Alive(q) =>
        \/ q \in doomed
        \/ \E i \in Present : LET p == processes[i] IN
              p.child = q /\ (p.config.terminate_on_exit => p.state = "Failed")

\* The reaper polls and never waits: neither for the guard of an entry it
\* holds itself nor, with that guard held, for a child that goes on running.
ReaperNeverBlocks == rpc \notin {"wedged", "schedule_wait"}

\* The cascade flag does not outlive the cascade.
FlagResetOnRestart == \A i \in InState({"Starting"}) : ~processes[i].cascade_flag

-----------------------------------------------------------------------------
(* What a step may never do                                                *)

\* A cascade reaches no process of another group, and under RestForOne none
\* that was started before the one that crashed.
CascadeStaysInGroup ==
    [][\A i \in Present :
        processes'[i] # NoProcess /\ ~processes[i].cascade_flag =>
          (processes'[i].cascade_flag =>
             \E o \in origins :
                /\ o.id # i
                /\ o.label = processes[i].config.label
                /\ o.strategy = "RestForOne" => processes[i].spawn_sequence > o.seq)]_vars

\* Signalling one process kills no other.
SignalIsTargeted ==
    [][\A t \in Threads, i \in ProcessId :
        SendSignal(t, i) => doomed' \subseteq doomed \cup {processes[i].pid}]_vars

-----------------------------------------------------------------------------
(* Liveness                                                                *)

\* The reaper notices every exit of a managed process, until it is stopped.
ExitNoticed ==
    \A i \in ProcessId, q \in Pid :
        (i \in Present /\ processes[i].child = q /\ Exited(q))
            ~> ~(i \in Present /\ processes[i].child = q) \/ dropping

\* Every call returns.
CallsReturn == \A t \in Threads : ~At(t, "idle") ~> At(t, "idle")

\* A process stopped by a cascade gets past Stopping.
CascadeEnds == \A i \in ProcessId : i \in InState({"Stopping"}) ~> i \notin InState({"Stopping"})

\* Waiting ends: the process is spawned, failed or stopped.
WaitingEnds ==
    \A i \in ProcessId :
        i \in InState({"Waiting"}) ~> i \notin InState({"Waiting"}) \/ dropping

\* A Running process does not stay when a process it is bound to is gone.
Abandoned(i) ==
    /\ i \in InState({"Running"})
    /\ \E k \in DOMAIN processes[i].resolved_deps :
          processes[processes[i].resolved_deps[k]] = NoProcess

DependentsFollow == \A i \in ProcessId : Abandoned(i) ~> ~Abandoned(i) \/ dropping
=============================================================================
