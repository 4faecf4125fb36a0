----------------------------- MODULE OrphanProofs -----------------------------
(***************************************************************************)
(* No child is lost: as long as nobody calls restart() or stop(), and      *)
(* a process that depends on another dies of its kill signal, every child  *)
(* that runs and has not been killed is in the map or in the hands of      *)
(* a call, and Drop leaves none that it should have ended.                 *)
(*                                                                         *)
(* A record goes in a handful of ways, and each has a reason why no child  *)
(* is lost with it that lies several steps back: the child had exited, or  *)
(* the process had none, or a signal has been sent to it.  FateStep says   *)
(* so of every step; the invariants keep the reasons until then.           *)
(*                                                                         *)
(* restart() and stop() lose no child either where clients are by          *)
(* themselves, without a reaper and without dependencies.                  *)
(***************************************************************************)
EXTENDS LifecycleProofs

USE DEF mapVars, osVars, eventVars, tableVars, managerVars, scratch

\* Phase 6 sends its kill signal once and removes the entry at once, which
\* must be enough.
DependentsDie == \A c \in Configs : c.depends_on # <<>> => c.on_kill = "dies"

\* A process with a binding has dependencies, so Phase 6 kills only those.
Bound(p) == p.resolved_deps # <<>> => p.config.depends_on # <<>>

BoundInv ==
    /\ \A i \in Present : Bound(processes[i])
    /\ \A t \in Threads : \A i \in Held(t) : Bound(InHand(t, i))

ManyStep == {"many_remove", "many_signal", "many_grace", "many_reap"}

\* The child is dead, or will be, or SIGKILL is refused.
Handled(p) ==
    Alive(p.child) => p.child \in doomed \/ p.config.on_kill = "denied"

\* What stop_many() has taken out of the map it does not let go of before it
\* has been killed.
ManyOf(t) ==
    /\ calls[t].pc \notin ManyStep => calls[t].held = NoneHeld
    /\ At(t, "many_grace") => \A i \in Held(t) : InHand(t, i).state = "Stopping"
    /\ At(t, "many_reap") => \A i \in Held(t) : Handled(InHand(t, i))

ManyInv == \A t \in Threads : ManyOf(t)

\* What Phase 5 is about to fail has no child, and is not spawned before.
WaitPhase == {"check", "spawn", "fail"}

FailInv ==
    /\ rpc \in WaitPhase =>
          \A i \in to_fail :
             Childless(i) /\ i \notin to_spawn /\ (rpc = "check" => i \notin todo)
    /\ rpc = "check" => todo \cap to_spawn = {}
    /\ rpc \notin WaitPhase \cup {"done"} => to_fail = {}

-----------------------------------------------------------------------------
(* What becomes of the entries of the map.                                 *)

\* No child that could still be stopped goes with this record.
Gone(p) == Alive(p.child) => p.child \in doomed'

Fate(i) ==
    /\ i \in Present' => Bound(processes'[i])
    /\ i \in Present => i \in Present' \/ InHands(i)' \/ Gone(processes[i])

MapFate == \A i \in ProcessId : Fate(i)

LEMMA SameFate ==
    ASSUME BoundInv, NEW i \in ProcessId, processes'[i] = processes[i]
    PROVE  Fate(i)
BY DEF Fate, BoundInv, Present

LEMMA PutFate ==
    ASSUME TypeInv, BoundInv, NEW i, NEW p, Put(i, p),
           i \in ProcessId => \/ p # NoProcess /\ Bound(p)
                              \/ p = NoProcess /\ (i \in Present => Gone(processes[i]))
    PROVE  MapFate
<1>1. ASSUME NEW j \in ProcessId
      PROVE  Fate(j)
    <2>1. processes'[j] = IF j = i THEN p ELSE processes[j]
        BY DEF Put, TypeInv, TableTypeOK
    <2>2. CASE j = i
        BY <2>1, <2>2 DEF Fate, Present
    <2>. QED  BY <2>1, <2>2, SameFate
<1>. QED  BY <1>1 DEF MapFate

LEMMA PollFate ==
    ASSUME TypeInv, BoundInv, NEW S, NEW j \in ProcessId, processes'[j] = PollAll(S)[j]
    PROVE  Fate(j)
<1>1. CASE processes[j] = NoProcess
    BY <1>1 DEF PollAll, Fate, Present
<1>2. CASE processes[j] # NoProcess
    <2>1. processes[j] \in Process /\ Bound(processes[j])
        BY <1>2 DEF TypeInv, TableTypeOK, BoundInv, Present
    <2>2. Polled(processes[j]) \in Process /\ Bound(Polled(processes[j]))
        BY <2>1, PolledType DEF Polled, Bound, Process
    <2>3. processes'[j] \in {processes[j], Polled(processes[j])}
        BY DEF PollAll
    <2>. QED  BY <2>1, <2>2, <2>3, NoneIsNoProcess DEF Fate, Present
<1>. QED  BY <1>1, <1>2

LEMMA PollAllFate ==
    ASSUME TypeInv, BoundInv, NEW S, NEW i \in ProcessId, NEW p,
           processes' = [PollAll(S) EXCEPT ![i] = p],
           \/ p # NoProcess /\ Bound(p)
           \/ p = NoProcess /\ (i \in Present => Gone(processes[i]))
    PROVE  MapFate
<1>1. DOMAIN PollAll(S) = ProcessId
    BY DEF PollAll
<1>2. processes'[i] = p /\ \A j \in ProcessId \ {i} : processes'[j] = PollAll(S)[j]
    BY <1>1 DEF PollAll
<1>3. Fate(i)
    BY <1>2 DEF Fate, Present
<1>. QED  BY <1>2, <1>3, PollFate DEF MapFate

\* A process without dependencies is bound to nothing.
LEMMA BindingBound ==
    ASSUME NEW c \in Configs, NEW deps \in resolve_dependencies(c.depends_on), deps # <<>>
    PROVE  c.depends_on # <<>>
<1>1. SUFFICES ASSUME c.depends_on = <<>>
               PROVE  deps = <<>>
    OBVIOUS
<1>2. DOMAIN c.depends_on = {}
    BY <1>1
<1>3. deps = <<>> \/ DOMAIN deps = {}
    BY <1>2 DEF resolve_dependencies
<1>4. deps \in Seq(ProcessId)
    BY BindingType
<1>. QED  BY <1>3, <1>4

\* What the steps make of an entry, without another binding.
LEMMA BoundEdits ==
    ASSUME NEW p \in Process, Bound(p)
    PROVE  /\ \A s : Bound([p EXCEPT !.state = s])
           /\ \A f : Bound([p EXCEPT !.cascade_flag = f])
           /\ Bound([p EXCEPT !.backoff = "elapsed"])
           /\ Bound([p EXCEPT !.stable = TRUE])
           /\ Bound([p EXCEPT !.expired = TRUE])
           /\ Bound(Polled(p)) /\ Bound(Flagged(p)) /\ Bound(check_stable_uptime(p))
           /\ \A q : Bound(SpawnedWaiting(p, q))
<1>1. Bound(Polled(p)) /\ Bound(Flagged(p)) /\ Bound(check_stable_uptime(p))
    BY DEF Polled, Flagged, check_stable_uptime, Bound, Process
<1>2. \A q : Bound(SpawnedWaiting(p, q))
    BY DEF SpawnedWaiting, Bound, Process
<1>. QED  BY <1>1, <1>2 DEF Bound, Process

LEMMA ScheduledBound ==
    ASSUME NEW p \in Process, Bound(p)
    PROVE  Bound(Scheduled(p))
<1>1. /\ Scheduled(p).resolved_deps = p.resolved_deps
      /\ Scheduled(p).config = p.config
    BY DEF Scheduled, Process
<1>. QED  BY <1>1 DEF Bound

-----------------------------------------------------------------------------
(* What the reaper makes of an entry.                                      *)

LEMMA DetectFate ==
    ASSUME TypeInv, BoundInv, NEW i \in ProcessId, DetectExit(i) \/ DetectAlive(i)
    PROVE  MapFate
<1>. DEFINE p == check_stable_uptime(processes[i])
<1>1. processes[i] \in Process /\ Bound(processes[i])
    BY PresentProcess DEF DetectExit, DetectAlive, TypeInv, BoundInv
<1>2. p \in Process /\ Bound(p)
    BY <1>1, StableUptimeType, BoundEdits
<1>3. \/ Put(i, [p EXCEPT !.cascade_flag = FALSE])
      \/ Put(i, [p EXCEPT !.state = "Running"])
      \/ Put(i, p)
    BY DEF DetectExit, DetectAlive
<1>. HIDE DEF p
<1>4. /\ [p EXCEPT !.cascade_flag = FALSE] \in Process
      /\ [p EXCEPT !.state = "Running"] \in Process
    BY <1>2 DEF Process, ProcessState
<1>5. Bound([p EXCEPT !.cascade_flag = FALSE]) /\ Bound([p EXCEPT !.state = "Running"])
    BY <1>2, BoundEdits
<1>. QED  BY <1>2, <1>3, <1>4, <1>5, PutFate, NoneIsNoProcess

LEMMA ReaperEditFate ==
    ASSUME TypeInv, BoundInv, NEW i \in ProcessId,
           \/ UNCHANGED processes
           \/ Put(i, Flagged(processes[i])) /\ i \in Present
           \/ Put(i, Scheduled(processes[i])) /\ i \in Present
    PROVE  MapFate
<1>1. CASE UNCHANGED processes
    BY <1>1, SameFate DEF MapFate
<1>2. CASE i \in Present
    <2>1. processes[i] \in Process /\ Bound(processes[i])
        BY <1>2, PresentProcess DEF TypeInv, BoundInv
    <2>2. /\ Flagged(processes[i]) \in Process /\ Bound(Flagged(processes[i]))
          /\ Scheduled(processes[i]) \in Process /\ Bound(Scheduled(processes[i]))
        BY <2>1, FlaggedType, ScheduledType, BoundEdits, ScheduledBound
    <2>. QED  BY <1>1, <2>2, PutFate, NoneIsNoProcess
<1>. QED  BY <1>1, <1>2

\* A process that is restarted, or waits, has no child to lose.
LEMMA ChildlessGone ==
    ASSUME NEW i \in Present, \A p : Record(i, p) => p.child = 0
    PROVE  Gone(processes[i])
BY DEF Record, Gone, Alive

LEMMA RemoveExitedFate ==
    ASSUME LInv, BoundInv, RemoveExited
    PROVE  MapFate
<1>. USE DEF LInv, NInv, IInv
<1>1. ASSUME NEW i \in ProcessId
      PROVE  Fate(i)
    <2>1. CASE i \in ToRemove
        <3>1. processes'[i] = NoProcess /\ Found(i)
            BY <2>1 DEF RemoveExited, ToRemove, Found
        <3>2. ASSUME i \in Present
              PROVE  Gone(processes[i])
            <4>1. processes[i].child = exited[i].pid
                BY <3>1, <3>2 DEF OverInv, FoundRecords, Record
            <4>2. exited[i].pid \in Dead
                BY <3>1 DEF ReportInv, FoundOnce, HandleInv
            <4>. QED  BY <4>1, <4>2 DEF Gone, Alive, Dead
        <3>. QED  BY <3>1, <3>2 DEF Fate, Present
    <2>2. CASE i \notin ToRemove
        BY <2>2, SameFate DEF RemoveExited
    <2>. QED  BY <2>1, <2>2
<1>. QED  BY <1>1 DEF MapFate

LEMMA PerformRestartFate ==
    ASSUME LInv, BoundInv, NEW i \in ProcessId, RestartSpawns(i) \/ RestartWaits(i)
    PROVE  MapFate
<1>. USE DEF LInv, NInv, IInv
<1>. DEFINE p == processes[i]
<1>1. /\ rpc = "restart" /\ i \in todo \cap Present
      /\ p \in Process /\ p.config \in Configs /\ Bound(p)
      /\ p.resolved_deps \in Seq(ProcessId)
    BY PresentProcess DEF RestartSpawns, RestartWaits, In, TypeInv, Process, BoundInv
<1>2. PICK deps \in resolve_dependencies(p.config.depends_on) : \E b :
        /\ processes' = [PollAll(Visited(deps)) EXCEPT ![i] = b]
        /\ \/ \E q \in Pid :
                b = Respawned(p, q, IF deps = <<>> THEN p.resolved_deps ELSE deps)
           \/ b = NoProcess
           \/ b = Requeued(p, deps)
    BY DEF RestartSpawns, RestartWaits, BindingsBelow
<1>3. PICK b :
        /\ processes' = [PollAll(Visited(deps)) EXCEPT ![i] = b]
        /\ \/ \E q \in Pid :
                b = Respawned(p, q, IF deps = <<>> THEN p.resolved_deps ELSE deps)
           \/ b = NoProcess
           \/ b = Requeued(p, deps)
    BY <1>2
<1>4. deps \in Seq(ProcessId) /\ (deps # <<>> => p.config.depends_on # <<>>)
    BY <1>1, BindingType, BindingBound
<1>. DEFINE d == IF deps = <<>> THEN p.resolved_deps ELSE deps
<1>5. d \in Seq(ProcessId) /\ (d # <<>> => p.config.depends_on # <<>>)
    BY <1>1, <1>4 DEF Bound
<1>. HIDE DEF d
<1>6. ASSUME NEW q \in Pid
      PROVE  Respawned(p, q, d) \in Process /\ Bound(Respawned(p, q, d))
    BY <1>1, <1>5, RespawnedType DEF Respawned, Bound, Process
<1>7. Requeued(p, deps) \in Process /\ Bound(Requeued(p, deps))
    BY <1>1, <1>4, RequeuedType DEF Requeued, Bound, Process
<1>8. Gone(p)
    BY <1>1, ChildlessGone DEF ListInv, RestartInv
<1>. QED  BY <1>3, <1>6, <1>7, <1>8, PollAllFate, NoneIsNoProcess DEF d

LEMMA CheckWaitingFate ==
    ASSUME TypeInv, BoundInv, NEW i \in ProcessId, CheckWaiting(i)
    PROVE  MapFate
<1>. DEFINE p == processes[i]
<1>1. CASE UNCHANGED processes
    BY <1>1, SameFate DEF MapFate
<1>2. CASE ~UNCHANGED processes
    <2>1. i \in Present /\ Bindable(p) # {}
        BY <1>2 DEF CheckWaiting, Present
    <2>2. PICK newly \in NewlyResolved(p) :
             Put(i, [p EXCEPT !.resolved_deps = @ \o newly])
        BY <1>2 DEF CheckWaiting
    <2>3. p \in Process
        BY <2>1, PresentProcess DEF TypeInv
    <2>4. p.config.depends_on # <<>>
        BY <2>1 DEF Bindable, Unresolved
    <2>. DEFINE d == p.resolved_deps \o newly
                r == [p EXCEPT !.resolved_deps = d]
    <2>5. Put(i, r)
        BY <2>2
    <2>6. r # NoProcess /\ Bound(r)
        <3>1. r.config = p.config
            BY <2>3 DEF Process
        <3>2. r # NoProcess
            <4>1. d \in Seq(ProcessId)
                BY <2>2, <2>3, NewlyResolvedType DEF Process
            <4>. HIDE DEF d
            <4>2. r \in Process
                BY <2>3, <4>1 DEF Process
            <4>. QED  BY <4>2, NoneIsNoProcess
        <3>. QED  BY <2>4, <3>1, <3>2 DEF Bound
    <2>. HIDE DEF r
    <2>. QED  BY <2>5, <2>6, PutFate
<1>. QED  BY <1>1, <1>2

LEMMA SpawnWaitingFate ==
    ASSUME LInv, BoundInv, NEW i \in ProcessId, SpawnWaiting(i)
    PROVE  MapFate
<1>. USE DEF LInv, NInv, IInv
<1>. DEFINE p == processes[i]
<1>1. CASE UNCHANGED processes
    BY <1>1, SameFate DEF MapFate
<1>2. CASE ~UNCHANGED processes
    <2>1. /\ i \in Present /\ i \in to_spawn
          /\ \/ Put(i, NoProcess)
             \/ \E q \in Pid : Put(i, SpawnedWaiting(p, q))
        BY <1>2 DEF SpawnWaiting, RemoveFailed, Present
    <2>2. p \in Process /\ Bound(p)
        BY <2>1, PresentProcess DEF TypeInv, BoundInv
    <2>3. \A q \in Pid : SpawnedWaiting(p, q) # NoProcess /\ Bound(SpawnedWaiting(p, q))
        BY <2>2, SpawnedWaitingType, BoundEdits, NoneIsNoProcess
    <2>4. Gone(p)
        BY <2>1, ChildlessGone DEF PhaseInv, WaitInv, Childless
    <2>. QED  BY <2>1, <2>3, <2>4, PutFate
<1>. QED  BY <1>1, <1>2

LEMMA FailWaitingFate ==
    ASSUME TypeInv, BoundInv, FailInv, NEW i \in ProcessId, FailWaiting(i)
    PROVE  MapFate
<1>1. UNCHANGED processes \/ Put(i, NoProcess)
    BY DEF FailWaiting, RemoveFailed
<1>2. i \in Present => Gone(processes[i])
    BY ChildlessGone DEF FailWaiting, In, FailInv, WaitPhase, Childless
<1>. QED  BY <1>1, <1>2, SameFate, PutFate DEF MapFate

\* What kill() does not reach is dead.
LEMMA KillReaches ==
    ASSUME TypeInv, HandleInv, NEW p \in Process, GoodHandle(p), Alive(p.child)
    PROVE  /\ p.pid = p.child
           /\ KillResult(p) = IF p.config.on_kill = "denied" THEN "EPERM" ELSE "Ok"
<1>1. p.child # 0 /\ p.child = p.pid /\ p.child \in Pid
    BY DEF Alive, GoodHandle
<1>2. p.child \notin reaped
    BY <1>1 DEF HandleInv, Dead, Alive
<1>. QED  BY <1>1, <1>2 DEF KillResult

LEMMA FailRunningFate ==
    ASSUME LInv, BoundInv, DependentsDie, NEW i \in ProcessId, FailRunning(i)
    PROVE  MapFate
<1>. USE DEF LInv, NInv, IInv
<1>. DEFINE p == processes[i]
<1>1. CASE UNCHANGED processes
    BY <1>1, SameFate DEF MapFate
<1>2. CASE ~UNCHANGED processes
    <2>1. /\ i \in Present /\ any_dep_terminal(p.resolved_deps)
          /\ Put(i, NoProcess) /\ doomed' = doomed \cup send_signal(p)
        BY <1>2 DEF FailRunning, RemoveFailed, Present
    <2>2. p \in Process /\ p.config \in Configs /\ Bound(p) /\ GoodHandle(p)
        BY <2>1, PresentProcess DEF TypeInv, BoundInv, HandleInv, GoodHandles, Process
    <2>3. p.config.on_kill = "dies"
        BY <2>1, <2>2 DEF any_dep_terminal, Bound, DependentsDie
    <2>4. Alive(p.child) => p.child \in send_signal(p)
        BY <2>2, <2>3, KillReaches DEF send_signal
    <2>. QED  BY <2>1, <2>4, PutFate DEF Gone
<1>. QED  BY <1>1, <1>2

LEMMA ReaperFate ==
    ASSUME LInv, BoundInv, FailInv, DependentsDie, ReaperNext
    PROVE  MapFate
<1>. USE DEF LInv, NInv, IInv
<1>1. CASE \/ BeginCycle \/ EndDetect \/ CollectTargets \/ EmitEvents
           \/ CollectEligible \/ CollectWaiting \/ CollectRunning
           \/ \E i \in ProcessId : RestartSkips(i) \/ ScheduleBlocks(i) \/ RestartWedges(i)
    <2>1. UNCHANGED processes
        BY <1>1 DEF BeginCycle, EndDetect, CollectTargets, EmitEvents, CollectEligible,
                    CollectWaiting, CollectRunning, RestartSkips, ScheduleBlocks,
                    RestartWedges
    <2>. QED  BY <2>1, SameFate DEF MapFate
<1>2. CASE ScheduleResumes
    <2>1. cur \in Present /\ cur \in ProcessId /\ Put(cur, Scheduled(processes[cur]))
        BY <1>2 DEF ScheduleResumes, In, GuardInv, ReaperWaits, Present
    <2>. QED  BY <2>1, ReaperEditFate
<1>3. ASSUME NEW i \in ProcessId, FlagTarget(i) \/ ScheduleRestart(i)
      PROVE  MapFate
    <2>1. \/ UNCHANGED processes
          \/ Put(i, Flagged(processes[i])) /\ i \in Present
          \/ Put(i, Scheduled(processes[i])) /\ i \in Present
        BY <1>3 DEF FlagTarget, ScheduleRestart, Present
    <2>. QED  BY <2>1, ReaperEditFate
<1>. QED
    BY <1>1, <1>2, <1>3, DetectFate, RemoveExitedFate, PerformRestartFate,
       CheckWaitingFate, SpawnWaitingFate, FailWaitingFate, FailRunningFate
    DEF ReaperNext

LEMMA TicksFate ==
    ASSUME TypeInv, BoundInv, NEW i \in ProcessId, Ticks(i)
    PROVE  MapFate
<1>1. i \in Present
    BY DEF Ticks, BackoffElapses, UptimeReached, DependencyExpires, InState
<1>2. processes[i] \in Process /\ Bound(processes[i])
    BY <1>1, PresentProcess DEF TypeInv, BoundInv
<1>3. \/ Put(i, [processes[i] EXCEPT !.backoff = "elapsed"])
      \/ Put(i, [processes[i] EXCEPT !.stable = TRUE])
      \/ Put(i, [processes[i] EXCEPT !.expired = TRUE])
    BY DEF Ticks, BackoffElapses, UptimeReached, DependencyExpires
<1>4. /\ [processes[i] EXCEPT !.backoff = "elapsed"] \in Process
      /\ [processes[i] EXCEPT !.stable = TRUE] \in Process
      /\ [processes[i] EXCEPT !.expired = TRUE] \in Process
    BY <1>2 DEF Process
<1>. QED  BY <1>2, <1>3, <1>4, BoundEdits, NoneIsNoProcess, PutFate

-----------------------------------------------------------------------------
(* What becomes of the entries in the hands of a call.                     *)

HandFate(t) ==
    /\ \A i \in Held(t)' : Bound(InHand(t, i)')
    /\ \A i \in Held(t) : i \in Present' \/ InHands(i)' \/ Gone(InHand(t, i))

LEMMA CallAlone ==
    ASSUME NoRestart, TypeInv, AllOrdinary, NEW t \in Threads, Calls(t) \/ Steps(t)
    PROVE  \A u \in Threads \ {t} : calls'[u] = calls[u]
BY CallGoesOn, StepGoesOn DEF GoesOn, Opens, AllOrdinary

LEMMA EmptyHands ==
    ASSUME NEW t \in Threads, ManyOf(t), calls[t].pc \notin ManyStep,
           calls'[t].held = NoneHeld
    PROVE  HandFate(t) /\ ManyOf(t)'
<1>1. Held(t) = {} /\ Held(t)' = {}
    BY DEF Held, NoneHeld, ManyOf
<1>. QED  BY <1>1 DEF HandFate, ManyOf

\* The calls that hold nothing.
LEMMA CallsEmpty ==
    ASSUME NoRestart, NoStop, TypeInv, NEW t \in Threads, ManyOf(t), Calls(t)
    PROVE  calls[t].pc \notin ManyStep /\ calls'[t].held = NoneHeld
<1>1. At(t, "idle") /\ ~RestartCall(t) /\ ~StopCall(t)
    BY DEF Calls, CallNext, StartCall, StopCall, StopManyCall, RestartCall, Poll,
           DropManager, SendSignal, NoRestart, NoStop, May
<1>2. calls[t].pc \notin ManyStep /\ calls[t].held = NoneHeld
    BY <1>1 DEF At, ManyStep, ManyOf
<1>3. CASE UNCHANGED calls
    BY <1>2, <1>3
<1>4. CASE StartCall(t) /\ ~UNCHANGED calls
    <2>1. PICK op, c : Becomes(t, [Idle EXCEPT !.pc = "start_insert", !.op = op,
                                               !.id = next_id, !.config = c])
        BY <1>4 DEF StartCall
    <2>. DEFINE n == [Idle EXCEPT !.pc = "start_insert", !.op = op, !.id = next_id,
                                  !.config = c]
    <2>2. n.held = NoneHeld
        BY DEF Idle
    <2>. HIDE DEF n
    <2>3. calls'[t] = n
        BY <2>1 DEF Becomes, TypeInv, n
    <2>. QED  BY <1>2, <2>2, <2>3
<1>5. CASE StopManyCall(t)
    <2>1. \E ids : Becomes(t, [Idle EXCEPT !.pc = "many_remove", !.op = "stop_many",
                                           !.ids = ids])
        BY <1>5 DEF StopManyCall
    <2>2. \A ids : [Idle EXCEPT !.pc = "many_remove", !.op = "stop_many",
                                !.ids = ids].held = NoneHeld
        BY DEF Idle
    <2>. QED  BY <1>2, <2>1, <2>2 DEF Becomes, TypeInv
<1>6. CASE DropManager(t)
    BY <1>2, <1>6 DEF DropManager, Becomes, Idle, TypeInv
<1>7. CASE Poll(t) \/ \E i \in ProcessId : SendSignal(t, i)
    BY <1>3, <1>7 DEF Poll, SendSignal, managerVars
<1>. QED  BY <1>1, <1>3, <1>4, <1>5, <1>6, <1>7 DEF Calls, CallNext

StartSteps(t) ==
    StartSpawn(t) \/ StartWaiting(t) \/ AwaitReturn(t) \/ AwaitTimeout(t) \/ DropStop(t)

LEMMA StartsEmpty ==
    ASSUME TypeInv, NEW t \in Threads, ManyOf(t), StartSteps(t)
    PROVE  calls[t].pc \notin ManyStep /\ calls'[t].held = NoneHeld
<1>1. calls[t].pc \in {"start_insert", "await_deps", "drop_join"}
    BY DEF StartSteps, StartSpawn, StartWaiting, AwaitReturn, AwaitTimeout, DropStop, At
<1>2. calls[t].pc \notin ManyStep /\ calls[t].held = NoneHeld /\ calls[t] \in Call
    BY <1>1, CallRecord DEF ManyStep, ManyOf, TypeInv
<1>3. \/ Return(t)
      \/ Becomes(t, [calls[t] EXCEPT !.pc = "await_deps"])
      \/ \E ids : Becomes(t, [calls[t] EXCEPT !.pc = "many_remove", !.ids = ids])
    BY DEF StartSteps, StartSpawn, StartWaiting, AwaitReturn, AwaitTimeout, DropStop
<1>4. /\ [calls[t] EXCEPT !.pc = "await_deps"].held = NoneHeld
      /\ \A ids : [calls[t] EXCEPT !.pc = "many_remove", !.ids = ids].held = NoneHeld
    BY <1>2 DEF Call
<1>5. \A n : Becomes(t, n) => calls'[t] = n
    BY DEF Becomes, TypeInv
<1>6. Idle.held = NoneHeld
    BY DEF Idle
<1>7. calls'[t].held = NoneHeld
    BY <1>3, <1>4, <1>5, <1>6 DEF Return
<1>. QED  BY <1>2, <1>7

LEMMA CallFate ==
    ASSUME TypeInv, BoundInv, NEW t \in Threads, Calls(t)
    PROVE  MapFate
<1>1. CASE Poll(t)
    <2>1. PICK i \in Present : Put(i, Polled(processes[i]))
        BY <1>1 DEF Poll
    <2>2. processes[i] \in Process /\ Bound(processes[i])
        BY PresentProcess DEF TypeInv, BoundInv
    <2>. QED  BY <2>1, <2>2, PolledType, BoundEdits, NoneIsNoProcess, PutFate
<1>2. CASE ~Poll(t)
    <2>1. UNCHANGED processes
        BY <1>2 DEF Calls, CallNext, StartCall, StopCall, StopManyCall, RestartCall,
                    DropManager, SendSignal
    <2>. QED  BY <2>1, SameFate DEF MapFate
<1>. QED  BY <1>1, <1>2

LEMMA NewFate ==
    ASSUME TypeInv, BoundInv, NEW S, NEW i \in ProcessId, NEW c \in Configs,
           NEW q \in 0 .. MaxPid, NEW deps \in resolve_dependencies(c.depends_on),
           processes' = [PollAll(S) EXCEPT
                           ![i] = NewProcess(c, q, next_spawn_sequence, deps)]
    PROVE  MapFate
<1>1. deps \in Seq(ProcessId) /\ next_spawn_sequence \in Nat
    BY BindingType DEF TypeInv, TableTypeOK
<1>2. NewProcess(c, q, next_spawn_sequence, deps) # NoProcess
    BY <1>1, NewProcessType, NoneIsNoProcess
<1>3. Bound(NewProcess(c, q, next_spawn_sequence, deps))
    BY BindingBound DEF NewProcess, Bound
<1>. QED  BY <1>2, <1>3, PollAllFate

LEMMA StartFate ==
    ASSUME TypeInv, BoundInv, NEW t \in Threads, StartSteps(t)
    PROVE  MapFate
<1>1. CASE AwaitReturn(t) \/ DropStop(t)
    BY <1>1, SameFate DEF AwaitReturn, DropStop, MapFate
<1>2. CASE AwaitTimeout(t)
    <2>1. \/ UNCHANGED processes
          \/ \E i \in ProcessId : /\ processes[i] # NoProcess
                                  /\ Put(i, [processes[i] EXCEPT !.state = "Failed"])
        <3>1. calls[t].id \in ProcessId
            BY <1>2, CallRecord DEF AwaitTimeout, At, TypeInv, GoodCall
        <3>. QED  BY <1>2, <3>1 DEF AwaitTimeout
    <2>2. CASE UNCHANGED processes
        BY <2>2, SameFate DEF MapFate
    <2>3. ASSUME NEW i \in ProcessId, processes[i] # NoProcess,
                 Put(i, [processes[i] EXCEPT !.state = "Failed"])
          PROVE  MapFate
        <3>1. processes[i] \in Process /\ Bound(processes[i])
            BY <2>3 DEF TypeInv, TableTypeOK, BoundInv, Present
        <3>2. [processes[i] EXCEPT !.state = "Failed"] \in Process
            BY <3>1 DEF Process, ProcessState
        <3>. QED  BY <2>3, <3>1, <3>2, BoundEdits, NoneIsNoProcess, PutFate
    <2>. QED  BY <2>1, <2>2, <2>3
<1>3. CASE StartSpawn(t) \/ StartWaiting(t)
    <2>1. PICK id \in ProcessId, c \in Configs : id = calls[t].id /\ c = calls[t].config
        BY <1>3, CallRecord DEF StartSpawn, StartWaiting, TypeInv, At, GoodCall
    <2>2. PICK deps \in resolve_dependencies(c.depends_on) :
            \/ \E q \in Pid \cup {0} : \E S :
                 processes' = [PollAll(S) EXCEPT
                                 ![id] = NewProcess(c, q, next_spawn_sequence, deps)]
            \/ \E S : processes' = PollAll(S)
        BY <1>3, <2>1 DEF StartSpawn, StartWaiting
    <2>3. Pid \cup {0} \subseteq 0 .. MaxPid
        BY IdRange, BoundsAssumption
    <2>. QED  BY <2>2, <2>3, NewFate, PollFate DEF MapFate
<1>. QED  BY <1>1, <1>2, <1>3 DEF StartSteps

-----------------------------------------------------------------------------
(* The steps of stop_many().                                               *)

LEMMA ManyRemoveFate ==
    ASSUME LInv, BoundInv, NEW t \in Threads, ManyOf(t), StopManyRemove(t)
    PROVE  MapFate /\ HandFate(t) /\ ManyOf(t)'
<1>. USE DEF LInv, NInv, IInv
<1>. DEFINE k == calls[t]
<1>1. k \in Call /\ k.ids \subseteq ProcessId
      /\ k.held \in [ProcessId -> Process \cup {NoProcess}]
    BY CallRecord DEF TypeInv, Call, StopManyRemove
<1>2. PICK i \in k.ids :
        LET p == processes[i]
            ids == k.ids \ {i}
            held == IF p = NoProcess THEN k.held
                    ELSE IF p.pid = 0 THEN k.held ELSE [k.held EXCEPT ![i] = p]
        IN /\ Put(i, NoProcess)
           /\ IF ids = {} /\ held = NoneHeld THEN Return(t)
              ELSE Becomes(t, [k EXCEPT
                       !.pc = IF ids = {} THEN "many_signal" ELSE "many_remove",
                       !.ids = ids, !.held = held])
    BY DEF StopManyRemove
<1>. DEFINE p == processes[i]
            held == IF p = NoProcess THEN k.held
                    ELSE IF p.pid = 0 THEN k.held ELSE [k.held EXCEPT ![i] = p]
            pc == IF k.ids \ {i} = {} THEN "many_signal" ELSE "many_remove"
            n == [k EXCEPT !.pc = pc, !.ids = k.ids \ {i}, !.held = held]
<1>3. i \in ProcessId /\ Put(i, NoProcess)
    BY <1>1, <1>2
<1>4. /\ calls'[t].held = held
      /\ \/ calls'[t].pc \in {"many_signal", "many_remove"}
         \/ held = NoneHeld /\ calls'[t].pc = "idle"
    <2>1. \/ Becomes(t, n)
          \/ Return(t) /\ held = NoneHeld
        BY <1>2
    <2>2. n.held = held /\ n.pc = pc
        <3>. HIDE DEF held, pc
        <3>. QED  BY <1>1 DEF Call
    <2>3. pc \in {"many_signal", "many_remove"}
        OBVIOUS
    <2>. HIDE DEF n, pc, held
    <2>4. Becomes(t, n) => calls'[t] = n
        BY DEF Becomes, TypeInv
    <2>5. Return(t) => calls'[t].held = NoneHeld /\ calls'[t].pc = "idle"
        BY DEF Return, Becomes, Idle, TypeInv
    <2>. QED  BY <2>1, <2>2, <2>3, <2>4, <2>5
<1>5. /\ \A j \in ProcessId : k.held[j] # NoProcess /\ j # i => held[j] = k.held[j]
      /\ \A j \in ProcessId : held[j] \in {k.held[j], p}
      /\ \A j \in ProcessId : held[j] # k.held[j] => j = i
    BY <1>1, <1>3
<1>6. i \in Present => p \in Process /\ Bound(p) /\ i \notin Held(t)
    BY PresentProcess DEF TypeInv, BoundInv, IdInv, OneRecord
<1>7. i \in Present /\ held[i] # p => Gone(p)
    <2>1. SUFFICES ASSUME i \in Present, held[i] # p
                   PROVE  Gone(p)
        OBVIOUS
    <2>2. p.pid = 0
        BY <1>1, <1>3, <2>1 DEF Present
    <2>3. p.child = 0
        BY <2>1, <2>2 DEF ListInv, HandleMatchesState
    <2>. QED  BY <2>3 DEF Gone, Alive
<1>. HIDE DEF held, n, pc
<1>8. HandFate(t)
    <2>1. ASSUME NEW j \in Held(t)'
          PROVE  Bound(InHand(t, j)')
        <3>1. j \in ProcessId /\ held[j] # NoProcess /\ InHand(t, j)' = held[j]
            BY <1>4 DEF Held, InHand
        <3>2. CASE held[j] = k.held[j]
            BY <3>1, <3>2 DEF BoundInv, Held, InHand
        <3>3. CASE held[j] # k.held[j]
            BY <1>3, <1>5, <1>6, <3>1, <3>3 DEF Present
        <3>. QED  BY <3>2, <3>3
    <2>2. ASSUME NEW j \in Held(t)
          PROVE  j \in Held(t)'
        <3>1. j \in ProcessId /\ k.held[j] # NoProcess
            BY DEF Held
        <3>2. CASE j # i
            BY <1>4, <1>5, <3>1, <3>2 DEF Held
        <3>3. CASE j = i
            <4>1. i \notin Present
                BY <1>6, <3>3
            <4>2. held = k.held
                BY <1>3, <4>1 DEF held, Present
            <4>. QED  BY <1>4, <3>1, <4>2 DEF Held
        <3>. QED  BY <3>2, <3>3
    <2>. QED  BY <2>1, <2>2 DEF HandFate, InHands
<1>9. ManyOf(t)'
    BY <1>4 DEF ManyOf, ManyStep, At
<1>10. MapFate
    <2>1. ASSUME NEW j \in ProcessId
          PROVE  Fate(j)
        <3>1. j # i => processes'[j] = processes[j]
            BY <1>3 DEF Put, TypeInv, TableTypeOK
        <3>2. processes'[i] = NoProcess
            BY <1>3 DEF Put, TypeInv, TableTypeOK
        <3>3. i \in Present => InHands(i)' \/ Gone(p)
            <4>1. SUFFICES ASSUME i \in Present, held[i] = p
                           PROVE  i \in Held(t)'
                BY <1>7 DEF InHands
            <4>. QED  BY <1>3, <1>4, <4>1 DEF Held, Present
        <3>. QED  BY <3>1, <3>2, <3>3, SameFate DEF Fate, Present
    <2>. QED  BY <2>1 DEF MapFate
<1>. QED  BY <1>8, <1>9, <1>10

LEMMA ManySignalFate ==
    ASSUME LInv, BoundInv, NEW t \in Threads, StopManySignal(t)
    PROVE  MapFate /\ HandFate(t) /\ ManyOf(t)'
<1>. USE DEF LInv, NInv, IInv
<1>. DEFINE h == [i \in ProcessId |-> IF i \in Held(t)
                                      THEN [calls[t].held[i] EXCEPT !.state = "Stopping"]
                                      ELSE NoProcess]
            n == [calls[t] EXCEPT !.pc = "many_grace", !.held = h]
<1>1. calls'[t].pc = "many_grace" /\ calls'[t].held = h
    <2>1. calls[t] \in Call
        BY CallRecord DEF TypeInv
    <2>2. n.pc = "many_grace" /\ n.held = h
        <3>. HIDE DEF h
        <3>. QED  BY <2>1 DEF Call
    <2>3. Becomes(t, n)
        BY DEF StopManySignal
    <2>. HIDE DEF n
    <2>. QED  BY <2>2, <2>3 DEF Becomes, TypeInv
<1>2. \A i \in Held(t) : InHand(t, i) \in Process /\ Bound(InHand(t, i))
    BY HeldType DEF TypeInv, BoundInv, InHand
<1>3. \A i \in Held(t) : /\ h[i] = [InHand(t, i) EXCEPT !.state = "Stopping"]
                         /\ h[i] # NoProcess
    <2>1. \A p \in Process : [p EXCEPT !.state = "Stopping"] \in Process
        BY DEF Process, ProcessState
    <2>. QED  BY <1>2, <2>1, NoneIsNoProcess DEF Held, InHand
<1>4. Held(t)' = Held(t) /\ \A i \in Held(t) : InHand(t, i)' = h[i]
    BY <1>1, <1>3 DEF Held, InHand
<1>. HIDE DEF h, n
<1>5. ASSUME NEW i \in Held(t)
      PROVE  Bound(h[i]) /\ h[i].state = "Stopping"
    <2>1. PICK p \in Process : p = InHand(t, i) /\ Bound(p)
        BY <1>2
    <2>2. h[i] = [p EXCEPT !.state = "Stopping"]
        BY <1>3, <2>1
    <2>3. [p EXCEPT !.state = "Stopping"].state = "Stopping"
        BY DEF Process
    <2>4. Bound([p EXCEPT !.state = "Stopping"])
        BY <2>1, BoundEdits
    <2>. QED  BY <2>2, <2>3, <2>4
<1>6. HandFate(t)
    BY <1>4, <1>5 DEF HandFate, InHands
<1>7. ManyOf(t)'
    BY <1>1, <1>4, <1>5 DEF ManyOf, ManyStep, At
<1>8. MapFate
    BY SameFate DEF StopManySignal, MapFate
<1>. QED  BY <1>6, <1>7, <1>8

LEMMA ManyEscalateFate ==
    ASSUME LInv, BoundInv, NEW t \in Threads, ManyOf(t), StopManyEscalate(t)
    PROVE  MapFate /\ HandFate(t) /\ ManyOf(t)'
<1>. USE DEF LInv, NInv, IInv
<1>. DEFINE k == calls[t]
            left == {i \in Held(t) : is_alive(Polled(k.held[i]).state)}
            h == [i \in ProcessId |-> IF i \in left THEN k.held[i] ELSE NoProcess]
            n == [k EXCEPT !.pc = "many_reap", !.held = h]
<1>1. calls'[t].pc = "many_reap" /\ calls'[t].held = h
    <2>1. k \in Call
        BY CallRecord DEF TypeInv
    <2>2. n.pc = "many_reap" /\ n.held = h
        <3>. HIDE DEF h
        <3>. QED  BY <2>1 DEF Call
    <2>3. Becomes(t, n)
        BY DEF StopManyEscalate
    <2>. HIDE DEF n
    <2>. QED  BY <2>2, <2>3 DEF Becomes, TypeInv
<1>2. \A i \in Held(t) : /\ InHand(t, i) \in Process /\ Bound(InHand(t, i))
                         /\ GoodHandle(InHand(t, i)) /\ InHand(t, i).state = "Stopping"
    BY HeldType DEF TypeInv, BoundInv, InHand, HandleInv, GoodHandles, ManyOf,
                    StopManyEscalate
<1>3. left = Held(t)
    BY <1>2 DEF InHand, Polled, Polls, is_alive
<1>4. Held(t)' = Held(t) /\ \A i \in Held(t) : InHand(t, i)' = InHand(t, i)
    BY <1>1, <1>3 DEF Held, InHand
<1>5. doomed' = doomed \cup UNION {force_kill(InHand(t, i)) : i \in Held(t)}
    BY <1>3 DEF StopManyEscalate, InHand
<1>. HIDE DEF left, h, n
<1>6. ASSUME NEW i \in Held(t)
      PROVE  Handled(InHand(t, i))'
    <2>1. PICK p \in Process : p = InHand(t, i)
        BY <1>2
    <2>2. Alive(p.child)' <=> Alive(p.child)
        BY DEF Alive, StopManyEscalate
    <2>3. Alive(p.child) /\ p.config.on_kill # "denied" => p.child \in force_kill(p)
        BY <1>2, <2>1, KillReaches DEF force_kill
    <2>4. force_kill(p) \subseteq doomed'
        BY <1>5, <2>1
    <2>5. InHand(t, i)' = p
        BY <1>4, <2>1
    <2>. QED  BY <2>2, <2>3, <2>4, <2>5 DEF Handled
<1>7. HandFate(t)
    BY <1>2, <1>4 DEF HandFate, InHands
<1>8. ManyOf(t)'
    BY <1>1, <1>4, <1>6 DEF ManyOf, ManyStep, At
<1>9. MapFate
    BY SameFate DEF StopManyEscalate, MapFate
<1>. QED  BY <1>7, <1>8, <1>9

LEMMA ManyReapFate ==
    ASSUME LInv, BoundInv, NEW t \in Threads, ManyOf(t), StopManyReap(t)
    PROVE  MapFate /\ HandFate(t) /\ ManyOf(t)'
<1>. USE DEF LInv, NInv, IInv
<1>1. calls'[t].pc = "idle" /\ calls'[t].held = NoneHeld
    BY DEF StopManyReap, Return, Becomes, Idle, TypeInv
<1>2. Held(t)' = {}
    BY <1>1 DEF Held, NoneHeld
<1>3. \A i \in Held(t) : /\ InHand(t, i) \in Process /\ Bound(InHand(t, i))
                         /\ GoodHandle(InHand(t, i)) /\ Handled(InHand(t, i))
                         /\ i \notin Present /\ i \in ProcessId
    BY HeldType DEF TypeInv, BoundInv, InHand, HandleInv, GoodHandles, ManyOf,
                    StopManyReap, IdInv, OneRecord, Held
<1>4. ASSUME NEW i \in Reinserted(t)
      PROVE  /\ i \in Held(t) /\ i \in ProcessId
             /\ processes'[i] # NoProcess /\ Bound(processes'[i])
    <2>1. i \in Held(t) /\ i \in ProcessId
        BY DEF Reinserted, Held
    <2>2. PICK p \in Process : p = InHand(t, i) /\ Bound(p)
        BY <1>3, <2>1
    <2>3. processes'[i] = [p EXCEPT !.state = "Failed"]
        BY <2>1, <2>2 DEF StopManyReap, InHand
    <2>4. [p EXCEPT !.state = "Failed"] \in Process
        BY DEF Process, ProcessState
    <2>5. Bound([p EXCEPT !.state = "Failed"])
        BY <2>2, BoundEdits
    <2>. QED  BY <2>1, <2>3, <2>4, <2>5, NoneIsNoProcess
<1>5. ASSUME NEW i \in Held(t), i \notin Reinserted(t)
      PROVE  Gone(InHand(t, i))
    <2>1. KillResult(InHand(t, i)) # "EPERM"
        BY <1>5 DEF Reinserted, InHand
    <2>2. UNCHANGED doomed
        BY DEF StopManyReap
    <2>. QED  BY <1>3, <2>1, <2>2, KillReaches DEF Handled, Gone
<1>6. HandFate(t)
    BY <1>2, <1>4, <1>5 DEF HandFate, Present
<1>7. ManyOf(t)'
    BY <1>1, <1>2 DEF ManyOf
<1>8. MapFate
    <2>1. ASSUME NEW i \in ProcessId, i \notin Reinserted(t)
          PROVE  processes'[i] = processes[i]
        BY <2>1 DEF StopManyReap
    <2>. QED  BY <1>3, <1>4, <2>1, SameFate DEF MapFate, Fate
<1>. QED  BY <1>6, <1>7, <1>8

-----------------------------------------------------------------------------
(* Every step.                                                             *)

LEMMA ClientFate ==
    ASSUME NoRestart, NoStop, LInv, NobodyStops, ManyInv, BoundInv,
           NEW t \in Threads, Calls(t) \/ Steps(t)
    PROVE  MapFate /\ HandFate(t) /\ ManyOf(t)'
<1>. USE DEF LInv, NInv, IInv
<1>1. ManyOf(t) /\ Ordinary(t) /\ calls[t].pc \notin StopStep
    BY DEF ManyInv, AllOrdinary, NobodyStops
<1>2. CASE Calls(t)
    BY <1>1, <1>2, CallsEmpty, EmptyHands, CallFate
<1>3. CASE StartSteps(t)
    BY <1>1, <1>3, StartsEmpty, EmptyHands, StartFate
<1>4. CASE StopManyRemove(t) \/ StopManySignal(t) \/ StopManyEscalate(t) \/ StopManyReap(t)
    BY <1>1, <1>4, ManyRemoveFate, ManySignalFate, ManyEscalateFate, ManyReapFate
<1>5. CASE \/ StopCheck(t) \/ StopCancel(t) \/ StopUnqueue(t) \/ StopRemove(t)
           \/ StopEscalate(t) \/ StopReap(t)
    BY <1>1, <1>5 DEF StopCheck, StopCancel, StopUnqueue, StopRemove, StopEscalate,
                      StopReap, At, StopStep
<1>6. CASE \/ RestartCheck(t) \/ RestartBlocks(t) \/ RestartReset(t) \/ RestartInPlace(t)
           \/ RestartInsert(t)
    BY <1>1, <1>6 DEF RestartCheck, RestartBlocks, RestartReset, RestartInPlace,
                      RestartInsert, At, Ordinary, RestartCallStep
<1>. QED  BY <1>2, <1>3, <1>4, <1>5, <1>6 DEF Steps, StepNext, StartSteps

FateStep == MapFate /\ \A t \in Threads : HandFate(t)

LEMMA SameHandFate ==
    ASSUME BoundInv, NEW t \in Threads, calls'[t] = calls[t]
    PROVE  HandFate(t)
<1>1. Held(t)' = Held(t) /\ \A i : InHand(t, i)' = InHand(t, i)
    BY DEF Held, InHand
<1>. QED  BY <1>1 DEF HandFate, BoundInv, InHands

LEMMA EveryFateStep ==
    ASSUME NoRestart, NoStop, DependentsDie, LInv, NobodyStops, ManyInv, BoundInv, FailInv,
           [Next]_vars
    PROVE  FateStep
<1>. USE DEF LInv, NInv, IInv
<1>1. ASSUME NEW t \in Threads, Calls(t) \/ Steps(t)
      PROVE  FateStep
    <2>1. MapFate /\ HandFate(t)
        BY <1>1, ClientFate
    <2>2. \A u \in Threads \ {t} : HandFate(u)
        BY <1>1, CallAlone, SameHandFate
    <2>. QED  BY <2>1, <2>2 DEF FateStep
<1>2. CASE ReaperNext
    <2>1. UNCHANGED calls
        BY <1>2, ReaperUntouched
    <2>. QED  BY <1>2, <2>1, ReaperFate, SameHandFate DEF FateStep
<1>3. ASSUME NEW i \in ProcessId, Ticks(i)
      PROVE  FateStep
    <2>1. UNCHANGED calls
        BY <1>3 DEF Ticks, BackoffElapses, UptimeReached, DependencyExpires
    <2>. QED  BY <1>3, <2>1, TicksFate, SameHandFate DEF FateStep
<1>4. CASE (\E q \in Pid : Exits(q)) \/ Closes \/ UNCHANGED vars
    <2>1. UNCHANGED <<processes, calls>>
        BY <1>4 DEF Exits, ChildExits, Closes, CloseChannel, vars
    <2>. QED  BY <2>1, SameFate, SameHandFate DEF FateStep, MapFate
<1>. QED  BY <1>1, <1>2, <1>3, <1>4 DEF Next, Ticks

LEMMA BoundInductive ==
    ASSUME FateStep
    PROVE  BoundInv'
BY DEF FateStep, MapFate, Fate, HandFate, BoundInv, Present

\* No signal is taken back.
DoomStep == doomed \subseteq doomed'

LEMMA EveryDoomStep ==
    ASSUME [Next]_vars
    PROVE  DoomStep
<1>1. ASSUME NEW t \in Threads, Calls(t) \/ Steps(t)
      PROVE  DoomStep
    BY <1>1 DEF Calls, CallNext, Steps, StepNext, StartCall, StopCall,
       StopManyCall, RestartCall, Poll, DropManager, SendSignal, StartSpawn, StartWaiting,
       AwaitReturn, AwaitTimeout, StopCheck, StopCancel, StopUnqueue, StopRemove,
       StopEscalate, StopReap, StopManyRemove, StopManySignal, StopManyEscalate,
       StopManyReap, RestartCheck, RestartBlocks, RestartReset, RestartInPlace,
       RestartInsert, DropStop, DoomStep
<1>2. CASE ReaperNext
    BY <1>2 DEF ReaperNext, BeginCycle, EndDetect, CollectTargets, RemoveExited, EmitEvents,
       CollectEligible, CollectWaiting, CollectRunning, ScheduleResumes, DetectExit,
       DetectAlive, FlagTarget, ScheduleRestart, ScheduleBlocks, RestartSkips,
       RestartSpawns, RestartWaits, RestartWedges, CheckWaiting, SpawnWaiting,
       FailWaiting, FailRunning, DoomStep
<1>3. CASE \/ \E q \in Pid : Exits(q)
           \/ \E i \in ProcessId : BackoffElapses(i) \/ UptimeReached(i) \/ DependencyExpires(i)
           \/ Closes \/ UNCHANGED vars
    BY <1>3 DEF Exits, ChildExits, BackoffElapses, UptimeReached, DependencyExpires,
                Closes, CloseChannel, vars, DoomStep
<1>. QED  BY <1>1, <1>2, <1>3 DEF Next

\* A child that is dead stays dead.
LEMMA AliveBefore ==
    ASSUME OsStep, NEW p \in Process, GoodHandle(p), Alive(p.child)'
    PROVE  Alive(p.child)
BY DEF OsStep, GoodHandle, Alive

LEMMA ManyStays ==
    ASSUME TypeInv, HandleInv, OsStep, DoomStep, NEW t \in Threads, calls'[t] = calls[t],
           ManyOf(t)
    PROVE  ManyOf(t)'
<1>1. Held(t)' = Held(t) /\ \A i : InHand(t, i)' = InHand(t, i)
    BY DEF Held, InHand
<1>2. \A i \in Held(t) : InHand(t, i) \in Process /\ GoodHandle(InHand(t, i))
    BY HeldType DEF TypeInv, InHand, HandleInv, GoodHandles
<1>3. ASSUME NEW i \in Held(t), Handled(InHand(t, i))
      PROVE  Handled(InHand(t, i))'
    <2>1. PICK p \in Process : p = InHand(t, i) /\ GoodHandle(p) /\ p = InHand(t, i)'
        BY <1>1, <1>2
    <2>2. Alive(p.child)' => Alive(p.child)
        BY <2>1, AliveBefore
    <2>. QED  BY <1>3, <2>1, <2>2 DEF Handled, DoomStep
<1>. QED  BY <1>1, <1>3 DEF ManyOf, At

LEMMA ManyInductive ==
    ASSUME NoRestart, NoStop, LInv, NobodyStops, ManyInv, BoundInv, [Next]_vars
    PROVE  ManyInv'
<1>. USE DEF LInv, NInv, IInv
<1>1. OsStep /\ DoomStep
    BY EveryStep, EveryDoomStep DEF RecordStep, ChildStep
<1>2. ASSUME NEW t \in Threads, calls'[t] = calls[t]
      PROVE  ManyOf(t)'
    BY <1>1, <1>2, ManyStays DEF ManyInv
<1>3. ASSUME NEW t \in Threads, Calls(t) \/ Steps(t)
      PROVE  ManyInv'
    BY <1>2, <1>3, ClientFate, CallAlone DEF ManyInv
<1>4. CASE ~\E t \in Threads : Calls(t) \/ Steps(t)
    <2>1. UNCHANGED calls
        BY <1>4, ReaperUntouched
        DEF Next, Exits, ChildExits, BackoffElapses, UptimeReached, DependencyExpires,
            Closes, CloseChannel, vars
    <2>. QED  BY <1>2, <2>1 DEF ManyInv
<1>. QED  BY <1>3, <1>4

-----------------------------------------------------------------------------
(* The lists of Phase 5.                                                   *)

\* An id that is checked goes on one list, or on none.
Checks(i) ==
    /\ rpc = "check" /\ i \in todo /\ todo' = todo \ {i}
    /\ \/ to_spawn' = to_spawn \cup {i} /\ to_fail' = to_fail
       \/ to_spawn' = to_spawn /\ to_fail' \in {to_fail, to_fail \cup {i}}

FailListStep ==
    \/ UNCHANGED <<rpc, todo, to_spawn, to_fail>>
    \/ /\ rpc \notin WaitPhase \cup {"done"} /\ rpc' \notin WaitPhase
       /\ UNCHANGED to_fail
    \/ CollectWaiting
    \/ /\ \/ \E i \in ProcessId : Checks(i)
          \/ rpc = "spawn" /\ to_spawn' \subseteq to_spawn /\ to_fail' = to_fail
          \/ rpc = "fail" /\ to_spawn' = to_spawn /\ to_fail' \subseteq to_fail
       /\ rpc' = "check" => rpc = "check"
       /\ rpc' \notin WaitPhase \cup {"done"} => to_fail' = {}

LEMMA EveryFailListStep ==
    ASSUME TypeInv, [Next]_vars
    PROVE  FailListStep
<1>1. ASSUME NEW t \in Threads, Calls(t) \/ Steps(t)
      PROVE  FailListStep
    BY <1>1 DEF Calls, CallNext, Steps, StepNext, StartCall, StopCall,
       StopManyCall, RestartCall, Poll, DropManager, SendSignal, StartSpawn, StartWaiting,
       AwaitReturn, AwaitTimeout, StopCheck, StopCancel, StopUnqueue, StopRemove,
       StopEscalate, StopReap, StopManyRemove, StopManySignal, StopManyEscalate,
       StopManyReap, RestartCheck, RestartBlocks, RestartReset, RestartInPlace,
       RestartInsert, DropStop, FailListStep
<1>2. CASE ReaperNext
    <2>1. CASE BeginCycle \/ EndDetect \/ RemoveExited \/ ScheduleResumes
        BY <2>1 DEF BeginCycle, EndDetect, RemoveExited, ScheduleResumes, In, Goto,
                    FailListStep, WaitPhase
    <2>2. CASE CollectTargets \/ CollectEligible \/ CollectRunning
        BY <2>2 DEF CollectTargets, CollectEligible, CollectRunning, Collect, AfterCycle,
                    In, FailListStep, WaitPhase
    <2>3. CASE CollectWaiting
        BY <2>3 DEF FailListStep
    <2>4. CASE EmitEvents
        BY <2>4 DEF EmitEvents, Collect, Goto, In, FailListStep, WaitPhase
    <2>5. ASSUME NEW i \in ProcessId,
                 DetectExit(i) \/ DetectAlive(i) \/ FlagTarget(i) \/ ScheduleRestart(i)
                   \/ ScheduleBlocks(i)
          PROVE  FailListStep
        BY <2>5 DEF DetectExit, DetectAlive, FlagTarget, ScheduleRestart, ScheduleBlocks,
                    In, Goto, Done, FailListStep, WaitPhase
    <2>6. ASSUME NEW i \in ProcessId,
                 RestartSkips(i) \/ RestartSpawns(i) \/ RestartWaits(i) \/ RestartWedges(i)
          PROVE  FailListStep
        BY <2>6 DEF RestartSkips, RestartSpawns, RestartWaits, RestartWedges, In, Goto, Done,
                    FailListStep, WaitPhase
    <2>7. ASSUME NEW i \in ProcessId, CheckWaiting(i)
          PROVE  FailListStep
        <3>1. PICK spawn \in BOOLEAN, fail \in BOOLEAN :
                 NextCheck(i, spawn, fail) /\ ~(spawn /\ fail)
            BY <2>7 DEF CheckWaiting
        <3>2. rpc = "check" /\ i \in todo
            BY <2>7 DEF CheckWaiting, In
        <3>3. Checks(i)
            BY <3>1, <3>2 DEF NextCheck, Checks
        <3>4. rpc' \notin WaitPhase \cup {"done"} => to_fail' = {}
            BY <3>1 DEF NextCheck, Goto, WaitPhase
        <3>. QED  BY <3>2, <3>3, <3>4 DEF FailListStep
    <2>8. ASSUME NEW i \in ProcessId, SpawnWaiting(i)
          PROVE  FailListStep
        BY <2>8 DEF SpawnWaiting, In, Goto, FailListStep, WaitPhase
    <2>9. ASSUME NEW i \in ProcessId, FailWaiting(i)
          PROVE  FailListStep
        BY <2>9 DEF FailWaiting, In, Goto, FailListStep, WaitPhase
    <2>10. ASSUME NEW i \in ProcessId, FailRunning(i)
           PROVE  FailListStep
        BY <2>10 DEF FailRunning, AfterCycle, In, Goto, Done, FailListStep, WaitPhase
    <2>. QED  BY <1>2, <2>1, <2>2, <2>3, <2>4, <2>5, <2>6, <2>7, <2>8, <2>9, <2>10
              DEF ReaperNext
<1>3. CASE \/ \E q \in Pid : Exits(q)
           \/ \E i \in ProcessId : BackoffElapses(i) \/ UptimeReached(i) \/ DependencyExpires(i)
           \/ Closes \/ UNCHANGED vars
    BY <1>3 DEF Exits, ChildExits, BackoffElapses, UptimeReached, DependencyExpires,
                Closes, CloseChannel, vars, reaperVars, FailListStep
<1>. QED  BY <1>1, <1>2, <1>3 DEF Next

LEMMA FailInductive ==
    ASSUME NInv, WaitInv, FailInv, IdStep, TrackStep, FailListStep
    PROVE  FailInv'
<1>. USE DEF NInv, IInv, IdInv
\* An entry without a child that is not visited stays without.
<1>1. ASSUME NEW i \in ProcessId, Childless(i), ~Visit(i)
      PROVE  Childless(i)'
    <2>1. ASSUME NEW p, Record(i, p)'
          PROVE  p.child = 0
        BY <1>1, <2>1, NotVisited DEF Childless, OldRecord, SameRecord
    <2>. QED  BY <1>1, <2>1, UsedStays DEF Childless
<1>2. ASSUME rpc \in WaitPhase, NEW i \in to_fail
      PROVE  Childless(i)'
    <2>1. i \in ProcessId /\ Childless(i) /\ i \notin to_spawn
        BY <1>2 DEF FailInv, TypeInv, ReaperTypeOK
    <2>2. ~Visit(i)
        BY <1>2, <2>1 DEF Visit, WaitPhase, Respawns, AllOrdinary, Ordinary, At,
                          RestartCallStep
    <2>. QED  BY <1>1, <2>1, <2>2
<1>3. ASSUME rpc = "check", NEW i \in todo
      PROVE  Childless(i)'
    <2>1. i \in ProcessId /\ Childless(i) /\ ~Visit(i)
        BY <1>3 DEF WaitInv, TypeInv, ReaperTypeOK, Visit
    <2>. QED  BY <1>1, <2>1
<1>4. CASE UNCHANGED <<rpc, todo, to_spawn, to_fail>>
    BY <1>2, <1>4 DEF FailInv
<1>5. CASE /\ rpc \notin WaitPhase \cup {"done"} /\ rpc' \notin WaitPhase
           /\ UNCHANGED to_fail
    BY <1>5 DEF FailInv, WaitPhase
<1>6. CASE CollectWaiting
    BY <1>6 DEF CollectWaiting, Collect, In, FailInv, WaitPhase, WaitInv
<1>7. CASE /\ \/ \E i \in ProcessId : Checks(i)
              \/ rpc = "spawn" /\ to_spawn' \subseteq to_spawn /\ to_fail' = to_fail
              \/ rpc = "fail" /\ to_spawn' = to_spawn /\ to_fail' \subseteq to_fail
           /\ rpc' = "check" => rpc = "check"
           /\ rpc' \notin WaitPhase \cup {"done"} => to_fail' = {}
    <2>1. CASE \E i \in ProcessId : Checks(i)
        BY <1>2, <1>3, <1>7, <2>1 DEF Checks, FailInv, WaitPhase
    <2>2. CASE \/ rpc = "spawn" /\ to_spawn' \subseteq to_spawn /\ to_fail' = to_fail
               \/ rpc = "fail" /\ to_spawn' = to_spawn /\ to_fail' \subseteq to_fail
        BY <1>2, <1>7, <2>2 DEF FailInv, WaitPhase
    <2>. QED  BY <1>7, <2>1, <2>2
<1>. QED  BY <1>4, <1>5, <1>6, <1>7 DEF FailListStep

-----------------------------------------------------------------------------
(* No child is lost.                                                       *)

\* A new child comes with the record that holds it.
BirthStep ==
    \A q \in Pid : os[q] = "unborn" /\ os'[q] = "alive" =>
        \E i \in Present' : processes'[i].child = q

LEMMA SpawnedBirth ==
    ASSUME TypeInv, NEW q \in Pid, SpawnOk(q), NEW i \in Present',
           processes'[i].child = q
    PROVE  BirthStep
<1>1. \A r \in Pid \ {q} : os'[r] = os[r]
    BY DEF SpawnOk, TypeInv, TableTypeOK
<1>. QED  BY <1>1 DEF BirthStep

LEMMA SameBirth ==
    ASSUME UNCHANGED os
    PROVE  BirthStep
BY DEF BirthStep

LEMMA StartBirth ==
    ASSUME TypeInv, NEW t \in Threads, StartSpawn(t)
    PROVE  BirthStep
<1>1. PICK id \in ProcessId, c \in Configs : id = calls[t].id /\ c = calls[t].config
    BY CallRecord DEF StartSpawn, TypeInv, At, GoodCall
<1>2. PICK deps \in resolve_dependencies(c.depends_on) :
        \/ \E q \in Pid :
             /\ SpawnOk(q)
             /\ processes' = [PollAll(Visited(deps)) EXCEPT
                                ![id] = NewProcess(c, q, next_spawn_sequence, deps)]
        \/ UNCHANGED os
    BY <1>1 DEF StartSpawn, SpawnFails
<1>3. ASSUME NEW q \in Pid, SpawnOk(q),
             processes' = [PollAll(Visited(deps)) EXCEPT
                             ![id] = NewProcess(c, q, next_spawn_sequence, deps)]
      PROVE  BirthStep
    <2>1. processes'[id] = NewProcess(c, q, next_spawn_sequence, deps)
        BY <1>3, PollAllPutKeeps
    <2>2. deps \in Seq(ProcessId) /\ next_spawn_sequence \in Nat /\ q \in 0 .. MaxPid
        BY IdRange, BindingType DEF TypeInv, TableTypeOK
    <2>3. NewProcess(c, q, next_spawn_sequence, deps) # NoProcess
        BY <2>2, NewProcessType, NoneIsNoProcess
    <2>4. processes'[id].child = q /\ id \in Present'
        BY <2>1, <2>3 DEF NewProcess, Present
    <2>. QED  BY <1>3, <2>4, SpawnedBirth
<1>. QED  BY <1>2, <1>3, SameBirth

LEMMA ReaperBirth ==
    ASSUME TypeInv, NEW i \in ProcessId, RestartSpawns(i) \/ SpawnWaiting(i)
    PROVE  BirthStep
<1>. DEFINE p == processes[i]
<1>1. ASSUME NEW q \in Pid, NEW r, SpawnOk(q), p \in Process, p.config \in Configs,
             processes'[i] = r, r \in Process, r.child = q
      PROVE  BirthStep
    BY <1>1, NoneIsNoProcess, SpawnedBirth DEF Present
<1>2. CASE RestartSpawns(i) /\ ~UNCHANGED os
    <2>1. i \in Present /\ p \in Process /\ p.config \in Configs
          /\ p.resolved_deps \in Seq(ProcessId)
        BY <1>2, PresentProcess DEF RestartSpawns, TypeInv, Process
    <2>2. PICK deps \in resolve_dependencies(p.config.depends_on), q \in Pid :
            /\ SpawnOk(q)
            /\ processes' = [PollAll(Visited(deps)) EXCEPT
                   ![i] = Respawned(p, q, IF deps = <<>> THEN p.resolved_deps ELSE deps)]
        BY <1>2 DEF RestartSpawns, BindingsBelow, SpawnFails
    <2>. DEFINE d == IF deps = <<>> THEN p.resolved_deps ELSE deps
    <2>3. d \in Seq(ProcessId)
        BY <2>1, BindingType
    <2>4. processes'[i] = Respawned(p, q, d)
        BY <2>2, PollAllPutKeeps
    <2>. HIDE DEF d
    <2>5. Respawned(p, q, d) \in Process /\ Respawned(p, q, d).child = q
        BY <2>1, <2>3, RespawnedType DEF Respawned, Process
    <2>. QED  BY <1>1, <2>1, <2>2, <2>4, <2>5
<1>3. CASE SpawnWaiting(i) /\ ~UNCHANGED os
    <2>1. p # NoProcess /\ \E q \in Pid : SpawnOk(q) /\ Put(i, SpawnedWaiting(p, q))
        BY <1>3 DEF SpawnWaiting, SpawnFails
    <2>2. p \in Process /\ p.config \in Configs
        BY <2>1 DEF TypeInv, TableTypeOK, Process
    <2>3. PICK q \in Pid : SpawnOk(q) /\ Put(i, SpawnedWaiting(p, q))
        BY <2>1
    <2>4. processes'[i] = SpawnedWaiting(p, q)
        BY <2>3 DEF Put, TypeInv, TableTypeOK
    <2>5. SpawnedWaiting(p, q) \in Process /\ SpawnedWaiting(p, q).child = q
        BY <2>2, SpawnedWaitingType DEF SpawnedWaiting, Process
    <2>. QED  BY <1>1, <2>2, <2>3, <2>4, <2>5
<1>. QED  BY <1>2, <1>3, SameBirth

LEMMA EveryBirthStep ==
    ASSUME NInv, [Next]_vars
    PROVE  BirthStep
<1>. USE DEF NInv, IInv
<1>1. ASSUME NEW t \in Threads, Calls(t) \/ Steps(t)
      PROVE  BirthStep
    <2>1. CASE StartSpawn(t)
        BY <2>1, StartBirth
    <2>2. CASE RestartInPlace(t) \/ RestartInsert(t)
        BY <2>2 DEF RestartInPlace, RestartInsert, At, AllOrdinary, Ordinary,
                    RestartCallStep
    <2>3. CASE ~StartSpawn(t) /\ ~RestartInPlace(t) /\ ~RestartInsert(t)
        <3>1. UNCHANGED os
            BY <1>1, <2>3 DEF Calls, CallNext, Steps, StepNext, StartCall, StopCall,
               StopManyCall, RestartCall, Poll, DropManager, SendSignal, StartWaiting,
               AwaitReturn, AwaitTimeout, StopCheck, StopCancel, StopUnqueue, StopRemove,
               StopEscalate, StopReap, StopManyRemove, StopManySignal, StopManyEscalate,
               StopManyReap, RestartCheck, RestartBlocks, RestartReset, DropStop
        <3>. QED  BY <3>1, SameBirth
    <2>. QED  BY <2>1, <2>2, <2>3
<1>2. CASE ReaperNext
    <2>1. CASE \E i \in ProcessId : RestartSpawns(i) \/ SpawnWaiting(i)
        BY <2>1, ReaperBirth
    <2>2. CASE ~\E i \in ProcessId : RestartSpawns(i) \/ SpawnWaiting(i)
        <3>1. UNCHANGED os
            BY <1>2, <2>2 DEF ReaperNext, BeginCycle, EndDetect, CollectTargets,
               RemoveExited, EmitEvents, CollectEligible, CollectWaiting, CollectRunning,
               ScheduleResumes, DetectExit, DetectAlive, FlagTarget, ScheduleRestart,
               ScheduleBlocks, RestartSkips, RestartWaits, RestartWedges, CheckWaiting,
               FailWaiting, FailRunning
        <3>. QED  BY <3>1, SameBirth
    <2>. QED  BY <2>1, <2>2
<1>3. ASSUME NEW q \in Pid, Exits(q)
      PROVE  BirthStep
    BY <1>3 DEF Exits, ChildExits, TypeInv, TableTypeOK, BirthStep
<1>4. CASE \/ \E i \in ProcessId : BackoffElapses(i) \/ UptimeReached(i) \/ DependencyExpires(i)
           \/ Closes \/ UNCHANGED vars
    BY <1>4, SameBirth DEF BackoffElapses, UptimeReached, DependencyExpires, Closes,
                           CloseChannel, vars
<1>. QED  BY <1>1, <1>2, <1>3, <1>4 DEF Next

\* A record that is still there holds the child it held, as long as that lives.
LEMMA ChildKept ==
    ASSUME LInv, TrackStep, NEW i \in ProcessId, NEW p, NEW r,
           Record(i, p), Record(i, r)', Alive(p.child)
    PROVE  r.child = p.child
<1>. USE DEF LInv, NInv, IInv, IdInv
<1>1. Used(i)
    BY DEF Record, IdsUsed
<1>2. \A s : Record(i, s) => s = p
    BY DEF Record, OneRecord
<1>3. CASE OldRecord(i, r)
    BY <1>2, <1>3 DEF OldRecord, SameRecord
<1>4. CASE VisitedRecord(i, r)
    <2>1. i \in Present /\ r = processes'[i] /\ Visit(i) /\ p = processes[i] /\ p \in Process
        BY <1>2, <1>4, PresentProcess DEF VisitedRecord, Record, TypeInv
    <2>2. ~Schedules(i)
        BY <2>1 DEF Schedules
    <2>3. ~Respawns(i)
        BY <2>1 DEF Respawns, ListInv, RestartInv, PhaseInv, WaitInv, Childless, AllOrdinary,
                    Ordinary, At, RestartCallStep, Alive
    <2>4. Strikes(i) => r.child = p.child
        BY <2>1 DEF Strikes, Flagged, Process
    <2>5. Requeues(i) => r.child = p.child
        BY <2>1 DEF Requeues, Requeued, Process
    <2>. QED  BY <2>1, <2>2, <2>3, <2>4, <2>5 DEF Visit
<1>. QED  BY <1>1, <1>3, <1>4 DEF TrackStep, FirstRecord

LEMMA OrphanInductive ==
    ASSUME LInv, NoOrphan, RecordStep, TrackStep, FateStep, DoomStep, BirthStep
    PROVE  NoOrphan'
<1>1. SUFFICES ASSUME NEW q \in Pid, Alive(q)', q \notin doomed'
               PROVE  Owned(q)'
    BY DEF NoOrphan
<1>2. CASE os[q] = "unborn"
    <2>1. \E i \in Present' : processes'[i].child = q
        BY <1>1, <1>2 DEF BirthStep, Alive
    <2>. QED  BY <2>1 DEF Owned
<1>3. CASE os[q] # "unborn"
    <2>1. Alive(q) /\ q \notin doomed
        BY <1>1, <1>3 DEF Alive, RecordStep, ChildStep, OsStep, DoomStep
    <2>2. PICK i, p : Record(i, p) /\ p.child = q
        BY <2>1 DEF NoOrphan, Owned, Record, InHand
    <2>3. i \in ProcessId /\ Alive(p.child) /\ ~Gone(p)
        BY <1>1, <2>1, <2>2 DEF Record, Present, Held, Gone
    <2>4. i \in Present' \/ InHands(i)'
        BY <2>2, <2>3 DEF FateStep, MapFate, Fate, HandFate, Record
    <2>5. PICK r : Record(i, r)'
        BY <2>4 DEF Record, InHands
    <2>6. r.child = q
        BY <2>2, <2>3, <2>5, ChildKept
    <2>. QED  BY <2>5, <2>6 DEF Owned, Record, InHand
<1>. QED  BY <1>2, <1>3

OInv == LInv /\ NobodyStops /\ ManyInv /\ BoundInv /\ FailInv /\ NoOrphan

LEMMA OrphanInitial == Init => OInv
<1>1. Init => LInv
    BY NInitial, ReportInitial, OverInitial, PhaseInitial DEF LInv
<1>2. ASSUME Init
      PROVE  NobodyStops /\ ManyInv /\ BoundInv /\ FailInv /\ NoOrphan
    <2>1. \A t \in Threads : calls[t] = Idle /\ Held(t) = {}
        BY <1>2 DEF Init, ManagerInit, Idle, NoneHeld, Held
    <2>2. Present = {} /\ \A q \in Pid : os[q] = "unborn"
        BY <1>2 DEF Init, TableInit, Present
    <2>3. rpc \in {"sleep", "done"} /\ to_fail = {}
        BY <1>2 DEF Init, ReaperInit
    <2>. QED
        BY <2>1, <2>2, <2>3 DEF NobodyStops, Idle, StopStep, ManyInv, ManyOf, ManyStep, At,
           BoundInv, FailInv, WaitPhase, NoOrphan, Alive
<1>. QED  BY <1>1, <1>2 DEF OInv

LEMMA OInductive ==
    ASSUME NoRestart, NoStop, DependentsDie, OInv, [Next]_vars
    PROVE  OInv'
<1>. USE DEF OInv
<1>1. NInv /\ WaitInv /\ IInv /\ TypeInv
    BY DEF LInv, NInv, IInv, PhaseInv
<1>2. RecordStep /\ IdStep /\ TrackStep
    BY <1>1, NSteps
<1>3. FateStep /\ DoomStep /\ BirthStep /\ FailListStep
    BY <1>1, EveryFateStep, EveryDoomStep, EveryBirthStep, EveryFailListStep
<1>4. LInv' /\ NobodyStops'
    BY <1>2, LInvInductive, NobodyStopsInductive
<1>5. ManyInv' /\ BoundInv' /\ FailInv'
    BY <1>1, <1>2, <1>3, ManyInductive, BoundInductive, FailInductive
<1>6. NoOrphan'
    BY <1>2, <1>3, OrphanInductive
<1>. QED  BY <1>4, <1>5, <1>6

\* As long as nobody calls restart() or stop(), and a process with dependencies
\* dies of its kill signal, no child outlives its record: whatever the reaper,
\* stop_many() and Drop take out of the map has exited, has been killed, or is
\* kept until it is.
THEOREM NoChildIsLost ==
    ASSUME NoRestart, NoStop, DependentsDie
    PROVE  Spec => []NoOrphan
<1>1. Init => OInv
    BY OrphanInitial
<1>2. OInv /\ [Next]_vars => OInv'
    BY OInductive
<1>3. OInv => NoOrphan
    BY DEF OInv
<1>. QED  BY <1>1, <1>2, <1>3, PTL DEF Spec

-----------------------------------------------------------------------------
(* Drop.                                                                   *)

Spared(p) == p.config.terminate_on_exit => p.state = "Failed"

\* Drop is alone with the manager, and once it has joined the reaper nobody
\* else touches the map: an entry it has to stop is on its list until it is
\* removed, and what comes back has failed.
DropInv ==
    dropping =>
        /\ \A t \in Threads : calls[t].pc \in {"idle", "drop_join"} \cup ManyStep
        /\ \A t, u \in Threads : t # u => At(t, "idle") \/ At(u, "idle")
        /\ (\A t \in Threads : ~At(t, "drop_join")) =>
              /\ rpc = "done"
              /\ \A i \in Present :
                    \/ Spared(processes[i])
                    \/ \E t \in Threads : At(t, "many_remove") /\ i \in calls[t].ids

\* A step of the dropping thread, which leaves the others idle.
LEMMA DropGoesOn ==
    ASSUME TypeInv, DropInv, dropping, UNCHANGED <<dropping, rpc>>,
           NEW t \in Threads, ~At(t, "idle"), rpc = "done",
           \A u \in Threads \ {t} : calls'[u] = calls[u],
           calls'[t].pc \in {"idle"} \cup ManyStep,
           \A i \in Present' :
              \/ Spared(processes'[i])
              \/ calls'[t].pc = "many_remove" /\ i \in calls'[t].ids
    PROVE  DropInv'
<1>1. \A u \in Threads \ {t} : calls'[u].pc = "idle"
    BY DEF DropInv, At
<1>. QED  BY <1>1 DEF DropInv, At, ManyStep

LEMMA DropStopDrops ==
    ASSUME TypeInv, DropInv, dropping, NEW t \in Threads, DropStop(t),
           \A u \in Threads \ {t} : calls'[u] = calls[u]
    PROVE  DropInv'
<1>. DEFINE ids == {i \in Present : processes[i].config.terminate_on_exit}
            n == [calls[t] EXCEPT !.pc = "many_remove", !.ids = ids]
<1>1. calls[t] \in Call /\ ~At(t, "idle") /\ rpc = "done" /\ UNCHANGED <<dropping, rpc>>
      /\ UNCHANGED processes
    BY CallRecord DEF DropStop, At, TypeInv
<1>2. \/ ids = {} /\ calls'[t] = Idle
      \/ calls'[t] = n
    BY DEF DropStop, Return, Becomes, TypeInv
<1>3. n.pc = "many_remove" /\ n.ids = ids
    <2>. HIDE DEF ids
    <2>. QED  BY <1>1 DEF Call
<1>4. \A i \in Present : Spared(processes[i]) \/ i \in ids
    BY DEF Spared
<1>. HIDE DEF ids, n
<1>5. Present' = Present
    BY <1>1 DEF Present
<1>6. calls'[t].pc \in {"idle"} \cup ManyStep
    BY <1>2, <1>3 DEF Idle, ManyStep
<1>7. \A i \in Present' : \/ Spared(processes'[i])
                          \/ calls'[t].pc = "many_remove" /\ i \in calls'[t].ids
    BY <1>1, <1>2, <1>3, <1>4, <1>5
<1>. QED  BY <1>1, <1>6, <1>7, DropGoesOn

LEMMA ManyRemoveDrops ==
    ASSUME TypeInv, DropInv, dropping, NEW t \in Threads, StopManyRemove(t),
           \A u \in Threads \ {t} : calls'[u] = calls[u]
    PROVE  DropInv'
<1>. DEFINE k == calls[t]
<1>1. k \in Call /\ k.ids \subseteq ProcessId /\ At(t, "many_remove")
      /\ UNCHANGED <<dropping, rpc>>
    BY CallRecord DEF TypeInv, Call, StopManyRemove
<1>2. \A u \in Threads \ {t} : At(u, "idle")
    BY <1>1 DEF DropInv, At
<1>3. /\ rpc = "done"
      /\ \A i \in Present : Spared(processes[i]) \/ i \in k.ids
    BY <1>1, <1>2 DEF DropInv, At
<1>4. PICK i \in k.ids :
        /\ Put(i, NoProcess)
        /\ \/ k.ids \ {i} = {} /\ Return(t)
           \/ \E h : Becomes(t, [k EXCEPT
                   !.pc = IF k.ids \ {i} = {} THEN "many_signal" ELSE "many_remove",
                   !.ids = k.ids \ {i}, !.held = h])
    BY DEF StopManyRemove
<1>. DEFINE ids == k.ids \ {i}
            pc == IF ids = {} THEN "many_signal" ELSE "many_remove"
            n(h) == [k EXCEPT !.pc = pc, !.ids = ids, !.held = h]
<1>5. \A h : n(h).pc = pc /\ n(h).ids = ids
    <2>. HIDE DEF pc, ids
    <2>. QED  BY <1>1 DEF Call
<1>6. (ids = {} /\ Return(t)) \/ \E h : Becomes(t, n(h))
    BY <1>4
<1>. HIDE DEF n
<1>7. (ids = {} /\ calls'[t] = Idle) \/ \E h : calls'[t] = n(h)
    BY <1>6 DEF Return, Becomes, TypeInv
<1>8. calls'[t].pc \in {"idle"} \cup ManyStep
    BY <1>5, <1>7 DEF Idle, ManyStep
<1>9. \A j \in Present' : /\ j \in Present /\ j # i /\ processes'[j] = processes[j]
    BY <1>1, <1>4 DEF Put, Present, TypeInv, TableTypeOK
<1>10. \A j \in Present' : \/ Spared(processes'[j])
                           \/ calls'[t].pc = "many_remove" /\ j \in calls'[t].ids
    BY <1>3, <1>5, <1>7, <1>9
<1>. QED  BY <1>1, <1>3, <1>8, <1>10, DropGoesOn DEF At

LEMMA ManyStepDrops ==
    ASSUME TypeInv, DropInv, dropping, NEW t \in Threads,
           StopManySignal(t) \/ StopManyEscalate(t) \/ StopManyReap(t),
           \A u \in Threads \ {t} : calls'[u] = calls[u]
    PROVE  DropInv'
<1>1. /\ calls[t] \in Call /\ calls[t].pc \in {"many_signal", "many_grace", "many_reap"}
      /\ UNCHANGED <<dropping, rpc>>
    BY CallRecord DEF TypeInv, StopManySignal, StopManyEscalate, StopManyReap, At
<1>2. \A u \in Threads : ~At(u, "drop_join") /\ ~At(u, "many_remove")
    BY <1>1 DEF DropInv, At
<1>3. rpc = "done" /\ \A i \in Present : Spared(processes[i])
    BY <1>2 DEF DropInv
<1>4. calls'[t].pc \in {"idle"} \cup ManyStep
    <2>1. \A h : /\ [calls[t] EXCEPT !.pc = "many_grace", !.held = h].pc = "many_grace"
                 /\ [calls[t] EXCEPT !.pc = "many_reap", !.held = h].pc = "many_reap"
        BY <1>1 DEF Call
    <2>2. \E h : \/ Becomes(t, [calls[t] EXCEPT !.pc = "many_grace", !.held = h])
                 \/ Becomes(t, [calls[t] EXCEPT !.pc = "many_reap", !.held = h])
                 \/ Return(t)
        BY DEF StopManySignal, StopManyEscalate, StopManyReap
    <2>3. \A n : Becomes(t, n) => calls'[t] = n
        BY DEF Becomes, TypeInv
    <2>4. Idle.pc = "idle"
        BY DEF Idle
    <2>. QED  BY <2>1, <2>2, <2>3, <2>4 DEF Return, ManyStep
<1>5. \A i \in Present' : Spared(processes'[i])
    <2>1. CASE StopManySignal(t) \/ StopManyEscalate(t)
        BY <1>3, <2>1 DEF StopManySignal, StopManyEscalate, Present
    <2>2. CASE StopManyReap(t)
        <3>1. ASSUME NEW i \in Reinserted(t)
              PROVE  Spared(processes'[i])
            <4>1. i \in ProcessId /\ calls[t].held[i] \in Process
                BY HeldType DEF Reinserted, TypeInv
            <4>2. processes'[i] = [calls[t].held[i] EXCEPT !.state = "Failed"]
                BY <2>2, <4>1 DEF StopManyReap
            <4>. QED  BY <4>1, <4>2 DEF Process, Spared
        <3>2. ASSUME NEW i \in ProcessId, i \notin Reinserted(t)
              PROVE  processes'[i] = processes[i]
            BY <2>2, <3>2 DEF StopManyReap
        <3>. QED  BY <1>3, <3>1, <3>2 DEF Present
    <2>. QED  BY <2>1, <2>2
<1>. QED  BY <1>1, <1>3, <1>4, <1>5, DropGoesOn DEF At

\* A step that no thread takes.
LEMMA DropFrame ==
    ASSUME TypeInv, DropInv, UNCHANGED <<calls, dropping>>,
           rpc = "done" => rpc' = "done" /\ \A i \in Present' :
                              /\ i \in Present
                              /\ processes'[i].config = processes[i].config
                              /\ processes'[i].state = processes[i].state
    PROVE  DropInv'
BY DEF DropInv, At, Spared

LEMMA TicksDrop ==
    ASSUME TypeInv, DropInv, NEW i \in ProcessId, Ticks(i)
    PROVE  DropInv'
<1>1. UNCHANGED <<calls, dropping, rpc>>
    BY DEF Ticks, BackoffElapses, UptimeReached, DependencyExpires, reaperVars
<1>2. i \in Present /\ processes[i] \in Process
    BY PresentProcess
    DEF Ticks, BackoffElapses, UptimeReached, DependencyExpires, InState, TypeInv
<1>3. \E r : /\ Put(i, r)
             /\ r.config = processes[i].config /\ r.state = processes[i].state
    BY <1>2 DEF Ticks, BackoffElapses, UptimeReached, DependencyExpires, Process
<1>4. \A j \in Present' : /\ j \in Present
                          /\ processes'[j].config = processes[j].config
                          /\ processes'[j].state = processes[j].state
    BY <1>2, <1>3 DEF Put, Present, TypeInv, TableTypeOK
<1>. QED  BY <1>1, <1>4, DropFrame

LEMMA DropInductive ==
    ASSUME NoRestart, NInv, DropInv, [Next]_vars
    PROVE  DropInv'
<1>. USE DEF NInv, IInv
<1>1. ASSUME NEW t \in Threads, Calls(t) \/ Steps(t)
      PROVE  DropInv'
    <2>1. \A u \in Threads \ {t} : calls'[u] = calls[u]
        BY <1>1, CallAlone
    <2>2. CASE DropManager(t)
        <3>1. calls'[t].pc = "drop_join"
            BY <2>2 DEF DropManager, Becomes, Idle, TypeInv
        <3>2. \A u \in Threads \ {t} : calls'[u].pc = "idle"
            BY <2>1, <2>2 DEF DropManager, At
        <3>. QED  BY <3>1, <3>2 DEF DropInv, At
    <2>3. CASE ~dropping /\ ~DropManager(t)
        <3>1. UNCHANGED dropping
            BY <1>1, <2>3 DEF Calls, CallNext, Steps, StepNext, StartCall, StopCall,
               StopManyCall, RestartCall, Poll, SendSignal, StartSpawn, StartWaiting,
               AwaitReturn, AwaitTimeout, StopCheck, StopCancel, StopUnqueue, StopRemove,
               StopEscalate, StopReap, StopManyRemove, StopManySignal, StopManyEscalate,
               StopManyReap, RestartCheck, RestartBlocks, RestartReset, RestartInPlace,
               RestartInsert, DropStop
        <3>. QED  BY <2>3, <3>1 DEF DropInv
    <2>4. CASE dropping
        <3>1. ~Calls(t) /\ ~DropManager(t)
            BY <2>4 DEF Calls, CallNext, StartCall, StopCall, StopManyCall, RestartCall,
                        Poll, DropManager, SendSignal, May
        <3>2. calls[t].pc \in {"idle", "drop_join"} \cup ManyStep
            BY <2>4 DEF DropInv
        <3>3. \/ DropStop(t) \/ StopManyRemove(t)
              \/ StopManySignal(t) \/ StopManyEscalate(t) \/ StopManyReap(t)
            BY <1>1, <3>1, <3>2 DEF Steps, StepNext, StartSpawn, StartWaiting,
               AwaitReturn, AwaitTimeout, StopCheck, StopCancel, StopUnqueue, StopRemove,
               StopEscalate, StopReap, RestartCheck, RestartBlocks, RestartReset,
               RestartInPlace, RestartInsert, At, ManyStep
        <3>. QED  BY <2>1, <2>4, <3>3, DropStopDrops, ManyRemoveDrops, ManyStepDrops
    <2>. QED  BY <2>2, <2>3, <2>4
<1>2. CASE ReaperNext
    <2>1. rpc # "done"
        BY <1>2 DEF ReaperNext, BeginCycle, EndDetect, CollectTargets, RemoveExited,
           EmitEvents, CollectEligible, CollectWaiting, CollectRunning, ScheduleResumes,
           DetectExit, DetectAlive, FlagTarget, ScheduleRestart, ScheduleBlocks,
           RestartSkips, RestartSpawns, RestartWaits, RestartWedges, CheckWaiting,
           SpawnWaiting, FailWaiting, FailRunning, In
    <2>2. UNCHANGED <<calls, dropping>>
        BY <1>2, ReaperUntouched
    <2>. QED  BY <2>1, <2>2, DropFrame
<1>3. ASSUME NEW i \in ProcessId, Ticks(i)
      PROVE  DropInv'
    BY <1>3, TicksDrop
<1>4. CASE (\E q \in Pid : Exits(q)) \/ Closes \/ UNCHANGED vars
    <2>1. UNCHANGED <<processes, calls, dropping, rpc>>
        BY <1>4 DEF Exits, ChildExits, Closes, CloseChannel, vars, reaperVars
    <2>2. Present' = Present
        BY <2>1 DEF Present
    <2>. QED  BY <2>1, <2>2, DropFrame
<1>. QED  BY <1>1, <1>2, <1>3, <1>4 DEF Next, Ticks

\* Under the same conditions, after Drop the only children alive are those that
\* have been sent their signal, those that were not to be terminated, and those
\* it may not kill: nothing is started or put back behind the list Drop works
\* through, and nothing is lost on the way.
THEOREM DropStopsTheRest ==
    ASSUME NoRestart, NoStop, DependentsDie
    PROVE  Spec => []DropStopsAll
<1>1. Init => OInv /\ DropInv
    BY OrphanInitial DEF Init, ManagerInit, DropInv
<1>2. OInv /\ DropInv /\ [Next]_vars => OInv' /\ DropInv'
    BY OInductive, DropInductive DEF OInv, LInv
<1>3. OInv /\ DropInv => DropStopsAll
    <2>1. SUFFICES ASSUME OInv, DropInv, Dropped, NEW q \in Pid, Alive(q), q \notin doomed
                   PROVE  \E i \in Present : processes[i].child = q /\ Spared(processes[i])
        BY DEF DropStopsAll, Spared
    <2>2. \A t \in Threads : Held(t) = {}
        BY <2>1 DEF Dropped, OInv, ManyInv, ManyOf, ManyStep, At, Held, NoneHeld
    <2>3. \E i \in Present : processes[i].child = q
        BY <2>1, <2>2 DEF OInv, NoOrphan, Owned
    <2>4. \A i \in Present : Spared(processes[i])
        BY <2>1 DEF Dropped, DropInv, At
    <2>. QED  BY <2>3, <2>4
<1>. QED  BY <1>1, <1>2, <1>3, PTL DEF Spec

-----------------------------------------------------------------------------
(* Clients without a reaper, restart() and stop() included.                *)

NoDependencies == \A c \in Configs : c.depends_on = <<>>

\* Without a reaper and without dependencies, no process ever waits.
Launched(p) ==
    /\ p.pid # 0 /\ p.child = p.pid
    /\ p.state \notin {"Waiting", "Restarting"}
    /\ p.resolved_deps = <<>>

GraceStep == {"stop_grace", "stop_reap"}

\* A call holds nothing but what it is stopping, and does not let go of it
\* before it has been killed.
AloneCall(t) ==
    LET k == calls[t] IN
    /\ k.pc \in {"idle", "start_insert", "stop_check", "stop_remove", "restart_check",
                 "restart_insert", "drop_join"} \cup GraceStep \cup ManyStep
    /\ k.todo = <<>> /\ ~k.nested
    /\ k.pc \in StopStep /\ k.op = "restart" => k.cur = k.id
    /\ k.pc \notin GraceStep \cup ManyStep => Held(t) = {}
    /\ k.pc \in GraceStep => Held(t) = {k.cur}
    /\ k.pc \in {"stop_grace", "many_grace"} =>
          \A i \in Held(t) : InHand(t, i).state = "Stopping"
    /\ k.pc \in {"stop_reap", "many_reap"} => \A i \in Held(t) : Handled(InHand(t, i))

AloneInv ==
    /\ rpc = "done"
    /\ \A i \in Present : Launched(processes[i])
    /\ \A t \in Threads : AloneCall(t)
    /\ \A t \in Threads : \A i \in Held(t) : Launched(InHand(t, i))

\* The processes only this call may put into the map.
Mine(t) ==
    Held(t) \cup {i \in ProcessId : calls[t].id = i
                                    /\ calls[t].pc \in {"start_insert", "restart_insert"}}

OwnInv ==
    /\ \A t \in Threads : \A i \in Mine(t) : i \notin Present
    /\ \A t, u \in Threads : \A i \in Mine(t) : i \in Mine(u) => t = u
    /\ \A i \in Present : i < next_id
    /\ \A t \in Threads : \A i \in Mine(t) : i < next_id

\* What becomes of these in a step of the call.
OwnStep(t) ==
    /\ \A u \in Threads \ {t} : calls'[u] = calls[u]
    /\ next_id' \in {next_id, next_id + 1}
    /\ \A i \in Present' : i \in Present \cup Mine(t) /\ i \notin Mine(t)'
    /\ \A i \in Mine(t)' :
          i \in Present \cup Mine(t) \/ (i = next_id /\ next_id' = next_id + 1)

\* The children somebody could stop.
Has(t, q) ==
    \/ \E i \in Present : processes[i].child = q
    \/ \E i \in Held(t) : InHand(t, i).child = q

Passes(t) ==
    \A q \in Pid :
        /\ q \notin doomed'
        /\ Alive(q)'
        /\ Alive(q) => Has(t, q)
        => Has(t, q)'

AloneStep(t) ==
    /\ OwnStep(t)
    /\ rpc' = "done"
    /\ \A i \in Present' : Launched(processes'[i])
    /\ AloneCall(t)'
    /\ \A i \in Held(t)' : Launched(InHand(t, i)')
    /\ AllMayBeKilled => Passes(t)

LEMMA OwnInductive ==
    ASSUME TypeInv, OwnInv, NEW t \in Threads, OwnStep(t)
    PROVE  OwnInv'
<1>1. \A u \in Threads \ {t} : Mine(u)' = Mine(u)
    BY DEF OwnStep, Mine, Held
<1>2. \A i \in ProcessId : i < next_id => i < next_id' /\ i # next_id
    BY BoundsAssumption DEF OwnStep, TypeInv, TableTypeOK, ProcessId
<1>3. next_id < next_id + 1
    BY DEF TypeInv, TableTypeOK
<1>4. \A u \in Threads : Mine(u) \subseteq ProcessId
    BY DEF Mine, Held
<1>5. Mine(t)' \subseteq ProcessId /\ Present \subseteq ProcessId /\ Present' \subseteq ProcessId
    BY DEF Mine, Held, Present
<1>6. \A i \in Present' : i < next_id'
    BY <1>2, <1>4, <1>5 DEF OwnStep, OwnInv
<1>7. \A i \in Mine(t)' : i < next_id' /\ i \notin Present'
    BY <1>2, <1>3, <1>4, <1>5 DEF OwnStep, OwnInv
<1>8. ASSUME NEW u \in Threads \ {t}, NEW i \in Mine(u)
      PROVE  i < next_id' /\ i \notin Present' /\ i \notin Mine(t)'
    <2>1. i \notin Present /\ i \notin Mine(t) /\ i < next_id
        BY <1>8 DEF OwnInv
    <2>. QED  BY <1>2, <1>4, <2>1 DEF OwnStep
<1>9. \A u, v \in Threads \ {t} : \A i \in Mine(u) : i \in Mine(v) => u = v
    BY DEF OwnInv
<1>. QED  BY <1>1, <1>6, <1>7, <1>8, <1>9 DEF OwnInv

LEMMA AloneInductive ==
    ASSUME TypeInv, AloneInv, NEW t \in Threads, AloneStep(t), DoomStep, OsStep, HandleInv
    PROVE  AloneInv'
<1>1. \A u \in Threads \ {t} : Held(u)' = Held(u) /\ \A i \in Held(u) : InHand(u, i)' = InHand(u, i)
    BY DEF AloneStep, OwnStep, Held, InHand
<1>2. ASSUME NEW u \in Threads \ {t}, NEW i \in Held(u), Handled(InHand(u, i))
      PROVE  Handled(InHand(u, i))'
    <2>1. PICK p : p = InHand(u, i) /\ p \in Process /\ GoodHandle(p)
        BY HeldType DEF TypeInv, InHand, HandleInv, GoodHandles
    <2>2. Alive(p.child)' => Alive(p.child)
        BY <2>1, AliveBefore
    <2>. QED  BY <1>1, <1>2, <2>1, <2>2 DEF Handled, DoomStep
<1>3. ASSUME NEW u \in Threads \ {t}
      PROVE  AloneCall(u)' /\ \A i \in Held(u)' : Launched(InHand(u, i)')
    <2>1. calls'[u] = calls[u]
        BY <1>3 DEF AloneStep, OwnStep
    <2>. QED  BY <1>1, <1>2, <1>3, <2>1 DEF AloneInv, AloneCall
<1>. QED  BY <1>3 DEF AloneInv, AloneStep

LEMMA OneRecordOwned ==
    ASSUME OwnInv
    PROVE  OneRecord
BY DEF OwnInv, OneRecord, Mine

LEMMA NoneLost ==
    ASSUME TypeInv, NoOrphan, NEW t \in Threads, OwnStep(t), Passes(t), OsStep, DoomStep
    PROVE  NoOrphan'
<1>1. SUFFICES ASSUME NEW q \in Pid, Alive(q)', q \notin doomed'
               PROVE  Owned(q)'
    BY DEF NoOrphan
<1>2. Has(t, q)' => Owned(q)'
    BY DEF Has, Owned, InHand
<1>3. CASE Has(t, q) \/ ~Alive(q)
    BY <1>1, <1>2, <1>3 DEF Passes
<1>4. CASE ~Has(t, q) /\ Alive(q)
    <2>1. PICK u \in Threads : \E i \in Held(u) : calls[u].held[i].child = q
        BY <1>1, <1>4 DEF NoOrphan, Owned, Has, InHand, DoomStep
    <2>2. u # t
        BY <1>4, <2>1 DEF Has, InHand
    <2>3. calls'[u] = calls[u]
        BY <2>1, <2>2 DEF OwnStep
    <2>. QED  BY <2>1, <2>3 DEF Owned, Held
<1>. QED  BY <1>3, <1>4

-----------------------------------------------------------------------------
(* Their actions, one by one.                                              *)

\* A call that holds nothing and goes on, or ends.
Empty(k) == k.todo = <<>> /\ ~k.nested /\ k.held = NoneHeld

Rests(t) ==
    /\ \A u \in Threads \ {t} : calls'[u] = calls[u]
    /\ Empty(calls'[t])
    /\ calls'[t].pc \in {"idle", "stop_check", "stop_remove", "restart_check", "drop_join",
                         "many_remove"}
    /\ calls'[t].pc \in {"stop_check", "stop_remove"} /\ calls'[t].op = "restart"
          => calls'[t].cur = calls'[t].id

\* stop() has ended.
Ended(t) ==
    \/ Rests(t)
    \/ /\ \A u \in Threads \ {t} : calls'[u] = calls[u]
       /\ Empty(calls'[t])
       /\ calls'[t].pc = "restart_insert" /\ calls[t].op = "restart"
       /\ calls'[t].id = calls[t].id

LEMMA RestsAlone ==
    ASSUME TypeInv, NEW t \in Threads, Rests(t)
    PROVE  AloneCall(t)' /\ Mine(t)' = {} /\ Held(t)' = {}
<1>1. Held(t)' = {}
    BY DEF Rests, Empty, Held, NoneHeld
<1>. QED  BY <1>1 DEF Rests, Empty, AloneCall, Mine, GraceStep, ManyStep, StopStep

LEMMA EndedAlone ==
    ASSUME TypeInv, NEW t \in Threads, Ended(t)
    PROVE  /\ AloneCall(t)' /\ Held(t)' = {}
           /\ \A i \in Mine(t)' : calls[t].op = "restart" /\ i = calls[t].id
<1>1. Held(t)' = {}
    BY DEF Ended, Rests, Empty, Held, NoneHeld
<1>2. CASE Rests(t)
    BY <1>2, RestsAlone
<1>. QED  BY <1>1, <1>2
    DEF Ended, Empty, AloneCall, Mine, GraceStep, ManyStep, StopStep

LEMMA ReturnRests ==
    ASSUME TypeInv, NEW t \in Threads, Return(t)
    PROVE  Rests(t) /\ calls'[t] = Idle
BY DEF Return, Becomes, Idle, Rests, Empty, TypeInv

LEMMA StoppedEnds ==
    ASSUME TypeInv, NEW t \in Threads, AloneCall(t), Stopped(t, <<>>)
    PROVE  Ended(t)
<1>. DEFINE k == calls[t]
            n == [k EXCEPT !.pc = "restart_insert", !.nested = FALSE, !.held = NoneHeld]
<1>1. CASE Return(t)
    BY <1>1, ReturnRests DEF Ended
<1>2. CASE k.op = "restart" /\ Becomes(t, n)
    <2>1. Empty(n) /\ n.pc = "restart_insert" /\ n.id = k.id
        BY CallRecord DEF Call, TypeInv, AloneCall, Empty
    <2>. HIDE DEF n
    <2>2. calls'[t] = n /\ \A u \in Threads \ {t} : calls'[u] = calls[u]
        BY <1>2 DEF Becomes, TypeInv
    <2>. QED  BY <1>2, <2>1, <2>2 DEF Ended
<1>. QED  BY <1>1, <1>2 DEF Stopped

LEMMA StopFailedEnds ==
    ASSUME TypeInv, NEW t \in Threads, AloneCall(t), StopFailed(t)
    PROVE  Rests(t)
BY ReturnRests DEF StopFailed, AloneCall

LEMMA RestartedRests ==
    ASSUME TypeInv, NEW t \in Threads, Restarted(t)
    PROVE  Rests(t)
<1>. DEFINE n == [Idle EXCEPT !.pc = "restart_check", !.op = "restart", !.ids = calls[t].ids]
<1>1. CASE Becomes(t, n)
    <2>1. Empty(n) /\ n.pc = "restart_check"
        BY DEF Idle, Empty
    <2>. HIDE DEF n
    <2>. QED  BY <1>1, <2>1 DEF Becomes, Rests, TypeInv
<1>. QED  BY <1>1, ReturnRests DEF Restarted

\* A step that leaves the map and the hands as they are.
LEMMA SameAlone ==
    ASSUME TypeInv, AloneInv, OwnInv, NEW t \in Threads,
           UNCHANGED <<processes, os, next_id, rpc>>, Held(t) = {},
           Rests(t) \/ UNCHANGED calls
    PROVE  AloneStep(t)
<1>1. AloneCall(t)' /\ Mine(t)' \subseteq Mine(t) /\ Held(t)' = {}
    <2>1. CASE Rests(t)
        BY <2>1, RestsAlone
    <2>2. CASE UNCHANGED calls
        BY <2>2 DEF AloneInv, AloneCall, Mine, Held
    <2>. QED  BY <2>1, <2>2
<1>2. \A u \in Threads \ {t} : calls'[u] = calls[u]
    BY DEF Rests
<1>3. Present' = Present
    BY DEF Present
<1>4. OwnStep(t)
    BY <1>1, <1>2, <1>3 DEF OwnStep, OwnInv
<1>5. Passes(t)
    BY <1>3 DEF Passes, Has, Alive
<1>. QED  BY <1>1, <1>3, <1>4, <1>5 DEF AloneStep, AloneInv

LEMMA CallAloneStep ==
    ASSUME TypeInv, AloneInv, OwnInv, NoDependencies, NEW t \in Threads, Calls(t)
    PROVE  AloneStep(t)
<1>1. Calls(t) => At(t, "idle") /\ Held(t) = {}
    BY DEF Calls, CallNext, StartCall, StopCall, StopManyCall, RestartCall, Poll,
           DropManager, SendSignal, May, At, AloneInv, AloneCall, GraceStep, ManyStep
<1>2. CASE StartCall(t)
    <2>1. PICK op \in {"start", "start_with_deps"}, c \in Configs :
            /\ next_id <= MaxId
            /\ Becomes(t, [Idle EXCEPT !.pc = "start_insert", !.op = op,
                                       !.id = next_id, !.config = c])
        BY <1>2 DEF StartCall, NoDependencies
    <2>. DEFINE n == [Idle EXCEPT !.pc = "start_insert", !.op = op,
                                  !.id = next_id, !.config = c]
    <2>2. Empty(n) /\ n.pc = "start_insert" /\ n.id = next_id
        BY DEF Idle, Empty
    <2>3. Becomes(t, n)
        BY <2>1
    <2>. HIDE DEF n
    <2>4. calls'[t] = n /\ \A u \in Threads \ {t} : calls'[u] = calls[u]
        BY <2>3 DEF Becomes, TypeInv
    <2>5. Held(t)' = {} /\ Mine(t)' \subseteq {next_id}
        BY <2>2, <2>4 DEF Held, Mine, Empty, NoneHeld
    <2>6. Present' = Present /\ next_id' = next_id + 1 /\ UNCHANGED <<processes, os, rpc>>
        BY <1>2 DEF StartCall, Present
    <2>7. next_id \notin Present
        BY BoundsAssumption DEF OwnInv, TypeInv, TableTypeOK
    <2>8. OwnStep(t)
        BY <2>4, <2>5, <2>6, <2>7 DEF OwnStep
    <2>9. AloneCall(t)'
        BY <2>2, <2>4, <2>5 DEF AloneCall, Empty, GraceStep, ManyStep, StopStep
    <2>10. Passes(t)
        BY <1>1, <2>6 DEF Passes, Has, Alive
    <2>. QED  BY <2>5, <2>6, <2>8, <2>9, <2>10 DEF AloneStep, AloneInv
<1>3. CASE StopCall(t)
    <2>1. PICK i :
            Becomes(t, [Idle EXCEPT !.pc = "stop_check", !.op = "stop", !.id = i, !.cur = i])
        BY <1>3 DEF StopCall
    <2>. DEFINE n == [Idle EXCEPT !.pc = "stop_check", !.op = "stop", !.id = i, !.cur = i]
    <2>2. Empty(n) /\ n.pc = "stop_check" /\ n.op = "stop"
        BY DEF Idle, Empty
    <2>. HIDE DEF n
    <2>3. Rests(t)
        BY <2>1, <2>2 DEF n, Becomes, Rests, TypeInv
    <2>. QED  BY <1>1, <1>3, <2>3, SameAlone DEF StopCall, Calls
<1>4. CASE StopManyCall(t) \/ RestartCall(t) \/ DropManager(t)
    <2>. DEFINE many(ids) == [Idle EXCEPT !.pc = "many_remove", !.op = "stop_many",
                                         !.ids = ids]
                restart(ids) == [Idle EXCEPT !.pc = "restart_check", !.op = "restart",
                                             !.ids = ids]
                drop == [Idle EXCEPT !.pc = "drop_join", !.op = "drop"]
    <2>1. \E ids : Becomes(t, many(ids)) \/ Becomes(t, restart(ids)) \/ Becomes(t, drop)
        BY <1>4 DEF StopManyCall, RestartCall, DropManager
    <2>2. \A ids : /\ Empty(many(ids)) /\ many(ids).pc = "many_remove"
                   /\ Empty(restart(ids)) /\ restart(ids).pc = "restart_check"
                   /\ Empty(drop) /\ drop.pc = "drop_join"
        BY DEF Idle, Empty
    <2>. HIDE DEF many, restart, drop
    <2>3. PICK n : /\ Becomes(t, n) /\ Empty(n)
                   /\ n.pc \in {"many_remove", "restart_check", "drop_join"}
        BY <2>1, <2>2
    <2>4. Rests(t)
        BY <2>3 DEF Becomes, Rests, TypeInv
    <2>. QED  BY <1>1, <1>4, <2>4, SameAlone
         DEF StopManyCall, RestartCall, DropManager, Calls
<1>5. CASE Poll(t)
    <2>1. PICK i \in Present : Put(i, Polled(processes[i]))
        BY <1>5 DEF Poll
    <2>2. UNCHANGED <<calls, os, next_id, rpc>>
        BY <1>5 DEF Poll
    <2>3. processes[i] \in Process /\ Launched(processes[i])
        BY PresentProcess DEF TypeInv, AloneInv
    <2>4. Polled(processes[i]) \in Process /\ Launched(Polled(processes[i]))
          /\ Polled(processes[i]).child = processes[i].child
        <3>1. PICK p \in Process : p = processes[i] /\ Launched(p)
            BY <2>3
        <3>2. Launched(Polled(p)) /\ Polled(p).child = p.child
            BY <3>1 DEF Polled, Launched, Process
        <3>. QED  BY <3>1, <3>2, PolledType
    <2>5. /\ processes'[i] = Polled(processes[i])
          /\ \A j \in ProcessId \ {i} : processes'[j] = processes[j]
        BY <2>1 DEF Put, TypeInv, TableTypeOK, Present
    <2>6. Present' = Present
        BY <2>4, <2>5, NoneIsNoProcess DEF Present
    <2>7. Mine(t)' = Mine(t) /\ Held(t)' = {} /\ AloneCall(t)'
        BY <1>1, <2>2 DEF Mine, Held, AloneInv, AloneCall
    <2>8. OwnStep(t)
        BY <2>2, <2>6, <2>7 DEF OwnStep, OwnInv
    <2>9. \A j \in Present : /\ processes'[j].child = processes[j].child
                             /\ Launched(processes'[j])
        BY <2>4, <2>5 DEF AloneInv, Present
    <2>10. Passes(t)
        BY <1>1, <2>2, <2>6, <2>9 DEF Passes, Has, Alive
    <2>. QED  BY <2>2, <2>6, <2>7, <2>8, <2>9, <2>10 DEF AloneStep, AloneInv
<1>6. CASE \E i \in ProcessId : SendSignal(t, i)
    BY <1>1, <1>6, SameAlone DEF SendSignal, Calls
<1>. QED  BY <1>2, <1>3, <1>4, <1>5, <1>6 DEF Calls, CallNext

\* No process waits and no entry is Restarting, and none is bound to another.
LEMMA NoneWaits ==
    ASSUME TypeInv, AloneInv, NoDependencies, NEW t \in Threads
    PROVE  /\ ~StartWaiting(t) /\ ~AwaitReturn(t) /\ ~AwaitTimeout(t)
           /\ ~StopCancel(t) /\ ~StopUnqueue(t)
           /\ ~RestartBlocks(t) /\ ~RestartReset(t) /\ ~RestartInPlace(t)
<1>1. calls[t].pc \notin {"await_deps", "stop_cancel", "stop_unqueue", "restart_reset",
                          "restart_wait", "restart_in_place"}
    BY DEF AloneInv, AloneCall, GraceStep, ManyStep
<1>2. ~StartWaiting(t)
    <2>1. SUFFICES ASSUME StartWaiting(t)
                   PROVE  FALSE
        OBVIOUS
    <2>2. calls[t].config \in Configs
        BY <2>1, CallRecord DEF StartWaiting, At, TypeInv, GoodCall
    <2>3. calls[t].config.depends_on = <<>>
        BY <2>2 DEF NoDependencies
    <2>4. \A deps \in resolve_dependencies(<<>>) : deps = <<>>
        BY DEF resolve_dependencies
    <2>5. all_deps_running(<<>>)
        BY DEF all_deps_running
    <2>. QED  BY <2>1, <2>3, <2>4, <2>5 DEF StartWaiting
<1>. QED  BY <1>1, <1>2 DEF At, AwaitReturn, AwaitTimeout, StopCancel, StopUnqueue,
          RestartBlocks, RestartReset, RestartInPlace

LEMMA InsertAlone ==
    ASSUME TypeInv, AloneInv, OwnInv, NEW t \in Threads, NEW i \in Mine(t), Held(t) = {},
           Rests(t), NEW q \in Pid, SpawnOk(q), NEW c \in Configs,
           Put(i, NewProcess(c, q, next_spawn_sequence, <<>>)), UNCHANGED <<next_id, rpc>>
    PROVE  AloneStep(t)
<1>. DEFINE n == NewProcess(c, q, next_spawn_sequence, <<>>)
<1>1. i \in ProcessId /\ i \notin Present
    BY DEF Mine, Held, OwnInv
<1>2. n # NoProcess /\ Launched(n) /\ n.child = q
    <2>1. n \in Process
        <3>1. next_spawn_sequence \in Nat /\ <<>> \in Seq(ProcessId) /\ q \in 0 .. MaxPid
            BY IdRange DEF TypeInv, TableTypeOK
        <3>. QED  BY <3>1, NewProcessType
    <2>2. q # 0
        BY DEF Pid
    <2>. QED  BY <2>1, <2>2, NoneIsNoProcess DEF Launched, NewProcess
<1>. HIDE DEF n
<1>3. processes'[i] = n /\ \A j \in ProcessId \ {i} : processes'[j] = processes[j]
    BY <1>1 DEF Put, TypeInv, TableTypeOK, n
<1>4. Present' = Present \cup {i} /\ \A j \in Present : processes'[j] = processes[j]
    BY <1>1, <1>2, <1>3 DEF Present
<1>5. AloneCall(t)' /\ Mine(t)' = {} /\ Held(t)' = {}
    BY RestsAlone
<1>6. OwnStep(t)
    BY <1>4, <1>5 DEF OwnStep, Rests
<1>7. \A r \in Pid : r # q => os'[r] = os[r]
    BY DEF SpawnOk, TypeInv, TableTypeOK
<1>8. Passes(t)
    <2>1. SUFFICES ASSUME NEW r \in Pid, Alive(r)', Alive(r) => Has(t, r)
                   PROVE  Has(t, r)'
        BY DEF Passes
    <2>2. CASE r = q
        BY <1>2, <1>3, <1>4, <2>2 DEF Has
    <2>3. CASE r # q
        BY <1>4, <1>7, <2>1, <2>3 DEF Has, Alive
    <2>. QED  BY <2>2, <2>3
<1>9. \A j \in Present' : Launched(processes'[j])
    BY <1>2, <1>3, <1>4 DEF AloneInv
<1>. QED  BY <1>5, <1>6, <1>8, <1>9 DEF AloneStep, AloneInv

LEMMA StartSpawnAlone ==
    ASSUME TypeInv, AloneInv, OwnInv, NoDependencies, NEW t \in Threads, StartSpawn(t)
    PROVE  AloneStep(t)
<1>. DEFINE c == calls[t].config
            i == calls[t].id
<1>1. i \in ProcessId /\ c \in Configs /\ At(t, "start_insert")
    BY CallRecord DEF StartSpawn, At, TypeInv, GoodCall
<1>2. i \in Mine(t) /\ Held(t) = {}
    BY <1>1 DEF Mine, At, AloneInv, AloneCall, GraceStep, ManyStep
<1>3. Rests(t) /\ UNCHANGED <<next_id, rpc>>
    BY ReturnRests DEF StartSpawn
<1>4. \A deps \in resolve_dependencies(c.depends_on) : deps = <<>>
    BY <1>1 DEF NoDependencies, resolve_dependencies
<1>5. Visited(<<>>) = {}
    BY DEF Visited
<1>6. PollAll({}) = processes
    <2>1. PollAll({}) = [j \in ProcessId |-> processes[j]]
        BY DEF PollAll
    <2>. QED  BY <2>1 DEF TypeInv, TableTypeOK
<1>7. \/ \E q \in Pid : SpawnOk(q) /\ Put(i, NewProcess(c, q, next_spawn_sequence, <<>>))
      \/ UNCHANGED <<os, processes>>
    <2>1. PICK deps \in resolve_dependencies(c.depends_on) :
            \/ \E q \in Pid :
                 /\ SpawnOk(q)
                 /\ processes' = [PollAll(Visited(deps)) EXCEPT
                                    ![i] = NewProcess(c, q, next_spawn_sequence, deps)]
            \/ UNCHANGED os /\ processes' = PollAll(Visited(deps))
        BY DEF StartSpawn, SpawnFails
    <2>. QED  BY <1>4, <1>5, <1>6, <2>1 DEF Put
<1>. QED  BY <1>1, <1>2, <1>3, <1>7, InsertAlone, SameAlone

LEMMA RestartInsertAlone ==
    ASSUME TypeInv, AloneInv, OwnInv, NEW t \in Threads, RestartInsert(t)
    PROVE  AloneStep(t)
<1>. DEFINE c == calls[t].config
            i == calls[t].id
<1>1. i \in ProcessId /\ c \in Configs /\ At(t, "restart_insert")
    BY CallRecord DEF RestartInsert, At, TypeInv, GoodCall
<1>2. i \in Mine(t) /\ Held(t) = {}
    BY <1>1 DEF Mine, At, AloneInv, AloneCall, GraceStep, ManyStep
<1>3. UNCHANGED <<next_id, rpc>> /\ Rests(t)
    BY ReturnRests, RestartedRests DEF RestartInsert
<1>4. \/ \E q \in Pid : SpawnOk(q) /\ Put(i, NewProcess(c, q, next_spawn_sequence, <<>>))
      \/ UNCHANGED <<os, processes>>
    BY DEF RestartInsert, SpawnFails
<1>. QED  BY <1>1, <1>2, <1>3, <1>4, InsertAlone, SameAlone

LEMMA LookAlone ==
    ASSUME TypeInv, AloneInv, OwnInv, NEW t \in Threads,
           StopCheck(t) \/ RestartCheck(t) \/ DropStop(t)
    PROVE  AloneStep(t)
<1>. DEFINE k == calls[t]
<1>1. k \in Call /\ AloneCall(t)
    BY CallRecord DEF TypeInv, AloneInv
<1>2. k.pc \in {"stop_check", "restart_check", "drop_join"}
    BY DEF StopCheck, RestartCheck, DropStop, At
<1>3. Empty(k) /\ Held(t) = {}
    <2>1. k.held \in [ProcessId -> Process \cup {NoProcess}]
        BY <1>1 DEF Call
    <2>2. Held(t) = {}
        BY <1>1, <1>2 DEF AloneCall, GraceStep, ManyStep
    <2>3. \A i \in ProcessId : k.held[i] = NoProcess
        BY <2>2 DEF Held
    <2>4. k.held = NoneHeld
        BY <2>1, <2>3 DEF NoneHeld
    <2>. QED  BY <1>1, <2>2, <2>4 DEF Empty, AloneCall
<1>4. UNCHANGED <<processes, os, next_id, rpc>>
    BY DEF StopCheck, RestartCheck, DropStop
<1>5. ASSUME NEW n, Becomes(t, n), Empty(n),
             n.pc \in {"stop_check", "stop_remove", "many_remove"},
             n.pc # "many_remove" /\ n.op = "restart" => n.cur = n.id
      PROVE  Rests(t)
    BY <1>5 DEF Becomes, Rests, TypeInv
<1>6. CASE StopCheck(t)
    <2>. DEFINE p == processes[k.cur]
    <2>1. CASE p = NoProcess
        BY <1>1, <1>6, <2>1, StopFailedEnds, <1>3, <1>4, SameAlone DEF StopCheck
    <2>2. CASE p # NoProcess
        <3>. DEFINE n == [k EXCEPT !.pc = "stop_remove", !.pid = p.pid,
                                   !.cascade = p.config.cascade_stop]
        <3>1. k.cur \in ProcessId
            BY <1>2, <1>6, CallRecord DEF StopCheck, At, TypeInv, GoodCall, StopStep
        <3>2. p.state \notin {"Waiting", "Restarting"}
            BY <2>2, <3>1 DEF AloneInv, Launched, Present
        <3>3. Becomes(t, n)
            BY <1>6, <2>2, <3>2 DEF StopCheck
        <3>4. /\ Empty(n) /\ n.pc = "stop_remove"
              /\ n.op = k.op /\ n.cur = k.cur /\ n.id = k.id
            BY <1>1, <1>3 DEF Call, Empty
        <3>5. k.op = "restart" => k.cur = k.id
            BY <1>1, <1>6 DEF AloneCall, StopCheck, At, StopStep
        <3>. HIDE DEF n
        <3>. QED  BY <1>3, <1>4, <1>5, <3>3, <3>4, <3>5, SameAlone
    <2>. QED  BY <2>1, <2>2
<1>7. CASE RestartCheck(t)
    <2>1. PICK i \in k.ids :
            IF processes[i] = NoProcess THEN Return(t)
            ELSE Becomes(t, [k EXCEPT
                     !.pc = IF processes[i].state = "Restarting" THEN "restart_reset"
                            ELSE "stop_check",
                     !.id = i, !.cur = i, !.config = processes[i].config, !.ids = @ \ {i}])
        BY <1>7 DEF RestartCheck
    <2>2. CASE processes[i] = NoProcess
        BY <1>3, <1>4, <2>1, <2>2, ReturnRests, SameAlone
    <2>3. CASE processes[i] # NoProcess
        <3>. DEFINE n == [k EXCEPT !.pc = "stop_check", !.id = i, !.cur = i,
                                   !.config = processes[i].config, !.ids = @ \ {i}]
        <3>1. i \in ProcessId
            BY <1>1 DEF Call
        <3>2. processes[i].state # "Restarting"
            BY <2>3, <3>1 DEF AloneInv, Launched, Present
        <3>3. Becomes(t, n)
            BY <2>1, <2>3, <3>2
        <3>4. Empty(n) /\ n.pc = "stop_check" /\ n.cur = i /\ n.id = i
            BY <1>1, <1>3 DEF Call, Empty
        <3>. HIDE DEF n
        <3>. QED  BY <1>3, <1>4, <1>5, <3>3, <3>4, SameAlone
    <2>. QED  BY <2>2, <2>3
<1>8. CASE DropStop(t)
    <2>1. PICK ids : Return(t) \/ Becomes(t, [k EXCEPT !.pc = "many_remove", !.ids = ids])
        BY <1>8 DEF DropStop
    <2>. DEFINE n == [k EXCEPT !.pc = "many_remove", !.ids = ids]
    <2>2. Empty(n) /\ n.pc = "many_remove"
        BY <1>1, <1>3 DEF Call, Empty
    <2>3. Return(t) \/ Becomes(t, n)
        BY <2>1
    <2>. HIDE DEF n
    <2>. QED  BY <1>3, <1>4, <1>5, <2>2, <2>3, ReturnRests, SameAlone
<1>. QED  BY <1>6, <1>7, <1>8

\* A signal reaches the child of a process, or there is none left.
LEMMA KillAnswer ==
    ASSUME TypeInv, HandleInv, AllMayBeKilled, NEW p \in Process, GoodHandle(p), Launched(p)
    PROVE  Alive(p.child) => KillResult(p) = "Ok"
<1>1. p.config \in Configs
    BY DEF Process
<1>. QED  BY <1>1, KillReaches DEF AllMayBeKilled

LEMMA HandKinds ==
    ASSUME TypeInv, HandleInv, AloneInv, NEW t \in Threads, NEW i \in Held(t)
    PROVE  /\ i \in ProcessId /\ InHand(t, i) \in Process
           /\ GoodHandle(InHand(t, i)) /\ Launched(InHand(t, i))
BY HeldType DEF TypeInv, HandleInv, GoodHandles, AloneInv, InHand

\* stop() is done with what it has taken.
LEMMA EndAlone ==
    ASSUME TypeInv, AloneInv, OwnInv, NEW t \in Threads, calls[t].pc \in GraceStep,
           Ended(t), UNCHANGED <<processes, os, next_id, rpc>>,
           AllMayBeKilled =>
              \A i \in Held(t) : Alive(InHand(t, i).child) => InHand(t, i).child \in doomed'
    PROVE  AloneStep(t)
<1>1. /\ AloneCall(t)' /\ Held(t)' = {}
      /\ \A i \in Mine(t)' : calls[t].op = "restart" /\ i = calls[t].id
    BY EndedAlone
<1>2. Mine(t)' \subseteq Mine(t)
    BY <1>1 DEF AloneInv, AloneCall, GraceStep, StopStep, Mine
<1>3. Present' = Present
    BY DEF Present
<1>4. OwnStep(t)
    BY <1>2, <1>3 DEF OwnStep, OwnInv, Ended, Rests
<1>5. AllMayBeKilled => Passes(t)
    BY <1>3 DEF Passes, Has, Alive
<1>. QED  BY <1>1, <1>3, <1>4, <1>5 DEF AloneStep, AloneInv

LEMMA StopEscalateAlone ==
    ASSUME TypeInv, HandleInv, AloneInv, OwnInv, NEW t \in Threads, StopEscalate(t)
    PROVE  AloneStep(t)
<1>. DEFINE k == calls[t]
            p == k.held[k.cur]
<1>1. k \in Call /\ AloneCall(t) /\ k.pc = "stop_grace"
    BY CallRecord DEF TypeInv, AloneInv, StopEscalate, At
<1>2. Held(t) = {k.cur} /\ p = InHand(t, k.cur) /\ p.state = "Stopping"
    BY <1>1 DEF AloneCall, GraceStep, InHand
<1>3. p \in Process /\ GoodHandle(p) /\ Launched(p)
    BY <1>2, HandKinds
<1>4. is_alive(Polled(p).state)
    BY <1>2 DEF Polled, Polls, is_alive
<1>5. UNCHANGED <<processes, os, next_id, rpc>>
    BY DEF StopEscalate
<1>6. CASE KillResult(p) = "Ok"
    <2>. DEFINE n == [k EXCEPT !.pc = "stop_reap"]
    <2>1. doomed' = doomed \cup {p.pid} /\ Becomes(t, n)
        BY <1>4, <1>6 DEF StopEscalate, force_kill
    <2>2. /\ n.pc = "stop_reap" /\ n.held = k.held /\ n.todo = k.todo
          /\ n.nested = k.nested /\ n.op = k.op /\ n.id = k.id /\ n.cur = k.cur
        BY <1>1 DEF Call
    <2>. HIDE DEF n
    <2>3. calls'[t] = n /\ \A u \in Threads \ {t} : calls'[u] = calls[u]
        BY <2>1 DEF Becomes, TypeInv
    <2>4. /\ Held(t)' = Held(t) /\ Mine(t)' = Mine(t) /\ Present' = Present
          /\ \A i \in Held(t) : InHand(t, i)' = InHand(t, i)
        BY <1>1, <1>5, <2>2, <2>3 DEF Held, Mine, InHand, Present
    <2>5. ASSUME NEW i \in Held(t)
          PROVE  Handled(InHand(t, i))'
        <3>1. PICK r : r = InHand(t, i) /\ r = p
            BY <1>2
        <3>2. InHand(t, i)' = r /\ r.child \in doomed'
            BY <1>3, <2>1, <2>4, <3>1 DEF Launched
        <3>. QED  BY <3>2 DEF Handled
    <2>6. AloneCall(t)'
        BY <1>1, <1>2, <2>2, <2>3, <2>4, <2>5 DEF AloneCall, GraceStep, ManyStep, StopStep
    <2>7. OwnStep(t)
        BY <1>5, <2>3, <2>4 DEF OwnStep, OwnInv
    <2>8. Passes(t)
        BY <1>5, <2>4 DEF Passes, Has, Alive
    <2>. QED  BY <1>5, <2>4, <2>6, <2>7, <2>8 DEF AloneStep, AloneInv
<1>7. CASE KillResult(p) # "Ok"
    <2>1. Ended(t)
        BY <1>1, <1>7, StoppedEnds DEF StopEscalate, AloneCall
    <2>2. AllMayBeKilled => ~Alive(p.child)
        BY <1>3, <1>7, KillAnswer
    <2>. QED  BY <1>1, <1>2, <1>5, <2>1, <2>2, EndAlone DEF GraceStep
<1>. QED  BY <1>6, <1>7

LEMMA NoCascade ==
    ASSUME TypeInv, AloneInv, NEW t \in Threads, NEW i, NEW cascade,
           NEW s \in Cascade(t, cascade, Dependents(i))
    PROVE  s = <<>>
<1>1. calls[t].todo = <<>>
    BY DEF AloneInv, AloneCall
<1>2. Dependents(i) = {}
    BY DEF Dependents, AloneInv, Launched
<1>3. \A l \in Listings({}) : l = <<>>
    BY BoundsAssumption DEF Listings
<1>. QED  BY <1>1, <1>2, <1>3 DEF Cascade

LEMMA StopReapAlone ==
    ASSUME TypeInv, HandleInv, AloneInv, OwnInv, NEW t \in Threads, StopReap(t)
    PROVE  AloneStep(t)
<1>1. AloneCall(t) /\ calls[t].pc = "stop_reap"
    BY DEF AloneInv, StopReap, At
<1>2. Stopped(t, <<>>)
    BY NoCascade DEF StopReap
<1>3. Ended(t)
    BY <1>1, <1>2, StoppedEnds
<1>4. ASSUME AllMayBeKilled, NEW i \in Held(t), Alive(InHand(t, i).child)
      PROVE  InHand(t, i).child \in doomed'
    <2>1. InHand(t, i).config \in Configs
        BY HandKinds DEF Process
    <2>2. UNCHANGED doomed
        BY DEF StopReap
    <2>. QED  BY <1>1, <1>4, <2>1, <2>2 DEF AloneCall, Handled, AllMayBeKilled
<1>5. UNCHANGED <<processes, os, next_id, rpc>>
    BY DEF StopReap
<1>. QED  BY <1>1, <1>3, <1>4, <1>5, EndAlone DEF GraceStep

LEMMA StopRemoveAlone ==
    ASSUME TypeInv, HandleInv, AloneInv, OwnInv, NEW t \in Threads, StopRemove(t)
    PROVE  AloneStep(t)
<1>. DEFINE k == calls[t]
            i == k.cur
            p == processes[i]
<1>1. /\ k \in Call /\ AloneCall(t) /\ k.pc = "stop_remove" /\ i \in ProcessId
      /\ Held(t) = {}
    BY CallRecord DEF TypeInv, AloneInv, AloneCall, GraceStep, ManyStep, StopRemove, At,
                      GoodCall, StopStep
<1>2. UNCHANGED <<os, next_id, rpc>>
    BY DEF StopRemove
<1>3. /\ processes'[i] = NoProcess
      /\ \A j \in ProcessId \ {i} : processes'[j] = processes[j]
    BY <1>1 DEF StopRemove, Put, TypeInv, TableTypeOK
<1>4. /\ Present' = Present \ {i}
      /\ \A j \in Present' : processes'[j] = processes[j]
    BY <1>3 DEF Present
<1>5. k.op = "restart" => i = k.id
    BY <1>1 DEF AloneCall, StopStep
<1>6. CASE p = NoProcess
    <2>1. UNCHANGED processes
        BY <1>6 DEF StopRemove, Put, TypeInv, TableTypeOK
    <2>2. Rests(t)
        BY <1>1, <1>6, StopFailedEnds DEF StopRemove
    <2>. QED  BY <1>1, <1>2, <2>1, <2>2, SameAlone
<1>7. CASE p # NoProcess /\ KillResult(p) = "Ok"
    <2>1. p \in Process /\ Launched(p) /\ i \in Present
        BY <1>1, <1>7 DEF Present, AloneInv, TypeInv, TableTypeOK
    <2>. DEFINE r == [p EXCEPT !.state = "Stopping"]
                n == [k EXCEPT !.pc = "stop_grace", !.held[i] = r]
    <2>2. r # NoProcess /\ Launched(r) /\ r.state = "Stopping" /\ r.child = p.child
        <3>1. \A s \in Process : LET e == [s EXCEPT !.state = "Stopping"] IN
                 /\ e \in Process /\ e.state = "Stopping" /\ e.child = s.child
                 /\ Launched(s) => Launched(e)
            BY DEF Process, ProcessState, Launched
        <3>. QED  BY <2>1, <3>1, NoneIsNoProcess
    <2>. HIDE DEF r
    <2>3. Becomes(t, n)
        BY <1>7 DEF StopRemove, r
    <2>4. /\ n.pc = "stop_grace" /\ n.todo = k.todo /\ n.nested = k.nested
          /\ n.op = k.op /\ n.id = k.id /\ n.cur = i
          /\ n.held[i] = r /\ \A j \in ProcessId \ {i} : n.held[j] = k.held[j]
        BY <1>1 DEF Call
    <2>. HIDE DEF n
    <2>5. calls'[t] = n /\ \A u \in Threads \ {t} : calls'[u] = calls[u]
        BY <2>3 DEF Becomes, TypeInv
    <2>6. Held(t)' = {i} /\ calls'[t].held[i] = r
        BY <1>1, <2>2, <2>4, <2>5 DEF Held, InHand
    <2>7. Mine(t)' = {i}
        BY <2>4, <2>5, <2>6 DEF Mine
    <2>8. OwnStep(t)
        BY <1>2, <1>4, <2>1, <2>5, <2>7 DEF OwnStep
    <2>9. AloneCall(t)'
        BY <1>1, <1>5, <2>2, <2>4, <2>5, <2>6
        DEF AloneCall, GraceStep, ManyStep, StopStep, InHand
    <2>10. Passes(t)
        <3>1. SUFFICES ASSUME NEW q \in Pid, Alive(q)', Alive(q) => Has(t, q)
                       PROVE  Has(t, q)'
            BY DEF Passes
        <3>2. PICK j \in Present : processes[j].child = q
            BY <1>1, <1>2, <3>1 DEF Has, Alive
        <3>3. CASE j = i
            BY <2>2, <2>6, <3>2, <3>3 DEF Has, InHand
        <3>4. CASE j # i
            BY <1>4, <3>2, <3>4 DEF Has
        <3>. QED  BY <3>3, <3>4
    <2>11. \A j \in Present' : Launched(processes'[j])
        BY <1>4 DEF AloneInv
    <2>12. \A j \in Held(t)' : Launched(InHand(t, j)')
        BY <2>2, <2>6 DEF InHand
    <2>13. rpc' = "done"
        BY <1>2 DEF AloneInv
    <2>. QED  BY <2>8, <2>9, <2>10, <2>11, <2>12, <2>13 DEF AloneStep
<1>8. CASE p # NoProcess /\ KillResult(p) # "Ok"
    <2>1. p \in Process /\ Launched(p) /\ GoodHandle(p) /\ i \in Present
        BY <1>1, <1>8 DEF Present, AloneInv, TypeInv, TableTypeOK, HandleInv, GoodHandles
    <2>2. Ended(t)
        <3>1. KillResult(p) \in {"ESRCH", "EPERM"}
            BY <1>8 DEF KillResult
        <3>2. Stopped(t, <<>>) \/ StopFailed(t)
            BY <1>1, <1>8, <3>1 DEF StopRemove, AloneCall
        <3>. QED  BY <1>1, <3>2, StoppedEnds, StopFailedEnds DEF Ended
    <2>3. /\ AloneCall(t)' /\ Held(t)' = {}
          /\ \A j \in Mine(t)' : j = i
        BY <1>5, <2>2, EndedAlone
    <2>4. OwnStep(t)
        BY <1>2, <1>4, <2>1, <2>2, <2>3 DEF OwnStep, Ended, Rests
    <2>5. ASSUME AllMayBeKilled
          PROVE  Passes(t)
        <3>1. SUFFICES ASSUME NEW q \in Pid, Alive(q)', Alive(q) => Has(t, q)
                       PROVE  Has(t, q)'
            BY DEF Passes
        <3>2. PICK j \in Present : processes[j].child = q
            BY <1>1, <1>2, <3>1 DEF Has, Alive
        <3>3. ~Alive(p.child)
            BY <1>8, <2>1, <2>5, KillAnswer
        <3>4. j # i
            BY <1>2, <3>1, <3>2, <3>3 DEF Alive
        <3>5. j \in Present' /\ processes'[j].child = q
            BY <1>4, <3>2, <3>4
        <3>. QED  BY <3>5 DEF Has
    <2>6. \A j \in Present' : Launched(processes'[j])
        BY <1>4 DEF AloneInv
    <2>7. rpc' = "done"
        BY <1>2 DEF AloneInv
    <2>. QED  BY <2>3, <2>4, <2>5, <2>6, <2>7 DEF AloneStep
<1>. QED  BY <1>6, <1>7, <1>8

LEMMA ManyRemoveAlone ==
    ASSUME TypeInv, HandleInv, AloneInv, OwnInv, NEW t \in Threads, StopManyRemove(t)
    PROVE  AloneStep(t)
<1>. DEFINE k == calls[t]
<1>1. k \in Call /\ AloneCall(t) /\ k.pc = "many_remove" /\ k.ids \subseteq ProcessId
      /\ k.held \in [ProcessId -> Process \cup {NoProcess}]
    BY CallRecord DEF TypeInv, AloneInv, Call, StopManyRemove, At
<1>2. UNCHANGED <<os, next_id, rpc>>
    BY DEF StopManyRemove
<1>3. PICK i \in k.ids :
        LET p == processes[i]
            ids == k.ids \ {i}
            held == IF p = NoProcess THEN k.held
                    ELSE IF p.pid = 0 THEN k.held ELSE [k.held EXCEPT ![i] = p]
        IN /\ Put(i, NoProcess)
           /\ IF ids = {} /\ held = NoneHeld THEN Return(t)
              ELSE Becomes(t, [k EXCEPT
                       !.pc = IF ids = {} THEN "many_signal" ELSE "many_remove",
                       !.ids = ids, !.held = held])
    BY DEF StopManyRemove
<1>. DEFINE p == processes[i]
            held == IF i \in Present THEN [k.held EXCEPT ![i] = p] ELSE k.held
            pc == IF k.ids \ {i} = {} THEN "many_signal" ELSE "many_remove"
            n == [k EXCEPT !.pc = pc, !.ids = k.ids \ {i}, !.held = held]
<1>4. i \in ProcessId /\ Put(i, NoProcess)
    BY <1>1, <1>3
<1>5. i \in Present => p \in Process /\ Launched(p) /\ p # NoProcess /\ p.pid # 0
    BY PresentProcess DEF TypeInv, AloneInv, Launched, Present
<1>6. \/ Becomes(t, n)
      \/ Return(t) /\ held = NoneHeld
    BY <1>3, <1>4, <1>5 DEF Present
<1>7. /\ held \in [ProcessId -> Process \cup {NoProcess}]
      /\ held[i] = IF i \in Present THEN p ELSE k.held[i]
      /\ \A j \in ProcessId \ {i} : held[j] = k.held[j]
    BY <1>1, <1>4, <1>5
<1>8. pc \in {"many_signal", "many_remove"}
    OBVIOUS
<1>. HIDE DEF held, pc
<1>9. /\ calls'[t].held = held /\ calls'[t].todo = <<>> /\ ~calls'[t].nested
      /\ \/ calls'[t].pc \in {"many_signal", "many_remove"}
         \/ held = NoneHeld /\ calls'[t].pc = "idle"
      /\ \A u \in Threads \ {t} : calls'[u] = calls[u]
    <2>1. /\ n.held = held /\ n.pc = pc /\ n.todo = <<>> /\ ~n.nested
        BY <1>1 DEF Call, AloneCall
    <2>. HIDE DEF n
    <2>2. Becomes(t, n) => calls'[t] = n /\ \A u \in Threads \ {t} : calls'[u] = calls[u]
        BY DEF Becomes, TypeInv
    <2>3. Return(t) => /\ calls'[t].held = NoneHeld /\ calls'[t].pc = "idle"
                       /\ calls'[t].todo = <<>> /\ ~calls'[t].nested
                       /\ \A u \in Threads \ {t} : calls'[u] = calls[u]
        BY ReturnRests DEF Rests, Empty, Idle
    <2>. QED  BY <1>6, <1>8, <2>1, <2>2, <2>3
<1>. HIDE DEF n
<1>10. /\ processes'[i] = NoProcess
       /\ \A j \in ProcessId \ {i} : processes'[j] = processes[j]
    BY <1>4 DEF Put, TypeInv, TableTypeOK
<1>11. /\ Present' = Present \ {i}
       /\ \A j \in Present' : processes'[j] = processes[j]
    BY <1>10 DEF Present
<1>12. /\ Held(t)' = Held(t) \cup (Present \cap {i})
       /\ \A j \in Held(t)' : InHand(t, j)' = IF j = i /\ i \in Present THEN p ELSE InHand(t, j)
       /\ i \in Present => i \notin Held(t)
    <2>1. i \in Present => i \notin Held(t)
        BY DEF OwnInv, Mine
    <2>. QED  BY <1>4, <1>5, <1>7, <1>9, <2>1 DEF Held, InHand, Present
<1>13. Mine(t)' = Held(t)' /\ Mine(t) = Held(t)
    BY <1>1, <1>9 DEF Mine
<1>14. OwnStep(t)
    BY <1>2, <1>9, <1>11, <1>12, <1>13 DEF OwnStep, OwnInv
<1>15. \A j \in Held(t)' : Launched(InHand(t, j)')
    BY <1>5, <1>12 DEF AloneInv
<1>16. AloneCall(t)'
    <2>1. calls'[t].pc = "idle" => Held(t)' = {}
        BY <1>9 DEF Held, NoneHeld
    <2>. QED  BY <1>9, <2>1 DEF AloneCall, GraceStep, ManyStep, StopStep
<1>17. Passes(t)
    <2>1. SUFFICES ASSUME NEW q \in Pid, Alive(q)', Alive(q) => Has(t, q)
                   PROVE  Has(t, q)'
        BY DEF Passes
    <2>2. Has(t, q)
        BY <1>2, <2>1 DEF Alive
    <2>3. CASE \E j \in Present : processes[j].child = q
        BY <1>11, <1>12, <2>3 DEF Has
    <2>4. CASE \E j \in Held(t) : InHand(t, j).child = q
        BY <1>12, <2>4 DEF Has
    <2>. QED  BY <2>2, <2>3, <2>4 DEF Has
<1>. QED  BY <1>2, <1>11, <1>14, <1>15, <1>16, <1>17 DEF AloneStep, AloneInv

LEMMA ManySignalAlone ==
    ASSUME TypeInv, HandleInv, AloneInv, OwnInv, NEW t \in Threads,
           StopManySignal(t) \/ StopManyEscalate(t)
    PROVE  AloneStep(t)
<1>. DEFINE k == calls[t]
            pc == IF At(t, "many_signal") THEN "many_grace" ELSE "many_reap"
            marked == [i \in ProcessId |-> IF i \in Held(t)
                                           THEN [k.held[i] EXCEPT !.state = "Stopping"]
                                           ELSE NoProcess]
<1>1. k \in Call /\ AloneCall(t) /\ k.pc \in {"many_signal", "many_grace"}
      /\ UNCHANGED <<processes, os, next_id, rpc>>
    BY CallRecord DEF TypeInv, AloneInv, StopManySignal, StopManyEscalate, At
<1>2. ASSUME NEW i \in Held(t)
      PROVE  LET r == [k.held[i] EXCEPT !.state = "Stopping"] IN
             /\ r # NoProcess /\ Launched(r) /\ r.state = "Stopping"
             /\ r.child = k.held[i].child
             /\ k.held[i].state = "Stopping" => r = k.held[i]
    <2>1. PICK p \in Process : p = k.held[i] /\ Launched(p)
        BY HandKinds DEF InHand
    <2>2. LET r == [p EXCEPT !.state = "Stopping"] IN
             /\ r \in Process /\ Launched(r) /\ r.state = "Stopping" /\ r.child = p.child
             /\ p.state = "Stopping" => r = p
        BY <2>1 DEF Process, ProcessState, Launched
    <2>. QED  BY <2>1, <2>2, NoneIsNoProcess
<1>3. k.pc = "many_grace" => \A i \in Held(t) : is_alive(Polled(k.held[i]).state)
    BY <1>1 DEF AloneCall, InHand, Polled, Polls, is_alive
<1>4. Becomes(t, [k EXCEPT !.pc = pc, !.held = marked])
    <2>1. CASE StopManySignal(t)
        BY <2>1 DEF StopManySignal, At
    <2>2. CASE StopManyEscalate(t)
        <3>. DEFINE left == {i \in Held(t) : is_alive(Polled(k.held[i]).state)}
        <3>1. left = Held(t) /\ At(t, "many_grace")
            BY <1>3, <2>2 DEF StopManyEscalate, At
        <3>2. Becomes(t, [k EXCEPT !.pc = "many_reap",
                                   !.held = [i \in ProcessId |-> IF i \in left THEN k.held[i]
                                                                 ELSE NoProcess]])
            BY <2>2 DEF StopManyEscalate
        <3>. HIDE DEF left
        <3>3. [i \in ProcessId |-> IF i \in left THEN k.held[i] ELSE NoProcess] = marked
            BY <1>1, <1>2, <3>1 DEF AloneCall, At, InHand
        <3>. QED  BY <3>1, <3>2, <3>3 DEF At
    <2>. QED  BY <2>1, <2>2
<1>5. /\ calls'[t].held = marked /\ calls'[t].pc = pc /\ calls'[t].todo = <<>>
      /\ ~calls'[t].nested /\ \A u \in Threads \ {t} : calls'[u] = calls[u]
    <2>. DEFINE n == [k EXCEPT !.pc = pc, !.held = marked]
    <2>. HIDE DEF marked, pc
    <2>1. n.held = marked /\ n.pc = pc /\ n.todo = <<>> /\ ~n.nested
        BY <1>1 DEF Call, AloneCall
    <2>2. Becomes(t, n)
        BY <1>4
    <2>. HIDE DEF n
    <2>. QED  BY <2>1, <2>2 DEF Becomes, TypeInv
<1>6. Held(t)' = Held(t)
    BY <1>2, <1>5 DEF Held
<1>7. ASSUME NEW i \in Held(t)
      PROVE  /\ calls'[t].held[i].state = "Stopping" /\ Launched(calls'[t].held[i])
             /\ calls'[t].held[i].child = k.held[i].child
    BY <1>2, <1>5 DEF Held
<1>8. ASSUME pc = "many_reap", NEW i \in Held(t)
      PROVE  Handled(InHand(t, i))'
    <2>1. At(t, "many_grace") /\ StopManyEscalate(t)
        BY <1>8 DEF StopManySignal, StopManyEscalate, At
    <2>2. PICK p : p = InHand(t, i) /\ p \in Process /\ GoodHandle(p) /\ Launched(p)
        BY HandKinds
    <2>3. p.state = "Stopping"
        BY <1>1, <2>1, <2>2 DEF AloneCall, At
    <2>4. InHand(t, i)' = p
        BY <1>2, <1>5, <2>2, <2>3 DEF InHand, Held
    <2>5. force_kill(p) \subseteq doomed'
        BY <1>3, <2>1, <2>2 DEF StopManyEscalate, At, InHand
    <2>6. Alive(p.child) /\ p.config.on_kill # "denied" => p.child \in force_kill(p)
        BY <2>2, KillReaches DEF force_kill
    <2>7. Alive(p.child)' <=> Alive(p.child)
        BY <1>1 DEF Alive
    <2>. QED  BY <2>4, <2>5, <2>6, <2>7 DEF Handled
<1>9. Present' = Present /\ Mine(t)' = Mine(t)
    BY <1>1, <1>5, <1>6 DEF Present, Mine
<1>. HIDE DEF marked, pc
<1>10. OwnStep(t)
    BY <1>1, <1>5, <1>9 DEF OwnStep, OwnInv
<1>11. AloneCall(t)'
    BY <1>5, <1>6, <1>7, <1>8 DEF AloneCall, pc, GraceStep, ManyStep, StopStep, InHand
<1>12. Passes(t)
    BY <1>1, <1>6, <1>7, <1>9 DEF Passes, Has, InHand, Alive
<1>. QED  BY <1>1, <1>6, <1>7, <1>9, <1>10, <1>11, <1>12 DEF AloneStep, AloneInv, InHand

LEMMA ManyReapAlone ==
    ASSUME TypeInv, HandleInv, AloneInv, OwnInv, NEW t \in Threads, StopManyReap(t)
    PROVE  AloneStep(t)
<1>1. AloneCall(t) /\ calls[t].pc = "many_reap" /\ UNCHANGED <<os, doomed, next_id, rpc>>
    BY DEF AloneInv, StopManyReap, At
<1>2. Rests(t)
    BY ReturnRests DEF StopManyReap
<1>3. AloneCall(t)' /\ Mine(t)' = {} /\ Held(t)' = {}
    BY <1>2, RestsAlone
<1>4. Reinserted(t) \subseteq Held(t)
    BY DEF Reinserted
<1>5. ASSUME NEW i \in Reinserted(t)
      PROVE  /\ i \in ProcessId /\ processes'[i] # NoProcess /\ Launched(processes'[i])
             /\ processes'[i].child = InHand(t, i).child
    <2>1. i \in ProcessId
        BY <1>4 DEF Held
    <2>2. PICK p \in Process : p = InHand(t, i) /\ Launched(p)
        BY <1>4, HandKinds
    <2>3. processes'[i] = [p EXCEPT !.state = "Failed"]
        BY <2>1, <2>2 DEF StopManyReap, InHand
    <2>4. LET r == [p EXCEPT !.state = "Failed"] IN
             r \in Process /\ Launched(r) /\ r.child = p.child
        BY <2>2 DEF Process, ProcessState, Launched
    <2>. QED  BY <2>1, <2>2, <2>3, <2>4, NoneIsNoProcess
<1>6. \A i \in ProcessId \ Reinserted(t) : processes'[i] = processes[i]
    BY DEF StopManyReap
<1>7. Reinserted(t) \cap Present = {}
    BY <1>4 DEF OwnInv, Mine
<1>8. /\ Present' = Present \cup Reinserted(t)
      /\ \A i \in Present : processes'[i] = processes[i]
    BY <1>5, <1>6, <1>7 DEF Present
<1>9. OwnStep(t)
    BY <1>1, <1>2, <1>3, <1>4, <1>8 DEF OwnStep, Rests, Mine
<1>10. ASSUME AllMayBeKilled
       PROVE  Passes(t)
    <2>1. SUFFICES ASSUME NEW q \in Pid, q \notin doomed', Alive(q)', Alive(q) => Has(t, q)
                   PROVE  Has(t, q)'
        BY DEF Passes
    <2>2. CASE \E i \in Present : processes[i].child = q
        BY <1>8, <2>2 DEF Has
    <2>3. ASSUME NEW i \in Held(t), InHand(t, i).child = q
          PROVE  FALSE
        <3>1. Handled(InHand(t, i)) /\ InHand(t, i).config \in Configs
            BY <1>1, HandKinds DEF AloneCall, Process
        <3>. QED  BY <1>1, <1>10, <2>1, <2>3, <3>1 DEF Handled, AllMayBeKilled, Alive
    <2>. QED  BY <1>1, <2>1, <2>2, <2>3 DEF Has, Alive
<1>11. \A i \in Present' : Launched(processes'[i])
    BY <1>5, <1>8 DEF AloneInv
<1>. QED  BY <1>1, <1>3, <1>9, <1>10, <1>11 DEF AloneStep, AloneInv

LEMMA ClientAlone ==
    ASSUME TypeInv, HandleInv, AloneInv, OwnInv, NoDependencies, NEW t \in Threads,
           Calls(t) \/ Steps(t)
    PROVE  AloneStep(t)
<1>1. CASE Calls(t)
    BY <1>1, CallAloneStep
<1>2. CASE Steps(t)
    BY <1>2, NoneWaits, StartSpawnAlone, LookAlone, StopRemoveAlone, StopEscalateAlone,
       StopReapAlone, ManyRemoveAlone, ManySignalAlone, ManyReapAlone, RestartInsertAlone
    DEF Steps, StepNext
<1>. QED  BY <1>1, <1>2

\* What clients do not do leaves the map alone, as there is no reaper.
Elsewhere ==
    /\ UNCHANGED <<processes, calls, next_id, rpc>>
    /\ doomed \subseteq doomed'
    /\ \A q \in Pid : Alive(q)' => Alive(q)

LEMMA OthersElsewhere ==
    ASSUME TypeInv, AloneInv, [Next]_vars,
           ~\E t \in Threads : Calls(t) \/ Steps(t)
    PROVE  Elsewhere
<1>1. rpc = "done" /\ InState({"Waiting"}) = {}
    BY DEF AloneInv, InState, Launched
<1>2. ~ReaperNext
    BY <1>1 DEF ReaperNext, In, BeginCycle, EndDetect, CollectTargets, RemoveExited,
       EmitEvents, CollectEligible, CollectWaiting, CollectRunning, ScheduleResumes,
       DetectExit, DetectAlive, FlagTarget, ScheduleRestart, ScheduleBlocks, RestartSkips,
       RestartSpawns, RestartWaits, RestartWedges, CheckWaiting, SpawnWaiting, FailWaiting,
       FailRunning
<1>3. \A i \in ProcessId : ~BackoffElapses(i) /\ ~UptimeReached(i) /\ ~DependencyExpires(i)
    BY <1>1 DEF BackoffElapses, UptimeReached, DependencyExpires, In
<1>4. ASSUME NEW q \in Pid, Exits(q)
      PROVE  Elsewhere
    <2>1. PICK s \in ExitStatuses : os' = [os EXCEPT ![q] = s]
        BY <1>4 DEF Exits, ChildExits
    <2>2. s # "alive"
        BY EnvironmentAssumption
    <2>3. \A r \in Pid : os'[r] = "alive" => os[r] = "alive"
        BY <2>1, <2>2 DEF TypeInv, TableTypeOK
    <2>4. UNCHANGED <<processes, calls, next_id, rpc, doomed>>
        BY <1>4 DEF Exits, ChildExits, reaperVars
    <2>. QED  BY <2>3, <2>4 DEF Elsewhere, Alive
<1>5. CASE Closes \/ UNCHANGED vars
    <2>1. UNCHANGED <<processes, calls, next_id, rpc, doomed, os>>
        BY <1>5 DEF Closes, CloseChannel, vars, reaperVars
    <2>. QED  BY <2>1 DEF Elsewhere, Alive
<1>. QED  BY <1>2, <1>3, <1>4, <1>5 DEF Next

LEMMA ElsewhereAlone ==
    ASSUME TypeInv, HandleInv, AloneInv, OwnInv, Elsewhere
    PROVE  AloneInv' /\ OwnInv' /\ (NoOrphan => NoOrphan')
<1>1. /\ Present' = Present
      /\ \A t \in Threads : /\ Held(t)' = Held(t) /\ Mine(t)' = Mine(t)
                            /\ \A i \in Held(t) : InHand(t, i)' = InHand(t, i)
    BY DEF Elsewhere, Present, Held, Mine, InHand
<1>2. OwnInv'
    BY <1>1 DEF OwnInv, Elsewhere
<1>3. ASSUME NEW t \in Threads, NEW i \in Held(t), Handled(InHand(t, i))
      PROVE  Handled(InHand(t, i))'
    <2>1. PICK p : p = InHand(t, i) /\ p \in Process
        BY HandKinds
    <2>2. Alive(p.child)' => Alive(p.child)
        BY <2>1, HandlePid DEF Alive, Elsewhere
    <2>. QED  BY <1>1, <1>3, <2>1, <2>2 DEF Handled, Elsewhere
<1>4. \A t \in Threads : AloneCall(t)'
    BY <1>1, <1>3 DEF AloneInv, AloneCall, Elsewhere
<1>5. AloneInv'
    BY <1>1, <1>4 DEF AloneInv, Elsewhere
<1>6. \A q \in Pid : Owned(q)' <=> Owned(q)
    BY <1>1 DEF Owned, Elsewhere
<1>7. NoOrphan => NoOrphan'
    BY <1>6 DEF NoOrphan, Elsewhere
<1>. QED  BY <1>2, <1>5, <1>7

LEMMA AloneInitial ==
    ASSUME ~HasReaper, Init
    PROVE  AloneInv /\ OwnInv /\ NoOrphan
<1>1. Present = {} /\ rpc = "done" /\ \A q \in Pid : ~Alive(q)
    BY DEF Init, TableInit, ReaperInit, Present, Alive
<1>2. \A t \in Threads : calls[t] = Idle /\ Held(t) = {}
    BY DEF Init, ManagerInit, Idle, NoneHeld, Held
<1>3. \A t \in Threads : AloneCall(t) /\ Mine(t) = {}
    BY <1>2 DEF AloneCall, Mine, Idle, GraceStep, ManyStep, StopStep
<1>. QED  BY <1>1, <1>2, <1>3 DEF AloneInv, OwnInv, NoOrphan

\* What any number of clients keep without a reaper.
UnattendedInv == IInv /\ HandleInv /\ AloneInv /\ OwnInv

LEMMA UnattendedStep ==
    ASSUME NoDependencies, UnattendedInv, [Next]_vars
    PROVE  UnattendedInv' /\ (AllMayBeKilled /\ NoOrphan => NoOrphan')
<1>1. IInv' /\ RecordStep /\ DoomStep
    BY Inductive, EveryStep, EveryDoomStep DEF UnattendedInv, IInv
<1>2. HandleInv'
    BY <1>1, HandlesInductive DEF UnattendedInv, IInv
<1>3. CASE \E t \in Threads : Calls(t) \/ Steps(t)
    <2>1. PICK t \in Threads : AloneStep(t)
        BY <1>3, ClientAlone DEF UnattendedInv, IInv
    <2>2. OsStep
        BY <1>1 DEF RecordStep, ChildStep
    <2>. QED  BY <1>1, <1>2, <2>1, <2>2, OwnInductive, AloneInductive, NoneLost
         DEF AloneStep, UnattendedInv, IInv
<1>4. CASE ~\E t \in Threads : Calls(t) \/ Steps(t)
    BY <1>1, <1>2, <1>4, OthersElsewhere, ElsewhereAlone DEF UnattendedInv, IInv
<1>. QED  BY <1>3, <1>4

\* Any number of clients may start, stop and restart the same processes: as
\* long as there is no reaper and no process depends on another, a process
\* has one record.  What a call has taken out of the map only that call can
\* put back, or replace.
THEOREM ClientsKeepOneRecord ==
    ASSUME ~HasReaper, NoDependencies
    PROVE  Spec => []OneRecord
<1>1. Init => UnattendedInv
    BY Initial, HandlesInitial, AloneInitial DEF UnattendedInv
<1>2. UnattendedInv /\ [Next]_vars => UnattendedInv'
    BY UnattendedStep
<1>3. UnattendedInv => OneRecord
    BY OneRecordOwned DEF UnattendedInv
<1>. QED  BY <1>1, <1>2, <1>3, PTL DEF Spec

\* And they lose no child, if every process may be killed: stop() lets go of
\* one that it may not signal.
THEOREM ClientsLoseNoChild ==
    ASSUME ~HasReaper, NoDependencies, AllMayBeKilled
    PROVE  Spec => []NoOrphan
<1>1. Init => UnattendedInv /\ NoOrphan
    BY Initial, HandlesInitial, AloneInitial DEF UnattendedInv
<1>2. UnattendedInv /\ NoOrphan /\ [Next]_vars => UnattendedInv' /\ NoOrphan'
    BY UnattendedStep
<1>. QED  BY <1>1, <1>2, PTL DEF Spec
=============================================================================
