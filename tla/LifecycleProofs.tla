--------------------------- MODULE LifecycleProofs ---------------------------
(***************************************************************************)
(* Without restart(), the system implements Lifecycle, for every number of *)
(* clients and processes.                                                  *)
(*                                                                         *)
(* Lifecycle speaks of each process alone.  A step of the system is, for   *)
(* one process, what it does to its record (TrackStep, RecordStep) and to  *)
(* its events (EventStep); what is missing is that the reaper spawns       *)
(* a child only for a process whose last one is dead and reported, which   *)
(* takes more about its lists (PhaseInv).                                  *)
(***************************************************************************)
EXTENDS NoRestartProofs, LifecycleRefinement

USE DEF mapVars, osVars, eventVars, tableVars, managerVars, scratch

\* What the theorems of the modules that extend this one need of the children:
\* stop_many() puts back what it may not kill, and stop() lets go of it.
AllMayBeKilled == \A c \in Configs : c.on_kill # "denied"

-----------------------------------------------------------------------------
(* The last child of a process.                                            *)

ReportedOf(i, q) == \E k \in DOMAIN events[i] : events[i][k].exited /\ events[i][k].pid = q

\* A child whose handle has been released is dead and has been reported.
Released ==
    \A i \in ProcessId : \A p :
        Record(i, p) /\ p.child = 0 /\ p.pid # 0
            => p.pid \in reaped /\ ReportedOf(i, p.pid)

\* So is that of a process about to be restarted.
ScheduledReported ==
    rpc \in Scheduling =>
        \A i \in todo : Used(i) /\ \A p : Record(i, p) => ReportedOf(i, p.pid)

\* What waits to be spawned has no child.
Childless(i) == Used(i) /\ \A p : Record(i, p) => p.child = 0

WaitInv ==
    /\ rpc = "check" => \A i \in todo : Childless(i)
    /\ \A i \in to_spawn : Childless(i)
    /\ rpc \notin {"check", "spawn"} => to_spawn = {}

\* stop() works on ids that were once in the map, one at a time.
EarlyStop == {"stop_check", "stop_cancel", "stop_unqueue", "stop_remove"}

UsedIds == {i \in ProcessId : Used(i)}

StopInv ==
    \A t \in Threads : calls[t].pc \in StopStep =>
        /\ calls[t].cur \in UsedIds /\ calls[t].todo \in Seq(UsedIds)
        /\ calls[t].pc \in EarlyStop => calls[t].held = NoneHeld

PhaseInv == Released /\ ScheduledReported /\ CurListed /\ WaitInv /\ StopInv

-----------------------------------------------------------------------------
(* The lists of Phase 5.                                                   *)

WaitListStep ==
    /\ rpc' = "check" =>
          \/ rpc = "check" /\ todo' \subseteq todo
          \/ CollectWaiting /\ todo' = InState({"Waiting"})
    /\ to_spawn' \subseteq to_spawn \cup (IF rpc = "check" THEN todo ELSE {})
    /\ rpc' \notin {"check", "spawn"} =>
          to_spawn' = {} \/ (rpc \notin {"check", "spawn"} /\ UNCHANGED to_spawn)

LEMMA SameWaitLists ==
    ASSUME UNCHANGED <<rpc, todo, to_spawn>>
    PROVE  WaitListStep
BY DEF WaitListStep

LEMMA EveryWaitListStep ==
    ASSUME [Next]_vars
    PROVE  WaitListStep
<1>1. ASSUME NEW t \in Threads, Calls(t) \/ Steps(t)
      PROVE  WaitListStep
    <2>1. UNCHANGED <<rpc, todo, to_spawn>>
        BY <1>1 DEF Calls, CallNext, Steps, StepNext, StartCall, StopCall,
           StopManyCall, RestartCall, Poll, DropManager, SendSignal, StartSpawn, StartWaiting,
           AwaitReturn, AwaitTimeout, StopCheck, StopCancel, StopUnqueue, StopRemove,
           StopEscalate, StopReap, StopManyRemove, StopManySignal, StopManyEscalate,
           StopManyReap, RestartCheck, RestartBlocks, RestartReset, RestartInPlace,
           RestartInsert, DropStop
    <2>. QED  BY <2>1, SameWaitLists
<1>2. CASE ReaperNext
    <2>1. CASE BeginCycle \/ EndDetect \/ RemoveExited \/ ScheduleResumes
        BY <2>1 DEF BeginCycle, EndDetect, RemoveExited, ScheduleResumes, In, Goto,
                    WaitListStep
    <2>2. CASE CollectTargets \/ CollectEligible \/ CollectRunning
        BY <2>2 DEF CollectTargets, CollectEligible, CollectRunning, Collect, AfterCycle,
                    In, WaitListStep
    <2>3. CASE CollectWaiting
        BY <2>3 DEF CollectWaiting, Collect, In, WaitListStep
    <2>4. CASE EmitEvents
        BY <2>4 DEF EmitEvents, Collect, Goto, In, WaitListStep
    <2>5. ASSUME NEW i \in ProcessId,
                 DetectExit(i) \/ DetectAlive(i) \/ FlagTarget(i) \/ ScheduleRestart(i)
                   \/ ScheduleBlocks(i)
          PROVE  WaitListStep
        BY <2>5 DEF DetectExit, DetectAlive, FlagTarget, ScheduleRestart, ScheduleBlocks,
                    In, Goto, Done, WaitListStep
    <2>6. ASSUME NEW i \in ProcessId,
                 RestartSkips(i) \/ RestartSpawns(i) \/ RestartWaits(i) \/ RestartWedges(i)
          PROVE  WaitListStep
        BY <2>6 DEF RestartSkips, RestartSpawns, RestartWaits, RestartWedges, In, Goto, Done,
                    WaitListStep
    <2>7. ASSUME NEW i \in ProcessId, CheckWaiting(i)
          PROVE  WaitListStep
        <3>1. PICK spawn \in BOOLEAN, fail \in BOOLEAN : NextCheck(i, spawn, fail)
            BY <2>7 DEF CheckWaiting
        <3>. QED  BY <2>7, <3>1 DEF CheckWaiting, NextCheck, In, Goto, WaitListStep
    <2>8. ASSUME NEW i \in ProcessId, SpawnWaiting(i)
          PROVE  WaitListStep
        BY <2>8 DEF SpawnWaiting, In, Goto, WaitListStep
    <2>9. ASSUME NEW i \in ProcessId, FailWaiting(i) \/ FailRunning(i)
          PROVE  WaitListStep
        BY <2>9 DEF FailWaiting, FailRunning, AfterCycle, In, Goto, Done, WaitListStep
    <2>. QED  BY <1>2, <2>1, <2>2, <2>3, <2>4, <2>5, <2>6, <2>7, <2>8, <2>9 DEF ReaperNext
<1>3. CASE \/ \E q \in Pid : Exits(q)
           \/ \E i \in ProcessId : BackoffElapses(i) \/ UptimeReached(i) \/ DependencyExpires(i)
           \/ Closes \/ UNCHANGED vars
    <2>1. UNCHANGED <<rpc, todo, to_spawn>>
        BY <1>3 DEF Exits, ChildExits, BackoffElapses, UptimeReached, DependencyExpires,
                    Closes, CloseChannel, vars, reaperVars
    <2>. QED  BY <2>1, SameWaitLists
<1>. QED  BY <1>1, <1>2, <1>3 DEF Next

LEMMA WaitInductive ==
    ASSUME NInv, WaitInv, IdStep, TrackStep, WaitListStep
    PROVE  WaitInv'
<1>. USE DEF NInv, IInv, IdInv, ListInv, WaitInv
\* An entry on a list that is not visited stays as it was.
<1>1. ASSUME NEW i \in ProcessId, Childless(i), ~Visit(i)
      PROVE  Childless(i)'
    <2>1. ASSUME NEW p, Record(i, p)'
          PROVE  p.child = 0
        BY <1>1, <2>1, NotVisited DEF Childless, OldRecord, SameRecord
    <2>. QED  BY <1>1, <2>1, UsedStays DEF Childless
<1>2. ASSUME NEW i \in ProcessId, rpc = "check", i \in todo
      PROVE  Childless(i)'
    <2>1. ~Visit(i)
        BY <1>2 DEF Visit
    <2>. QED  BY <1>1, <1>2, <2>1
<1>3. ASSUME rpc' = "check", NEW i \in todo'
      PROVE  Childless(i)'
    <2>1. CASE rpc = "check" /\ todo' \subseteq todo
        BY <1>2, <1>3, <2>1 DEF TypeInv, ReaperTypeOK
    <2>2. CASE CollectWaiting /\ todo' = InState({"Waiting"})
        <3>1. i \in Present /\ i \in ProcessId /\ processes[i].state = "Waiting"
            BY <1>3, <2>2 DEF InState, Present
        <3>2. Used(i) /\ processes[i].child = 0
            BY <3>1, MatchesConsistent DEF Consistent, IdsUsed
        <3>3. \A p : Record(i, p) => p = processes[i]
            BY <3>1, OnlyRecord
        <3>4. ~Visit(i)
            BY <2>2 DEF CollectWaiting, In, Visit
        <3>. QED  BY <1>1, <3>1, <3>2, <3>3, <3>4 DEF Childless
    <2>. QED  BY <1>3, <2>1, <2>2 DEF WaitListStep
<1>4. ASSUME NEW i \in to_spawn'
      PROVE  Childless(i)'
    <2>1. CASE i \in to_spawn
        <3>1. i \in ProcessId /\ ~Visit(i)
            BY <1>4, <2>1 DEF TypeInv, ReaperTypeOK, Visit
        <3>. QED  BY <1>1, <2>1, <3>1
    <2>2. CASE rpc = "check" /\ i \in todo
        BY <1>2, <2>2 DEF TypeInv, ReaperTypeOK
    <2>. QED  BY <1>4, <2>1, <2>2 DEF WaitListStep
<1>5. rpc' \notin {"check", "spawn"} => to_spawn' = {}
    BY DEF WaitListStep
<1>. QED  BY <1>3, <1>4, <1>5

-----------------------------------------------------------------------------
(* What has been reported of the last child.                               *)

LEMMA SentEvents ==
    ASSUME EventStep, NEW i \in ProcessId
    PROVE  events'[i] = events[i] \/ \E e \in ProcessExitEvent : events'[i] = Append(events[i], e)
BY DEF EventStep, ReportsExit, GivesUp, TakesLeave, Sends

LEMMA ReportedStays ==
    ASSUME TypeInv, EventStep, NEW i \in ProcessId, NEW q, ReportedOf(i, q)
    PROVE  ReportedOf(i, q)'
<1>1. CASE events'[i] = events[i]
    BY <1>1 DEF ReportedOf
<1>2. ASSUME NEW e \in ProcessExitEvent, events'[i] = Append(events[i], e)
      PROVE  ReportedOf(i, q)'
    <2>1. PICK k \in DOMAIN events[i] : events[i][k].exited /\ events[i][k].pid = q
        BY DEF ReportedOf
    <2>2. k \in DOMAIN events'[i] /\ events'[i][k] = events[i][k]
        BY <1>2, EventType, AppendKeeps
    <2>. QED  BY <2>1, <2>2 DEF ReportedOf
<1>. QED  BY <1>1, <1>2, SentEvents

LEMMA ScheduledReportedInductive ==
    ASSUME NInv, OverInv, ScheduledReported, IdStep, TrackStep, ScheduleListStep, EventStep
    PROVE  ScheduledReported'
<1>. USE DEF NInv, IInv, OverInv
<1>1. SUFFICES ASSUME rpc' \in Scheduling, NEW i \in todo'
               PROVE  Used(i)' /\ \A p : Record(i, p)' => ReportedOf(i, p.pid)'
    BY DEF ScheduledReported
<1>2. CASE rpc \in Scheduling /\ todo' \subseteq todo
    <2>1. i \in todo /\ i \in ProcessId /\ Used(i) /\ ~Visit(i)
        BY <1>1, <1>2
        DEF TypeInv, ReaperTypeOK, ScheduledReported, Visit, Scheduling
    <2>2. ASSUME NEW p, Record(i, p)'
          PROVE  ReportedOf(i, p.pid)'
        <3>1. PICK r \in Process : Record(i, r) /\ r.pid = p.pid
            BY <2>1, <2>2, NotVisited DEF OldRecord, SameRecord
        <3>2. ReportedOf(i, r.pid)
            BY <1>2, <2>1, <3>1 DEF ScheduledReported
        <3>. QED  BY <2>1, <3>1, <3>2, ReportedStays
    <2>. QED  BY <2>1, <2>2, UsedStays
<1>3. CASE EmitEvents /\ todo' = ToRestart
    <2>1. i \in ProcessId /\ Found(i)
        BY <1>1, <1>3 DEF ToRestart, Found
    <2>2. UNCHANGED <<processes, calls>> /\ chan_open
        BY <1>1, <1>3 DEF EmitEvents, Goto, Scheduling
    <2>. DEFINE e == [pid |-> exited[i].pid, state |-> exited[i].state, exited |-> TRUE]
    <2>3. PICK q : q = exited[i].pid
        OBVIOUS
    <2>4. events'[i] = Append(events[i], e)
        BY <1>3, <2>1, <2>2 DEF EmitEvents, ToReport, Found
    <2>5. e \in ProcessExitEvent /\ e.pid = q /\ e.exited
        BY <2>1, <2>3 DEF Found, TypeInv, ReaperTypeOK, ExitedProcess, ProcessExitEvent
    <2>. HIDE DEF e
    <2>6. ReportedOf(i, q)'
        <3>1. Len(events[i]) + 1 \in DOMAIN events'[i] /\ events'[i][Len(events[i]) + 1] = e
            BY <2>1, <2>4, <2>5, EventType, AppendKeeps
        <3>. QED  BY <2>5, <3>1 DEF ReportedOf
    <2>7. ASSUME NEW p, Record(i, p)'
          PROVE  p.pid = q
        BY <2>1, <2>2, <2>7, <2>3, SameRecords DEF FoundRecords
    <2>. QED  BY <2>1, <2>6, <2>7, UsedStays DEF FoundRecords
<1>. QED  BY <1>1, <1>2, <1>3 DEF ScheduleListStep

LEMMA CurListedInductive ==
    ASSUME CurListed, CurListStep
    PROVE  CurListed'
BY DEF CurListed, CurListStep

LEMMA ReleasedInductive ==
    ASSUME NInv, PhaseInv, RecordStep, TrackStep, EventStep
    PROVE  Released'
<1>. USE DEF NInv, IInv, PhaseInv
<1>1. SUFFICES ASSUME NEW i \in ProcessId, NEW p, Record(i, p)', p.child = 0, p.pid # 0
               PROVE  p.pid \in reaped' /\ ReportedOf(i, p.pid)'
    BY DEF Released
<1>2. reaped \subseteq reaped'
    BY DEF RecordStep, ChildStep, ReapStep
<1>3. ~FirstRecord(i, p)
    BY <1>1 DEF FirstRecord, NewProcess
<1>4. CASE OldRecord(i, p)
    BY <1>1, <1>2, <1>4, ReportedStays DEF OldRecord, SameRecord, Released
<1>5. CASE VisitedRecord(i, p)
    <2>1. /\ i \in Present /\ p = processes'[i] /\ Visit(i)
          /\ processes[i] \in Process /\ Record(i, processes[i])
        BY <1>5, PresentProcess DEF VisitedRecord, Record, TypeInv
    <2>2. CASE Strikes(i) \/ Requeues(i)
        <3>1. p.pid = processes[i].pid /\ p.child = processes[i].child
            <4>1. \A deps : /\ Flagged(processes[i]).pid = processes[i].pid
                            /\ Flagged(processes[i]).child = processes[i].child
                            /\ Requeued(processes[i], deps).pid = processes[i].pid
                            /\ Requeued(processes[i], deps).child = processes[i].child
                BY <2>1 DEF Flagged, Requeued, Process
            <4>. QED  BY <2>1, <2>2, <4>1 DEF Strikes, Requeues
        <3>. QED  BY <1>1, <1>2, <2>1, <3>1, ReportedStays DEF Released
    <2>3. CASE Schedules(i)
        <3>1. rpc \in Scheduling /\ i \in todo
            BY <2>3 DEF Schedules, CurListed, Scheduling
        <3>2. p.pid = processes[i].pid
            BY <2>1, <2>3 DEF Schedules, Scheduled, Process
        <3>3. ReportedOf(i, p.pid)'
            BY <2>1, <3>1, <3>2, ReportedStays DEF ScheduledReported
        <3>4. CASE processes[i].child = 0
            BY <1>1, <1>2, <2>1, <3>2, <3>3, <3>4 DEF Released
        <3>5. CASE processes[i].child # 0
            <4>1. processes[i].child = p.pid /\ p.pid \in Pid /\ os[p.pid] # "unborn"
                BY <2>1, <3>2, <3>5 DEF HandleInv, GoodHandles, GoodHandle
            <4>2. os[p.pid] \in {"ok", "err"}
                BY <2>3, <3>5, <4>1 DEF Schedules, Alive, TypeInv, TableTypeOK
            <4>3. p.pid \in reaped'
                BY <2>3, <3>5, <4>1, <4>2 DEF Schedules, Collected, Exited
            <4>. QED  BY <3>3, <4>3
        <3>. QED  BY <3>4, <3>5
    <2>4. ~Respawns(i)
        BY <1>1, <2>1, BoundsAssumption DEF Respawns, Pid
    <2>. QED  BY <2>1, <2>2, <2>3, <2>4 DEF Visit
<1>. QED  BY <1>1, <1>3, <1>4, <1>5 DEF TrackStep

-----------------------------------------------------------------------------
(* What stop() works on.                                                   *)

\* A step of stop() goes on with ids that are used by now.
StopGoesOn(t) ==
    calls'[t].pc \in StopStep =>
        /\ calls'[t].cur \in UsedIds /\ calls'[t].todo \in Seq(UsedIds)
        /\ calls'[t].pc \in EarlyStop => calls'[t].held = NoneHeld

LEMMA StopReturns ==
    ASSUME TypeInv, NEW t \in Threads, Return(t)
    PROVE  StopGoesOn(t)
BY DEF Return, Becomes, Idle, TypeInv, StopGoesOn, StopStep

LEMMA StoppedOn ==
    ASSUME TypeInv, NEW t \in Threads, Ordinary(t), NEW s \in Seq(UsedIds), Stopped(t, s)
    PROVE  StopGoesOn(t)
<1>1. CASE Return(t)
    BY <1>1, StopReturns
<1>2. CASE ~Return(t)
    <2>. DEFINE c == [calls[t] EXCEPT !.pc = "stop_check", !.cur = Head(s),
                                      !.todo = Tail(s), !.nested = TRUE,
                                      !.held = NoneHeld]
    <2>1. Becomes(t, c) /\ s # <<>>
        BY <1>2 DEF Stopped, Ordinary
    <2>2. c.cur = Head(s) /\ c.todo = Tail(s) /\ c.held = NoneHeld
        BY CallRecord DEF Call, TypeInv
    <2>3. Head(s) \in UsedIds /\ Tail(s) \in Seq(UsedIds)
        BY <2>1
    <2>. HIDE DEF c
    <2>4. calls'[t] = c
        BY <2>1 DEF Becomes, TypeInv
    <2>. QED  BY <2>2, <2>3, <2>4 DEF StopGoesOn
<1>. QED  BY <1>1, <1>2

LEMMA StopFailedOn ==
    ASSUME TypeInv, StopInv, NEW t \in Threads, Ordinary(t), calls[t].pc \in StopStep,
           StopFailed(t)
    PROVE  StopGoesOn(t)
BY StopReturns, StoppedOn DEF StopFailed, StopInv

\* The dependents of a process are in the map.
LEMMA CascadeOn ==
    ASSUME TypeInv, IdsUsed, StopInv, NEW t \in Threads, Ordinary(t),
           calls[t].pc \in StopStep, NEW cascade, NEW S, S \subseteq Present,
           NEW s \in Cascade(t, cascade, S), Stopped(t, s)
    PROVE  StopGoesOn(t)
<1>1. S \subseteq UsedIds /\ calls[t].todo \in Seq(UsedIds)
    BY DEF IdsUsed, UsedIds, StopInv, Present
<1>2. CASE cascade
    <2>1. PICK l \in Listings(S) : s = l \o calls[t].todo
        BY <1>2 DEF Cascade
    <2>2. PICK n \in 0 .. MaxId : l \in [1 .. n -> S]
        BY DEF Listings
    <2>3. n \in Nat
        BY BoundsAssumption
    <2>4. l \in Seq(UsedIds)
        BY <1>1, <2>2, <2>3
    <2>5. s \in Seq(UsedIds)
        BY <1>1, <2>1, <2>4
    <2>. QED  BY <2>5, StoppedOn
<1>3. CASE ~cascade
    BY <1>1, <1>3, StoppedOn DEF Cascade
<1>. QED  BY <1>2, <1>3

LEMMA StopStepOn ==
    ASSUME NInv, StopInv, NEW t \in Threads, calls[t].pc \in StopStep, StepNext(t)
    PROVE  StopGoesOn(t)
<1>. USE DEF NInv, IInv, IdInv
<1>. DEFINE k == calls[t]
<1>1. /\ k \in Call /\ k.cur \in UsedIds /\ k.todo \in Seq(UsedIds)
      /\ Ordinary(t)
    BY CallRecord DEF TypeInv, StopInv, AllOrdinary
<1>2. CASE StopCheck(t)
    <2>. DEFINE p == processes[k.cur]
                pc == IF p.state = "Restarting" THEN "stop_cancel"
                      ELSE IF p.state = "Waiting" THEN "stop_unqueue" ELSE "stop_remove"
                c == [k EXCEPT !.pc = pc, !.pid = p.pid, !.cascade = p.config.cascade_stop]
    <2>1. k.pc = "stop_check" /\ (StopFailed(t) \/ Becomes(t, c))
        BY <1>2 DEF StopCheck, At
    <2>2. c.cur = k.cur /\ c.todo = k.todo /\ c.held = k.held
        <3>. HIDE DEF pc
        <3>. QED  BY <1>1 DEF Call
    <2>. HIDE DEF c
    <2>3. k.held = NoneHeld
        BY <2>1 DEF StopInv, EarlyStop
    <2>4. Becomes(t, c) => calls'[t] = c
        BY DEF Becomes, TypeInv
    <2>. QED  BY <1>1, <2>1, <2>2, <2>3, <2>4, StopFailedOn DEF StopGoesOn
<1>3. CASE StopCancel(t)
    BY <1>1, <1>3, StoppedOn DEF StopCancel
<1>4. CASE StopUnqueue(t)
    <2>1. PICK s \in Cascade(t, k.cascade, Dependents(k.cur) \ {k.cur}) : Stopped(t, s)
        BY <1>4 DEF StopUnqueue
    <2>. QED  BY <1>1, <2>1, CascadeOn DEF Dependents
<1>5. CASE StopRemove(t)
    <2>1. PICK h : \/ StopFailed(t) \/ Stopped(t, k.todo)
                   \/ Becomes(t, [k EXCEPT !.pc = "stop_grace", !.held[k.cur] = h])
        BY <1>5 DEF StopRemove, KillResult
    <2>. DEFINE c == [k EXCEPT !.pc = "stop_grace", !.held[k.cur] = h]
    <2>2. c.cur = k.cur /\ c.todo = k.todo /\ c.pc = "stop_grace"
        BY <1>1 DEF Call
    <2>3. StopFailed(t) \/ Stopped(t, k.todo) \/ Becomes(t, c)
        BY <2>1
    <2>. HIDE DEF c
    <2>4. Becomes(t, c) => calls'[t] = c
        BY DEF Becomes, TypeInv
    <2>. QED
        BY <1>1, <2>2, <2>3, <2>4, StopFailedOn, StoppedOn DEF StopGoesOn, EarlyStop
<1>6. CASE StopEscalate(t)
    <2>. DEFINE c == [k EXCEPT !.pc = "stop_reap"]
    <2>1. Stopped(t, k.todo) \/ Becomes(t, c)
        BY <1>6 DEF StopEscalate
    <2>2. c.cur = k.cur /\ c.todo = k.todo /\ c.pc = "stop_reap"
        BY <1>1 DEF Call
    <2>. HIDE DEF c
    <2>3. Becomes(t, c) => calls'[t] = c
        BY DEF Becomes, TypeInv
    <2>. QED  BY <1>1, <2>1, <2>2, <2>3, StoppedOn DEF StopGoesOn, EarlyStop
<1>7. CASE StopReap(t)
    <2>. DEFINE p == k.held[k.cur]
    <2>1. PICK s \in Cascade(t, p.config.cascade_stop, Dependents(k.cur)) : Stopped(t, s)
        BY <1>7 DEF StopReap
    <2>. QED  BY <1>1, <2>1, CascadeOn DEF Dependents
<1>. QED
    BY <1>2, <1>3, <1>4, <1>5, <1>6, <1>7
    DEF StepNext, StartSpawn, StartWaiting, AwaitReturn, AwaitTimeout, StopManyRemove,
        StopManySignal, StopManyEscalate, StopManyReap, RestartCheck, RestartBlocks,
        RestartReset, RestartInPlace, RestartInsert, DropStop, At, StopStep

LEMMA UsedIdsStay ==
    ASSUME TypeInv, IdStep
    PROVE  UsedIds \subseteq UsedIds' /\ Seq(UsedIds) \subseteq Seq(UsedIds')
<1>1. UsedIds \subseteq UsedIds'
    BY UsedStays DEF UsedIds
<1>. QED  BY <1>1

\* A call in the middle of stop() is moved by its own thread alone.
LEMMA OneSteps ==
    ASSUME NoRestart, NInv, NEW t \in Threads, calls[t].pc \in StopStep,
           calls'[t] # calls[t], [Next]_vars
    PROVE  StepNext(t)
<1>. USE DEF NInv, IInv
<1>1. ASSUME NEW u \in Threads, Calls(u)
      PROVE  FALSE
    <2>1. UNCHANGED calls \/ GoesOn(u) \/ Opens(u)
        BY <1>1, CallGoesOn
    <2>2. u = t
        BY <2>1 DEF GoesOn, Opens
    <2>. QED
        BY <1>1, <2>2 DEF Calls, CallNext, StartCall, StopCall, StopManyCall, RestartCall,
                          Poll, DropManager, SendSignal, May, At, StopStep
<1>2. ASSUME NEW u \in Threads, Steps(u)
      PROVE  StepNext(t)
    <2>1. u = t
        BY <1>2, StepGoesOn DEF AllOrdinary, GoesOn
    <2>. QED  BY <1>2, <2>1 DEF Steps
<1>3. CASE ReaperNext
    BY <1>3, ReaperUntouched
<1>4. CASE \/ \E q \in Pid : Exits(q)
           \/ \E i \in ProcessId : BackoffElapses(i) \/ UptimeReached(i) \/ DependencyExpires(i)
           \/ Closes \/ UNCHANGED vars
    BY <1>4 DEF Exits, ChildExits, BackoffElapses, UptimeReached, DependencyExpires,
                Closes, CloseChannel, vars
<1>. QED  BY <1>1, <1>2, <1>3, <1>4 DEF Next

LEMMA StopInductive ==
    ASSUME NoRestart, NInv, StopInv, [Next]_vars
    PROVE  StopInv'
<1>. USE DEF NInv, IInv, IdInv
<1>1. IdStep
    BY EveryIdStep
<1>2. ASSUME NEW t \in Threads, GoesOn(t)
      PROVE  StopGoesOn(t)
    <2>1. CASE StopCall(t)
        <3>1. PICK i \in Present :
                Becomes(t, [Idle EXCEPT !.pc = "stop_check", !.op = "stop", !.id = i,
                                        !.cur = i])
            BY <2>1 DEF StopCall
        <3>. DEFINE c == [Idle EXCEPT !.pc = "stop_check", !.op = "stop", !.id = i,
                                      !.cur = i]
        <3>2. c.cur = i /\ c.todo = <<>> /\ c.held = NoneHeld
            BY DEF Idle
        <3>3. calls'[t] = c
            BY <3>1 DEF Becomes, TypeInv
        <3>. HIDE DEF c
        <3>4. i \in UsedIds
            BY DEF IdsUsed, UsedIds, Present
        <3>5. <<>> \in Seq(UsedIds)
            OBVIOUS
        <3>. QED  BY <3>2, <3>3, <3>4, <3>5 DEF StopGoesOn
    <2>2. CASE calls[t].pc \notin StopStep /\ ~StopCall(t)
        BY <1>2, <2>2 DEF GoesOn, StopGoesOn
    <2>3. CASE calls[t].pc \in StopStep
        <3>1. CASE calls'[t] = calls[t]
            BY <2>3, <3>1 DEF StopInv, StopGoesOn
        <3>2. CASE calls'[t] # calls[t]
            <4>1. StepNext(t)
                BY <2>3, <3>2, OneSteps
            <4>. QED  BY <2>3, <4>1, StopStepOn
        <3>. QED  BY <3>1, <3>2
    <2>. QED  BY <2>1, <2>2, <2>3
<1>3. \A t \in Threads : calls'[t] = calls[t] \/ StopGoesOn(t)
    <2>1. \A t \in Threads : Opens(t) => StopGoesOn(t)
        BY DEF Opens, StopGoesOn, StopStep
    <2>. QED  BY <1>1, <1>2, <2>1 DEF IdStep, GoesOn, Opens
<1>. QED  BY <1>1, <1>3, UsedIdsStay DEF StopInv, StopGoesOn

LEMMA PhaseInitial == Init => PhaseInv
<1>1. Init => \A i, p : ~Record(i, p)
    BY DEF Init, TableInit, ManagerInit, Record, Present, Held, Idle, NoneHeld
<1>. QED
    BY <1>1 DEF Init, ManagerInit, ReaperInit, PhaseInv, Released, ScheduledReported,
           Scheduling, CurListed, WaitInv, StopInv, Idle, StopStep

LEMMA PhaseInductive ==
    ASSUME NoRestart, NInv, OverInv, PhaseInv, [Next]_vars
    PROVE  PhaseInv'
<1>. USE DEF NInv, IInv
<1>1. RecordStep /\ IdStep /\ TrackStep /\ ListStep /\ WaitListStep /\ EventStep
    BY NSteps, EveryWaitListStep, EveryEventStep
<1>2. ScheduledReported' /\ CurListed'
    BY <1>1, ScheduledReportedInductive, CurListedInductive DEF PhaseInv, ListStep
<1>3. Released'
    BY <1>1, ReleasedInductive
<1>4. WaitInv'
    BY <1>1, WaitInductive DEF PhaseInv
<1>5. StopInv'
    BY StopInductive DEF PhaseInv
<1>. QED  BY <1>2, <1>3, <1>4, <1>5 DEF PhaseInv

-----------------------------------------------------------------------------
(* The state Lifecycle sees.                                               *)

LEMMA ChildBefore ==
    ASSUME OneRecord, NEW i \in ProcessId
    PROVE  /\ \A p : Record(i, p) => ChildOf(i) = p.pid
           /\ (\A p : ~Record(i, p)) =>
                 ChildOf(i) = IF Found(i) THEN exited[i].pid ELSE 0
<1>1. \A p : p \in Records(i) <=> Record(i, p)
    BY DEF Records, Record, InHand
<1>2. \A p, r : Record(i, p) /\ Record(i, r) => p = r
    BY DEF Record, OneRecord
<1>3. ASSUME NEW p, Record(i, p)
      PROVE  ChildOf(i) = p.pid
    <2>1. Records(i) # {} /\ (CHOOSE r \in Records(i) : TRUE) = p
        BY <1>1, <1>2, <1>3
    <2>. QED  BY <2>1 DEF ChildOf
<1>4. ASSUME \A p : ~Record(i, p)
      PROVE  ChildOf(i) = IF Found(i) THEN exited[i].pid ELSE 0
    <2>1. Records(i) = {}
        BY <1>1, <1>4
    <2>. QED  BY <2>1 DEF ChildOf, Found
<1>. QED  BY <1>3, <1>4

LEMMA ChildAfter ==
    ASSUME OneRecord', NEW i \in ProcessId
    PROVE  /\ \A p : Record(i, p)' => ChildOf(i)' = p.pid
           /\ (\A p : ~Record(i, p)') =>
                 ChildOf(i)' = IF Found(i)' THEN exited'[i].pid ELSE 0
<1>1. \A p : p \in Records(i)' <=> Record(i, p)'
    BY DEF Records, Record, InHand
<1>2. \A p, r : Record(i, p)' /\ Record(i, r)' => p = r
    BY DEF Record, OneRecord
<1>3. ASSUME NEW p, Record(i, p)'
      PROVE  ChildOf(i)' = p.pid
    <2>1. Records(i)' # {} /\ (CHOOSE r \in Records(i)' : TRUE) = p
        BY <1>1, <1>2, <1>3
    <2>. QED  BY <2>1 DEF ChildOf
<1>4. ASSUME \A p : ~Record(i, p)'
      PROVE  ChildOf(i)' = IF Found(i)' THEN exited'[i].pid ELSE 0
    <2>1. Records(i)' = {}
        BY <1>1, <1>4
    <2>. QED  BY <2>1 DEF ChildOf, Found
<1>. QED  BY <1>3, <1>4

\* In whose hands the record of a process is.
InHands(i) == \E t \in Threads : i \in Held(t)

LEMMA LifeBefore ==
    ASSUME TypeInv, NEW i \in ProcessId
    PROVE  /\ i \in Present => LifeOf(i) = IF processes[i].child = 0 THEN "down" ELSE "up"
           /\ i \notin Present /\ InHands(i) => LifeOf(i) = "leaving"
           /\ i \notin Present /\ ~InHands(i) =>
                 LifeOf(i) = IF Used(i) THEN "gone" ELSE "unused"
<1>1. Unused(i) <=> ~Used(i)
    <2>1. next_id \in Nat /\ i \in Nat
        BY BoundsAssumption DEF TypeInv, TableTypeOK, ProcessId
    <2>. QED  BY <2>1 DEF Unused, Used
<1>. QED  BY <1>1 DEF LifeOf, InHands

LEMMA LifeAfter ==
    ASSUME TypeInv', NEW i \in ProcessId
    PROVE  /\ i \in Present' =>
                 LifeOf(i)' = IF processes'[i].child = 0 THEN "down" ELSE "up"
           /\ i \notin Present' /\ InHands(i)' => LifeOf(i)' = "leaving"
           /\ i \notin Present' /\ ~InHands(i)' =>
                 LifeOf(i)' = IF Used(i)' THEN "gone" ELSE "unused"
<1>1. Unused(i)' <=> ~Used(i)'
    <2>1. next_id' \in Nat /\ i \in Nat
        BY BoundsAssumption DEF TypeInv, TableTypeOK, ProcessId
    <2>. QED  BY <2>1 DEF Unused, Used
<1>. QED  BY <1>1 DEF LifeOf, InHands

\* Where the records of a process are.
LEMMA RecordsBefore ==
    ASSUME NEW i
    PROVE  (\E p : Record(i, p)) <=> i \in Present \/ InHands(i)
BY DEF Record, InHands

LEMMA RecordsAfter ==
    ASSUME NEW i
    PROVE  (\E p : Record(i, p)') <=> i \in Present' \/ InHands(i)'
BY DEF Record, InHands

-----------------------------------------------------------------------------
(* The steps of Lifecycle, in terms of the system.                         *)

SameLife(i) == LifeOf(i)' = LifeOf(i)
SameChildOf(i) == ChildOf(i)' = ChildOf(i)
Forgotten(i) == ChildOf(i)' \in {ChildOf(i), 0}
SameSent(i) == events'[i] = events[i]

\* Nothing is left of the last child.
Finished(i) ==
    ChildOf(i) = 0 \/ (ChildOf(i) \in reaped /\ ReportedOf(i, ChildOf(i)))

Fresh(i) ==
    /\ ChildOf(i)' \in Pid /\ SpawnOk(ChildOf(i)')
    /\ \A j \in ProcessId \ {i} : ChildOf(j)' # ChildOf(i)'

LEMMA MapsStays ==
    ASSUME NEW i \in ProcessId, SameLife(i), SameChildOf(i), SameSent(i)
    PROVE  L!Stays(i)
BY DEF L!Stays, L!SameChild, L!SameReports, SameLife, SameChildOf, SameSent

LEMMA MapsAccept ==
    ASSUME NEW i \in ProcessId, LifeOf(i) = "unused", LifeOf(i)' = "down",
           ChildOf(i)' = 0, SameSent(i)
    PROVE  L!Accept(i)
BY DEF L!Accept, L!Moves, L!SameReports, SameSent

LEMMA MapsReject ==
    ASSUME NEW i \in ProcessId, LifeOf(i) = "unused", LifeOf(i)' = "gone",
           SameChildOf(i), SameSent(i)
    PROVE  L!Reject(i)
BY DEF L!Reject, L!Moves, L!SameChild, L!SameReports, SameChildOf, SameSent

LEMMA MapsSettled ==
    ASSUME HandleInv, TypeInv, NEW i \in ProcessId, Finished(i)
    PROVE  L!Settled(i)
<1>1. ChildOf(i) = 0 \/ (ChildOf(i) \in Pid /\ Exited(ChildOf(i)))
    BY BoundsAssumption DEF Finished, HandleInv, Dead, Exited, Pid
<1>. QED  BY <1>1 DEF L!Settled, L!ExitReported, Finished, ReportedOf

LEMMA MapsStart ==
    ASSUME HandleInv, TypeInv, NEW i \in ProcessId, LifeOf(i) \in {"unused", "down"},
           LifeOf(i)' = "up", Finished(i), Fresh(i), SameSent(i)
    PROVE  L!Start(i)
<1>1. L!FreshChild(i)
    <2>1. PICK q \in Pid : q = ChildOf(i)'
        BY DEF Fresh
    <2>2. os[q] = "unborn" /\ os'[q] # "unborn"
        BY <2>1 DEF Fresh, SpawnOk, NextPid, TypeInv, TableTypeOK
    <2>3. \A j \in ProcessId \ {i} : ChildOf(j)' # q
        BY <2>1 DEF Fresh
    <2>. QED  BY <2>1, <2>2, <2>3 DEF L!FreshChild
<1>. QED
    BY <1>1, MapsSettled DEF L!Start, L!Moves, L!SameReports, SameSent

LEMMA MapsRest ==
    ASSUME NEW i \in ProcessId, LifeOf(i) = "up", LifeOf(i)' = "down", ChildOf(i) \in Pid,
           Exited(ChildOf(i)), ReportedOf(i, ChildOf(i)), SameChildOf(i), SameSent(i)
    PROVE  L!Rest(i)
<1>1. L!Settled(i) /\ ChildOf(i) # 0
    BY BoundsAssumption DEF L!Settled, L!ExitReported, ReportedOf, Pid
<1>. QED
    BY <1>1 DEF L!Rest, L!Moves, L!SameChild, L!SameReports, SameChildOf, SameSent

LEMMA MapsLeave ==
    ASSUME NEW i \in ProcessId, LifeOf(i) \in {"down", "up"}, SameSent(i),
           \/ LifeOf(i)' = "leaving" /\ SameChildOf(i)
           \/ LifeOf(i)' = "gone" /\ Forgotten(i)
    PROVE  L!Leave(i)
BY DEF L!Leave, L!Moves, L!SameChild, L!ChildForgotten, L!SameReports, SameChildOf,
       Forgotten, SameSent

LEMMA MapsPutBack ==
    ASSUME NEW i \in ProcessId, LifeOf(i) = "leaving", LifeOf(i)' = "up",
           SameChildOf(i), SameSent(i)
    PROVE  L!PutBack(i)
BY DEF L!PutBack, L!Moves, L!SameChild, L!SameReports, SameChildOf, SameSent

LEMMA MapsForget ==
    ASSUME NEW i \in ProcessId, LifeOf(i) \in {"leaving", "gone"}, LifeOf(i)' = "gone",
           Forgotten(i), SameSent(i)
    PROVE  L!Forget(i)
BY DEF L!Forget, L!Moves, L!ChildForgotten, L!SameReports, Forgotten, SameSent

\* An event, field by field.
LEMMA EventFields ==
    ASSUME NEW e \in ProcessExitEvent
    PROVE  e = [pid |-> e.pid, state |-> e.state, exited |-> e.exited]
BY DEF ProcessExitEvent

LEMMA MapsFarewell ==
    ASSUME NEW i \in ProcessId, NEW q \in Pid \cup {0}, Sends(i, q, "Stopped", FALSE),
           \/ LifeOf(i) \in {"down", "up", "gone"} /\ LifeOf(i)' = "gone" /\ Forgotten(i)
           \/ LifeOf(i) = "leaving" /\ LifeOf(i)' = "leaving" /\ SameChildOf(i)
    PROVE  L!Farewell(i)
<1>1. events'[i] = Append(events[i], [pid |-> q, state |-> "Stopped", exited |-> FALSE])
    BY EventFields DEF Sends
<1>2. \/ L!Moves(i, {"down", "up", "gone"}, "gone") /\ L!ChildForgotten(i)
      \/ L!Moves(i, {"leaving"}, "leaving") /\ L!SameChild(i)
    BY DEF L!Moves, L!SameChild, L!ChildForgotten, SameChildOf, Forgotten
<1>. QED  BY <1>1, <1>2 DEF L!Farewell

LEMMA MapsReports ==
    ASSUME NEW i \in ProcessId, ~FailedEvent(i), NEW S, NEW s \in S, NEW x,
           Sends(i, ChildOf(i), s, x)
    PROVE  L!Reports(i, S, x)
<1>1. events'[i] = Append(events[i], [pid |-> ChildOf(i), state |-> s, exited |-> x])
    BY EventFields DEF Sends
<1>. QED  BY <1>1 DEF L!Reports, FailedEvent

LEMMA MapsGiveUp ==
    ASSUME NEW i \in ProcessId, LifeOf(i) \in {"down", "up"}, LifeOf(i)' = "gone",
           Forgotten(i), ~FailedEvent(i), Sends(i, ChildOf(i), "Failed", FALSE)
    PROVE  L!GiveUp(i)
BY MapsReports DEF L!GiveUp, L!Moves, L!ChildForgotten, Forgotten

LEMMA MapsReportExit ==
    ASSUME NEW i \in ProcessId, LifeOf(i) \in {"up", "leaving", "gone"}, SameLife(i),
           ChildOf(i) \in Pid, Exited(ChildOf(i)), ~ReportedOf(i, ChildOf(i)),
           IF LifeOf(i) = "gone" THEN Forgotten(i) ELSE SameChildOf(i),
           ~FailedEvent(i), NEW s \in {"Stopped", "Crashed", "Failed"},
           Sends(i, ChildOf(i), s, TRUE)
    PROVE  L!ReportExit(i)
<1>1. L!Reports(i, {"Stopped", "Crashed", "Failed"}, TRUE)
    BY MapsReports
<1>. QED
    BY <1>1 DEF L!ReportExit, L!ExitReported, L!ChildForgotten, L!SameChild, ReportedOf,
                SameLife, SameChildOf, Forgotten

-----------------------------------------------------------------------------
(* One process, from step to step.                                         *)

LInv == NInv /\ ReportInv /\ OverInv /\ PhaseInv

\* The step is one of the system without restart().
LStep ==
    /\ TypeInv' /\ OneRecord'
    /\ RecordStep /\ IdStep /\ TrackStep /\ FoundStep /\ EventStep

LEMMA OldChild ==
    ASSUME LInv, LStep, NEW i \in ProcessId, NEW p, Record(i, p)', OldRecord(i, p)
    PROVE  SameChildOf(i)
<1>1. PICK r : Record(i, r) /\ r.pid = p.pid
    BY DEF OldRecord, SameRecord
<1>2. ChildOf(i) = r.pid
    BY <1>1, ChildBefore DEF LInv, NInv, IdInv
<1>3. ChildOf(i)' = p.pid
    BY ChildAfter DEF LStep
<1>. QED  BY <1>1, <1>2, <1>3 DEF SameChildOf

\* An exit is still that of the last child.
LEMMA FoundChild ==
    ASSUME LInv, NEW i \in ProcessId, Found(i)
    PROVE  /\ ChildOf(i) = exited[i].pid
           /\ ChildOf(i) \in reaped /\ ChildOf(i) \in Pid /\ Exited(ChildOf(i))
           /\ ~ReportedOf(i, ChildOf(i))
           /\ i \in Present => processes[i].child # 0
<1>. DEFINE q == exited[i].pid
<1>1. Used(i) /\ \A p : Record(i, p) => p.pid = q /\ p.child = q
    BY DEF LInv, OverInv, FoundRecords
<1>2. ChildOf(i) = q
    BY <1>1, ChildBefore DEF LInv, NInv, IdInv
<1>3. q \in reaped /\ ~Reported(q)
    BY DEF LInv, ReportInv, FoundOnce
<1>4. q \in Pid /\ Exited(q) /\ q # 0
    <2>1. q \in Dead
        BY <1>3 DEF LInv, NInv, HandleInv
    <2>2. q \in Pid /\ q # 0
        BY <2>1, BoundsAssumption DEF Dead, Pid
    <2>. QED  BY <2>1, <2>2 DEF Dead, Exited
<1>5. ~ReportedOf(i, q)
    BY <1>3 DEF ReportedOf, Reported, Reports
<1>6. i \in Present => processes[i].child # 0
    BY <1>1, <1>4 DEF Record
<1>. QED  BY <1>2, <1>3, <1>4, <1>5, <1>6

LEMMA FoundBefore ==
    ASSUME LInv, LStep, NEW i \in ProcessId, Found(i)', i \notin Present \/ i \notin Present'
    PROVE  Found(i) /\ exited'[i] = exited[i]
<1>1. ~DetectExit(i)
    <2>1. SUFFICES ASSUME DetectExit(i)
                   PROVE  i \in Present /\ i \in Present'
        OBVIOUS
    <2>. DEFINE p == check_stable_uptime(processes[i])
    <2>2. i \in Present /\ processes[i] \in Process
        BY <2>1, PresentProcess DEF DetectExit, LInv, NInv, IInv, TypeInv
    <2>3. p \in Process
        BY <2>2, StableUptimeType
    <2>4. [p EXCEPT !.cascade_flag = FALSE] \in Process
        <3>. HIDE DEF p
        <3>. QED  BY <2>3 DEF Process
    <2>5. processes'[i] = [p EXCEPT !.cascade_flag = FALSE]
        BY <2>1 DEF DetectExit, Put, LInv, NInv, IInv, TypeInv, TableTypeOK
    <2>. HIDE DEF p
    <2>. QED  BY <2>2, <2>4, <2>5, NoneIsNoProcess DEF Present
<1>. QED  BY <1>1 DEF LStep, FoundStep

\* The record of a process goes, and the exit of its child may be left to
\* report.
LEMMA GoneChild ==
    ASSUME LInv, LStep, NEW i \in ProcessId, i \notin Present', ~InHands(i)'
    PROVE  Forgotten(i)
<1>1. ChildOf(i)' = IF Found(i)' THEN exited'[i].pid ELSE 0
    BY ChildAfter, RecordsAfter DEF LStep
<1>2. CASE Found(i)'
    BY <1>1, <1>2, FoundBefore, FoundChild DEF Forgotten
<1>3. CASE ~Found(i)'
    BY <1>1, <1>3 DEF Forgotten
<1>. QED  BY <1>2, <1>3

LEMMA StillUsed ==
    ASSUME LInv, LStep, NEW i \in ProcessId
    PROVE  /\ i \in Present \/ InHands(i) \/ Found(i) => Used(i)
           /\ Used(i) => Used(i)'
BY UsedStays DEF LInv, LStep, NInv, IInv, IdInv, IdsUsed, InHands, OverInv, FoundRecords,
                 Present, Held

LEMMA ReportsExitStep ==
    ASSUME LInv, LStep, NEW i \in ProcessId, ReportsExit(i)
    PROVE  L!ReportExit(i)
<1>. USE DEF LInv, LStep, NInv, IInv, IdInv
<1>1. /\ Found(i) /\ UNCHANGED <<processes, calls>> /\ ~Found(i)'
      /\ exited[i].state \in {"Stopped", "Crashed", "Failed"}
    BY DEF ReportsExit, EmitEvents, Found, NoneExited, TypeInv, ReaperTypeOK, ExitedProcess
<1>2. Used(i) /\ Used(i)'
    BY <1>1, StillUsed
<1>3. (i \in Present' <=> i \in Present) /\ (InHands(i)' <=> InHands(i))
    BY <1>1 DEF Present, InHands, Held
<1>4. LifeOf(i) \in {"up", "leaving", "gone"}
    BY <1>1, <1>2, FoundChild, LifeBefore
<1>5. SameLife(i)
    BY <1>1, <1>2, <1>3, LifeBefore, LifeAfter DEF SameLife
<1>6. IF LifeOf(i) = "gone" THEN Forgotten(i) ELSE SameChildOf(i)
    <2>1. CASE i \in Present \/ InHands(i)
        <3>1. PICK p : Record(i, p)
            BY <2>1, RecordsBefore
        <3>2. Record(i, p)'
            BY <1>1, <3>1, SameRecords
        <3>3. SameChildOf(i)
            BY <3>1, <3>2, ChildBefore, ChildAfter DEF SameChildOf
        <3>. QED  BY <3>3 DEF SameChildOf, Forgotten
    <2>2. CASE i \notin Present /\ ~InHands(i)
        BY <1>2, <1>3, <2>2, GoneChild, LifeBefore
    <2>. QED  BY <2>1, <2>2
<1>7. ~FailedEvent(i)
    BY <1>1 DEF OverInv, FailedOver, Over
<1>8. Sends(i, ChildOf(i), exited[i].state, TRUE)
    BY <1>1, FoundChild DEF ReportsExit
<1>. QED  BY <1>1, <1>4, <1>5, <1>6, <1>7, <1>8, FoundChild, MapsReportExit

LEMMA GivesUpStep ==
    ASSUME LInv, LStep, NEW i \in ProcessId, GivesUp(i)
    PROVE  L!GiveUp(i)
<1>. USE DEF LInv, LStep, NInv, IInv, IdInv
<1>1. i \in Present /\ i \notin Present' /\ Used(i)'
    BY StillUsed DEF GivesUp, Present
<1>2. ~InHands(i)'
    <2>1. UNCHANGED calls
        BY ReaperUntouched DEF GivesUp
    <2>. QED  BY <1>1, <2>1 DEF InHands, Held, OneRecord
<1>3. LifeOf(i) \in {"down", "up"} /\ LifeOf(i)' = "gone"
    BY <1>1, <1>2, LifeBefore, LifeAfter
<1>4. ChildOf(i) = processes[i].pid
    BY <1>1, ChildBefore DEF Record
<1>5. ~FailedEvent(i)
    BY <1>1 DEF OverInv, FailedOver, Over
<1>6. Sends(i, ChildOf(i), "Failed", FALSE)
    BY <1>4 DEF GivesUp
<1>. QED  BY <1>1, <1>2, <1>3, <1>5, <1>6, GoneChild, MapsGiveUp

LEMMA TakesLeaveStep ==
    ASSUME LInv, LStep, NEW i \in ProcessId, TakesLeave(i)
    PROVE  L!Farewell(i)
<1>. USE DEF LInv, LStep, NInv, IInv, IdInv
<1>1. PICK t \in Threads : /\ StopUnqueue(t) /\ calls[t].cur = i
                           /\ Sends(i, calls[t].pid, "Stopped", FALSE)
    BY DEF TakesLeave
<1>2. calls[t].pid \in Pid \cup {0}
    BY CallRecord, BoundsAssumption DEF TypeInv, Call, Pid
<1>3. /\ calls[t].held = NoneHeld /\ Used(i) /\ Used(i)'
      /\ \A u \in Threads \ {t} : calls'[u] = calls[u]
    <2>1. At(t, "stop_unqueue") /\ (\E s : Stopped(t, s))
        BY <1>1 DEF StopUnqueue
    <2>2. \A u \in Threads \ {t} : calls'[u] = calls[u]
        BY <2>1 DEF Stopped, Return, Becomes, TypeInv
    <2>. QED
        BY <1>1, <2>1, <2>2, StillUsed
        DEF At, PhaseInv, StopInv, StopStep, EarlyStop, UsedIds
<1>4. i \notin Present'
    BY <1>1 DEF StopUnqueue, Put, Present, TypeInv, TableTypeOK
\* Nobody takes anything, and the call itself has nothing.
<1>5. InHands(i) <=> InHands(i)'
    <2>1. Held(t) = {} /\ Held(t)' = {}
        <3>1. Held(t) = {}
            BY <1>3 DEF Held, NoneHeld
        <3>2. HandsKeep
            BY <1>1, StoppedKeeps DEF StopUnqueue
        <3>. QED  BY <3>1, <3>2 DEF HandsKeep, HandKeeps, Held
    <2>. QED  BY <1>3, <2>1 DEF InHands, Held
<1>6. CASE InHands(i)
    <2>1. LifeOf(i) = "leaving" /\ LifeOf(i)' = "leaving"
        BY <1>4, <1>5, <1>6, LifeBefore, LifeAfter DEF OneRecord, InHands
    <2>2. SameChildOf(i)
        <3>1. PICK u \in Threads : i \in Held(u)'
            BY <1>5, <1>6 DEF InHands
        <3>. QED  BY <3>1, HandOld, OldChild DEF Record
    <2>. QED  BY <1>1, <1>2, <2>1, <2>2, MapsFarewell
<1>7. CASE ~InHands(i)
    <2>1. LifeOf(i) \in {"down", "up", "gone"} /\ LifeOf(i)' = "gone"
        BY <1>3, <1>4, <1>5, <1>7, LifeBefore, LifeAfter
    <2>. QED  BY <1>1, <1>2, <1>4, <1>5, <1>7, <2>1, GoneChild, MapsFarewell
<1>. QED  BY <1>6, <1>7

-----------------------------------------------------------------------------
(* The children are apart.                                                 *)

\* The pid on a record is that of a child that has been born.
LEMMA KnownPid ==
    ASSUME LInv, NEW i \in ProcessId, NEW p \in Process, Record(i, p), p.pid # 0
    PROVE  p.pid \in Pid /\ os[p.pid] # "unborn"
<1>1. CASE p.child # 0
    BY <1>1 DEF LInv, NInv, HandleInv, GoodHandles, GoodHandle, Record
<1>2. CASE p.child = 0
    <2>1. p.pid \in Dead
        BY <1>2 DEF LInv, PhaseInv, Released, NInv, HandleInv
    <2>. QED  BY <2>1 DEF Dead
<1>. QED  BY <1>1, <1>2

\* A new child belongs to the one process that the step is about.
LEMMA NewChild ==
    ASSUME LInv, LStep, NEW i \in Present', NEW q \in Pid, SpawnOk(q),
           processes'[i].child = q, processes'[i].pid = q
    PROVE  Fresh(i)
<1>. USE DEF LInv, LStep, NInv, IInv, IdInv
<1>0. i \in ProcessId /\ os[q] = "unborn" /\ q # 0
    BY BoundsAssumption DEF Present, SpawnOk, NextPid, Pid
<1>1. ChildOf(i)' = q
    BY <1>0, ChildAfter DEF Record
<1>2. Newborn(i)
    <2>1. ASSUME FromMap(i)
          PROVE  FALSE
        BY <1>0, <2>1 DEF FromMap, HandleInv, GoodHandles, GoodHandle
    <2>2. ASSUME NEW t \in Threads, FromHand(t, i)
          PROVE  FALSE
        BY <1>0, <2>2 DEF FromHand, HandleInv, GoodHandles, GoodHandle
    <2>. QED  BY <1>0, <2>1, <2>2, MapSource
<1>3. ASSUME NEW j \in ProcessId \ {i}
      PROVE  ChildOf(j)' # q
    <2>1. ASSUME NEW p, Record(j, p)'
          PROVE  p.pid # q
        <3>1. OldRecord(j, p)
            BY <1>2, <2>1, KeepsOld, HandOld DEF Record, Newborn
        <3>. QED  BY <1>0, <3>1, KnownPid DEF OldRecord, SameRecord
    <2>2. ASSUME \A p : ~Record(j, p)', Found(j)'
          PROVE  exited'[j].pid # q
        <3>1. j \notin Present'
            BY <2>2 DEF Record
        <3>2. exited'[j].pid = exited[j].pid /\ exited[j].pid \in reaped
            BY <2>2, <3>1, FoundBefore, FoundChild
        <3>. QED  BY <1>0, <3>2 DEF HandleInv, Dead
    <2>. QED  BY <1>0, <2>1, <2>2, ChildAfter
<1>. QED  BY <1>0, <1>1, <1>3 DEF Fresh

-----------------------------------------------------------------------------
(* The steps that say nothing of a process.                                *)

\* The record stays in the map.
LEMMA StaysPresent ==
    ASSUME LInv, LStep, NEW i \in Present, i \in Present', SameSent(i)
    PROVE  L!Stays(i) \/ L!Start(i) \/ L!Rest(i)
<1>. USE DEF LInv, LStep, NInv, IInv, IdInv
<1>. DEFINE p == processes[i]
<1>0. PICK r : r = processes'[i]
    OBVIOUS
<1>1. /\ i \in ProcessId /\ p \in Process /\ Record(i, p) /\ Record(i, r)'
      /\ Used(i) /\ ~InHands(i)
    BY <1>0, PresentProcess, StillUsed DEF Record, OneRecord, InHands, TypeInv
<1>2. ChildOf(i) = p.pid /\ ChildOf(i)' = r.pid
    BY <1>1, ChildBefore, ChildAfter
<1>3. /\ LifeOf(i) = IF p.child = 0 THEN "down" ELSE "up"
      /\ LifeOf(i)' = IF r.child = 0 THEN "down" ELSE "up"
    BY <1>0, <1>1, LifeBefore, LifeAfter
<1>4. CASE r.pid = p.pid /\ r.child = p.child
    <2>1. SameChildOf(i) /\ SameLife(i)
        BY <1>2, <1>3, <1>4 DEF SameChildOf, SameLife
    <2>. QED  BY <1>1, <2>1, MapsStays
<1>5. CASE OldRecord(i, r)
    <2>1. r.pid = p.pid /\ r.child = p.child
        BY <1>5, OnlyRecord DEF OldRecord, SameRecord
    <2>. QED  BY <1>4, <2>1
<1>6. CASE Strikes(i) \/ Requeues(i)
    <2>1. \A deps : /\ Flagged(p).pid = p.pid /\ Flagged(p).child = p.child
                    /\ Requeued(p, deps).pid = p.pid /\ Requeued(p, deps).child = p.child
        BY <1>1 DEF Flagged, Requeued, Process
    <2>2. r.pid = p.pid /\ r.child = p.child
        BY <1>0, <1>6, <2>1 DEF Strikes, Requeues
    <2>. QED  BY <1>4, <2>2
\* Its child is dead and reported, and its handle is released.
<1>7. CASE Schedules(i)
    <2>1. r.pid = p.pid /\ r.child = 0
        <3>1. Scheduled(p).pid = p.pid /\ Scheduled(p).child = 0
            BY <1>1 DEF Scheduled, Process
        <3>. QED  BY <1>0, <1>7, <3>1 DEF Schedules
    <2>2. CASE p.child = 0
        BY <1>4, <2>1, <2>2
    <2>3. CASE p.child # 0
        <3>1. rpc \in Scheduling /\ i \in todo
            BY <1>7 DEF Schedules, PhaseInv, CurListed, Scheduling
        <3>2. ReportedOf(i, p.pid)
            BY <1>1, <3>1 DEF PhaseInv, ScheduledReported
        <3>3. p.child = p.pid /\ p.pid \in Pid /\ os[p.pid] # "unborn"
            BY <2>3 DEF HandleInv, GoodHandles, GoodHandle
        <3>4. Exited(p.pid)
            BY <1>7, <2>3, <3>3 DEF Schedules, Alive, Exited, TypeInv, TableTypeOK
        <3>. QED
            BY <1>1, <1>2, <1>3, <2>1, <2>3, <3>2, <3>3, <3>4, MapsRest DEF SameChildOf
    <2>. QED  BY <2>2, <2>3
\* It had none, and gets a new one.
<1>8. CASE Respawns(i) /\ Visit(i)
    <2>1. PICK q \in Pid : SpawnOk(q) /\ r.child = q /\ r.pid = q
        BY <1>0, <1>8 DEF Respawns
    <2>2. q # 0 /\ Fresh(i)
        BY <1>0, <2>1, NewChild, BoundsAssumption DEF Pid
    <2>3. p.child = 0
        <3>1. (rpc = "restart" /\ i \in todo) \/ (rpc = "spawn" /\ i \in to_spawn)
            BY <1>8 DEF Respawns, AllOrdinary, Ordinary, At, RestartCallStep
        <3>. QED
            BY <1>1, <3>1 DEF ListInv, RestartInv, PhaseInv, WaitInv, Childless
    <2>4. Finished(i)
        BY <1>1, <1>2, <2>3 DEF PhaseInv, Released, Finished
    <2>. QED  BY <1>1, <1>3, <2>1, <2>2, <2>3, <2>4, MapsStart
<1>9. OldRecord(i, r) \/ Visit(i)
    BY <1>0, <1>1 DEF TrackStep, FirstRecord, VisitedRecord
<1>. QED  BY <1>5, <1>6, <1>7, <1>8, <1>9 DEF Visit

\* The record leaves the map.
LEMMA LeavesPresent ==
    ASSUME LInv, LStep, NEW i \in Present, i \notin Present', SameSent(i)
    PROVE  L!Leave(i)
<1>. USE DEF LInv, LStep, NInv, IInv, IdInv
<1>1. i \in ProcessId /\ Used(i)'
    BY StillUsed DEF Present
<1>2. LifeOf(i) \in {"down", "up"}
    BY <1>1, LifeBefore
<1>3. CASE InHands(i)'
    <2>1. PICK t \in Threads : i \in Held(t)'
        BY <1>3 DEF InHands
    <2>2. SameChildOf(i)
        BY <1>1, <2>1, HandOld, OldChild DEF Record
    <2>. QED  BY <1>1, <1>2, <1>3, <2>2, LifeAfter, MapsLeave
<1>4. CASE ~InHands(i)'
    BY <1>1, <1>2, <1>4, GoneChild, LifeAfter, MapsLeave
<1>. QED  BY <1>3, <1>4

\* It comes into the map.
LEMMA EntersPresent ==
    ASSUME LInv, LStep, NEW i \in ProcessId, i \notin Present, i \in Present', SameSent(i)
    PROVE  L!Accept(i) \/ L!Start(i) \/ L!PutBack(i)
<1>. USE DEF LInv, LStep, NInv, IInv, IdInv
<1>0. PICK r : r = processes'[i]
    OBVIOUS
<1>1. Record(i, r)' /\ ChildOf(i)' = r.pid
      /\ LifeOf(i)' = IF r.child = 0 THEN "down" ELSE "up"
    BY <1>0, ChildAfter, LifeAfter DEF Record
\* A new process.
<1>2. CASE FirstRecord(i, r)
    <2>1. PICK q \in 0 .. MaxPid :
             /\ q = 0 \/ SpawnOk(q)
             /\ \E c, deps : r = NewProcess(c, q, next_spawn_sequence, deps)
        BY <1>2 DEF FirstRecord
    <2>2. r.pid = q /\ r.child = q
        BY <2>1 DEF NewProcess
    <2>3. ~Used(i) /\ ~InHands(i) /\ ~Found(i)
        BY <1>2, StillUsed DEF FirstRecord
    <2>4. LifeOf(i) = "unused" /\ ChildOf(i) = 0
        BY <2>3, LifeBefore, ChildBefore, RecordsBefore
    <2>5. CASE q = 0
        BY <1>1, <2>2, <2>4, <2>5, MapsAccept
    <2>6. CASE q # 0
        <3>1. q \in Pid /\ SpawnOk(q)
            BY <2>1, <2>6, BoundsAssumption DEF Pid
        <3>2. Fresh(i)
            BY <1>0, <2>2, <3>1, NewChild
        <3>. QED  BY <1>1, <2>2, <2>4, <2>6, <3>2, MapsStart DEF Finished
    <2>. QED  BY <2>5, <2>6
\* One that may not be killed: it still has its child.
<1>3. CASE OldRecord(i, r)
    <2>1. PICK s \in Process : Record(i, s) /\ s.pid = r.pid /\ s.child = r.child
        BY <1>3 DEF OldRecord, SameRecord
    <2>2. InHands(i) /\ Used(i)
        BY <2>1, RecordsBefore, StillUsed
    <2>3. PICK t \in Threads : i \in Held(t) /\ KillResult(calls[t].held[i]) = "EPERM"
        BY <2>2, ToPresent
    <2>4. s = InHand(t, i)
        BY <2>1, <2>3 DEF Record, OneRecord
    <2>5. s.pid # 0 /\ s.pid \notin reaped
        BY <2>3, <2>4 DEF KillResult, InHand
    <2>6. r.child # 0
        BY <2>1, <2>5 DEF PhaseInv, Released
    <2>. QED  BY <1>1, <1>3, <2>2, <2>6, LifeBefore, OldChild, MapsPutBack
<1>. QED  BY <1>0, <1>1, <1>2, <1>3 DEF TrackStep, VisitedRecord

\* It is not in the map.
LEMMA StaysAbsent ==
    ASSUME LInv, LStep, NEW i \in ProcessId, i \notin Present, i \notin Present', SameSent(i)
    PROVE  L!Stays(i) \/ L!Reject(i) \/ L!Forget(i)
<1>. USE DEF LInv, LStep, NInv, IInv, IdInv
<1>1. CASE InHands(i)'
    <2>1. PICK t \in Threads : i \in Held(t)'
        BY <1>1 DEF InHands
    <2>2. SameChildOf(i)
        BY <2>1, HandOld, OldChild DEF Record
    <2>3. InHands(i)
        BY <2>1, ToHand DEF InHands
    <2>4. SameLife(i)
        BY <1>1, <2>3, LifeBefore, LifeAfter DEF SameLife
    <2>. QED  BY <2>2, <2>4, MapsStays
<1>2. CASE ~InHands(i)' /\ Used(i)
    <2>1. LifeOf(i) \in {"leaving", "gone"} /\ LifeOf(i)' = "gone"
        BY <1>2, StillUsed, LifeBefore, LifeAfter
    <2>. QED  BY <1>2, <2>1, GoneChild, MapsForget
<1>3. CASE ~InHands(i)' /\ ~Used(i)
    <2>1. ~InHands(i) /\ ~Found(i) /\ LifeOf(i) = "unused"
        BY <1>3, StillUsed, LifeBefore
    <2>2. ~Found(i)'
        BY <2>1, FoundBefore
    <2>3. ChildOf(i) = 0 /\ ChildOf(i)' = 0
        BY <1>3, <2>1, <2>2, ChildBefore, ChildAfter, RecordsBefore, RecordsAfter
    <2>4. LifeOf(i)' \in {"unused", "gone"}
        BY <1>3, LifeAfter
    <2>. QED  BY <2>1, <2>3, <2>4, MapsStays, MapsReject DEF SameChildOf, SameLife
<1>. QED  BY <1>1, <1>2, <1>3

-----------------------------------------------------------------------------
(* Every process, and the refinement.                                      *)

LEMMA OneProcess ==
    ASSUME LInv, LStep, NEW i \in ProcessId
    PROVE  \/ L!Stays(i)
           \/ L!Accept(i) \/ L!Reject(i) \/ L!Start(i) \/ L!ReportExit(i) \/ L!Rest(i)
           \/ L!GiveUp(i) \/ L!Leave(i) \/ L!Farewell(i) \/ L!PutBack(i) \/ L!Forget(i)
<1>1. SameSent(i) \/ ReportsExit(i) \/ GivesUp(i) \/ TakesLeave(i)
    BY DEF LStep, EventStep, SameSent
<1>2. CASE SameSent(i)
    BY <1>2, StaysPresent, LeavesPresent, EntersPresent, StaysAbsent
<1>. QED  BY <1>1, <1>2, ReportsExitStep, GivesUpStep, TakesLeaveStep

\* Children are born and die once.
LEMMA ChildrenGrow ==
    ASSUME RecordStep
    PROVE  /\ {q \in Pid : os[q] # "unborn"} \subseteq {q \in Pid : os'[q] # "unborn"}
           /\ {q \in Pid : Exited(q)} \subseteq {q \in Pid : Exited(q)'}
BY DEF RecordStep, ChildStep, OsStep, Exited

LEMMA ImplementsInit ==
    ASSUME Init
    PROVE  L!LifeInit
<1>1. ASSUME NEW i \in ProcessId
      PROVE  LifeOf(i) = "unused" /\ ChildOf(i) = 0
    <2>1. /\ ~Used(i) /\ TypeInv /\ OneRecord /\ ~Found(i)
          /\ \A p : ~Record(i, p)
        BY NInitial, BoundsAssumption
        DEF NInv, IInv, IdInv, Init, TableInit, ManagerInit, ReaperInit, Idle, NoneHeld,
            NoneExited, Used, Record, Present, Held, Found, ProcessId
    <2>. QED  BY <2>1, RecordsBefore, LifeBefore, ChildBefore
<1>. QED
    BY <1>1 DEF L!LifeInit, Init, TableInit, ReaperInit, Exited

LEMMA LInvInductive ==
    ASSUME NoRestart, LInv, [Next]_vars
    PROVE  LInv'
BY NInductive, ReportInductive, OverInductive, PhaseInductive DEF LInv, NInv

LEMMA ImplementsStep ==
    ASSUME NoRestart, LInv, [Next]_vars
    PROVE  L!LifeNext
<1>1. LStep
    BY NSteps, NInductive, EveryFoundStep, EveryEventStep DEF LStep, LInv, NInv, IInv, IdInv
<1>2. RecordStep
    BY <1>1 DEF LStep
<1>. QED  BY <1>1, <1>2, OneProcess, ChildrenGrow DEF L!LifeNext

\* Without restart(), and whatever else the callers do, every step of the
\* system moves each process as its lifecycle allows: an id is used once, a
\* process that is gone does not come back, and the reaper spawns no child for
\* a process before the exit of the one before has been collected and reported.
THEOREM EveryLifecycleKept ==
    ASSUME NoRestart
    PROVE  Spec => ImplementsLifecycle
<1>1. Init => LInv /\ L!LifeInit
    BY NInitial, ReportInitial, OverInitial, PhaseInitial, ImplementsInit DEF LInv
<1>2. LInv /\ [Next]_vars => LInv' /\ [L!LifeNext]_L!lifeVars
    BY LInvInductive, ImplementsStep
<1>. QED  BY <1>1, <1>2, PTL DEF Spec, ImplementsLifecycle, L!LifeSpec
=============================================================================
