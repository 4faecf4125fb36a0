---------------------------- MODULE NoRestartProofs ----------------------------
(***************************************************************************)
(* What holds as long as restart() is not called, for every number of      *)
(* clients and processes: restart() gives an id that is in use a second    *)
(* record, and spawns a child over whatever the entry holds by then.       *)
(*                                                                         *)
(* Without it an id enters the map once (IdInv).  So a record of a process *)
(* is a new one of an id that is on none of the reaper's lists, or what a  *)
(* step makes of the one record there was before: the lists the reaper     *)
(* works through without another look at the state can be trusted.         *)
(***************************************************************************)
EXTENDS ExitReportProofs

USE DEF mapVars, osVars, eventVars, tableVars, managerVars, scratch

NoRestart == "restart" \notin Ops

RestartCallStep == {"restart_check", "restart_reset", "restart_wait",
                    "restart_in_place", "restart_insert"}

\* A call that is not one of restart().
Ordinary(t) == calls[t].op # "restart" /\ calls[t].pc \notin RestartCallStep

AllOrdinary == \A t \in Threads : Ordinary(t)

\* An id that is, or was, that of a process in the map.
Used(i) == i < next_id /\ \A t \in Threads : At(t, "start_insert") => calls[t].id # i

IdsUsed ==
    /\ \A i \in Present : Used(i)
    /\ \A t \in Threads : \A i \in Held(t) : Used(i)

IdsToCome ==
    \A t \in Threads : At(t, "start_insert") =>
        /\ calls[t].id < next_id
        /\ \A u \in Threads \ {t} : At(u, "start_insert") => calls[u].id # calls[t].id

IdInv == IdsUsed /\ IdsToCome /\ OneRecord

-----------------------------------------------------------------------------
(* What the steps do to the calls.                                         *)

\* Where a step may take a call that is not one of restart().
GoesOn(t) ==
    /\ calls'[t].op # "restart"
    /\ calls'[t].pc \notin RestartCallStep \cup {"start_insert"}
    /\ calls'[t].pc \in StopStep => calls[t].pc \in StopStep \/ StopCall(t)
    /\ \A u \in Threads \ {t} : calls'[u] = calls[u]

LEMMA GoesOnTo ==
    ASSUME TypeInv, NEW t \in Threads, NEW c, Becomes(t, c), c.op # "restart",
           c.pc \notin RestartCallStep \cup {"start_insert"},
           c.pc \in StopStep => calls[t].pc \in StopStep \/ StopCall(t)
    PROVE  GoesOn(t)
BY DEF GoesOn, Becomes, TypeInv

LEMMA ReturnGoesOn ==
    ASSUME TypeInv, NEW t \in Threads, Return(t)
    PROVE  GoesOn(t)
BY GoesOnTo DEF Return, Idle, RestartCallStep, StopStep

LEMMA StoppedGoesOn ==
    ASSUME TypeInv, NEW t \in Threads, Ordinary(t), NEW s, Stopped(t, s),
           calls[t].pc \in StopStep
    PROVE  GoesOn(t)
<1>1. CASE Return(t)
    BY <1>1, ReturnGoesOn
<1>2. CASE ~Return(t)
    <2>. DEFINE c == [calls[t] EXCEPT !.pc = "stop_check", !.cur = Head(s),
                                      !.todo = Tail(s), !.nested = TRUE,
                                      !.held = NoneHeld]
    <2>1. Becomes(t, c)
        BY <1>2 DEF Stopped, Ordinary
    <2>2. c.pc = "stop_check" /\ c.op = calls[t].op
        BY CallRecord DEF Call, TypeInv
    <2>. HIDE DEF c
    <2>. QED  BY <2>1, <2>2, GoesOnTo DEF Ordinary, RestartCallStep
<1>. QED  BY <1>1, <1>2

LEMMA StopFailedGoesOn ==
    ASSUME TypeInv, NEW t \in Threads, Ordinary(t), StopFailed(t), calls[t].pc \in StopStep
    PROVE  GoesOn(t)
BY ReturnGoesOn, StoppedGoesOn DEF StopFailed

LEMMA StepGoesOn ==
    ASSUME TypeInv, NEW t \in Threads, Ordinary(t), Steps(t)
    PROVE  GoesOn(t)
<1>. DEFINE k == calls[t]
<1>1. k \in Call /\ k.op # "restart"
    BY CallRecord DEF TypeInv, Ordinary
<1>2. CASE StartSpawn(t) \/ AwaitReturn(t) \/ AwaitTimeout(t) \/ StopManyReap(t)
    BY <1>2, ReturnGoesOn DEF StartSpawn, AwaitReturn, AwaitTimeout, StopManyReap
<1>3. CASE StartWaiting(t) \/ StopEscalate(t)
    <2>1. PICK pc \in {"await_deps", "stop_reap"} :
             /\ \/ Return(t) \/ Becomes(t, [k EXCEPT !.pc = pc])
                \/ k.pc \in StopStep /\ \E s : Stopped(t, s)
             /\ pc = "stop_reap" => k.pc \in StopStep
        BY <1>3 DEF StartWaiting, StopEscalate, At, StopStep
    <2>2. [k EXCEPT !.pc = pc].op = k.op /\ [k EXCEPT !.pc = pc].pc = pc
        BY <1>1 DEF Call
    <2>. QED
        BY <1>1, <2>1, <2>2, ReturnGoesOn, StoppedGoesOn, GoesOnTo
        DEF RestartCallStep, StopStep
<1>4. CASE StopCheck(t)
    <2>. DEFINE p == processes[k.cur]
                pc == IF p.state = "Restarting" THEN "stop_cancel"
                      ELSE IF p.state = "Waiting" THEN "stop_unqueue" ELSE "stop_remove"
                c == [k EXCEPT !.pc = pc, !.pid = p.pid, !.cascade = p.config.cascade_stop]
    <2>1. (StopFailed(t) \/ Becomes(t, c)) /\ k.pc \in StopStep
        BY <1>4 DEF StopCheck, At, StopStep
    <2>2. pc \in {"stop_cancel", "stop_unqueue", "stop_remove"}
        OBVIOUS
    <2>3. c.op = k.op /\ c.pc = pc
        <3>. HIDE DEF pc
        <3>. QED  BY <1>1 DEF Call
    <2>. HIDE DEF c, pc
    <2>. QED
        BY <1>1, <2>1, <2>2, <2>3, StopFailedGoesOn, GoesOnTo DEF RestartCallStep
<1>5. CASE StopCancel(t) \/ StopUnqueue(t) \/ StopReap(t)
    BY <1>5, StoppedGoesOn DEF StopCancel, StopUnqueue, StopReap, At, StopStep
<1>6. CASE StopRemove(t)
    <2>1. PICK h : \/ StopFailed(t) \/ Stopped(t, k.todo)
                   \/ Becomes(t, [k EXCEPT !.pc = "stop_grace", !.held[k.cur] = h])
        BY <1>6 DEF StopRemove, KillResult
    <2>3. k.pc \in StopStep
        BY <1>6 DEF StopRemove, At, StopStep
    <2>. DEFINE c == [k EXCEPT !.pc = "stop_grace", !.held[k.cur] = h]
    <2>2. c.op = k.op /\ c.pc = "stop_grace"
        BY <1>1 DEF Call
    <2>. HIDE DEF c
    <2>. QED
        BY <1>1, <2>1, <2>2, <2>3, StopFailedGoesOn, StoppedGoesOn, GoesOnTo
        DEF c, RestartCallStep
<1>7. CASE StopManyRemove(t)
    <2>1. PICK i \in k.ids : LET p == processes[i]
                                 ids == k.ids \ {i}
                                 held == IF p = NoProcess THEN k.held
                                         ELSE IF p.pid = 0 THEN k.held
                                         ELSE [k.held EXCEPT ![i] = p]
             IN \/ Return(t)
                \/ Becomes(t, [k EXCEPT
                       !.pc = IF ids = {} THEN "many_signal" ELSE "many_remove",
                       !.ids = ids, !.held = held])
        BY <1>7 DEF StopManyRemove
    <2>. DEFINE p == processes[i]
                held == IF p = NoProcess THEN k.held
                        ELSE IF p.pid = 0 THEN k.held ELSE [k.held EXCEPT ![i] = p]
                pc == IF k.ids \ {i} = {} THEN "many_signal" ELSE "many_remove"
                c == [k EXCEPT !.pc = pc, !.ids = k.ids \ {i}, !.held = held]
    <2>2. Return(t) \/ Becomes(t, c)
        BY <2>1
    <2>3. pc \in {"many_signal", "many_remove"}
        OBVIOUS
    <2>4. c.op = k.op /\ c.pc = pc
        <3>. HIDE DEF pc, held
        <3>. QED  BY <1>1 DEF Call
    <2>. HIDE DEF c, pc
    <2>. QED
        BY <1>1, <2>2, <2>3, <2>4, ReturnGoesOn, GoesOnTo DEF RestartCallStep, StopStep
<1>8. CASE StopManySignal(t) \/ StopManyEscalate(t)
    <2>1. PICK h : \/ Becomes(t, [k EXCEPT !.pc = "many_grace", !.held = h])
                   \/ Becomes(t, [k EXCEPT !.pc = "many_reap", !.held = h])
        BY <1>8 DEF StopManySignal, StopManyEscalate
    <2>2. \A pc : /\ [k EXCEPT !.pc = pc, !.held = h].op = k.op
                  /\ [k EXCEPT !.pc = pc, !.held = h].pc = pc
        BY <1>1 DEF Call
    <2>. QED  BY <1>1, <2>1, <2>2, GoesOnTo DEF RestartCallStep, StopStep
<1>9. CASE DropStop(t)
    <2>1. PICK ids : Return(t) \/ Becomes(t, [k EXCEPT !.pc = "many_remove", !.ids = ids])
        BY <1>9 DEF DropStop
    <2>2. /\ [k EXCEPT !.pc = "many_remove", !.ids = ids].op = k.op
          /\ [k EXCEPT !.pc = "many_remove", !.ids = ids].pc = "many_remove"
        BY <1>1 DEF Call
    <2>. QED  BY <1>1, <2>1, <2>2, ReturnGoesOn, GoesOnTo DEF RestartCallStep, StopStep
<1>10. CASE RestartCheck(t) \/ RestartBlocks(t) \/ RestartReset(t)
           \/ RestartInPlace(t) \/ RestartInsert(t)
    BY <1>10 DEF RestartCheck, RestartBlocks, RestartReset, RestartInPlace, RestartInsert,
                At, Ordinary, RestartCallStep
<1>. QED
    BY <1>2, <1>3, <1>4, <1>5, <1>6, <1>7, <1>8, <1>9, <1>10 DEF Steps, StepNext

\* start() takes the next id.
Opens(t) ==
    /\ calls'[t].pc = "start_insert" /\ calls'[t].id = next_id
    /\ calls'[t].op # "restart"
    /\ next_id' = next_id + 1
    /\ \A u \in Threads \ {t} : calls'[u] = calls[u]

\* The ids move on, and with them at most one call.
IdStep ==
    /\ next_id' \in {next_id, next_id + 1}
    /\ \/ UNCHANGED calls
       \/ \E t \in Threads : GoesOn(t) \/ Opens(t)

LEMMA CallGoesOn ==
    ASSUME TypeInv, NoRestart, NEW t \in Threads, Calls(t)
    PROVE  /\ next_id' \in {next_id, next_id + 1}
           /\ UNCHANGED calls \/ GoesOn(t) \/ Opens(t)
<1>1. CASE StartCall(t)
    <2>1. PICK op \in {"start", "start_with_deps"}, c \in Configs :
             \/ UNCHANGED calls
             \/ Becomes(t, [Idle EXCEPT !.pc = "start_insert", !.op = op,
                                        !.id = next_id, !.config = c])
        BY <1>1 DEF StartCall
    <2>. DEFINE n == [Idle EXCEPT !.pc = "start_insert", !.op = op, !.id = next_id,
                                  !.config = c]
    <2>2. n.pc = "start_insert" /\ n.id = next_id /\ n.op = op
        BY DEF Idle
    <2>3. next_id' = next_id + 1
        BY <1>1 DEF StartCall
    <2>. HIDE DEF n
    <2>4. UNCHANGED calls \/ Opens(t)
        BY <2>1, <2>2, <2>3 DEF n, Becomes, TypeInv, Opens
    <2>. QED  BY <2>3, <2>4
<1>2. CASE ~StartCall(t)
    <2>1. UNCHANGED next_id /\ ~RestartCall(t)
        BY <1>2 DEF Calls, CallNext, StopCall, StopManyCall, RestartCall, Poll,
                    DropManager, SendSignal, NoRestart, May
    <2>2. CASE UNCHANGED calls
        BY <2>1, <2>2
    <2>3. CASE StopCall(t)
        <3>1. PICK i \in Present :
                Becomes(t, [Idle EXCEPT !.pc = "stop_check", !.op = "stop", !.id = i,
                                        !.cur = i])
            BY <2>3 DEF StopCall
        <3>. DEFINE c == [Idle EXCEPT !.pc = "stop_check", !.op = "stop", !.id = i,
                                      !.cur = i]
        <3>2. c.pc = "stop_check" /\ c.op = "stop"
            BY DEF Idle
        <3>. HIDE DEF c
        <3>. QED  BY <2>1, <2>3, <3>1, <3>2, GoesOnTo DEF c, RestartCallStep
    <2>4. CASE StopManyCall(t)
        <3>1. PICK ids : Becomes(t, [Idle EXCEPT !.pc = "many_remove", !.op = "stop_many",
                                                 !.ids = ids])
            BY <2>4 DEF StopManyCall
        <3>. DEFINE c == [Idle EXCEPT !.pc = "many_remove", !.op = "stop_many", !.ids = ids]
        <3>2. c.pc = "many_remove" /\ c.op = "stop_many"
            BY DEF Idle
        <3>. HIDE DEF c
        <3>. QED  BY <2>1, <3>1, <3>2, GoesOnTo DEF c, RestartCallStep, StopStep
    <2>5. CASE DropManager(t)
        <3>. DEFINE c == [Idle EXCEPT !.pc = "drop_join", !.op = "drop"]
        <3>1. Becomes(t, c)
            BY <2>5 DEF DropManager
        <3>2. c.pc = "drop_join" /\ c.op = "drop"
            BY DEF Idle
        <3>. HIDE DEF c
        <3>. QED  BY <2>1, <3>1, <3>2, GoesOnTo DEF RestartCallStep, StopStep
    <2>6. CASE Poll(t) \/ \E i \in ProcessId : SendSignal(t, i)
        BY <2>2, <2>6 DEF Poll, SendSignal
    <2>. QED  BY <1>2, <2>1, <2>3, <2>4, <2>5, <2>6 DEF Calls, CallNext
<1>. QED  BY <1>1, <1>2

LEMMA EveryIdStep ==
    ASSUME IInv, NoRestart, AllOrdinary, [Next]_vars
    PROVE  IdStep
<1>1. ASSUME NEW t \in Threads, Calls(t)
      PROVE  IdStep
    BY <1>1, CallGoesOn DEF IInv, IdStep
<1>2. ASSUME NEW t \in Threads, Steps(t)
      PROVE  IdStep
    <2>1. UNCHANGED next_id
        BY <1>2 DEF Steps, StepNext, StartSpawn, StartWaiting,
           AwaitReturn, AwaitTimeout, StopCheck, StopCancel, StopUnqueue, StopRemove,
           StopEscalate, StopReap, StopManyRemove, StopManySignal, StopManyEscalate,
           StopManyReap, RestartCheck, RestartBlocks, RestartReset, RestartInPlace,
           RestartInsert, DropStop
    <2>. QED  BY <1>2, <2>1, StepGoesOn DEF IdStep, IInv, AllOrdinary
<1>3. CASE ReaperNext
    BY <1>3, ReaperUntouched DEF IdStep
<1>4. CASE \/ \E q \in Pid : Exits(q)
           \/ \E i \in ProcessId : BackoffElapses(i) \/ UptimeReached(i) \/ DependencyExpires(i)
           \/ Closes \/ UNCHANGED vars
    BY <1>4 DEF Exits, ChildExits, BackoffElapses, UptimeReached, DependencyExpires,
                Closes, CloseChannel, vars, IdStep
<1>. QED  BY <1>1, <1>2, <1>3, <1>4 DEF Next

LEMMA OrdinaryInductive ==
    ASSUME AllOrdinary, IdStep
    PROVE  AllOrdinary'
BY DEF AllOrdinary, Ordinary, IdStep, GoesOn, Opens, RestartCallStep

-----------------------------------------------------------------------------
(* An id is used once.                                                     *)

LEMMA UsedStays ==
    ASSUME TypeInv, IdStep, NEW i \in ProcessId, Used(i)
    PROVE  Used(i)'
<1>1. next_id \in Nat /\ i \in Nat
    BY BoundsAssumption DEF TypeInv, TableTypeOK, ProcessId
<1>2. i < next_id /\ i < next_id'
    BY <1>1 DEF Used, IdStep
<1>3. ASSUME NEW t \in Threads, calls'[t].pc = "start_insert"
      PROVE  calls'[t].id # i
    <2>1. \/ calls'[t] = calls[t]
          \/ calls'[t].id = next_id
        BY <1>3 DEF IdStep, GoesOn, Opens
    <2>. QED  BY <1>1, <1>2, <1>3, <2>1 DEF Used, At
<1>. QED  BY <1>2, <1>3 DEF Used, At

LEMMA IdsToComeInductive ==
    ASSUME TypeInv, IdsToCome, IdStep
    PROVE  IdsToCome'
<1>1. next_id \in Nat
    BY BoundsAssumption DEF TypeInv, TableTypeOK
<1>2. \A t \in Threads : calls'[t].pc = "start_insert" =>
         \/ calls'[t] = calls[t] /\ calls[t].id < next_id
         \/ Opens(t)
    BY DEF IdStep, GoesOn, Opens, IdsToCome, At
<1>3. ASSUME NEW t \in Threads, calls'[t].pc = "start_insert"
      PROVE  calls'[t].id < next_id'
    <2>1. CASE Opens(t)
        BY <1>1, <2>1 DEF Opens
    <2>2. CASE calls'[t] = calls[t] /\ calls[t].id < next_id
        <3>1. calls[t].id \in Nat
            BY <1>3, <2>2, CallRecord, BoundsAssumption DEF TypeInv, Call
        <3>. QED  BY <1>1, <2>2, <3>1 DEF IdStep
    <2>. QED  BY <1>2, <1>3, <2>1, <2>2
<1>4. ASSUME NEW t \in Threads, NEW u \in Threads \ {t}, calls'[t].pc = "start_insert",
             calls'[u].pc = "start_insert"
      PROVE  calls'[u].id # calls'[t].id
    <2>1. ~(Opens(t) /\ Opens(u))
        BY <1>1 DEF Opens, IdsToCome, At
    <2>2. calls[t].id \in Nat /\ calls[u].id \in Nat
        BY CallRecord, BoundsAssumption DEF TypeInv, Call
    <2>. QED  BY <1>1, <1>2, <1>4, <2>1, <2>2 DEF Opens, IdsToCome, At
<1>. QED  BY <1>3, <1>4 DEF IdsToCome, At

\* What comes into the map was held by a call, or was not used before.
LEMMA ToPresent ==
    ASSUME TypeInv, RecordStep, AllOrdinary, NEW i \in Present'
    PROVE  \/ i \in Present
           \/ ~Used(i) /\ Enters(i)
           \/ \E t \in Threads : /\ i \in Held(t) /\ KillResult(calls[t].held[i]) = "EPERM"
                                /\ \A j \in ProcessId : calls'[t].held[j] = NoProcess
<1>1. i \in ProcessId /\ processes'[i] # NoProcess
    BY DEF Present
<1>2. CASE Keeps(i)
    BY <1>1, <1>2 DEF Keeps, Present
<1>3. CASE Changes(i)
    <2>1. CASE Enters(i)
        BY <2>1 DEF Enters, Used, AllOrdinary, Ordinary, At, RestartCallStep
    <2>. QED
        BY <1>1, <1>3, <2>1 DEF Changes, Respawns, Strikes, Schedules, Requeues, Resets
<1>4. ASSUME NEW t \in Threads, NEW S \in SUBSET ProcessId, PutsBack(t, S), i \in S
      PROVE  /\ i \in Held(t) /\ KillResult(calls[t].held[i]) = "EPERM"
             /\ \A j \in ProcessId : calls'[t].held[j] = NoProcess
    BY <1>4 DEF PutsBack
<1>. QED  BY <1>1, <1>2, <1>3, <1>4 DEF RecordStep, MapStep, MapKeeps, PutsBack

\* What comes into the hands of a call was there before, or in the map.
LEMMA ToHand ==
    ASSUME RecordStep, NEW t \in Threads, NEW i \in Held(t)'
    PROVE  \/ i \in Held(t)
           \/ /\ i \in Present /\ i \notin Present'
              /\ \A u \in Threads \ {t} : i \in Held(u)' => i \in Held(u)
<1>1. i \in ProcessId /\ calls'[t].held[i] # NoProcess
    BY DEF Held
<1>2. CASE HandKeeps(t, i)
    BY <1>1, <1>2 DEF HandKeeps, Held
<1>3. CASE Takes(t, i)
    BY <1>1, <1>3 DEF Takes, HandKeeps, Held, Present
<1>. QED  BY <1>1, <1>2, <1>3 DEF RecordStep, HandStep, HandsKeep, Takes

LEMMA IdInductive ==
    ASSUME TypeInv, AllOrdinary, IdInv, RecordStep, IdStep
    PROVE  IdInv'
<1>. USE DEF IdInv
<1>1. IdsToCome'
    BY IdsToComeInductive
<1>2. \A i \in Present' : Used(i)'
    <2>1. SUFFICES ASSUME NEW i \in Present', Enters(i)
                   PROVE  Used(i)'
        BY ToPresent, UsedStays DEF IdsUsed, Present, Held
    <2>2. i \in ProcessId /\ next_id \in Nat /\ i \in Nat
        BY BoundsAssumption DEF Present, TypeInv, TableTypeOK, ProcessId
    <2>3. PICK t \in Threads : /\ At(t, "start_insert") /\ calls[t].id = i
                               /\ calls'[t].pc # "start_insert"
        BY <2>1 DEF Enters, AllOrdinary, Ordinary, At, RestartCallStep
    <2>4. i < next_id /\ i < next_id'
        BY <2>2, <2>3 DEF IdsToCome, IdStep
    <2>5. ASSUME NEW u \in Threads, calls'[u].pc = "start_insert"
          PROVE  calls'[u].id # i
        <3>1. calls'[u] = calls[u] \/ calls'[u].id = next_id
            BY <2>5 DEF IdStep, GoesOn, Opens
        <3>. QED  BY <2>2, <2>3, <2>4, <2>5, <3>1 DEF IdsToCome, At
    <2>. QED  BY <2>4, <2>5 DEF Used, At
<1>3. \A t \in Threads : \A i \in Held(t)' : Used(i)'
    BY ToHand, UsedStays DEF IdsUsed, Present, Held
<1>4. ASSUME NEW t \in Threads, NEW i \in Held(t)'
      PROVE  i \notin Present' /\ \A u \in Threads \ {t} : i \notin Held(u)'
    <2>1. CASE i \in Held(t)
        <3>1. i \notin Present /\ Used(i) /\ \A u \in Threads \ {t} : i \notin Held(u)
            BY <2>1 DEF OneRecord, IdsUsed
        <3>2. i \notin Present'
            <4>1. i \in ProcessId /\ calls'[t].held[i] # NoProcess
                BY <1>4 DEF Held
            <4>. QED  BY <3>1, <4>1, ToPresent
        <3>. QED  BY <3>1, <3>2, ToHand
    <2>2. CASE i \notin Held(t)
        <3>1. i \in Present /\ i \notin Present'
              /\ \A u \in Threads \ {t} : i \in Held(u)' => i \in Held(u)
            BY <1>4, <2>2, ToHand
        <3>. QED  BY <3>1 DEF OneRecord
    <2>. QED  BY <2>1, <2>2
<1>5. OneRecord'
    BY <1>4 DEF OneRecord
<1>. QED  BY <1>1, <1>2, <1>3, <1>5 DEF IdsUsed

LEMMA IdInitial == Init => AllOrdinary /\ IdInv
BY DEF Init, TableInit, ManagerInit, AllOrdinary, Ordinary, IdInv, IdsUsed, IdsToCome,
       OneRecord, Present, Held, Idle, NoneHeld, At, RestartCallStep

\* However many clients start and stop processes, one at a time or by the
\* label, and whatever the reaper restarts, fails and removes meanwhile, a
\* process has one record, in the map or in the hands of a single call.
THEOREM OneRecordEach ==
    ASSUME NoRestart
    PROVE  Spec => []OneRecord
<1>1. Init => IInv /\ AllOrdinary /\ IdInv
    BY Initial, IdInitial
<1>2. IInv /\ AllOrdinary /\ IdInv /\ [Next]_vars => IInv' /\ AllOrdinary' /\ IdInv'
    BY Inductive, EveryIdStep, OrdinaryInductive, IdInductive, EveryStep DEF IInv
<1>3. IdInv => OneRecord
    BY DEF IdInv
<1>. QED  BY <1>1, <1>2, <1>3, PTL DEF Spec

-----------------------------------------------------------------------------
(* What a step makes of the record of a process.                           *)

\* The records of a process: in the map, and in the hands of the calls.
Record(i, p) ==
    \/ i \in Present /\ p = processes[i]
    \/ \E t \in Threads : i \in Held(t) /\ p = InHand(t, i)

\* A client makes nothing else of an entry.
LEMMA ClientKeeps ==
    ASSUME TypeInv, AllOrdinary, IdInv, NEW t \in Threads, Calls(t) \/ Steps(t),
           NEW i \in Present
    PROVE  Keeps(i)
<1>. USE DEF IdInv
<1>1. i \in ProcessId
    BY DEF Present
<1>2. CASE StartSpawn(t) \/ StartWaiting(t)
    <2>1. PICK id \in ProcessId : id = calls[t].id /\ At(t, "start_insert")
        BY <1>2, CallRecord DEF StartSpawn, StartWaiting, TypeInv, At, GoodCall
    <2>2. id # i
        BY <2>1 DEF IdsUsed, Used
    <2>3. \/ \E S, p : processes' = [PollAll(S) EXCEPT ![id] = p]
          \/ \E S : processes' = PollAll(S)
        BY <1>2, <2>1 DEF StartSpawn, StartWaiting
    <2>. QED  BY <1>1, <2>2, <2>3, PollAllKeeps, PollAllPutKeeps DEF Keeps
<1>3. CASE StopManyReap(t)
    <2>1. i \notin Held(t)
        BY DEF OneRecord
    <2>2. processes'[i] = processes[i]
        BY <1>1, <1>3, <2>1 DEF StopManyReap, Reinserted
    <2>. QED  BY <1>1, <2>2, CarriedItself DEF Keeps, TypeInv, TableTypeOK
<1>4. CASE RestartInsert(t) \/ RestartReset(t) \/ RestartInPlace(t)
    BY <1>4 DEF RestartInsert, RestartReset, RestartInPlace, At, AllOrdinary, Ordinary,
                RestartCallStep
<1>5. CASE Calls(t)
    BY <1>1, <1>5, CallMap DEF MapKeeps
<1>6. CASE \/ AwaitReturn(t) \/ AwaitTimeout(t)
           \/ StopCheck(t) \/ StopCancel(t) \/ StopUnqueue(t) \/ StopRemove(t)
           \/ StopEscalate(t) \/ StopReap(t) \/ StopManyRemove(t) \/ StopManySignal(t)
           \/ StopManyEscalate(t) \/ RestartCheck(t) \/ RestartBlocks(t) \/ DropStop(t)
    BY <1>1, <1>6, OtherStepMap DEF MapKeeps
<1>. QED  BY <1>2, <1>3, <1>4, <1>5, <1>6 DEF Steps, StepNext

\* p is a new record of a new process.
FirstRecord(i, p) ==
    /\ ~Used(i)
    /\ \E q \in 0 .. MaxPid, c \in Configs, deps \in Seq(ProcessId) :
          /\ q = 0 \/ SpawnOk(q)
          /\ p = NewProcess(c, q, next_spawn_sequence, deps)

\* p is what there was, with the same child.
OldRecord(i, p) ==
    \E r \in Process : Record(i, r) /\ SameRecord(r, p) /\ NoWorse(r, p)

\* p is what the reaper makes of the entry it visits.
VisitedRecord(i, p) == i \in Present /\ p = processes'[i] /\ Visit(i) /\ ReaperNext

TrackStep ==
    \A i \in ProcessId : \A p : Record(i, p)' =>
        FirstRecord(i, p) \/ OldRecord(i, p) \/ VisitedRecord(i, p)

LEMMA RecordType ==
    ASSUME TypeInv, NEW i, NEW p, Record(i, p)
    PROVE  i \in ProcessId /\ p \in Process
BY PresentProcess, HeldType DEF Record, InHand, TypeInv, Present, Held

\* An entry that is kept holds the record there was.
LEMMA KeepsOld ==
    ASSUME TypeInv, NEW i \in Present', Keeps(i)
    PROVE  OldRecord(i, processes'[i])
<1>1. i \in Present
    BY DEF Keeps, Present
<1>. QED  BY <1>1, PresentProcess DEF Keeps, Carried, OldRecord, Record, Present, TypeInv

\* So does a call.
LEMMA HandOld ==
    ASSUME TypeInv, RecordStep, NEW t \in Threads, NEW i \in Held(t)'
    PROVE  OldRecord(i, InHand(t, i)')
<1>1. i \in ProcessId /\ calls'[t].held[i] # NoProcess
    BY DEF Held
<1>2. CASE HandKeeps(t, i)
    <2>1. i \in Held(t) /\ InHand(t, i) \in Process
        BY <1>1, <1>2, HeldType DEF HandKeeps, Held, InHand, TypeInv
    <2>. QED  BY <1>1, <1>2, <2>1 DEF HandKeeps, OldRecord, Record, InHand
<1>3. CASE Takes(t, i)
    BY <1>3, PresentProcess DEF Takes, OldRecord, Record, InHand, TypeInv
<1>. QED  BY <1>1, <1>2, <1>3 DEF RecordStep, HandStep, HandsKeep, Takes

LEMMA EveryTrackStep ==
    ASSUME IInv, AllOrdinary, IdInv, [Next]_vars
    PROVE  TrackStep
<1>. USE DEF IInv, IdInv
<1>1. RecordStep
    BY EveryStep
<1>2. ASSUME NEW i \in Present', Keeps(i)
      PROVE  OldRecord(i, processes'[i])
    BY <1>2, KeepsOld
\* A record in the map.
<1>3. ASSUME NEW i \in Present'
      PROVE  FirstRecord(i, processes'[i]) \/ OldRecord(i, processes'[i])
               \/ VisitedRecord(i, processes'[i])
    <2>1. i \in ProcessId
        BY DEF Present
    <2>2. CASE i \notin Present
        <3>1. CASE Enters(i)
            <4>1. PICK t \in Threads :
                     /\ At(t, "start_insert") /\ calls[t].id = i
                     /\ \E q \in 0 .. MaxPid, deps \in Seq(ProcessId) :
                          /\ q = 0 \/ SpawnOk(q)
                          /\ processes'[i] = NewProcess(calls[t].config, q,
                                                        next_spawn_sequence, deps)
                BY <3>1 DEF Enters, AllOrdinary, Ordinary, At, RestartCallStep
            <4>2. calls[t].config \in Configs /\ ~Used(i)
                BY <4>1, CallRecord DEF TypeInv, GoodCall, At, Used
            <4>. QED  BY <4>1, <4>2 DEF FirstRecord
        <3>2. ASSUME NEW t \in Threads, NEW S \in SUBSET ProcessId, PutsBack(t, S), i \in S
              PROVE  OldRecord(i, processes'[i])
            <4>1. i \in Held(t) /\ InHand(t, i) \in Process
                  /\ processes'[i] = [InHand(t, i) EXCEPT !.state = "Failed"]
                BY <3>2, HeldType DEF PutsBack, InHand, TypeInv
            <4>2. SameRecord(InHand(t, i), processes'[i]) /\ NoWorse(InHand(t, i), processes'[i])
                BY <4>1, CarriedEdits DEF Carried
            <4>. QED  BY <4>1, <4>2 DEF OldRecord, Record
        <3>. QED
            BY <1>1, <1>2, <2>1, <2>2, <3>1, <3>2
            DEF RecordStep, MapStep, MapKeeps, PutsBack, Changes, Respawns, Strikes,
                Schedules, Requeues, Resets
    <2>3. CASE i \in Present
        <3>1. Keeps(i) \/ (ReaperNext /\ Visit(i))
            <4>1. ASSUME NEW t \in Threads, Calls(t) \/ Steps(t)
                  PROVE  Keeps(i)
                BY <2>3, <4>1, ClientKeeps
            <4>2. CASE ReaperNext
                BY <2>1, <4>2, ReaperVisits DEF VisitStep, MapKeeps
            <4>3. ASSUME NEW j \in ProcessId, Ticks(j)
                  PROVE  Keeps(i)
                BY <2>1, <4>3, TicksMap DEF MapKeeps
            <4>4. CASE (\E q \in Pid : Exits(q)) \/ Closes \/ UNCHANGED vars
                <5>1. UNCHANGED processes
                    BY <4>4 DEF Exits, ChildExits, Closes, CloseChannel, vars
                <5>. QED  BY <2>1, <5>1, SameMap DEF MapKeeps
            <4>. QED  BY <4>1, <4>2, <4>3, <4>4 DEF Next, Ticks
        <3>. QED  BY <1>2, <2>3, <3>1 DEF VisitedRecord
    <2>. QED  BY <2>2, <2>3
\* A record in the hands of a call.
<1>4. ASSUME NEW t \in Threads, NEW i \in Held(t)'
      PROVE  OldRecord(i, InHand(t, i)')
    BY <1>1, HandOld
<1>5. ASSUME NEW i \in ProcessId, NEW p, Record(i, p)'
      PROVE  FirstRecord(i, p) \/ OldRecord(i, p) \/ VisitedRecord(i, p)
    <2>1. CASE i \in Present' /\ p = processes'[i]
        BY <1>3, <2>1
    <2>2. ASSUME NEW t \in Threads, i \in Held(t)', p = InHand(t, i)'
          PROVE  OldRecord(i, p)
        BY <1>4, <2>2
    <2>. QED  BY <1>5, <2>1, <2>2 DEF Record
<1>. QED  BY <1>5 DEF TrackStep

-----------------------------------------------------------------------------
(* The lists of the reaper.                                                *)

Scheduling == {"schedule", "schedule_wait"}

\* A list is the one of before, less what has been visited, or a new one.
FlagListStep ==
    rpc' = "flag" =>
        \/ rpc = "flag" /\ todo' \subseteq todo /\ UNCHANGED origins
        \/ CollectTargets /\ todo' = CascadeTargets

RestartListStep ==
    rpc' = "restart" =>
        \/ rpc = "restart" /\ todo' \subseteq todo
        \/ CollectEligible /\ todo' \subseteq InState({"Restarting"})

ScheduleListStep ==
    rpc' \in Scheduling =>
        \/ rpc \in Scheduling /\ todo' \subseteq todo
        \/ EmitEvents /\ todo' = ToRestart

\* The reaper blocks on an entry of its list.
CurListStep ==
    rpc' = "schedule_wait" =>
        \/ rpc = "schedule_wait" /\ UNCHANGED <<todo, cur>>
        \/ cur' \in todo'

\* What is not restarted is removed before anything is reported.
EmitListStep == rpc' = "emit" => rpc = "emit" \/ RemoveExited

ListStep ==
    FlagListStep /\ RestartListStep /\ ScheduleListStep /\ CurListStep /\ EmitListStep

LEMMA SameLists ==
    ASSUME UNCHANGED <<rpc, todo, cur, origins>>
    PROVE  ListStep
BY DEF ListStep, FlagListStep, RestartListStep, ScheduleListStep, CurListStep, EmitListStep

LEMMA EveryListStep ==
    ASSUME [Next]_vars
    PROVE  ListStep
<1>. USE DEF ListStep, FlagListStep, RestartListStep, ScheduleListStep, CurListStep,
             EmitListStep, Scheduling
<1>1. ASSUME NEW t \in Threads, Calls(t) \/ Steps(t)
      PROVE  ListStep
    <2>1. UNCHANGED <<rpc, todo, cur, origins>>
        BY <1>1 DEF Calls, CallNext, Steps, StepNext, StartCall, StopCall,
           StopManyCall, RestartCall, Poll, DropManager, SendSignal, StartSpawn, StartWaiting,
           AwaitReturn, AwaitTimeout, StopCheck, StopCancel, StopUnqueue, StopRemove,
           StopEscalate, StopReap, StopManyRemove, StopManySignal, StopManyEscalate,
           StopManyReap, RestartCheck, RestartBlocks, RestartReset, RestartInPlace,
           RestartInsert, DropStop
    <2>. QED  BY <2>1, SameLists
<1>2. CASE ReaperNext
    <2>1. CASE BeginCycle \/ EndDetect \/ RemoveExited \/ ScheduleResumes
        BY <2>1 DEF BeginCycle, EndDetect, RemoveExited, ScheduleResumes, In, Goto
    <2>2. CASE CollectTargets
        BY <2>2 DEF CollectTargets, Collect
    <2>3. CASE EmitEvents
        BY <2>3 DEF EmitEvents, Collect, Goto
    <2>4. CASE CollectEligible
        BY <2>4 DEF CollectEligible, Collect
    <2>5. CASE CollectWaiting \/ CollectRunning
        BY <2>5 DEF CollectWaiting, CollectRunning, Collect, AfterCycle
    <2>6. ASSUME NEW i \in ProcessId,
                 DetectExit(i) \/ DetectAlive(i) \/ FlagTarget(i) \/ ScheduleRestart(i)
                   \/ ScheduleBlocks(i)
          PROVE  ListStep
        BY <2>6 DEF DetectExit, DetectAlive, FlagTarget, ScheduleRestart, ScheduleBlocks,
                    In, Goto, Done
    <2>7. ASSUME NEW i \in ProcessId,
                 RestartSkips(i) \/ RestartSpawns(i) \/ RestartWaits(i) \/ RestartWedges(i)
          PROVE  ListStep
        BY <2>7 DEF RestartSkips, RestartSpawns, RestartWaits, RestartWedges, In, Goto, Done
    <2>8. ASSUME NEW i \in ProcessId,
                 CheckWaiting(i) \/ SpawnWaiting(i) \/ FailWaiting(i) \/ FailRunning(i)
          PROVE  ListStep
        <3>1. rpc' \in {"check", "spawn", "fail", "running", "failfast", "done", "sleep"}
            BY <2>8 DEF CheckWaiting, NextCheck, SpawnWaiting, FailWaiting, FailRunning,
                        AfterCycle, In, Goto, Done
        <3>. QED  BY <3>1
    <2>. QED  BY <1>2, <2>1, <2>2, <2>3, <2>4, <2>5, <2>6, <2>7, <2>8 DEF ReaperNext
<1>3. CASE \/ \E q \in Pid : Exits(q)
           \/ \E i \in ProcessId : BackoffElapses(i) \/ UptimeReached(i) \/ DependencyExpires(i)
           \/ Closes \/ UNCHANGED vars
    <2>1. UNCHANGED <<rpc, todo, cur, origins>>
        BY <1>3 DEF Exits, ChildExits, BackoffElapses, UptimeReached, DependencyExpires,
                    Closes, CloseChannel, vars, reaperVars
    <2>. QED  BY <2>1, SameLists
<1>. QED  BY <1>1, <1>2, <1>3 DEF Next

-----------------------------------------------------------------------------
(* What the lists can be trusted for.                                      *)

InGroup(i, p) ==
    \E o \in origins :
        /\ o.id # i
        /\ o.label = p.config.label
        /\ o.strategy = "RestForOne" => p.spawn_sequence > o.seq

\* What a cascade is about to kill has a child, and is one of its group.
FlagInv ==
    rpc = "flag" =>
        \A i \in todo :
            Used(i) /\ \A p : Record(i, p) => p.child # 0 /\ InGroup(i, p)

\* What is about to be restarted has none.
RestartInv ==
    rpc = "restart" =>
        \A i \in todo : Used(i) /\ \A p : Record(i, p) => p.child = 0

ListInv == HandleMatchesState /\ FlagInv /\ RestartInv

LEMMA MatchesConsistent ==
    HandleMatchesState <=> \A i \in Present : Consistent(processes[i])
BY DEF HandleMatchesState, Consistent

\* The record of an id that is used, and that the reaper does not visit, is
\* an old one.
LEMMA NotVisited ==
    ASSUME TrackStep, NEW i \in ProcessId, Used(i), ~Visit(i), NEW p, Record(i, p)'
    PROVE  OldRecord(i, p)
BY DEF TrackStep, FirstRecord, VisitedRecord

\* The record of an entry is the only one.
LEMMA OnlyRecord ==
    ASSUME OneRecord, NEW i \in Present, NEW p, Record(i, p)
    PROVE  p = processes[i]
BY DEF OneRecord, Record

LEMMA SameRecords ==
    ASSUME UNCHANGED <<processes, calls>>, NEW i, NEW p
    PROVE  Record(i, p)' <=> Record(i, p)
BY DEF Record, Present, Held, InHand

LEMMA FlagInductive ==
    ASSUME TypeInv, IdInv, HandleMatchesState, FlagInv, IdStep, TrackStep, FlagListStep
    PROVE  FlagInv'
<1>1. SUFFICES ASSUME rpc' = "flag", NEW i \in todo'
               PROVE  /\ Used(i)'
                      /\ \A p : Record(i, p)' => p.child # 0 /\ InGroup(i, p)'
    BY DEF FlagInv
<1>2. CASE rpc = "flag" /\ todo' \subseteq todo /\ UNCHANGED origins
    <2>1. i \in todo /\ i \in ProcessId /\ Used(i) /\ ~Visit(i)
        BY <1>1, <1>2 DEF TypeInv, ReaperTypeOK, FlagInv, Visit
    <2>2. ASSUME NEW p, Record(i, p)'
          PROVE  p.child # 0 /\ InGroup(i, p)'
        <3>1. PICK r \in Process : Record(i, r) /\ SameRecord(r, p)
            BY <2>1, <2>2, NotVisited DEF OldRecord
        <3>2. r.child # 0 /\ InGroup(i, r)
            BY <1>2, <2>1, <3>1 DEF FlagInv
        <3>. QED  BY <1>2, <3>1, <3>2 DEF SameRecord, InGroup
    <2>. QED  BY <2>1, <2>2, UsedStays
<1>3. CASE CollectTargets /\ todo' = CascadeTargets
    <2>1. UNCHANGED <<processes, calls, origins>>
        BY <1>3 DEF CollectTargets
    <2>2. /\ i \in Present /\ i \in ProcessId
          /\ processes[i].state \in {"Running", "Starting"} /\ InGroup(i, processes[i])
        BY <1>1, <1>3 DEF CascadeTargets, InState, InGroup, Present
    <2>3. Used(i)
        BY <2>2 DEF IdInv, IdsUsed
    <2>4. processes[i].child # 0
        BY <2>2, MatchesConsistent DEF Consistent
    <2>5. ASSUME NEW p, Record(i, p)'
          PROVE  p = processes[i]
        BY <2>1, <2>2, <2>5, SameRecords, OnlyRecord DEF IdInv
    <2>6. InGroup(i, processes[i])'
        BY <2>1, <2>2 DEF InGroup
    <2>. QED  BY <2>1, <2>2, <2>3, <2>4, <2>5, <2>6, UsedStays
<1>. QED  BY <1>1, <1>2, <1>3 DEF FlagListStep

LEMMA RestartInductive ==
    ASSUME TypeInv, IdInv, HandleMatchesState, RestartInv, IdStep, TrackStep,
           RestartListStep
    PROVE  RestartInv'
<1>1. SUFFICES ASSUME rpc' = "restart", NEW i \in todo'
               PROVE  Used(i)' /\ \A p : Record(i, p)' => p.child = 0
    BY DEF RestartInv
<1>2. CASE rpc = "restart" /\ todo' \subseteq todo
    <2>1. i \in todo /\ i \in ProcessId /\ Used(i) /\ ~Visit(i)
        BY <1>1, <1>2 DEF TypeInv, ReaperTypeOK, RestartInv, Visit
    <2>2. ASSUME NEW p, Record(i, p)'
          PROVE  p.child = 0
        BY <1>2, <2>1, <2>2, NotVisited DEF OldRecord, RestartInv, SameRecord
    <2>. QED  BY <2>1, <2>2, UsedStays
<1>3. CASE CollectEligible /\ todo' \subseteq InState({"Restarting"})
    <2>1. UNCHANGED <<processes, calls>>
        BY <1>3 DEF CollectEligible
    <2>2. i \in Present /\ i \in ProcessId /\ processes[i].state = "Restarting"
        BY <1>1, <1>3 DEF InState, Present
    <2>3. Used(i) /\ processes[i].child = 0
        BY <2>2, MatchesConsistent DEF Consistent, IdInv, IdsUsed
    <2>4. ASSUME NEW p, Record(i, p)'
          PROVE  p = processes[i]
        BY <2>1, <2>2, <2>4, SameRecords, OnlyRecord DEF IdInv
    <2>. QED  BY <2>2, <2>3, <2>4, UsedStays
<1>. QED  BY <1>1, <1>2, <1>3 DEF RestartListStep

LEMMA ConsistentEdits ==
    ASSUME NEW p \in Process
    PROVE  /\ p.child # 0 /\ Consistent(p) => Consistent(Flagged(p))
           /\ p.pid = p.child \/ p.child = 0 =>
                 Consistent([p EXCEPT !.state = "Failed"])
           /\ Consistent(Scheduled(p))
           /\ \A deps : p.child = 0 => Consistent(Requeued(p, deps))
<1>1. p.child # 0 /\ Consistent(p) => Consistent(Flagged(p))
    BY DEF Consistent, Flagged, Process
<1>2. p.pid = p.child \/ p.child = 0 => Consistent([p EXCEPT !.state = "Failed"])
    BY DEF Consistent, Process
<1>3. Scheduled(p).child = 0 /\ Scheduled(p).state = "Restarting"
    BY DEF Scheduled, Process
<1>4. ASSUME NEW deps, p.child = 0
      PROVE  Requeued(p, deps).child = 0 /\ Requeued(p, deps).state = "Waiting"
    BY <1>4 DEF Requeued, Process
<1>. QED  BY <1>1, <1>2, <1>3, <1>4 DEF Consistent

LEMMA MatchesInductive ==
    ASSUME TypeInv, HandleInv, AllOrdinary, IdInv, ListInv, RecordStep
    PROVE  HandleMatchesState'
<1>. USE DEF ListInv
<1>1. ASSUME NEW i \in Present', Keeps(i)
      PROVE  Consistent(processes'[i])
    BY <1>1, MatchesConsistent DEF Keeps, Carried, Present
<1>2. ASSUME NEW i \in Present', Changes(i)
      PROVE  Consistent(processes'[i])
    <2>1. CASE Respawns(i)
        BY <2>1 DEF Respawns, Consistent, Pid
    <2>2. CASE Enters(i)
        BY <2>2 DEF Enters, NewProcess, Consistent
    <2>3. CASE Strikes(i) \/ Schedules(i) \/ Requeues(i)
        <3>1. i \in Present /\ processes[i] \in Process /\ Record(i, processes[i])
            BY <2>3, PresentProcess DEF TypeInv, Strikes, Schedules, Requeues, Record
        <3>2. CASE Strikes(i)
            <4>1. processes[i].child # 0
                BY <3>1, <3>2 DEF Strikes, FlagInv
            <4>. QED  BY <3>1, <3>2, <4>1, ConsistentEdits, MatchesConsistent DEF Strikes
        <3>3. CASE Schedules(i)
            BY <3>1, <3>3, ConsistentEdits DEF Schedules
        <3>4. CASE Requeues(i)
            <4>1. processes[i].child = 0
                BY <3>1, <3>4 DEF Requeues, RestartInv
            <4>. QED  BY <3>1, <3>4, <4>1, ConsistentEdits DEF Requeues
        <3>. QED  BY <2>3, <3>2, <3>3, <3>4
    <2>4. ~Resets(i)
        BY DEF Resets, AllOrdinary, Ordinary, At, RestartCallStep
    <2>. QED  BY <1>2, <2>1, <2>2, <2>3, <2>4 DEF Changes
<1>3. ASSUME NEW t \in Threads, NEW S \in SUBSET ProcessId, PutsBack(t, S), NEW i \in S
      PROVE  Consistent(processes'[i])
    <2>1. i \in Held(t) /\ InHand(t, i) \in Process
          /\ processes'[i] = [InHand(t, i) EXCEPT !.state = "Failed"]
        BY <1>3, HeldType DEF PutsBack, InHand, TypeInv
    <2>2. InHand(t, i).child = 0 \/ InHand(t, i).child = InHand(t, i).pid
        BY <2>1 DEF HandleInv, GoodHandles, GoodHandle
    <2>. QED  BY <2>1, <2>2, ConsistentEdits
<1>4. \A i \in Present' : Consistent(processes'[i])
    BY <1>1, <1>2, <1>3 DEF RecordStep, MapStep, MapKeeps, PutsBack, Present
<1>. QED  BY <1>4 DEF HandleMatchesState, Consistent

LEMMA ListInitial == Init => ListInv
BY DEF Init, TableInit, ReaperInit, ListInv, HandleMatchesState, FlagInv, RestartInv, Present

\* The inductive invariant of the system without restart().
NInv == IInv /\ HandleInv /\ AllOrdinary /\ IdInv /\ ListInv

LEMMA NInitial == Init => NInv
BY Initial, HandlesInitial, IdInitial, ListInitial DEF NInv

\* What the steps from a state of the invariant are.
LEMMA NSteps ==
    ASSUME NoRestart, NInv, [Next]_vars
    PROVE  RecordStep /\ IdStep /\ TrackStep /\ ListStep
BY EveryStep, EveryIdStep, EveryTrackStep, EveryListStep DEF NInv

LEMMA NInductive ==
    ASSUME NoRestart, NInv, [Next]_vars
    PROVE  NInv'
<1>. USE DEF NInv, IInv
<1>1. RecordStep /\ IdStep /\ TrackStep /\ ListStep
    BY NSteps
<1>2. IInv' /\ HandleInv' /\ AllOrdinary' /\ IdInv'
    BY <1>1, Inductive, HandlesInductive, OrdinaryInductive, IdInductive
<1>3. ListInv'
    BY <1>1, FlagInductive, RestartInductive, MatchesInductive DEF ListInv, ListStep
<1>. QED  BY <1>2, <1>3

LEMMA NInvariant ==
    ASSUME NoRestart
    PROVE  Spec => []NInv
<1>1. NInv /\ [Next]_vars => NInv'
    BY NInductive
<1>. QED  BY <1>1, NInitial, PTL DEF Spec

\* The cascade looks at the pid of its target and not at the handle, and
\* perform_restart() does not look whether there is still a child.  Without
\* restart() what they rely on is true whenever they run: the state of
\* a process in the map always agrees with its handle.
THEOREM HandlesMatch ==
    ASSUME NoRestart
    PROVE  Spec => []HandleMatchesState
<1>1. NInv => HandleMatchesState
    BY DEF NInv, ListInv
<1>. QED  BY <1>1, NInvariant, PTL

-----------------------------------------------------------------------------
(* A cascade stays in its group.                                           *)

GroupStep ==
    \A i \in Present :
        processes'[i] # NoProcess /\ ~processes[i].cascade_flag =>
          (processes'[i].cascade_flag => InGroup(i, processes[i]))

LEMMA EveryGroupStep ==
    ASSUME NoRestart, NInv, [Next]_vars
    PROVE  GroupStep
<1>. USE DEF NInv, ListInv, IInv
<1>1. RecordStep
    BY NSteps
<1>2. SUFFICES ASSUME NEW i \in Present, processes'[i] # NoProcess,
                      ~processes[i].cascade_flag, processes'[i].cascade_flag
               PROVE  InGroup(i, processes[i])
    BY DEF GroupStep
<1>3. processes[i] \in Process /\ i \in ProcessId /\ Record(i, processes[i])
    BY PresentProcess DEF TypeInv, Record
<1>4. ~Keeps(i)
    BY <1>2 DEF Keeps, Carried, NoWorse
<1>5. ~\E t \in Threads, S \in SUBSET ProcessId : PutsBack(t, S)
    <2>1. ASSUME NEW t \in Threads, NEW S \in SUBSET ProcessId, PutsBack(t, S)
          PROVE  FALSE
        <3>1. i \notin S
            BY <2>1 DEF PutsBack, IdInv, OneRecord
        <3>. QED  BY <1>3, <1>4, <2>1, <3>1 DEF PutsBack
    <2>. QED  BY <2>1
<1>6. Changes(i)
    BY <1>1, <1>3, <1>4, <1>5 DEF RecordStep, MapStep, MapKeeps
<1>7. ~Respawns(i)
    BY <1>2 DEF Respawns, NoWorse
<1>8. ~Enters(i)
    <2>1. \A c, q, s, deps : NewProcess(c, q, s, deps).cascade_flag = FALSE
        BY DEF NewProcess
    <2>. QED  BY <1>2, <2>1 DEF Enters
<1>9. ~Schedules(i) /\ ~Requeues(i)
    <2>1. Scheduled(processes[i]).cascade_flag = processes[i].cascade_flag
        BY <1>3 DEF Scheduled, Process
    <2>2. \A deps : ~Requeued(processes[i], deps).cascade_flag
        BY <1>3 DEF Requeued, Process
    <2>. QED  BY <1>2, <2>1, <2>2 DEF Schedules, Requeues
<1>10. ~Resets(i)
    BY DEF Resets, AllOrdinary, Ordinary, At, RestartCallStep
<1>11. Strikes(i)
    BY <1>6, <1>7, <1>8, <1>9, <1>10 DEF Changes
<1>. QED  BY <1>3, <1>11 DEF Strikes, FlagInv

\* The targets of a cascade are collected in one step and flagged one by one
\* in later ones, between the calls of any number of clients.  None of them
\* has been replaced by a process of another group by then, and none was
\* started before the one that crashed.
THEOREM CascadesStayInGroup ==
    ASSUME NoRestart
    PROVE  Spec => CascadeStaysInGroup
<1>1. NInv /\ [Next]_vars => [GroupStep]_vars
    BY EveryGroupStep
<1>2. [][GroupStep]_vars => CascadeStaysInGroup
    BY DEF CascadeStaysInGroup, GroupStep, InGroup
<1>. QED  BY <1>1, <1>2, NInvariant, PTL DEF Spec

-----------------------------------------------------------------------------
(* How often a process is restarted.                                       *)

\* No process of the group of one that is under OneForOne starts a cascade.
GroupsApart ==
    \A c, d \in Configs :
        c.label = d.label /\ c.supervisor_strategy = "OneForOne"
            => d.supervisor_strategy = "OneForOne"

Limited(p) == p.config.backoff /\ p.config.supervisor_strategy = "OneForOne"

BelowLimit(p) == Limited(p) => p.restart_count < p.config.max_restarts
WithinLimit(p) == Limited(p) => p.restart_count <= p.config.max_restarts

CountsWithin == \A i \in ProcessId : \A p : Record(i, p) => WithinLimit(p)

Unflagged ==
    \A i \in ProcessId : \A p :
        Record(i, p) /\ p.config.supervisor_strategy = "OneForOne" => ~p.cascade_flag

OriginsCascade ==
    \A o \in origins :
        \E c \in Configs : c.label = o.label /\ c.supervisor_strategy # "OneForOne"

\* What is going to be restarted may be.
FoundBelow ==
    \A i \in ProcessId : Found(i) /\ exited[i].restart =>
        Used(i) /\ \A p : Record(i, p) => BelowLimit(p)

ScheduledBelow ==
    rpc \in Scheduling =>
        \A i \in todo : Used(i) /\ \A p : Record(i, p) => BelowLimit(p)

CurListed == rpc = "schedule_wait" => cur \in todo

LimitInv ==
    /\ CountsWithin /\ Unflagged /\ OriginsCascade /\ FoundBelow /\ ScheduledBelow
    /\ CurListed

\* An exit is found by DetectExit(), and so is the origin of a cascade.
FoundStep ==
    /\ \A i \in ProcessId : Found(i)' =>
          (Found(i) /\ exited'[i] = exited[i]) \/ DetectExit(i)
    /\ origins' \subseteq origins \/ \E i \in ProcessId : DetectExit(i)

LEMMA SameFound ==
    ASSUME UNCHANGED <<exited, origins>>
    PROVE  FoundStep
BY DEF FoundStep, Found

LEMMA EveryFoundStep ==
    ASSUME TypeInv, [Next]_vars
    PROVE  FoundStep
<1>1. ASSUME NEW t \in Threads, Calls(t) \/ Steps(t)
      PROVE  FoundStep
    BY <1>1, SameFound DEF Calls, Steps
<1>2. CASE ReaperNext
    <2>1. ASSUME NEW i \in ProcessId, DetectExit(i)
          PROVE  FoundStep
        <3>1. PICK e : exited' = [exited EXCEPT ![i] = e]
            BY <2>1 DEF DetectExit
        <3>2. \A j \in ProcessId \ {i} : exited'[j] = exited[j]
            BY <3>1 DEF TypeInv, ReaperTypeOK
        <3>. QED  BY <2>1, <3>2 DEF FoundStep, Found
    <2>2. CASE RemoveExited
        BY <2>2 DEF RemoveExited, FoundStep, Found
    <2>3. CASE EmitEvents
        BY <2>3 DEF EmitEvents, FoundStep, Found, NoneExited
    <2>4. CASE \/ BeginCycle \/ EndDetect \/ CollectTargets \/ CollectEligible
               \/ CollectWaiting \/ CollectRunning \/ ScheduleResumes
        BY <2>4, SameFound DEF BeginCycle, EndDetect, CollectTargets, CollectEligible,
                               CollectWaiting, CollectRunning, ScheduleResumes
    <2>5. ASSUME NEW i \in ProcessId,
                 \/ DetectAlive(i) \/ FlagTarget(i) \/ ScheduleRestart(i)
                 \/ ScheduleBlocks(i) \/ RestartSkips(i) \/ RestartSpawns(i)
                 \/ RestartWaits(i) \/ RestartWedges(i) \/ CheckWaiting(i)
                 \/ SpawnWaiting(i) \/ FailWaiting(i) \/ FailRunning(i)
          PROVE  FoundStep
        BY <2>5, SameFound DEF DetectAlive, FlagTarget, ScheduleRestart, ScheduleBlocks,
               RestartSkips, RestartSpawns, RestartWaits, RestartWedges, CheckWaiting,
               SpawnWaiting, FailWaiting, FailRunning
    <2>. QED  BY <1>2, <2>1, <2>2, <2>3, <2>4, <2>5 DEF ReaperNext
<1>3. CASE \/ \E q \in Pid : Exits(q)
           \/ \E i \in ProcessId : BackoffElapses(i) \/ UptimeReached(i) \/ DependencyExpires(i)
           \/ Closes \/ UNCHANGED vars
    BY <1>3, SameFound DEF Exits, BackoffElapses, UptimeReached, DependencyExpires, Closes,
                           vars, reaperVars
<1>. QED  BY <1>1, <1>2, <1>3 DEF Next

\* What the reaper decides about an exit.
LEMMA DetectDecides ==
    ASSUME TypeInv, OneRecord, NEW i \in ProcessId, DetectExit(i)
    PROVE  \E p \in Process :
             /\ SameRecord(processes[i], p) /\ NoWorse(processes[i], p)
             /\ p.cascade_flag = processes[i].cascade_flag
             /\ Exited(p.child)
             /\ exited'[i].pid = p.pid /\ exited'[i].state = EventState(p)
             /\ exited'[i].restart = WillRestart(p)
             /\ \A r : Record(i, r)' => SameRecord(p, r) /\ NoWorse(p, r) /\ ~r.cascade_flag
             /\ \A j \in ProcessId \ {i} : \A r : Record(j, r)' => Record(j, r)
             /\ origins' = IF StartsCascade(p)
                           THEN origins \cup {[id |-> i, label |-> p.config.label,
                                      seq |-> p.spawn_sequence,
                                      strategy |-> p.config.supervisor_strategy]}
                           ELSE origins
<1>. DEFINE p == check_stable_uptime(processes[i])
            e == [pid |-> p.pid, state |-> EventState(p), restart |-> WillRestart(p)]
<1>1. i \in Present /\ processes[i] \in Process
    BY PresentProcess DEF DetectExit, TypeInv
<1>2. p \in Process /\ Carried(processes[i], p)
    BY <1>1, CarriedStable
<1>3. p.cascade_flag = processes[i].cascade_flag
    BY <1>1 DEF check_stable_uptime, Process
<1>4. /\ exited'[i] = e /\ e.pid = p.pid /\ e.state = EventState(p)
      /\ e.restart = WillRestart(p) /\ Exited(p.child)
    BY DEF DetectExit, TypeInv, ReaperTypeOK
<1>5. processes' = [processes EXCEPT ![i] = [p EXCEPT !.cascade_flag = FALSE]]
      /\ UNCHANGED calls
    BY DEF DetectExit, Put
<1>6. origins' = IF StartsCascade(p)
                 THEN origins \cup {[id |-> i, label |-> p.config.label,
                                     seq |-> p.spawn_sequence,
                                     strategy |-> p.config.supervisor_strategy]}
                 ELSE origins
    BY DEF DetectExit
<1>. DEFINE n == [p EXCEPT !.cascade_flag = FALSE]
<1>7. Carried(p, n) /\ ~n.cascade_flag
    <2>. HIDE DEF p
    <2>. QED  BY <1>2, CarriedEdits DEF Process
<1>8. processes'[i] = n /\ \A j \in ProcessId \ {i} : processes'[j] = processes[j]
    BY <1>5 DEF TypeInv, TableTypeOK
<1>. HIDE DEF p, n, e
<1>9. \A r : Record(i, r)' => r = n
    BY <1>1, <1>5, <1>8 DEF Record, OneRecord, Present, Held, InHand
<1>10. \A j \in ProcessId \ {i} : \A r : Record(j, r)' => Record(j, r)
    BY <1>5, <1>8 DEF Record, Present, Held, InHand
<1>11. /\ SameRecord(processes[i], p) /\ NoWorse(processes[i], p)
       /\ \A r : Record(i, r)' => SameRecord(p, r) /\ NoWorse(p, r) /\ ~r.cascade_flag
    BY <1>2, <1>7, <1>9 DEF Carried
<1>. QED  BY <1>2, <1>3, <1>4, <1>6, <1>10, <1>11

LEMMA NextRecordType ==
    ASSUME TypeInv', NEW i \in ProcessId, NEW p, Record(i, p)'
    PROVE  p \in Process
<1>1. processes'[i] \in Process \cup {NoProcess}
    BY DEF TypeInv, TableTypeOK
<1>2. \A t \in Threads : calls'[t].held[i] \in Process \cup {NoProcess}
    BY DEF TypeInv, GoodCall, Call
<1>. QED  BY <1>1, <1>2 DEF Record, Present, Held, InHand

LEMMA FirstRecordFields ==
    ASSUME NEW i \in ProcessId, NEW p, FirstRecord(i, p)
    PROVE  WithinLimit(p) /\ ~p.cascade_flag
<1>1. PICK q \in 0 .. MaxPid, c \in Configs, deps \in Seq(ProcessId) :
         p = NewProcess(c, q, next_spawn_sequence, deps)
    BY DEF FirstRecord
<1>2. p.restart_count = 0 /\ p.config = c /\ p.cascade_flag = FALSE
    BY <1>1 DEF NewProcess
<1>3. c.max_restarts \in Nat
    BY ConfigsAssumption DEF ProcessConfig
<1>. QED  BY <1>2, <1>3 DEF WithinLimit

LEMMA NoWorseLimit ==
    ASSUME NEW r \in Process, NEW p \in Process, SameRecord(r, p), NoWorse(r, p)
    PROVE  (WithinLimit(r) => WithinLimit(p)) /\ (BelowLimit(r) => BelowLimit(p))
<1>1. r.restart_count \in Nat /\ p.restart_count \in Nat /\ r.config.max_restarts \in Nat
    BY ConfigsAssumption DEF Process, ProcessConfig
<1>. QED  BY <1>1 DEF SameRecord, NoWorse, WithinLimit, BelowLimit, Limited

\* What the reaper makes of an entry it visits.
LEMMA VisitedFields ==
    ASSUME TypeInv, NEW i \in Present, Visit(i)
    PROVE  /\ processes'[i].config = processes[i].config
           /\ \/ processes'[i].restart_count <= processes[i].restart_count
              \/ /\ Schedules(i) /\ rpc \in Scheduling
                 /\ processes'[i].restart_count = processes[i].restart_count + 1
           /\ processes'[i].cascade_flag => processes[i].cascade_flag \/ Strikes(i)
<1>1. processes[i] \in Process /\ processes[i].restart_count \in Nat
    BY PresentProcess DEF TypeInv, Process
<1>2. CASE Strikes(i)
    <2>1. /\ Flagged(processes[i]).config = processes[i].config
          /\ Flagged(processes[i]).restart_count = processes[i].restart_count
        BY <1>1 DEF Flagged, Process
    <2>. QED  BY <1>1, <1>2, <2>1 DEF Strikes
<1>3. CASE Schedules(i) /\ rpc \in Scheduling
    <2>. DEFINE p == processes[i]
    <2>1. /\ Scheduled(p).config = p.config /\ Scheduled(p).cascade_flag = p.cascade_flag
          /\ Scheduled(p).restart_count \in {p.restart_count, p.restart_count + 1}
        BY <1>1 DEF Scheduled, Process
    <2>. QED  BY <1>1, <1>3, <2>1 DEF Schedules
<1>4. CASE Requeues(i)
    <2>1. \A deps : /\ Requeued(processes[i], deps).config = processes[i].config
                    /\ Requeued(processes[i], deps).restart_count = processes[i].restart_count
                    /\ ~Requeued(processes[i], deps).cascade_flag
        BY <1>1 DEF Requeued, Process
    <2>. QED  BY <1>1, <1>4, <2>1 DEF Requeues
<1>5. CASE Respawns(i)
    BY <1>5 DEF Respawns, NoWorse
<1>. QED  BY <1>2, <1>3, <1>4, <1>5 DEF Visit, Scheduling

LEMMA RecordsInductive ==
    ASSUME GroupsApart, NInv, LimitInv, TrackStep, TypeInv'
    PROVE  CountsWithin' /\ Unflagged'
<1>. USE DEF NInv, IInv, ListInv, LimitInv
<1>1. SUFFICES ASSUME NEW i \in ProcessId, NEW p, Record(i, p)'
               PROVE  /\ WithinLimit(p)
                      /\ p.config.supervisor_strategy = "OneForOne" => ~p.cascade_flag
    BY DEF CountsWithin, Unflagged
<1>2. p \in Process
    BY <1>1, NextRecordType
<1>3. CASE FirstRecord(i, p)
    BY <1>3, FirstRecordFields
<1>4. CASE OldRecord(i, p)
    <2>1. PICK r \in Process : Record(i, r) /\ SameRecord(r, p) /\ NoWorse(r, p)
        BY <1>4 DEF OldRecord
    <2>2. WithinLimit(p)
        BY <1>2, <2>1, NoWorseLimit DEF CountsWithin
    <2>. QED  BY <2>1, <2>2 DEF Unflagged, SameRecord, NoWorse
<1>5. CASE VisitedRecord(i, p)
    <2>. DEFINE r == processes[i]
    <2>1. i \in Present /\ Visit(i) /\ p = processes'[i] /\ r \in Process /\ Record(i, r)
        BY <1>5, PresentProcess DEF VisitedRecord, Record, TypeInv
    <2>2. /\ p.config = r.config
          /\ \/ p.restart_count <= r.restart_count
             \/ Schedules(i) /\ rpc \in Scheduling /\ p.restart_count = r.restart_count + 1
          /\ p.cascade_flag => r.cascade_flag \/ Strikes(i)
        BY <2>1, VisitedFields
    <2>3. r.restart_count \in Nat /\ p.restart_count \in Nat /\ r.config.max_restarts \in Nat
          /\ r.config \in Configs
        BY <1>2, <2>1, ConfigsAssumption DEF Process, ProcessConfig
    <2>4. WithinLimit(p)
        <3>1. CASE p.restart_count <= r.restart_count
            BY <2>1, <2>2, <2>3, <3>1 DEF CountsWithin, WithinLimit, Limited
        <3>2. CASE Schedules(i) /\ rpc \in Scheduling /\ p.restart_count = r.restart_count + 1
            <4>1. i \in todo
                BY <3>2 DEF Schedules, CurListed
            <4>2. BelowLimit(r)
                BY <2>1, <3>2, <4>1 DEF ScheduledBelow
            <4>. QED  BY <2>2, <2>3, <3>2, <4>2 DEF BelowLimit, WithinLimit, Limited
        <3>. QED  BY <2>2, <3>1, <3>2
    <2>5. CASE Strikes(i)
        <3>1. InGroup(i, r)
            BY <2>1, <2>5 DEF Strikes, FlagInv
        <3>2. PICK c \in Configs : c.label = r.config.label
                                   /\ c.supervisor_strategy # "OneForOne"
            BY <3>1 DEF InGroup, OriginsCascade
        <3>. QED  BY <2>2, <2>3, <2>4, <3>2 DEF GroupsApart
    <2>. QED  BY <2>1, <2>2, <2>4, <2>5 DEF Unflagged
<1>. QED  BY <1>1, <1>3, <1>4, <1>5 DEF TrackStep

LEMMA OriginsInductive ==
    ASSUME NInv, LimitInv, FoundStep
    PROVE  OriginsCascade'
<1>. USE DEF NInv, IInv, IdInv, LimitInv
<1>1. CASE origins' \subseteq origins
    BY <1>1 DEF OriginsCascade
<1>2. ASSUME NEW i \in ProcessId, DetectExit(i)
      PROVE  OriginsCascade'
    <2>1. PICK p \in Process :
             origins' = IF StartsCascade(p)
                        THEN origins \cup {[id |-> i, label |-> p.config.label,
                                  seq |-> p.spawn_sequence,
                                  strategy |-> p.config.supervisor_strategy]}
                        ELSE origins
        BY <1>2, DetectDecides
    <2>. DEFINE n == [id |-> i, label |-> p.config.label, seq |-> p.spawn_sequence,
                      strategy |-> p.config.supervisor_strategy]
    <2>2. p.config \in Configs /\ n.label = p.config.label
        BY DEF Process
    <2>3. StartsCascade(p) => p.config.supervisor_strategy # "OneForOne"
        BY DEF StartsCascade
    <2>4. \A o \in origins' : o \in origins \/ (o = n /\ StartsCascade(p))
        BY <2>1
    <2>. HIDE DEF n
    <2>. QED  BY <2>2, <2>3, <2>4 DEF OriginsCascade
<1>. QED  BY <1>1, <1>2 DEF FoundStep

LEMMA FoundBelowInductive ==
    ASSUME NInv, ReportInv, LimitInv, IdStep, TrackStep, FoundStep, TypeInv'
    PROVE  FoundBelow'
<1>. USE DEF NInv, IInv, IdInv, LimitInv
<1>1. SUFFICES ASSUME NEW i \in ProcessId, Found(i)', exited'[i].restart
               PROVE  Used(i)' /\ \A p : Record(i, p)' => BelowLimit(p)
    BY DEF FoundBelow
<1>2. \A p : Record(i, p)' => p \in Process
    BY NextRecordType
<1>3. CASE Found(i) /\ exited'[i] = exited[i]
    <2>1. Used(i) /\ \A p : Record(i, p) => BelowLimit(p)
        BY <1>1, <1>3 DEF FoundBelow
    <2>2. ASSUME NEW p, Record(i, p)'
          PROVE  BelowLimit(p)
        <3>1. CASE OldRecord(i, p)
            BY <1>2, <2>1, <2>2, <3>1, NoWorseLimit DEF OldRecord
        <3>2. CASE VisitedRecord(i, p)
            <4>. DEFINE r == processes[i]
            <4>1. i \in Present /\ Visit(i) /\ p = processes'[i] /\ r \in Process
                  /\ Record(i, r)
                BY <3>2, PresentProcess DEF VisitedRecord, Record, TypeInv
            <4>2. rpc \notin Scheduling
                BY <1>3 DEF ReportInv, FoundOnlyInCycle, Found, NoneExited, Reporting,
                            Scheduling
            <4>3. p.config = r.config /\ p.restart_count <= r.restart_count
                BY <4>1, <4>2, VisitedFields
            <4>4. r.restart_count \in Nat /\ p.restart_count \in Nat
                  /\ r.config.max_restarts \in Nat
                BY <1>2, <2>2, <4>1, ConfigsAssumption DEF Process, ProcessConfig
            <4>5. BelowLimit(r)
                BY <2>1, <4>1
            <4>. QED  BY <4>3, <4>4, <4>5 DEF BelowLimit, Limited
        <3>. QED  BY <2>1, <2>2, <3>1, <3>2 DEF TrackStep, FirstRecord
    <2>. QED  BY <2>1, <2>2, UsedStays
<1>4. CASE DetectExit(i)
    <2>1. i \in Present /\ Record(i, processes[i]) /\ Used(i) /\ processes[i] \in Process
        BY <1>4, PresentProcess DEF DetectExit, Record, IdsUsed, TypeInv
    <2>2. PICK p \in Process :
             /\ SameRecord(processes[i], p) /\ p.cascade_flag = processes[i].cascade_flag
             /\ exited'[i].restart = WillRestart(p)
             /\ \A r : Record(i, r)' => SameRecord(p, r) /\ NoWorse(p, r)
        BY <1>4, DetectDecides
    <2>3. BelowLimit(p)
        <3>1. SUFFICES ASSUME Limited(p)
                       PROVE  p.restart_count < p.config.max_restarts
            BY DEF BelowLimit
        <3>2. ~p.cascade_flag
            BY <2>1, <2>2, <3>1 DEF Unflagged, Limited, SameRecord
        <3>3. ~is_rate_limited(p)
            BY <1>1, <2>2, <3>1, <3>2 DEF WillRestart, EventState, Limited
        <3>4. p.restart_count \in Nat /\ p.config.max_restarts \in Nat
            BY ConfigsAssumption DEF Process, ProcessConfig
        <3>. QED  BY <3>3, <3>4 DEF is_rate_limited
    <2>. QED  BY <1>2, <2>1, <2>2, <2>3, NoWorseLimit, UsedStays
<1>. QED  BY <1>1, <1>3, <1>4 DEF FoundStep

LEMMA ScheduledBelowInductive ==
    ASSUME NInv, LimitInv, IdStep, TrackStep, ScheduleListStep, CurListStep, TypeInv'
    PROVE  ScheduledBelow' /\ CurListed'
<1>. USE DEF NInv, IInv, IdInv, LimitInv
<1>1. CurListed'
    BY DEF CurListed, CurListStep
<1>2. SUFFICES ASSUME rpc' \in Scheduling, NEW i \in todo'
               PROVE  Used(i)' /\ \A p : Record(i, p)' => BelowLimit(p)
    BY <1>1 DEF ScheduledBelow
<1>3. i \in ProcessId
    BY DEF TypeInv, ReaperTypeOK
<1>4. \A p : Record(i, p)' => p \in Process
    BY <1>3, NextRecordType
<1>5. CASE rpc \in Scheduling /\ todo' \subseteq todo
    <2>1. Used(i) /\ ~Visit(i) /\ \A p : Record(i, p) => BelowLimit(p)
        BY <1>2, <1>5 DEF ScheduledBelow, Visit, Scheduling
    <2>2. ASSUME NEW p, Record(i, p)'
          PROVE  BelowLimit(p)
        BY <1>3, <1>4, <2>1, <2>2, NotVisited, NoWorseLimit DEF OldRecord
    <2>. QED  BY <1>3, <2>1, <2>2, UsedStays
<1>6. CASE EmitEvents /\ todo' = ToRestart
    <2>1. Found(i) /\ exited[i].restart
        BY <1>2, <1>6 DEF ToRestart, Found
    <2>2. UNCHANGED <<processes, calls>>
        BY <1>6 DEF EmitEvents
    <2>3. Used(i) /\ \A p : Record(i, p)' => BelowLimit(p)
        BY <1>3, <2>1, <2>2, SameRecords DEF FoundBelow
    <2>. QED  BY <1>3, <2>3, UsedStays
<1>. QED  BY <1>2, <1>5, <1>6 DEF ScheduleListStep

LEMMA LimitInitial == Init => LimitInv
<1>1. ASSUME Init, NEW i, NEW p
      PROVE  ~Record(i, p)
    BY <1>1 DEF Init, TableInit, ManagerInit, Idle, NoneHeld, Record, Present, Held
<1>. QED
    BY <1>1 DEF Init, ReaperInit, LimitInv, CountsWithin, Unflagged, OriginsCascade,
       FoundBelow, ScheduledBelow, CurListed, Scheduling, Found, NoneExited

LEMMA LimitInductive ==
    ASSUME NoRestart, GroupsApart, NInv, ReportInv, LimitInv, [Next]_vars
    PROVE  LimitInv'
<1>1. /\ IdStep /\ TrackStep /\ ListStep /\ FoundStep
      /\ TypeInv'
    BY NSteps, NInductive, EveryFoundStep DEF NInv, IInv
<1>. QED
    BY <1>1, RecordsInductive, OriginsInductive, FoundBelowInductive,
       ScheduledBelowInductive DEF LimitInv, ListStep

\* The count is tested when the exit is found, and goes up two phases later.
\* Meanwhile the entry may be removed, put back, polled or flagged, and the
\* flag of a cascade overrides the test.  As long as no process of its group
\* starts cascades, the count still never gets beyond max_restarts.
THEOREM RestartsWithinLimit ==
    ASSUME NoRestart, GroupsApart
    PROVE  Spec => []RestartsBounded
<1>1. Init => NInv /\ ReportInv /\ LimitInv
    BY NInitial, ReportInitial, LimitInitial
<1>2. NInv /\ ReportInv /\ LimitInv /\ [Next]_vars => NInv' /\ ReportInv' /\ LimitInv'
    BY NInductive, ReportInductive, LimitInductive DEF NInv
<1>3. LimitInv => RestartsBounded
    BY DEF LimitInv, CountsWithin, WithinLimit, Limited, RestartsBounded, Record, Present
<1>. QED  BY <1>1, <1>2, <1>3, PTL DEF Spec

-----------------------------------------------------------------------------
(* What follows a Failed event.                                            *)

FailedEvent(i) == \E k \in DOMAIN events[i] : events[i][k].state = "Failed"

\* A record that stop_many() does not put back.
Lost(p) == p.pid = 0 \/ p.pid \in reaped

\* The process is gone, and no exit of it is still to be reported.
Over(i) ==
    /\ Used(i) /\ ~Found(i) /\ i \notin Present
    /\ \A p : Record(i, p) => Lost(p)

FailedOver == \A i \in ProcessId : FailedEvent(i) => Over(i)

\* The record of a process found to have exited is that of the child that has,
\* with its handle.
FoundRecords ==
    \A i \in ProcessId : Found(i) =>
        Used(i) /\ \A p : Record(i, p) => p.pid = exited[i].pid /\ p.child = p.pid

FailedNotRestarted ==
    \A i \in ProcessId : Found(i) /\ exited[i].state = "Failed" => ~exited[i].restart

\* It is removed before the exit is reported, unless it is restarted.
RemovedFirst ==
    rpc = "emit" => \A i \in ProcessId : Found(i) /\ ~exited[i].restart => i \notin Present

OverInv == FailedOver /\ FoundRecords /\ FailedNotRestarted /\ RemovedFirst

\* Who sends an event of a process, and what it says.
Sends(i, q, s, x) ==
    \E e \in ProcessExitEvent :
        /\ e.pid = q /\ e.state = s /\ e.exited = x
        /\ events'[i] = Append(events[i], e)

ReportsExit(i) ==
    EmitEvents /\ Found(i) /\ Sends(i, exited[i].pid, exited[i].state, TRUE)

GivesUp(i) ==
    /\ ReaperNext /\ rpc \notin Reporting
    /\ i \in Present /\ processes'[i] = NoProcess
    /\ Sends(i, processes[i].pid, "Failed", FALSE)

TakesLeave(i) ==
    \E t \in Threads :
        /\ StopUnqueue(t) /\ calls[t].cur = i
        /\ Sends(i, calls[t].pid, "Stopped", FALSE)

EventStep ==
    \A i \in ProcessId :
        events'[i] = events[i] \/ ReportsExit(i) \/ GivesUp(i) \/ TakesLeave(i)

LEMMA EmitSends ==
    ASSUME TypeInv, NEW i \in ProcessId, NEW q \in 0 .. MaxPid,
           NEW s \in {"Stopped", "Crashed", "Failed"}, Emit(i, q, s)
    PROVE  /\ events'[i] = events[i] \/ Sends(i, q, s, FALSE)
           /\ \A j \in ProcessId \ {i} : events'[j] = events[j]
<1>. DEFINE e == [pid |-> q, state |-> s, exited |-> FALSE]
<1>1. e \in ProcessExitEvent /\ e.pid = q /\ e.state = s /\ e.exited = FALSE
    BY DEF ProcessExitEvent
<1>2. events' = events \/ events' = [events EXCEPT ![i] = Append(events[i], e)]
    BY DEF Emit
<1>. HIDE DEF e
<1>. QED  BY <1>1, <1>2 DEF TypeInv, TableTypeOK, Sends

LEMMA GivesUpEvents ==
    ASSUME TypeInv, ReaperNext, rpc \notin Reporting, NEW i \in Present,
           processes'[i] = NoProcess, Emit(i, processes[i].pid, "Failed")
    PROVE  EventStep
<1>1. i \in ProcessId /\ processes[i].pid \in 0 .. MaxPid
    BY PresentProcess DEF TypeInv, Process
<1>. QED  BY <1>1, EmitSends DEF EventStep, GivesUp

LEMMA EmitEventsSends ==
    ASSUME TypeInv, EmitEvents
    PROVE  EventStep
<1>1. SUFFICES ASSUME NEW i \in ProcessId, events'[i] # events[i]
               PROVE  ReportsExit(i)
    BY DEF EventStep
<1>. DEFINE e == [pid |-> exited[i].pid, state |-> exited[i].state, exited |-> TRUE]
<1>2. i \in ToReport /\ events'[i] = Append(events[i], e)
    BY <1>1 DEF EmitEvents
<1>3. exited[i] \in ExitedProcess
    BY <1>2 DEF ToReport, TypeInv, ReaperTypeOK
<1>4. /\ e \in ProcessExitEvent /\ e.pid = exited[i].pid /\ e.state = exited[i].state
      /\ e.exited = TRUE
    BY <1>3 DEF ExitedProcess, ProcessExitEvent
<1>. HIDE DEF e
<1>. QED  BY <1>2, <1>4 DEF ReportsExit, Found, ToReport, Sends

LEMMA EveryEventStep ==
    ASSUME TypeInv, [Next]_vars
    PROVE  EventStep
<1>1. CASE UNCHANGED events
    BY <1>1 DEF EventStep
<1>2. ASSUME NEW t \in Threads, Calls(t) \/ Steps(t)
      PROVE  EventStep
    <2>1. CASE StopUnqueue(t)
        <3>1. calls[t].cur \in ProcessId /\ calls[t].pid \in 0 .. MaxPid
            BY <2>1, CallRecord DEF StopUnqueue, At, TypeInv, GoodCall, StopStep, Call
        <3>2. Emit(calls[t].cur, calls[t].pid, "Stopped") \/ UNCHANGED events
            BY <2>1 DEF StopUnqueue
        <3>. QED  BY <1>1, <2>1, <3>1, <3>2, EmitSends DEF EventStep, TakesLeave
    <2>2. CASE ~StopUnqueue(t)
        <3>1. UNCHANGED events
            BY <1>2, <2>2 DEF Calls, CallNext, Steps, StepNext, StartCall, StopCall,
               StopManyCall, RestartCall, Poll, DropManager, SendSignal, StartSpawn,
               StartWaiting, AwaitReturn, AwaitTimeout, StopCheck, StopCancel, StopRemove,
               StopEscalate, StopReap, StopManyRemove, StopManySignal, StopManyEscalate,
               StopManyReap, RestartCheck, RestartBlocks, RestartReset, RestartInPlace,
               RestartInsert, DropStop
        <3>. QED  BY <1>1, <3>1
    <2>. QED  BY <2>1, <2>2
<1>3. CASE ReaperNext
    <2>1. CASE EmitEvents
        BY <2>1, EmitEventsSends
    <2>2. ASSUME NEW i \in ProcessId, RestartSpawns(i)
          PROVE  EventStep
        <3>1. i \in Present /\ rpc \notin Reporting
            BY <2>2 DEF RestartSpawns, In, Reporting
        <3>2. \/ UNCHANGED events
              \/ /\ Emit(i, processes[i].pid, "Failed")
                 /\ \E S : processes' = [PollAll(S) EXCEPT ![i] = NoProcess]
            BY <2>2 DEF RestartSpawns
        <3>3. (\E S : processes' = [PollAll(S) EXCEPT ![i] = NoProcess])
                 => processes'[i] = NoProcess
            BY <2>2, PollAllPutKeeps
        <3>. QED  BY <1>1, <1>3, <3>1, <3>2, <3>3, GivesUpEvents
    <2>3. ASSUME NEW i \in ProcessId, SpawnWaiting(i) \/ FailWaiting(i) \/ FailRunning(i)
          PROVE  EventStep
        <3>1. rpc \notin Reporting
            BY <2>3 DEF SpawnWaiting, FailWaiting, FailRunning, In, Reporting
        <3>2. UNCHANGED events \/ (processes[i] # NoProcess /\ RemoveFailed(i))
            BY <2>3 DEF SpawnWaiting, FailWaiting, FailRunning
        <3>3. CASE processes[i] # NoProcess /\ RemoveFailed(i)
            <4>1. i \in Present /\ processes'[i] = NoProcess
                BY <3>3 DEF RemoveFailed, Put, Present, TypeInv, TableTypeOK
            <4>. QED  BY <1>3, <3>1, <3>3, <4>1, GivesUpEvents DEF RemoveFailed
        <3>. QED  BY <1>1, <3>2, <3>3
    <2>4. CASE \/ BeginCycle \/ EndDetect \/ CollectTargets \/ RemoveExited
               \/ CollectEligible \/ CollectWaiting \/ CollectRunning \/ ScheduleResumes
        BY <1>1, <2>4 DEF BeginCycle, EndDetect, CollectTargets, RemoveExited,
               CollectEligible, CollectWaiting, CollectRunning, ScheduleResumes
    <2>5. ASSUME NEW i \in ProcessId,
                 \/ DetectExit(i) \/ DetectAlive(i) \/ FlagTarget(i) \/ ScheduleRestart(i)
                 \/ ScheduleBlocks(i) \/ RestartSkips(i) \/ RestartWaits(i)
                 \/ RestartWedges(i) \/ CheckWaiting(i)
          PROVE  EventStep
        BY <1>1, <2>5 DEF DetectExit, DetectAlive, FlagTarget, ScheduleRestart,
               ScheduleBlocks, RestartSkips, RestartWaits, RestartWedges, CheckWaiting
    <2>. QED  BY <1>3, <2>1, <2>2, <2>3, <2>4, <2>5 DEF ReaperNext
<1>4. CASE \/ \E q \in Pid : Exits(q)
           \/ \E i \in ProcessId : BackoffElapses(i) \/ UptimeReached(i) \/ DependencyExpires(i)
           \/ Closes \/ UNCHANGED vars
    BY <1>1, <1>4 DEF Exits, ChildExits, BackoffElapses, UptimeReached, DependencyExpires,
                Closes, CloseChannel, vars
<1>. QED  BY <1>2, <1>3, <1>4 DEF Next

\* The pid of a used id stays that of its record, outside the phases that
\* spawn.
LEMMA FoundRecordsInductive ==
    ASSUME NInv, ReportInv, OverInv, IdStep, TrackStep, FoundStep
    PROVE  FoundRecords'
<1>. USE DEF NInv, IInv, IdInv, OverInv
<1>1. SUFFICES ASSUME NEW i \in ProcessId, Found(i)'
               PROVE  /\ Used(i)'
                      /\ \A p : Record(i, p)' => p.pid = exited'[i].pid /\ p.child = p.pid
    BY DEF FoundRecords
<1>2. CASE Found(i) /\ exited'[i] = exited[i]
    <2>1. /\ Used(i)
          /\ \A p : Record(i, p) => p.pid = exited[i].pid /\ p.child = p.pid
        BY <1>2 DEF FoundRecords
    <2>2. rpc \in Reporting
        BY <1>2 DEF ReportInv, FoundOnlyInCycle, Found, NoneExited
    <2>3. ASSUME NEW p, Record(i, p)'
          PROVE  p.pid = exited[i].pid /\ p.child = p.pid
        <3>1. CASE OldRecord(i, p)
            BY <2>1, <3>1 DEF OldRecord, SameRecord
        <3>2. CASE VisitedRecord(i, p)
            <4>1. /\ i \in Present /\ Strikes(i) /\ p = Flagged(processes[i])
                  /\ Record(i, processes[i]) /\ processes[i] \in Process
                BY <2>2, <3>2, PresentProcess
                DEF VisitedRecord, Visit, Reporting, Strikes, Record, TypeInv
            <4>2. p.pid = processes[i].pid /\ p.child = processes[i].child
                BY <4>1 DEF Flagged, Process
            <4>. QED  BY <2>1, <4>1, <4>2
        <3>. QED  BY <2>1, <2>3, <3>1, <3>2 DEF TrackStep, FirstRecord
    <2>. QED  BY <1>2, <2>1, <2>3, UsedStays
<1>3. CASE DetectExit(i)
    <2>1. i \in Present /\ Used(i)
        BY <1>3 DEF DetectExit, IdsUsed
    <2>2. processes[i].child # 0 => processes[i].child = processes[i].pid
        BY <2>1, MatchesConsistent DEF Consistent, ListInv
    <2>3. \A r : Record(i, r)' => r.pid = exited'[i].pid /\ r.child = r.pid
        BY <1>3, <2>2, DetectDecides DEF SameRecord, Exited
    <2>. QED  BY <2>1, <2>3, UsedStays
<1>. QED  BY <1>1, <1>2, <1>3 DEF FoundStep

LEMMA FailedNotRestartedInductive ==
    ASSUME NInv, OverInv, FoundStep
    PROVE  FailedNotRestarted'
<1>. USE DEF NInv, IInv, IdInv, OverInv
<1>1. SUFFICES ASSUME NEW i \in ProcessId, DetectExit(i), exited'[i].state = "Failed"
               PROVE  ~exited'[i].restart
    BY DEF FailedNotRestarted, FoundStep, Found
<1>2. PICK p \in Process :
         exited'[i].state = EventState(p) /\ exited'[i].restart = WillRestart(p)
    BY <1>1, DetectDecides
<1>3. EventState(p) = "Failed" /\ ~p.cascade_flag
    BY <1>1, <1>2 DEF EventState
<1>. QED  BY <1>2, <1>3 DEF WillRestart

\* A record of a child that has been collected is not put back.
LEMMA LostNotBack ==
    ASSUME TypeInv, RecordStep, AllOrdinary, NEW i \in Present', Used(i),
           \A p : Record(i, p) => Lost(p)
    PROVE  i \in Present
<1>1. ASSUME NEW t \in Threads, i \in Held(t), KillResult(calls[t].held[i]) = "EPERM"
      PROVE  FALSE
    <2>1. Record(i, calls[t].held[i])
        BY <1>1 DEF Record, InHand
    <2>. QED  BY <1>1, <2>1 DEF Lost, KillResult
<1>. QED  BY <1>1, ToPresent

LEMMA RemovedFirstInductive ==
    ASSUME NInv, ReportInv, OverInv, RecordStep, FoundStep, EmitListStep
    PROVE  RemovedFirst'
<1>. USE DEF NInv, IInv, OverInv
<1>1. SUFFICES ASSUME rpc' = "emit", NEW i \in ProcessId, Found(i)', ~exited'[i].restart,
                      i \in Present'
               PROVE  FALSE
    BY DEF RemovedFirst
<1>2. CASE rpc = "emit"
    <2>1. Found(i) /\ exited'[i] = exited[i]
        BY <1>1, <1>2 DEF FoundStep, DetectExit, In
    <2>2. i \notin Present /\ Used(i)
        BY <1>1, <1>2, <2>1 DEF RemovedFirst, FoundRecords
    <2>3. \A p : Record(i, p) => Lost(p)
        BY <2>1 DEF FoundRecords, ReportInv, FoundOnce, Lost
    <2>. QED  BY <1>1, <2>2, <2>3, LostNotBack
<1>3. CASE RemoveExited
    <2>1. i \in ToRemove
        BY <1>1, <1>3 DEF RemoveExited, ToRemove, Found
    <2>. QED  BY <1>1, <1>3, <2>1 DEF RemoveExited, Present
<1>. QED  BY <1>1, <1>2, <1>3 DEF EmitListStep

\* What is over stays so.
LEMMA OverStays ==
    ASSUME NInv, RecordStep, IdStep, TrackStep, FoundStep, NEW i \in ProcessId, Over(i)
    PROVE  Over(i)'
<1>. USE DEF NInv, IInv
<1>1. Used(i)'
    BY UsedStays DEF Over
<1>2. ~Found(i)'
    BY DEF FoundStep, DetectExit, Over
<1>3. i \notin Present'
    BY LostNotBack DEF Over
<1>4. ASSUME NEW p, Record(i, p)'
      PROVE  Lost(p)'
    <2>1. OldRecord(i, p)
        BY <1>4 DEF TrackStep, FirstRecord, VisitedRecord, Over
    <2>2. PICK r \in Process : Record(i, r) /\ r.pid = p.pid
        BY <2>1 DEF OldRecord, SameRecord
    <2>3. reaped \subseteq reaped'
        BY DEF RecordStep, ChildStep, ReapStep
    <2>. QED  BY <2>2, <2>3 DEF Over, Lost
<1>. QED  BY <1>1, <1>2, <1>3, <1>4 DEF Over

\* A process that has said Failed is over.
LEMMA FailedOverInductive ==
    ASSUME NInv, ReportInv, OverInv, RecordStep, IdStep, TrackStep, FoundStep, EventStep
    PROVE  FailedOver'
<1>. USE DEF NInv, IInv, IdInv, OverInv
<1>1. SUFFICES ASSUME NEW i \in ProcessId, FailedEvent(i)', ~FailedEvent(i)
               PROVE  Over(i)'
    BY OverStays DEF FailedOver
<1>2. events'[i] # events[i]
    BY <1>1 DEF FailedEvent
<1>3. ASSUME NEW q, NEW s, NEW x, Sends(i, q, s, x)
      PROVE  s = "Failed"
    <2>1. PICK e \in ProcessExitEvent : e.state = s /\ events'[i] = Append(events[i], e)
        BY <1>3 DEF Sends
    <2>2. \A k \in DOMAIN events'[i] :
             \/ k \in DOMAIN events[i] /\ events'[i][k] = events[i][k]
             \/ events'[i][k] = e
        BY <2>1, EventType
    <2>. QED  BY <1>1, <2>1, <2>2 DEF FailedEvent
<1>4. CASE ReportsExit(i)
    <2>1. Found(i) /\ EmitEvents /\ exited[i].state = "Failed"
        BY <1>3, <1>4 DEF ReportsExit
    <2>2. /\ rpc = "emit" /\ UNCHANGED <<processes, calls, next_id, reaped>>
          /\ exited' = NoneExited
        BY <2>1 DEF EmitEvents, In
    <2>3. i \notin Present /\ Used(i) /\ \A p : Record(i, p) => Lost(p)
        BY <2>1, <2>2 DEF FailedNotRestarted, RemovedFirst, FoundRecords, ReportInv,
                          FoundOnce, Lost
    <2>. QED
        BY <2>2, <2>3, SameRecords, UsedStays DEF Over, Found, NoneExited, Present, Lost
<1>5. CASE GivesUp(i)
    <2>1. /\ i \in Present /\ processes'[i] = NoProcess /\ UNCHANGED calls
          /\ rpc \notin Reporting
        BY <1>5, ReaperUntouched DEF GivesUp
    <2>2. ~Found(i)'
        BY <2>1 DEF ReportInv, FoundOnlyInCycle, NoneExited, Found, FoundStep, DetectExit,
                    In, Reporting
    <2>3. Used(i)'
        BY <2>1, UsedStays DEF IdsUsed
    <2>4. \A p : ~Record(i, p)'
        BY <2>1 DEF Record, Present, Held, OneRecord
    <2>. QED  BY <2>1, <2>2, <2>3, <2>4 DEF Over, Present
<1>6. ~TakesLeave(i)
    BY <1>3 DEF TakesLeave
<1>. QED  BY <1>2, <1>4, <1>5, <1>6 DEF EventStep

LEMMA OverInitial == Init => OverInv
BY DEF Init, TableInit, ReaperInit, OverInv, FailedOver, FailedEvent, FoundRecords, Found,
       NoneExited, FailedNotRestarted, RemovedFirst

LEMMA OverInductive ==
    ASSUME NoRestart, NInv, ReportInv, OverInv, [Next]_vars
    PROVE  OverInv'
<1>1. RecordStep /\ IdStep /\ TrackStep /\ ListStep /\ FoundStep /\ EventStep
    BY NSteps, EveryFoundStep, EveryEventStep DEF NInv, IInv
<1>. QED
    BY <1>1, FailedOverInductive, FoundRecordsInductive, FailedNotRestartedInductive,
       RemovedFirstInductive DEF OverInv, ListStep

-----------------------------------------------------------------------------
(* Without stop(), nobody says anything after that.                        *)

NoStop == "stop" \notin Ops

NobodyStops == \A t \in Threads : calls[t].pc \notin StopStep

LEMMA NobodyStopsInductive ==
    ASSUME NoStop, NobodyStops, IdStep
    PROVE  NobodyStops'
<1>1. "start_insert" \notin StopStep
    BY DEF StopStep
<1>. QED  BY <1>1 DEF NoStop, NobodyStops, IdStep, GoesOn, Opens, StopCall, May

LEMMA FinalInductive ==
    ASSUME TypeInv, NobodyStops, OverInv, FailedIsFinal, EventStep
    PROVE  FailedIsFinal'
<1>1. SUFFICES ASSUME NEW i \in ProcessId, NEW k \in DOMAIN events'[i],
                      events'[i][k].state = "Failed"
               PROVE  k = Len(events'[i])
    BY DEF FailedIsFinal
<1>2. CASE events'[i] = events[i]
    BY <1>1, <1>2 DEF FailedIsFinal
<1>3. ASSUME NEW q, NEW s, NEW x, Sends(i, q, s, x), ~FailedEvent(i)
      PROVE  k = Len(events'[i])
    <2>1. PICK e \in ProcessExitEvent : events'[i] = Append(events[i], e)
        BY <1>3 DEF Sends
    <2>2. \A j \in DOMAIN events'[i] :
             \/ j \in DOMAIN events[i] /\ events'[i][j] = events[i][j]
             \/ j = Len(events'[i])
        BY <2>1, EventType
    <2>. QED  BY <1>1, <1>3, <2>2 DEF FailedEvent
<1>4. CASE ReportsExit(i) \/ GivesUp(i)
    <2>1. ~Over(i)
        BY <1>4 DEF ReportsExit, GivesUp, Over
    <2>. QED  BY <1>3, <1>4, <2>1 DEF OverInv, FailedOver, ReportsExit, GivesUp
<1>5. ~TakesLeave(i)
    BY DEF TakesLeave, StopUnqueue, At, NobodyStops, StopStep
<1>. QED  BY <1>2, <1>4, <1>5 DEF EventStep

\* The reaper says Failed of a process in two places: when it gives up one
\* that has no child, and when it finds that one has crashed too often.  The
\* latter is decided in Phase 1 and said in Phase 2, after the entry has been
\* removed; and a record that stop_many() has taken meanwhile does not come
\* back.  stop() does add to it: of a process it has seen Waiting it says
\* Stopped even if that has failed since.
THEOREM FailedEventIsFinal ==
    ASSUME NoRestart, NoStop
    PROVE  Spec => []FailedIsFinal
<1>. DEFINE FInv == NInv /\ ReportInv /\ OverInv /\ NobodyStops /\ FailedIsFinal
<1>1. Init => NobodyStops /\ FailedIsFinal
    BY DEF Init, TableInit, ManagerInit, NobodyStops, FailedIsFinal, Idle, StopStep
<1>2. Init => FInv
    BY <1>1, NInitial, ReportInitial, OverInitial
<1>3. FInv /\ [Next]_vars => FInv'
    BY NSteps, NInductive, ReportInductive, OverInductive, NobodyStopsInductive,
       EveryEventStep, FinalInductive DEF NInv, IInv
<1>. QED  BY <1>2, <1>3, PTL DEF Spec
=============================================================================
