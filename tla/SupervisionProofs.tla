-------------------------- MODULE SupervisionProofs --------------------------
(***************************************************************************)
(* Theorems about Supervision, for every number of threads, processes and  *)
(* pids and for every set of configurations.                               *)
(*                                                                         *)
(* TypeOK is not inductive: a call that has removed a process from the map *)
(* goes on to use what it took with it, and a thread blocked on a child    *)
(* uses the entry once more when it wakes up.  So the invariant also says  *)
(* what a call carries from step to step (GoodCall), and that the guard a  *)
(* blocked thread holds keeps its entry in the map (GuardInv).             *)
(***************************************************************************)
EXTENDS Supervision, TLAPS, FiniteSetTheorems

-----------------------------------------------------------------------------
(* What the helpers of ProcessTable return: a record of the same type,     *)
(* with the same identity, or pids and ids in range.                       *)

\* An entry of the DashMap is a process or none.
LEMMA PresentProcess ==
    ASSUME TableTypeOK, NEW i \in Present
    PROVE  i \in ProcessId /\ processes[i] \in Process
BY DEF TableTypeOK, Present

\* A handle that is not None names a pid.
LEMMA HandlePid ==
    ASSUME NEW p \in Process, p.child # 0
    PROVE  p.child \in Pid
BY BoundsAssumption DEF Process, Pid

LEMMA CollectedType ==
    ASSUME NEW p \in Process
    PROVE  Collected(p) \subseteq Pid
BY HandlePid DEF Collected, Exited

LEMMA PollReapsType ==
    ASSUME NEW p \in Process
    PROVE  PollReaps(p) \subseteq Pid
BY CollectedType DEF PollReaps

\* A signal reaches a pid of this system or none.
LEMMA SignalType ==
    ASSUME NEW p \in Process
    PROVE  send_signal(p) \subseteq Pid /\ force_kill(p) \subseteq Pid
BY BoundsAssumption DEF send_signal, force_kill, KillResult, Process, Pid

\* state() changes the state and nothing else.
LEMMA PolledType ==
    ASSUME NEW p \in Process
    PROVE  Polled(p) \in Process /\ Polled(p).spawn_sequence = p.spawn_sequence
BY DEF Polled, Process, ProcessState

LEMMA StableUptimeType ==
    ASSUME NEW p \in Process
    PROVE  /\ check_stable_uptime(p) \in Process
           /\ check_stable_uptime(p).spawn_sequence = p.spawn_sequence
BY DEF check_stable_uptime, Process

LEMMA ScheduledType ==
    ASSUME NEW p \in Process
    PROVE  Scheduled(p) \in Process /\ Scheduled(p).spawn_sequence = p.spawn_sequence
<1>. DEFINE released == [p EXCEPT !.child = 0, !.state = "Restarting"]
            n == released.restart_count + 1
            b == IF p.config.backoff THEN "pending" ELSE "elapsed"
<1>1. 0 \in 0 .. MaxPid
    BY BoundsAssumption
<1>2. released \in Process
    BY <1>1 DEF Process, ProcessState
<1>3. released.spawn_sequence = p.spawn_sequence
    BY DEF Process
<1>4. Scheduled(p) = released
          \/ Scheduled(p) = [released EXCEPT !.restart_count = n, !.backoff = b]
    BY DEF Scheduled
<1>5. b \in {"pending", "elapsed"}
    OBVIOUS
<1>6. n \in Nat
    BY <1>2 DEF Process
<1>. HIDE DEF released, b, n
<1>7. [released EXCEPT !.restart_count = n, !.backoff = b] \in Process
    BY <1>2, <1>5, <1>6 DEF Process
<1>8. [released EXCEPT !.restart_count = n, !.backoff = b].spawn_sequence
        = released.spawn_sequence
    BY <1>2 DEF Process
<1>. QED  BY <1>2, <1>3, <1>4, <1>7, <1>8

LEMMA FlaggedType ==
    ASSUME NEW p \in Process
    PROVE  Flagged(p) \in Process /\ Flagged(p).spawn_sequence = p.spawn_sequence
BY DEF Flagged, Process, ProcessState

LEMMA RespawnedType ==
    ASSUME NEW p \in Process, NEW q \in Pid, NEW deps \in Seq(ProcessId)
    PROVE  /\ Respawned(p, q, deps) \in Process
           /\ Respawned(p, q, deps).spawn_sequence = p.spawn_sequence
<1>. q \in 0 .. MaxPid
    BY BoundsAssumption DEF Pid
<1>. QED  BY DEF Respawned, Process, ProcessState

LEMMA RequeuedType ==
    ASSUME NEW p \in Process, NEW deps \in Seq(ProcessId)
    PROVE  /\ Requeued(p, deps) \in Process
           /\ Requeued(p, deps).spawn_sequence = p.spawn_sequence
BY DEF Requeued, Process, ProcessState

LEMMA SpawnedWaitingType ==
    ASSUME NEW p \in Process, NEW q \in Pid
    PROVE  /\ SpawnedWaiting(p, q) \in Process
           /\ SpawnedWaiting(p, q).spawn_sequence = p.spawn_sequence
<1>. q \in 0 .. MaxPid
    BY BoundsAssumption DEF Pid
<1>. QED  BY DEF SpawnedWaiting, Process, ProcessState

LEMMA NewProcessType ==
    ASSUME NEW c \in Configs, NEW q \in 0 .. MaxPid, NEW s \in Nat,
           NEW deps \in Seq(ProcessId)
    PROVE  NewProcess(c, q, s, deps) \in Process /\ NewProcess(c, q, s, deps).spawn_sequence = s
<1>1. NewProcess(c, q, s, deps) \in Process
    BY DEF NewProcess, Process, ProcessState
<1>2. NewProcess(c, q, s, deps).spawn_sequence = s
    BY DEF NewProcess
<1>. QED  BY <1>1, <1>2

\* A binding is a sequence of ids.
LEMMA BindingType ==
    ASSUME NEW c \in Configs, NEW deps \in resolve_dependencies(c.depends_on)
    PROVE  deps \in Seq(ProcessId)
<1>1. c.depends_on \in Seq(DependencyRef)
    BY ConfigsAssumption DEF ProcessConfig
<1>2. DOMAIN c.depends_on = 1 .. Len(c.depends_on) /\ Len(c.depends_on) \in Nat
    BY <1>1
<1>3. ASSUME NEW n \in Nat, deps \in [1 .. n -> ProcessId]
      PROVE  deps \in Seq(ProcessId)
    BY <1>3
<1>4. deps = <<>> \/ deps \in [1 .. Len(c.depends_on) -> ProcessId]
    BY <1>2 DEF resolve_dependencies
<1>5. CASE deps = <<>>
    BY <1>5
<1>. QED  BY <1>2, <1>3, <1>4, <1>5

\* The dependencies all_deps_running() looks at are ids.
LEMMA VisitedType ==
    ASSUME NEW deps \in Seq(ProcessId)
    PROVE  Visited(deps) \subseteq ProcessId
BY DEF Visited

\* An iteration lists ids of the set it iterates over.
LEMMA ListingType ==
    ASSUME NEW S, S \subseteq ProcessId, NEW s \in Listings(S)
    PROVE  s \in Seq(ProcessId)
<1>1. PICK n \in 0 .. MaxId : s \in [1 .. n -> S]
    BY DEF Listings
<1>2. n \in Nat
    BY BoundsAssumption
<1>3. s \in Seq(S)
    BY <1>1, <1>2
<1>. QED  BY <1>3

-----------------------------------------------------------------------------
(* What a call carries, and whom a guard belongs to.                       *)

StopStep == {"stop_check", "stop_cancel", "stop_unqueue", "stop_remove",
             "stop_grace", "stop_reap"}

\* What a call that has got to a certain step carries.
GoodCall ==
    {c \in Call :
        /\ c.pc \in {"start_insert", "await_deps", "restart_reset", "restart_wait",
                     "restart_in_place", "restart_insert"} => c.id \in ProcessId
        /\ c.pc \in {"start_insert", "restart_insert"} => c.config \in Configs
        /\ c.pc \in StopStep => c.cur \in ProcessId
        /\ c.pc \in StopStep /\ c.op = "restart"
             => c.id \in ProcessId /\ c.config \in Configs
        /\ c.pc \in {"stop_grace", "stop_reap"} => c.held[c.cur] \in Process}

TypeInv ==
    /\ TableTypeOK
    /\ calls \in [Threads -> GoodCall] /\ stop_flag \in BOOLEAN /\ dropping \in BOOLEAN
    /\ ReaperTypeOK

Waits(t) == At(t, "restart_wait")
ReaperWaits == rpc = "schedule_wait"

\* A thread that is blocked on a child holds the guard of its entry, alone.
GuardInv ==
    /\ ReaperWaits => cur \in Present /\ Shard[cur] \in locks
    /\ \A t \in Threads : Waits(t) =>
          /\ calls[t].id \in Present
          /\ Shard[calls[t].id] \in locks
          /\ ReaperWaits => Shard[calls[t].id] # Shard[cur]
          /\ \A u \in Threads \ {t} : Waits(u) => Shard[calls[t].id] # Shard[calls[u].id]

IInv == TypeInv /\ GuardInv

-----------------------------------------------------------------------------
(* What the building blocks of the actions preserve.                       *)

LEMMA PutType ==
    ASSUME TableTypeOK, NEW i, NEW p \in Process \cup {NoProcess}, Put(i, p)
    PROVE  processes' \in [ProcessId -> Process \cup {NoProcess}]
BY DEF TableTypeOK, Put

LEMMA BecomesType ==
    ASSUME calls \in [Threads -> GoodCall], NEW t \in Threads, NEW c \in GoodCall,
           Becomes(t, c)
    PROVE  calls' \in [Threads -> GoodCall]
BY DEF Becomes

LEMMA IdleType == Idle \in GoodCall
<1>1. 0 \in 0 .. MaxId /\ 0 \in 0 .. MaxPid
    BY BoundsAssumption
<1>2. NoneHeld \in [ProcessId -> Process \cup {NoProcess}]
    BY DEF NoneHeld
<1>3. <<>> \in Seq(ProcessId)
    OBVIOUS
<1>. QED
    BY <1>1, <1>2, <1>3 DEF Idle, GoodCall, Call, CallStep, StopStep

\* A call that has just begun at a step that needs nothing but the ids.
LEMMA BareStepType ==
    ASSUME NEW c \in Call, c.pc \in {"many_remove", "restart_check", "drop_join"}
    PROVE  c \in GoodCall
BY DEF GoodCall, StopStep

LEMMA IdleCall == Idle \in Call
BY IdleType DEF GoodCall

LEMMA ReturnType ==
    ASSUME calls \in [Threads -> GoodCall], NEW t \in Threads, Return(t)
    PROVE  calls' \in [Threads -> GoodCall]
BY BecomesType, IdleType DEF Return

LEMMA IdRange == ProcessId \subseteq 0 .. MaxId /\ Pid \subseteq 0 .. MaxPid
BY BoundsAssumption DEF ProcessId, Pid

\* The step a call goes on to when nothing else of it changes.
LEMMA StepToType ==
    ASSUME NEW k \in Call, k.id \in ProcessId,
           NEW pc \in {"await_deps", "restart_wait", "restart_in_place"}
    PROVE  [k EXCEPT !.pc = pc] \in GoodCall
<1>1. [k EXCEPT !.pc = pc] \in Call
    BY DEF Call, CallStep
<1>2. /\ [k EXCEPT !.pc = pc].pc = pc
      /\ [k EXCEPT !.pc = pc].id = k.id
    BY DEF Call
<1>. QED  BY <1>1, <1>2 DEF GoodCall, StopStep

LEMMA StoppedType ==
    ASSUME calls \in [Threads -> GoodCall], NEW t \in Threads,
           calls[t].pc \in StopStep, NEW s \in Seq(ProcessId), Stopped(t, s)
    PROVE  calls' \in [Threads -> GoodCall]
<1>. DEFINE c == calls[t]
<1>1. c \in GoodCall /\ c \in Call
    BY DEF GoodCall
<1>2. NoneHeld \in [ProcessId -> Process \cup {NoProcess}]
    BY DEF NoneHeld
<1>3. CASE s # <<>>
    <2>0. Head(s) \in ProcessId /\ Tail(s) \in Seq(ProcessId)
        BY <1>3
    <2>1. Head(s) \in ProcessId /\ Tail(s) \in Seq(ProcessId) /\ Head(s) \in 0 .. MaxId
        BY <2>0, IdRange
    <2>. DEFINE n == [c EXCEPT !.pc = "stop_check", !.cur = Head(s), !.todo = Tail(s),
                               !.nested = TRUE, !.held = NoneHeld]
    <2>2. n \in GoodCall
        <3>1. n \in Call
            BY <1>1, <1>2, <2>1 DEF Call, CallStep
        <3>2. /\ n.pc = "stop_check" /\ n.cur = Head(s) /\ n.op = c.op
              /\ n.id = c.id /\ n.config = c.config
            BY <1>1 DEF Call
        <3>3. c.op = "restart" => c.id \in ProcessId /\ c.config \in Configs
            BY <1>1 DEF GoodCall
        <3>. HIDE DEF n
        <3>. QED  BY <2>1, <3>1, <3>2, <3>3 DEF GoodCall, StopStep
    <2>. QED  BY <1>3, <2>2, BecomesType DEF Stopped
<1>4. CASE s = <<>> /\ c.op = "restart"
    <2>. DEFINE n == [c EXCEPT !.pc = "restart_insert", !.nested = FALSE, !.held = NoneHeld]
    <2>1. n \in GoodCall
        <3>1. n \in Call
            BY <1>1, <1>2 DEF Call, CallStep
        <3>2. n.pc = "restart_insert" /\ n.id = c.id /\ n.config = c.config
            BY <1>1 DEF Call
        <3>3. c.id \in ProcessId /\ c.config \in Configs
            BY <1>1, <1>4 DEF GoodCall
        <3>. HIDE DEF n
        <3>. QED  BY <3>1, <3>2, <3>3 DEF GoodCall, StopStep
    <2>. QED  BY <1>4, <2>1, BecomesType DEF Stopped
<1>5. CASE s = <<>> /\ c.op # "restart"
    BY <1>5, ReturnType DEF Stopped
<1>. QED  BY <1>3, <1>4, <1>5

LEMMA StopFailedType ==
    ASSUME calls \in [Threads -> GoodCall], NEW t \in Threads,
           calls[t].pc \in StopStep, StopFailed(t)
    PROVE  calls' \in [Threads -> GoodCall]
<1>1. calls[t].todo \in Seq(ProcessId)
    BY DEF GoodCall, Call
<1>. QED  BY <1>1, StoppedType, ReturnType DEF StopFailed

LEMMA RestartedType ==
    ASSUME calls \in [Threads -> GoodCall], NEW t \in Threads, Restarted(t)
    PROVE  calls' \in [Threads -> GoodCall]
<1>1. calls[t].ids \in SUBSET ProcessId
    BY DEF GoodCall, Call
<1>2. [Idle EXCEPT !.pc = "restart_check", !.op = "restart", !.ids = calls[t].ids] \in GoodCall
    <2>1. [Idle EXCEPT !.pc = "restart_check", !.op = "restart", !.ids = calls[t].ids] \in Call
        BY <1>1, IdleCall DEF Call, CallStep, AllOps
    <2>2. [Idle EXCEPT !.pc = "restart_check", !.op = "restart", !.ids = calls[t].ids].pc = "restart_check"
        BY DEF Idle
    <2>. QED  BY <2>1, <2>2, BareStepType
<1>. QED  BY <1>2, BecomesType, ReturnType DEF Restarted

LEMMA EmitType ==
    ASSUME TableTypeOK, NEW i, NEW q \in 0 .. MaxPid,
           NEW s \in {"Stopped", "Crashed", "Failed"}, Emit(i, q, s)
    PROVE  events' \in [ProcessId -> Seq(ProcessExitEvent)]
<1>1. [pid |-> q, state |-> s, exited |-> FALSE] \in ProcessExitEvent
    BY DEF ProcessExitEvent
<1>2. ASSUME i \in ProcessId
      PROVE  Append(events[i], [pid |-> q, state |-> s, exited |-> FALSE])
                \in Seq(ProcessExitEvent)
    <2>1. events[i] \in Seq(ProcessExitEvent)
        BY <1>2 DEF TableTypeOK
    <2>. QED  BY <1>1, <2>1
<1>3. events \in [ProcessId -> Seq(ProcessExitEvent)]
    BY DEF TableTypeOK
<1>4. CASE chan_open
    <2>. DEFINE e == Append(events[i], [pid |-> q, state |-> s, exited |-> FALSE])
    <2>1. i \in ProcessId => e \in Seq(ProcessExitEvent)
        BY <1>2
    <2>2. events' = [events EXCEPT ![i] = e]
        BY <1>4 DEF Emit
    <2>. HIDE DEF e
    <2>. QED  BY <1>3, <2>1, <2>2
<1>5. CASE ~chan_open
    BY <1>3, <1>5 DEF Emit
<1>. QED  BY <1>4, <1>5

LEMMA PollAllType ==
    ASSUME TableTypeOK, NEW S, S \subseteq ProcessId
    PROVE  /\ PollAll(S) \in [ProcessId -> Process \cup {NoProcess}]
           /\ PollAllReaps(S) \subseteq Pid
<1>1. PollAll(S) \in [ProcessId -> Process \cup {NoProcess}]
    BY PolledType DEF TableTypeOK, PollAll
<1>2. PollAllReaps(S) \subseteq Pid
    BY PresentProcess, PollReapsType DEF PollAllReaps
<1>. QED  BY <1>1, <1>2

LEMMA SpawnType ==
    ASSUME TableTypeOK, (\E q \in Pid : SpawnOk(q)) \/ SpawnFails
    PROVE  os' \in [Pid -> {"unborn", "alive", "ok", "err"}]
BY DEF TableTypeOK, SpawnOk, SpawnFails

-----------------------------------------------------------------------------
(* Every action preserves the types: the operations of the manager.        *)

USE DEF mapVars, osVars, eventVars, tableVars, managerVars, scratch

LEMMA CallRecord ==
    ASSUME calls \in [Threads -> GoodCall], NEW t \in Threads
    PROVE  calls[t] \in GoodCall /\ calls[t] \in Call
BY DEF GoodCall

LEMMA StartCallType ==
    ASSUME TypeInv, NEW t \in Threads, StartCall(t), UNCHANGED <<todo, scratch>>
    PROVE  TypeInv'
<1>1. PICK op \in {"start", "start_with_deps"}, c \in Configs, cycle \in BOOLEAN :
         /\ next_id <= MaxId
         /\ IF cycle THEN UNCHANGED calls
            ELSE Becomes(t, [Idle EXCEPT !.pc = "start_insert", !.op = op,
                                         !.id = next_id, !.config = c])
    BY DEF StartCall
<1>2. next_id \in ProcessId /\ next_id \in 0 .. MaxId /\ next_id + 1 \in 1 .. (MaxId + 1)
    BY <1>1, BoundsAssumption DEF TypeInv, TableTypeOK, ProcessId
<1>. DEFINE n == [Idle EXCEPT !.pc = "start_insert", !.op = op, !.id = next_id,
                              !.config = c]
<1>3. n \in GoodCall
    <2>1. n \in Call
        BY <1>2, IdleCall DEF Call, CallStep, AllOps
    <2>2. n.pc = "start_insert" /\ n.id = next_id /\ n.config = c
        BY DEF Idle
    <2>. HIDE DEF n
    <2>. QED  BY <1>2, <2>1, <2>2 DEF GoodCall, StopStep
<1>4. calls' \in [Threads -> GoodCall]
    BY <1>1, <1>3, BecomesType DEF TypeInv
<1>. QED  BY <1>2, <1>4 DEF StartCall, TypeInv, TableTypeOK, ReaperTypeOK

LEMMA StartSpawnType ==
    ASSUME TypeInv, NEW t \in Threads, StartSpawn(t), UNCHANGED <<todo, scratch>>
    PROVE  TypeInv'
<1>. DEFINE c == calls[t].config
            id == calls[t].id
<1>1. c \in Configs /\ id \in ProcessId
    BY CallRecord DEF StartSpawn, TypeInv, At, GoodCall
<1>2. TableTypeOK /\ next_spawn_sequence \in Nat /\ reaped \subseteq Pid
    BY DEF TypeInv, TableTypeOK
<1>3. PICK deps \in resolve_dependencies(c.depends_on) :
        /\ reaped' = reaped \cup PollAllReaps(Visited(deps))
        /\ \/ \E q \in Pid :
                /\ SpawnOk(q)
                /\ processes' = [PollAll(Visited(deps)) EXCEPT
                                   ![id] = NewProcess(c, q, next_spawn_sequence, deps)]
                /\ next_spawn_sequence' = next_spawn_sequence + 1
           \/ /\ SpawnFails
              /\ processes' = PollAll(Visited(deps))
              /\ UNCHANGED next_spawn_sequence
    BY DEF StartSpawn
<1>4. deps \in Seq(ProcessId)
    BY <1>1, BindingType
<1>5. /\ PollAll(Visited(deps)) \in [ProcessId -> Process \cup {NoProcess}]
      /\ PollAllReaps(Visited(deps)) \subseteq Pid
    BY <1>2, <1>4, VisitedType, PollAllType
<1>6. reaped' \subseteq Pid
    BY <1>2, <1>3, <1>5
<1>7. /\ processes' \in [ProcessId -> Process \cup {NoProcess}]
      /\ next_spawn_sequence' \in Nat
      /\ os' \in [Pid -> {"unborn", "alive", "ok", "err"}]
    <2>1. CASE \E q \in Pid :
                /\ SpawnOk(q)
                /\ processes' = [PollAll(Visited(deps)) EXCEPT
                                   ![id] = NewProcess(c, q, next_spawn_sequence, deps)]
                /\ next_spawn_sequence' = next_spawn_sequence + 1
        <3>1. PICK q \in Pid :
                /\ SpawnOk(q)
                /\ processes' = [PollAll(Visited(deps)) EXCEPT
                                   ![id] = NewProcess(c, q, next_spawn_sequence, deps)]
                /\ next_spawn_sequence' = next_spawn_sequence + 1
            BY <2>1
        <3>2. NewProcess(c, q, next_spawn_sequence, deps) \in Process
            BY <1>1, <1>2, <1>4, IdRange, NewProcessType
        <3>3. os' \in [Pid -> {"unborn", "alive", "ok", "err"}]
            BY <1>2, <3>1, SpawnType
        <3>4. next_spawn_sequence' \in Nat
            BY <1>2, <3>1
        <3>5. processes' \in [ProcessId -> Process \cup {NoProcess}]
            BY <1>5, <3>1, <3>2
        <3>. QED  BY <3>3, <3>4, <3>5
    <2>2. CASE SpawnFails /\ processes' = PollAll(Visited(deps))
               /\ UNCHANGED next_spawn_sequence
        BY <1>2, <1>5, <2>2, SpawnType
    <2>. QED  BY <1>3, <2>1, <2>2
<1>8. calls' \in [Threads -> GoodCall]
    BY ReturnType DEF StartSpawn, TypeInv
<1>. QED  BY <1>6, <1>7, <1>8 DEF StartSpawn, TypeInv, TableTypeOK, ReaperTypeOK

LEMMA StartWaitingType ==
    ASSUME TypeInv, NEW t \in Threads, StartWaiting(t), UNCHANGED <<todo, scratch>>
    PROVE  TypeInv'
<1>. DEFINE c == calls[t].config
            id == calls[t].id
<1>1. c \in Configs /\ id \in ProcessId
    BY CallRecord DEF StartWaiting, TypeInv, At, GoodCall
<1>2. TableTypeOK /\ next_spawn_sequence \in Nat /\ reaped \subseteq Pid
      /\ next_spawn_sequence + 1 \in Nat
    BY DEF TypeInv, TableTypeOK
<1>3. PICK deps \in resolve_dependencies(c.depends_on) :
        LET seen == IF Len(deps) = Len(c.depends_on) THEN Visited(deps) ELSE {}
        IN /\ reaped' = reaped \cup PollAllReaps(seen)
           /\ processes' = [PollAll(seen) EXCEPT
                              ![id] = NewProcess(c, 0, next_spawn_sequence, deps)]
    BY DEF StartWaiting
<1>4. deps \in Seq(ProcessId)
    BY <1>1, BindingType
<1>. DEFINE seen == IF Len(deps) = Len(c.depends_on) THEN Visited(deps) ELSE {}
<1>5. seen \subseteq ProcessId
    BY <1>4, VisitedType
<1>6. /\ PollAll(seen) \in [ProcessId -> Process \cup {NoProcess}]
      /\ PollAllReaps(seen) \subseteq Pid
    BY <1>2, <1>5, PollAllType
<1>7. NewProcess(c, 0, next_spawn_sequence, deps) \in Process
    <2>1. 0 \in 0 .. MaxPid
        BY BoundsAssumption
    <2>. QED  BY <1>1, <1>2, <1>4, <2>1, NewProcessType
<1>8. /\ processes' \in [ProcessId -> Process \cup {NoProcess}]
      /\ reaped' \subseteq Pid
    BY <1>2, <1>3, <1>6, <1>7
<1>9. calls' \in [Threads -> GoodCall]
    <2>1. CASE calls[t].op = "start"
        BY <2>1, ReturnType DEF StartWaiting, TypeInv
    <2>2. CASE calls[t].op # "start"
        <3>1. [calls[t] EXCEPT !.pc = "await_deps"] \in GoodCall
            BY <1>1, CallRecord, StepToType DEF TypeInv
        <3>. QED  BY <2>2, <3>1, BecomesType DEF StartWaiting, TypeInv
    <2>. QED  BY <2>1, <2>2
<1>. QED  BY <1>2, <1>8, <1>9 DEF StartWaiting, TypeInv, TableTypeOK, ReaperTypeOK

LEMMA AwaitType ==
    ASSUME TypeInv, NEW t \in Threads, AwaitReturn(t) \/ AwaitTimeout(t),
           UNCHANGED <<todo, scratch>>
    PROVE  TypeInv'
<1>1. calls' \in [Threads -> GoodCall]
    BY ReturnType DEF AwaitReturn, AwaitTimeout, TypeInv
<1>2. CASE AwaitReturn(t)
    BY <1>1, <1>2 DEF AwaitReturn, TypeInv, TableTypeOK, ReaperTypeOK
<1>3. CASE AwaitTimeout(t)
    <2>. DEFINE id == calls[t].id
    <2>1. id \in ProcessId
        BY <1>3, CallRecord DEF AwaitTimeout, TypeInv, At, GoodCall
    <2>2. processes[id] # NoProcess
            => [processes[id] EXCEPT !.state = "Failed"] \in Process
        BY <2>1 DEF TypeInv, TableTypeOK, Process, ProcessState
    <2>3. processes' \in [ProcessId -> Process \cup {NoProcess}]
        BY <1>3, <2>2, PutType DEF AwaitTimeout, TypeInv, TableTypeOK
    <2>. QED  BY <1>1, <1>3, <2>3 DEF AwaitTimeout, TypeInv, TableTypeOK, ReaperTypeOK
<1>. QED  BY <1>2, <1>3

\* A call to stop() that begins, or goes on with a dependent.
LEMMA StopCallType ==
    ASSUME TypeInv, NEW t \in Threads, StopCall(t), UNCHANGED <<todo, scratch>>
    PROVE  TypeInv'
<1>1. PICK i \in Present :
         Becomes(t, [Idle EXCEPT !.pc = "stop_check", !.op = "stop", !.id = i, !.cur = i])
    BY DEF StopCall
<1>2. i \in ProcessId /\ i \in 0 .. MaxId
    BY PresentProcess, IdRange DEF TypeInv
<1>. DEFINE n == [Idle EXCEPT !.pc = "stop_check", !.op = "stop", !.id = i, !.cur = i]
<1>3. n \in GoodCall
    <2>1. n \in Call
        BY <1>2, IdleCall DEF Call, CallStep, AllOps
    <2>2. n.pc = "stop_check" /\ n.op = "stop" /\ n.cur = i
        BY DEF Idle
    <2>. HIDE DEF n
    <2>. QED  BY <1>2, <2>1, <2>2 DEF GoodCall, StopStep
<1>4. calls' \in [Threads -> GoodCall]
    BY <1>1, <1>3, BecomesType DEF TypeInv
<1>. QED  BY <1>4 DEF StopCall, TypeInv, TableTypeOK, ReaperTypeOK

LEMMA StopCheckType ==
    ASSUME TypeInv, NEW t \in Threads, StopCheck(t), UNCHANGED <<todo, scratch>>
    PROVE  TypeInv'
<1>. DEFINE k == calls[t]
            i == k.cur
            p == processes[i]
            pc == IF p.state = "Restarting" THEN "stop_cancel"
                  ELSE IF p.state = "Waiting" THEN "stop_unqueue" ELSE "stop_remove"
            n == [k EXCEPT !.pc = pc, !.pid = p.pid, !.cascade = p.config.cascade_stop]
<1>1. k \in GoodCall /\ k \in Call /\ k.pc = "stop_check" /\ i \in ProcessId
    BY CallRecord DEF StopCheck, TypeInv, At, GoodCall, StopStep
<1>2. CASE p = NoProcess
    <2>1. calls' \in [Threads -> GoodCall]
        BY <1>1, <1>2, StopFailedType DEF StopCheck, TypeInv, StopStep
    <2>. QED  BY <2>1 DEF StopCheck, TypeInv, TableTypeOK, ReaperTypeOK
<1>3. CASE p # NoProcess
    <2>1. p \in Process
        BY <1>1, <1>3 DEF TypeInv, TableTypeOK
    <2>2. p.pid \in 0 .. MaxPid /\ p.config.cascade_stop \in BOOLEAN
        BY <2>1, ConfigsAssumption DEF Process, ProcessConfig
    <2>3. pc \in {"stop_cancel", "stop_unqueue", "stop_remove"}
        OBVIOUS
    <2>. HIDE DEF pc
    <2>4. n \in Call
        BY <1>1, <2>2, <2>3 DEF Call, CallStep
    <2>5. n.pc = pc /\ n.op = k.op /\ n.id = k.id /\ n.cur = k.cur /\ n.config = k.config
        BY <1>1 DEF Call
    <2>6. k.op = "restart" => k.id \in ProcessId /\ k.config \in Configs
        BY <1>1 DEF GoodCall, StopStep
    <2>7. n \in GoodCall
        <3>. HIDE DEF n
        <3>. QED  BY <1>1, <2>3, <2>4, <2>5, <2>6 DEF GoodCall, StopStep
    <2>8. Becomes(t, n)
        BY <1>3 DEF StopCheck, pc
    <2>9. calls' \in [Threads -> GoodCall]
        BY <2>7, <2>8, BecomesType DEF TypeInv
    <2>. QED  BY <2>9 DEF StopCheck, TypeInv, TableTypeOK, ReaperTypeOK
<1>. QED  BY <1>2, <1>3

LEMMA StopCancelType ==
    ASSUME TypeInv, NEW t \in Threads, StopCancel(t), UNCHANGED <<todo, scratch>>
    PROVE  TypeInv'
<1>1. calls[t].pc \in StopStep /\ calls[t].todo \in Seq(ProcessId)
    BY CallRecord DEF StopCancel, TypeInv, At, StopStep, Call
<1>2. calls' \in [Threads -> GoodCall]
    BY <1>1, StoppedType DEF StopCancel, TypeInv
<1>3. processes' \in [ProcessId -> Process \cup {NoProcess}]
    BY PutType DEF StopCancel, TypeInv
<1>. QED  BY <1>2, <1>3 DEF StopCancel, TypeInv, TableTypeOK, ReaperTypeOK

LEMMA CascadeType ==
    ASSUME calls \in [Threads -> GoodCall], NEW t \in Threads, NEW cascade,
           NEW S, S \subseteq ProcessId, NEW s \in Cascade(t, cascade, S)
    PROVE  s \in Seq(ProcessId)
<1>1. calls[t].todo \in Seq(ProcessId)
    BY CallRecord DEF Call
<1>2. CASE cascade
    <2>1. PICK l \in Listings(S) : s = l \o calls[t].todo
        BY <1>2 DEF Cascade
    <2>2. l \in Seq(ProcessId)
        BY ListingType
    <2>. QED  BY <1>1, <2>1, <2>2
<1>3. CASE ~cascade
    BY <1>1, <1>3 DEF Cascade
<1>. QED  BY <1>2, <1>3

LEMMA StopUnqueueType ==
    ASSUME TypeInv, NEW t \in Threads, StopUnqueue(t), UNCHANGED <<todo, scratch>>
    PROVE  TypeInv'
<1>. DEFINE i == calls[t].cur
<1>1. calls[t].pc \in StopStep /\ calls[t].pid \in 0 .. MaxPid
    BY CallRecord DEF StopUnqueue, TypeInv, At, StopStep, Call
<1>2. PICK s \in Cascade(t, calls[t].cascade, Dependents(i) \ {i}) : Stopped(t, s)
    BY DEF StopUnqueue
<1>3. Dependents(i) \ {i} \subseteq ProcessId
    BY DEF Dependents, Present
<1>4. s \in Seq(ProcessId)
    BY <1>3, CascadeType DEF TypeInv
<1>5. calls' \in [Threads -> GoodCall]
    BY <1>1, <1>2, <1>4, StoppedType DEF TypeInv
<1>6. processes' \in [ProcessId -> Process \cup {NoProcess}]
    BY PutType DEF StopUnqueue, TypeInv
<1>7. events' \in [ProcessId -> Seq(ProcessExitEvent)]
    <2>1. CASE HasReaper
        BY <1>1, <2>1, EmitType DEF StopUnqueue, TypeInv
    <2>2. CASE ~HasReaper
        BY <2>2 DEF StopUnqueue, TypeInv, TableTypeOK
    <2>. QED  BY <2>1, <2>2
<1>. QED  BY <1>5, <1>6, <1>7 DEF StopUnqueue, TypeInv, TableTypeOK, ReaperTypeOK

LEMMA StopRemoveType ==
    ASSUME TypeInv, NEW t \in Threads, StopRemove(t), UNCHANGED <<todo, scratch>>
    PROVE  TypeInv'
<1>. DEFINE k == calls[t]
            i == k.cur
            p == processes[i]
            n == [k EXCEPT !.pc = "stop_grace", !.held[i] = [p EXCEPT !.state = "Stopping"]]
<1>1. /\ k \in GoodCall /\ k \in Call /\ k.pc = "stop_remove" /\ k.pc \in StopStep
      /\ i \in ProcessId /\ k.todo \in Seq(ProcessId)
    BY CallRecord DEF StopRemove, TypeInv, At, GoodCall, StopStep, Call
<1>2. processes' \in [ProcessId -> Process \cup {NoProcess}]
    BY PutType DEF StopRemove, TypeInv
<1>3. doomed' \subseteq Pid /\ calls' \in [Threads -> GoodCall]
    <2>1. CASE p = NoProcess
        BY <1>1, <2>1, StopFailedType DEF StopRemove, TypeInv, TableTypeOK
    <2>2. CASE p # NoProcess
        <3>1. p \in Process
            BY <1>1, <2>2 DEF TypeInv, TableTypeOK
        <3>2. doomed' \subseteq Pid
            BY <2>2, <3>1, SignalType DEF StopRemove, TypeInv, TableTypeOK
        <3>3. CASE KillResult(p) = "Ok"
            <4>1. [p EXCEPT !.state = "Stopping"] \in Process
                BY <3>1 DEF Process, ProcessState
            <4>2. n \in Call
                BY <1>1, <4>1 DEF Call, CallStep
            <4>3. /\ n.pc = "stop_grace" /\ n.op = k.op /\ n.id = k.id /\ n.cur = i
                  /\ n.config = k.config
                BY <1>1 DEF Call
            <4>4. n.held[i] = [p EXCEPT !.state = "Stopping"]
                BY <1>1 DEF Call
            <4>5. k.op = "restart" => k.id \in ProcessId /\ k.config \in Configs
                BY <1>1 DEF GoodCall
            <4>6. n \in GoodCall
                <5>. HIDE DEF n
                <5>. QED  BY <1>1, <4>1, <4>2, <4>3, <4>4, <4>5 DEF GoodCall, StopStep
            <4>7. Becomes(t, n)
                BY <2>2, <3>3 DEF StopRemove
            <4>. QED  BY <3>2, <4>6, <4>7, BecomesType DEF TypeInv
        <3>4. CASE KillResult(p) = "ESRCH"
            <4>1. Stopped(t, k.todo)
                BY <2>2, <3>4 DEF StopRemove
            <4>. QED  BY <1>1, <3>2, <4>1, StoppedType DEF TypeInv
        <3>5. CASE KillResult(p) = "EPERM"
            <4>1. StopFailed(t)
                BY <2>2, <3>5 DEF StopRemove
            <4>. QED  BY <1>1, <3>2, <4>1, StopFailedType DEF TypeInv
        <3>. QED  BY <3>3, <3>4, <3>5 DEF KillResult
    <2>. QED  BY <2>1, <2>2
<1>. QED  BY <1>2, <1>3 DEF StopRemove, TypeInv, TableTypeOK, ReaperTypeOK

LEMMA StopEscalateType ==
    ASSUME TypeInv, NEW t \in Threads, StopEscalate(t), UNCHANGED <<todo, scratch>>
    PROVE  TypeInv'
<1>. DEFINE k == calls[t]
            p == k.held[k.cur]
            n == [k EXCEPT !.pc = "stop_reap"]
<1>1. /\ k \in GoodCall /\ k \in Call /\ k.pc = "stop_grace" /\ k.pc \in StopStep
      /\ p \in Process /\ k.todo \in Seq(ProcessId)
    BY CallRecord DEF StopEscalate, TypeInv, At, GoodCall, StopStep, Call
<1>2. doomed' \subseteq Pid
    BY <1>1, SignalType DEF StopEscalate, TypeInv, TableTypeOK
<1>3. n \in GoodCall
    <2>1. n \in Call
        BY <1>1 DEF Call, CallStep
    <2>2. /\ n.pc = "stop_reap" /\ n.op = k.op /\ n.id = k.id /\ n.cur = k.cur
          /\ n.config = k.config /\ n.held = k.held
        BY <1>1 DEF Call
    <2>. HIDE DEF n
    <2>. QED  BY <1>1, <2>1, <2>2 DEF GoodCall, StopStep
<1>4. calls' \in [Threads -> GoodCall]
    BY <1>1, <1>3, BecomesType, StoppedType DEF StopEscalate, TypeInv
<1>. QED  BY <1>2, <1>4 DEF StopEscalate, TypeInv, TableTypeOK, ReaperTypeOK

LEMMA StopReapType ==
    ASSUME TypeInv, NEW t \in Threads, StopReap(t), UNCHANGED <<todo, scratch>>
    PROVE  TypeInv'
<1>. DEFINE k == calls[t]
            p == k.held[k.cur]
<1>1. k.pc \in StopStep /\ p \in Process
    BY CallRecord DEF StopReap, TypeInv, At, GoodCall, StopStep
<1>2. PICK s \in Cascade(t, p.config.cascade_stop, Dependents(k.cur)) : Stopped(t, s)
    BY DEF StopReap
<1>3. Dependents(k.cur) \subseteq ProcessId
    BY DEF Dependents, Present
<1>4. s \in Seq(ProcessId)
    BY <1>3, CascadeType DEF TypeInv
<1>5. calls' \in [Threads -> GoodCall]
    BY <1>1, <1>2, <1>4, StoppedType DEF TypeInv
<1>6. reaped' \subseteq Pid
    BY <1>1, CollectedType DEF StopReap, TypeInv, TableTypeOK
<1>. QED  BY <1>5, <1>6 DEF StopReap, TypeInv, TableTypeOK, ReaperTypeOK

LEMMA StopManyCallType ==
    ASSUME TypeInv, NEW t \in Threads, StopManyCall(t), UNCHANGED <<todo, scratch>>
    PROVE  TypeInv'
<1>1. PICK ids \in {Labelled(l) : l \in Labels} \cup {Present} :
         Becomes(t, [Idle EXCEPT !.pc = "many_remove", !.op = "stop_many", !.ids = ids])
    BY DEF StopManyCall
<1>2. ids \subseteq ProcessId
    BY DEF Labelled, Present
<1>3. [Idle EXCEPT !.pc = "many_remove", !.op = "stop_many", !.ids = ids] \in GoodCall
    <2>1. [Idle EXCEPT !.pc = "many_remove", !.op = "stop_many", !.ids = ids] \in Call
        BY <1>2, IdleCall DEF Call, CallStep, AllOps
    <2>2. [Idle EXCEPT !.pc = "many_remove", !.op = "stop_many", !.ids = ids].pc = "many_remove"
        BY DEF Idle
    <2>. QED  BY <2>1, <2>2, BareStepType
<1>4. calls' \in [Threads -> GoodCall]
    BY <1>1, <1>3, BecomesType DEF TypeInv
<1>. QED  BY <1>4 DEF StopManyCall, TypeInv, TableTypeOK, ReaperTypeOK

\* The steps of stop_many() carry nothing but the ids and the records.
LEMMA ManyStepType ==
    ASSUME NEW k \in Call, NEW pc \in {"many_remove", "many_signal", "many_grace", "many_reap"},
           NEW ids, ids \subseteq ProcessId,
           NEW held \in [ProcessId -> Process \cup {NoProcess}]
    PROVE  [k EXCEPT !.pc = pc, !.ids = ids, !.held = held] \in GoodCall
<1>1. [k EXCEPT !.pc = pc, !.ids = ids, !.held = held] \in Call
    BY DEF Call, CallStep
<1>2. [k EXCEPT !.pc = pc, !.ids = ids, !.held = held].pc = pc
    BY DEF Call
<1>. QED  BY <1>1, <1>2 DEF GoodCall, StopStep

LEMMA StopManyRemoveType ==
    ASSUME TypeInv, NEW t \in Threads, StopManyRemove(t), UNCHANGED <<todo, scratch>>
    PROVE  TypeInv'
<1>. DEFINE k == calls[t]
<1>1. k \in Call /\ k.ids \subseteq ProcessId
      /\ k.held \in [ProcessId -> Process \cup {NoProcess}]
    BY CallRecord DEF TypeInv, Call
<1>2. PICK i \in k.ids :
        LET p == processes[i]
            ids == k.ids \ {i}
            held == IF p = NoProcess THEN k.held
                    ELSE IF p.pid = 0 THEN k.held ELSE [k.held EXCEPT ![i] = p]
        IN /\ Put(i, NoProcess)
           /\ IF ids = {} /\ held = NoneHeld THEN Return(t)
              ELSE Becomes(t, [k EXCEPT
                       !.pc = IF ids = {} THEN "many_signal" ELSE "many_remove",
                       !.ids = ids, !.held = held])
    BY DEF StopManyRemove
<1>. DEFINE p == processes[i]
            ids == k.ids \ {i}
            held == IF p = NoProcess THEN k.held
                    ELSE IF p.pid = 0 THEN k.held ELSE [k.held EXCEPT ![i] = p]
            pc == IF ids = {} THEN "many_signal" ELSE "many_remove"
<1>3. held \in [ProcessId -> Process \cup {NoProcess}]
    BY <1>1 DEF TypeInv, TableTypeOK
<1>4. [k EXCEPT !.pc = pc, !.ids = ids, !.held = held] \in GoodCall
    <2>1. pc \in {"many_remove", "many_signal", "many_grace", "many_reap"}
          /\ ids \subseteq ProcessId
        BY <1>1
    <2>. HIDE DEF pc, ids, held
    <2>. QED  BY <1>1, <1>3, <2>1, ManyStepType
<1>5. calls' \in [Threads -> GoodCall]
    BY <1>2, <1>4, BecomesType, ReturnType DEF TypeInv
<1>6. processes' \in [ProcessId -> Process \cup {NoProcess}]
    BY <1>2, PutType DEF TypeInv
<1>. QED  BY <1>5, <1>6 DEF StopManyRemove, TypeInv, TableTypeOK, ReaperTypeOK

\* The records a call has taken from the map.
LEMMA HeldType ==
    ASSUME calls \in [Threads -> GoodCall], NEW t \in Threads, NEW i \in Held(t)
    PROVE  i \in ProcessId /\ calls[t].held[i] \in Process
BY CallRecord DEF Held, Call

LEMMA StopManySignalType ==
    ASSUME TypeInv, NEW t \in Threads, StopManySignal(t), UNCHANGED <<todo, scratch>>
    PROVE  TypeInv'
<1>. DEFINE k == calls[t]
            h == [i \in ProcessId |-> IF i \in Held(t)
                                      THEN [k.held[i] EXCEPT !.state = "Stopping"]
                                      ELSE NoProcess]
<1>1. k \in Call /\ k.ids \subseteq ProcessId
    BY CallRecord DEF TypeInv, Call
<1>2. \A i \in Held(t) : [k.held[i] EXCEPT !.state = "Stopping"] \in Process
    <2>1. \A r \in Process : [r EXCEPT !.state = "Stopping"] \in Process
        BY DEF Process, ProcessState
    <2>2. \A i \in Held(t) : k.held[i] \in Process
        BY HeldType DEF TypeInv
    <2>. QED  BY <2>1, <2>2
<1>3. h \in [ProcessId -> Process \cup {NoProcess}]
    BY <1>2
<1>4. [k EXCEPT !.pc = "many_grace", !.held = h] \in GoodCall
    <2>. HIDE DEF h
    <2>1. [k EXCEPT !.pc = "many_grace", !.ids = k.ids, !.held = h] \in GoodCall
        BY <1>1, <1>3, ManyStepType
    <2>2. [k EXCEPT !.pc = "many_grace", !.ids = k.ids, !.held = h]
            = [k EXCEPT !.pc = "many_grace", !.held = h]
        BY <1>1 DEF Call
    <2>. QED  BY <2>1, <2>2
<1>5. calls' \in [Threads -> GoodCall]
    BY <1>4, BecomesType DEF StopManySignal, TypeInv
<1>6. doomed' \subseteq Pid
    BY HeldType, SignalType DEF StopManySignal, TypeInv, TableTypeOK
<1>. QED  BY <1>5, <1>6 DEF StopManySignal, TypeInv, TableTypeOK, ReaperTypeOK

LEMMA StopManyEscalateType ==
    ASSUME TypeInv, NEW t \in Threads, StopManyEscalate(t), UNCHANGED <<todo, scratch>>
    PROVE  TypeInv'
<1>. DEFINE k == calls[t]
            left == {i \in Held(t) : is_alive(Polled(k.held[i]).state)}
            h == [i \in ProcessId |-> IF i \in left THEN k.held[i] ELSE NoProcess]
<1>1. k \in Call /\ k.ids \subseteq ProcessId
    BY CallRecord DEF TypeInv, Call
<1>2. \A i \in left : k.held[i] \in Process
    BY HeldType DEF TypeInv
<1>3. h \in [ProcessId -> Process \cup {NoProcess}]
    BY <1>2
<1>4. [k EXCEPT !.pc = "many_reap", !.held = h] \in GoodCall
    <2>. HIDE DEF h
    <2>1. [k EXCEPT !.pc = "many_reap", !.ids = k.ids, !.held = h] \in GoodCall
        BY <1>1, <1>3, ManyStepType
    <2>2. [k EXCEPT !.pc = "many_reap", !.ids = k.ids, !.held = h]
            = [k EXCEPT !.pc = "many_reap", !.held = h]
        BY <1>1 DEF Call
    <2>. QED  BY <2>1, <2>2
<1>5. calls' \in [Threads -> GoodCall]
    BY <1>4, BecomesType DEF StopManyEscalate, TypeInv
<1>6. doomed' \subseteq Pid
    BY HeldType, SignalType DEF StopManyEscalate, TypeInv, TableTypeOK
<1>. QED  BY <1>5, <1>6 DEF StopManyEscalate, TypeInv, TableTypeOK, ReaperTypeOK

LEMMA StopManyReapType ==
    ASSUME TypeInv, NEW t \in Threads, StopManyReap(t), UNCHANGED <<todo, scratch>>
    PROVE  TypeInv'
<1>. DEFINE k == calls[t]
<1>1. \A i \in Reinserted(t) : [k.held[i] EXCEPT !.state = "Failed"] \in Process
    BY HeldType DEF Reinserted, TypeInv, Process, ProcessState
<1>2. processes' \in [ProcessId -> Process \cup {NoProcess}]
    BY <1>1 DEF StopManyReap, TypeInv, TableTypeOK
<1>3. reaped' \subseteq Pid
    BY HeldType, CollectedType DEF StopManyReap, TypeInv, TableTypeOK
<1>4. calls' \in [Threads -> GoodCall]
    BY ReturnType DEF StopManyReap, TypeInv
<1>. QED  BY <1>2, <1>3, <1>4 DEF StopManyReap, TypeInv, TableTypeOK, ReaperTypeOK

LEMMA RestartCallType ==
    ASSUME TypeInv, NEW t \in Threads, RestartCall(t), UNCHANGED <<todo, scratch>>
    PROVE  TypeInv'
<1>1. PICK ids \in {{i} : i \in Present} \cup {Labelled(l) : l \in Labels} :
         Becomes(t, [Idle EXCEPT !.pc = "restart_check", !.op = "restart", !.ids = ids])
    BY DEF RestartCall
<1>2. ids \subseteq ProcessId
    BY DEF Labelled, Present
<1>3. [Idle EXCEPT !.pc = "restart_check", !.op = "restart", !.ids = ids] \in GoodCall
    <2>1. [Idle EXCEPT !.pc = "restart_check", !.op = "restart", !.ids = ids] \in Call
        BY <1>2, IdleCall DEF Call, CallStep, AllOps
    <2>2. [Idle EXCEPT !.pc = "restart_check", !.op = "restart", !.ids = ids].pc = "restart_check"
        BY DEF Idle
    <2>. QED  BY <2>1, <2>2, BareStepType
<1>4. calls' \in [Threads -> GoodCall]
    BY <1>1, <1>3, BecomesType DEF TypeInv
<1>. QED  BY <1>4 DEF RestartCall, TypeInv, TableTypeOK, ReaperTypeOK

LEMMA RestartCheckType ==
    ASSUME TypeInv, NEW t \in Threads, RestartCheck(t), UNCHANGED <<todo, scratch>>
    PROVE  TypeInv'
<1>. DEFINE k == calls[t]
<1>1. k \in Call /\ k.ids \subseteq ProcessId
    BY CallRecord DEF TypeInv, Call
<1>2. PICK i \in k.ids :
        IF processes[i] = NoProcess THEN Return(t)
        ELSE Becomes(t, [k EXCEPT
                 !.pc = IF processes[i].state = "Restarting" THEN "restart_reset"
                        ELSE "stop_check",
                 !.id = i, !.cur = i, !.config = processes[i].config, !.ids = @ \ {i}])
    BY DEF RestartCheck
<1>. DEFINE p == processes[i]
            pc == IF p.state = "Restarting" THEN "restart_reset" ELSE "stop_check"
            ids == k.ids \ {i}
            n == [k EXCEPT !.pc = pc, !.id = i, !.cur = i, !.config = p.config, !.ids = ids]
<1>3. ASSUME p # NoProcess
      PROVE  n \in GoodCall
    <2>1. p.config \in Configs
        BY <1>1, <1>3 DEF TypeInv, TableTypeOK, Process
    <2>2. i \in ProcessId /\ i \in 0 .. MaxId /\ ids \subseteq ProcessId
        BY <1>1, IdRange
    <2>3. pc \in {"restart_reset", "stop_check"}
        OBVIOUS
    <2>. HIDE DEF pc, ids
    <2>4. n \in Call
        BY <1>1, <2>1, <2>2, <2>3 DEF Call, CallStep
    <2>5. n.pc = pc /\ n.id = i /\ n.cur = i /\ n.config = p.config
        BY <1>1 DEF Call
    <2>. HIDE DEF n
    <2>. QED  BY <2>1, <2>2, <2>3, <2>4, <2>5 DEF GoodCall, StopStep
<1>4. calls' \in [Threads -> GoodCall]
    BY <1>2, <1>3, BecomesType, ReturnType DEF TypeInv
<1>. QED  BY <1>4 DEF RestartCheck, TypeInv, TableTypeOK, ReaperTypeOK

LEMMA RestartBlocksType ==
    ASSUME TypeInv, NEW t \in Threads, RestartBlocks(t), UNCHANGED <<todo, scratch>>
    PROVE  TypeInv'
<1>1. calls[t] \in Call /\ calls[t].id \in ProcessId
    BY CallRecord DEF RestartBlocks, TypeInv, At, GoodCall
<1>2. calls' \in [Threads -> GoodCall]
    BY <1>1, StepToType, BecomesType DEF RestartBlocks, TypeInv
<1>. QED  BY <1>1, <1>2 DEF RestartBlocks, TypeInv, TableTypeOK, ReaperTypeOK

LEMMA ResetType ==
    ASSUME NEW p \in Process
    PROVE  Reset(p) \in Process /\ Reset(p).spawn_sequence = p.spawn_sequence
<1>1. 0 \in 0 .. MaxPid
    BY BoundsAssumption
<1>. QED  BY <1>1 DEF Reset, Process

LEMMA RestartResetType ==
    ASSUME TypeInv, NEW t \in Threads, RestartReset(t), UNCHANGED <<todo, scratch>>
    PROVE  TypeInv'
<1>. DEFINE i == calls[t].id
            p == processes[i]
<1>1. calls[t] \in Call /\ i \in ProcessId
    BY CallRecord DEF RestartReset, TypeInv, At, GoodCall
<1>2. locks' \subseteq {Shard[j] : j \in ProcessId}
    BY DEF RestartReset, TypeInv, TableTypeOK
<1>3. CASE p = NoProcess
    <2>1. calls' \in [Threads -> GoodCall]
        BY <1>3, ReturnType DEF RestartReset, TypeInv
    <2>. QED  BY <1>2, <1>3, <2>1 DEF RestartReset, TypeInv, TableTypeOK, ReaperTypeOK
<1>4. CASE p # NoProcess
    <2>1. p \in Process
        BY <1>1, <1>4 DEF TypeInv, TableTypeOK
    <2>2. processes' \in [ProcessId -> Process \cup {NoProcess}]
        BY <1>4, <2>1, ResetType, PutType DEF RestartReset, TypeInv
    <2>3. reaped' \subseteq Pid
        BY <1>4, <2>1, CollectedType DEF RestartReset, TypeInv, TableTypeOK
    <2>4. calls' \in [Threads -> GoodCall]
        BY <1>1, <1>4, StepToType, BecomesType DEF RestartReset, TypeInv
    <2>. QED  BY <1>2, <2>2, <2>3, <2>4 DEF RestartReset, TypeInv, TableTypeOK, ReaperTypeOK
<1>. QED  BY <1>3, <1>4

\* The record after a restart in place.
InPlace(p, q) == [p EXCEPT !.pid = q, !.child = q, !.state = "Starting", !.stable = FALSE]

LEMMA InPlaceType ==
    ASSUME NEW p \in Process, NEW q \in Pid
    PROVE  InPlace(p, q) \in Process /\ InPlace(p, q).spawn_sequence = p.spawn_sequence
BY IdRange DEF InPlace, Process, ProcessState

LEMMA RestartInPlaceType ==
    ASSUME TypeInv, NEW t \in Threads, RestartInPlace(t), UNCHANGED <<todo, scratch>>
    PROVE  TypeInv'
<1>. DEFINE i == calls[t].id
            p == processes[i]
<1>1. i \in ProcessId
    BY CallRecord DEF RestartInPlace, TypeInv, At, GoodCall
<1>2. TableTypeOK /\ next_spawn_sequence \in Nat
    BY DEF TypeInv, TableTypeOK
<1>3. /\ os' \in [Pid -> {"unborn", "alive", "ok", "err"}]
      /\ next_spawn_sequence' \in Nat
      /\ calls' \in [Threads -> GoodCall]
      /\ processes' \in [ProcessId -> Process \cup {NoProcess}]
    <2>1. ASSUME NEW q \in Pid, SpawnOk(q),
                 IF p = NoProcess THEN Return(t) /\ UNCHANGED processes
                 ELSE Put(i, InPlace(p, q)) /\ Restarted(t),
                 next_spawn_sequence' = next_spawn_sequence + 1
          PROVE  <1>3!1 /\ <1>3!2 /\ <1>3!3 /\ <1>3!4
        <3>1. os' \in [Pid -> {"unborn", "alive", "ok", "err"}]
            BY <1>2, <2>1, SpawnType
        <3>2. next_spawn_sequence' \in Nat
            BY <1>2, <2>1
        <3>3. calls' \in [Threads -> GoodCall]
            BY <2>1, ReturnType, RestartedType DEF TypeInv
        <3>4. p # NoProcess => InPlace(p, q) \in Process
            BY <1>1, <1>2, InPlaceType DEF TableTypeOK
        <3>5. processes' \in [ProcessId -> Process \cup {NoProcess}]
            BY <1>2, <2>1, <3>4, PutType DEF TableTypeOK
        <3>. QED  BY <3>1, <3>2, <3>3, <3>5
    <2>2. ASSUME SpawnFails, Return(t), UNCHANGED <<processes, next_spawn_sequence>>
          PROVE  <1>3!1 /\ <1>3!2 /\ <1>3!3 /\ <1>3!4
        BY <1>2, <2>2, SpawnType, ReturnType DEF TypeInv, TableTypeOK
    <2>. QED  BY <2>1, <2>2 DEF RestartInPlace, InPlace
<1>. QED  BY <1>3 DEF RestartInPlace, TypeInv, TableTypeOK, ReaperTypeOK

LEMMA RestartInsertType ==
    ASSUME TypeInv, NEW t \in Threads, RestartInsert(t), UNCHANGED <<todo, scratch>>
    PROVE  TypeInv'
<1>. DEFINE i == calls[t].id
            c == calls[t].config
<1>1. i \in ProcessId /\ c \in Configs
    BY CallRecord DEF RestartInsert, TypeInv, At, GoodCall
<1>2. TableTypeOK /\ next_spawn_sequence \in Nat
    BY DEF TypeInv, TableTypeOK
<1>3. /\ os' \in [Pid -> {"unborn", "alive", "ok", "err"}]
      /\ next_spawn_sequence' \in Nat
      /\ calls' \in [Threads -> GoodCall]
      /\ processes' \in [ProcessId -> Process \cup {NoProcess}]
    <2>1. ASSUME NEW q \in Pid, SpawnOk(q),
                 Put(i, NewProcess(c, q, next_spawn_sequence, <<>>)),
                 next_spawn_sequence' = next_spawn_sequence + 1,
                 Restarted(t)
          PROVE  <1>3!1 /\ <1>3!2 /\ <1>3!3 /\ <1>3!4
        <3>1. os' \in [Pid -> {"unborn", "alive", "ok", "err"}]
            BY <1>2, <2>1, SpawnType
        <3>2. next_spawn_sequence' \in Nat
            BY <1>2, <2>1
        <3>3. calls' \in [Threads -> GoodCall]
            BY <2>1, RestartedType DEF TypeInv
        <3>4. NewProcess(c, q, next_spawn_sequence, <<>>) \in Process
            <4>1. q \in 0 .. MaxPid /\ <<>> \in Seq(ProcessId)
                BY IdRange
            <4>. QED  BY <1>1, <1>2, <4>1, NewProcessType
        <3>5. processes' \in [ProcessId -> Process \cup {NoProcess}]
            BY <1>2, <2>1, <3>4, PutType
        <3>. QED  BY <3>1, <3>2, <3>3, <3>5
    <2>2. ASSUME SpawnFails, Return(t), UNCHANGED <<processes, next_spawn_sequence>>
          PROVE  <1>3!1 /\ <1>3!2 /\ <1>3!3 /\ <1>3!4
        BY <1>2, <2>2, SpawnType, ReturnType DEF TypeInv, TableTypeOK
    <2>. QED  BY <2>1, <2>2 DEF RestartInsert
<1>. QED  BY <1>3 DEF RestartInsert, TypeInv, TableTypeOK, ReaperTypeOK

LEMMA PollType ==
    ASSUME TypeInv, NEW t \in Threads, Poll(t), UNCHANGED <<todo, scratch>>
    PROVE  TypeInv'
<1>1. PICK i \in Present : /\ Put(i, Polled(processes[i]))
                           /\ reaped' = reaped \cup PollReaps(processes[i])
    BY DEF Poll
<1>2. processes[i] \in Process
    BY PresentProcess DEF TypeInv
<1>3. processes' \in [ProcessId -> Process \cup {NoProcess}]
    BY <1>1, <1>2, PolledType, PutType DEF TypeInv
<1>4. reaped' \subseteq Pid
    BY <1>1, <1>2, PollReapsType DEF TypeInv, TableTypeOK
<1>. QED  BY <1>3, <1>4 DEF Poll, TypeInv, TableTypeOK, ReaperTypeOK

LEMMA SendSignalType ==
    ASSUME TypeInv, NEW t \in Threads, NEW i \in ProcessId, SendSignal(t, i),
           UNCHANGED <<todo, scratch>>
    PROVE  TypeInv'
<1>1. processes[i] \in Process
    BY PresentProcess DEF SendSignal, TypeInv
<1>2. doomed' \subseteq Pid
    BY <1>1, SignalType DEF SendSignal, TypeInv, TableTypeOK
<1>. QED  BY <1>2 DEF SendSignal, TypeInv, TableTypeOK, ReaperTypeOK

LEMMA DropManagerType ==
    ASSUME TypeInv, NEW t \in Threads, DropManager(t), UNCHANGED <<todo, scratch>>
    PROVE  TypeInv'
<1>1. [Idle EXCEPT !.pc = "drop_join", !.op = "drop"] \in GoodCall
    <2>1. [Idle EXCEPT !.pc = "drop_join", !.op = "drop"] \in Call
        BY IdleCall DEF Call, CallStep, AllOps
    <2>2. [Idle EXCEPT !.pc = "drop_join", !.op = "drop"].pc = "drop_join"
        BY DEF Idle
    <2>. QED  BY <2>1, <2>2, BareStepType
<1>2. calls' \in [Threads -> GoodCall]
    BY <1>1, BecomesType DEF DropManager, TypeInv
<1>. QED  BY <1>2 DEF DropManager, TypeInv, TableTypeOK, ReaperTypeOK

LEMMA DropStopType ==
    ASSUME TypeInv, NEW t \in Threads, DropStop(t), UNCHANGED <<todo, scratch>>
    PROVE  TypeInv'
<1>. DEFINE k == calls[t]
            ids == {i \in Present : processes[i].config.terminate_on_exit}
<1>1. k \in Call /\ k.held \in [ProcessId -> Process \cup {NoProcess}]
      /\ ids \subseteq ProcessId
    BY CallRecord DEF TypeInv, Call, Present
<1>. HIDE DEF ids
<1>2. [k EXCEPT !.pc = "many_remove", !.ids = ids] \in GoodCall
    <2>1. [k EXCEPT !.pc = "many_remove", !.ids = ids, !.held = k.held] \in GoodCall
        BY <1>1, ManyStepType
    <2>2. [k EXCEPT !.pc = "many_remove", !.ids = ids, !.held = k.held]
            = [k EXCEPT !.pc = "many_remove", !.ids = ids]
        BY <1>1 DEF Call
    <2>. QED  BY <2>1, <2>2
<1>3. calls' \in [Threads -> GoodCall]
    BY <1>2, BecomesType, ReturnType DEF DropStop, TypeInv, ids
<1>. QED  BY <1>3 DEF DropStop, TypeInv, TableTypeOK, ReaperTypeOK

LEMMA CloseChannelType ==
    ASSUME TypeInv, CloseChannel, UNCHANGED <<todo, scratch>>
    PROVE  TypeInv'
BY DEF CloseChannel, TypeInv, TableTypeOK, ReaperTypeOK

-----------------------------------------------------------------------------
(* Every action preserves the types: the reaper.                           *)

LEMMA PhaseType ==
    ASSUME TypeInv, NEW ids, ids \subseteq ProcessId, NEW phase \in ReaperStep,
           NEW next \in ReaperStep, Collect(ids, phase, next)
    PROVE  rpc' \in ReaperStep /\ todo' \subseteq ProcessId
BY DEF Collect

LEMMA DoneType ==
    ASSUME TypeInv, NEW i, NEW next \in ReaperStep, Done(i, next)
    PROVE  rpc' \in ReaperStep /\ todo' \subseteq ProcessId
BY DEF Done, TypeInv, ReaperTypeOK

LEMMA BeginCycleType ==
    ASSUME TypeInv, BeginCycle
    PROVE  TypeInv'
BY DEF BeginCycle, Goto, TypeInv, TableTypeOK, ReaperTypeOK, ReaperStep

LEMMA EndDetectType ==
    ASSUME TypeInv, EndDetect
    PROVE  TypeInv'
BY DEF EndDetect, Goto, TypeInv, TableTypeOK, ReaperTypeOK, ReaperStep

LEMMA DetectExitType ==
    ASSUME TypeInv, NEW i \in ProcessId, DetectExit(i)
    PROVE  TypeInv'
<1>. DEFINE p == check_stable_uptime(processes[i])
            x == [pid |-> p.pid, state |-> EventState(p), restart |-> WillRestart(p)]
            o == [id |-> i, label |-> p.config.label, seq |-> p.spawn_sequence,
                  strategy |-> p.config.supervisor_strategy]
            b == [p EXCEPT !.cascade_flag = FALSE]
<1>1. p \in Process
    BY PresentProcess, StableUptimeType DEF DetectExit, TypeInv
<1>2. /\ p.config \in ProcessConfig /\ p.pid \in 0 .. MaxPid
      /\ p.cascade_flag \in BOOLEAN /\ p.spawn_sequence \in Nat
    BY <1>1, ConfigsAssumption DEF Process
<1>3. /\ p.config.label \in Labels /\ p.config.restart_on_exit \in BOOLEAN
      /\ p.config.supervisor_strategy \in {"OneForOne", "OneForAll", "RestForOne"}
    BY <1>2 DEF ProcessConfig
<1>4. x \in ExitedProcess
    <2>1. EventState(p) \in {"Stopped", "Crashed", "Failed"}
        BY DEF EventState, BaseState
    <2>2. WillRestart(p) \in BOOLEAN
        BY <1>3 DEF WillRestart, RestartTriggered
    <2>. QED  BY <1>2, <2>1, <2>2 DEF ExitedProcess
<1>5. StartsCascade(p) => o \in CascadeOrigin
    BY <1>2, <1>3 DEF StartsCascade, CascadeOrigin
<1>6. b \in Process
    BY <1>1 DEF Process
<1>. HIDE DEF x, o, b
<1>7. exited' \in [ProcessId -> ExitedProcess \cup {NoProcess}]
    BY <1>4 DEF DetectExit, TypeInv, ReaperTypeOK, x
<1>8. origins' \subseteq CascadeOrigin
    BY <1>5 DEF DetectExit, TypeInv, ReaperTypeOK, o
<1>9. processes' \in [ProcessId -> Process \cup {NoProcess}]
    BY <1>6, PutType DEF DetectExit, TypeInv, b
<1>10. p.child \in Pid
    BY <1>1, HandlePid DEF DetectExit, Exited
<1>11. reaped' \subseteq Pid /\ todo' \subseteq ProcessId
    BY <1>10 DEF DetectExit, TypeInv, TableTypeOK, ReaperTypeOK
<1>. QED
    BY <1>7, <1>8, <1>9, <1>11 DEF DetectExit, TypeInv, TableTypeOK, ReaperTypeOK

LEMMA DetectAliveType ==
    ASSUME TypeInv, NEW i \in ProcessId, DetectAlive(i)
    PROVE  TypeInv'
<1>. DEFINE p == check_stable_uptime(processes[i])
<1>1. p \in Process
    BY PresentProcess, StableUptimeType DEF DetectAlive, TypeInv
<1>2. [p EXCEPT !.state = "Running"] \in Process
    BY <1>1 DEF Process, ProcessState
<1>. HIDE DEF p
<1>3. processes' \in [ProcessId -> Process \cup {NoProcess}]
    BY <1>1, <1>2, PutType DEF DetectAlive, TypeInv, p
<1>. QED  BY <1>3 DEF DetectAlive, TypeInv, TableTypeOK, ReaperTypeOK

LEMMA CollectTargetsType ==
    ASSUME TypeInv, CollectTargets
    PROVE  TypeInv'
<1>1. CascadeTargets \subseteq ProcessId
    BY DEF CascadeTargets, InState, Present
<1>2. rpc' \in ReaperStep /\ todo' \subseteq ProcessId
    BY <1>1, PhaseType DEF CollectTargets, ReaperStep
<1>. QED  BY <1>2 DEF CollectTargets, TypeInv, TableTypeOK, ReaperTypeOK

LEMMA FlagTargetType ==
    ASSUME TypeInv, NEW i \in ProcessId, FlagTarget(i)
    PROVE  TypeInv'
<1>1. rpc' \in ReaperStep /\ todo' \subseteq ProcessId
    BY DoneType DEF FlagTarget, ReaperStep
<1>2. CASE processes[i] # NoProcess /\ processes[i].pid # 0
    <2>1. processes[i] \in Process
        BY <1>2 DEF TypeInv, TableTypeOK
    <2>2. processes' \in [ProcessId -> Process \cup {NoProcess}]
        BY <1>2, <2>1, FlaggedType, PutType DEF FlagTarget, TypeInv
    <2>3. doomed' \subseteq Pid
        BY <1>2, <2>1, SignalType DEF FlagTarget, TypeInv, TableTypeOK
    <2>. QED  BY <1>1, <2>2, <2>3 DEF FlagTarget, TypeInv, TableTypeOK, ReaperTypeOK
<1>3. CASE ~(processes[i] # NoProcess /\ processes[i].pid # 0)
    BY <1>1, <1>3 DEF FlagTarget, TypeInv, TableTypeOK, ReaperTypeOK
<1>. QED  BY <1>2, <1>3

LEMMA RemoveExitedType ==
    ASSUME TypeInv, RemoveExited
    PROVE  TypeInv'
BY DEF RemoveExited, Goto, TypeInv, TableTypeOK, ReaperTypeOK, ReaperStep

LEMMA NoneExitedType == NoneExited \in [ProcessId -> ExitedProcess \cup {NoProcess}]
BY DEF NoneExited

LEMMA EmitEventsType ==
    ASSUME TypeInv, EmitEvents
    PROVE  TypeInv'
<1>1. exited' \in [ProcessId -> ExitedProcess \cup {NoProcess}]
    BY NoneExitedType DEF EmitEvents
<1>2. CASE chan_open
    <2>1. ASSUME NEW i \in ProcessId
          PROVE  (IF i \in ToReport
                  THEN Append(events[i], [pid |-> exited[i].pid,
                                          state |-> exited[i].state,
                                          exited |-> TRUE])
                  ELSE events[i]) \in Seq(ProcessExitEvent)
        <3>. DEFINE e == [pid |-> exited[i].pid, state |-> exited[i].state, exited |-> TRUE]
        <3>1. events[i] \in Seq(ProcessExitEvent)
            BY DEF TypeInv, TableTypeOK
        <3>2. exited[i] # NoProcess => e \in ProcessExitEvent
            BY DEF TypeInv, ReaperTypeOK, ExitedProcess, ProcessExitEvent
        <3>. HIDE DEF e
        <3>3. exited[i] # NoProcess => Append(events[i], e) \in Seq(ProcessExitEvent)
            BY <3>1, <3>2
        <3>. QED  BY <3>1, <3>3 DEF e, ToReport
    <2>2. events' \in [ProcessId -> Seq(ProcessExitEvent)]
        BY <1>2, <2>1 DEF EmitEvents
    <2>3. rpc' \in ReaperStep /\ todo' \subseteq ProcessId
        BY <1>2, PhaseType DEF EmitEvents, ToRestart, ReaperStep
    <2>. QED  BY <1>1, <2>2, <2>3 DEF EmitEvents, TypeInv, TableTypeOK, ReaperTypeOK
<1>3. CASE ~chan_open
    BY <1>1, <1>3 DEF EmitEvents, Goto, TypeInv, TableTypeOK, ReaperTypeOK, ReaperStep
<1>. QED  BY <1>2, <1>3

LEMMA ScheduleRestartType ==
    ASSUME TypeInv, NEW i \in ProcessId, ScheduleRestart(i)
    PROVE  TypeInv'
<1>1. rpc' \in ReaperStep /\ todo' \subseteq ProcessId
    BY DoneType DEF ScheduleRestart, ReaperStep
<1>2. CASE processes[i] = NoProcess
    BY <1>1, <1>2 DEF ScheduleRestart, TypeInv, TableTypeOK, ReaperTypeOK
<1>3. CASE processes[i] # NoProcess
    <2>1. processes[i] \in Process
        BY <1>3 DEF TypeInv, TableTypeOK
    <2>2. processes' \in [ProcessId -> Process \cup {NoProcess}]
        BY <1>3, <2>1, ScheduledType, PutType DEF ScheduleRestart, TypeInv
    <2>3. reaped' \subseteq Pid
        BY <1>3, <2>1, CollectedType DEF ScheduleRestart, TypeInv, TableTypeOK
    <2>. QED  BY <1>1, <2>2, <2>3 DEF ScheduleRestart, TypeInv, TableTypeOK, ReaperTypeOK
<1>. QED  BY <1>2, <1>3

LEMMA ScheduleBlocksType ==
    ASSUME TypeInv, NEW i \in ProcessId, ScheduleBlocks(i)
    PROVE  TypeInv'
<1>1. i \in 0 .. MaxId
    BY IdRange
<1>. QED
    BY <1>1 DEF ScheduleBlocks, Goto, TypeInv, TableTypeOK, ReaperTypeOK, ReaperStep

LEMMA ScheduleResumesType ==
    ASSUME TypeInv, ReaperWaits => cur \in Present, ScheduleResumes
    PROVE  TypeInv'
<1>1. processes[cur] \in Process
    BY PresentProcess DEF ScheduleResumes, In, ReaperWaits, TypeInv
<1>2. processes' \in [ProcessId -> Process \cup {NoProcess}]
    BY <1>1, ScheduledType, PutType DEF ScheduleResumes, TypeInv
<1>3. reaped' \subseteq Pid
    BY <1>1, CollectedType DEF ScheduleResumes, TypeInv, TableTypeOK
<1>4. 0 \in 0 .. MaxId
    BY BoundsAssumption
<1>. QED
    BY <1>2, <1>3, <1>4
    DEF ScheduleResumes, Goto, TypeInv, TableTypeOK, ReaperTypeOK, ReaperStep

LEMMA CollectEligibleType ==
    ASSUME TypeInv, CollectEligible
    PROVE  TypeInv'
<1>1. rpc' \in ReaperStep /\ todo' \subseteq ProcessId
    BY PhaseType DEF CollectEligible, InState, Present, ReaperStep
<1>. QED  BY <1>1 DEF CollectEligible, TypeInv, TableTypeOK, ReaperTypeOK

LEMMA RemoveFailedType ==
    ASSUME TypeInv, NEW i \in Present, RemoveFailed(i)
    PROVE  /\ processes' \in [ProcessId -> Process \cup {NoProcess}]
           /\ events' \in [ProcessId -> Seq(ProcessExitEvent)]
<1>1. processes[i] \in Process
    BY PresentProcess DEF TypeInv
<1>2. processes[i].pid \in 0 .. MaxPid
    BY <1>1 DEF Process
<1>. QED  BY <1>2, PutType, EmitType DEF RemoveFailed, TypeInv

LEMMA RestartSkipsType ==
    ASSUME TypeInv, NEW i \in ProcessId, RestartSkips(i)
    PROVE  TypeInv'
<1>1. rpc' \in ReaperStep /\ todo' \subseteq ProcessId
    BY DoneType DEF RestartSkips, ReaperStep
<1>. QED  BY <1>1 DEF RestartSkips, TypeInv, TableTypeOK, ReaperTypeOK

LEMMA RestartSpawnsType ==
    ASSUME TypeInv, NEW i \in ProcessId, RestartSpawns(i)
    PROVE  TypeInv'
<1>. DEFINE p == processes[i]
<1>1. rpc' \in ReaperStep /\ todo' \subseteq ProcessId
    BY DoneType DEF RestartSpawns, ReaperStep
<1>2. p \in Process
    BY PresentProcess DEF RestartSpawns, TypeInv
<1>3. /\ p.config \in Configs /\ p.resolved_deps \in Seq(ProcessId)
      /\ p.pid \in 0 .. MaxPid
    BY <1>2 DEF Process
<1>4. PICK deps \in resolve_dependencies(p.config.depends_on) :
        /\ \/ \E q \in Pid :
                /\ SpawnOk(q)
                /\ processes' = [PollAll(Visited(deps)) EXCEPT
                      ![i] = Respawned(p, q, IF deps = <<>> THEN p.resolved_deps
                                             ELSE deps)]
                /\ UNCHANGED events
           \/ /\ SpawnFails
              /\ processes' = [PollAll(Visited(deps)) EXCEPT ![i] = NoProcess]
              /\ Emit(i, p.pid, "Failed")
        /\ reaped' = reaped \cup PollAllReaps(Visited(deps))
    BY DEF RestartSpawns, BindingsBelow
<1>5. deps \in Seq(ProcessId)
    BY <1>3, BindingType
<1>6. TableTypeOK
    BY DEF TypeInv
<1>7. /\ PollAll(Visited(deps)) \in [ProcessId -> Process \cup {NoProcess}]
      /\ PollAllReaps(Visited(deps)) \subseteq Pid
    BY <1>5, <1>6, VisitedType, PollAllType
<1>8. reaped' \subseteq Pid
    BY <1>4, <1>6, <1>7 DEF TableTypeOK
<1>9. /\ processes' \in [ProcessId -> Process \cup {NoProcess}]
      /\ os' \in [Pid -> {"unborn", "alive", "ok", "err"}]
      /\ events' \in [ProcessId -> Seq(ProcessExitEvent)]
    <2>. DEFINE new == IF deps = <<>> THEN p.resolved_deps ELSE deps
    <2>1. ASSUME NEW q \in Pid, SpawnOk(q), UNCHANGED events,
                 processes' = [PollAll(Visited(deps)) EXCEPT ![i] = Respawned(p, q, new)]
          PROVE  <1>9!1 /\ <1>9!2 /\ <1>9!3
        <3>1. new \in Seq(ProcessId)
            BY <1>3, <1>5
        <3>. HIDE DEF new
        <3>2. Respawned(p, q, new) \in Process
            BY <1>2, <3>1, RespawnedType
        <3>3. processes' \in [ProcessId -> Process \cup {NoProcess}]
            BY <1>7, <2>1, <3>2
        <3>4. os' \in [Pid -> {"unborn", "alive", "ok", "err"}]
            BY <1>6, <2>1, SpawnType
        <3>. QED  BY <1>6, <2>1, <3>3, <3>4 DEF TableTypeOK
    <2>2. ASSUME SpawnFails, Emit(i, p.pid, "Failed"),
                 processes' = [PollAll(Visited(deps)) EXCEPT ![i] = NoProcess]
          PROVE  <1>9!1 /\ <1>9!2 /\ <1>9!3
        <3>1. processes' \in [ProcessId -> Process \cup {NoProcess}]
            BY <1>7, <2>2
        <3>2. os' \in [Pid -> {"unborn", "alive", "ok", "err"}]
            BY <1>6, <2>2, SpawnType
        <3>3. events' \in [ProcessId -> Seq(ProcessExitEvent)]
            BY <1>3, <1>6, <2>2, EmitType
        <3>. QED  BY <3>1, <3>2, <3>3
    <2>. QED  BY <1>4, <2>1, <2>2
<1>. QED  BY <1>1, <1>8, <1>9 DEF RestartSpawns, TypeInv, TableTypeOK, ReaperTypeOK

LEMMA RestartWaitsType ==
    ASSUME TypeInv, NEW i \in ProcessId, RestartWaits(i)
    PROVE  TypeInv'
<1>. DEFINE p == processes[i]
<1>1. rpc' \in ReaperStep /\ todo' \subseteq ProcessId
    BY DoneType DEF RestartWaits, ReaperStep
<1>2. p \in Process /\ p.config \in Configs
    BY PresentProcess DEF RestartWaits, TypeInv, Process
<1>3. PICK deps \in resolve_dependencies(p.config.depends_on) :
        /\ processes' = [PollAll(Visited(deps)) EXCEPT ![i] = Requeued(p, deps)]
        /\ reaped' = reaped \cup PollAllReaps(Visited(deps))
    BY DEF RestartWaits, BindingsBelow
<1>4. deps \in Seq(ProcessId)
    BY <1>2, BindingType
<1>5. /\ PollAll(Visited(deps)) \in [ProcessId -> Process \cup {NoProcess}]
      /\ PollAllReaps(Visited(deps)) \subseteq Pid
    BY <1>4, VisitedType, PollAllType DEF TypeInv
<1>6. Requeued(p, deps) \in Process
    BY <1>2, <1>4, RequeuedType
<1>7. processes' \in [ProcessId -> Process \cup {NoProcess}]
    BY <1>3, <1>5, <1>6
<1>8. reaped' \subseteq Pid
    BY <1>3, <1>5 DEF TypeInv, TableTypeOK
<1>. QED  BY <1>1, <1>7, <1>8 DEF RestartWaits, TypeInv, TableTypeOK, ReaperTypeOK

LEMMA RestartWedgesType ==
    ASSUME TypeInv, NEW i \in ProcessId, RestartWedges(i)
    PROVE  TypeInv'
BY DEF RestartWedges, Goto, TypeInv, TableTypeOK, ReaperTypeOK, ReaperStep

LEMMA CollectWaitingType ==
    ASSUME TypeInv, CollectWaiting
    PROVE  TypeInv'
<1>1. rpc' \in ReaperStep /\ todo' \subseteq ProcessId
    BY PhaseType DEF CollectWaiting, InState, Present, ReaperStep
<1>. QED  BY <1>1 DEF CollectWaiting, TypeInv, TableTypeOK, ReaperTypeOK

LEMMA NextCheckType ==
    ASSUME TypeInv, NEW i \in ProcessId, NEW spawn, NEW fail, NextCheck(i, spawn, fail)
    PROVE  /\ rpc' \in ReaperStep /\ todo' \subseteq ProcessId
           /\ to_spawn' \subseteq ProcessId /\ to_fail' \subseteq ProcessId
BY DEF NextCheck, Goto, TypeInv, ReaperTypeOK, ReaperStep

\* Only finitely many dependencies are bound at a time.
LEMMA NewlyResolvedType ==
    ASSUME NEW p \in Process, NEW s \in NewlyResolved(p)
    PROVE  s \in Seq(ProcessId)
<1>1. p.config.depends_on \in Seq(DependencyRef)
    BY ConfigsAssumption DEF Process, ProcessConfig
<1>. DEFINE n == Len(p.config.depends_on)
<1>2. DOMAIN p.config.depends_on = 1 .. n /\ n \in Nat
    BY <1>1
<1>3. IsFiniteSet(1 .. n)
    BY <1>2, FS_Interval
<1>4. Bindable(p) \subseteq 1 .. n
    BY <1>2 DEF Bindable, Unresolved
<1>5. Cardinality(Bindable(p)) \in Nat
    BY <1>3, <1>4, FS_Subset, FS_CardinalityType
<1>6. s \in [1 .. Cardinality(Bindable(p)) -> ProcessId]
    BY DEF NewlyResolved
<1>. QED  BY <1>5, <1>6

LEMMA CheckWaitingType ==
    ASSUME TypeInv, NEW i \in ProcessId, CheckWaiting(i)
    PROVE  TypeInv'
<1>. DEFINE p == processes[i]
<1>1. (\E spawn, fail : NextCheck(i, spawn, fail))
      /\ \/ UNCHANGED processes
         \/ p # NoProcess /\ \E newly \in NewlyResolved(p) :
                Put(i, [p EXCEPT !.resolved_deps = @ \o newly])
    BY DEF CheckWaiting
<1>2. /\ rpc' \in ReaperStep /\ todo' \subseteq ProcessId
      /\ to_spawn' \subseteq ProcessId /\ to_fail' \subseteq ProcessId
    BY <1>1, NextCheckType
<1>3. ASSUME p # NoProcess, NEW newly \in NewlyResolved(p),
             Put(i, [p EXCEPT !.resolved_deps = @ \o newly])
      PROVE  processes' \in [ProcessId -> Process \cup {NoProcess}]
    <2>. DEFINE deps == p.resolved_deps \o newly
    <2>1. p \in Process
        BY <1>3 DEF TypeInv, TableTypeOK
    <2>2. p.resolved_deps \in Seq(ProcessId) /\ newly \in Seq(ProcessId)
        BY <2>1, NewlyResolvedType DEF Process
    <2>3. deps \in Seq(ProcessId)
        BY <2>2
    <2>4. Put(i, [p EXCEPT !.resolved_deps = deps])
        BY <1>3
    <2>. HIDE DEF deps
    <2>5. [p EXCEPT !.resolved_deps = deps] \in Process
        BY <2>1, <2>3 DEF Process
    <2>. QED  BY <2>4, <2>5, PutType DEF TypeInv
<1>4. processes' \in [ProcessId -> Process \cup {NoProcess}]
    BY <1>1, <1>3 DEF TypeInv, TableTypeOK
<1>. QED  BY <1>2, <1>4 DEF CheckWaiting, TypeInv, TableTypeOK, ReaperTypeOK

LEMMA SpawnWaitingType ==
    ASSUME TypeInv, NEW i \in ProcessId, SpawnWaiting(i)
    PROVE  TypeInv'
<1>. DEFINE p == processes[i]
<1>1. rpc' \in ReaperStep /\ to_spawn' \subseteq ProcessId
    BY DEF SpawnWaiting, Goto, TypeInv, ReaperTypeOK, ReaperStep
<1>2. /\ processes' \in [ProcessId -> Process \cup {NoProcess}]
      /\ os' \in [Pid -> {"unborn", "alive", "ok", "err"}]
      /\ events' \in [ProcessId -> Seq(ProcessExitEvent)]
    <2>1. CASE p = NoProcess
        BY <2>1 DEF SpawnWaiting, TypeInv, TableTypeOK
    <2>2. CASE p # NoProcess
        <3>1. p \in Process /\ i \in Present
            BY <2>2 DEF TypeInv, TableTypeOK, Present
        <3>2. ASSUME NEW q \in Pid, SpawnOk(q), Put(i, SpawnedWaiting(p, q)),
                     UNCHANGED events
              PROVE  <1>2!1 /\ <1>2!2 /\ <1>2!3
            <4>1. processes' \in [ProcessId -> Process \cup {NoProcess}]
                BY <3>1, <3>2, SpawnedWaitingType, PutType DEF TypeInv
            <4>2. os' \in [Pid -> {"unborn", "alive", "ok", "err"}]
                BY <3>2, SpawnType DEF TypeInv
            <4>. QED  BY <3>2, <4>1, <4>2 DEF TypeInv, TableTypeOK
        <3>3. ASSUME SpawnFails, RemoveFailed(i)
              PROVE  <1>2!1 /\ <1>2!2 /\ <1>2!3
            <4>1. os' \in [Pid -> {"unborn", "alive", "ok", "err"}]
                BY <3>3, SpawnType DEF TypeInv
            <4>. QED  BY <3>1, <3>3, <4>1, RemoveFailedType
        <3>. QED  BY <2>2, <3>2, <3>3 DEF SpawnWaiting
    <2>. QED  BY <2>1, <2>2
<1>. QED  BY <1>1, <1>2 DEF SpawnWaiting, TypeInv, TableTypeOK, ReaperTypeOK

LEMMA FailWaitingType ==
    ASSUME TypeInv, NEW i \in ProcessId, FailWaiting(i)
    PROVE  TypeInv'
<1>1. rpc' \in ReaperStep /\ to_fail' \subseteq ProcessId
    BY DEF FailWaiting, Goto, TypeInv, ReaperTypeOK, ReaperStep
<1>2. /\ processes' \in [ProcessId -> Process \cup {NoProcess}]
      /\ events' \in [ProcessId -> Seq(ProcessExitEvent)]
    BY RemoveFailedType DEF FailWaiting, TypeInv, TableTypeOK, Present
<1>. QED  BY <1>1, <1>2 DEF FailWaiting, TypeInv, TableTypeOK, ReaperTypeOK

LEMMA AfterCycleType == AfterCycle \in ReaperStep
BY DEF AfterCycle, ReaperStep

LEMMA CollectRunningType ==
    ASSUME TypeInv, CollectRunning
    PROVE  TypeInv'
<1>1. {i \in InState({"Running"}) : processes[i].resolved_deps # <<>>} \subseteq ProcessId
    BY DEF InState, Present
<1>2. "failfast" \in ReaperStep
    BY DEF ReaperStep
<1>3. rpc' \in ReaperStep /\ todo' \subseteq ProcessId
    BY <1>1, <1>2, PhaseType, AfterCycleType DEF CollectRunning
<1>. QED  BY <1>3 DEF CollectRunning, TypeInv, TableTypeOK, ReaperTypeOK

LEMMA FailRunningType ==
    ASSUME TypeInv, NEW i \in ProcessId, FailRunning(i)
    PROVE  TypeInv'
<1>. DEFINE p == processes[i]
            fails == p # NoProcess /\ any_dep_terminal(p.resolved_deps)
<1>1. rpc' \in ReaperStep /\ todo' \subseteq ProcessId
    <2>1. Done(i, AfterCycle) \/ (Goto("done") /\ UNCHANGED todo)
        BY DEF FailRunning
    <2>. QED
        BY <2>1, DoneType, AfterCycleType DEF Goto, TypeInv, ReaperTypeOK, ReaperStep
<1>2. CASE fails
    <2>1. p \in Process /\ i \in Present
        BY <1>2 DEF TypeInv, TableTypeOK, Present
    <2>2. doomed' \subseteq Pid
        BY <1>2, <2>1, SignalType DEF FailRunning, TypeInv, TableTypeOK
    <2>3. /\ processes' \in [ProcessId -> Process \cup {NoProcess}]
          /\ events' \in [ProcessId -> Seq(ProcessExitEvent)]
        BY <1>2, <2>1, RemoveFailedType DEF FailRunning
    <2>. QED  BY <1>1, <2>2, <2>3 DEF FailRunning, TypeInv, TableTypeOK, ReaperTypeOK
<1>3. CASE ~fails
    BY <1>1, <1>3 DEF FailRunning, TypeInv, TableTypeOK, ReaperTypeOK
<1>. QED  BY <1>2, <1>3

LEMMA ReaperType ==
    ASSUME TypeInv, ReaperWaits => cur \in Present, ReaperNext
    PROVE  TypeInv'
BY BeginCycleType, EndDetectType, CollectTargetsType, RemoveExitedType, EmitEventsType,
   CollectEligibleType, CollectWaitingType, CollectRunningType, ScheduleResumesType,
   DetectExitType, DetectAliveType, FlagTargetType, ScheduleRestartType,
   ScheduleBlocksType, RestartSkipsType, RestartSpawnsType, RestartWaitsType,
   RestartWedgesType, CheckWaitingType, SpawnWaitingType, FailWaitingType,
   FailRunningType
DEF ReaperNext

-----------------------------------------------------------------------------
(* Every step preserves the types.                                         *)

LEMMA CallType ==
    ASSUME TypeInv, NEW t \in Threads, Calls(t)
    PROVE  TypeInv'
BY StartCallType, StopCallType, StopManyCallType, RestartCallType, PollType,
   DropManagerType, SendSignalType
DEF Calls, CallNext

LEMMA StepType ==
    ASSUME TypeInv, NEW t \in Threads, Steps(t)
    PROVE  TypeInv'
BY StartSpawnType, StartWaitingType, AwaitType, StopCheckType, StopCancelType,
   StopUnqueueType, StopRemoveType, StopEscalateType, StopReapType,
   StopManyRemoveType, StopManySignalType, StopManyEscalateType, StopManyReapType,
   RestartCheckType, RestartBlocksType, RestartResetType, RestartInPlaceType,
   RestartInsertType, DropStopType
DEF Steps, StepNext

LEMMA ExitsType ==
    ASSUME TypeInv, NEW q \in Pid, Exits(q)
    PROVE  TypeInv'
<1>1. os' \in [Pid -> {"unborn", "alive", "ok", "err"}]
    BY EnvironmentAssumption DEF Exits, ChildExits, TypeInv, TableTypeOK
<1>. QED
    BY <1>1 DEF Exits, ChildExits, TypeInv, TableTypeOK, ReaperTypeOK, reaperVars

\* What the clock changes of an entry.
LEMMA TickType ==
    ASSUME NEW p \in Process
    PROVE  /\ [p EXCEPT !.backoff = "elapsed"] \in Process
           /\ [p EXCEPT !.stable = TRUE] \in Process
           /\ [p EXCEPT !.expired = TRUE] \in Process
BY DEF Process

Ticks(i) == BackoffElapses(i) \/ UptimeReached(i) \/ DependencyExpires(i)

LEMMA TicksType ==
    ASSUME TypeInv, NEW i \in ProcessId, Ticks(i)
    PROVE  TypeInv'
<1>1. i \in Present
    BY DEF Ticks, BackoffElapses, UptimeReached, DependencyExpires, InState
<1>2. processes[i] \in Process
    BY <1>1, PresentProcess DEF TypeInv
<1>3. PICK b \in Process : Put(i, b)
    BY <1>2, TickType DEF Ticks, BackoffElapses, UptimeReached, DependencyExpires
<1>4. processes' \in [ProcessId -> Process \cup {NoProcess}]
    BY <1>3, PutType DEF TypeInv
<1>5. UNCHANGED <<next_id, next_spawn_sequence, locks, osVars, eventVars, managerVars,
                  reaperVars>>
    BY DEF Ticks, BackoffElapses, UptimeReached, DependencyExpires
<1>. QED  BY <1>4, <1>5 DEF TypeInv, TableTypeOK, ReaperTypeOK, reaperVars

-----------------------------------------------------------------------------
(* Every step respects the guards of the blocked threads.                  *)

\* An entry whose guard a thread holds stays in the map.
EntriesKept == \A i \in Present : ~Free(i) => processes'[i] # NoProcess

\* A step that takes or gives back no guard and puts nobody to wait.
LEMMA GuardFrame ==
    ASSUME TypeInv, GuardInv, EntriesKept, UNCHANGED locks,
           \A t \in Threads : Waits(t)' => Waits(t) /\ calls'[t].id = calls[t].id,
           ReaperWaits' => ReaperWaits /\ UNCHANGED cur
    PROVE  GuardInv'
<1>1. \A i \in Present : Shard[i] \in locks => i \in Present'
    BY DEF EntriesKept, Present, Free
<1>2. ReaperWaits' => (cur \in Present /\ Shard[cur] \in locks)'
    BY <1>1 DEF GuardInv
<1>3. ASSUME NEW t \in Threads, Waits(t)'
      PROVE  /\ (calls[t].id \in Present /\ Shard[calls[t].id] \in locks)'
             /\ ReaperWaits' => (Shard[calls[t].id] # Shard[cur])'
             /\ \A u \in Threads \ {t} : Waits(u)' =>
                     (Shard[calls[t].id] # Shard[calls[u].id])'
    BY <1>1, <1>3 DEF GuardInv
<1>. QED  BY <1>2, <1>3 DEF GuardInv

\* The step of a client thread that does not wait afterwards.
NotWaiting(t) ==
    /\ calls'[t].pc # "restart_wait"
    /\ \A u \in Threads \ {t} : calls'[u] = calls[u]

LEMMA ClientFrame ==
    ASSUME TypeInv, GuardInv, EntriesKept, NEW t \in Threads, NotWaiting(t),
           UNCHANGED <<locks, rpc, cur>>
    PROVE  GuardInv'
<1>1. \A u \in Threads : Waits(u)' => Waits(u) /\ calls'[u].id = calls[u].id
    BY DEF NotWaiting, Waits, At
<1>2. ReaperWaits' => ReaperWaits /\ UNCHANGED cur
    BY DEF ReaperWaits
<1>. QED  BY <1>1, <1>2, GuardFrame

\* A step of the reaper that does not wait afterwards.
LEMMA ReaperFrame ==
    ASSUME TypeInv, GuardInv, EntriesKept, UNCHANGED <<locks, calls>>,
           rpc' # "schedule_wait"
    PROVE  GuardInv'
<1>1. \A u \in Threads : Waits(u)' => Waits(u) /\ calls'[u].id = calls[u].id
    BY DEF Waits, At
<1>2. ReaperWaits' => ReaperWaits /\ UNCHANGED cur
    BY DEF ReaperWaits
<1>. QED  BY <1>1, <1>2, GuardFrame

LEMMA BecomesNotWaiting ==
    ASSUME TypeInv, NEW t \in Threads, NEW c, c.pc # "restart_wait", Becomes(t, c)
    PROVE  NotWaiting(t)
BY DEF TypeInv, Becomes, NotWaiting

LEMMA ReturnNotWaiting ==
    ASSUME TypeInv, NEW t \in Threads, Return(t)
    PROVE  NotWaiting(t)
BY DEF Idle, Return, TypeInv, Becomes, NotWaiting

LEMMA StoppedNotWaiting ==
    ASSUME TypeInv, NEW t \in Threads, NEW s, Stopped(t, s)
    PROVE  NotWaiting(t)
<1>1. calls[t] \in Call
    BY CallRecord DEF TypeInv
<1>2. [calls[t] EXCEPT !.pc = "stop_check", !.cur = Head(s), !.todo = Tail(s),
                       !.nested = TRUE, !.held = NoneHeld].pc = "stop_check"
      /\ [calls[t] EXCEPT !.pc = "restart_insert", !.nested = FALSE,
                          !.held = NoneHeld].pc = "restart_insert"
    BY <1>1 DEF Call
<1>. QED  BY <1>2, BecomesNotWaiting, ReturnNotWaiting DEF Stopped

LEMMA StopFailedNotWaiting ==
    ASSUME TypeInv, NEW t \in Threads, StopFailed(t)
    PROVE  NotWaiting(t)
BY StoppedNotWaiting, ReturnNotWaiting DEF StopFailed

LEMMA RestartedNotWaiting ==
    ASSUME TypeInv, NEW t \in Threads, Restarted(t)
    PROVE  NotWaiting(t)
<1>1. [Idle EXCEPT !.pc = "restart_check", !.op = "restart",
                   !.ids = calls[t].ids].pc = "restart_check"
    BY DEF Idle
<1>. QED  BY <1>1, BecomesNotWaiting, ReturnNotWaiting DEF Restarted

LEMMA SameKept ==
    ASSUME UNCHANGED processes
    PROVE  EntriesKept
BY DEF EntriesKept, Present

LEMMA PutKept ==
    ASSUME TypeInv, NEW i, Free(i), NEW p, Put(i, p)
    PROVE  EntriesKept
BY DEF EntriesKept, Present, Put, TypeInv, TableTypeOK

LEMMA NoneIsNoProcess == \A p \in Process : p # NoProcess
BY NoProcessAssumption

LEMMA PollAllKept ==
    ASSUME TypeInv, NEW S, NEW j \in Present
    PROVE  PollAll(S)[j] # NoProcess
<1>1. j \in ProcessId /\ processes[j] \in Process
    BY PresentProcess DEF TypeInv
<1>. QED  BY <1>1, PolledType, NoneIsNoProcess DEF PollAll

LEMMA PollAllPutKept ==
    ASSUME TypeInv, NEW S, NEW i, Free(i), NEW p,
           processes' = [PollAll(S) EXCEPT ![i] = p]
    PROVE  EntriesKept
<1>1. ASSUME NEW j \in Present, ~Free(j)
      PROVE  processes'[j] # NoProcess
    <2>1. j # i /\ j \in ProcessId
        BY <1>1 DEF Present
    <2>2. processes'[j] = PollAll(S)[j]
        BY <2>1 DEF PollAll
    <2>. QED  BY <2>2, PollAllKept
<1>. QED  BY <1>1 DEF EntriesKept

LEMMA CallGuard ==
    ASSUME IInv, NEW t \in Threads, Calls(t)
    PROVE  GuardInv'
<1>. USE DEF IInv
<1>1. EntriesKept
    <2>1. CASE Poll(t)
        BY <2>1, PutKept DEF Poll
    <2>2. CASE ~Poll(t)
        <3>1. UNCHANGED processes
            BY <2>2 DEF Calls, CallNext, StartCall, StopCall, StopManyCall, RestartCall,
                        DropManager, SendSignal
        <3>. QED  BY <3>1, SameKept
    <2>. QED  BY <2>1, <2>2
<1>2. NotWaiting(t)
    <2>1. At(t, "idle")
        BY DEF Calls, CallNext, StartCall, StopCall, StopManyCall, RestartCall,
               Poll, DropManager, SendSignal, May
    <2>2. CASE UNCHANGED calls
        BY <2>1, <2>2 DEF NotWaiting, At
    <2>3. ASSUME NEW c, Becomes(t, c), c.pc # "restart_wait"
          PROVE  NotWaiting(t)
        BY <2>3, BecomesNotWaiting
    <2>4. CASE StartCall(t)
        <3>1. PICK op \in {"start", "start_with_deps"}, c \in Configs, cycle \in BOOLEAN :
                IF cycle THEN UNCHANGED calls
                ELSE Becomes(t, [Idle EXCEPT !.pc = "start_insert", !.op = op,
                                             !.id = next_id, !.config = c])
            BY <2>4 DEF StartCall
        <3>. QED  BY <2>2, <2>3, <3>1 DEF Idle
    <2>5. CASE StopCall(t) \/ StopManyCall(t) \/ RestartCall(t) \/ DropManager(t)
        BY <2>3, <2>5 DEF StopCall, StopManyCall, RestartCall, DropManager, Idle
    <2>6. CASE Poll(t) \/ \E i \in ProcessId : SendSignal(t, i)
        BY <2>2, <2>6 DEF Poll, SendSignal
    <2>. QED  BY <2>4, <2>5, <2>6 DEF Calls, CallNext
<1>3. UNCHANGED <<locks, rpc, cur>>
    BY DEF Calls, CallNext, StartCall, StopCall, StopManyCall, RestartCall,
           Poll, DropManager, SendSignal
<1>. QED  BY <1>1, <1>2, <1>3, ClientFrame

\* The steps that neither take nor give back a guard.
PlainStep(t) ==
    \/ StartSpawn(t) \/ StartWaiting(t) \/ AwaitReturn(t) \/ AwaitTimeout(t)
    \/ StopCheck(t) \/ StopCancel(t) \/ StopUnqueue(t) \/ StopRemove(t)
    \/ StopEscalate(t) \/ StopReap(t)
    \/ StopManyRemove(t) \/ StopManySignal(t) \/ StopManyEscalate(t)
    \/ StopManyReap(t)
    \/ RestartCheck(t) \/ RestartInPlace(t) \/ RestartInsert(t)
    \/ DropStop(t)

LEMMA PlainStepKept ==
    ASSUME TypeInv, NEW t \in Threads, PlainStep(t)
    PROVE  EntriesKept
<1>1. CASE StartSpawn(t)
    <2>1. PICK deps \in resolve_dependencies(calls[t].config.depends_on) :
             \/ \E p : processes' = [PollAll(Visited(deps)) EXCEPT ![calls[t].id] = p]
             \/ processes' = PollAll(Visited(deps))
        BY <1>1 DEF StartSpawn
    <2>2. Free(calls[t].id)
        BY <1>1 DEF StartSpawn
    <2>. QED  BY <2>1, <2>2, PollAllPutKept, PollAllKept DEF EntriesKept
<1>2. CASE StartWaiting(t)
    <2>1. locks = {}
        BY <1>2 DEF StartWaiting, AllFree
    <2>. QED  BY <2>1 DEF EntriesKept, Free
<1>3. CASE AwaitTimeout(t)
    BY <1>3, PutKept, SameKept DEF AwaitTimeout
<1>4. CASE StopCancel(t) \/ StopUnqueue(t) \/ StopRemove(t)
    BY <1>4, PutKept DEF StopCancel, StopUnqueue, StopRemove
<1>5. CASE StopManyRemove(t)
    BY <1>5, PutKept DEF StopManyRemove
<1>6. CASE StopManyReap(t)
    <2>1. \A i \in Reinserted(t) : Free(i)
        BY <1>6 DEF StopManyReap
    <2>2. \A i \in ProcessId \ Reinserted(t) : processes'[i] = processes[i]
        BY <1>6 DEF StopManyReap
    <2>. QED  BY <2>1, <2>2 DEF EntriesKept, Present
<1>7. CASE RestartInPlace(t)
    <2>1. Free(calls[t].id)
        BY <1>7 DEF RestartInPlace
    <2>2. UNCHANGED processes \/ \E p : Put(calls[t].id, p)
        BY <1>7 DEF RestartInPlace
    <2>. QED  BY <2>1, <2>2, PutKept, SameKept
<1>8. CASE RestartInsert(t)
    <2>1. Free(calls[t].id)
        BY <1>8 DEF RestartInsert
    <2>2. UNCHANGED processes \/ \E p : Put(calls[t].id, p)
        BY <1>8 DEF RestartInsert
    <2>. QED  BY <2>1, <2>2, PutKept, SameKept
<1>9. CASE AwaitReturn(t) \/ StopCheck(t) \/ StopEscalate(t) \/ StopReap(t)
             \/ StopManySignal(t) \/ StopManyEscalate(t) \/ RestartCheck(t) \/ DropStop(t)
    <2>1. UNCHANGED processes
        BY <1>9 DEF AwaitReturn, StopCheck, StopEscalate, StopReap, StopManySignal,
                    StopManyEscalate, RestartCheck, DropStop
    <2>. QED  BY <2>1, SameKept
<1>. QED
    BY <1>1, <1>2, <1>3, <1>4, <1>5, <1>6, <1>7, <1>8, <1>9 DEF PlainStep

LEMMA PlainStepNotWaiting ==
    ASSUME TypeInv, NEW t \in Threads, PlainStep(t)
    PROVE  NotWaiting(t)
<1>. DEFINE k == calls[t]
<1>1. k \in Call
    BY CallRecord DEF TypeInv
<1>2. ASSUME NEW c, Becomes(t, c), c.pc # "restart_wait"
      PROVE  NotWaiting(t)
    BY <1>2, BecomesNotWaiting
<1>3. CASE StartSpawn(t) \/ AwaitReturn(t) \/ AwaitTimeout(t) \/ StopManyReap(t)
    BY <1>3, ReturnNotWaiting DEF StartSpawn, AwaitReturn, AwaitTimeout, StopManyReap
<1>4. CASE StartWaiting(t)
    <2>1. [k EXCEPT !.pc = "await_deps"].pc = "await_deps"
        BY <1>1 DEF Call
    <2>2. Return(t) \/ Becomes(t, [k EXCEPT !.pc = "await_deps"])
        BY <1>4 DEF StartWaiting
    <2>. QED  BY <1>2, <2>1, <2>2, ReturnNotWaiting
<1>5. CASE StopCheck(t)
    <2>. DEFINE p == processes[k.cur]
                pc == IF p.state = "Restarting" THEN "stop_cancel"
                      ELSE IF p.state = "Waiting" THEN "stop_unqueue" ELSE "stop_remove"
                n == [k EXCEPT !.pc = pc, !.pid = p.pid, !.cascade = p.config.cascade_stop]
    <2>1. n.pc = pc
        BY <1>1 DEF Call
    <2>2. StopFailed(t) \/ Becomes(t, n)
        BY <1>5 DEF StopCheck
    <2>3. pc # "restart_wait"
        OBVIOUS
    <2>. HIDE DEF n, pc
    <2>4. Becomes(t, n) => NotWaiting(t)
        BY <1>2, <2>1, <2>3
    <2>. QED  BY <2>2, <2>4, StopFailedNotWaiting
<1>6. CASE StopCancel(t) \/ StopUnqueue(t) \/ StopReap(t)
    BY <1>6, StoppedNotWaiting DEF StopCancel, StopUnqueue, StopReap
<1>7. CASE StopRemove(t)
    <2>. DEFINE p == processes[k.cur]
                n == [k EXCEPT !.pc = "stop_grace",
                               !.held[k.cur] = [p EXCEPT !.state = "Stopping"]]
    <2>1. n.pc = "stop_grace"
        BY <1>1 DEF Call
    <2>2. StopFailed(t) \/ Becomes(t, n) \/ Stopped(t, k.todo)
        BY <1>7 DEF StopRemove, KillResult
    <2>. QED  BY <1>2, <2>1, <2>2, StopFailedNotWaiting, StoppedNotWaiting
<1>8. CASE StopEscalate(t)
    <2>1. [k EXCEPT !.pc = "stop_reap"].pc = "stop_reap"
        BY <1>1 DEF Call
    <2>2. Stopped(t, k.todo) \/ Becomes(t, [k EXCEPT !.pc = "stop_reap"])
        BY <1>8 DEF StopEscalate
    <2>. QED  BY <1>2, <2>1, <2>2, StoppedNotWaiting
<1>9. CASE StopManyRemove(t)
    <2>1. \A pc, ids, held : [k EXCEPT !.pc = pc, !.ids = ids, !.held = held].pc = pc
        BY <1>1 DEF Call
    <2>2. Return(t) \/ \E ids, held : \E pc \in {"many_signal", "many_remove"} :
                Becomes(t, [k EXCEPT !.pc = pc, !.ids = ids, !.held = held])
        BY <1>9 DEF StopManyRemove
    <2>. QED  BY <1>2, <2>1, <2>2, ReturnNotWaiting
<1>10. CASE StopManySignal(t) \/ StopManyEscalate(t)
    <2>1. \A pc, held : [k EXCEPT !.pc = pc, !.held = held].pc = pc
        BY <1>1 DEF Call
    <2>2. \E held : \E pc \in {"many_grace", "many_reap"} :
                Becomes(t, [k EXCEPT !.pc = pc, !.held = held])
        BY <1>10 DEF StopManySignal, StopManyEscalate
    <2>. QED  BY <1>2, <2>1, <2>2
<1>11. CASE RestartCheck(t)
    <2>1. PICK i \in k.ids :
            IF processes[i] = NoProcess THEN Return(t)
            ELSE Becomes(t, [k EXCEPT
                     !.pc = IF processes[i].state = "Restarting" THEN "restart_reset"
                            ELSE "stop_check",
                     !.id = i, !.cur = i, !.config = processes[i].config,
                     !.ids = @ \ {i}])
        BY <1>11 DEF RestartCheck
    <2>. DEFINE pc == IF processes[i].state = "Restarting" THEN "restart_reset"
                      ELSE "stop_check"
                n == [k EXCEPT !.pc = pc, !.id = i, !.cur = i,
                               !.config = processes[i].config, !.ids = @ \ {i}]
    <2>2. n.pc = pc
        BY <1>1 DEF Call
    <2>3. Return(t) \/ Becomes(t, n)
        BY <2>1
    <2>4. pc # "restart_wait"
        OBVIOUS
    <2>. HIDE DEF n, pc
    <2>5. Becomes(t, n) => NotWaiting(t)
        BY <1>2, <2>2, <2>4
    <2>. QED  BY <2>3, <2>5, ReturnNotWaiting
<1>12. CASE RestartInPlace(t) \/ RestartInsert(t)
    BY <1>12, ReturnNotWaiting, RestartedNotWaiting DEF RestartInPlace, RestartInsert
<1>13. CASE DropStop(t)
    <2>1. \A ids : [k EXCEPT !.pc = "many_remove", !.ids = ids].pc = "many_remove"
        BY <1>1 DEF Call
    <2>2. Return(t) \/ \E ids : Becomes(t, [k EXCEPT !.pc = "many_remove", !.ids = ids])
        BY <1>13 DEF DropStop
    <2>. QED  BY <1>2, <2>1, <2>2, ReturnNotWaiting
<1>. QED
    BY <1>3, <1>4, <1>5, <1>6, <1>7, <1>8, <1>9, <1>10, <1>11, <1>12, <1>13
    DEF PlainStep

LEMMA PlainStepGuard ==
    ASSUME IInv, NEW t \in Threads, PlainStep(t), UNCHANGED <<todo, scratch>>
    PROVE  GuardInv'
<1>1. UNCHANGED <<locks, rpc, cur>>
    BY DEF PlainStep, StartSpawn, StartWaiting, AwaitReturn, AwaitTimeout, StopCheck,
           StopCancel, StopUnqueue, StopRemove, StopEscalate, StopReap, StopManyRemove,
           StopManySignal, StopManyEscalate, StopManyReap, RestartCheck, RestartInPlace,
           RestartInsert, DropStop
<1>. QED  BY <1>1, PlainStepKept, PlainStepNotWaiting, ClientFrame DEF IInv

\* restart() goes to wait with the guard of a present entry in hand.
LEMMA RestartBlocksGuard ==
    ASSUME IInv, NEW t \in Threads, RestartBlocks(t), UNCHANGED <<todo, scratch>>
    PROVE  GuardInv'
<1>. DEFINE i == calls[t].id
<1>1. /\ i \in ProcessId /\ i \in Present /\ Shard[i] \notin locks
      /\ locks' = locks \cup {Shard[i]} /\ UNCHANGED <<processes, rpc, cur>>
    BY CallRecord DEF RestartBlocks, IInv, TypeInv, At, GoodCall, Present, Free
<1>2. /\ calls'[t].id = i
      /\ \A u \in Threads \ {t} : calls'[u] = calls[u]
    <2>1. [calls[t] EXCEPT !.pc = "restart_wait"].id = i
        BY CallRecord DEF IInv, TypeInv, Call
    <2>2. calls' = [calls EXCEPT ![t] = [calls[t] EXCEPT !.pc = "restart_wait"]]
        BY DEF RestartBlocks, Becomes
    <2>. QED  BY <2>1, <2>2 DEF IInv, TypeInv
<1>3. Present' = Present
    BY <1>1 DEF Present
<1>4. ReaperWaits' => ReaperWaits
    BY <1>1 DEF ReaperWaits
<1>5. \A u \in Threads \ {t} : Waits(u)' => Waits(u)
    BY <1>2 DEF Waits, At
<1>6. ReaperWaits' => (cur \in Present /\ Shard[cur] \in locks)'
    BY <1>1, <1>3, <1>4 DEF IInv, GuardInv
<1>7. ASSUME NEW u \in Threads, Waits(u)'
      PROVE  /\ calls'[u].id \in Present' /\ Shard[calls'[u].id] \in locks'
             /\ ReaperWaits' => Shard[calls'[u].id] # Shard[cur']
             /\ \A v \in Threads \ {u} : Waits(v)' =>
                    Shard[calls'[u].id] # Shard[calls'[v].id]
    <2>1. CASE u = t
        BY <1>1, <1>2, <1>3, <1>4, <1>5, <2>1 DEF IInv, GuardInv
    <2>2. CASE u # t
        <3>1. Waits(u) /\ calls'[u] = calls[u]
            BY <1>2, <1>5, <1>7, <2>2
        <3>. QED  BY <1>1, <1>2, <1>3, <1>4, <1>5, <3>1 DEF IInv, GuardInv
    <2>. QED  BY <2>1, <2>2
<1>. QED  BY <1>6, <1>7 DEF GuardInv

\* The reset leaves the entry where it is, and gives back its guard alone.
LEMMA RestartResetGuard ==
    ASSUME IInv, NEW t \in Threads, RestartReset(t), UNCHANGED <<todo, scratch>>
    PROVE  GuardInv'
<1>. DEFINE i == calls[t].id
            p == processes[i]
<1>1. i \in ProcessId /\ UNCHANGED <<rpc, cur>>
    BY CallRecord DEF RestartReset, IInv, TypeInv, At, GoodCall
<1>2. NotWaiting(t)
    <2>1. [calls[t] EXCEPT !.pc = "restart_in_place"].pc = "restart_in_place"
        BY CallRecord DEF IInv, TypeInv, Call
    <2>2. Return(t) \/ Becomes(t, [calls[t] EXCEPT !.pc = "restart_in_place"])
        BY DEF RestartReset
    <2>. QED  BY <2>1, <2>2, ReturnNotWaiting, BecomesNotWaiting DEF IInv
<1>3. Present' = Present
    <2>1. CASE p = NoProcess
        BY <2>1 DEF RestartReset, Present
    <2>2. CASE p # NoProcess
        <3>1. p \in Process
            BY <1>1, <2>2 DEF IInv, TypeInv, TableTypeOK
        <3>2. Reset(p) # NoProcess
            BY <3>1, ResetType, NoneIsNoProcess
        <3>3. processes' = [processes EXCEPT ![i] = Reset(p)]
            BY <2>2 DEF RestartReset, Put
        <3>. QED  BY <1>1, <2>2, <3>2, <3>3 DEF Present, IInv, TypeInv, TableTypeOK
    <2>. QED  BY <2>1, <2>2
<1>4. CASE At(t, "restart_wait")
    <2>1. locks' = locks \ {Shard[i]} /\ Waits(t)
        BY <1>4 DEF RestartReset, Waits
    <2>2. ReaperWaits' => ReaperWaits /\ Shard[cur] # Shard[i]
        BY <1>1, <2>1 DEF ReaperWaits, IInv, GuardInv
    <2>3. ReaperWaits' => (cur \in Present /\ Shard[cur] \in locks)'
        BY <1>1, <1>3, <2>1, <2>2 DEF IInv, GuardInv
    <2>4. \A u \in Threads : Waits(u)' => Waits(u) /\ u # t /\ calls'[u] = calls[u]
        BY <1>2 DEF NotWaiting, Waits, At
    <2>5. ASSUME NEW u \in Threads, Waits(u)'
          PROVE  /\ calls'[u].id \in Present' /\ Shard[calls'[u].id] \in locks'
                 /\ ReaperWaits' => Shard[calls'[u].id] # Shard[cur']
                 /\ \A v \in Threads \ {u} : Waits(v)' =>
                        Shard[calls'[u].id] # Shard[calls'[v].id]
        BY <1>1, <1>3, <2>1, <2>2, <2>4, <2>5 DEF IInv, GuardInv
    <2>. QED  BY <2>3, <2>5 DEF GuardInv
<1>5. CASE ~At(t, "restart_wait")
    <2>1. UNCHANGED locks
        BY <1>5 DEF RestartReset
    <2>2. EntriesKept
        BY <1>3 DEF EntriesKept, Present
    <2>. QED  BY <1>1, <1>2, <2>1, <2>2, ClientFrame DEF IInv
<1>. QED  BY <1>4, <1>5

LEMMA ScheduleBlocksGuard ==
    ASSUME IInv, NEW i \in ProcessId, ScheduleBlocks(i)
    PROVE  GuardInv'
<1>1. /\ i \in Present /\ Shard[i] \notin locks /\ locks' = locks \cup {Shard[i]}
      /\ cur' = i /\ UNCHANGED <<processes, calls>>
    BY DEF ScheduleBlocks, Free
<1>2. Present' = Present /\ \A u \in Threads : Waits(u)' = Waits(u)
    BY <1>1 DEF Present, Waits, At
<1>3. (cur \in Present /\ Shard[cur] \in locks)'
    BY <1>1, <1>2
<1>4. ASSUME NEW u \in Threads, Waits(u)'
      PROVE  /\ calls'[u].id \in Present' /\ Shard[calls'[u].id] \in locks'
             /\ Shard[calls'[u].id] # Shard[cur']
             /\ \A v \in Threads \ {u} : Waits(v)' =>
                    Shard[calls'[u].id] # Shard[calls'[v].id]
    BY <1>1, <1>2, <1>4 DEF IInv, GuardInv
<1>. QED  BY <1>3, <1>4 DEF GuardInv

LEMMA ScheduleResumesGuard ==
    ASSUME IInv, ScheduleResumes
    PROVE  GuardInv'
<1>1. /\ cur \in Present /\ locks' = locks \ {Shard[cur]} /\ UNCHANGED calls
      /\ rpc' # "schedule_wait" /\ ReaperWaits
    BY DEF ScheduleResumes, In, Goto, IInv, GuardInv, ReaperWaits
<1>2. Present' = Present
    <2>1. cur \in ProcessId /\ processes[cur] \in Process
        BY <1>1, PresentProcess DEF IInv, TypeInv
    <2>2. Scheduled(processes[cur]) # NoProcess
        BY <2>1, ScheduledType, NoneIsNoProcess
    <2>3. processes' = [processes EXCEPT ![cur] = Scheduled(processes[cur])]
        BY DEF ScheduleResumes, Put
    <2>. QED  BY <1>1, <2>1, <2>2, <2>3 DEF Present, IInv, TypeInv, TableTypeOK
<1>3. \A u \in Threads : Waits(u)' = Waits(u)
    BY <1>1 DEF Waits, At
<1>4. ASSUME NEW u \in Threads, Waits(u)'
      PROVE  /\ calls'[u].id \in Present' /\ Shard[calls'[u].id] \in locks'
             /\ \A v \in Threads \ {u} : Waits(v)' =>
                    Shard[calls'[u].id] # Shard[calls'[v].id]
    BY <1>1, <1>2, <1>3, <1>4 DEF IInv, GuardInv
<1>. QED  BY <1>1, <1>4 DEF GuardInv, ReaperWaits

LEMMA RestartWedgesGuard ==
    ASSUME IInv, NEW i \in ProcessId, RestartWedges(i)
    PROVE  GuardInv'
<1>1. locks = {} /\ rpc' # "schedule_wait" /\ UNCHANGED calls
    BY DEF RestartWedges, AllFree, Goto
<1>2. \A u \in Threads : ~Waits(u)'
    BY <1>1 DEF IInv, GuardInv, Waits, At
<1>. QED  BY <1>1, <1>2 DEF GuardInv, ReaperWaits

\* The steps of the reaper that neither take nor give back a guard.
PlainReaperStep ==
    \/ BeginCycle \/ EndDetect \/ CollectTargets \/ RemoveExited \/ EmitEvents
    \/ CollectEligible \/ CollectWaiting \/ CollectRunning
    \/ \E i \in ProcessId :
        \/ DetectExit(i) \/ DetectAlive(i) \/ FlagTarget(i) \/ ScheduleRestart(i)
        \/ RestartSkips(i) \/ RestartSpawns(i) \/ RestartWaits(i)
        \/ CheckWaiting(i) \/ SpawnWaiting(i) \/ FailWaiting(i) \/ FailRunning(i)

LEMMA PlainReaperKept ==
    ASSUME TypeInv, PlainReaperStep
    PROVE  EntriesKept
<1>1. CASE BeginCycle \/ EndDetect \/ CollectTargets \/ EmitEvents
             \/ CollectEligible \/ CollectWaiting \/ CollectRunning
             \/ \E i \in ProcessId : RestartSkips(i)
    <2>1. UNCHANGED processes
        BY <1>1 DEF BeginCycle, EndDetect, CollectTargets, EmitEvents, CollectEligible,
                    CollectWaiting, CollectRunning, RestartSkips
    <2>. QED  BY <2>1, SameKept
<1>2. CASE RemoveExited
    <2>1. \A i \in ProcessId \ ToRemove : processes'[i] = processes[i]
        BY <1>2 DEF RemoveExited
    <2>2. \A i \in ToRemove : Free(i)
        BY <1>2 DEF RemoveExited
    <2>. QED  BY <2>1, <2>2 DEF EntriesKept, Present
<1>3. ASSUME NEW i \in ProcessId,
             DetectExit(i) \/ DetectAlive(i) \/ FlagTarget(i) \/ ScheduleRestart(i)
               \/ SpawnWaiting(i) \/ FailWaiting(i)
      PROVE  EntriesKept
    <2>1. Free(i)
        BY <1>3 DEF DetectExit, DetectAlive, FlagTarget, ScheduleRestart, SpawnWaiting,
                    FailWaiting
    <2>2. UNCHANGED processes \/ \E p : Put(i, p)
        BY <1>3 DEF DetectExit, DetectAlive, FlagTarget, ScheduleRestart, SpawnWaiting,
                    FailWaiting, RemoveFailed
    <2>. QED  BY <2>1, <2>2, PutKept, SameKept
<1>4. ASSUME NEW i \in ProcessId, RestartSpawns(i)
      PROVE  EntriesKept
    <2>1. \E S, p : processes' = [PollAll(S) EXCEPT ![i] = p]
        BY <1>4 DEF RestartSpawns
    <2>2. Free(i)
        BY <1>4 DEF RestartSpawns
    <2>. QED  BY <2>1, <2>2, PollAllPutKept
<1>5. ASSUME NEW i \in ProcessId, RestartWaits(i) \/ CheckWaiting(i) \/ FailRunning(i)
      PROVE  EntriesKept
    <2>1. locks = {}
        BY <1>5 DEF RestartWaits, CheckWaiting, FailRunning, AllFree
    <2>. QED  BY <2>1 DEF EntriesKept, Free
<1>. QED  BY <1>1, <1>2, <1>3, <1>4, <1>5 DEF PlainReaperStep

LEMMA PlainReaperGuard ==
    ASSUME IInv, PlainReaperStep
    PROVE  GuardInv'
<1>1. UNCHANGED <<locks, calls>>
    BY DEF PlainReaperStep, BeginCycle, EndDetect, CollectTargets, RemoveExited,
           EmitEvents, CollectEligible, CollectWaiting, CollectRunning, DetectExit,
           DetectAlive, FlagTarget, ScheduleRestart, RestartSkips, RestartSpawns,
           RestartWaits, CheckWaiting, SpawnWaiting, FailWaiting, FailRunning
<1>2. rpc' # "schedule_wait"
    <2>1. CASE BeginCycle \/ EndDetect \/ CollectTargets \/ RemoveExited \/ EmitEvents
                 \/ CollectEligible \/ CollectWaiting \/ CollectRunning
        BY <2>1 DEF BeginCycle, EndDetect, CollectTargets, RemoveExited, EmitEvents,
                    CollectEligible, CollectWaiting, CollectRunning, Goto, Collect,
                    AfterCycle
    <2>2. ASSUME NEW i \in ProcessId,
                 DetectExit(i) \/ DetectAlive(i) \/ FlagTarget(i) \/ ScheduleRestart(i)
                   \/ RestartSkips(i) \/ RestartSpawns(i) \/ RestartWaits(i)
          PROVE  rpc' # "schedule_wait"
        BY <2>2 DEF DetectExit, DetectAlive, FlagTarget, ScheduleRestart, RestartSkips,
                    RestartSpawns, RestartWaits, In, Done
    <2>3. ASSUME NEW i \in ProcessId, SpawnWaiting(i) \/ FailWaiting(i) \/ FailRunning(i)
          PROVE  rpc' # "schedule_wait"
        BY <2>3 DEF SpawnWaiting, FailWaiting, FailRunning, In, Done, Goto, AfterCycle
    <2>4. ASSUME NEW i \in ProcessId, CheckWaiting(i)
          PROVE  rpc' # "schedule_wait"
        <3>1. \E spawn, fail : NextCheck(i, spawn, fail)
            BY <2>4 DEF CheckWaiting
        <3>. QED  BY <3>1 DEF NextCheck, Goto
    <2>. QED  BY <2>1, <2>2, <2>3, <2>4 DEF PlainReaperStep
<1>. QED  BY <1>1, <1>2, PlainReaperKept, ReaperFrame DEF IInv

\* The children, the clock and the receiver touch neither guards nor threads.
LEMMA EnvironmentGuard ==
    ASSUME IInv, UNCHANGED <<locks, calls, rpc, cur>>, EntriesKept
    PROVE  GuardInv'
<1>1. \A u \in Threads : Waits(u)' => Waits(u) /\ calls'[u].id = calls[u].id
    BY DEF Waits, At
<1>2. ReaperWaits' => ReaperWaits /\ UNCHANGED cur
    BY DEF ReaperWaits
<1>. QED  BY <1>1, <1>2, GuardFrame DEF IInv

LEMMA TicksGuard ==
    ASSUME IInv, NEW i \in ProcessId, Ticks(i)
    PROVE  GuardInv'
<1>1. i \in Present
    BY DEF Ticks, BackoffElapses, UptimeReached, DependencyExpires, InState
<1>2. processes[i] \in Process
    BY <1>1, PresentProcess DEF IInv, TypeInv
<1>3. PICK b \in Process : Put(i, b)
    BY <1>2, TickType DEF Ticks, BackoffElapses, UptimeReached, DependencyExpires
<1>4. EntriesKept
    BY <1>3, NoneIsNoProcess DEF EntriesKept, Present, Put, IInv, TypeInv, TableTypeOK
<1>5. UNCHANGED <<locks, calls, rpc, cur>>
    BY DEF Ticks, BackoffElapses, UptimeReached, DependencyExpires, reaperVars
<1>. QED  BY <1>4, <1>5, EnvironmentGuard

-----------------------------------------------------------------------------
LEMMA Initial == Init => IInv
<1>. SUFFICES ASSUME Init PROVE IInv
    OBVIOUS
<1>1. TableTypeOK
    <2>1. 1 \in 1 .. (MaxId + 1)
        BY BoundsAssumption
    <2>. QED  BY <2>1 DEF Init, TableInit, TableTypeOK
<1>2. calls \in [Threads -> GoodCall] /\ stop_flag \in BOOLEAN /\ dropping \in BOOLEAN
    BY IdleType DEF Init, ManagerInit
<1>3. ReaperTypeOK
    <2>1. 0 \in 0 .. MaxId
        BY BoundsAssumption
    <2>. QED  BY <2>1, NoneExitedType DEF Init, ReaperInit, ReaperTypeOK, ReaperStep
<1>4. GuardInv
    BY DEF Init, ManagerInit, ReaperInit, GuardInv, ReaperWaits, Waits, At, Idle
<1>. QED  BY <1>1, <1>2, <1>3, <1>4 DEF IInv, TypeInv

LEMMA Inductive == IInv /\ [Next]_vars => IInv'
<1>. SUFFICES ASSUME IInv, [Next]_vars PROVE IInv'
    OBVIOUS
<1>1. ASSUME NEW t \in Threads, Calls(t)
      PROVE  IInv'
    BY <1>1, CallType, CallGuard DEF IInv
<1>2. ASSUME NEW t \in Threads, Steps(t)
      PROVE  IInv'
    <2>1. TypeInv'
        BY <1>2, StepType DEF IInv
    <2>2. UNCHANGED <<todo, scratch>>
        BY <1>2 DEF Steps
    <2>3. PlainStep(t) \/ RestartBlocks(t) \/ RestartReset(t)
        BY <1>2 DEF Steps, StepNext, PlainStep
    <2>4. GuardInv'
        BY <2>2, <2>3, PlainStepGuard, RestartBlocksGuard, RestartResetGuard
    <2>. QED  BY <2>1, <2>4 DEF IInv
<1>3. CASE ReaperNext
    <2>1. TypeInv'
        BY <1>3, ReaperType DEF IInv, GuardInv
    <2>2. PlainReaperStep \/ ScheduleResumes
            \/ \E i \in ProcessId : ScheduleBlocks(i) \/ RestartWedges(i)
        BY <1>3 DEF ReaperNext, PlainReaperStep
    <2>3. GuardInv'
        BY <2>2, PlainReaperGuard, ScheduleResumesGuard, ScheduleBlocksGuard,
           RestartWedgesGuard
    <2>. QED  BY <2>1, <2>3 DEF IInv
<1>4. ASSUME NEW q \in Pid, Exits(q)
      PROVE  IInv'
    <2>1. UNCHANGED <<processes, locks, calls, rpc, cur>>
        BY <1>4 DEF Exits, ChildExits, reaperVars
    <2>. QED  BY <1>4, <2>1, SameKept, EnvironmentGuard, ExitsType DEF IInv
<1>5. ASSUME NEW i \in ProcessId, Ticks(i)
      PROVE  IInv'
    BY <1>5, TicksType, TicksGuard DEF IInv
<1>6. CASE Closes
    <2>1. UNCHANGED <<processes, locks, calls, rpc, cur>>
        BY <1>6 DEF Closes, CloseChannel
    <2>2. TypeInv'
        BY <1>6, CloseChannelType DEF Closes, IInv
    <2>. QED  BY <2>1, <2>2, SameKept, EnvironmentGuard DEF IInv
<1>7. CASE UNCHANGED vars
    <2>1. UNCHANGED <<processes, locks, calls, rpc, cur>>
        BY <1>7 DEF vars, reaperVars
    <2>2. TypeInv'
        BY <1>7 DEF vars, reaperVars, IInv, TypeInv, TableTypeOK, ReaperTypeOK
    <2>. QED  BY <2>1, <2>2, SameKept, EnvironmentGuard DEF IInv
<1>. QED  BY <1>1, <1>2, <1>3, <1>4, <1>5, <1>6, <1>7 DEF Next, Ticks

LEMMA IInvTypeOK == IInv => TypeOK
BY DEF IInv, TypeInv, TypeOK, ManagerTypeOK, GoodCall

\* The guards and what the calls carry, in every reachable state.
THEOREM Invariance == Spec => []IInv
BY Initial, Inductive, PTL DEF Spec

\* Every variable keeps its type: no step of the manager, the reaper or a
\* call half way through produces a record or an index out of range.
THEOREM TypeCorrect == Spec => []TypeOK
BY Invariance, IInvTypeOK, PTL
=============================================================================
