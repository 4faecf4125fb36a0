--------------------------- MODULE ExitReportProofs ---------------------------
(***************************************************************************)
(* The exit of a child is reported at most once, for every number of       *)
(* clients and processes and whatever operations the clients call.         *)
(*                                                                         *)
(* First, every action makes a RecordStep: it says what a step may do to   *)
(* the records of processes in the map, to those in the hands of the       *)
(* calls, and to their children.  What this module and those that extend   *)
(* it need of the records is then proved of a RecordStep, without going    *)
(* through the actions again.                                              *)
(*                                                                         *)
(* ExitReportedOnce speaks of the events alone and is not inductive: the   *)
(* reaper would report a child again if a record still held its handle     *)
(* when the next cycle begins.  Two things rule that out.  A handle is in  *)
(* one place, in the map or in the hands of a call (HandleInv), so that no *)
(* second record brings it back; and the record of a child that is being   *)
(* reported is on its way out of the map, or about to have its handle      *)
(* released, before the reaper sleeps again (ReportInv, Due).              *)
(***************************************************************************)
EXTENDS SupervisionProofs

USE DEF mapVars, osVars, eventVars, tableVars, managerVars, scratch

-----------------------------------------------------------------------------
(* The children.                                                           *)

Dead == {q \in Pid : os[q] \in {"ok", "err"}}

\* A child is born and dies once.
OsStep ==
    \A q \in Pid :
        \/ os'[q] = os[q]
        \/ os[q] = "unborn" /\ os'[q] = "alive"
        \/ os[q] = "alive" /\ os'[q] \in {"ok", "err"}

\* It is collected when it is dead, and stays so.
ReapStep == reaped \subseteq reaped' /\ reaped' \subseteq reaped \cup Dead

ChildStep == OsStep /\ ReapStep

-----------------------------------------------------------------------------
(* One record.                                                             *)

\* r is p, with the same child.
SameRecord(p, r) ==
    /\ r.config = p.config
    /\ r.spawn_sequence = p.spawn_sequence
    /\ r.pid = p.pid
    /\ r.child = p.child

NoWorse(p, r) ==
    /\ r.restart_count <= p.restart_count
    /\ r.cascade_flag => p.cascade_flag

\* HandleMatchesState, of one record.
Consistent(p) ==
    /\ p.child \in {0, p.pid}
    /\ p.state \in {"Starting", "Running", "Stopping", "Stopped", "Crashed"}
         => p.child # 0
    /\ p.state \in {"Waiting", "Restarting"} => p.child = 0

Carried(p, r) ==
    /\ SameRecord(p, r) /\ NoWorse(p, r)
    /\ Consistent(p) => Consistent(r)

-----------------------------------------------------------------------------
(* The map.                                                                *)

\* Entry i is carried over or gone.
Keeps(i) ==
    processes'[i] # NoProcess =>
        processes[i] # NoProcess /\ Carried(processes[i], processes'[i])

MapKeeps == \A i \in ProcessId : Keeps(i)

\* A child of its own for an entry that there is already.
Respawns(i) ==
    /\ i \in Present
    /\ \E q \in Pid :
        /\ SpawnOk(q)
        /\ processes'[i].pid = q /\ processes'[i].child = q
        /\ processes'[i].state = "Starting"
    /\ processes'[i].config = processes[i].config
    /\ processes'[i].spawn_sequence = processes[i].spawn_sequence
    /\ NoWorse(processes[i], processes'[i])
    /\ \/ rpc = "restart" /\ i \in todo
       \/ rpc = "spawn" /\ i \in to_spawn
       \/ \E t \in Threads : At(t, "restart_in_place") /\ calls[t].id = i

\* start() or restart() puts in a new record.
Enters(i) ==
    \E t \in Threads :
        /\ At(t, "start_insert") \/ At(t, "restart_insert")
        /\ calls[t].id = i
        /\ \E q \in 0 .. MaxPid, deps \in Seq(ProcessId) :
              /\ q = 0 \/ SpawnOk(q)
              /\ processes'[i] = NewProcess(calls[t].config, q, next_spawn_sequence, deps)
        /\ next_spawn_sequence' = next_spawn_sequence + 1
        /\ ~At(t, "start_insert")' /\ ~At(t, "restart_insert")'

\* What the reaper does to the entries it has on its list.
Strikes(i) ==
    /\ rpc = "flag" /\ i \in todo \cap Present
    /\ processes[i].pid # 0
    /\ processes'[i] = Flagged(processes[i])

Schedules(i) ==
    /\ \/ rpc = "schedule" /\ i \in todo
       \/ rpc = "schedule_wait" /\ i = cur
    /\ i \in Present
    /\ ~Alive(processes[i].child)
    /\ reaped' = reaped \cup Collected(processes[i])
    /\ processes'[i] = Scheduled(processes[i])

Requeues(i) ==
    /\ rpc = "restart" /\ i \in todo \cap Present
    /\ \E deps \in Seq(ProcessId) : processes'[i] = Requeued(processes[i], deps)

\* What restart() does to an entry it has found Restarting.
Resets(i) ==
    /\ \E t \in Threads :
          (At(t, "restart_reset") \/ At(t, "restart_wait")) /\ calls[t].id = i
    /\ i \in Present
    /\ ~Alive(processes[i].child)
    /\ reaped' = reaped \cup Collected(processes[i])
    /\ processes'[i] = Reset(processes[i])

Changes(i) ==
    \/ Respawns(i) \/ Enters(i) \/ Strikes(i) \/ Schedules(i) \/ Requeues(i) \/ Resets(i)

\* stop_many() puts back what it could not kill, and lets go of the rest.
PutsBack(t, S) ==
    /\ S \subseteq Held(t)
    /\ At(t, "many_reap")
    /\ \A i \in S :
          /\ KillResult(calls[t].held[i]) = "EPERM"
          /\ processes'[i] = [calls[t].held[i] EXCEPT !.state = "Failed"]
    /\ \A i \in ProcessId \ S : Keeps(i)
    /\ \A i \in ProcessId : calls'[t].held[i] = NoProcess

MapStep ==
    \/ MapKeeps
    \/ \E i \in ProcessId : Changes(i) /\ \A j \in ProcessId \ {i} : Keeps(j)
    \/ \E t \in Threads, S \in SUBSET ProcessId : PutsBack(t, S)

-----------------------------------------------------------------------------
(* The hands of the calls.                                                 *)

HandKeeps(t, i) ==
    calls'[t].held[i] # NoProcess =>
        /\ calls[t].held[i] # NoProcess
        /\ SameRecord(calls[t].held[i], calls'[t].held[i])
        /\ NoWorse(calls[t].held[i], calls'[t].held[i])

HandsKeep == \A t \in Threads, i \in ProcessId : HandKeeps(t, i)

\* A call takes one record out of the map.
Takes(t, n) ==
    /\ n \in Present
    /\ processes'[n] = NoProcess
    /\ calls'[t].held[n] # NoProcess
    /\ SameRecord(processes[n], calls'[t].held[n])
    /\ NoWorse(processes[n], calls'[t].held[n])
    /\ \A i \in ProcessId \ {n} : HandKeeps(t, i)
    /\ \A u \in Threads \ {t}, i \in ProcessId : HandKeeps(u, i)

HandStep == HandsKeep \/ \E t \in Threads, n \in ProcessId : Takes(t, n)

RecordStep == ChildStep /\ MapStep /\ HandStep

-----------------------------------------------------------------------------
(* What the helpers make of a record.                                      *)

LEMMA CarriedItself ==
    ASSUME NEW p \in Process
    PROVE  Carried(p, p)
BY DEF Carried, SameRecord, NoWorse, Process

LEMMA CarriedTwice ==
    ASSUME NEW p \in Process, NEW q \in Process, NEW r \in Process,
           Carried(p, q), Carried(q, r)
    PROVE  Carried(p, r)
<1>1. p.restart_count \in Nat /\ q.restart_count \in Nat /\ r.restart_count \in Nat
    BY DEF Process
<1>. QED  BY <1>1 DEF Carried, SameRecord, NoWorse

LEMMA CarriedPolled ==
    ASSUME NEW p \in Process
    PROVE  Carried(p, Polled(p))
<1>. DEFINE s == IF p.child = 0 THEN "Stopped"
                 ELSE IF os[p.child] = "alive" THEN "Running"
                 ELSE IF os[p.child] = "ok" THEN "Stopped" ELSE "Crashed"
            r == [p EXCEPT !.state = s]
<1>1. CASE ~Polls(p)
    BY <1>1, CarriedItself DEF Polled
<1>2. CASE Polls(p)
    <2>1. p.state \in {"Starting", "Running"}
        BY <1>2 DEF Polls, ProcessState
    <2>2. s \in {"Running", "Stopped", "Crashed"}
        OBVIOUS
    <2>. HIDE DEF s
    <2>3. /\ SameRecord(p, r) /\ NoWorse(p, r) /\ r.child = p.child
          /\ r.state = s /\ r.pid = p.pid
        BY DEF SameRecord, NoWorse, Process
    <2>4. Polled(p) = r
        BY <1>2 DEF Polled, s
    <2>. HIDE DEF r
    <2>5. Consistent(p) => Consistent(r)
        BY <2>1, <2>2, <2>3 DEF Consistent
    <2>. QED  BY <2>3, <2>4, <2>5 DEF Carried
<1>. QED  BY <1>1, <1>2

LEMMA CarriedStable ==
    ASSUME NEW p \in Process
    PROVE  /\ check_stable_uptime(p) \in Process
           /\ Carried(p, check_stable_uptime(p))
<1>1. [p EXCEPT !.restart_count = 0] \in Process /\ Carried(p, [p EXCEPT !.restart_count = 0])
    BY DEF Carried, SameRecord, NoWorse, Consistent, Process
<1>. QED  BY <1>1, CarriedItself DEF check_stable_uptime

\* One field changes, and nothing a consistent record is about.
LEMMA CarriedEdits ==
    ASSUME NEW p \in Process
    PROVE  /\ Carried(p, [p EXCEPT !.state = "Failed"])
           /\ Carried(p, [p EXCEPT !.cascade_flag = FALSE])
           /\ p.state = "Starting" => Carried(p, [p EXCEPT !.state = "Running"])
           /\ Carried(p, [p EXCEPT !.backoff = "elapsed"])
           /\ Carried(p, [p EXCEPT !.stable = TRUE])
           /\ Carried(p, [p EXCEPT !.expired = TRUE])
           /\ \A deps : Carried(p, [p EXCEPT !.resolved_deps = deps])
BY DEF Carried, SameRecord, NoWorse, Consistent, Process

-----------------------------------------------------------------------------
(* What the building blocks of the actions do to the map.                  *)

LEMMA SameMap ==
    ASSUME TypeInv, UNCHANGED processes
    PROVE  MapKeeps
BY CarriedItself DEF MapKeeps, Keeps, TypeInv, TableTypeOK

LEMMA PutOthers ==
    ASSUME TypeInv, NEW i \in ProcessId, NEW p, Put(i, p)
    PROVE  processes'[i] = p /\ \A j \in ProcessId \ {i} : Keeps(j)
<1>1. processes'[i] = p /\ \A j \in ProcessId \ {i} : processes'[j] = processes[j]
    BY DEF Put, TypeInv, TableTypeOK
<1>. QED  BY <1>1, CarriedItself DEF Keeps, TypeInv, TableTypeOK

\* An entry is removed, or replaced by one that carries it on.
LEMMA PutKeeps ==
    ASSUME TypeInv, NEW i, NEW p, Put(i, p),
           i \in ProcessId =>
              p = NoProcess \/ (processes[i] # NoProcess /\ Carried(processes[i], p))
    PROVE  MapKeeps
<1>1. CASE i \in ProcessId
    BY <1>1, PutOthers DEF MapKeeps, Keeps
<1>2. CASE i \notin ProcessId
    BY <1>2, SameMap DEF Put, TypeInv, TableTypeOK
<1>. QED  BY <1>1, <1>2

LEMMA PollAllKeeps ==
    ASSUME TypeInv, NEW S, NEW j \in ProcessId
    PROVE  IF processes[j] = NoProcess THEN PollAll(S)[j] = NoProcess
           ELSE Carried(processes[j], PollAll(S)[j])
<1>1. CASE processes[j] = NoProcess
    BY <1>1 DEF PollAll
<1>2. CASE processes[j] # NoProcess
    <2>1. processes[j] \in Process
        BY <1>2 DEF TypeInv, TableTypeOK
    <2>. QED  BY <1>2, <2>1, CarriedItself, CarriedPolled DEF PollAll
<1>. QED  BY <1>1, <1>2

LEMMA PollAllPutKeeps ==
    ASSUME TypeInv, NEW S, NEW i \in ProcessId, NEW p,
           processes' = [PollAll(S) EXCEPT ![i] = p]
    PROVE  processes'[i] = p /\ \A j \in ProcessId \ {i} : Keeps(j)
<1>1. DOMAIN PollAll(S) = ProcessId
    BY DEF PollAll
<1>2. processes'[i] = p /\ \A j \in ProcessId \ {i} : processes'[j] = PollAll(S)[j]
    BY <1>1 DEF PollAll
<1>3. ASSUME NEW j \in ProcessId \ {i}
      PROVE  Keeps(j)
    BY <1>2, PollAllKeeps DEF Keeps
<1>. QED  BY <1>2, <1>3

-----------------------------------------------------------------------------
(* What the steps do to the hands of the calls.                            *)

LEMMA SameHand ==
    ASSUME TypeInv, NEW t \in Threads, NEW i \in ProcessId,
           calls'[t].held[i] = calls[t].held[i]
    PROVE  HandKeeps(t, i)
<1>1. CASE calls[t].held[i] = NoProcess
    BY <1>1 DEF HandKeeps
<1>2. CASE calls[t].held[i] # NoProcess
    <2>1. calls[t].held[i] \in Process
        BY <1>2, HeldType DEF Held, TypeInv
    <2>. QED  BY <2>1 DEF HandKeeps, SameRecord, NoWorse, Process
<1>. QED  BY <1>1, <1>2

LEMMA SameHands ==
    ASSUME TypeInv, UNCHANGED calls
    PROVE  HandsKeep
BY SameHand DEF HandsKeep

LEMMA BecomesOthers ==
    ASSUME TypeInv, NEW t \in Threads, NEW c, Becomes(t, c)
    PROVE  calls'[t] = c /\ \A u \in Threads \ {t}, i \in ProcessId : HandKeeps(u, i)
<1>1. calls'[t] = c /\ \A u \in Threads \ {t} : calls'[u] = calls[u]
    BY DEF Becomes, TypeInv
<1>. QED  BY <1>1, SameHand

\* A thread goes on with what it holds, or with nothing.
LEMMA BecomesKeeps ==
    ASSUME TypeInv, NEW t \in Threads, NEW c, Becomes(t, c),
           c.held = NoneHeld \/ c.held = calls[t].held
    PROVE  HandsKeep
<1>1. calls'[t] = c /\ \A u \in Threads \ {t}, i \in ProcessId : HandKeeps(u, i)
    BY BecomesOthers
<1>2. CASE c.held = NoneHeld
    BY <1>1, <1>2 DEF HandsKeep, HandKeeps, NoneHeld
<1>3. CASE c.held = calls[t].held
    BY <1>1, <1>3, SameHand DEF HandsKeep
<1>. QED  BY <1>2, <1>3

LEMMA ReturnKeeps ==
    ASSUME TypeInv, NEW t \in Threads, Return(t)
    PROVE  HandsKeep
BY BecomesKeeps DEF Return, Idle

LEMMA StoppedKeeps ==
    ASSUME TypeInv, NEW t \in Threads, NEW s, Stopped(t, s)
    PROVE  HandsKeep
<1>1. calls[t] \in Call
    BY CallRecord DEF TypeInv
<1>2. [calls[t] EXCEPT !.pc = "stop_check", !.cur = Head(s), !.todo = Tail(s),
                       !.nested = TRUE, !.held = NoneHeld].held = NoneHeld
      /\ [calls[t] EXCEPT !.pc = "restart_insert", !.nested = FALSE,
                          !.held = NoneHeld].held = NoneHeld
    BY <1>1 DEF Call
<1>. QED  BY <1>2, BecomesKeeps, ReturnKeeps DEF Stopped

LEMMA StopFailedKeeps ==
    ASSUME TypeInv, NEW t \in Threads, StopFailed(t)
    PROVE  HandsKeep
BY StoppedKeeps, ReturnKeeps DEF StopFailed

LEMMA RestartedKeeps ==
    ASSUME TypeInv, NEW t \in Threads, Restarted(t)
    PROVE  HandsKeep
<1>1. [Idle EXCEPT !.pc = "restart_check", !.op = "restart",
                   !.ids = calls[t].ids].held = NoneHeld
    BY DEF Idle
<1>. QED  BY <1>1, BecomesKeeps, ReturnKeeps DEF Restarted

LEMMA CallHands ==
    ASSUME TypeInv, NEW t \in Threads, Calls(t)
    PROVE  HandsKeep
<1>1. CASE StartCall(t)
    <2>1. PICK op \in {"start", "start_with_deps"}, c \in Configs, cycle \in BOOLEAN :
            IF cycle THEN UNCHANGED calls
            ELSE Becomes(t, [Idle EXCEPT !.pc = "start_insert", !.op = op,
                                         !.id = next_id, !.config = c])
        BY <1>1 DEF StartCall
    <2>2. [Idle EXCEPT !.pc = "start_insert", !.op = op, !.id = next_id,
                       !.config = c].held = NoneHeld
        BY DEF Idle
    <2>. QED  BY <2>1, <2>2, SameHands, BecomesKeeps
<1>2. CASE StopCall(t)
    <2>1. PICK i \in Present :
            Becomes(t, [Idle EXCEPT !.pc = "stop_check", !.op = "stop", !.id = i,
                                    !.cur = i])
        BY <1>2 DEF StopCall
    <2>2. [Idle EXCEPT !.pc = "stop_check", !.op = "stop", !.id = i,
                       !.cur = i].held = NoneHeld
        BY DEF Idle
    <2>. QED  BY <2>1, <2>2, BecomesKeeps
<1>3. CASE StopManyCall(t) \/ RestartCall(t) \/ DropManager(t)
    <2>1. \E ids, op, pc : \/ Becomes(t, [Idle EXCEPT !.pc = pc, !.op = op, !.ids = ids])
                           \/ Becomes(t, [Idle EXCEPT !.pc = pc, !.op = op])
        BY <1>3 DEF StopManyCall, RestartCall, DropManager
    <2>2. \A ids, op, pc : /\ [Idle EXCEPT !.pc = pc, !.op = op, !.ids = ids].held = NoneHeld
                           /\ [Idle EXCEPT !.pc = pc, !.op = op].held = NoneHeld
        BY DEF Idle
    <2>. QED  BY <2>1, <2>2, BecomesKeeps
<1>4. CASE Poll(t) \/ \E i \in ProcessId : SendSignal(t, i)
    BY <1>4, SameHands DEF Poll, SendSignal
<1>. QED  BY <1>1, <1>2, <1>3, <1>4 DEF Calls, CallNext

LEMMA StopRemoveHands ==
    ASSUME TypeInv, NEW t \in Threads, StopRemove(t)
    PROVE  HandStep
<1>. DEFINE k == calls[t]
<1>1. PICK i \in ProcessId : i = k.cur
    BY CallRecord DEF StopRemove, TypeInv, At, GoodCall, StopStep
<1>. DEFINE p == processes[i]
            n == [k EXCEPT !.pc = "stop_grace", !.held[i] = [p EXCEPT !.state = "Stopping"]]
<1>2. k \in Call /\ Put(i, NoProcess)
    BY <1>1, CallRecord DEF StopRemove, TypeInv
<1>3. CASE Stopped(t, k.todo) \/ StopFailed(t)
    BY <1>3, StoppedKeeps, StopFailedKeeps DEF HandStep
<1>4. CASE p # NoProcess /\ Becomes(t, n)
    <2>1. p \in Process /\ i \in Present
        BY <1>1, <1>4 DEF TypeInv, TableTypeOK, Present
    <2>2. n.held = [k.held EXCEPT ![i] = [p EXCEPT !.state = "Stopping"]]
        BY <1>2 DEF Call
    <2>3. calls'[t] = n /\ \A u \in Threads \ {t}, j \in ProcessId : HandKeeps(u, j)
        BY <1>4, BecomesOthers
    <2>. HIDE DEF n
    <2>4. /\ calls'[t].held[i] = [p EXCEPT !.state = "Stopping"]
          /\ \A j \in ProcessId \ {i} : calls'[t].held[j] = k.held[j]
        BY <1>2, <2>2, <2>3 DEF Call
    <2>5. /\ [p EXCEPT !.state = "Stopping"] \in Process
          /\ SameRecord(p, [p EXCEPT !.state = "Stopping"])
          /\ NoWorse(p, [p EXCEPT !.state = "Stopping"])
        BY <2>1 DEF SameRecord, NoWorse, Process, ProcessState
    <2>6. calls'[t].held[i] # NoProcess
        BY <2>4, <2>5, NoneIsNoProcess
    <2>7. processes'[i] = NoProcess
        BY <1>2 DEF Put, TypeInv, TableTypeOK
    <2>8. \A j \in ProcessId \ {i} : HandKeeps(t, j)
        BY <2>4, SameHand
    <2>. QED  BY <2>1, <2>3, <2>4, <2>5, <2>6, <2>7, <2>8 DEF HandStep, Takes
<1>. QED  BY <1>1, <1>3, <1>4 DEF StopRemove, KillResult

LEMMA StopManyRemoveHands ==
    ASSUME TypeInv, NEW t \in Threads, StopManyRemove(t)
    PROVE  HandStep
<1>. DEFINE k == calls[t]
<1>1. k \in Call /\ k.ids \subseteq ProcessId
      /\ k.held \in [ProcessId -> Process \cup {NoProcess}]
    BY CallRecord DEF TypeInv, Call, StopManyRemove
<1>2. PICK i \in k.ids :
        LET p == processes[i]
            ids == k.ids \ {i}
            held == IF p = NoProcess THEN k.held
                    ELSE IF p.pid = 0 THEN k.held ELSE [k.held EXCEPT ![i] = p]
        IN /\ Put(i, NoProcess)
           /\ IF ids = {} /\ held = NoneHeld THEN Return(t)
              ELSE Becomes(t, [k EXCEPT
                       !.pc = IF ids = {} THEN "many_signal" ELSE "many_remove",
                       !.ids = ids, !.held = held])
    BY DEF StopManyRemove
<1>. DEFINE p == processes[i]
            held == IF p = NoProcess THEN k.held
                    ELSE IF p.pid = 0 THEN k.held ELSE [k.held EXCEPT ![i] = p]
            pc == IF k.ids \ {i} = {} THEN "many_signal" ELSE "many_remove"
            n == [k EXCEPT !.pc = pc, !.ids = k.ids \ {i}, !.held = held]
<1>3. i \in ProcessId
    BY <1>1
<1>4. CASE Return(t)
    BY <1>4, ReturnKeeps DEF HandStep
<1>5. CASE ~Return(t)
    <2>1. Becomes(t, n)
        BY <1>2, <1>5
    <2>2. n.held = held
        <3>. HIDE DEF held, pc
        <3>. QED  BY <1>1 DEF Call
    <2>3. CASE held = k.held
        <3>. HIDE DEF n
        <3>. QED  BY <2>1, <2>2, <2>3, BecomesKeeps DEF HandStep
    <2>4. CASE held # k.held
        <3>1. i \in Present /\ p \in Process /\ held = [k.held EXCEPT ![i] = p]
            BY <1>3, <2>4 DEF Present, TypeInv, TableTypeOK
        <3>. HIDE DEF n
        <3>2. calls'[t] = n /\ \A u \in Threads \ {t}, j \in ProcessId : HandKeeps(u, j)
            BY <2>1, BecomesOthers
        <3>3. /\ calls'[t].held[i] = p
              /\ \A j \in ProcessId \ {i} : calls'[t].held[j] = k.held[j]
            BY <1>1, <1>3, <2>2, <3>1, <3>2
        <3>4. \A j \in ProcessId \ {i} : HandKeeps(t, j)
            BY <3>3, SameHand
        <3>5. processes'[i] = NoProcess
            BY <1>2, <1>3 DEF Put, TypeInv, TableTypeOK
        <3>6. p # NoProcess /\ SameRecord(p, p) /\ NoWorse(p, p)
            BY <3>1, NoneIsNoProcess DEF SameRecord, NoWorse, Process
        <3>. HIDE DEF held
        <3>7. Takes(t, i)
            BY <3>1, <3>2, <3>3, <3>4, <3>5, <3>6 DEF Takes
        <3>. QED  BY <1>3, <3>7 DEF HandStep
    <2>. QED  BY <2>3, <2>4
<1>. QED  BY <1>4, <1>5

LEMMA StopManyStepHands ==
    ASSUME TypeInv, NEW t \in Threads, StopManySignal(t) \/ StopManyEscalate(t)
    PROVE  HandsKeep
<1>. DEFINE k == calls[t]
<1>1. k \in Call
    BY CallRecord DEF TypeInv
<1>2. PICK h : /\ \E pc \in {"many_grace", "many_reap"} :
                       Becomes(t, [k EXCEPT !.pc = pc, !.held = h])
               /\ \A i \in ProcessId : h[i] # NoProcess =>
                       /\ i \in Held(t)
                       /\ SameRecord(k.held[i], h[i])
                       /\ NoWorse(k.held[i], h[i])
    <2>1. CASE StopManySignal(t)
        <3>. DEFINE h == [i \in ProcessId |-> IF i \in Held(t)
                                              THEN [k.held[i] EXCEPT !.state = "Stopping"]
                                              ELSE NoProcess]
        <3>1. \A p \in Process : /\ SameRecord(p, [p EXCEPT !.state = "Stopping"])
                                 /\ NoWorse(p, [p EXCEPT !.state = "Stopping"])
            BY DEF SameRecord, NoWorse, Process
        <3>2. \A i \in Held(t) : k.held[i] \in Process
            BY HeldType DEF TypeInv
        <3>3. \A i \in ProcessId : h[i] # NoProcess =>
                 i \in Held(t) /\ h[i] = [k.held[i] EXCEPT !.state = "Stopping"]
            OBVIOUS
        <3>4. Becomes(t, [k EXCEPT !.pc = "many_grace", !.held = h])
            BY <2>1 DEF StopManySignal
        <3>. HIDE DEF h
        <3>5. \A i \in ProcessId : h[i] # NoProcess =>
                 i \in Held(t) /\ SameRecord(k.held[i], h[i]) /\ NoWorse(k.held[i], h[i])
            BY <3>1, <3>2, <3>3
        <3>. QED  BY <3>4, <3>5
    <2>2. CASE StopManyEscalate(t)
        <3>. DEFINE left == {i \in Held(t) : is_alive(Polled(k.held[i]).state)}
                    h == [i \in ProcessId |-> IF i \in left THEN k.held[i] ELSE NoProcess]
        <3>1. \A p \in Process : SameRecord(p, p) /\ NoWorse(p, p)
            BY DEF SameRecord, NoWorse, Process
        <3>2. \A i \in Held(t) : k.held[i] \in Process
            BY HeldType DEF TypeInv
        <3>3. \A i \in ProcessId : h[i] # NoProcess => i \in Held(t) /\ h[i] = k.held[i]
            OBVIOUS
        <3>4. Becomes(t, [k EXCEPT !.pc = "many_reap", !.held = h])
            BY <2>2 DEF StopManyEscalate
        <3>. HIDE DEF h, left
        <3>5. \A i \in ProcessId : h[i] # NoProcess =>
                 i \in Held(t) /\ SameRecord(k.held[i], h[i]) /\ NoWorse(k.held[i], h[i])
            BY <3>1, <3>2, <3>3
        <3>. QED  BY <3>4, <3>5
    <2>. QED  BY <2>1, <2>2
<1>3. calls'[t].held = h /\ \A u \in Threads \ {t}, i \in ProcessId : HandKeeps(u, i)
    <2>1. \A pc : [k EXCEPT !.pc = pc, !.held = h].held = h
        BY <1>1 DEF Call
    <2>. QED  BY <1>2, <2>1, BecomesOthers
<1>. QED  BY <1>2, <1>3 DEF HandsKeep, HandKeeps, Held

\* The other steps go on with what the call holds, or drop it.
LEMMA OtherStepHands ==
    ASSUME TypeInv, NEW t \in Threads,
           \/ StartSpawn(t) \/ StartWaiting(t) \/ AwaitReturn(t) \/ AwaitTimeout(t)
           \/ StopCheck(t) \/ StopCancel(t) \/ StopUnqueue(t) \/ StopEscalate(t)
           \/ StopReap(t) \/ StopManyReap(t) \/ RestartCheck(t) \/ RestartBlocks(t)
           \/ RestartReset(t) \/ RestartInPlace(t) \/ RestartInsert(t) \/ DropStop(t)
    PROVE  HandsKeep
<1>. DEFINE k == calls[t]
<1>1. k \in Call
    BY CallRecord DEF TypeInv
<1>2. \A c : Becomes(t, c) /\ c.held = k.held => HandsKeep
    BY BecomesKeeps
<1>3. CASE StartSpawn(t) \/ AwaitReturn(t) \/ AwaitTimeout(t) \/ StopManyReap(t)
    BY <1>3, ReturnKeeps DEF StartSpawn, AwaitReturn, AwaitTimeout, StopManyReap
<1>4. CASE StartWaiting(t) \/ StopEscalate(t) \/ RestartBlocks(t) \/ RestartReset(t)
    <2>1. \A pc : [k EXCEPT !.pc = pc].held = k.held
        BY <1>1 DEF Call
    <2>2. \/ Return(t) \/ \E pc : Becomes(t, [k EXCEPT !.pc = pc])
          \/ \E s : Stopped(t, s)
        BY <1>4 DEF StartWaiting, StopEscalate, RestartBlocks, RestartReset
    <2>. QED  BY <1>2, <2>1, <2>2, ReturnKeeps, StoppedKeeps
<1>5. CASE StopCheck(t)
    <2>1. PICK pc, pid, cascade :
             StopFailed(t) \/ Becomes(t, [k EXCEPT !.pc = pc, !.pid = pid,
                                                   !.cascade = cascade])
        BY <1>5 DEF StopCheck
    <2>2. [k EXCEPT !.pc = pc, !.pid = pid, !.cascade = cascade].held = k.held
        BY <1>1 DEF Call
    <2>. QED  BY <1>2, <2>1, <2>2, StopFailedKeeps
<1>6. CASE StopCancel(t) \/ StopUnqueue(t) \/ StopReap(t)
    BY <1>6, StoppedKeeps DEF StopCancel, StopUnqueue, StopReap
<1>7. CASE RestartCheck(t)
    <2>1. PICK pc, id, c, ids :
             Return(t) \/ Becomes(t, [k EXCEPT !.pc = pc, !.id = id, !.cur = id,
                                               !.config = c, !.ids = ids])
        BY <1>7 DEF RestartCheck
    <2>2. [k EXCEPT !.pc = pc, !.id = id, !.cur = id, !.config = c, !.ids = ids].held
            = k.held
        BY <1>1 DEF Call
    <2>. QED  BY <1>2, <2>1, <2>2, ReturnKeeps
<1>8. CASE RestartInPlace(t) \/ RestartInsert(t)
    BY <1>8, ReturnKeeps, RestartedKeeps DEF RestartInPlace, RestartInsert
<1>9. CASE DropStop(t)
    <2>1. PICK ids : Return(t) \/ Becomes(t, [k EXCEPT !.pc = "many_remove", !.ids = ids])
        BY <1>9 DEF DropStop
    <2>2. [k EXCEPT !.pc = "many_remove", !.ids = ids].held = k.held
        BY <1>1 DEF Call
    <2>. QED  BY <1>2, <2>1, <2>2, ReturnKeeps
<1>. QED  BY <1>3, <1>4, <1>5, <1>6, <1>7, <1>8, <1>9

\* The reaper's steps are its own, and the clients' the clients'.
LEMMA ReaperUntouched ==
    ASSUME ReaperNext
    PROVE  UNCHANGED <<next_id, next_spawn_sequence, calls, stop_flag, dropping, chan_open>>
BY DEF ReaperNext, BeginCycle, EndDetect, CollectTargets, RemoveExited, EmitEvents,
       CollectEligible, CollectWaiting, CollectRunning, ScheduleResumes, DetectExit,
       DetectAlive, FlagTarget, ScheduleRestart, ScheduleBlocks, RestartSkips,
       RestartSpawns, RestartWaits, RestartWedges, CheckWaiting, SpawnWaiting,
       FailWaiting, FailRunning

LEMMA HandsStep ==
    ASSUME IInv, [Next]_vars
    PROVE  HandStep
<1>. USE DEF IInv
<1>1. ASSUME NEW t \in Threads, Calls(t) \/ Steps(t)
      PROVE  HandStep
    BY <1>1, CallHands, StopRemoveHands, StopManyRemoveHands, StopManyStepHands,
       OtherStepHands DEF Steps, StepNext, HandStep
<1>2. CASE ReaperNext
    BY <1>2, ReaperUntouched, SameHands DEF HandStep
<1>3. ASSUME NEW i \in ProcessId, Ticks(i)
      PROVE  HandStep
    BY <1>3, SameHands DEF Ticks, BackoffElapses, UptimeReached, DependencyExpires, HandStep
<1>4. CASE (\E q \in Pid : Exits(q)) \/ Closes \/ UNCHANGED vars
    BY <1>4, SameHands DEF Exits, ChildExits, Closes, CloseChannel, vars, HandStep
<1>. QED  BY <1>1, <1>2, <1>3, <1>4 DEF Next, Ticks

-----------------------------------------------------------------------------
(* What the steps do to the children.                                      *)

LEMMA SameOs ==
    ASSUME UNCHANGED os
    PROVE  OsStep
BY DEF OsStep

LEMMA SpawnOs ==
    ASSUME TypeInv, (\E q \in Pid : SpawnOk(q)) \/ SpawnFails
    PROVE  OsStep
<1>1. CASE SpawnFails
    BY <1>1, SameOs DEF SpawnFails
<1>2. ASSUME NEW q \in Pid, SpawnOk(q)
      PROVE  OsStep
    BY <1>2 DEF SpawnOk, NextPid, OsStep, TypeInv, TableTypeOK
<1>. QED  BY <1>1, <1>2

LEMMA ExitOs ==
    ASSUME TypeInv, NEW q \in Pid, ChildExits(q)
    PROVE  OsStep
BY EnvironmentAssumption DEF ChildExits, OsStep, TypeInv, TableTypeOK

\* Only a dead child is collected.
LEMMA CollectedDead ==
    ASSUME NEW p \in Process
    PROVE  Collected(p) \subseteq Dead /\ PollReaps(p) \subseteq Dead
BY HandlePid DEF Collected, PollReaps, Exited, Dead

LEMMA PollAllDead ==
    ASSUME TypeInv, NEW S
    PROVE  PollAllReaps(S) \subseteq Dead
<1>1. ASSUME NEW i \in S \cap Present
      PROVE  PollReaps(processes[i]) \subseteq Dead
    BY CollectedDead, PresentProcess DEF TypeInv
<1>. QED  BY <1>1 DEF PollAllReaps

LEMMA ClientChildren ==
    ASSUME TypeInv, NEW t \in Threads, Calls(t) \/ Steps(t)
    PROVE  ChildStep
<1>1. OsStep
    <2>1. CASE StartSpawn(t) \/ RestartInPlace(t) \/ RestartInsert(t)
        <3>1. (\E q \in Pid : SpawnOk(q)) \/ SpawnFails
            BY <2>1 DEF StartSpawn, RestartInPlace, RestartInsert
        <3>. QED  BY <3>1, SpawnOs
    <2>2. CASE ~(StartSpawn(t) \/ RestartInPlace(t) \/ RestartInsert(t))
        BY <2>2, SameOs DEF Calls, CallNext, Steps, StepNext, StartCall, StopCall,
           StopManyCall, RestartCall, Poll, DropManager, SendSignal, StartWaiting,
           AwaitReturn, AwaitTimeout, StopCheck, StopCancel, StopUnqueue, StopRemove,
           StopEscalate, StopReap, StopManyRemove, StopManySignal, StopManyEscalate,
           StopManyReap, RestartCheck, RestartBlocks, RestartReset, DropStop
    <2>. QED  BY <2>1, <2>2
<1>2. ReapStep
    <2>1. CASE Poll(t)
        <3>1. PICK i \in Present : reaped' = reaped \cup PollReaps(processes[i])
            BY <2>1 DEF Poll
        <3>. QED  BY <3>1, CollectedDead, PresentProcess DEF TypeInv, ReapStep
    <2>2. CASE StartSpawn(t) \/ StartWaiting(t)
        <3>1. \E S : reaped' = reaped \cup PollAllReaps(S)
            BY <2>2 DEF StartSpawn, StartWaiting
        <3>. QED  BY <3>1, PollAllDead DEF ReapStep
    <2>3. CASE StopReap(t)
        <3>1. calls[t].held[calls[t].cur] \in Process
            BY <2>3, CallRecord DEF StopReap, At, GoodCall, TypeInv
        <3>2. reaped' = reaped \cup Collected(calls[t].held[calls[t].cur])
            BY <2>3 DEF StopReap
        <3>. QED  BY <3>1, <3>2, CollectedDead DEF ReapStep
    <2>4. CASE StopManyReap(t)
        <3>1. \A i \in Held(t) : Collected(calls[t].held[i]) \subseteq Dead
            BY HeldType, CollectedDead DEF TypeInv
        <3>2. PICK S \in SUBSET Held(t) :
                 reaped' = reaped \cup UNION {Collected(calls[t].held[i]) : i \in S}
            BY <2>4 DEF StopManyReap
        <3>. QED  BY <3>1, <3>2 DEF ReapStep
    <2>5. CASE RestartReset(t)
        <3>1. \/ UNCHANGED reaped
              \/ /\ processes[calls[t].id] # NoProcess
                 /\ reaped' = reaped \cup Collected(processes[calls[t].id])
            BY <2>5 DEF RestartReset
        <3>2. calls[t].id \in ProcessId
            BY <2>5, CallRecord DEF RestartReset, At, GoodCall, TypeInv
        <3>. QED  BY <3>1, <3>2, CollectedDead DEF TypeInv, TableTypeOK, ReapStep
    <2>6. CASE ~(Poll(t) \/ StartSpawn(t) \/ StartWaiting(t) \/ StopReap(t)
                  \/ StopManyReap(t) \/ RestartReset(t))
        <3>1. UNCHANGED reaped
            BY <2>6 DEF Calls, CallNext, Steps, StepNext, StartCall, StopCall,
               StopManyCall, RestartCall, DropManager, SendSignal,
               AwaitReturn, AwaitTimeout, StopCheck, StopCancel, StopUnqueue, StopRemove,
               StopEscalate, StopManyRemove, StopManySignal, StopManyEscalate,
               RestartCheck, RestartBlocks, RestartInPlace, RestartInsert, DropStop
        <3>. QED  BY <3>1 DEF ReapStep
    <2>. QED  BY <2>1, <2>2, <2>3, <2>4, <2>5, <2>6
<1>. QED  BY <1>1, <1>2 DEF ChildStep

LEMMA ReaperChildren ==
    ASSUME IInv, ReaperNext
    PROVE  ChildStep
<1>. USE DEF IInv
<1>0. \A i \in Present : processes[i] \in Process
    BY PresentProcess DEF TypeInv
<1>1. ASSUME NEW i \in ProcessId, RestartSpawns(i) \/ SpawnWaiting(i)
      PROVE  OsStep
    <2>1. (\E q \in Pid : SpawnOk(q)) \/ SpawnFails \/ UNCHANGED os
        BY <1>1 DEF RestartSpawns, SpawnWaiting
    <2>. QED  BY <2>1, SpawnOs, SameOs
<1>2. ASSUME ~\E i \in ProcessId : RestartSpawns(i) \/ SpawnWaiting(i)
      PROVE  OsStep
    <2>1. UNCHANGED os
        BY <1>2 DEF ReaperNext, BeginCycle, EndDetect, CollectTargets, RemoveExited,
           EmitEvents, CollectEligible, CollectWaiting, CollectRunning, ScheduleResumes,
           DetectExit, DetectAlive, FlagTarget, ScheduleRestart, ScheduleBlocks,
           RestartSkips, RestartWaits, RestartWedges, CheckWaiting, FailWaiting, FailRunning
    <2>. QED  BY <2>1, SameOs DEF OsStep
<1>3. ASSUME NEW i \in ProcessId, DetectExit(i)
      PROVE  ReapStep
    <2>. DEFINE p == check_stable_uptime(processes[i])
    <2>1. p \in Process
        BY <1>0, <1>3, CarriedStable DEF DetectExit
    <2>2. Exited(p.child) /\ reaped' = reaped \cup {p.child}
        BY <1>3 DEF DetectExit
    <2>. HIDE DEF p
    <2>3. Collected(p) = {p.child}
        BY <2>2 DEF Collected
    <2>. QED  BY <2>1, <2>2, <2>3, CollectedDead DEF ReapStep
<1>4. ASSUME NEW i \in ProcessId, ScheduleRestart(i)
      PROVE  ReapStep
    <2>1. \/ UNCHANGED reaped
          \/ i \in Present /\ reaped' = reaped \cup Collected(processes[i])
        BY <1>4 DEF ScheduleRestart, Present
    <2>. QED  BY <1>0, <2>1, CollectedDead DEF ReapStep
<1>5. ASSUME ScheduleResumes
      PROVE  ReapStep
    <2>1. cur \in Present /\ reaped' = reaped \cup Collected(processes[cur])
        BY <1>5 DEF ScheduleResumes, In, GuardInv, ReaperWaits
    <2>. QED  BY <1>0, <2>1, CollectedDead DEF ReapStep
<1>6. ASSUME NEW i \in ProcessId, RestartSpawns(i) \/ RestartWaits(i)
      PROVE  ReapStep
    <2>1. \E S : reaped' = reaped \cup PollAllReaps(S)
        BY <1>6 DEF RestartSpawns, RestartWaits
    <2>. QED  BY <2>1, PollAllDead DEF ReapStep
<1>7. ASSUME ~ScheduleResumes,
             ~\E i \in ProcessId : \/ DetectExit(i) \/ ScheduleRestart(i)
                                   \/ RestartSpawns(i) \/ RestartWaits(i)
      PROVE  ReapStep
    <2>1. UNCHANGED reaped
        BY <1>7 DEF ReaperNext, BeginCycle, EndDetect, CollectTargets, RemoveExited,
           EmitEvents, CollectEligible, CollectWaiting, CollectRunning,
           DetectAlive, FlagTarget, ScheduleBlocks,
           RestartSkips, RestartWedges, CheckWaiting, SpawnWaiting, FailWaiting, FailRunning
    <2>. QED  BY <2>1 DEF ReapStep
<1>. QED  BY <1>1, <1>2, <1>3, <1>4, <1>5, <1>6, <1>7 DEF ChildStep

LEMMA ChildrenStep ==
    ASSUME IInv, [Next]_vars
    PROVE  ChildStep
<1>. USE DEF IInv
<1>1. ASSUME NEW q \in Pid, Exits(q)
      PROVE  ChildStep
    BY <1>1, ExitOs DEF Exits, ChildExits, ChildStep, ReapStep
<1>2. CASE (\E i \in ProcessId : Ticks(i)) \/ Closes \/ UNCHANGED vars
    BY <1>2, SameOs DEF Ticks, BackoffElapses, UptimeReached, DependencyExpires, Closes,
       CloseChannel, vars, ChildStep, ReapStep
<1>. QED  BY <1>1, <1>2, ClientChildren, ReaperChildren DEF Next, Ticks

-----------------------------------------------------------------------------
(* What the steps of the clients do to the map.                            *)

LEMMA MapStepKeeps ==
    ASSUME MapKeeps
    PROVE  MapStep
BY DEF MapStep

LEMMA MapStepChanges ==
    ASSUME NEW i \in ProcessId, Changes(i), \A j \in ProcessId \ {i} : Keeps(j)
    PROVE  MapStep
BY DEF MapStep

LEMMA CallMap ==
    ASSUME TypeInv, NEW t \in Threads, Calls(t)
    PROVE  MapKeeps
<1>1. CASE Poll(t)
    <2>1. PICK i \in Present : Put(i, Polled(processes[i]))
        BY <1>1 DEF Poll
    <2>2. processes[i] \in Process /\ processes[i] # NoProcess
        BY PresentProcess DEF TypeInv, Present
    <2>. QED  BY <2>1, <2>2, CarriedPolled, PutKeeps
<1>2. CASE ~Poll(t)
    <2>1. UNCHANGED processes
        BY <1>2 DEF Calls, CallNext, StartCall, StopCall, StopManyCall, RestartCall,
                    DropManager, SendSignal
    <2>. QED  BY <2>1, SameMap
<1>. QED  BY <1>1, <1>2

\* A call that has put in its record is past that step.
LEMMA PastInsert ==
    ASSUME TypeInv, NEW t \in Threads,
           \/ Return(t) \/ Restarted(t)
           \/ Becomes(t, [calls[t] EXCEPT !.pc = "await_deps"])
    PROVE  ~At(t, "start_insert")' /\ ~At(t, "restart_insert")'
<1>1. calls[t] \in Call
    BY CallRecord DEF TypeInv
<1>2. Return(t) => calls'[t].pc = "idle"
    BY DEF Return, Becomes, Idle, TypeInv
<1>3. Restarted(t) => calls'[t].pc \in {"idle", "restart_check"}
    BY <1>2 DEF Restarted, Becomes, Idle, TypeInv
<1>4. Becomes(t, [calls[t] EXCEPT !.pc = "await_deps"]) => calls'[t].pc = "await_deps"
    BY <1>1 DEF Becomes, Call, TypeInv
<1>. QED  BY <1>2, <1>3, <1>4 DEF At

LEMMA StartSpawnMap ==
    ASSUME TypeInv, NEW t \in Threads, StartSpawn(t)
    PROVE  MapStep
<1>1. PICK id \in ProcessId, c \in Configs : id = calls[t].id /\ c = calls[t].config
    BY CallRecord DEF StartSpawn, TypeInv, At, GoodCall
<1>2. ~At(t, "start_insert")' /\ ~At(t, "restart_insert")'
    BY PastInsert DEF StartSpawn
<1>3. PICK deps \in resolve_dependencies(c.depends_on) :
        \/ \E q \in Pid :
             /\ SpawnOk(q)
             /\ processes' = [PollAll(Visited(deps)) EXCEPT
                                ![id] = NewProcess(c, q, next_spawn_sequence, deps)]
             /\ next_spawn_sequence' = next_spawn_sequence + 1
        \/ processes' = PollAll(Visited(deps))
    BY <1>1 DEF StartSpawn
<1>4. ASSUME NEW q \in Pid, SpawnOk(q),
             processes' = [PollAll(Visited(deps)) EXCEPT
                             ![id] = NewProcess(c, q, next_spawn_sequence, deps)],
             next_spawn_sequence' = next_spawn_sequence + 1
      PROVE  MapStep
    <2>1. /\ processes'[id] = NewProcess(c, q, next_spawn_sequence, deps)
          /\ \A j \in ProcessId \ {id} : Keeps(j)
        BY <1>4, PollAllPutKeeps
    <2>2. q \in 0 .. MaxPid /\ deps \in Seq(ProcessId) /\ At(t, "start_insert")
        BY IdRange, BindingType DEF StartSpawn
    <2>3. Enters(id)
        BY <1>1, <1>2, <1>4, <2>1, <2>2 DEF Enters
    <2>. QED  BY <2>1, <2>3, MapStepChanges DEF Changes
<1>5. CASE processes' = PollAll(Visited(deps))
    BY <1>5, PollAllKeeps, MapStepKeeps DEF MapKeeps, Keeps
<1>. QED  BY <1>3, <1>4, <1>5

LEMMA StartWaitingMap ==
    ASSUME TypeInv, NEW t \in Threads, StartWaiting(t)
    PROVE  MapStep
<1>1. PICK id \in ProcessId, c \in Configs : id = calls[t].id /\ c = calls[t].config
    BY CallRecord DEF StartWaiting, TypeInv, At, GoodCall
<1>2. ~At(t, "start_insert")' /\ ~At(t, "restart_insert")'
    BY PastInsert DEF StartWaiting
<1>3. PICK deps \in resolve_dependencies(c.depends_on) :
        \E S : processes' = [PollAll(S) EXCEPT
                               ![id] = NewProcess(c, 0, next_spawn_sequence, deps)]
    BY <1>1 DEF StartWaiting
<1>4. /\ processes'[id] = NewProcess(c, 0, next_spawn_sequence, deps)
      /\ \A j \in ProcessId \ {id} : Keeps(j)
    BY <1>1, <1>3, PollAllPutKeeps
<1>5. /\ deps \in Seq(ProcessId) /\ At(t, "start_insert")
      /\ next_spawn_sequence' = next_spawn_sequence + 1 /\ 0 \in 0 .. MaxPid
    BY BindingType, BoundsAssumption DEF StartWaiting
<1>6. Enters(id)
    BY <1>1, <1>2, <1>4, <1>5 DEF Enters
<1>. QED  BY <1>4, <1>6, MapStepChanges DEF Changes

LEMMA RestartInsertMap ==
    ASSUME TypeInv, NEW t \in Threads, RestartInsert(t)
    PROVE  MapStep
<1>1. PICK id \in ProcessId, c \in Configs : id = calls[t].id /\ c = calls[t].config
    BY CallRecord DEF RestartInsert, TypeInv, At, GoodCall
<1>2. ASSUME NEW q \in Pid, SpawnOk(q),
             Put(id, NewProcess(c, q, next_spawn_sequence, <<>>)),
             next_spawn_sequence' = next_spawn_sequence + 1, Restarted(t)
      PROVE  MapStep
    <2>1. /\ processes'[id] = NewProcess(c, q, next_spawn_sequence, <<>>)
          /\ \A j \in ProcessId \ {id} : Keeps(j)
        BY <1>2, PutOthers
    <2>2. ~At(t, "start_insert")' /\ ~At(t, "restart_insert")'
        BY <1>2, PastInsert
    <2>3. q \in 0 .. MaxPid /\ <<>> \in Seq(ProcessId) /\ At(t, "restart_insert")
        BY IdRange DEF RestartInsert
    <2>4. Enters(id)
        BY <1>1, <1>2, <2>1, <2>2, <2>3 DEF Enters
    <2>. QED  BY <2>1, <2>4, MapStepChanges DEF Changes
<1>3. CASE UNCHANGED processes
    BY <1>3, SameMap, MapStepKeeps
<1>. QED  BY <1>1, <1>2, <1>3 DEF RestartInsert

LEMMA StopManyReapMap ==
    ASSUME TypeInv, NEW t \in Threads, StopManyReap(t)
    PROVE  MapStep
<1>1. PICK S : S = Reinserted(t)
    OBVIOUS
<1>2. S \subseteq Held(t) /\ S \in SUBSET ProcessId
    BY <1>1 DEF Reinserted, Held
<1>3. \A i \in S : /\ KillResult(calls[t].held[i]) = "EPERM"
                   /\ processes'[i] = [calls[t].held[i] EXCEPT !.state = "Failed"]
    BY <1>1, <1>2 DEF StopManyReap, Reinserted
<1>4. \A i \in ProcessId \ S : Keeps(i)
    <2>1. \A i \in ProcessId \ S : processes'[i] = processes[i]
        BY <1>1 DEF StopManyReap
    <2>. QED  BY <2>1, CarriedItself DEF Keeps, TypeInv, TableTypeOK
<1>5. calls'[t] = Idle
    BY DEF StopManyReap, Return, Becomes, TypeInv
<1>6. \A i \in ProcessId : calls'[t].held[i] = NoProcess
    BY <1>5 DEF Idle, NoneHeld
<1>. QED  BY <1>2, <1>3, <1>4, <1>6 DEF StopManyReap, PutsBack, MapStep

LEMMA RestartResetMap ==
    ASSUME TypeInv, NEW t \in Threads, RestartReset(t)
    PROVE  MapStep
<1>. DEFINE i == calls[t].id
<1>1. i \in ProcessId
    BY CallRecord DEF RestartReset, TypeInv, At, GoodCall
<1>2. CASE processes[i] = NoProcess
    BY <1>2, SameMap, MapStepKeeps DEF RestartReset
<1>3. CASE processes[i] # NoProcess
    <2>1. /\ ~Alive(processes[i].child)
          /\ Put(i, Reset(processes[i]))
          /\ reaped' = reaped \cup Collected(processes[i])
          /\ At(t, "restart_reset") \/ At(t, "restart_wait")
        BY <1>3 DEF RestartReset
    <2>2. Resets(i)
        BY <1>1, <1>3, <2>1, PutOthers DEF Resets, Present
    <2>. QED  BY <1>1, <2>1, <2>2, PutOthers, MapStepChanges DEF Changes
<1>. QED  BY <1>2, <1>3

LEMMA RestartInPlaceMap ==
    ASSUME TypeInv, NEW t \in Threads, RestartInPlace(t)
    PROVE  MapStep
<1>. DEFINE i == calls[t].id
            p == processes[i]
<1>1. i \in ProcessId
    BY CallRecord DEF RestartInPlace, TypeInv, At, GoodCall
<1>2. CASE UNCHANGED processes
    BY <1>2, SameMap, MapStepKeeps
<1>3. CASE ~UNCHANGED processes
    <2>1. PICK q \in Pid : SpawnOk(q) /\ p # NoProcess /\ Put(i, InPlace(p, q))
        BY <1>3 DEF RestartInPlace, InPlace
    <2>2. p \in Process
        BY <1>1, <2>1 DEF TypeInv, TableTypeOK
    <2>3. /\ processes'[i] = InPlace(p, q)
          /\ \A j \in ProcessId \ {i} : Keeps(j)
        BY <1>1, <2>1, PutOthers
    <2>4. /\ InPlace(p, q).pid = q /\ InPlace(p, q).child = q
          /\ InPlace(p, q).state = "Starting"
          /\ InPlace(p, q).config = p.config
          /\ InPlace(p, q).spawn_sequence = p.spawn_sequence
          /\ NoWorse(p, InPlace(p, q))
        BY <2>2 DEF InPlace, NoWorse, Process
    <2>5. i \in Present /\ At(t, "restart_in_place")
        BY <1>1, <2>1 DEF Present, RestartInPlace
    <2>6. Respawns(i)
        BY <2>1, <2>3, <2>4, <2>5 DEF Respawns
    <2>. QED  BY <1>1, <2>3, <2>6, MapStepChanges DEF Changes
<1>. QED  BY <1>2, <1>3

\* The other steps put nothing new into the map.
LEMMA OtherStepMap ==
    ASSUME TypeInv, NEW t \in Threads,
           \/ AwaitReturn(t) \/ AwaitTimeout(t)
           \/ StopCheck(t) \/ StopCancel(t) \/ StopUnqueue(t) \/ StopRemove(t)
           \/ StopEscalate(t) \/ StopReap(t) \/ StopManyRemove(t) \/ StopManySignal(t)
           \/ StopManyEscalate(t) \/ RestartCheck(t) \/ RestartBlocks(t) \/ DropStop(t)
    PROVE  MapKeeps
<1>1. CASE AwaitTimeout(t)
    <2>. DEFINE i == calls[t].id
    <2>1. i \in ProcessId
        BY <1>1, CallRecord DEF AwaitTimeout, TypeInv, At, GoodCall
    <2>2. \/ UNCHANGED processes
          \/ processes[i] # NoProcess /\ Put(i, [processes[i] EXCEPT !.state = "Failed"])
        BY <1>1 DEF AwaitTimeout
    <2>3. processes[i] # NoProcess => processes[i] \in Process
        BY <2>1 DEF TypeInv, TableTypeOK
    <2>. QED  BY <2>1, <2>2, <2>3, SameMap, CarriedEdits, PutKeeps
<1>2. CASE StopCancel(t) \/ StopUnqueue(t) \/ StopRemove(t) \/ StopManyRemove(t)
    <2>1. \E i : Put(i, NoProcess)
        BY <1>2 DEF StopCancel, StopUnqueue, StopRemove, StopManyRemove
    <2>. QED  BY <2>1, PutKeeps
<1>3. CASE \/ AwaitReturn(t) \/ StopCheck(t) \/ StopEscalate(t) \/ StopReap(t)
           \/ StopManySignal(t) \/ StopManyEscalate(t) \/ RestartCheck(t)
           \/ RestartBlocks(t) \/ DropStop(t)
    <2>1. UNCHANGED processes
        BY <1>3 DEF AwaitReturn, StopCheck, StopEscalate, StopReap, StopManySignal,
                    StopManyEscalate, RestartCheck, RestartBlocks, DropStop
    <2>. QED  BY <2>1, SameMap
<1>. QED  BY <1>1, <1>2, <1>3

LEMMA StepMap ==
    ASSUME TypeInv, NEW t \in Threads, Steps(t)
    PROVE  MapStep
BY StartSpawnMap, StartWaitingMap, RestartInsertMap, StopManyReapMap, RestartResetMap,
   RestartInPlaceMap, OtherStepMap, MapStepKeeps
DEF Steps, StepNext

-----------------------------------------------------------------------------
(* What the steps of the reaper and of the clock do to the map.            *)

\* The reaper visits the entry, and strikes it off the list.
Visit(i) ==
    \/ rpc = "flag" /\ Strikes(i) /\ i \notin todo'
    \/ rpc \in {"schedule", "schedule_wait"} /\ Schedules(i) /\ i \notin todo'
    \/ rpc = "restart" /\ (Requeues(i) \/ Respawns(i)) /\ i \notin todo'
    \/ rpc = "spawn" /\ Respawns(i) /\ i \notin to_spawn'

VisitStep ==
    \/ MapKeeps
    \/ \E i \in ProcessId : Visit(i) /\ \A j \in ProcessId \ {i} : Keeps(j)

LEMMA ScheduledVisit ==
    ASSUME TypeInv, NEW i \in Present, Put(i, Scheduled(processes[i])),
           ~Alive(processes[i].child), reaped' = reaped \cup Collected(processes[i]),
           (rpc = "schedule" /\ i \in todo) \/ (rpc = "schedule_wait" /\ i = cur),
           todo' = todo \ {i}
    PROVE  VisitStep
<1>1. i \in ProcessId
    BY DEF Present
<1>2. /\ processes'[i] = Scheduled(processes[i])
      /\ \A j \in ProcessId \ {i} : Keeps(j)
    BY <1>1, PutOthers
<1>3. Schedules(i)
    BY <1>2 DEF Schedules
<1>. QED  BY <1>1, <1>2, <1>3 DEF Visit, VisitStep

LEMMA DetectMap ==
    ASSUME TypeInv, NEW i \in ProcessId, DetectExit(i) \/ DetectAlive(i)
    PROVE  MapKeeps
<1>. DEFINE p == check_stable_uptime(processes[i])
<1>1. processes[i] \in Process /\ processes[i] # NoProcess
    BY PresentProcess DEF DetectExit, DetectAlive, TypeInv, Present
<1>2. p \in Process /\ Carried(processes[i], p)
    BY <1>1, CarriedStable
<1>3. \/ Put(i, [p EXCEPT !.cascade_flag = FALSE])
      \/ p.state = "Starting" /\ Put(i, [p EXCEPT !.state = "Running"])
      \/ Put(i, p)
    BY DEF DetectExit, DetectAlive
<1>. HIDE DEF p
<1>4. /\ [p EXCEPT !.cascade_flag = FALSE] \in Process
      /\ [p EXCEPT !.state = "Running"] \in Process
    BY <1>2 DEF Process, ProcessState
<1>5. /\ Carried(processes[i], [p EXCEPT !.cascade_flag = FALSE])
      /\ p.state = "Starting" => Carried(processes[i], [p EXCEPT !.state = "Running"])
    BY <1>1, <1>2, <1>4, CarriedEdits, CarriedTwice
<1>. QED  BY <1>1, <1>2, <1>3, <1>5, PutKeeps

LEMMA FlagVisit ==
    ASSUME TypeInv, NEW i \in ProcessId, FlagTarget(i)
    PROVE  VisitStep
<1>1. CASE UNCHANGED processes
    BY <1>1, SameMap DEF VisitStep
<1>2. CASE ~UNCHANGED processes
    <2>1. /\ rpc = "flag" /\ i \in todo \cap Present /\ processes[i].pid # 0
          /\ Put(i, Flagged(processes[i])) /\ todo' = todo \ {i}
        BY <1>2 DEF FlagTarget, In, Present, Done
    <2>2. Strikes(i) /\ \A j \in ProcessId \ {i} : Keeps(j)
        BY <2>1, PutOthers DEF Strikes
    <2>. QED  BY <2>1, <2>2 DEF Visit, VisitStep
<1>. QED  BY <1>1, <1>2

LEMMA PerformRestartVisit ==
    ASSUME TypeInv, NEW i \in ProcessId, RestartSpawns(i) \/ RestartWaits(i)
    PROVE  VisitStep
<1>. DEFINE p == processes[i]
<1>1. /\ rpc = "restart" /\ i \in todo \cap Present /\ i \notin todo'
      /\ p \in Process /\ p.config \in Configs /\ p.resolved_deps \in Seq(ProcessId)
    BY PresentProcess DEF RestartSpawns, RestartWaits, In, Done, TypeInv, Process
<1>2. PICK deps \in resolve_dependencies(p.config.depends_on) : \E b :
        /\ processes' = [PollAll(Visited(deps)) EXCEPT ![i] = b]
        /\ \/ \E q \in Pid :
                /\ SpawnOk(q)
                /\ b = Respawned(p, q, IF deps = <<>> THEN p.resolved_deps ELSE deps)
           \/ b = NoProcess
           \/ b = Requeued(p, deps)
    BY DEF RestartSpawns, RestartWaits, BindingsBelow
<1>3. PICK b :
        /\ processes' = [PollAll(Visited(deps)) EXCEPT ![i] = b]
        /\ \/ \E q \in Pid :
                /\ SpawnOk(q)
                /\ b = Respawned(p, q, IF deps = <<>> THEN p.resolved_deps ELSE deps)
           \/ b = NoProcess
           \/ b = Requeued(p, deps)
    BY <1>2
<1>4. deps \in Seq(ProcessId)
    BY <1>1, BindingType
<1>5. processes'[i] = b /\ \A j \in ProcessId \ {i} : Keeps(j)
    BY <1>3, PollAllPutKeeps
<1>6. ASSUME NEW q \in Pid, NEW d, SpawnOk(q), b = Respawned(p, q, d)
      PROVE  VisitStep
    <2>1. /\ b.pid = q /\ b.child = q /\ b.state = "Starting"
          /\ b.config = p.config /\ b.spawn_sequence = p.spawn_sequence /\ NoWorse(p, b)
        BY <1>1, <1>6 DEF Respawned, NoWorse, Process
    <2>2. Respawns(i)
        BY <1>1, <1>5, <1>6, <2>1 DEF Respawns
    <2>. QED  BY <1>1, <1>5, <2>2 DEF Visit, VisitStep
<1>7. CASE b = NoProcess
    BY <1>5, <1>7 DEF MapKeeps, Keeps, VisitStep
<1>8. CASE b = Requeued(p, deps)
    <2>1. Requeues(i)
        BY <1>1, <1>4, <1>5, <1>8 DEF Requeues
    <2>. QED  BY <1>1, <1>5, <2>1 DEF Visit, VisitStep
<1>. QED  BY <1>3, <1>6, <1>7, <1>8

LEMMA SpawnWaitingVisit ==
    ASSUME TypeInv, NEW i \in ProcessId, SpawnWaiting(i)
    PROVE  VisitStep
<1>. DEFINE p == processes[i]
<1>1. CASE UNCHANGED processes \/ Put(i, NoProcess)
    BY <1>1, SameMap, PutKeeps DEF VisitStep
<1>2. CASE ~(UNCHANGED processes \/ Put(i, NoProcess))
    <2>1. /\ rpc = "spawn" /\ i \in to_spawn /\ i \in Present /\ i \notin to_spawn'
          /\ \E q \in Pid : SpawnOk(q) /\ Put(i, SpawnedWaiting(p, q))
        BY <1>2 DEF SpawnWaiting, RemoveFailed, In, Present
    <2>2. PICK q \in Pid : SpawnOk(q) /\ Put(i, SpawnedWaiting(p, q))
        BY <2>1
    <2>3. /\ processes'[i] = SpawnedWaiting(p, q)
          /\ \A j \in ProcessId \ {i} : Keeps(j)
        BY <2>2, PutOthers
    <2>4. p \in Process
        BY <2>1, PresentProcess DEF TypeInv
    <2>5. /\ SpawnedWaiting(p, q).pid = q /\ SpawnedWaiting(p, q).child = q
          /\ SpawnedWaiting(p, q).state = "Starting"
          /\ SpawnedWaiting(p, q).config = p.config
          /\ SpawnedWaiting(p, q).spawn_sequence = p.spawn_sequence
          /\ NoWorse(p, SpawnedWaiting(p, q))
        BY <2>4 DEF SpawnedWaiting, NoWorse, Process
    <2>6. Respawns(i)
        BY <2>1, <2>2, <2>3, <2>5 DEF Respawns
    <2>. QED  BY <2>1, <2>3, <2>6 DEF Visit, VisitStep
<1>. QED  BY <1>1, <1>2

\* Of an entry of the map, the reaper makes what it has on its list.
LEMMA ReaperVisits ==
    ASSUME IInv, ReaperNext
    PROVE  VisitStep
<1>. USE DEF IInv
<1>1. CASE BeginCycle \/ EndDetect \/ CollectTargets \/ EmitEvents
             \/ CollectEligible \/ CollectWaiting \/ CollectRunning
             \/ \E i \in ProcessId : RestartSkips(i) \/ ScheduleBlocks(i) \/ RestartWedges(i)
    <2>1. UNCHANGED processes
        BY <1>1 DEF BeginCycle, EndDetect, CollectTargets, EmitEvents, CollectEligible,
                    CollectWaiting, CollectRunning, RestartSkips, ScheduleBlocks,
                    RestartWedges
    <2>. QED  BY <2>1, SameMap DEF VisitStep
<1>2. CASE RemoveExited
    <2>1. \A i \in ProcessId : processes'[i] \in {NoProcess, processes[i]}
        BY <1>2 DEF RemoveExited
    <2>. QED  BY <2>1, CarriedItself DEF MapKeeps, Keeps, VisitStep, TypeInv, TableTypeOK
<1>3. CASE ScheduleResumes
    <2>1. /\ cur \in Present /\ Put(cur, Scheduled(processes[cur]))
          /\ ~Alive(processes[cur].child)
          /\ reaped' = reaped \cup Collected(processes[cur])
          /\ rpc = "schedule_wait" /\ todo' = todo \ {cur}
        BY <1>3 DEF ScheduleResumes, In, GuardInv, ReaperWaits
    <2>. QED  BY <2>1, ScheduledVisit
<1>4. ASSUME NEW i \in ProcessId, ScheduleRestart(i)
      PROVE  VisitStep
    <2>1. \/ UNCHANGED processes
          \/ /\ i \in Present /\ Put(i, Scheduled(processes[i]))
             /\ ~Alive(processes[i].child)
             /\ reaped' = reaped \cup Collected(processes[i])
             /\ rpc = "schedule" /\ i \in todo /\ todo' = todo \ {i}
        BY <1>4 DEF ScheduleRestart, In, Present, Done
    <2>. QED  BY <2>1, ScheduledVisit, SameMap DEF VisitStep
<1>5. ASSUME NEW i \in ProcessId, CheckWaiting(i)
      PROVE  MapKeeps
    <2>1. \/ UNCHANGED processes
          \/ /\ i \in Present
             /\ \E deps : Put(i, [processes[i] EXCEPT !.resolved_deps = deps])
        BY <1>5 DEF CheckWaiting, Present
    <2>2. i \in Present => processes[i] \in Process /\ processes[i] # NoProcess
        BY PresentProcess DEF Present, TypeInv
    <2>3. i \in Present => \A deps :
             Carried(processes[i], [processes[i] EXCEPT !.resolved_deps = deps])
        BY <2>2, CarriedEdits
    <2>. QED  BY <2>1, <2>2, <2>3, SameMap, PutKeeps
<1>6. ASSUME NEW i \in ProcessId, FailWaiting(i) \/ FailRunning(i)
      PROVE  MapKeeps
    <2>1. UNCHANGED processes \/ Put(i, NoProcess)
        BY <1>6 DEF FailWaiting, FailRunning, RemoveFailed
    <2>. QED  BY <2>1, SameMap, PutKeeps
<1>. QED
    BY <1>1, <1>2, <1>3, <1>4, <1>5, <1>6, DetectMap, FlagVisit, PerformRestartVisit,
       SpawnWaitingVisit
    DEF ReaperNext, VisitStep

LEMMA ReaperMap ==
    ASSUME IInv, ReaperNext
    PROVE  MapStep
BY ReaperVisits, MapStepKeeps, MapStepChanges DEF VisitStep, Visit, Changes

LEMMA TicksMap ==
    ASSUME TypeInv, NEW i \in ProcessId, Ticks(i)
    PROVE  MapKeeps
<1>1. processes[i] \in Process /\ processes[i] # NoProcess
    BY PresentProcess DEF TypeInv, Ticks, BackoffElapses, UptimeReached,
                          DependencyExpires, InState, Present
<1>2. \/ Put(i, [processes[i] EXCEPT !.backoff = "elapsed"])
      \/ Put(i, [processes[i] EXCEPT !.stable = TRUE])
      \/ Put(i, [processes[i] EXCEPT !.expired = TRUE])
    BY DEF Ticks, BackoffElapses, UptimeReached, DependencyExpires
<1>. QED  BY <1>1, <1>2, CarriedEdits, PutKeeps

LEMMA MapsStep ==
    ASSUME IInv, [Next]_vars
    PROVE  MapStep
<1>. USE DEF IInv
<1>1. ASSUME NEW t \in Threads, Calls(t) \/ Steps(t)
      PROVE  MapStep
    BY <1>1, CallMap, StepMap, MapStepKeeps
<1>2. ASSUME NEW i \in ProcessId, Ticks(i)
      PROVE  MapStep
    BY <1>2, TicksMap, MapStepKeeps
<1>3. CASE (\E q \in Pid : Exits(q)) \/ Closes \/ UNCHANGED vars
    <2>1. UNCHANGED processes
        BY <1>3 DEF Exits, ChildExits, Closes, CloseChannel, vars
    <2>. QED  BY <2>1, SameMap, MapStepKeeps
<1>. QED  BY <1>1, <1>2, <1>3, ReaperMap DEF Next, Ticks

-----------------------------------------------------------------------------
\* Every step of the system, whoever takes it, is one of these.
LEMMA EveryStep ==
    ASSUME IInv, [Next]_vars
    PROVE  RecordStep
BY ChildrenStep, MapsStep, HandsStep DEF RecordStep

-----------------------------------------------------------------------------
(* A handle is in one place.                                               *)

\* A handle is that of the pid on record, and of a child that was born.
GoodHandle(p) ==
    p.child # 0 => p.child = p.pid /\ p.child \in Pid /\ os[p.child] # "unborn"

InHand(t, i) == calls[t].held[i]

GoodHandles ==
    /\ \A i \in Present : GoodHandle(processes[i])
    /\ \A t \in Threads : \A i \in Held(t) : GoodHandle(InHand(t, i))

EntriesApart ==
    \A i, j \in Present :
        processes[i].child # 0 /\ processes[i].child = processes[j].child => i = j

EntryHandApart ==
    \A t \in Threads : \A i \in Held(t), j \in Present :
        InHand(t, i).child # 0 => InHand(t, i).child # processes[j].child

HandsApart ==
    \A t, u \in Threads : \A i \in Held(t), j \in Held(u) :
        InHand(t, i).child # 0 /\ InHand(t, i).child = InHand(u, j).child
            => t = u /\ i = j

HandleInv ==
    GoodHandles /\ EntriesApart /\ EntryHandApart /\ HandsApart /\ reaped \subseteq Dead

\* Where the handle of an entry comes from.
Newborn(i) ==
    /\ \E q \in Pid : SpawnOk(q) /\ processes'[i].child = q /\ processes'[i].pid = q
    /\ \A j \in ProcessId \ {i} : Keeps(j)

FromMap(i) ==
    /\ i \in Present
    /\ processes'[i].child = processes[i].child
    /\ processes'[i].pid = processes[i].pid

FromHand(t, i) ==
    /\ i \in Held(t)
    /\ processes'[i].child = InHand(t, i).child
    /\ processes'[i].pid = InHand(t, i).pid
    /\ KillResult(InHand(t, i)) = "EPERM"
    /\ calls'[t].held[i] = NoProcess

\* Where the handle of a record in the hands of a call comes from.
Stays(t, i) ==
    /\ i \in Held(t)
    /\ InHand(t, i)'.child = InHand(t, i).child
    /\ InHand(t, i)'.pid = InHand(t, i).pid

Taken(t, i) ==
    /\ i \in Present
    /\ processes'[i] = NoProcess
    /\ InHand(t, i)'.child = processes[i].child
    /\ InHand(t, i)'.pid = processes[i].pid
    /\ \A u \in Threads \ {t} : HandKeeps(u, i)

LEMMA KeptFromMap ==
    ASSUME NEW i \in Present', Keeps(i)
    PROVE  FromMap(i)
BY DEF Keeps, Carried, SameRecord, FromMap, Present

LEMMA MapSource ==
    ASSUME TypeInv, RecordStep, NEW i \in Present', processes'[i].child # 0
    PROVE  Newborn(i) \/ FromMap(i) \/ \E t \in Threads : FromHand(t, i)
<1>0. i \in ProcessId /\ processes'[i] # NoProcess
    BY DEF Present
<1>1. CASE Keeps(i)
    BY <1>1, KeptFromMap
<1>2. CASE Changes(i) /\ \A j \in ProcessId \ {i} : Keeps(j)
    <2>1. CASE Respawns(i)
        BY <1>2, <2>1 DEF Respawns, Newborn
    <2>2. CASE Enters(i)
        <3>1. PICK q \in 0 .. MaxPid :
                 /\ q = 0 \/ SpawnOk(q)
                 /\ \E c, deps :
                      processes'[i] = NewProcess(c, q, next_spawn_sequence, deps)
            BY <2>2 DEF Enters
        <3>2. \A c, deps : /\ NewProcess(c, q, next_spawn_sequence, deps).child = q
                           /\ NewProcess(c, q, next_spawn_sequence, deps).pid = q
            BY DEF NewProcess
        <3>3. processes'[i].child = q /\ processes'[i].pid = q /\ q # 0
            BY <3>1, <3>2
        <3>4. q \in Pid
            BY <3>3, BoundsAssumption DEF Pid
        <3>. QED  BY <1>2, <3>1, <3>3, <3>4 DEF Newborn
    <2>3. CASE Strikes(i)
        <3>1. processes[i] \in Process /\ i \in Present
            BY <2>3, PresentProcess DEF Strikes, TypeInv
        <3>2. Flagged(processes[i]).child = processes[i].child
              /\ Flagged(processes[i]).pid = processes[i].pid
            BY <3>1 DEF Flagged, Process
        <3>. QED  BY <2>3, <3>1, <3>2 DEF Strikes, FromMap
    <2>4. CASE Schedules(i)
        <3>1. processes[i] \in Process
            BY <2>4, PresentProcess DEF Schedules, TypeInv
        <3>2. Scheduled(processes[i]).child = 0
            BY <3>1 DEF Scheduled, Process
        <3>. QED  BY <2>4, <3>2 DEF Schedules
    <2>5. CASE Requeues(i)
        <3>1. processes[i] \in Process /\ i \in Present
            BY <2>5, PresentProcess DEF Requeues, TypeInv
        <3>2. \A deps : Requeued(processes[i], deps).child = processes[i].child
                        /\ Requeued(processes[i], deps).pid = processes[i].pid
            BY <3>1 DEF Requeued, Process
        <3>. QED  BY <2>5, <3>1, <3>2 DEF Requeues, FromMap
    <2>6. CASE Resets(i)
        <3>1. processes[i] \in Process
            BY <2>6, PresentProcess DEF Resets, TypeInv
        <3>2. Reset(processes[i]).child = 0
            BY <3>1 DEF Reset, Process
        <3>. QED  BY <2>6, <3>2 DEF Resets
    <2>. QED  BY <1>2, <2>1, <2>2, <2>3, <2>4, <2>5, <2>6 DEF Changes
<1>3. ASSUME NEW t \in Threads, NEW S \in SUBSET ProcessId, PutsBack(t, S), i \in S
      PROVE  FromHand(t, i)
    <2>1. i \in Held(t) /\ InHand(t, i) \in Process
        BY <1>3, HeldType DEF PutsBack, InHand, TypeInv
    <2>2. [InHand(t, i) EXCEPT !.state = "Failed"].child = InHand(t, i).child
          /\ [InHand(t, i) EXCEPT !.state = "Failed"].pid = InHand(t, i).pid
        BY <2>1 DEF Process
    <2>. QED  BY <1>0, <1>3, <2>1, <2>2 DEF PutsBack, FromHand, InHand
<1>4. \/ Keeps(i)
      \/ Changes(i) /\ \A j \in ProcessId \ {i} : Keeps(j)
      \/ \E t \in Threads, S \in SUBSET ProcessId : PutsBack(t, S) /\ i \in S
    BY <1>0 DEF RecordStep, MapStep, MapKeeps, PutsBack
<1>. QED  BY <1>1, <1>2, <1>3, <1>4

LEMMA HandSource ==
    ASSUME TypeInv, RecordStep, NEW t \in Threads, NEW i \in Held(t)',
           InHand(t, i)'.child # 0
    PROVE  Stays(t, i) \/ Taken(t, i)
<1>0. i \in ProcessId /\ calls'[t].held[i] # NoProcess
    BY DEF Held
<1>1. CASE HandKeeps(t, i)
    BY <1>0, <1>1 DEF HandKeeps, SameRecord, Stays, Held, InHand
<1>2. CASE Takes(t, i)
    BY <1>0, <1>2 DEF Takes, SameRecord, Taken, InHand
<1>. QED
    BY <1>0, <1>1, <1>2 DEF RecordStep, HandStep, HandsKeep, Takes

LEMMA HandlesInitial == Init => HandleInv
BY DEF Init, TableInit, ManagerInit, HandleInv, GoodHandles, EntriesApart, EntryHandApart,
       HandsApart, Present, Held,
       Idle, NoneHeld

\* A record that has a handle was given it by a child that had been born.
LEMMA HandlesInductive ==
    ASSUME TypeInv, HandleInv, RecordStep
    PROVE  HandleInv'
<1>. USE DEF HandleInv
<1>1. \A i \in Present : processes[i].child # 0 =>
         /\ processes[i].child = processes[i].pid
         /\ processes[i].child \in Pid /\ os[processes[i].child] # "unborn"
    BY DEF GoodHandles, GoodHandle
<1>2. \A t \in Threads : \A i \in Held(t) : InHand(t, i).child # 0 =>
         /\ InHand(t, i).child = InHand(t, i).pid
         /\ InHand(t, i).child \in Pid /\ os[InHand(t, i).child] # "unborn"
    BY DEF GoodHandles, GoodHandle
<1>3. \A q \in Pid : os[q] # "unborn" => os'[q] # "unborn"
    BY DEF RecordStep, ChildStep, OsStep
<1>4. ASSUME NEW q \in Pid, SpawnOk(q)
      PROVE  os[q] = "unborn" /\ os'[q] # "unborn"
    BY <1>4 DEF SpawnOk, NextPid, TypeInv, TableTypeOK
<1>5. reaped' \subseteq Dead'
    <2>1. Dead \subseteq Dead'
        BY DEF RecordStep, ChildStep, OsStep, Dead
    <2>. QED  BY <2>1 DEF RecordStep, ChildStep, ReapStep
<1>6. GoodHandles'
    <2>1. ASSUME NEW i \in Present', processes'[i].child # 0
          PROVE  /\ processes'[i].child = processes'[i].pid
                 /\ processes'[i].child \in Pid /\ os'[processes'[i].child] # "unborn"
        <3>1. CASE Newborn(i)
            BY <1>4, <3>1 DEF Newborn
        <3>2. CASE FromMap(i)
            BY <1>1, <1>3, <2>1, <3>2 DEF FromMap
        <3>3. ASSUME NEW t \in Threads, FromHand(t, i)
              PROVE  /\ processes'[i].child = processes'[i].pid
                     /\ processes'[i].child \in Pid /\ os'[processes'[i].child] # "unborn"
            BY <1>2, <1>3, <2>1, <3>3 DEF FromHand
        <3>. QED  BY <2>1, <3>1, <3>2, <3>3, MapSource
    <2>2. ASSUME NEW t \in Threads, NEW i \in Held(t)', InHand(t, i)'.child # 0
          PROVE  /\ InHand(t, i)'.child = InHand(t, i)'.pid
                 /\ InHand(t, i)'.child \in Pid /\ os'[InHand(t, i)'.child] # "unborn"
        <3>1. CASE Stays(t, i)
            BY <1>2, <1>3, <2>2, <3>1 DEF Stays
        <3>2. CASE Taken(t, i)
            BY <1>1, <1>3, <2>2, <3>2 DEF Taken
        <3>. QED  BY <2>2, <3>1, <3>2, HandSource
    <2>. QED  BY <2>1, <2>2 DEF GoodHandles, GoodHandle
<1>7. ASSUME NEW i \in Present', NEW j \in Present', processes'[i].child # 0,
             processes'[i].child = processes'[j].child, i # j
      PROVE  FALSE
    <2>1. i \in ProcessId /\ j \in ProcessId
        BY DEF Present
    <2>2. ASSUME NEW k \in Present', NEW l \in Present', Newborn(k), k # l,
                 processes'[k].child # 0, processes'[k].child = processes'[l].child
          PROVE  FALSE
        <3>1. PICK q \in Pid : SpawnOk(q) /\ processes'[k].child = q
            BY <2>2 DEF Newborn
        <3>2. os[q] = "unborn"
            BY <1>4, <3>1
        <3>3. FromMap(l)
            BY <2>2, KeptFromMap DEF Newborn, Present
        <3>. QED  BY <1>1, <2>2, <3>1, <3>2, <3>3 DEF FromMap
    <2>3. ~Newborn(i) /\ ~Newborn(j)
        BY <1>7, <2>2
    <2>4. CASE FromMap(i) /\ FromMap(j)
        BY <1>7, <2>4 DEF FromMap, EntriesApart
    <2>5. ASSUME NEW k \in Present', NEW l \in Present', NEW t \in Threads,
                 FromMap(k), FromHand(t, l),
                 processes'[k].child # 0, processes'[k].child = processes'[l].child
          PROVE  FALSE
        BY <2>5 DEF FromMap, FromHand, EntryHandApart
    <2>6. ASSUME NEW t \in Threads, NEW u \in Threads, FromHand(t, i), FromHand(u, j)
          PROVE  FALSE
        BY <1>7, <2>6 DEF FromHand, HandsApart
    <2>. QED  BY <1>7, <2>3, <2>4, <2>5, <2>6, MapSource
<1>8. ASSUME NEW t \in Threads, NEW i \in Held(t)', NEW j \in Present',
             InHand(t, i)'.child # 0, InHand(t, i)'.child = processes'[j].child
      PROVE  FALSE
    <2>1. i \in ProcessId /\ j \in ProcessId /\ processes'[j] # NoProcess
          /\ calls'[t].held[i] # NoProcess
        BY DEF Present, Held
    <2>2. Stays(t, i) \/ Taken(t, i)
        BY <1>8, HandSource
    <2>3. InHand(t, i)'.child \in Pid /\ os[InHand(t, i)'.child] # "unborn"
        BY <1>1, <1>2, <1>8, <2>2 DEF Stays, Taken
    <2>4. ~Newborn(j)
        BY <1>4, <1>8, <2>3 DEF Newborn
    <2>5. CASE FromMap(j)
        BY <1>8, <2>1, <2>2, <2>5 DEF FromMap, Stays, Taken, EntriesApart,
                                       EntryHandApart
    <2>6. ASSUME NEW u \in Threads, FromHand(u, j)
          PROVE  FALSE
        <3>1. CASE Stays(t, i)
            <4>1. t = u /\ i = j
                BY <1>8, <2>6, <3>1 DEF FromHand, Stays, HandsApart
            <4>. QED  BY <2>1, <2>6, <4>1 DEF FromHand
        <3>2. CASE Taken(t, i)
            BY <1>8, <2>6, <3>2 DEF FromHand, Taken, EntryHandApart
        <3>. QED  BY <2>2, <3>1, <3>2
    <2>. QED  BY <1>8, <2>4, <2>5, <2>6, MapSource
<1>9. ASSUME NEW t \in Threads, NEW u \in Threads, NEW i \in Held(t)', NEW j \in Held(u)',
             InHand(t, i)'.child # 0, InHand(t, i)'.child = InHand(u, j)'.child
      PROVE  t = u /\ i = j
    <2>1. /\ Stays(t, i) \/ Taken(t, i)
          /\ Stays(u, j) \/ Taken(u, j)
        BY <1>9, HandSource
    <2>2. CASE Stays(t, i) /\ Stays(u, j)
        BY <1>9, <2>2 DEF Stays, HandsApart
    <2>3. ~(Stays(t, i) /\ Taken(u, j)) /\ ~(Taken(t, i) /\ Stays(u, j))
        BY <1>9 DEF Stays, Taken, EntryHandApart
    <2>4. CASE Taken(t, i) /\ Taken(u, j)
        <3>1. i = j
            BY <1>9, <2>4 DEF Taken, EntriesApart
        <3>2. ASSUME t # u
              PROVE  FALSE
            <4>1. HandKeeps(u, j) /\ calls'[u].held[j] # NoProcess /\ j \in ProcessId
                BY <2>4, <3>1, <3>2 DEF Taken, Held
            <4>2. Stays(u, j)
                BY <1>9, <4>1 DEF HandKeeps, SameRecord, Stays, Held, InHand
            <4>. QED  BY <2>3, <2>4, <4>2
        <3>. QED  BY <3>1, <3>2
    <2>. QED  BY <2>1, <2>2, <2>3, <2>4
<1>10. EntriesApart' /\ EntryHandApart' /\ HandsApart'
    BY <1>7, <1>8, <1>9 DEF EntriesApart, EntryHandApart, HandsApart
<1>. QED  BY <1>5, <1>6, <1>10

-----------------------------------------------------------------------------
(* What has been reported, and what is about to be.                        *)

\* The phases that use the list of the exits found in this cycle.
Reporting == {"detect", "cascade", "flag", "remove", "emit"}

Found(i) == exited[i] # NoProcess

Pending(q) == \E i \in ProcessId : Found(i) /\ exited[i].pid = q

Reports(e, q) == e.exited /\ e.pid = q

Reported(q) ==
    \E i \in ProcessId : \E k \in DOMAIN events[i] : Reports(events[i][k], q)

\* The reaper is still to remove entry i, or to release its handle.
Due(i) ==
    \/ rpc = "detect" /\ i \notin todo /\ Found(i)
    \/ rpc \in {"cascade", "flag", "remove"} /\ Found(i)
    \/ rpc = "emit" /\ Found(i) /\ exited[i].restart
    \/ rpc \in {"schedule", "schedule_wait"} /\ i \in todo
    \/ rpc = "done"

\* What is found has been collected, is new, and is found once.
FoundOnce ==
    \A i \in ProcessId : Found(i) =>
        /\ exited[i].pid \in reaped
        /\ ~Reported(exited[i].pid)
        /\ \A j \in ProcessId : Found(j) /\ exited[j].pid = exited[i].pid => i = j

ReportedCollected ==
    \A i \in ProcessId : \A k \in DOMAIN events[i] :
        events[i][k].exited => events[i][k].pid \in reaped

\* The record of a child that is reported does not outlive the cycle.
HandleDue ==
    \A i \in Present :
        LET q == processes[i].child IN
        q # 0 /\ (Reported(q) \/ Pending(q)) => Due(i)

FoundOnlyInCycle == rpc \notin Reporting => exited = NoneExited

ReportInv ==
    FoundOnce /\ ReportedCollected /\ HandleDue /\ FoundOnlyInCycle /\ ExitReportedOnce

\* At most events that report no exit are sent.
Quiet ==
    \A i \in ProcessId :
        \/ events'[i] = events[i]
        \/ \E e \in ProcessExitEvent :
              ~e.exited /\ events'[i] = Append(events[i], e)

LEMMA EventType ==
    ASSUME TypeInv, NEW i \in ProcessId
    PROVE  /\ events[i] \in Seq(ProcessExitEvent)
           /\ DOMAIN events[i] = 1 .. Len(events[i]) /\ Len(events[i]) \in Nat
           /\ \A k \in DOMAIN events[i] : events[i][k] \in ProcessExitEvent
<1>1. events[i] \in Seq(ProcessExitEvent)
    BY DEF TypeInv, TableTypeOK
<1>. QED  BY <1>1

\* What is in a list with one more element.
LEMMA AppendedType ==
    ASSUME NEW S, NEW s \in Seq(S), NEW e \in S, NEW k \in DOMAIN Append(s, e)
    PROVE  \/ k \in DOMAIN s /\ Append(s, e)[k] = s[k]
           \/ k = Len(s) + 1 /\ Append(s, e)[k] = e
<1>1. Len(s) \in Nat /\ DOMAIN s = 1 .. Len(s) /\ DOMAIN Append(s, e) = 1 .. (Len(s) + 1)
    OBVIOUS
<1>2. CASE k \in 1 .. Len(s)
    BY <1>1, <1>2
<1>3. CASE k = Len(s) + 1
    BY <1>1, <1>3
<1>. QED  BY <1>1, <1>2, <1>3

LEMMA AppendKeeps ==
    ASSUME NEW S, NEW s \in Seq(S), NEW e \in S
    PROVE  /\ \A k \in DOMAIN s : k \in DOMAIN Append(s, e) /\ Append(s, e)[k] = s[k]
           /\ Len(s) + 1 \in DOMAIN Append(s, e) /\ Append(s, e)[Len(s) + 1] = e
<1>1. Len(s) \in Nat /\ DOMAIN s = 1 .. Len(s) /\ DOMAIN Append(s, e) = 1 .. (Len(s) + 1)
    OBVIOUS
<1>. QED  BY <1>1

LEMMA QuietExits ==
    ASSUME TypeInv, Quiet, NEW i \in ProcessId, NEW k \in DOMAIN events'[i],
           events'[i][k].exited
    PROVE  k \in DOMAIN events[i] /\ events'[i][k] = events[i][k]
<1>1. CASE events'[i] = events[i]
    BY <1>1
<1>2. ASSUME NEW e \in ProcessExitEvent, ~e.exited, events'[i] = Append(events[i], e)
      PROVE  k \in DOMAIN events[i] /\ events'[i][k] = events[i][k]
    BY <1>2, EventType, AppendedType
<1>. QED  BY <1>1, <1>2 DEF Quiet

LEMMA QuietReported ==
    ASSUME TypeInv, Quiet
    PROVE  \A q : Reported(q)' => Reported(q)
BY QuietExits DEF Reported, Reports

LEMMA QuietReportedOnce ==
    ASSUME TypeInv, Quiet, ExitReportedOnce
    PROVE  ExitReportedOnce'
BY QuietExits DEF ExitReportedOnce

-----------------------------------------------------------------------------
(* Steps that find no exit and report none.                                *)

\* A record that holds a collected child holds it already.
LEMMA CollectedFromMap ==
    ASSUME TypeInv, HandleInv, RecordStep, NEW i \in Present',
           processes'[i].child # 0, processes'[i].child \in reaped
    PROVE  FromMap(i)
<1>1. CASE Newborn(i)
    <2>1. PICK q \in Pid : SpawnOk(q) /\ processes'[i].child = q
        BY <1>1 DEF Newborn
    <2>. QED  BY <2>1 DEF SpawnOk, NextPid, HandleInv, Dead
<1>2. ASSUME NEW t \in Threads, FromHand(t, i)
      PROVE  FALSE
    <2>1. InHand(t, i).child = InHand(t, i).pid
        BY <1>2 DEF FromHand, HandleInv, GoodHandles, GoodHandle
    <2>. QED  BY <1>2, <2>1 DEF FromHand, KillResult
<1>. QED  BY <1>1, <1>2, MapSource

LEMMA ReportFrame ==
    ASSUME TypeInv, HandleInv, ReportInv, RecordStep, Quiet, UNCHANGED exited,
           FoundOnlyInCycle',
           \A i \in Present' : FromMap(i) /\ processes'[i].child # 0 /\ Due(i) => Due(i)'
    PROVE  ReportInv'
<1>. USE DEF ReportInv
<1>1. \A q : /\ Reported(q)' => Reported(q)
             /\ Pending(q)' <=> Pending(q)
    BY QuietReported DEF Pending, Found
<1>2. reaped \subseteq reaped'
    BY DEF RecordStep, ChildStep, ReapStep
<1>3. FoundOnce'
    BY <1>1, <1>2 DEF FoundOnce, Found
<1>4. ReportedCollected'
    BY <1>2, QuietExits DEF ReportedCollected
<1>5. HandleDue'
    <2>1. SUFFICES ASSUME NEW i \in Present', NEW q, q = processes'[i].child, q # 0,
                          Reported(q) \/ Pending(q)
                   PROVE  Due(i)'
        BY <1>1 DEF HandleDue
    <2>2. q \in reaped
        BY <2>1 DEF Reported, Reports, Pending, ReportedCollected, FoundOnce
    <2>3. FromMap(i)
        BY <2>1, <2>2, CollectedFromMap
    <2>4. Due(i)
        BY <2>1, <2>3 DEF FromMap, HandleDue
    <2>. QED  BY <2>1, <2>3, <2>4
<1>6. ExitReportedOnce'
    BY QuietReportedOnce
<1>. QED  BY <1>3, <1>4, <1>5, <1>6

\* The steps of the others leave the reaper's lists alone.
LEMMA OthersReport ==
    ASSUME TypeInv, HandleInv, ReportInv, RecordStep, Quiet,
           UNCHANGED <<rpc, todo, exited>>
    PROVE  ReportInv'
<1>1. FoundOnlyInCycle'
    BY DEF ReportInv, FoundOnlyInCycle, NoneExited
<1>2. \A i \in Present' : Due(i) => Due(i)'
    BY DEF Due, Found
<1>. QED  BY <1>1, <1>2, ReportFrame

LEMMA SameEvents ==
    ASSUME UNCHANGED events
    PROVE  Quiet
BY DEF Quiet

LEMMA EmitQuiet ==
    ASSUME TypeInv, NEW i \in ProcessId, NEW q \in 0 .. MaxPid,
           NEW s \in {"Stopped", "Crashed", "Failed"}, Emit(i, q, s)
    PROVE  Quiet
<1>. DEFINE e == [pid |-> q, state |-> s, exited |-> FALSE]
<1>1. e \in ProcessExitEvent /\ ~e.exited
    BY DEF ProcessExitEvent
<1>2. events' = [events EXCEPT ![i] = Append(@, e)] \/ events' = events
    BY DEF Emit
<1>. HIDE DEF e
<1>3. \A j \in ProcessId : events'[j] = events[j] \/ events'[j] = Append(events[j], e)
    BY <1>2 DEF TypeInv, TableTypeOK
<1>. QED  BY <1>1, <1>3 DEF Quiet

LEMMA ClientReport ==
    ASSUME TypeInv, HandleInv, ReportInv, RecordStep, NEW t \in Threads,
           Calls(t) \/ Steps(t)
    PROVE  ReportInv'
<1>1. UNCHANGED <<rpc, todo, exited>>
    BY DEF Calls, CallNext, Steps, StepNext, StartCall, StopCall,
           StopManyCall, RestartCall, Poll, DropManager, SendSignal, StartSpawn, StartWaiting,
           AwaitReturn, AwaitTimeout, StopCheck, StopCancel, StopUnqueue, StopRemove,
           StopEscalate, StopReap, StopManyRemove, StopManySignal, StopManyEscalate,
           StopManyReap, RestartCheck, RestartBlocks, RestartReset, RestartInPlace,
           RestartInsert, DropStop
<1>2. CASE StopUnqueue(t)
    <2>1. calls[t].cur \in ProcessId /\ calls[t].pid \in 0 .. MaxPid
        BY <1>2, CallRecord DEF StopUnqueue, At, TypeInv, GoodCall, StopStep, Call
    <2>2. Emit(calls[t].cur, calls[t].pid, "Stopped") \/ UNCHANGED events
        BY <1>2 DEF StopUnqueue
    <2>3. Quiet
        BY <2>1, <2>2, EmitQuiet, SameEvents
    <2>. QED  BY <1>1, <2>3, OthersReport
<1>3. CASE ~StopUnqueue(t)
    <2>1. UNCHANGED events
        BY <1>3 DEF Calls, CallNext, Steps, StepNext, StartCall, StopCall,
           StopManyCall, RestartCall, Poll, DropManager, SendSignal, StartSpawn, StartWaiting,
           AwaitReturn, AwaitTimeout, StopCheck, StopCancel, StopRemove,
           StopEscalate, StopReap, StopManyRemove, StopManySignal, StopManyEscalate,
           StopManyReap, RestartCheck, RestartBlocks, RestartReset, RestartInPlace,
           RestartInsert, DropStop
    <2>. QED  BY <1>1, <2>1, SameEvents, OthersReport
<1>. QED  BY <1>2, <1>3

-----------------------------------------------------------------------------
(* The steps of the reaper.                                                *)

\* An exit is found.
LEMMA DetectExitReport ==
    ASSUME TypeInv, HandleInv, ReportInv, RecordStep, NEW i \in ProcessId, DetectExit(i)
    PROVE  ReportInv'
<1>. USE DEF ReportInv
<1>. DEFINE p == check_stable_uptime(processes[i])
            c == processes[i].child
<1>1. i \in Present /\ processes[i] \in Process /\ rpc = "detect" /\ i \in todo
    BY PresentProcess DEF DetectExit, TypeInv, In
<1>2. p.child = c /\ p.pid = processes[i].pid
    BY <1>1, CarriedStable DEF Carried, SameRecord
<1>3. PICK e : /\ e.pid = c /\ e # NoProcess
               /\ exited' = [exited EXCEPT ![i] = e]
    <2>. DEFINE e == [pid |-> p.pid, state |-> EventState(p), restart |-> WillRestart(p)]
    <2>1. e.pid = p.pid /\ exited' = [exited EXCEPT ![i] = e]
        BY DEF DetectExit
    <2>2. e \in ExitedProcess
        <3>1. p \in Process
            BY <1>1, CarriedStable
        <3>2. p.pid \in 0 .. MaxPid /\ p.config \in ProcessConfig /\ p.cascade_flag \in BOOLEAN
            BY <3>1, ConfigsAssumption DEF Process
        <3>3. EventState(p) \in {"Stopped", "Crashed", "Failed"}
            BY DEF EventState, BaseState
        <3>4. p.config.restart_on_exit \in BOOLEAN
            BY <3>2 DEF ProcessConfig
        <3>5. WillRestart(p) \in BOOLEAN
            BY <3>4 DEF WillRestart, RestartTriggered
        <3>. QED  BY <3>2, <3>3, <3>5 DEF ExitedProcess
    <2>3. e # NoProcess
        BY <2>2, NoExitAssumption
    <2>4. p.child # 0
        BY DEF DetectExit, Exited
    <2>5. p.pid = c
        BY <1>1, <1>2, <2>4 DEF HandleInv, GoodHandles, GoodHandle
    <2>. QED  BY <2>1, <2>3, <2>5
<1>4. /\ c # 0 /\ UNCHANGED <<events, rpc>>
      /\ reaped' = reaped \cup {c} /\ todo' = todo \ {i}
    BY <1>2 DEF DetectExit, Exited
<1>5. /\ exited'[i] = e
      /\ \A j \in ProcessId \ {i} : exited'[j] = exited[j]
    BY <1>3 DEF TypeInv, ReaperTypeOK
\* It is the first time: the entry would not be on the list any more.
<1>6. ~Reported(c) /\ ~Pending(c)
    BY <1>1, <1>4 DEF HandleDue, Due
<1>7. \A q : Reported(q)' <=> Reported(q)
    BY <1>4 DEF Reported, Reports
<1>8. FoundOnce'
    <2>1. ASSUME NEW j \in ProcessId, exited'[j] # NoProcess
          PROVE  exited'[j].pid \in reaped' /\ ~Reported(exited'[j].pid)
        BY <1>3, <1>4, <1>5, <1>6, <2>1 DEF FoundOnce, Found
    <2>2. ASSUME NEW j \in ProcessId, NEW k \in ProcessId, exited'[j] # NoProcess,
                 exited'[k] # NoProcess, exited'[j].pid = exited'[k].pid
          PROVE  j = k
        BY <1>3, <1>5, <1>6, <2>2 DEF FoundOnce, Found, Pending
    <2>. QED  BY <1>7, <2>1, <2>2 DEF FoundOnce, Found
<1>9. ReportedCollected'
    BY <1>4 DEF ReportedCollected
<1>10. HandleDue'
    <2>1. SUFFICES ASSUME NEW j \in Present', NEW q, q = processes'[j].child, q # 0,
                          Reported(q) \/ Pending(q)'
                   PROVE  Due(j)'
        BY <1>7 DEF HandleDue
    <2>2. FromMap(j)
        <3>1. j \in ProcessId /\ j \in Present
            BY <2>1 DEF Present, DetectExit, Put, TypeInv, TableTypeOK
        <3>2. MapKeeps
            BY DetectMap
        <3>. QED  BY <2>1, <3>1, <3>2, KeptFromMap DEF MapKeeps
    <2>3. CASE j = i
        BY <1>1, <1>3, <1>4, <1>5, <2>3 DEF Due, Found
    <2>4. CASE j # i
        <3>1. q # c
            BY <1>1, <2>1, <2>2, <2>4 DEF FromMap, HandleInv, EntriesApart
        <3>2. Reported(q) \/ Pending(q)
            BY <1>3, <1>5, <2>1, <3>1 DEF Pending, Found
        <3>3. Due(j)
            BY <2>1, <2>2, <3>2 DEF FromMap, HandleDue
        <3>. QED  BY <1>1, <1>4, <1>5, <2>2, <2>4, <3>3 DEF Due, Found, FromMap, Present
    <2>. QED  BY <2>3, <2>4
<1>11. FoundOnlyInCycle'
    BY <1>1, <1>4 DEF FoundOnlyInCycle, Reporting
<1>12. ExitReportedOnce'
    BY <1>4 DEF ExitReportedOnce
<1>. QED  BY <1>8, <1>9, <1>10, <1>11, <1>12

\* What was found is reported, and is no longer on the list.
LEMMA EmitEventsReport ==
    ASSUME TypeInv, HandleInv, ReportInv, RecordStep, EmitEvents
    PROVE  ReportInv'
<1>. USE DEF ReportInv
<1>1. /\ rpc = "emit" /\ UNCHANGED <<processes, reaped>>
      /\ exited' = NoneExited
      /\ \A i \in ProcessId : ~Found(i)'
    BY DEF EmitEvents, In, Found, NoneExited
<1>2. CASE ~chan_open
    <2>1. UNCHANGED events /\ rpc' = "done"
        BY <1>2 DEF EmitEvents, Goto
    <2>2. FoundOnce' /\ HandleDue' /\ FoundOnlyInCycle'
        BY <1>1, <2>1 DEF FoundOnce, HandleDue, Due, FoundOnlyInCycle, NoneExited
    <2>3. ReportedCollected' /\ ExitReportedOnce'
        BY <1>1, <2>1 DEF ReportedCollected, ExitReportedOnce
    <2>. QED  BY <2>2, <2>3
<1>3. CASE chan_open
    <2>. DEFINE e(i) == [pid |-> exited[i].pid, state |-> exited[i].state, exited |-> TRUE]
    <2>1. \A i \in ProcessId :
             events'[i] = IF Found(i) THEN Append(events[i], e(i)) ELSE events[i]
        BY <1>3 DEF EmitEvents, ToReport, Found
    <2>2. /\ todo' = ToRestart
          /\ ToRestart # {} => rpc' = "schedule"
          /\ rpc' \in {"schedule", "eligible"}
        BY <1>3 DEF EmitEvents, Collect
    <2>3. ASSUME NEW i \in ProcessId, Found(i)
          PROVE  e(i) \in ProcessExitEvent /\ e(i).exited /\ e(i).pid = exited[i].pid
        <3>1. exited[i] \in ExitedProcess
            BY <2>3 DEF Found, TypeInv, ReaperTypeOK
        <3>. QED  BY <3>1 DEF ExitedProcess, ProcessExitEvent
    <2>. HIDE DEF e
    \* An event is an old one, or the one for what was found.
    <2>4. ASSUME NEW i \in ProcessId, NEW k \in DOMAIN events'[i]
          PROVE  \/ k \in DOMAIN events[i] /\ events'[i][k] = events[i][k]
                 \/ /\ Found(i) /\ k = Len(events[i]) + 1
                    /\ events'[i][k].pid = exited[i].pid
        <3>1. CASE ~Found(i)
            BY <2>1, <2>4, <3>1
        <3>2. CASE Found(i)
            <4>1. events'[i] = Append(events[i], e(i)) /\ e(i) \in ProcessExitEvent
                BY <2>1, <2>3, <3>2
            <4>. QED  BY <2>3, <2>4, <3>2, <4>1, EventType, AppendedType
        <3>. QED  BY <3>1, <3>2
    <2>5. FoundOnce' /\ FoundOnlyInCycle'
        BY <1>1 DEF FoundOnce, FoundOnlyInCycle
    <2>6. ReportedCollected'
        BY <1>1, <2>4 DEF ReportedCollected, FoundOnce
    <2>7. HandleDue'
        <3>1. SUFFICES ASSUME NEW i \in Present, NEW q, q = processes[i].child, q # 0,
                              Reported(q)'
                       PROVE  Due(i)'
            BY <1>1 DEF HandleDue, Present, Pending
        <3>2. Reported(q) \/ Pending(q)
            BY <2>4, <3>1 DEF Reported, Reports, Pending
        <3>3. Due(i)
            BY <3>1, <3>2 DEF HandleDue
        <3>4. i \in ToRestart
            BY <1>1, <3>3 DEF Due, Found, ToRestart, Present
        <3>. QED  BY <2>2, <3>4 DEF Due
    <2>8. ExitReportedOnce'
        <3>1. SUFFICES ASSUME NEW i \in ProcessId, NEW j \in ProcessId,
                              NEW k \in DOMAIN events'[i], NEW l \in DOMAIN events'[j],
                              events'[i][k].exited, events'[j][l].exited,
                              events'[i][k].pid = events'[j][l].pid
                       PROVE  i = j /\ k = l
            BY DEF ExitReportedOnce
        <3>2. CASE /\ k \in DOMAIN events[i] /\ events'[i][k] = events[i][k]
                   /\ l \in DOMAIN events[j] /\ events'[j][l] = events[j][l]
            BY <3>1, <3>2 DEF ExitReportedOnce
        \* What was found has not been reported before.
        <3>3. ASSUME NEW a \in ProcessId, NEW b \in ProcessId, NEW m \in DOMAIN events[a],
                     events[a][m].exited, Found(b), events[a][m].pid = exited[b].pid
              PROVE  FALSE
            BY <3>3 DEF FoundOnce, Reported, Reports
        <3>4. CASE /\ Found(i) /\ k = Len(events[i]) + 1
                   /\ events'[i][k].pid = exited[i].pid
                   /\ Found(j) /\ l = Len(events[j]) + 1
                   /\ events'[j][l].pid = exited[j].pid
            BY <3>1, <3>4 DEF FoundOnce
        <3>. QED  BY <2>4, <3>1, <3>2, <3>3, <3>4
    <2>. QED  BY <2>5, <2>6, <2>7, <2>8
<1>. QED  BY <1>2, <1>3

\* A new cycle begins with every entry on the list, and nothing found.
LEMMA BeginCycleReport ==
    ASSUME TypeInv, HandleInv, ReportInv, RecordStep, BeginCycle
    PROVE  ReportInv'
<1>1. rpc = "sleep" /\ rpc' = "detect" /\ UNCHANGED <<exited, events>>
    BY DEF BeginCycle, In, Goto
<1>2. FoundOnlyInCycle' /\ \A i \in ProcessId : ~Due(i)
    BY <1>1 DEF FoundOnlyInCycle, Reporting, Due
<1>. QED  BY <1>1, <1>2, SameEvents, ReportFrame DEF FromMap, Present

\* A cycle that has found an exit goes on to report it.
LEMMA EndDetectReport ==
    ASSUME TypeInv, HandleInv, ReportInv, RecordStep, EndDetect
    PROVE  ReportInv'
<1>1. /\ rpc = "detect" /\ UNCHANGED <<exited, events>>
      /\ rpc' = IF origins # {} THEN "cascade"
                ELSE IF exited # NoneExited THEN "remove" ELSE "eligible"
    BY DEF EndDetect, In, Goto
<1>2. FoundOnlyInCycle'
    BY <1>1 DEF FoundOnlyInCycle, Reporting, NoneExited
<1>3. \A i \in Present : Due(i) => Due(i)'
    <2>1. ASSUME NEW i \in Present, Found(i)
          PROVE  exited # NoneExited
        BY <2>1 DEF Found, NoneExited, Present
    <2>. QED  BY <1>1, <2>1 DEF Due, Found
<1>. QED  BY <1>1, <1>2, <1>3, SameEvents, ReportFrame DEF FromMap

\* In the phases of the cascade what was found stays found.
LEMMA CascadeReport ==
    ASSUME TypeInv, HandleInv, ReportInv, RecordStep,
           CollectTargets \/ \E i \in ProcessId : FlagTarget(i)
    PROVE  ReportInv'
<1>1. /\ rpc \in {"cascade", "flag"} /\ rpc' \in {"flag", "remove"}
      /\ UNCHANGED <<exited, events>>
    BY DEF CollectTargets, FlagTarget, In, Collect, Done
<1>2. FoundOnlyInCycle' /\ \A i \in ProcessId : Due(i) => Due(i)'
    BY <1>1 DEF FoundOnlyInCycle, Reporting, Due, Found
<1>. QED  BY <1>1, <1>2, SameEvents, ReportFrame DEF FromMap, Present

\* What is found and still there is to be restarted.
LEMMA RemoveExitedReport ==
    ASSUME TypeInv, HandleInv, ReportInv, RecordStep, RemoveExited
    PROVE  ReportInv'
<1>1. /\ rpc = "remove" /\ rpc' = "emit" /\ UNCHANGED <<exited, events>>
      /\ \A i \in Present' : i \in ProcessId \ ToRemove
    BY DEF RemoveExited, In, Goto, Present
<1>2. FoundOnlyInCycle' /\ \A i \in Present' : Due(i) => Due(i)'
    BY <1>1 DEF FoundOnlyInCycle, Reporting, Due, Found, ToRemove
<1>. QED  BY <1>1, <1>2, SameEvents, ReportFrame DEF FromMap

\* An entry that is visited alive has not been found.
LEMMA DetectAliveReport ==
    ASSUME TypeInv, HandleInv, ReportInv, RecordStep, NEW i \in ProcessId, DetectAlive(i)
    PROVE  ReportInv'
<1>1. /\ rpc = "detect" /\ UNCHANGED <<rpc, exited, events>> /\ todo' = todo \ {i}
    BY DEF DetectAlive, In
<1>2. FoundOnlyInCycle' /\ \A j \in ProcessId : Due(j) => Due(j)'
    BY <1>1 DEF FoundOnlyInCycle, Reporting, Due, Found
<1>. QED  BY <1>1, <1>2, SameEvents, ReportFrame DEF FromMap, Present

LEMMA ScheduledHandle ==
    ASSUME NEW p \in Process
    PROVE  Scheduled(p).child = 0
BY DEF Scheduled, Process

\* An entry leaves the list with its handle released.
LEMMA ScheduleReport ==
    ASSUME TypeInv, GuardInv, HandleInv, ReportInv, RecordStep,
           \/ ScheduleResumes
           \/ \E i \in ProcessId : ScheduleRestart(i) \/ ScheduleBlocks(i)
    PROVE  ReportInv'
<1>1. /\ rpc \in {"schedule", "schedule_wait"}
      /\ rpc' \in {"schedule", "schedule_wait", "eligible"}
      /\ UNCHANGED <<exited, events>>
    BY DEF ScheduleRestart, ScheduleBlocks, ScheduleResumes, In, Goto, Done
<1>2. FoundOnlyInCycle'
    BY <1>1 DEF ReportInv, FoundOnlyInCycle, Reporting
<1>3. ASSUME NEW i \in ProcessId, NEW j \in Present', ScheduleRestart(i), FromMap(j),
             processes'[j].child # 0, Due(j)
      PROVE  Due(j)'
    <2>1. j \in todo /\ todo' = todo \ {i} /\ rpc = "schedule"
          /\ rpc' = IF todo = {i} THEN "eligible" ELSE rpc
        BY <1>3 DEF ScheduleRestart, Done, In, Due
    <2>2. j # i
        <3>1. CASE processes[i] = NoProcess
            BY <1>3, <3>1 DEF FromMap, Present
        <3>2. CASE processes[i] # NoProcess
            <4>1. processes[i] \in Process
                BY <3>2, PresentProcess DEF TypeInv, Present
            <4>2. processes'[i] = Scheduled(processes[i])
                BY <1>3, <3>2 DEF ScheduleRestart, Put, TypeInv, TableTypeOK
            <4>. QED  BY <1>3, <4>1, <4>2, ScheduledHandle
        <3>. QED  BY <3>1, <3>2
    <2>. QED  BY <2>1, <2>2 DEF Due
<1>4. ASSUME NEW i \in ProcessId, NEW j \in Present', ScheduleBlocks(i), Due(j)
      PROVE  Due(j)'
    BY <1>4 DEF ScheduleBlocks, In, Goto, Due
<1>5. ASSUME NEW j \in Present', ScheduleResumes, FromMap(j),
             processes'[j].child # 0, Due(j)
      PROVE  Due(j)'
    <2>1. j \in todo /\ todo' = todo \ {cur} /\ rpc = "schedule_wait"
          /\ rpc' = IF todo = {cur} THEN "eligible" ELSE "schedule"
        BY <1>5 DEF ScheduleResumes, Goto, In, Due
    <2>2. j # cur
        <3>1. cur \in Present /\ cur \in ProcessId
            BY <2>1 DEF GuardInv, ReaperWaits, Present
        <3>2. processes[cur] \in Process
            BY <3>1, PresentProcess DEF TypeInv
        <3>3. processes'[cur] = Scheduled(processes[cur])
            BY <1>5, <3>1 DEF ScheduleResumes, Put, TypeInv, TableTypeOK
        <3>. QED  BY <1>5, <3>2, <3>3, ScheduledHandle
    <2>. QED  BY <2>1, <2>2 DEF Due
<1>. QED  BY <1>1, <1>2, <1>3, <1>4, <1>5, SameEvents, ReportFrame

RestartPhase(i) ==
    RestartSkips(i) \/ RestartSpawns(i) \/ RestartWaits(i) \/ RestartWedges(i)

\* The phases that follow find no exit; what they send is not about one.
LEMMA LateReport ==
    ASSUME TypeInv, HandleInv, ReportInv, RecordStep,
           \/ CollectEligible \/ CollectWaiting \/ CollectRunning
           \/ \E i \in ProcessId : \/ RestartPhase(i) \/ CheckWaiting(i)
                                   \/ SpawnWaiting(i) \/ FailWaiting(i) \/ FailRunning(i)
    PROVE  ReportInv'
<1>1. rpc \in {"eligible", "restart", "waiting", "check", "spawn", "fail", "running",
               "failfast"}
    BY DEF CollectEligible, CollectWaiting, CollectRunning, RestartPhase, RestartSkips,
           RestartSpawns, RestartWaits, RestartWedges, CheckWaiting, SpawnWaiting,
           FailWaiting, FailRunning, In
<1>2. UNCHANGED exited
    BY DEF CollectEligible, CollectWaiting, CollectRunning, RestartPhase, RestartSkips,
           RestartSpawns, RestartWaits, RestartWedges, CheckWaiting, SpawnWaiting,
           FailWaiting, FailRunning
<1>3. rpc' \notin Reporting
    <2>1. CASE CollectEligible \/ CollectWaiting \/ CollectRunning
        BY <2>1 DEF CollectEligible, CollectWaiting, CollectRunning, Collect, AfterCycle,
                    Reporting
    <2>2. ASSUME NEW i \in ProcessId, RestartPhase(i)
          PROVE  rpc' \notin Reporting
        BY <1>1, <2>2 DEF RestartPhase, RestartSkips, RestartSpawns, RestartWaits,
                          RestartWedges, Done, Goto, Reporting
    <2>3. ASSUME NEW i \in ProcessId, CheckWaiting(i)
          PROVE  rpc' \notin Reporting
        BY <2>3 DEF CheckWaiting, NextCheck, Goto, Reporting
    <2>4. ASSUME NEW i \in ProcessId, SpawnWaiting(i) \/ FailWaiting(i) \/ FailRunning(i)
          PROVE  rpc' \notin Reporting
        BY <1>1, <2>4 DEF SpawnWaiting, FailWaiting, FailRunning, AfterCycle, Done, Goto,
                          Reporting
    <2>5. \/ CollectEligible \/ CollectWaiting \/ CollectRunning
          \/ \E i \in ProcessId : \/ RestartPhase(i) \/ CheckWaiting(i)
                                  \/ SpawnWaiting(i) \/ FailWaiting(i) \/ FailRunning(i)
        OBVIOUS
    <2>. QED  BY <2>1, <2>2, <2>3, <2>4, <2>5
<1>4. Quiet
    <2>1. ASSUME NEW i \in ProcessId, processes[i] # NoProcess,
                 Emit(i, processes[i].pid, "Failed")
          PROVE  Quiet
        <3>1. processes[i].pid \in 0 .. MaxPid
            BY <2>1, PresentProcess DEF TypeInv, Present, Process
        <3>. QED  BY <2>1, <3>1, EmitQuiet
    <2>2. CASE UNCHANGED events
        BY <2>2, SameEvents
    <2>3. CASE \E i \in ProcessId : RestartSpawns(i)
        BY <2>1, <2>2, <2>3 DEF RestartSpawns, Present
    <2>4. CASE \E i \in ProcessId : SpawnWaiting(i) \/ FailWaiting(i) \/ FailRunning(i)
        BY <2>1, <2>2, <2>4 DEF SpawnWaiting, FailWaiting, FailRunning, RemoveFailed
    <2>5. CASE \/ CollectEligible \/ CollectWaiting \/ CollectRunning
               \/ \E i \in ProcessId : \/ RestartSkips(i) \/ RestartWaits(i)
                                       \/ RestartWedges(i) \/ CheckWaiting(i)
        BY <2>2, <2>5 DEF CollectEligible, CollectWaiting, CollectRunning, RestartSkips,
                          RestartWaits, RestartWedges, CheckWaiting
    <2>. QED  BY <2>3, <2>4, <2>5 DEF RestartPhase
<1>5. FoundOnlyInCycle' /\ \A i \in ProcessId : ~Due(i)
    BY <1>1, <1>2, <1>3 DEF ReportInv, FoundOnlyInCycle, Reporting, NoneExited, Due
<1>. QED  BY <1>2, <1>4, <1>5, ReportFrame DEF FromMap, Present

LEMMA ReaperReport ==
    ASSUME TypeInv, GuardInv, HandleInv, ReportInv, RecordStep, ReaperNext
    PROVE  ReportInv'
<1>1. CASE \/ BeginCycle \/ EndDetect \/ CollectTargets \/ RemoveExited \/ EmitEvents
           \/ \E i \in ProcessId : DetectExit(i) \/ DetectAlive(i) \/ FlagTarget(i)
    BY <1>1, BeginCycleReport, EndDetectReport, CascadeReport, RemoveExitedReport,
       EmitEventsReport, DetectExitReport, DetectAliveReport
<1>2. CASE \/ ScheduleResumes
           \/ \E i \in ProcessId : ScheduleRestart(i) \/ ScheduleBlocks(i)
    BY <1>2, ScheduleReport
<1>3. CASE \/ CollectEligible \/ CollectWaiting \/ CollectRunning
           \/ \E i \in ProcessId : \/ RestartPhase(i) \/ CheckWaiting(i)
                                   \/ SpawnWaiting(i) \/ FailWaiting(i) \/ FailRunning(i)
    BY <1>3, LateReport
<1>. QED  BY <1>1, <1>2, <1>3 DEF ReaperNext, RestartPhase

-----------------------------------------------------------------------------
(* The system.                                                             *)

LEMMA ReportInitial == Init => ReportInv
BY DEF Init, TableInit, ManagerInit, ReaperInit, ReportInv, FoundOnce, ReportedCollected,
       HandleDue, FoundOnlyInCycle, ExitReportedOnce, Reporting, NoneExited, Found, Present

LEMMA ReportInductive ==
    ASSUME IInv, HandleInv, ReportInv, [Next]_vars
    PROVE  ReportInv'
<1>. USE DEF IInv
<1>1. RecordStep
    BY EveryStep
<1>2. ASSUME NEW t \in Threads, Calls(t) \/ Steps(t)
      PROVE  ReportInv'
    BY <1>1, <1>2, ClientReport
<1>3. CASE ReaperNext
    BY <1>1, <1>3, ReaperReport
<1>4. CASE \/ \E q \in Pid : Exits(q)
           \/ \E i \in ProcessId : BackoffElapses(i) \/ UptimeReached(i) \/ DependencyExpires(i)
           \/ Closes \/ UNCHANGED vars
    <2>1. UNCHANGED <<rpc, todo, exited, events>>
        BY <1>4 DEF Exits, ChildExits, BackoffElapses, UptimeReached, DependencyExpires,
                    Closes, CloseChannel, vars, reaperVars
    <2>. QED  BY <1>1, <2>1, SameEvents, OthersReport
<1>. QED  BY <1>2, <1>3, <1>4 DEF Next

\* Whatever the numbers of clients, processes and children, a handle is in
\* one entry of the map or in the hands of one call: no child has two owners,
\* and every pid that is collected is that of a dead child.
THEOREM HandlesApart == Spec => []HandleInv
<1>1. Init => IInv /\ HandleInv
    BY Initial, HandlesInitial
<1>2. IInv /\ HandleInv /\ [Next]_vars => IInv' /\ HandleInv'
    BY Inductive, HandlesInductive, EveryStep DEF IInv
<1>. QED  BY <1>1, <1>2, PTL DEF Spec

\* However the phases of the reaper and the calls of the clients interleave,
\* and whatever stop(), stop_many() and restart() do to an entry meanwhile,
\* the exit of a child is sent on the channel at most once.
THEOREM ExitsReportedOnce == Spec => []ExitReportedOnce
<1>1. Init => IInv /\ HandleInv /\ ReportInv
    BY Initial, HandlesInitial, ReportInitial
<1>2. IInv /\ HandleInv /\ ReportInv /\ [Next]_vars => IInv' /\ HandleInv' /\ ReportInv'
    BY Inductive, HandlesInductive, EveryStep, ReportInductive DEF IInv
<1>3. ReportInv => ExitReportedOnce
    BY DEF ReportInv
<1>. QED  BY <1>1, <1>2, <1>3, PTL DEF Spec
=============================================================================
