-------------------------- MODULE SpawnOrderProofs --------------------------
(***************************************************************************)
(* The order RestForOne relies on: no two processes ever have the same     *)
(* spawn_sequence, for any number of clients, processes and pids.          *)
(*                                                                         *)
(* SpawnOrderStrict speaks of the map only, and is not inductive: a record *)
(* that stop_many() has taken out of the map may go back into it, next to  *)
(* a successor that restart() has put there meanwhile.  SeqInv therefore   *)
(* counts the records in the hands of the calls as well: the numbers in    *)
(* use are below the next one to be given, and no two records share one.   *)
(***************************************************************************)
EXTENDS SupervisionProofs

USE DEF mapVars, osVars, eventVars, tableVars, managerVars, scratch

OrderOf(i) == processes[i].spawn_sequence
HeldSeq(t, i) == calls[t].held[i].spawn_sequence

BelowNext ==
    /\ \A i \in Present : OrderOf(i) < next_spawn_sequence
    /\ \A t \in Threads : \A i \in Held(t) : HeldSeq(t, i) < next_spawn_sequence

HeldApart ==
    /\ \A t \in Threads : \A i \in Held(t), j \in Present : HeldSeq(t, i) # OrderOf(j)
    /\ \A t, u \in Threads : \A i \in Held(t), j \in Held(u) :
          HeldSeq(t, i) = HeldSeq(u, j) => t = u /\ i = j

SeqInv == BelowNext /\ HeldApart /\ SpawnOrderStrict

-----------------------------------------------------------------------------
(* What a step may do to the records.                                      *)

\* Entry i of the map is what it was, up to what does not name the process,
\* or is gone.
Keeps(i) ==
    processes'[i] # NoProcess =>
        processes[i] # NoProcess /\ OrderOf(i)' = OrderOf(i)

MapKeeps == \A i \in ProcessId : Keeps(i)

HandKeeps(t, i) ==
    calls'[t].held[i] # NoProcess =>
        calls[t].held[i] # NoProcess /\ HeldSeq(t, i)' = HeldSeq(t, i)

HandsKeep == \A t \in Threads, i \in ProcessId : HandKeeps(t, i)

LEMMA NumbersType ==
    ASSUME TypeInv
    PROVE  /\ next_spawn_sequence \in Nat
           /\ \A i \in Present : OrderOf(i) \in Nat
           /\ \A t \in Threads : \A i \in Held(t) : HeldSeq(t, i) \in Nat
<1>1. \A p \in Process : p.spawn_sequence \in Nat
    BY DEF Process
<1>. QED
    BY <1>1, PresentProcess, HeldType DEF TypeInv, TableTypeOK, OrderOf, HeldSeq

\* No record is added.
LEMMA KeepFrame ==
    ASSUME TypeInv, SeqInv, MapKeeps, HandsKeep,
           next_spawn_sequence' \in {next_spawn_sequence, next_spawn_sequence + 1}
    PROVE  SeqInv'
<1>1. \A i \in Present' : i \in Present /\ OrderOf(i)' = OrderOf(i)
    BY DEF MapKeeps, Keeps, Present
<1>2. \A t \in Threads : \A i \in Held(t)' : i \in Held(t) /\ HeldSeq(t, i)' = HeldSeq(t, i)
    BY DEF HandsKeep, HandKeeps, Held
<1>3. BelowNext'
    BY <1>1, <1>2, NumbersType DEF SeqInv, BelowNext
<1>4. HeldApart'
    BY <1>1, <1>2 DEF SeqInv, HeldApart
<1>5. SpawnOrderStrict'
    BY <1>1 DEF SeqInv, SpawnOrderStrict, OrderOf
<1>. QED  BY <1>3, <1>4, <1>5 DEF SeqInv

\* One record is added, with the next number.
LEMMA NewFrame ==
    ASSUME TypeInv, SeqInv, HandsKeep, NEW n \in ProcessId,
           \A i \in ProcessId \ {n} : Keeps(i),
           OrderOf(n)' = next_spawn_sequence,
           next_spawn_sequence' = next_spawn_sequence + 1
    PROVE  SeqInv'
<1>1. \A i \in Present' \ {n} : i \in Present /\ OrderOf(i)' = OrderOf(i)
    BY DEF Keeps, Present
<1>2. \A t \in Threads : \A i \in Held(t)' : i \in Held(t) /\ HeldSeq(t, i)' = HeldSeq(t, i)
    BY DEF HandsKeep, HandKeeps, Held
<1>3. BelowNext'
    BY <1>1, <1>2, NumbersType DEF SeqInv, BelowNext
<1>4. HeldApart'
    <2>1. ASSUME NEW t \in Threads, NEW i \in Held(t)', NEW j \in Present'
          PROVE  HeldSeq(t, i)' # OrderOf(j)'
        <3>1. i \in Held(t) /\ HeldSeq(t, i)' = HeldSeq(t, i)
            BY <1>2
        <3>2. HeldSeq(t, i) < next_spawn_sequence /\ HeldSeq(t, i) \in Nat
            BY <3>1, NumbersType DEF SeqInv, BelowNext
        <3>3. CASE j = n
            BY <3>1, <3>2, <3>3, NumbersType
        <3>4. CASE j # n
            BY <1>1, <3>1, <3>4 DEF SeqInv, HeldApart
        <3>. QED  BY <3>3, <3>4
    <2>2. ASSUME NEW t \in Threads, NEW u \in Threads, NEW i \in Held(t)', NEW j \in Held(u)',
                 HeldSeq(t, i)' = HeldSeq(u, j)'
          PROVE  t = u /\ i = j
        BY <1>2, <2>2 DEF SeqInv, HeldApart
    <2>. QED  BY <2>1, <2>2 DEF HeldApart
<1>5. SpawnOrderStrict'
    <2>1. ASSUME NEW i \in Present', NEW j \in Present', OrderOf(i)' = OrderOf(j)'
          PROVE  i = j
        <3>1. CASE i # n /\ j # n
            BY <1>1, <2>1, <3>1 DEF SeqInv, SpawnOrderStrict, OrderOf
        <3>2. CASE i = n /\ j # n
            <4>1. j \in Present /\ OrderOf(j)' = OrderOf(j)
                BY <1>1, <3>2
            <4>2. OrderOf(j) < next_spawn_sequence /\ OrderOf(j) \in Nat
                BY <4>1, NumbersType DEF SeqInv, BelowNext
            <4>. QED  BY <2>1, <3>2, <4>1, <4>2, NumbersType
        <3>3. CASE i # n /\ j = n
            <4>1. i \in Present /\ OrderOf(i)' = OrderOf(i)
                BY <1>1, <3>3
            <4>2. OrderOf(i) < next_spawn_sequence /\ OrderOf(i) \in Nat
                BY <4>1, NumbersType DEF SeqInv, BelowNext
            <4>. QED  BY <2>1, <3>3, <4>1, <4>2, NumbersType
        <3>. QED  BY <3>1, <3>2, <3>3
    <2>. QED  BY <2>1 DEF SpawnOrderStrict, OrderOf
<1>. QED  BY <1>3, <1>4, <1>5 DEF SeqInv

\* A call takes one record out of the map.
LEMMA TakeFrame ==
    ASSUME TypeInv, SeqInv, NEW t \in Threads, NEW n \in Present,
           processes'[n] = NoProcess,
           \A i \in ProcessId \ {n} : Keeps(i) /\ HandKeeps(t, i),
           HeldSeq(t, n)' = OrderOf(n),
           \A u \in Threads \ {t}, i \in ProcessId : HandKeeps(u, i),
           UNCHANGED next_spawn_sequence
    PROVE  SeqInv'
<1>1. \A i \in Present' : i \in Present /\ i # n /\ OrderOf(i)' = OrderOf(i)
    BY DEF Keeps, Present
<1>2. \A i \in Held(t)' \ {n} : i \in Held(t) /\ HeldSeq(t, i)' = HeldSeq(t, i)
    BY DEF HandKeeps, Held
<1>3. \A u \in Threads \ {t} : \A i \in Held(u)' :
          i \in Held(u) /\ HeldSeq(u, i)' = HeldSeq(u, i)
    BY DEF HandKeeps, Held
<1>4. BelowNext'
    <2>1. \A i \in Present' : OrderOf(i)' < next_spawn_sequence'
        BY <1>1 DEF SeqInv, BelowNext
    <2>2. \A i \in Held(t)' : HeldSeq(t, i)' < next_spawn_sequence'
        BY <1>2 DEF SeqInv, BelowNext
    <2>3. \A u \in Threads \ {t} : \A i \in Held(u)' : HeldSeq(u, i)' < next_spawn_sequence'
        BY <1>3 DEF SeqInv, BelowNext
    <2>. QED  BY <2>1, <2>2, <2>3 DEF BelowNext
<1>5. HeldApart'
    <2>1. ASSUME NEW j \in Present', NEW u \in Threads, NEW i \in Held(u)'
          PROVE  HeldSeq(u, i)' # OrderOf(j)'
        <3>1. CASE u = t /\ i = n
            BY <1>1, <3>1 DEF SeqInv, SpawnOrderStrict, OrderOf
        <3>2. CASE ~(u = t /\ i = n)
            BY <1>1, <1>2, <1>3, <3>2 DEF SeqInv, HeldApart
        <3>. QED  BY <3>1, <3>2
    <2>2. ASSUME NEW u \in Threads, NEW v \in Threads, NEW i \in Held(u)', NEW j \in Held(v)',
                 HeldSeq(u, i)' = HeldSeq(v, j)'
          PROVE  u = v /\ i = j
        <3>1. ASSUME NEW w \in Threads, NEW l \in Held(w)', ~(w = t /\ l = n)
              PROVE  /\ l \in Held(w) /\ HeldSeq(w, l)' = HeldSeq(w, l)
                     /\ HeldSeq(w, l)' # HeldSeq(t, n)'
            <4>1. l \in Held(w) /\ HeldSeq(w, l)' = HeldSeq(w, l)
                BY <1>2, <1>3, <3>1
            <4>2. HeldSeq(w, l) # OrderOf(n)
                BY <4>1 DEF SeqInv, HeldApart
            <4>. QED  BY <4>1, <4>2
        <3>2. CASE (u = t /\ i = n) \/ (v = t /\ j = n)
            BY <2>2, <3>1, <3>2
        <3>3. CASE ~(u = t /\ i = n) /\ ~(v = t /\ j = n)
            <4>1. i \in Held(u) /\ j \in Held(v) /\ HeldSeq(u, i) = HeldSeq(v, j)
                BY <2>2, <3>1, <3>3
            <4>. QED  BY <4>1 DEF SeqInv, HeldApart
        <3>. QED  BY <3>2, <3>3
    <2>. QED  BY <2>1, <2>2 DEF HeldApart
<1>6. SpawnOrderStrict'
    BY <1>1 DEF SeqInv, SpawnOrderStrict, OrderOf
<1>. QED  BY <1>4, <1>5, <1>6 DEF SeqInv

\* A call puts back some of the records it holds, and drops the others.
LEMMA ReinsertFrame ==
    ASSUME TypeInv, SeqInv, NEW t \in Threads, NEW S, S \subseteq Held(t),
           \A i \in S : OrderOf(i)' = HeldSeq(t, i),
           \A i \in ProcessId \ S : Keeps(i),
           \A i \in ProcessId : calls'[t].held[i] = NoProcess,
           \A u \in Threads \ {t}, i \in ProcessId : HandKeeps(u, i),
           UNCHANGED next_spawn_sequence
    PROVE  SeqInv'
<1>1. \A i \in Present' \ S : i \in Present /\ OrderOf(i)' = OrderOf(i)
    BY DEF Keeps, Present
<1>2. \A u \in Threads : \A i \in Held(u)' :
          u # t /\ i \in Held(u) /\ HeldSeq(u, i)' = HeldSeq(u, i)
    BY DEF HandKeeps, Held
<1>3. \A i \in S : i \in Held(t) /\ OrderOf(i)' = HeldSeq(t, i)
    OBVIOUS
<1>4. BelowNext'
    BY <1>1, <1>2, <1>3 DEF SeqInv, BelowNext
<1>5. HeldApart'
    <2>1. ASSUME NEW j \in Present', NEW u \in Threads, NEW i \in Held(u)'
          PROVE  HeldSeq(u, i)' # OrderOf(j)'
        <3>1. CASE j \in S
            BY <1>2, <1>3, <3>1 DEF SeqInv, HeldApart
        <3>2. CASE j \notin S
            BY <1>1, <1>2, <3>2 DEF SeqInv, HeldApart
        <3>. QED  BY <3>1, <3>2
    <2>2. ASSUME NEW u \in Threads, NEW v \in Threads, NEW i \in Held(u)', NEW j \in Held(v)',
                 HeldSeq(u, i)' = HeldSeq(v, j)'
          PROVE  u = v /\ i = j
        BY <1>2, <2>2 DEF SeqInv, HeldApart
    <2>. QED  BY <2>1, <2>2 DEF HeldApart
<1>6. SpawnOrderStrict'
    <2>1. ASSUME NEW i \in Present', NEW j \in Present', OrderOf(i)' = OrderOf(j)'
          PROVE  i = j
        <3>1. CASE i \in S /\ j \in S
            BY <1>3, <2>1, <3>1 DEF SeqInv, HeldApart
        <3>2. CASE i \in S /\ j \notin S
            BY <1>1, <1>3, <2>1, <3>2 DEF SeqInv, HeldApart
        <3>3. CASE i \notin S /\ j \in S
            BY <1>1, <1>3, <2>1, <3>3 DEF SeqInv, HeldApart
        <3>4. CASE i \notin S /\ j \notin S
            BY <1>1, <2>1, <3>4 DEF SeqInv, SpawnOrderStrict, OrderOf
        <3>. QED  BY <3>1, <3>2, <3>3, <3>4
    <2>. QED  BY <2>1 DEF SpawnOrderStrict, OrderOf
<1>. QED  BY <1>4, <1>5, <1>6 DEF SeqInv

-----------------------------------------------------------------------------
(* What the building blocks of the actions do to the records.              *)

LEMMA SameMap ==
    ASSUME UNCHANGED processes
    PROVE  MapKeeps
BY DEF MapKeeps, Keeps, OrderOf

\* An entry is removed, or replaced by one with the same number.
LEMMA PutKeeps ==
    ASSUME TypeInv, NEW i, NEW p, Put(i, p),
           i \in ProcessId =>
              \/ p = NoProcess
              \/ processes[i] # NoProcess /\ p.spawn_sequence = OrderOf(i)
    PROVE  MapKeeps
BY DEF Put, MapKeeps, Keeps, OrderOf, TypeInv, TableTypeOK

LEMMA PollAllKeeps ==
    ASSUME TypeInv, NEW S, NEW j \in ProcessId
    PROVE  IF processes[j] = NoProcess THEN PollAll(S)[j] = NoProcess
           ELSE PollAll(S)[j].spawn_sequence = OrderOf(j)
<1>1. CASE processes[j] = NoProcess
    BY <1>1 DEF PollAll
<1>2. CASE processes[j] # NoProcess
    <2>1. processes[j] \in Process
        BY <1>2 DEF TypeInv, TableTypeOK
    <2>. QED  BY <1>2, <2>1, PolledType DEF PollAll, OrderOf
<1>. QED  BY <1>1, <1>2

LEMMA PollAllPutKeeps ==
    ASSUME TypeInv, NEW S, NEW i \in ProcessId, NEW p,
           processes' = [PollAll(S) EXCEPT ![i] = p]
    PROVE  processes'[i] = p /\ \A j \in ProcessId \ {i} : Keeps(j)
<1>1. DOMAIN PollAll(S) = ProcessId
    BY DEF PollAll
<1>2. processes'[i] = p /\ \A j \in ProcessId \ {i} : processes'[j] = PollAll(S)[j]
    BY <1>1 DEF PollAll
<1>3. ASSUME NEW j \in ProcessId \ {i}
      PROVE  Keeps(j)
    BY <1>2, PollAllKeeps DEF Keeps, OrderOf
<1>. QED  BY <1>2, <1>3

\* A thread goes on with what it holds, or with nothing.
LEMMA BecomesKeeps ==
    ASSUME TypeInv, NEW t \in Threads, NEW c, Becomes(t, c),
           c.held = NoneHeld \/ c.held = calls[t].held
    PROVE  HandsKeep
<1>1. calls'[t] = c /\ \A u \in Threads \ {t} : calls'[u] = calls[u]
    BY DEF Becomes, TypeInv
<1>2. \A i \in ProcessId : HandKeeps(t, i)
    BY <1>1 DEF HandKeeps, HeldSeq, NoneHeld
<1>3. \A u \in Threads \ {t}, i \in ProcessId : HandKeeps(u, i)
    BY <1>1 DEF HandKeeps, HeldSeq
<1>. QED  BY <1>2, <1>3 DEF HandsKeep

LEMMA SameHands ==
    ASSUME UNCHANGED calls
    PROVE  HandsKeep
BY DEF HandsKeep, HandKeeps, HeldSeq

LEMMA ReturnKeeps ==
    ASSUME TypeInv, NEW t \in Threads, Return(t)
    PROVE  HandsKeep
BY BecomesKeeps DEF Return, Idle

LEMMA StoppedKeeps ==
    ASSUME TypeInv, NEW t \in Threads, NEW s, Stopped(t, s)
    PROVE  HandsKeep
<1>1. calls[t] \in Call
    BY CallRecord DEF TypeInv
<1>2. [calls[t] EXCEPT !.pc = "stop_check", !.cur = Head(s), !.todo = Tail(s),
                       !.nested = TRUE, !.held = NoneHeld].held = NoneHeld
      /\ [calls[t] EXCEPT !.pc = "restart_insert", !.nested = FALSE,
                          !.held = NoneHeld].held = NoneHeld
    BY <1>1 DEF Call
<1>. QED  BY <1>2, BecomesKeeps, ReturnKeeps DEF Stopped

LEMMA StopFailedKeeps ==
    ASSUME TypeInv, NEW t \in Threads, StopFailed(t)
    PROVE  HandsKeep
BY StoppedKeeps, ReturnKeeps DEF StopFailed

LEMMA RestartedKeeps ==
    ASSUME TypeInv, NEW t \in Threads, Restarted(t)
    PROVE  HandsKeep
<1>1. [Idle EXCEPT !.pc = "restart_check", !.op = "restart",
                   !.ids = calls[t].ids].held = NoneHeld
    BY DEF Idle
<1>. QED  BY <1>1, BecomesKeeps, ReturnKeeps DEF Restarted

-----------------------------------------------------------------------------
(* The steps of the clients.                                               *)

LEMMA CallOrder ==
    ASSUME TypeInv, SeqInv, NEW t \in Threads, Calls(t)
    PROVE  SeqInv'
<1>1. MapKeeps
    <2>1. CASE Poll(t)
        <3>1. PICK i \in Present : Put(i, Polled(processes[i]))
            BY <2>1 DEF Poll
        <3>2. processes[i] \in Process /\ processes[i] # NoProcess
            BY PresentProcess DEF TypeInv, Present
        <3>. QED  BY <3>1, <3>2, PolledType, PutKeeps DEF OrderOf
    <2>2. CASE ~Poll(t)
        <3>1. UNCHANGED processes
            BY <2>2 DEF Calls, CallNext, StartCall, StopCall, StopManyCall, RestartCall,
                        DropManager, SendSignal
        <3>. QED  BY <3>1, SameMap
    <2>. QED  BY <2>1, <2>2
<1>2. HandsKeep
    <2>1. CASE StartCall(t)
        <3>1. PICK op \in {"start", "start_with_deps"}, c \in Configs, cycle \in BOOLEAN :
                IF cycle THEN UNCHANGED calls
                ELSE Becomes(t, [Idle EXCEPT !.pc = "start_insert", !.op = op,
                                             !.id = next_id, !.config = c])
            BY <2>1 DEF StartCall
        <3>2. [Idle EXCEPT !.pc = "start_insert", !.op = op, !.id = next_id,
                           !.config = c].held = NoneHeld
            BY DEF Idle
        <3>. QED  BY <3>1, <3>2, SameHands, BecomesKeeps
    <2>2. CASE StopCall(t)
        <3>1. PICK i \in Present :
                Becomes(t, [Idle EXCEPT !.pc = "stop_check", !.op = "stop", !.id = i,
                                        !.cur = i])
            BY <2>2 DEF StopCall
        <3>2. [Idle EXCEPT !.pc = "stop_check", !.op = "stop", !.id = i,
                           !.cur = i].held = NoneHeld
            BY DEF Idle
        <3>. QED  BY <3>1, <3>2, BecomesKeeps
    <2>3. CASE StopManyCall(t) \/ RestartCall(t) \/ DropManager(t)
        <3>1. \E ids, op, pc : \/ Becomes(t, [Idle EXCEPT !.pc = pc, !.op = op, !.ids = ids])
                               \/ Becomes(t, [Idle EXCEPT !.pc = pc, !.op = op])
            BY <2>3 DEF StopManyCall, RestartCall, DropManager
        <3>2. \A ids, op, pc : /\ [Idle EXCEPT !.pc = pc, !.op = op, !.ids = ids].held = NoneHeld
                               /\ [Idle EXCEPT !.pc = pc, !.op = op].held = NoneHeld
            BY DEF Idle
        <3>. QED  BY <3>1, <3>2, BecomesKeeps
    <2>4. CASE Poll(t) \/ \E i \in ProcessId : SendSignal(t, i)
        BY <2>4, SameHands DEF Poll, SendSignal
    <2>. QED  BY <2>1, <2>2, <2>3, <2>4 DEF Calls, CallNext
<1>3. UNCHANGED next_spawn_sequence
    BY DEF Calls, CallNext, StartCall, StopCall, StopManyCall, RestartCall,
           DropManager, SendSignal, Poll
<1>. QED  BY <1>1, <1>2, <1>3, KeepFrame

LEMMA StartSpawnOrder ==
    ASSUME TypeInv, SeqInv, NEW t \in Threads, StartSpawn(t)
    PROVE  SeqInv'
<1>1. PICK id \in ProcessId, c \in Configs : id = calls[t].id /\ c = calls[t].config
    BY CallRecord DEF StartSpawn, TypeInv, At, GoodCall
<1>2. HandsKeep
    BY ReturnKeeps DEF StartSpawn
<1>3. PICK deps \in resolve_dependencies(c.depends_on) :
        \/ \E q \in Pid :
             /\ processes' = [PollAll(Visited(deps)) EXCEPT
                                ![id] = NewProcess(c, q, next_spawn_sequence, deps)]
             /\ next_spawn_sequence' = next_spawn_sequence + 1
        \/ /\ processes' = PollAll(Visited(deps))
           /\ UNCHANGED next_spawn_sequence
    BY <1>1 DEF StartSpawn
<1>4. ASSUME NEW q \in Pid,
             processes' = [PollAll(Visited(deps)) EXCEPT
                             ![id] = NewProcess(c, q, next_spawn_sequence, deps)],
             next_spawn_sequence' = next_spawn_sequence + 1
      PROVE  SeqInv'
    <2>1. /\ processes'[id] = NewProcess(c, q, next_spawn_sequence, deps)
          /\ \A j \in ProcessId \ {id} : Keeps(j)
        BY <1>1, <1>4, PollAllPutKeeps
    <2>2. OrderOf(id)' = next_spawn_sequence
        <3>1. NewProcess(c, q, next_spawn_sequence, deps).spawn_sequence = next_spawn_sequence
            BY DEF NewProcess
        <3>. QED  BY <2>1, <3>1 DEF OrderOf
    <2>. QED  BY <1>1, <1>2, <1>4, <2>1, <2>2, NewFrame
<1>5. CASE processes' = PollAll(Visited(deps)) /\ UNCHANGED next_spawn_sequence
    <2>1. MapKeeps
        BY <1>5, PollAllKeeps DEF MapKeeps, Keeps, OrderOf
    <2>. QED  BY <1>2, <1>5, <2>1, KeepFrame
<1>. QED  BY <1>3, <1>4, <1>5

LEMMA StartWaitingOrder ==
    ASSUME TypeInv, SeqInv, NEW t \in Threads, StartWaiting(t)
    PROVE  SeqInv'
<1>1. PICK id \in ProcessId, c \in Configs : id = calls[t].id /\ c = calls[t].config
    BY CallRecord DEF StartWaiting, TypeInv, At, GoodCall
<1>2. HandsKeep
    <2>1. [calls[t] EXCEPT !.pc = "await_deps"].held = calls[t].held
        BY CallRecord DEF TypeInv, Call
    <2>2. Return(t) \/ Becomes(t, [calls[t] EXCEPT !.pc = "await_deps"])
        BY DEF StartWaiting
    <2>. QED  BY <2>1, <2>2, ReturnKeeps, BecomesKeeps
<1>3. PICK deps \in resolve_dependencies(c.depends_on) :
        \E S : processes' = [PollAll(S) EXCEPT
                               ![id] = NewProcess(c, 0, next_spawn_sequence, deps)]
    BY <1>1 DEF StartWaiting
<1>4. /\ processes'[id] = NewProcess(c, 0, next_spawn_sequence, deps)
      /\ \A j \in ProcessId \ {id} : Keeps(j)
    BY <1>1, <1>3, PollAllPutKeeps
<1>5. OrderOf(id)' = next_spawn_sequence
    <2>1. NewProcess(c, 0, next_spawn_sequence, deps).spawn_sequence = next_spawn_sequence
        BY DEF NewProcess
    <2>. QED  BY <1>4, <2>1 DEF OrderOf
<1>6. next_spawn_sequence' = next_spawn_sequence + 1
    BY DEF StartWaiting
<1>. QED  BY <1>1, <1>2, <1>4, <1>5, <1>6, NewFrame

LEMMA RestartInsertOrder ==
    ASSUME TypeInv, SeqInv, NEW t \in Threads, RestartInsert(t)
    PROVE  SeqInv'
<1>1. PICK id \in ProcessId, c \in Configs : id = calls[t].id /\ c = calls[t].config
    BY CallRecord DEF RestartInsert, TypeInv, At, GoodCall
<1>2. ASSUME NEW q \in Pid, Put(id, NewProcess(c, q, next_spawn_sequence, <<>>)),
             next_spawn_sequence' = next_spawn_sequence + 1, Restarted(t)
      PROVE  SeqInv'
    <2>1. HandsKeep
        BY <1>2, RestartedKeeps
    <2>2. OrderOf(id)' = next_spawn_sequence /\ \A j \in ProcessId \ {id} : Keeps(j)
        <3>1. NewProcess(c, q, next_spawn_sequence, <<>>).spawn_sequence = next_spawn_sequence
            BY DEF NewProcess
        <3>. QED  BY <1>1, <1>2, <3>1 DEF Put, OrderOf, Keeps, TypeInv, TableTypeOK
    <2>. QED  BY <1>1, <1>2, <2>1, <2>2, NewFrame
<1>3. CASE Return(t) /\ UNCHANGED <<processes, next_spawn_sequence>>
    BY <1>3, ReturnKeeps, SameMap, KeepFrame
<1>. QED  BY <1>1, <1>2, <1>3 DEF RestartInsert

LEMMA StopRemoveOrder ==
    ASSUME TypeInv, SeqInv, NEW t \in Threads, StopRemove(t)
    PROVE  SeqInv'
<1>. DEFINE k == calls[t]
<1>1. PICK i \in ProcessId : i = k.cur
    BY CallRecord DEF StopRemove, TypeInv, At, GoodCall, StopStep
<1>. DEFINE p == processes[i]
            n == [k EXCEPT !.pc = "stop_grace", !.held[i] = [p EXCEPT !.state = "Stopping"]]
<1>0. k \in Call /\ UNCHANGED next_spawn_sequence /\ Put(i, NoProcess)
    BY <1>1, CallRecord DEF StopRemove, TypeInv
<1>2. MapKeeps
    BY <1>0, PutKeeps
<1>3. CASE Stopped(t, k.todo) \/ StopFailed(t)
    BY <1>0, <1>2, <1>3, StoppedKeeps, StopFailedKeeps, KeepFrame
<1>4. CASE p # NoProcess /\ Becomes(t, n)
    <2>1. p \in Process /\ i \in Present
        BY <1>1, <1>4 DEF TypeInv, TableTypeOK, Present
    <2>2. n.held = [k.held EXCEPT ![i] = [p EXCEPT !.state = "Stopping"]]
        BY <1>0 DEF Call
    <2>3. /\ calls'[t].held = [k.held EXCEPT ![i] = [p EXCEPT !.state = "Stopping"]]
          /\ \A u \in Threads \ {t} : calls'[u] = calls[u]
        BY <1>4, <2>2 DEF Becomes, TypeInv
    <2>4. [p EXCEPT !.state = "Stopping"].spawn_sequence = p.spawn_sequence
        BY <2>1 DEF Process
    <2>5. HeldSeq(t, i)' = OrderOf(i)
        BY <1>0, <2>3, <2>4 DEF HeldSeq, OrderOf, Call
    <2>6. \A j \in ProcessId \ {i} : HandKeeps(t, j)
        BY <1>0, <2>3 DEF HandKeeps, HeldSeq, Call
    <2>7. \A u \in Threads \ {t}, j \in ProcessId : HandKeeps(u, j)
        BY <2>3 DEF HandKeeps, HeldSeq
    <2>8. processes'[i] = NoProcess
        BY <1>0 DEF Put, TypeInv, TableTypeOK
    <2>. QED  BY <1>0, <1>2, <2>1, <2>5, <2>6, <2>7, <2>8, TakeFrame DEF MapKeeps
<1>. QED  BY <1>1, <1>3, <1>4 DEF StopRemove, KillResult

LEMMA StopManyRemoveOrder ==
    ASSUME TypeInv, SeqInv, NEW t \in Threads, StopManyRemove(t)
    PROVE  SeqInv'
<1>. DEFINE k == calls[t]
<1>1. k \in Call /\ k.ids \subseteq ProcessId /\ UNCHANGED next_spawn_sequence
      /\ k.held \in [ProcessId -> Process \cup {NoProcess}]
    BY CallRecord DEF TypeInv, Call, StopManyRemove
<1>2. PICK i \in k.ids :
        LET p == processes[i]
            ids == k.ids \ {i}
            held == IF p = NoProcess THEN k.held
                    ELSE IF p.pid = 0 THEN k.held ELSE [k.held EXCEPT ![i] = p]
        IN /\ Put(i, NoProcess)
           /\ IF ids = {} /\ held = NoneHeld THEN Return(t)
              ELSE Becomes(t, [k EXCEPT
                       !.pc = IF ids = {} THEN "many_signal" ELSE "many_remove",
                       !.ids = ids, !.held = held])
    BY DEF StopManyRemove
<1>. DEFINE p == processes[i]
            held == IF p = NoProcess THEN k.held
                    ELSE IF p.pid = 0 THEN k.held ELSE [k.held EXCEPT ![i] = p]
<1>3. i \in ProcessId /\ MapKeeps
    BY <1>1, <1>2, PutKeeps
<1>4. CASE Return(t)
    BY <1>1, <1>3, <1>4, ReturnKeeps, KeepFrame
<1>5. CASE ~Return(t)
    <2>. DEFINE pc == IF k.ids \ {i} = {} THEN "many_signal" ELSE "many_remove"
                n == [k EXCEPT !.pc = pc, !.ids = k.ids \ {i}, !.held = held]
    <2>1. Becomes(t, n)
        BY <1>2, <1>5
    <2>2. n.held = held
        <3>. HIDE DEF held, pc
        <3>. QED  BY <1>1 DEF Call
    <2>3. CASE held = k.held
        <3>. HIDE DEF n
        <3>1. HandsKeep
            BY <2>1, <2>2, <2>3, BecomesKeeps
        <3>. QED  BY <1>1, <1>3, <3>1, KeepFrame
    <2>4. CASE held # k.held
        <3>1. i \in Present /\ held = [k.held EXCEPT ![i] = p]
            BY <1>3, <2>4 DEF Present
        <3>2. calls'[t].held = held /\ \A u \in Threads \ {t} : calls'[u] = calls[u]
            <4>. HIDE DEF n, held
            <4>. QED  BY <2>1, <2>2 DEF Becomes, TypeInv
        <3>3. HeldSeq(t, i)' = OrderOf(i)
            BY <1>1, <1>3, <3>1, <3>2 DEF HeldSeq, OrderOf
        <3>4. \A j \in ProcessId \ {i} : HandKeeps(t, j)
            BY <1>1, <3>1, <3>2 DEF HandKeeps, HeldSeq
        <3>5. \A u \in Threads \ {t}, j \in ProcessId : HandKeeps(u, j)
            BY <3>2 DEF HandKeeps, HeldSeq
        <3>6. processes'[i] = NoProcess
            BY <1>2, <1>3 DEF Put, TypeInv, TableTypeOK
        <3>. QED  BY <1>1, <1>3, <3>1, <3>3, <3>4, <3>5, <3>6, TakeFrame DEF MapKeeps
    <2>. QED  BY <2>3, <2>4
<1>. QED  BY <1>4, <1>5

LEMMA StopManyReapOrder ==
    ASSUME TypeInv, SeqInv, NEW t \in Threads, StopManyReap(t)
    PROVE  SeqInv'
<1>1. PICK S : S = Reinserted(t)
    OBVIOUS
<1>2. S \subseteq Held(t) /\ S \subseteq ProcessId
    BY <1>1 DEF Reinserted, Held
<1>3. \A i \in S : OrderOf(i)' = HeldSeq(t, i)
    <2>1. \A p \in Process : [p EXCEPT !.state = "Failed"].spawn_sequence = p.spawn_sequence
        BY DEF Process
    <2>2. \A i \in S : calls[t].held[i] \in Process
        BY <1>2, HeldType DEF TypeInv
    <2>3. \A i \in S : processes'[i] = [calls[t].held[i] EXCEPT !.state = "Failed"]
        BY <1>1, <1>2 DEF StopManyReap
    <2>. QED  BY <2>1, <2>2, <2>3 DEF OrderOf, HeldSeq
<1>4. \A i \in ProcessId \ S : Keeps(i)
    <2>1. \A i \in ProcessId \ S : processes'[i] = processes[i]
        BY <1>1 DEF StopManyReap
    <2>. QED  BY <2>1 DEF Keeps, OrderOf
<1>5. calls'[t] = Idle /\ \A u \in Threads \ {t} : calls'[u] = calls[u]
    BY DEF StopManyReap, Return, Becomes, TypeInv
<1>6. \A i \in ProcessId : calls'[t].held[i] = NoProcess
    BY <1>5 DEF Idle, NoneHeld
<1>7. \A u \in Threads \ {t}, i \in ProcessId : HandKeeps(u, i)
    BY <1>5 DEF HandKeeps, HeldSeq
<1>8. UNCHANGED next_spawn_sequence
    BY DEF StopManyReap
<1>. QED  BY <1>2, <1>3, <1>4, <1>6, <1>7, <1>8, ReinsertFrame

LEMMA StopManyStepOrder ==
    ASSUME TypeInv, SeqInv, NEW t \in Threads, StopManySignal(t) \/ StopManyEscalate(t)
    PROVE  SeqInv'
<1>. DEFINE k == calls[t]
<1>1. k \in Call /\ UNCHANGED <<processes, next_spawn_sequence>>
    BY CallRecord DEF TypeInv, StopManySignal, StopManyEscalate
<1>2. PICK h : /\ \E pc \in {"many_grace", "many_reap"} :
                       Becomes(t, [k EXCEPT !.pc = pc, !.held = h])
               /\ \A i \in ProcessId : h[i] # NoProcess =>
                       i \in Held(t) /\ h[i].spawn_sequence = HeldSeq(t, i)
    <2>1. CASE StopManySignal(t)
        <3>. DEFINE h == [i \in ProcessId |-> IF i \in Held(t)
                                              THEN [k.held[i] EXCEPT !.state = "Stopping"]
                                              ELSE NoProcess]
        <3>1. \A p \in Process :
                 [p EXCEPT !.state = "Stopping"].spawn_sequence = p.spawn_sequence
            BY DEF Process
        <3>2. \A i \in Held(t) : k.held[i] \in Process
            BY HeldType DEF TypeInv
        <3>3. \A i \in ProcessId : h[i] # NoProcess =>
                 i \in Held(t) /\ h[i].spawn_sequence = HeldSeq(t, i)
            BY <3>1, <3>2 DEF HeldSeq
        <3>4. Becomes(t, [k EXCEPT !.pc = "many_grace", !.held = h])
            BY <2>1 DEF StopManySignal
        <3>. HIDE DEF h
        <3>. QED  BY <3>3, <3>4
    <2>2. CASE StopManyEscalate(t)
        <3>. DEFINE left == {i \in Held(t) : is_alive(Polled(k.held[i]).state)}
                    h == [i \in ProcessId |-> IF i \in left THEN k.held[i] ELSE NoProcess]
        <3>1. \A i \in ProcessId : h[i] # NoProcess =>
                 i \in Held(t) /\ h[i].spawn_sequence = HeldSeq(t, i)
            BY DEF HeldSeq
        <3>2. Becomes(t, [k EXCEPT !.pc = "many_reap", !.held = h])
            BY <2>2 DEF StopManyEscalate
        <3>. HIDE DEF h
        <3>. QED  BY <3>1, <3>2
    <2>. QED  BY <2>1, <2>2
<1>3. calls'[t].held = h /\ \A u \in Threads \ {t} : calls'[u] = calls[u]
    <2>1. \A pc : [k EXCEPT !.pc = pc, !.held = h].held = h
        BY <1>1 DEF Call
    <2>. QED  BY <1>2, <2>1 DEF Becomes, TypeInv
<1>4. HandsKeep
    BY <1>2, <1>3 DEF HandsKeep, HandKeeps, HeldSeq, Held
<1>. QED  BY <1>1, <1>4, SameMap, KeepFrame

\* The other steps add no record and move none.
LEMMA OtherStepOrder ==
    ASSUME TypeInv, SeqInv, NEW t \in Threads,
           \/ AwaitReturn(t) \/ AwaitTimeout(t) \/ StopCheck(t) \/ StopCancel(t)
           \/ StopUnqueue(t) \/ StopEscalate(t) \/ StopReap(t) \/ RestartCheck(t)
           \/ RestartBlocks(t) \/ RestartReset(t) \/ RestartInPlace(t) \/ DropStop(t)
    PROVE  SeqInv'
<1>. DEFINE k == calls[t]
<1>1. k \in Call
    BY CallRecord DEF TypeInv
<1>2. \A c : Becomes(t, c) /\ c.held = k.held => HandsKeep
    BY BecomesKeeps
<1>3. \A i \in Present : processes[i] \in Process
    BY PresentProcess DEF TypeInv
<1>4. CASE AwaitReturn(t)
    BY <1>4, SameMap, ReturnKeeps, KeepFrame DEF AwaitReturn
<1>5. CASE AwaitTimeout(t)
    <2>1. \/ UNCHANGED processes
          \/ /\ processes[k.id] # NoProcess
             /\ Put(k.id, [processes[k.id] EXCEPT !.state = "Failed"])
        BY <1>5 DEF AwaitTimeout
    <2>2. \A p \in Process : [p EXCEPT !.state = "Failed"].spawn_sequence = p.spawn_sequence
        BY DEF Process
    <2>3. MapKeeps
        BY <1>3, <2>1, <2>2, SameMap, PutKeeps DEF Present, OrderOf
    <2>. QED  BY <1>5, <2>3, ReturnKeeps, KeepFrame DEF AwaitTimeout
<1>6. CASE StopCheck(t)
    <2>1. PICK pc, pid, cascade :
             StopFailed(t) \/ Becomes(t, [k EXCEPT !.pc = pc, !.pid = pid,
                                                   !.cascade = cascade])
        BY <1>6 DEF StopCheck
    <2>2. [k EXCEPT !.pc = pc, !.pid = pid, !.cascade = cascade].held = k.held
        BY <1>1 DEF Call
    <2>3. HandsKeep
        BY <1>2, <2>1, <2>2, StopFailedKeeps
    <2>. QED  BY <1>6, <2>3, SameMap, KeepFrame DEF StopCheck
<1>7. CASE StopCancel(t) \/ StopUnqueue(t)
    <2>1. MapKeeps
        BY <1>7, PutKeeps DEF StopCancel, StopUnqueue
    <2>2. HandsKeep
        BY <1>7, StoppedKeeps DEF StopCancel, StopUnqueue
    <2>. QED  BY <1>7, <2>1, <2>2, KeepFrame DEF StopCancel, StopUnqueue
<1>8. CASE StopEscalate(t) \/ StopReap(t)
    <2>1. [k EXCEPT !.pc = "stop_reap"].held = k.held
        BY <1>1 DEF Call
    <2>2. Becomes(t, [k EXCEPT !.pc = "stop_reap"]) \/ \E s : Stopped(t, s)
        BY <1>8 DEF StopEscalate, StopReap
    <2>3. HandsKeep
        BY <1>2, <2>1, <2>2, StoppedKeeps
    <2>. QED  BY <1>8, <2>3, SameMap, KeepFrame DEF StopEscalate, StopReap
<1>9. CASE RestartCheck(t)
    <2>1. PICK pc, id, c, ids :
             Return(t) \/ Becomes(t, [k EXCEPT !.pc = pc, !.id = id, !.cur = id,
                                               !.config = c, !.ids = ids])
        BY <1>9 DEF RestartCheck
    <2>2. [k EXCEPT !.pc = pc, !.id = id, !.cur = id, !.config = c, !.ids = ids].held
            = k.held
        BY <1>1 DEF Call
    <2>3. HandsKeep
        BY <1>2, <2>1, <2>2, ReturnKeeps
    <2>. QED  BY <1>9, <2>3, SameMap, KeepFrame DEF RestartCheck
<1>10. CASE RestartBlocks(t)
    <2>1. [k EXCEPT !.pc = "restart_wait"].held = k.held
        BY <1>1 DEF Call
    <2>2. HandsKeep
        BY <1>2, <1>10, <2>1 DEF RestartBlocks
    <2>. QED  BY <1>10, <2>2, SameMap, KeepFrame DEF RestartBlocks
<1>11. CASE RestartReset(t)
    <2>1. [k EXCEPT !.pc = "restart_in_place"].held = k.held
        BY <1>1 DEF Call
    <2>2. HandsKeep
        BY <1>2, <1>11, <2>1, ReturnKeeps DEF RestartReset
    <2>3. \/ UNCHANGED processes
          \/ processes[k.id] # NoProcess /\ Put(k.id, Reset(processes[k.id]))
        BY <1>11 DEF RestartReset
    <2>4. MapKeeps
        BY <1>3, <2>3, SameMap, PutKeeps, ResetType DEF Present, OrderOf
    <2>. QED  BY <1>11, <2>2, <2>4, KeepFrame DEF RestartReset
<1>12. CASE RestartInPlace(t)
    <2>1. HandsKeep
        BY <1>12, ReturnKeeps, RestartedKeeps DEF RestartInPlace
    <2>2. \/ UNCHANGED processes
          \/ /\ processes[k.id] # NoProcess
             /\ \E q \in Pid : Put(k.id, InPlace(processes[k.id], q))
        BY <1>12 DEF RestartInPlace, InPlace
    <2>3. MapKeeps
        BY <1>3, <2>2, SameMap, PutKeeps, InPlaceType DEF Present, OrderOf
    <2>4. next_spawn_sequence' \in {next_spawn_sequence, next_spawn_sequence + 1}
        BY <1>12 DEF RestartInPlace
    <2>. QED  BY <2>1, <2>3, <2>4, KeepFrame
<1>13. CASE DropStop(t)
    <2>1. PICK ids : Return(t) \/ Becomes(t, [k EXCEPT !.pc = "many_remove", !.ids = ids])
        BY <1>13 DEF DropStop
    <2>2. [k EXCEPT !.pc = "many_remove", !.ids = ids].held = k.held
        BY <1>1 DEF Call
    <2>3. HandsKeep
        BY <1>2, <2>1, <2>2, ReturnKeeps
    <2>. QED  BY <1>13, <2>3, SameMap, KeepFrame DEF DropStop
<1>. QED
    BY <1>4, <1>5, <1>6, <1>7, <1>8, <1>9, <1>10, <1>11, <1>12, <1>13

LEMMA StepOrder ==
    ASSUME TypeInv, SeqInv, NEW t \in Threads, Steps(t)
    PROVE  SeqInv'
BY StartSpawnOrder, StartWaitingOrder, RestartInsertOrder, StopRemoveOrder,
   StopManyRemoveOrder, StopManyReapOrder, StopManyStepOrder, OtherStepOrder
DEF Steps, StepNext

-----------------------------------------------------------------------------
(* The steps of the reaper, of the children and of the clock: an entry is  *)
(* changed in place or removed.                                            *)

LEMMA PutSameKeeps ==
    ASSUME TypeInv, NEW i \in ProcessId, NEW p, Put(i, p), processes[i] # NoProcess,
           p.spawn_sequence = OrderOf(i)
    PROVE  MapKeeps
BY PutKeeps

LEMMA ReaperMapKeeps ==
    ASSUME IInv, ReaperNext
    PROVE  MapKeeps
<1>. USE DEF IInv
<1>1. \A i \in Present :
         i \in ProcessId /\ processes[i] \in Process /\ processes[i] # NoProcess
    BY PresentProcess DEF Present, TypeInv
<1>2. CASE BeginCycle \/ EndDetect \/ CollectTargets \/ EmitEvents
             \/ CollectEligible \/ CollectWaiting \/ CollectRunning
             \/ \E i \in ProcessId : RestartSkips(i) \/ ScheduleBlocks(i) \/ RestartWedges(i)
    <2>1. UNCHANGED processes
        BY <1>2 DEF BeginCycle, EndDetect, CollectTargets, EmitEvents, CollectEligible,
                    CollectWaiting, CollectRunning, RestartSkips, ScheduleBlocks,
                    RestartWedges
    <2>. QED  BY <2>1, SameMap
<1>3. CASE RemoveExited
    <2>1. \A i \in ProcessId : processes'[i] \in {NoProcess, processes[i]}
        BY <1>3 DEF RemoveExited
    <2>. QED  BY <2>1 DEF MapKeeps, Keeps, OrderOf
<1>4. CASE ScheduleResumes
    <2>1. cur \in Present /\ Put(cur, Scheduled(processes[cur]))
        BY <1>4 DEF ScheduleResumes, In, GuardInv, ReaperWaits
    <2>. QED  BY <1>1, <2>1, ScheduledType, PutSameKeeps DEF OrderOf
<1>5. ASSUME NEW i \in ProcessId, DetectExit(i) \/ DetectAlive(i)
      PROVE  MapKeeps
    <2>. DEFINE p == check_stable_uptime(processes[i])
    <2>1. i \in Present
        BY <1>5 DEF DetectExit, DetectAlive
    <2>2. p \in Process /\ p.spawn_sequence = OrderOf(i)
        BY <1>1, <2>1, StableUptimeType DEF OrderOf
    <2>3. /\ [p EXCEPT !.cascade_flag = FALSE].spawn_sequence = p.spawn_sequence
          /\ [p EXCEPT !.state = "Running"].spawn_sequence = p.spawn_sequence
        <3>. HIDE DEF p
        <3>. QED  BY <2>2 DEF Process
    <2>4. \/ Put(i, [p EXCEPT !.cascade_flag = FALSE])
          \/ Put(i, [p EXCEPT !.state = "Running"])
          \/ Put(i, p)
        BY <1>5 DEF DetectExit, DetectAlive
    <2>. HIDE DEF p
    <2>. QED  BY <1>1, <2>1, <2>2, <2>3, <2>4, PutSameKeeps
<1>6. ASSUME NEW i \in ProcessId, FlagTarget(i) \/ ScheduleRestart(i)
      PROVE  MapKeeps
    <2>1. \/ UNCHANGED processes
          \/ i \in Present /\ \/ Put(i, Flagged(processes[i]))
                              \/ Put(i, Scheduled(processes[i]))
        BY <1>6 DEF FlagTarget, ScheduleRestart, Present
    <2>. QED  BY <1>1, <2>1, FlaggedType, ScheduledType, SameMap, PutSameKeeps DEF OrderOf
<1>7. ASSUME NEW i \in ProcessId, RestartSpawns(i) \/ RestartWaits(i)
      PROVE  MapKeeps
    <2>. DEFINE p == processes[i]
    <2>1. p \in Process /\ p # NoProcess /\ p.config \in Configs
          /\ p.resolved_deps \in Seq(ProcessId)
        BY <1>1, <1>7 DEF RestartSpawns, RestartWaits, Process
    <2>2. PICK deps \in resolve_dependencies(p.config.depends_on) : \E b :
            /\ processes' = [PollAll(Visited(deps)) EXCEPT ![i] = b]
            /\ \/ \E q \in Pid : b = Respawned(p, q, IF deps = <<>> THEN p.resolved_deps
                                                      ELSE deps)
               \/ b = NoProcess
               \/ b = Requeued(p, deps)
        BY <1>7 DEF RestartSpawns, RestartWaits, BindingsBelow
    <2>. PICK b :
            /\ processes' = [PollAll(Visited(deps)) EXCEPT ![i] = b]
            /\ \/ \E q \in Pid : b = Respawned(p, q, IF deps = <<>> THEN p.resolved_deps
                                                      ELSE deps)
               \/ b = NoProcess
               \/ b = Requeued(p, deps)
        BY <2>2
    <2>3. deps \in Seq(ProcessId)
        BY <2>1, BindingType
    <2>4. b = NoProcess \/ b.spawn_sequence = OrderOf(i)
        <3>1. ASSUME NEW q \in Pid, NEW d \in Seq(ProcessId), b = Respawned(p, q, d)
              PROVE  b.spawn_sequence = OrderOf(i)
            BY <2>1, <3>1, RespawnedType DEF OrderOf
        <3>2. ASSUME b = Requeued(p, deps)
              PROVE  b.spawn_sequence = OrderOf(i)
            BY <2>1, <2>3, <3>2, RequeuedType DEF OrderOf
        <3>. QED  BY <2>1, <2>2, <2>3, <3>1, <3>2
    <2>5. processes'[i] = b /\ \A j \in ProcessId \ {i} : Keeps(j)
        BY <2>2, PollAllPutKeeps
    <2>. QED  BY <2>1, <2>4, <2>5 DEF MapKeeps, Keeps, OrderOf
<1>8. ASSUME NEW i \in ProcessId, CheckWaiting(i)
      PROVE  MapKeeps
    <2>1. \/ UNCHANGED processes
          \/ /\ i \in Present
             /\ \E deps : Put(i, [processes[i] EXCEPT !.resolved_deps = deps])
        BY <1>8 DEF CheckWaiting, Present
    <2>2. \A p \in Process : \A deps :
             [p EXCEPT !.resolved_deps = deps].spawn_sequence = p.spawn_sequence
        BY DEF Process
    <2>. QED  BY <1>1, <2>1, <2>2, SameMap, PutSameKeeps DEF OrderOf
<1>9. ASSUME NEW i \in ProcessId, SpawnWaiting(i) \/ FailWaiting(i) \/ FailRunning(i)
      PROVE  MapKeeps
    <2>1. \/ UNCHANGED processes
          \/ Put(i, NoProcess)
          \/ i \in Present /\ \E q \in Pid : Put(i, SpawnedWaiting(processes[i], q))
        BY <1>9 DEF SpawnWaiting, FailWaiting, FailRunning, RemoveFailed, Present
    <2>. QED  BY <1>1, <2>1, SpawnedWaitingType, SameMap, PutKeeps, PutSameKeeps DEF OrderOf
<1>. QED
    BY <1>2, <1>3, <1>4, <1>5, <1>6, <1>7, <1>8, <1>9 DEF ReaperNext

LEMMA ReaperOrder ==
    ASSUME IInv, SeqInv, ReaperNext
    PROVE  SeqInv'
<1>1. UNCHANGED <<calls, next_spawn_sequence>>
    BY DEF ReaperNext, BeginCycle, EndDetect, CollectTargets, RemoveExited, EmitEvents,
           CollectEligible, CollectWaiting, CollectRunning, ScheduleResumes, DetectExit,
           DetectAlive, FlagTarget, ScheduleRestart, ScheduleBlocks, RestartSkips,
           RestartSpawns, RestartWaits, RestartWedges, CheckWaiting, SpawnWaiting,
           FailWaiting, FailRunning
<1>. QED  BY <1>1, ReaperMapKeeps, SameHands, KeepFrame DEF IInv

LEMMA TicksOrder ==
    ASSUME TypeInv, SeqInv, NEW i \in ProcessId, Ticks(i)
    PROVE  SeqInv'
<1>1. i \in Present /\ UNCHANGED <<calls, next_spawn_sequence>>
    BY DEF Ticks, BackoffElapses, UptimeReached, DependencyExpires, InState
<1>2. processes[i] \in Process /\ processes[i] # NoProcess
    BY <1>1, PresentProcess DEF Present, TypeInv
<1>3. \/ Put(i, [processes[i] EXCEPT !.backoff = "elapsed"])
      \/ Put(i, [processes[i] EXCEPT !.stable = TRUE])
      \/ Put(i, [processes[i] EXCEPT !.expired = TRUE])
    BY DEF Ticks, BackoffElapses, UptimeReached, DependencyExpires
<1>4. \A p \in Process : /\ [p EXCEPT !.backoff = "elapsed"].spawn_sequence = p.spawn_sequence
                         /\ [p EXCEPT !.stable = TRUE].spawn_sequence = p.spawn_sequence
                         /\ [p EXCEPT !.expired = TRUE].spawn_sequence = p.spawn_sequence
    BY DEF Process
<1>5. MapKeeps
    BY <1>2, <1>3, <1>4, PutSameKeeps DEF OrderOf
<1>. QED  BY <1>1, <1>5, SameHands, KeepFrame

-----------------------------------------------------------------------------
LEMMA OrderInitial == Init => SeqInv
BY DEF Init, TableInit, ManagerInit, SeqInv, BelowNext, HeldApart, SpawnOrderStrict,
       Present, Held, Idle, NoneHeld

LEMMA OrderInductive == IInv /\ SeqInv /\ [Next]_vars => SeqInv'
<1>. SUFFICES ASSUME IInv, SeqInv, [Next]_vars PROVE SeqInv'
    OBVIOUS
<1>. USE DEF IInv
<1>1. ASSUME NEW t \in Threads, Calls(t) \/ Steps(t)
      PROVE  SeqInv'
    BY <1>1, CallOrder, StepOrder
<1>2. CASE ReaperNext
    BY <1>2, ReaperOrder
<1>3. ASSUME NEW i \in ProcessId, Ticks(i)
      PROVE  SeqInv'
    BY <1>3, TicksOrder
<1>4. CASE (\E q \in Pid : Exits(q)) \/ Closes \/ UNCHANGED vars
    <2>1. UNCHANGED <<processes, next_spawn_sequence, calls>>
        BY <1>4 DEF Exits, ChildExits, Closes, CloseChannel, vars
    <2>. QED  BY <2>1, SameMap, SameHands, KeepFrame
<1>. QED  BY <1>1, <1>2, <1>3, <1>4 DEF Next, Ticks

\* However clients start, stop and restart processes next to the reaper, no
\* two processes share a spawn_sequence, in the map or on their way back to it.
THEOREM SpawnOrder == Spec => []SpawnOrderStrict
<1>1. Init => IInv /\ SeqInv
    BY Initial, OrderInitial
<1>2. (IInv /\ SeqInv) /\ [Next]_vars => (IInv /\ SeqInv)'
    BY Inductive, OrderInductive
<1>3. IInv /\ SeqInv => SpawnOrderStrict
    BY DEF SeqInv
<1>. QED  BY <1>1, <1>2, <1>3, PTL DEF Spec
=============================================================================
