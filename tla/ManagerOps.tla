----------------------------- MODULE ManagerOps -----------------------------
(***************************************************************************)
(* The public operations of ProcessManager, called by client threads.      *)
(*                                                                         *)
(* A call is broken where the code releases the DashMap or lets time pass: *)
(* between reading an entry and removing it, between the kill signal, the  *)
(* end of the grace period and the end of the wait after SIGKILL, between  *)
(* stopping a process and spawning its successor.                          *)
(***************************************************************************)
EXTENDS ProcessTable

CONSTANTS
    Threads,   \* the client threads
    Ops        \* the operations they may call

AllOps == {"start", "start_with_deps", "stop", "stop_many", "restart", "state",
           "send_signal", "drop", "close"}

ASSUME OpsAssumption == Ops \subseteq AllOps

VARIABLES
    calls,      \* the call each thread is executing
    stop_flag,  \* ReaperHandle::stop_flag
    dropping,   \* has Drop for ProcessManager begun?
    rpc         \* where the reaper thread is

managerVars == <<calls, stop_flag, dropping>>

CallStep == {"idle", "start_insert", "await_deps",
             "stop_check", "stop_cancel", "stop_unqueue", "stop_remove",
             "stop_grace", "stop_reap",
             "many_remove", "many_signal", "many_grace", "many_reap",
             "restart_check", "restart_reset", "restart_wait",
             "restart_in_place", "restart_insert", "drop_join"}

\* id is the process the call is about, cur the one stop() is working on and
\* nested whether that is a dependent reached by cascade_stop; pid and cascade
\* are what stop() read of it before it dropped the guard; todo holds the
\* dependents still to stop and ids the targets of a label operation; held
\* are the processes removed from the map and owned by the call.
Call ==
    [pc : CallStep,
     op : AllOps \cup {"none"},
     id : 0 .. MaxId,
     cur : 0 .. MaxId,
     nested : BOOLEAN,
     config : Configs \cup {NoProcess},
     pid : 0 .. MaxPid,
     cascade : BOOLEAN,
     todo : Seq(ProcessId),
     ids : SUBSET ProcessId,
     held : [ProcessId -> Process \cup {NoProcess}]]

NoneHeld == [i \in ProcessId |-> NoProcess]

Idle == [pc |-> "idle", op |-> "none", id |-> 0, cur |-> 0, nested |-> FALSE,
         config |-> NoProcess, pid |-> 0, cascade |-> FALSE,
         todo |-> <<>>, ids |-> {}, held |-> NoneHeld]

ManagerTypeOK ==
    /\ calls \in [Threads -> Call]
    /\ stop_flag \in BOOLEAN
    /\ dropping \in BOOLEAN

ManagerInit ==
    /\ calls = [t \in Threads |-> Idle]
    /\ stop_flag = FALSE
    /\ dropping = FALSE

-----------------------------------------------------------------------------
At(t, pc) == calls[t].pc = pc

Becomes(t, call) == calls' = [calls EXCEPT ![t] = call]

Return(t) == Becomes(t, Idle)

May(t, op) == At(t, "idle") /\ op \in Ops /\ ~dropping

Put(i, p) == processes' = [processes EXCEPT ![i] = p]

Emit(i, q, s) ==
    events' = IF chan_open
              THEN [events EXCEPT ![i] = Append(@, [pid |-> q, state |-> s,
                                                    exited |-> FALSE])]
              ELSE events

-----------------------------------------------------------------------------
(* start() and start_with_deps()                                           *)

\* The id is taken before the cycle check, and is lost when that fails.
StartCall(t) ==
    /\ \E op \in {"start", "start_with_deps"} : May(t, op) /\
       \E c \in Configs, cycle \in BOOLEAN :
          /\ next_id <= MaxId
          /\ IF c.depends_on = <<>> THEN cycle = FALSE
             ELSE /\ AllFree
                  /\ \E g \in DependencySnapshots(c) : cycle = detect_cycle(g, c)
          /\ IF cycle THEN UNCHANGED calls
             ELSE Becomes(t, [Idle EXCEPT !.pc = "start_insert", !.op = op,
                                          !.id = next_id, !.config = c])
    /\ next_id' = next_id + 1
    /\ UNCHANGED <<processes, next_spawn_sequence, locks, osVars, eventVars,
                   stop_flag, dropping, rpc>>

\* The map after all_deps_running() has polled the dependencies it visits.
PollAll(ids) ==
    [i \in ProcessId |-> IF i \in ids /\ processes[i] # NoProcess
                         THEN Polled(processes[i]) ELSE processes[i]]

PollAllReaps(ids) == UNION {PollReaps(processes[i]) : i \in ids \cap Present}

StartSpawn(t) ==
    LET c == calls[t].config  id == calls[t].id IN
    /\ At(t, "start_insert")
    /\ Free(id)
    /\ \E deps \in resolve_dependencies(c.depends_on) :
        /\ Len(deps) = Len(c.depends_on) /\ all_deps_running(deps)
        /\ deps # <<>> => AllFree
        /\ reaped' = reaped \cup PollAllReaps(Visited(deps))
        /\ \/ \E q \in Pid :
                /\ SpawnOk(q)
                /\ processes' = [PollAll(Visited(deps)) EXCEPT
                                   ![id] = NewProcess(c, q, next_spawn_sequence, deps)]
                /\ next_spawn_sequence' = next_spawn_sequence + 1
           \/ /\ SpawnFails
              /\ processes' = PollAll(Visited(deps))
              /\ UNCHANGED next_spawn_sequence
    /\ Return(t)
    /\ UNCHANGED <<next_id, locks, doomed, eventVars, stop_flag, dropping, rpc>>

StartWaiting(t) ==
    LET c == calls[t].config  id == calls[t].id IN
    /\ At(t, "start_insert")
    /\ AllFree
    /\ \E deps \in resolve_dependencies(c.depends_on) :
        /\ ~(Len(deps) = Len(c.depends_on) /\ all_deps_running(deps))
        /\ LET seen == IF Len(deps) = Len(c.depends_on) THEN Visited(deps) ELSE {}
           IN /\ reaped' = reaped \cup PollAllReaps(seen)
              /\ processes' = [PollAll(seen) EXCEPT
                                 ![id] = NewProcess(c, 0, next_spawn_sequence, deps)]
    /\ next_spawn_sequence' = next_spawn_sequence + 1
    /\ IF calls[t].op = "start" THEN Return(t)
       ELSE Becomes(t, [calls[t] EXCEPT !.pc = "await_deps"])
    /\ UNCHANGED <<next_id, locks, os, doomed, eventVars, stop_flag, dropping, rpc>>

AwaitReturn(t) ==
    LET id == calls[t].id IN
    /\ At(t, "await_deps")
    /\ Free(id)
    /\ id \notin InState({"Waiting"})
    /\ Return(t)
    /\ UNCHANGED <<tableVars, stop_flag, dropping, rpc>>

\* The deadline is tested first, and whatever state the process has reached
\* since the last look is overwritten.
AwaitTimeout(t) ==
    LET id == calls[t].id IN
    /\ At(t, "await_deps")
    /\ Free(id)
    /\ IF processes[id] = NoProcess THEN UNCHANGED processes
       ELSE Put(id, [processes[id] EXCEPT !.state = "Failed"])
    /\ Return(t)
    /\ UNCHANGED <<next_id, next_spawn_sequence, locks, osVars, eventVars,
                   stop_flag, dropping, rpc>>

-----------------------------------------------------------------------------
(* stop()                                                                  *)

StopCall(t) ==
    /\ May(t, "stop")
    /\ \E i \in Present :
          Becomes(t, [Idle EXCEPT !.pc = "stop_check", !.op = "stop", !.id = i,
                                  !.cur = i])
    /\ UNCHANGED <<tableVars, stop_flag, dropping, rpc>>

\* One stop() of the call has returned Ok: the next dependent, or the rest
\* of restart(), or back to the client.
Stopped(t, todo) ==
    IF todo # <<>>
    THEN Becomes(t, [calls[t] EXCEPT !.pc = "stop_check", !.cur = Head(todo),
                                     !.todo = Tail(todo), !.nested = TRUE,
                                     !.held = NoneHeld])
    ELSE IF calls[t].op = "restart"
    THEN Becomes(t, [calls[t] EXCEPT !.pc = "restart_insert", !.nested = FALSE,
                                     !.held = NoneHeld])
    ELSE Return(t)

\* It has returned an error: logged for a dependent, returned otherwise.
StopFailed(t) == IF calls[t].nested THEN Stopped(t, calls[t].todo) ELSE Return(t)

\* The guard of the entry is dropped before it is removed.
StopCheck(t) ==
    LET i == calls[t].cur  p == processes[i] IN
    /\ At(t, "stop_check")
    /\ Free(i)
    /\ IF p = NoProcess THEN StopFailed(t)
       ELSE Becomes(t, [calls[t] EXCEPT
                !.pc = IF p.state = "Restarting" THEN "stop_cancel"
                       ELSE IF p.state = "Waiting" THEN "stop_unqueue"
                       ELSE "stop_remove",
                !.pid = p.pid,
                !.cascade = p.config.cascade_stop])
    /\ UNCHANGED <<tableVars, stop_flag, dropping, rpc>>

\* Restarting: removed, without a signal and without an event.
StopCancel(t) ==
    LET i == calls[t].cur IN
    /\ At(t, "stop_cancel")
    /\ Free(i)
    /\ Put(i, NoProcess)
    /\ Stopped(t, calls[t].todo)
    /\ UNCHANGED <<next_id, next_spawn_sequence, locks, osVars, eventVars,
                   stop_flag, dropping, rpc>>

\* The dependents a finished stop() goes on to stop, before those already due.
Cascade(t, cascade, dependents) ==
    IF cascade THEN {s \o calls[t].todo : s \in Listings(dependents)}
    ELSE {calls[t].todo}

\* Waiting: removed without a signal, with a Stopped event.
StopUnqueue(t) ==
    LET i == calls[t].cur IN
    /\ At(t, "stop_unqueue")
    /\ Free(i)
    /\ calls[t].cascade => AllFree
    /\ Put(i, NoProcess)
    /\ IF HasReaper THEN Emit(i, calls[t].pid, "Stopped") ELSE UNCHANGED events
    /\ \E todo \in Cascade(t, calls[t].cascade, Dependents(i) \ {i}) : Stopped(t, todo)
    /\ UNCHANGED <<next_id, next_spawn_sequence, locks, osVars, chan_open,
                   stop_flag, dropping, rpc>>

\* Mutant: the entry is signalled where it is, and stays in the map.
StopInPlace(t) ==
    LET i == calls[t].cur  p == processes[i] IN
    /\ At(t, "stop_remove")
    /\ Free(i)
    /\ IF p = NoProcess THEN StopFailed(t) /\ UNCHANGED doomed
       ELSE /\ doomed' = doomed \cup send_signal(p)
            /\ Becomes(t, [calls[t] EXCEPT !.pc = "stop_grace", !.held[i] = p])
    /\ UNCHANGED <<mapVars, locks, os, reaped, eventVars, stop_flag, dropping, rpc>>

\* Any other state: removed, marked Stopping and signalled.  A process that
\* is already gone (ESRCH) or may not be signalled (EPERM) ends the call.
StopRemove(t) ==
    LET i == calls[t].cur  p == processes[i] IN
    /\ At(t, "stop_remove")
    /\ Free(i)
    /\ Put(i, NoProcess)
    /\ IF p = NoProcess THEN StopFailed(t) /\ UNCHANGED doomed
       ELSE /\ doomed' = doomed \cup send_signal(p)
            /\ CASE KillResult(p) = "Ok" ->
                        Becomes(t, [calls[t] EXCEPT
                            !.pc = "stop_grace",
                            !.held[i] = [p EXCEPT !.state = "Stopping"]])
                 [] KillResult(p) = "ESRCH" -> Stopped(t, calls[t].todo)
                 [] KillResult(p) = "EPERM" -> StopFailed(t)
    /\ UNCHANGED <<next_id, next_spawn_sequence, locks, os, reaped, eventVars,
                   stop_flag, dropping, rpc>>

\* Mutant: no SIGKILL when the grace period is over.
StopWithoutEscalation(t) ==
    /\ At(t, "stop_grace")
    /\ Stopped(t, calls[t].todo)
    /\ UNCHANGED <<mapVars, locks, osVars, eventVars, stop_flag, dropping, rpc>>

\* The grace period ends, early if is_running() has said no.
StopEscalate(t) ==
    LET p == calls[t].held[calls[t].cur] IN
    /\ At(t, "stop_grace")
    /\ IF is_alive(Polled(p).state) /\ KillResult(p) = "Ok"
       THEN /\ doomed' = doomed \cup force_kill(p)
            /\ Becomes(t, [calls[t] EXCEPT !.pc = "stop_reap"])
       ELSE Stopped(t, calls[t].todo) /\ UNCHANGED doomed
    /\ UNCHANGED <<mapVars, locks, os, reaped, eventVars, stop_flag, dropping, rpc>>

\* The wait after SIGKILL is bounded: the child may still be there.
StopReap(t) ==
    LET i == calls[t].cur  p == calls[t].held[i] IN
    /\ At(t, "stop_reap")
    /\ p.config.cascade_stop => AllFree
    /\ reaped' = reaped \cup Collected(p)
    /\ \E todo \in Cascade(t, p.config.cascade_stop, Dependents(i)) : Stopped(t, todo)
    /\ UNCHANGED <<mapVars, locks, os, doomed, eventVars, stop_flag, dropping, rpc>>

-----------------------------------------------------------------------------
(* stop_many(), called by stop_label(), stop_all() and Drop                *)

StopManyCall(t) ==
    /\ May(t, "stop_many")
    /\ AllFree
    /\ \E ids \in {Labelled(l) : l \in Labels} \cup {Present} :
          /\ ids # {}
          /\ Becomes(t, [Idle EXCEPT !.pc = "many_remove", !.op = "stop_many",
                                     !.ids = ids])
    /\ UNCHANGED <<tableVars, stop_flag, dropping, rpc>>

\* A process that has no pid is dropped; the others are kept to be signalled.
StopManyRemove(t) ==
    \E i \in calls[t].ids :
    LET p == processes[i]
        ids == calls[t].ids \ {i}
        held == IF p = NoProcess THEN calls[t].held
                ELSE IF p.pid = 0 THEN calls[t].held
                ELSE [calls[t].held EXCEPT ![i] = p]
    IN
    /\ At(t, "many_remove")
    /\ Free(i)
    /\ Put(i, NoProcess)
    /\ IF ids = {} /\ held = NoneHeld THEN Return(t)
       ELSE Becomes(t, [calls[t] EXCEPT
                !.pc = IF ids = {} THEN "many_signal" ELSE "many_remove",
                !.ids = ids, !.held = held])
    /\ UNCHANGED <<next_id, next_spawn_sequence, locks, osVars, eventVars,
                   stop_flag, dropping, rpc>>

Held(t) == {i \in ProcessId : calls[t].held[i] # NoProcess}

StopManySignal(t) ==
    LET h == calls[t].held IN
    /\ At(t, "many_signal")
    /\ doomed' = doomed \cup UNION {send_signal(h[i]) : i \in Held(t)}
    /\ Becomes(t, [calls[t] EXCEPT
            !.pc = "many_grace",
            !.held = [i \in ProcessId |->
                        IF i \in Held(t) THEN [h[i] EXCEPT !.state = "Stopping"]
                        ELSE NoProcess]])
    /\ UNCHANGED <<mapVars, locks, os, reaped, eventVars, stop_flag, dropping, rpc>>

\* Every grace period has ended: SIGKILL for those is_running() says are left.
StopManyEscalate(t) ==
    LET h == calls[t].held
        left == {i \in Held(t) : is_alive(Polled(h[i]).state)}
    IN
    /\ At(t, "many_grace")
    /\ doomed' = doomed \cup UNION {force_kill(h[i]) : i \in left}
    /\ Becomes(t, [calls[t] EXCEPT
            !.pc = "many_reap",
            !.held = [i \in ProcessId |-> IF i \in left THEN h[i] ELSE NoProcess]])
    /\ UNCHANGED <<mapVars, locks, os, reaped, eventVars, stop_flag, dropping, rpc>>

\* Mutant: nothing goes back.
NoneReinserted(t) == {}

\* The processes SIGKILL was refused for go back into the map as Failed.
Reinserted(t) == {i \in Held(t) : KillResult(calls[t].held[i]) = "EPERM"}

StopManyReap(t) ==
    LET h == calls[t].held IN
    /\ At(t, "many_reap")
    /\ \A i \in Reinserted(t) : Free(i)
    /\ reaped' = reaped \cup UNION {Collected(h[i]) : i \in Held(t) \ Reinserted(t)}
    /\ processes' = [i \in ProcessId |->
                        IF i \in Reinserted(t) THEN [h[i] EXCEPT !.state = "Failed"]
                        ELSE processes[i]]
    /\ Return(t)
    /\ UNCHANGED <<next_id, next_spawn_sequence, locks, os, doomed, eventVars,
                   stop_flag, dropping, rpc>>

-----------------------------------------------------------------------------
(* restart() and restart_label()                                           *)

RestartCall(t) ==
    /\ May(t, "restart")
    /\ \E ids \in {{i} : i \in Present} \cup {Labelled(l) : l \in Labels} :
          /\ ids # {}
          /\ Cardinality(ids) > 1 => AllFree
          /\ Becomes(t, [Idle EXCEPT !.pc = "restart_check", !.op = "restart",
                                     !.ids = ids])
    /\ UNCHANGED <<tableVars, stop_flag, dropping, rpc>>

\* The state is read, the guard dropped, and never looked at again.
RestartCheck(t) ==
    \E i \in calls[t].ids : LET p == processes[i] IN
    /\ At(t, "restart_check")
    /\ Free(i)
    /\ IF p = NoProcess THEN Return(t)
       ELSE Becomes(t, [calls[t] EXCEPT
                !.pc = IF p.state = "Restarting" THEN "restart_reset" ELSE "stop_check",
                !.id = i, !.cur = i, !.config = p.config, !.ids = @ \ {i}])
    /\ UNCHANGED <<tableVars, stop_flag, dropping, rpc>>

\* restart_state.reset(), with the child handle released
Reset(p) ==
    [p EXCEPT !.child = 0, !.restart_count = 0, !.backoff = "none", !.stable = FALSE]

\* wait() on the handle blocks under the guard while the child is alive.
RestartBlocks(t) ==
    LET i == calls[t].id IN
    /\ At(t, "restart_reset")
    /\ Free(i)
    /\ processes[i] # NoProcess
    /\ Alive(processes[i].child)
    /\ locks' = locks \cup {Shard[i]}
    /\ Becomes(t, [calls[t] EXCEPT !.pc = "restart_wait"])
    /\ UNCHANGED <<mapVars, osVars, eventVars, stop_flag, dropping, rpc>>

RestartReset(t) ==
    LET i == calls[t].id  p == processes[i] IN
    /\ \/ At(t, "restart_reset") /\ Free(i)
       \/ At(t, "restart_wait")
    /\ IF p = NoProcess THEN Return(t) /\ UNCHANGED <<processes, reaped>>
       ELSE /\ ~Alive(p.child)
            /\ Put(i, Reset(p))
            /\ reaped' = reaped \cup Collected(p)
            /\ Becomes(t, [calls[t] EXCEPT !.pc = "restart_in_place"])
    /\ locks' = IF At(t, "restart_wait") THEN locks \ {Shard[i]} ELSE locks
    /\ UNCHANGED <<next_id, next_spawn_sequence, os, doomed, eventVars,
                   stop_flag, dropping, rpc>>

\* restart_label() goes on with the next id.
Restarted(t) ==
    IF calls[t].ids = {} THEN Return(t)
    ELSE Becomes(t, [Idle EXCEPT !.pc = "restart_check", !.op = "restart",
                                 !.ids = calls[t].ids])

\* The new child replaces whatever handle the entry holds by now; if the
\* entry is gone the child is dropped and the call fails.
RestartInPlace(t) ==
    LET i == calls[t].id  p == processes[i] IN
    /\ At(t, "restart_in_place")
    /\ Free(i)
    /\ \/ \E q \in Pid :
            /\ SpawnOk(q)
            /\ IF p = NoProcess THEN Return(t) /\ UNCHANGED processes
               ELSE /\ Put(i, [p EXCEPT !.pid = q, !.child = q, !.state = "Starting",
                                        !.stable = FALSE])
                    /\ Restarted(t)
            /\ next_spawn_sequence' = next_spawn_sequence + 1
       \/ SpawnFails /\ Return(t) /\ UNCHANGED <<processes, next_spawn_sequence>>
    /\ UNCHANGED <<next_id, locks, reaped, doomed, eventVars, stop_flag, dropping, rpc>>

\* Mutant: the spawn_sequence is read but not taken.
RestartReusesSequence(t) ==
    LET i == calls[t].id IN
    /\ At(t, "restart_insert")
    /\ Free(i)
    /\ \/ \E q \in Pid :
            /\ SpawnOk(q)
            /\ Put(i, NewProcess(calls[t].config, q, next_spawn_sequence, <<>>))
            /\ Restarted(t)
       \/ SpawnFails /\ Return(t) /\ UNCHANGED processes
    /\ UNCHANGED <<next_id, next_spawn_sequence, locks, reaped, doomed, eventVars,
                   stop_flag, dropping, rpc>>

\* After stop(): a new record under the same id.
RestartInsert(t) ==
    LET i == calls[t].id IN
    /\ At(t, "restart_insert")
    /\ Free(i)
    /\ \/ \E q \in Pid :
            /\ SpawnOk(q)
            /\ Put(i, NewProcess(calls[t].config, q, next_spawn_sequence, <<>>))
            /\ next_spawn_sequence' = next_spawn_sequence + 1
            /\ Restarted(t)
       \/ SpawnFails /\ Return(t) /\ UNCHANGED <<processes, next_spawn_sequence>>
    /\ UNCHANGED <<next_id, locks, reaped, doomed, eventVars, stop_flag, dropping, rpc>>

-----------------------------------------------------------------------------
(* Queries, signals, and the end of the manager                            *)

\* state(), is_running() and get_info() poll the child of one process.
Poll(t) ==
    /\ May(t, "state")
    /\ \E i \in Present :
          /\ Free(i)
          /\ Polls(processes[i])
          /\ Put(i, Polled(processes[i]))
          /\ reaped' = reaped \cup PollReaps(processes[i])
    /\ UNCHANGED <<next_id, next_spawn_sequence, locks, os, doomed, eventVars,
                   managerVars, rpc>>

\* send_signal() and send_signal_label() with a signal of the client's
\* choice, here a fatal one.  kill(0, ..) reaches the whole process group.
SendSignal(t, i) ==
    /\ May(t, "send_signal")
    /\ i \in Present
    /\ Free(i)
    /\ processes[i].state # "Restarting"
    /\ doomed' = doomed \cup IF processes[i].pid = 0
                             THEN {q \in Pid : os[q] = "alive"}
                             ELSE send_signal(processes[i])
    /\ UNCHANGED <<mapVars, locks, os, reaped, eventVars, managerVars, rpc>>

\* Drop needs the manager for itself: no call is in progress.
DropManager(t) ==
    /\ May(t, "drop")
    /\ \A u \in Threads : At(u, "idle")
    /\ stop_flag' = TRUE
    /\ dropping' = TRUE
    /\ Becomes(t, [Idle EXCEPT !.pc = "drop_join", !.op = "drop"])
    /\ UNCHANGED <<tableVars, rpc>>

\* The reaper has been joined: stop_terminate_on_exit().
DropStop(t) ==
    LET ids == {i \in Present : processes[i].config.terminate_on_exit} IN
    /\ At(t, "drop_join")
    /\ rpc = "done"
    /\ AllFree
    /\ IF ids = {} THEN Return(t)
       ELSE Becomes(t, [calls[t] EXCEPT !.pc = "many_remove", !.ids = ids])
    /\ UNCHANGED <<tableVars, stop_flag, dropping, rpc>>

\* The receiver of the exit events is dropped.
CloseChannel ==
    /\ "close" \in Ops
    /\ chan_open
    /\ chan_open' = FALSE
    /\ UNCHANGED <<mapVars, locks, osVars, events, managerVars, rpc>>

-----------------------------------------------------------------------------
\* The calls a client may make, and the steps that carry them out.
CallNext(t) ==
    \/ StartCall(t) \/ StopCall(t) \/ StopManyCall(t) \/ RestartCall(t)
    \/ Poll(t) \/ DropManager(t)
    \/ \E i \in ProcessId : SendSignal(t, i)

StepNext(t) ==
    \/ StartSpawn(t) \/ StartWaiting(t) \/ AwaitReturn(t) \/ AwaitTimeout(t)
    \/ StopCheck(t) \/ StopCancel(t) \/ StopUnqueue(t) \/ StopRemove(t)
    \/ StopEscalate(t) \/ StopReap(t)
    \/ StopManyRemove(t) \/ StopManySignal(t) \/ StopManyEscalate(t)
    \/ StopManyReap(t)
    \/ RestartCheck(t) \/ RestartBlocks(t) \/ RestartReset(t)
    \/ RestartInPlace(t) \/ RestartInsert(t)
    \/ DropStop(t)
=============================================================================
