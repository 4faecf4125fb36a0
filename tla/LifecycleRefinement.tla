------------------------- MODULE LifecycleRefinement -------------------------
(***************************************************************************)
(* The system implements Lifecycle: each managed process behaves as        *)
(* Lifecycle says, however the client threads and the reaper interleave.   *)
(***************************************************************************)
EXTENDS Supervision

\* The records there are of a process: in the map, or in the hands of a call.
Records(i) ==
    (IF i \in Present THEN {processes[i]} ELSE {})
        \cup {calls[t].held[i] : t \in {u \in Threads : i \in Held(u)}}

\* An id is used from the moment the process is inserted, or is not going to.
Unused(i) ==
    \/ i >= next_id
    \/ \E t \in Threads : At(t, "start_insert") /\ calls[t].id = i

LifeOf(i) ==
    IF i \in Present THEN IF processes[i].child = 0 THEN "down" ELSE "up"
    ELSE IF \E t \in Threads : i \in Held(t) THEN "leaving"
    ELSE IF Unused(i) THEN "unused" ELSE "gone"

\* The pid of a record outlives the handle; once the record is gone, the
\* reaper may still have an exit to report.
ChildOf(i) ==
    IF Records(i) # {} THEN (CHOOSE p \in Records(i) : TRUE).pid
    ELSE IF exited[i] # NoProcess THEN exited[i].pid ELSE 0

L == INSTANCE Lifecycle WITH
        Ids <- ProcessId,
        Children <- Pid,
        life <- [i \in ProcessId |-> LifeOf(i)],
        child <- [i \in ProcessId |-> ChildOf(i)],
        reports <- events,
        born <- {q \in Pid : os[q] # "unborn"},
        dead <- {q \in Pid : Exited(q)}

\* Without restart(), every step of the system moves each process as its
\* lifecycle allows: an id is never used again, a process that is gone does
\* not come back, and no child is spawned for it before the exit of the one
\* before has been collected and reported.
ImplementsLifecycle == L!LifeSpec
=============================================================================
