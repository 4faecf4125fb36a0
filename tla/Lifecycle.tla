------------------------------ MODULE Lifecycle ------------------------------
(***************************************************************************)
(* What the process manager promises of every process it manages, taken    *)
(* alone, as long as restart() is not called: an id is used once, the      *)
(* children of a process run one after another, and a child is replaced    *)
(* only after its exit has been reported.                                  *)
(*                                                                         *)
(* A step of the system may move several processes, each by a step of its  *)
(* own: Next is a conjunction over the processes.                          *)
(***************************************************************************)
EXTENDS Naturals, Sequences

CONSTANTS
    Ids,      \* the processes
    Children  \* the operating-system children, a set that 0 is not in

VARIABLES
    life,     \* where each process is
    child,    \* the last child each process has had, or 0
    reports,  \* the events reported of each process
    born,     \* the children that have been spawned
    dead      \* the children that have exited

lifeVars == <<life, child, reports, born, dead>>

\* "down" is a process without a child: it waits for its dependencies or for
\* its restart.  "leaving" is one that a call has taken to stop it.
Life == {"unused", "down", "up", "leaving", "gone"}

LifeInit ==
    /\ life = [i \in Ids |-> "unused"]
    /\ child = [i \in Ids |-> 0]
    /\ reports = [i \in Ids |-> <<>>]
    /\ born = {}
    /\ dead = {}

-----------------------------------------------------------------------------
Moves(i, from, to) == life[i] \in from /\ life'[i] = to

SameChild(i) == child'[i] = child[i]
ChildForgotten(i) == child'[i] \in {child[i], 0}
SameReports(i) == reports'[i] = reports[i]

\* One more report, of the last child.  A Failed report is the last one.
Reports(i, states, exited) ==
    /\ \A k \in DOMAIN reports[i] : reports[i][k].state # "Failed"
    /\ \E s \in states :
          reports'[i] = Append(reports[i], [pid |-> child[i], state |-> s,
                                            exited |-> exited])

ExitReported(i) ==
    \E k \in DOMAIN reports[i] : reports[i][k].exited /\ reports[i][k].pid = child[i]

\* Nothing is left of the last child but its report.
Settled(i) == child[i] = 0 \/ (child[i] \in dead /\ ExitReported(i))

\* A child of its own, which no other process gets in the same step.
FreshChild(i) ==
    /\ child'[i] \in (Children \cap born') \ born
    /\ \A j \in Ids \ {i} : child'[j] # child'[i]

-----------------------------------------------------------------------------
Accept(i) ==
    Moves(i, {"unused"}, "down") /\ child'[i] = 0 /\ SameReports(i)

Reject(i) ==
    Moves(i, {"unused"}, "gone") /\ SameChild(i) /\ SameReports(i)

Start(i) ==
    /\ Moves(i, {"unused", "down"}, "up")
    /\ Settled(i)
    /\ FreshChild(i)
    /\ SameReports(i)

\* The exit of a child is reported once, even of a process that a call has
\* taken or that is gone by then.
ReportExit(i) ==
    /\ life[i] \in {"up", "leaving", "gone"}
    /\ child[i] \in dead
    /\ ~ExitReported(i)
    /\ life'[i] = life[i]
    /\ IF life[i] = "gone" THEN ChildForgotten(i) ELSE SameChild(i)
    /\ Reports(i, {"Stopped", "Crashed", "Failed"}, TRUE)

Rest(i) ==
    /\ Moves(i, {"up"}, "down")
    /\ child[i] # 0
    /\ Settled(i)
    /\ SameChild(i)
    /\ SameReports(i)

\* Given up, with a Failed report if anybody listens.
GiveUp(i) ==
    /\ Moves(i, {"down", "up"}, "gone")
    /\ ChildForgotten(i)
    /\ SameReports(i) \/ Reports(i, {"Failed"}, FALSE)

\* Taken by a call to be stopped, or removed by it at once.
Leave(i) ==
    /\ Moves(i, {"down", "up"}, "leaving") \/ Moves(i, {"down", "up"}, "gone")
    /\ IF life'[i] = "gone" THEN ChildForgotten(i) ELSE SameChild(i)
    /\ SameReports(i)

\* stop() of a process it has seen waiting: it says Stopped, whatever has
\* become of the process since, even after somebody else has said Failed, and
\* of one that another call has taken.
Farewell(i) ==
    /\ \/ Moves(i, {"down", "up", "gone"}, "gone") /\ ChildForgotten(i)
       \/ Moves(i, {"leaving"}, "leaving") /\ SameChild(i)
    /\ \E q \in Children \cup {0} :
          reports'[i] = Append(reports[i], [pid |-> q, state |-> "Stopped",
                                            exited |-> FALSE])

\* A call that may not kill the process puts it back.
PutBack(i) ==
    Moves(i, {"leaving"}, "up") /\ SameChild(i) /\ SameReports(i)

Forget(i) ==
    /\ Moves(i, {"leaving", "gone"}, "gone")
    /\ ChildForgotten(i)
    /\ SameReports(i)

Stays(i) == life'[i] = life[i] /\ SameChild(i) /\ SameReports(i)

LifeNext ==
    /\ born \subseteq born'
    /\ dead \subseteq dead'
    /\ \A i \in Ids :
        \/ Stays(i)
        \/ Accept(i) \/ Reject(i) \/ Start(i) \/ ReportExit(i) \/ Rest(i)
        \/ GiveUp(i) \/ Leave(i) \/ Farewell(i) \/ PutBack(i) \/ Forget(i)

LifeSpec == LifeInit /\ [][LifeNext]_lifeVars
=============================================================================
