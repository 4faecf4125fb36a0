--------------------------- MODULE MCSupervision ----------------------------
(***************************************************************************)
(* Instances of Supervision for TLC.                                       *)
(***************************************************************************)
EXTENDS LifecycleRefinement, TLC

CONSTANTS t1, t2

OneThread == {t1}
TwoThreads == {t1, t2}
Symmetric == Permutations(Threads)

\* Two shards: ids 1 and 3 share one.
TwoShards == [i \in ProcessId |-> i % 2]
OwnShards == [i \in ProcessId |-> i]

\* A process that is run once, and variants of it.
Plain == [label |-> "a", depends_on |-> <<>>, restart_on_exit |-> FALSE,
          restart_trigger |-> "CrashOnly", backoff |-> FALSE, max_restarts |-> 0,
          supervisor_strategy |-> "OneForOne", cascade_stop |-> FALSE,
          terminate_on_exit |-> TRUE, on_kill |-> "dies"]

Backoff == [Plain EXCEPT !.restart_on_exit = TRUE, !.backoff = TRUE,
                         !.max_restarts = 1]
Immediate == [Plain EXCEPT !.restart_on_exit = TRUE, !.restart_trigger = "Always"]

OnLabel(c, l) == [c EXCEPT !.depends_on = Append(@, [kind |-> "Label", target |-> l])]
OnId(c, i) == [c EXCEPT !.depends_on = Append(@, [kind |-> "Id", target |-> i])]

\* One process that is restarted with a limit, one that refuses every signal.
RestartConfigs == {Backoff, [Plain EXCEPT !.on_kill = "denied"]}

\* Two groups: in one the members take each other down, in the other the
\* younger ones go with the one that crashed.
OneForAll == [Immediate EXCEPT !.restart_trigger = "CrashOnly",
                               !.supervisor_strategy = "OneForAll"]
RestForOne == [OneForAll EXCEPT !.supervisor_strategy = "RestForOne", !.label = "b"]
GroupConfigs == {OneForAll, RestForOne}

\* Two services, and a process that is restarted and needs two others: one by
\* its label, the other by its id.
Service == [Plain EXCEPT !.label = "b", !.cascade_stop = TRUE]
DependencyConfigs == {Plain, Service,
                      OnId(OnLabel([Immediate EXCEPT !.label = "c"], "b"), 1)}

\* What Drop must stop: a child that ignores the kill signal and is being
\* restarted, one that waits for another; and one that is to survive.
LifecycleConfigs == {[Immediate EXCEPT !.on_kill = "ignores"],
                     [Plain EXCEPT !.label = "b", !.terminate_on_exit = FALSE],
                     OnLabel(Plain, "b")}

\* Each of two groups needs the other one: start() must refuse one of them.
Circle == {OnLabel(Plain, "b"), OnLabel([Plain EXCEPT !.label = "b"], "a")}
CircularConfigs == LifecycleConfigs \cup Circle

\* Two clients at work without a reaper: nothing is restarted behind their
\* back and nothing waits, and one child has to be killed.
ConcurrentConfigs == {Plain, [Service EXCEPT !.on_kill = "ignores"]}

\* One client against the reaper, with restart() among its operations.
ClientConfigs == {Backoff, OnLabel([Immediate EXCEPT !.label = "b",
                                                     !.on_kill = "denied"], "a")}

\* For the runs that show where the code departs from its documentation.
DependentConfigs == {[Immediate EXCEPT !.label = "b"], OnLabel(Immediate, "b")}
BackoffConfigs == {Backoff}
OneForAllConfigs == {OneForAll}
UnresolvedConfigs == {Plain, OnLabel(Plain, "b")}

-----------------------------------------------------------------------------
(* detect_cycle() against what it is to compute, for every graph in which  *)
(* a label has at most two dependencies; the new process may have any one  *)
(* label, since all of them are alike.                                     *)

LabelDeps(depends_on) ==
    {depends_on[k].target : k \in {j \in DOMAIN depends_on :
                                     depends_on[j].kind = "Label"}}

\* b is reached from a by one edge or more: every set that holds a's
\* successors and is closed under the edges holds b.
Reaches(g, a, b) ==
    \A S \in SUBSET Labels :
        LabelDeps(g[a]) \cup UNION {LabelDeps(g[l]) : l \in S} \subseteq S
            => b \in S

SmallDependencies ==
    UNION {[1 .. n -> [kind : {"Label"}, target : Labels]] : n \in 0 .. 2}
        \cup {<<[kind |-> "Id", target |-> 1]>>}

\* A new process is refused just when a label it can reach, or its own, lies
\* on a circle of labels.
ASSUME CycleDetectionAssumption ==
    LET l == CHOOSE l \in Labels : TRUE IN
    \A g \in [Labels -> SmallDependencies] :
        detect_cycle(g, [label |-> l, depends_on |-> g[l]])
          <=> \E m \in Labels : (m = l \/ Reaches(g, l, m)) /\ Reaches(g, m, m)
=============================================================================
