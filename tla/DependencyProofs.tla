--------------------------- MODULE DependencyProofs ---------------------------
(***************************************************************************)
(* What may be relied on about dependencies, for any number of them and    *)
(* of clients and processes.                                               *)
(*                                                                         *)
(* A process that has been spawned has each of its dependencies bound.     *)
(* DependenciesBound is about two lists of the same length, one of which   *)
(* the reaper appends to from cycle to cycle, to whatever dependencies it  *)
(* finds without a binding at that moment.  Matching(p, f) says which      *)
(* dependency each binding stands for; Apart, that no two bindings to      *)
(* processes that are still there stand for the same one.  If all of them  *)
(* are there and there are as many as dependencies, none is left over.     *)
(*                                                                         *)
(* start() refuses a process just when the labels lead from it to a        *)
(* circle, in every graph.  The search is a recursion over the labels, so  *)
(* what it visits is followed by induction; where it finds nothing, the    *)
(* labels it has visited lead nowhere else and have no circle among them.  *)
(*                                                                         *)
(* So no processes wait for one another.  The invariant is about every     *)
(* configuration in use, in the map, in the hands of a call or on its way  *)
(* into the map: the graph that start() looks at may lack those that are   *)
(* not in the map, and must not.                                           *)
(***************************************************************************)
EXTENDS LifecycleProofs

USE DEF mapVars, osVars, eventVars, tableVars, managerVars, scratch

\* The dependency each binding stands for.
Matchings(p) == [DOMAIN p.resolved_deps -> DOMAIN p.config.depends_on]

Carries(i, l) == Used(i) /\ (i \in Present => processes[i].config.label = l)

StandsFor(i, d) == IF d.kind = "Id" THEN i = d.target ELSE Carries(i, d.target)

Matching(p, f) ==
    /\ f \in Matchings(p)
    /\ \A j \in DOMAIN f : StandsFor(p.resolved_deps[j], p.config.depends_on[f[j]])

\* A binding by label counts as long as the process is there.
Lasts(p, f, j) ==
    p.config.depends_on[f[j]].kind = "Id" \/ p.resolved_deps[j] \in Present

Apart(p, f) ==
    \A j, k \in DOMAIN f : f[j] = f[k] /\ Lasts(p, f, j) /\ Lasts(p, f, k) => j = k

\* The bindings of a process, and those of one that may be spawned.
Partial(p) == \E f \in Matchings(p) : Matching(p, f) /\ Apart(p, f)

Whole(p) ==
    /\ Len(p.resolved_deps) = Len(p.config.depends_on)
    /\ \E f \in Matchings(p) :
          /\ Matching(p, f)
          /\ \A j, k \in DOMAIN f : f[j] = f[k] => j = k

Spawned(p) == p.child # 0 \/ p.state = "Restarting"

\* The reaper is about to schedule, restart or spawn it.
Listed(i) ==
    \/ Found(i)
    \/ rpc \in Scheduling \cup {"restart"} /\ i \in todo
    \/ i \in to_spawn

DepInv ==
    /\ \A i \in Present : Partial(processes[i])
    /\ \A i \in Present : Spawned(processes[i]) => Whole(processes[i])
    /\ \A i \in ProcessId : Listed(i) =>
          Used(i) /\ (i \in Present => Whole(processes[i]))

-----------------------------------------------------------------------------
(* What a record binds.                                                    *)

LEMMA RecordLists ==
    ASSUME NEW p \in Process
    PROVE  /\ p.config \in Configs
           /\ p.resolved_deps \in Seq(ProcessId)
           /\ p.config.depends_on \in Seq(DependencyRef)
           /\ DOMAIN p.resolved_deps = 1 .. Len(p.resolved_deps)
           /\ DOMAIN p.config.depends_on = 1 .. Len(p.config.depends_on)
           /\ Len(p.resolved_deps) \in Nat /\ Len(p.config.depends_on) \in Nat
<1>1. p.config \in Configs /\ p.resolved_deps \in Seq(ProcessId)
    BY DEF Process
<1>2. p.config.depends_on \in Seq(DependencyRef)
    BY <1>1, ConfigsAssumption DEF ProcessConfig
<1>. QED  BY <1>1, <1>2

LEMMA WholePartial ==
    ASSUME NEW p, Whole(p)
    PROVE  Partial(p)
BY DEF Whole, Partial, Apart

\* As many bindings as dependencies, each to a process that is there: they
\* stand for all of them.
LEMMA PresentWhole ==
    ASSUME NEW p \in Process, Partial(p),
           Len(p.resolved_deps) = Len(p.config.depends_on),
           \A k \in DOMAIN p.resolved_deps : p.resolved_deps[k] \in Present
    PROVE  Whole(p)
<1>1. PICK f \in Matchings(p) : Matching(p, f) /\ Apart(p, f)
    BY DEF Partial
<1>2. \A j \in DOMAIN f : Lasts(p, f, j)
    BY <1>1 DEF Matchings, Lasts
<1>3. \A j, k \in DOMAIN f : f[j] = f[k] => j = k
    BY <1>1, <1>2 DEF Apart
<1>. QED  BY <1>1, <1>3 DEF Whole

LEMMA RunningWhole ==
    ASSUME NEW p \in Process, Partial(p), AllResolved(p), AllRunning(p.resolved_deps)
    PROVE  Whole(p)
<1>1. \A k \in DOMAIN p.resolved_deps : p.resolved_deps[k] \in ProcessId
    BY RecordLists
<1>2. \A k \in DOMAIN p.resolved_deps : p.resolved_deps[k] \in Present
    BY <1>1 DEF AllRunning, Present
<1>. QED  BY <1>2, PresentWhole DEF AllResolved

\* A list that leaves no number out and names none twice is complete.
LEMMA WholeBinds ==
    ASSUME NEW p \in Process, Whole(p),
           \A k \in DOMAIN p.resolved_deps : p.resolved_deps[k] \in Present
    PROVE  Unresolved(p) = {}
<1>1. PICK f \in Matchings(p) :
         Matching(p, f) /\ \A j, k \in DOMAIN f : f[j] = f[k] => j = k
    BY DEF Whole
<1>. DEFINE n == Len(p.config.depends_on)
<1>2. n \in Nat /\ DOMAIN p.resolved_deps = 1 .. n /\ DOMAIN p.config.depends_on = 1 .. n
    BY RecordLists DEF Whole
<1>. HIDE DEF n
<1>3. f \in [1 .. n -> 1 .. n]
    BY <1>2 DEF Matchings
<1>4. f \in Injection(1 .. n, 1 .. n)
    BY <1>1, <1>3 DEF Injection, IsInjective
<1>5. f \in Surjection(1 .. n, 1 .. n)
    BY <1>2, <1>4, FS_Interval, FS_Injection
<1>6. ASSUME NEW k \in 1 .. n
      PROVE  k \notin Unresolved(p)
    <2>1. PICK j \in 1 .. n : f[j] = k
        BY <1>5 DEF Surjection
    <2>2. StandsFor(p.resolved_deps[j], p.config.depends_on[k])
        BY <1>1, <1>3, <2>1 DEF Matching
    <2>3. p.resolved_deps[j] \in Present
        BY <1>2
    <2>. QED  BY <1>2, <2>2, <2>3 DEF StandsFor, Carries, Unresolved, Labelled
<1>. QED  BY <1>2, <1>6 DEF Unresolved

-----------------------------------------------------------------------------
(* New bindings.                                                           *)

LEMMA MatchesCarry ==
    ASSUME IdsUsed, NEW l, NEW S, NEW i \in Matches(l, S)
    PROVE  Carries(i, l)
BY DEF Matches, Labelled, Carries, IdsUsed

\* resolve_dependencies() binds each dependency at its place.
LEMMA ResolvedWhole ==
    ASSUME IdsUsed, NEW p \in Process,
           p.resolved_deps \in resolve_dependencies(p.config.depends_on),
           Len(p.resolved_deps) = Len(p.config.depends_on)
    PROVE  Whole(p)
<1>. DEFINE deps == p.resolved_deps
            depends_on == p.config.depends_on
            f == [j \in DOMAIN deps |-> j]
<1>1. DOMAIN deps = DOMAIN depends_on
    BY RecordLists
<1>2. f \in Matchings(p)
    BY <1>1 DEF Matchings
<1>3. ASSUME NEW j \in DOMAIN deps
      PROVE  StandsFor(deps[j], depends_on[j])
    <2>1. deps # <<>>
        BY <1>3
    <2>2. deps[j] \in IF depends_on[j].kind = "Id" THEN {depends_on[j].target}
                      ELSE Matches(depends_on[j].target, {"Starting", "Running"})
        BY <2>1 DEF resolve_dependencies
    <2>. QED  BY <2>2, MatchesCarry DEF StandsFor
<1>4. Matching(p, f)
    BY <1>2, <1>3 DEF Matching
<1>5. \A j, k \in DOMAIN f : f[j] = f[k] => j = k
    OBVIOUS
<1>. QED  BY <1>2, <1>4, <1>5 DEF Whole

LEMMA ResolvedPartial ==
    ASSUME IdsUsed, NEW p \in Process,
           p.resolved_deps \in resolve_dependencies(p.config.depends_on)
    PROVE  Partial(p)
<1>1. CASE Len(p.resolved_deps) = Len(p.config.depends_on)
    BY <1>1, ResolvedWhole, WholePartial
<1>2. CASE p.resolved_deps = <<>>
    <2>. DEFINE f == [j \in DOMAIN p.resolved_deps |-> j]
    <2>1. DOMAIN p.resolved_deps = {}
        BY <1>2
    <2>2. f \in Matchings(p) /\ DOMAIN f = {}
        BY <2>1 DEF Matchings
    <2>. QED  BY <2>2 DEF Partial, Matching, Apart
<1>3. \/ Len(p.resolved_deps) = Len(p.config.depends_on)
      \/ p.resolved_deps = <<>>
    <2>1. \/ p.resolved_deps = <<>>
          \/ p.resolved_deps \in [DOMAIN p.config.depends_on -> ProcessId]
        BY DEF resolve_dependencies
    <2>. QED  BY <2>1, RecordLists
<1>. QED  BY <1>1, <1>2, <1>3

\* Phase 5 binds the dependencies that are left over, each once.
LEMMA PlacesFilled ==
    ASSUME NEW p \in Process, NEW m \in Nat, m = Cardinality(Bindable(p)),
           NEW place \in [Bindable(p) -> 1 .. m],
           \A j, k \in Bindable(p) : j < k => place[j] < place[k]
    PROVE  /\ \A j, k \in Bindable(p) : place[j] = place[k] => j = k
           /\ \A h \in 1 .. m : \E k \in Bindable(p) : place[k] = h
<1>1. Bindable(p) \subseteq 1 .. Len(p.config.depends_on)
    BY RecordLists DEF Bindable, Unresolved
<1>2. \A k \in Bindable(p) : k \in Nat /\ place[k] \in Nat
    BY <1>1, RecordLists
<1>3. ASSUME NEW j \in Bindable(p), NEW k \in Bindable(p), place[j] = place[k]
      PROVE  j = k
    <2>1. j < k \/ k < j \/ j = k
        BY <1>2
    <2>2. j < k => place[j] < place[k]
        OBVIOUS
    <2>3. k < j => place[k] < place[j]
        OBVIOUS
    <2>. QED  BY <1>2, <1>3, <2>1, <2>2, <2>3
<1>4. place \in Injection(Bindable(p), 1 .. m)
    BY <1>3 DEF Injection, IsInjective
<1>5. IsFiniteSet(1 .. m) /\ Cardinality(1 .. m) = m
    BY FS_Interval
<1>6. place \in Surjection(Bindable(p), 1 .. m)
    BY <1>4, <1>5, FS_Injection
<1>. QED  BY <1>3, <1>6 DEF Surjection

LEMMA Extends ==
    ASSUME NEW S, NEW s \in Seq(S), NEW u \in Seq(S)
    PROVE  LET n == Len(s)  m == Len(u) IN
           /\ DOMAIN (s \o u) = 1 .. n + m
           /\ \A j \in 1 .. n : (s \o u)[j] = s[j]
           /\ \A j \in 1 .. n + m : j > n => j - n \in 1 .. m /\ (s \o u)[j] = u[j - n]
OBVIOUS

LEMMA ExtendedPartial ==
    ASSUME IdsUsed, NEW p \in Process, Partial(p), NEW newly \in NewlyResolved(p),
           NEW r \in Process, r.config = p.config,
           r.resolved_deps = p.resolved_deps \o newly
    PROVE  Partial(r)
<1>. DEFINE m == Cardinality(Bindable(p))
            n == Len(p.resolved_deps)
            depends_on == p.config.depends_on
<1>1. PICK f \in Matchings(p) : Matching(p, f) /\ Apart(p, f)
    BY DEF Partial
<1>2. newly \in [1 .. m -> ProcessId] /\ newly \in Seq(ProcessId)
    BY NewlyResolvedType DEF NewlyResolved
<1>3. PICK place \in [Bindable(p) -> 1 .. m] :
         /\ \A j, k \in Bindable(p) : j < k => place[j] < place[k]
         /\ \A k \in Bindable(p) : newly[place[k]] \in Candidates(depends_on[k])
    BY <1>2 DEF NewlyResolved
<1>4. m \in Nat /\ Len(newly) = m
    <2>1. Bindable(p) \subseteq 1 .. Len(depends_on) /\ Len(depends_on) \in Nat
        BY RecordLists DEF Bindable, Unresolved
    <2>2. IsFiniteSet(1 .. Len(depends_on))
        BY <2>1, FS_Interval
    <2>3. IsFiniteSet(Bindable(p))
        BY <2>1, <2>2, FS_Subset
    <2>4. m \in Nat
        BY <2>3, FS_CardinalityType
    <2>. HIDE DEF m
    <2>. QED  BY <1>2, <2>4
<1>a. m = Cardinality(Bindable(p))
    OBVIOUS
<1>. HIDE DEF m
<1>5. /\ \A j, k \in Bindable(p) : place[j] = place[k] => j = k
      /\ \A h \in 1 .. m : \E k \in Bindable(p) : place[k] = h
    BY <1>3, <1>4, <1>a, PlacesFilled
<1>. DEFINE at(h) == CHOOSE k \in Bindable(p) : place[k] = h
            g == [j \in 1 .. n + m |-> IF j <= n THEN f[j] ELSE at(j - n)]
<1>6. \A h \in 1 .. m : at(h) \in Bindable(p) /\ place[at(h)] = h
    BY <1>5
<1>. HIDE DEF at
<1>7. /\ n \in Nat /\ p.resolved_deps \in Seq(ProcessId)
      /\ DOMAIN p.resolved_deps = 1 .. n /\ DOMAIN f = 1 .. n
    BY RecordLists DEF Matchings
<1>8. /\ DOMAIN r.resolved_deps = 1 .. n + m
      /\ \A j \in 1 .. n : r.resolved_deps[j] = p.resolved_deps[j]
      /\ \A j \in 1 .. n + m : j > n =>
            j - n \in 1 .. m /\ r.resolved_deps[j] = newly[j - n]
    <2>. DEFINE s == p.resolved_deps
    <2>1. s \in Seq(ProcessId) /\ newly \in Seq(ProcessId)
        BY <1>2, <1>7
    <2>. HIDE DEF s
    <2>2. /\ DOMAIN (s \o newly) = 1 .. Len(s) + Len(newly)
          /\ \A j \in 1 .. Len(s) : (s \o newly)[j] = s[j]
          /\ \A j \in 1 .. Len(s) + Len(newly) : j > Len(s) =>
                j - Len(s) \in 1 .. Len(newly) /\ (s \o newly)[j] = newly[j - Len(s)]
        BY <2>1, Extends
    <2>3. r.resolved_deps = s \o newly /\ n = Len(s) /\ m = Len(newly)
        BY <1>4 DEF s
    <2>. HIDE DEF n
    <2>. QED  BY <2>2, <2>3 DEF s
<1>. HIDE DEF n
<1>9. Bindable(p) \subseteq DOMAIN depends_on /\ Bindable(p) \subseteq Unresolved(p)
    BY DEF Bindable, Unresolved
<1>10. /\ \A j \in 1 .. n : g[j] = f[j] /\ j <= n
       /\ \A j \in 1 .. n + m : j > n => g[j] = at(j - n)
       /\ DOMAIN g = 1 .. n + m
    BY <1>4, <1>7
<1>11. \A j \in 1 .. n + m : j \in 1 .. n \/ j > n
    BY <1>4, <1>7
<1>12. g \in Matchings(r)
    <2>1. \A j \in 1 .. n + m : g[j] \in DOMAIN depends_on
        BY <1>6, <1>7, <1>8, <1>9, <1>10, <1>11 DEF Matchings
    <2>. HIDE DEF g
    <2>2. g \in [1 .. n + m -> DOMAIN depends_on]
        BY <1>10, <2>1 DEF g
    <2>. QED  BY <1>8, <2>2 DEF Matchings
<1>. HIDE DEF g
<1>13. ASSUME NEW j \in 1 .. n + m
       PROVE  StandsFor(r.resolved_deps[j], depends_on[g[j]])
    <2>1. CASE j \in 1 .. n
        BY <1>1, <1>7, <1>8, <1>10, <2>1 DEF Matching
    <2>2. CASE j > n
        <3>1. PICK h \in 1 .. m : r.resolved_deps[j] = newly[h] /\ g[j] = at(h)
            BY <1>8, <1>10, <2>2
        <3>2. r.resolved_deps[j] \in Candidates(depends_on[g[j]])
            BY <1>3, <1>6, <3>1
        <3>. QED  BY <3>2, MatchesCarry DEF Candidates, StandsFor
    <2>. QED  BY <1>11, <2>1, <2>2
<1>14. ASSUME NEW j \in 1 .. n, NEW k \in 1 .. n + m, k > n, g[j] = g[k]
       PROVE  ~Lasts(r, g, j)
    <2>1. g[k] \in Unresolved(p)
        BY <1>6, <1>8, <1>9, <1>10, <1>14
    <2>. DEFINE d == depends_on[g[j]]
    <2>2. ~IF d.kind = "Id" THEN p.resolved_deps[j] = d.target
           ELSE p.resolved_deps[j] \in Labelled(d.target)
        BY <1>7, <1>14, <2>1 DEF Unresolved
    <2>3. j \in 1 .. n + m /\ StandsFor(p.resolved_deps[j], d)
        BY <1>4, <1>7, <1>8, <1>13
    <2>. QED  BY <1>8, <2>2, <2>3 DEF StandsFor, Carries, Labelled, Lasts
<1>15. ASSUME NEW j \in 1 .. n, NEW k \in 1 .. n, g[j] = g[k], Lasts(r, g, j), Lasts(r, g, k)
       PROVE  j = k
    <2>1. f[j] = f[k] /\ Lasts(p, f, j) /\ Lasts(p, f, k)
        BY <1>8, <1>10, <1>15 DEF Lasts
    <2>. QED  BY <1>1, <1>7, <2>1 DEF Apart
<1>16. ASSUME NEW j \in 1 .. n + m, NEW k \in 1 .. n + m, j > n, k > n, g[j] = g[k]
       PROVE  j = k
    <2>1. j - n = k - n
        BY <1>6, <1>8, <1>10, <1>16
    <2>. QED  BY <1>4, <1>7, <1>16, <2>1
<1>17. Matching(r, g)
    BY <1>10, <1>12, <1>13 DEF Matching
<1>18. Apart(r, g)
    <2>1. SUFFICES ASSUME NEW j \in 1 .. n + m, NEW k \in 1 .. n + m,
                          g[j] = g[k], Lasts(r, g, j), Lasts(r, g, k)
                   PROVE  j = k
        BY <1>10 DEF Apart
    <2>. QED  BY <1>11, <1>14, <1>15, <1>16, <2>1
<1>. QED  BY <1>12, <1>17, <1>18 DEF Partial

-----------------------------------------------------------------------------
(* No entry comes back: what a binding stands for it stands for from       *)
(* then on.                                                                *)

LastingStep ==
    \A i \in ProcessId : Used(i) =>
        /\ Used(i)'
        /\ i \in Present' => i \in Present /\ processes'[i].config = processes[i].config

SameBindings(p, r) == r.config = p.config /\ r.resolved_deps = p.resolved_deps

LEMMA MatchingLasts ==
    ASSUME LastingStep, NEW p \in Process, NEW r \in Process, SameBindings(p, r),
           NEW f \in Matchings(p), Matching(p, f)
    PROVE  /\ f \in Matchings(r) /\ Matching(r, f)'
           /\ \A j \in DOMAIN f : Lasts(r, f, j)' => Lasts(p, f, j)
<1>1. f \in Matchings(r)
    BY DEF Matchings, SameBindings
<1>2. \A j \in DOMAIN f : p.resolved_deps[j] \in ProcessId
    BY RecordLists DEF Matchings
<1>3. ASSUME NEW j \in DOMAIN f
      PROVE  /\ StandsFor(r.resolved_deps[j], r.config.depends_on[f[j]])'
             /\ Lasts(r, f, j)' => Lasts(p, f, j)
    <2>1. PICK i \in ProcessId : i = p.resolved_deps[j] /\ i = r.resolved_deps[j]
        BY <1>2, <1>3 DEF SameBindings
    <2>2. PICK d : d = p.config.depends_on[f[j]] /\ d = r.config.depends_on[f[j]]
        BY DEF SameBindings
    <2>3. StandsFor(i, d)
        BY <1>3, <2>1, <2>2 DEF Matching
    <2>4. d.kind # "Id" => Carries(i, d.target) /\ Carries(i, d.target)'
        BY <2>3 DEF StandsFor, Carries, LastingStep
    <2>5. StandsFor(i, d)'
        BY <2>3, <2>4 DEF StandsFor
    <2>6. d.kind # "Id" /\ i \in Present' => i \in Present
        BY <2>4 DEF Carries, LastingStep
    <2>. QED  BY <2>1, <2>2, <2>5, <2>6 DEF Lasts
<1>. QED  BY <1>1, <1>3 DEF Matching, Matchings

LEMMA PartialLasts ==
    ASSUME LastingStep, NEW p \in Process, NEW r \in Process, SameBindings(p, r), Partial(p)
    PROVE  Partial(r)'
<1>1. PICK f \in Matchings(p) : Matching(p, f) /\ Apart(p, f)
    BY DEF Partial
<1>2. /\ f \in Matchings(r) /\ Matching(r, f)'
      /\ \A j \in DOMAIN f : Lasts(r, f, j)' => Lasts(p, f, j)
    BY <1>1, MatchingLasts
<1>3. Apart(r, f)'
    BY <1>1, <1>2 DEF Apart
<1>. QED  BY <1>2, <1>3 DEF Partial, Matchings

LEMMA WholeLasts ==
    ASSUME LastingStep, NEW p \in Process, NEW r \in Process, SameBindings(p, r), Whole(p)
    PROVE  Whole(r)'
<1>1. PICK f \in Matchings(p) :
         Matching(p, f) /\ \A j, k \in DOMAIN f : f[j] = f[k] => j = k
    BY DEF Whole
<1>2. f \in Matchings(r) /\ Matching(r, f)'
    BY <1>1, MatchingLasts
<1>3. Len(r.resolved_deps) = Len(r.config.depends_on)
    BY DEF Whole, SameBindings
<1>. QED  BY <1>1, <1>2, <1>3 DEF Whole, Matchings

-----------------------------------------------------------------------------
(* What a step does to the bindings of an entry.                           *)

\* It is not spawned, or it is one the reaper has listed.
Mild(p, r) == SameBindings(p, r) /\ (Spawned(r) => Spawned(p))

Retained(i) ==
    /\ i \in Present
    /\ SameBindings(processes[i], processes'[i])
    /\ Spawned(processes'[i]) => Spawned(processes[i]) \/ Listed(i)

\* start() and perform_restart() resolve all dependencies at once.
ResolvedAnew(i) ==
    /\ IF i \in Present
       THEN /\ processes'[i].config = processes[i].config
            /\ rpc = "restart" /\ rpc' \notin Scheduling /\ i \notin todo'
       ELSE ~Used(i)
    /\ processes'[i].resolved_deps
         \in resolve_dependencies(processes'[i].config.depends_on)
    /\ Spawned(processes'[i]) =>
         Len(processes'[i].resolved_deps) = Len(processes'[i].config.depends_on)

\* Phase 5 adds to what there is.
Extended(i) ==
    /\ i \in Present
    /\ processes'[i].config = processes[i].config
    /\ \E newly \in NewlyResolved(processes[i]) :
          processes'[i].resolved_deps = processes[i].resolved_deps \o newly
    /\ ~AllResolved(processes[i])
    /\ Spawned(processes'[i]) => Spawned(processes[i])

BindFate(i) == i \in Present' => Retained(i) \/ ResolvedAnew(i) \/ Extended(i)

BindStep == \A i \in ProcessId : BindFate(i)

LEMMA SameBindFate ==
    ASSUME NEW i \in ProcessId, processes'[i] = processes[i]
    PROVE  BindFate(i)
BY DEF BindFate, Retained, SameBindings, Present

LEMMA PutBindFate ==
    ASSUME TypeInv, NEW i, NEW p, Put(i, p),
           i \in ProcessId => p = NoProcess \/ BindFate(i)
    PROVE  BindStep
<1>1. ASSUME NEW j \in ProcessId
      PROVE  BindFate(j)
    <2>1. processes'[j] = IF j = i THEN p ELSE processes[j]
        BY DEF Put, TypeInv, TableTypeOK
    <2>2. CASE j = i /\ p = NoProcess
        BY <2>1, <2>2 DEF BindFate, Present
    <2>. QED  BY <2>1, <2>2, SameBindFate
<1>. QED  BY <1>1 DEF BindStep

\* An edit that spawns nothing.
LEMMA MildFate ==
    ASSUME TypeInv, NEW i, NEW p, Put(i, p),
           p = NoProcess \/ (i \in Present /\ Mild(processes[i], p))
    PROVE  BindStep
<1>1. ASSUME i \in ProcessId, p # NoProcess
      PROVE  BindFate(i)
    <2>1. processes'[i] = p
        BY <1>1 DEF Put, TypeInv, TableTypeOK
    <2>. QED  BY <1>1, <2>1 DEF BindFate, Retained, Mild
<1>. QED  BY <1>1, PutBindFate

LEMMA PollBindFate ==
    ASSUME TypeInv, NEW S, NEW j \in ProcessId, processes'[j] = PollAll(S)[j]
    PROVE  BindFate(j)
<1>1. CASE processes[j] = NoProcess
    BY <1>1 DEF PollAll, BindFate, Present
<1>2. CASE processes[j] # NoProcess
    <2>1. processes[j] \in Process /\ j \in Present
        BY <1>2 DEF TypeInv, TableTypeOK, Present
    <2>2. Mild(processes[j], Polled(processes[j]))
        BY <2>1 DEF Polled, Mild, SameBindings, Spawned, Process
    <2>3. processes'[j] \in {processes[j], Polled(processes[j])}
        BY DEF PollAll
    <2>. QED  BY <2>1, <2>2, <2>3 DEF BindFate, Retained, Mild, SameBindings
<1>. QED  BY <1>1, <1>2

LEMMA PollAllBindFate ==
    ASSUME TypeInv, NEW S, NEW i \in ProcessId, NEW p,
           processes' = [PollAll(S) EXCEPT ![i] = p],
           processes'[i] = p => p = NoProcess \/ BindFate(i)
    PROVE  BindStep
<1>1. DOMAIN PollAll(S) = ProcessId
    BY DEF PollAll
<1>2. processes'[i] = p /\ \A j \in ProcessId \ {i} : processes'[j] = PollAll(S)[j]
    BY <1>1 DEF PollAll
<1>3. BindFate(i)
    BY <1>2 DEF BindFate, Present
<1>. QED  BY <1>2, <1>3, PollBindFate DEF BindStep

LEMMA MildEdits ==
    ASSUME NEW p \in Process
    PROVE  /\ \A s : s # "Restarting" => Mild(p, [p EXCEPT !.state = s])
           /\ Mild(p, [p EXCEPT !.backoff = "elapsed"])
           /\ Mild(p, [p EXCEPT !.stable = TRUE])
           /\ Mild(p, [p EXCEPT !.expired = TRUE])
           /\ Mild(p, Polled(p)) /\ Mild(p, Flagged(p))
           /\ LET r == check_stable_uptime(p) IN
                 /\ r \in Process /\ Mild(p, r)
                 /\ Mild(p, [r EXCEPT !.cascade_flag = FALSE])
                 /\ Mild(p, [r EXCEPT !.state = "Running"])
<1>. USE DEF Mild, SameBindings, Spawned
<1>1. /\ \A s : s # "Restarting" => Mild(p, [p EXCEPT !.state = s])
      /\ Mild(p, [p EXCEPT !.backoff = "elapsed"])
      /\ Mild(p, [p EXCEPT !.stable = TRUE])
      /\ Mild(p, [p EXCEPT !.expired = TRUE])
    BY DEF Process
<1>2. Mild(p, Polled(p)) /\ Mild(p, Flagged(p))
    BY DEF Process, Polled, Flagged
<1>. DEFINE r == check_stable_uptime(p)
<1>3. r \in Process /\ Mild(p, r)
    BY DEF check_stable_uptime, Process
<1>. HIDE DEF r
<1>4. Mild(p, [r EXCEPT !.cascade_flag = FALSE]) /\ Mild(p, [r EXCEPT !.state = "Running"])
    BY <1>3 DEF Process
<1>. QED  BY <1>1, <1>2, <1>3, <1>4 DEF r

-----------------------------------------------------------------------------
(* The reaper.                                                             *)

LEMMA DetectBinds ==
    ASSUME TypeInv, NEW i \in ProcessId, DetectExit(i) \/ DetectAlive(i)
    PROVE  BindStep
<1>. DEFINE p == check_stable_uptime(processes[i])
<1>1. i \in Present /\ processes[i] \in Process
    BY PresentProcess DEF DetectExit, DetectAlive, TypeInv
<1>2. \/ Put(i, [p EXCEPT !.cascade_flag = FALSE])
      \/ Put(i, [p EXCEPT !.state = "Running"])
      \/ Put(i, p)
    BY DEF DetectExit, DetectAlive
<1>3. /\ Mild(processes[i], p)
      /\ Mild(processes[i], [p EXCEPT !.cascade_flag = FALSE])
      /\ Mild(processes[i], [p EXCEPT !.state = "Running"])
    BY <1>1, MildEdits
<1>. HIDE DEF p
<1>. QED  BY <1>1, <1>2, <1>3, MildFate

\* A child that is scheduled for a restart is on the list of exits.
LEMMA ScheduleBinds ==
    ASSUME TypeInv, CurListed, NEW i \in Present, Put(i, Scheduled(processes[i])),
           (rpc = "schedule" /\ i \in todo) \/ (rpc = "schedule_wait" /\ i = cur)
    PROVE  BindStep
<1>1. i \in ProcessId /\ processes[i] \in Process /\ Listed(i)
    BY PresentProcess DEF TypeInv, Listed, Scheduling, CurListed
<1>2. SameBindings(processes[i], Scheduled(processes[i]))
    BY <1>1 DEF Scheduled, SameBindings, Process
<1>3. processes'[i] = Scheduled(processes[i])
    BY <1>1 DEF Put, TypeInv, TableTypeOK
<1>4. BindFate(i)
    BY <1>1, <1>2, <1>3 DEF BindFate, Retained
<1>. QED  BY <1>4, PutBindFate

LEMMA PerformRestartBinds ==
    ASSUME TypeInv, RestartInv, NEW i \in ProcessId, RestartSpawns(i) \/ RestartWaits(i)
    PROVE  BindStep
<1>. DEFINE p == processes[i]
<1>1. /\ rpc = "restart" /\ i \in todo \cap Present
      /\ p \in Process /\ p.config \in Configs
      /\ p.resolved_deps \in Seq(ProcessId)
      /\ rpc' \notin Scheduling /\ i \notin todo'
    BY PresentProcess DEF RestartSpawns, RestartWaits, In, Done, Scheduling, TypeInv, Process
<1>2. PICK deps \in resolve_dependencies(p.config.depends_on) : \E b :
        /\ processes' = [PollAll(Visited(deps)) EXCEPT ![i] = b]
        /\ \/ \E q \in Pid :
                b = Respawned(p, q, IF deps = <<>> THEN p.resolved_deps ELSE deps)
           \/ b = NoProcess
           \/ b = Requeued(p, deps)
    BY DEF RestartSpawns, RestartWaits, BindingsBelow
<1>3. PICK b :
        /\ processes' = [PollAll(Visited(deps)) EXCEPT ![i] = b]
        /\ \/ \E q \in Pid :
                b = Respawned(p, q, IF deps = <<>> THEN p.resolved_deps ELSE deps)
           \/ b = NoProcess
           \/ b = Requeued(p, deps)
    BY <1>2
<1>4. deps \in Seq(ProcessId) /\ (deps # <<>> => Len(deps) = Len(p.config.depends_on))
    <2>1. deps \in Seq(ProcessId)
        BY <1>1, BindingType
    <2>2. deps # <<>> => DOMAIN deps = DOMAIN p.config.depends_on
        BY DEF resolve_dependencies
    <2>. QED  BY <1>1, <2>1, <2>2, RecordLists
<1>5. p.child = 0 /\ Listed(i)
    BY <1>1 DEF RestartInv, Record, Listed
<1>6. ASSUME NEW q \in Pid, b = Respawned(p, q, p.resolved_deps), processes'[i] = b
      PROVE  BindFate(i)
    <2>1. SameBindings(p, b)
        BY <1>1, <1>6 DEF Respawned, SameBindings, Process
    <2>. QED  BY <1>1, <1>5, <1>6, <2>1 DEF BindFate, Retained
<1>7. ASSUME NEW q \in Pid, b = Respawned(p, q, deps), deps # <<>>, processes'[i] = b
      PROVE  BindFate(i)
    <2>1. b.config = p.config /\ b.resolved_deps = deps
        BY <1>1, <1>4, <1>7 DEF Respawned, Process
    <2>. QED  BY <1>1, <1>4, <1>7, <2>1 DEF BindFate, ResolvedAnew
<1>8. ASSUME b = Requeued(p, deps), processes'[i] = b
      PROVE  BindFate(i)
    <2>1. b.config = p.config /\ b.resolved_deps = deps /\ ~Spawned(b)
        BY <1>1, <1>4, <1>5, <1>8 DEF Requeued, Process, Spawned
    <2>. QED  BY <1>1, <1>8, <2>1 DEF BindFate, ResolvedAnew
<1>9. processes'[i] = b => b = NoProcess \/ BindFate(i)
    <2>. HIDE DEF p
    <2>. QED  BY <1>3, <1>6, <1>7, <1>8
<1>. QED  BY <1>3, <1>9, PollAllBindFate

LEMMA CheckWaitingBinds ==
    ASSUME TypeInv, NEW i \in ProcessId, CheckWaiting(i)
    PROVE  BindStep
<1>. DEFINE p == processes[i]
<1>1. CASE UNCHANGED processes
    BY <1>1, SameBindFate DEF BindStep
<1>2. CASE ~UNCHANGED processes
    <2>1. i \in Present /\ ~AllResolved(p)
        BY <1>2 DEF CheckWaiting, Present
    <2>2. PICK newly \in NewlyResolved(p) :
             Put(i, [p EXCEPT !.resolved_deps = @ \o newly])
        BY <1>2 DEF CheckWaiting
    <2>3. p \in Process
        BY <2>1, PresentProcess DEF TypeInv
    <2>. DEFINE d == p.resolved_deps \o newly
                r == [p EXCEPT !.resolved_deps = d]
    <2>4. Put(i, r)
        BY <2>2
    <2>5. r.config = p.config /\ r.resolved_deps = d /\ (Spawned(r) => Spawned(p))
        BY <2>3 DEF Process, Spawned
    <2>. HIDE DEF r
    <2>6. processes'[i] = r
        BY <2>4 DEF Put, TypeInv, TableTypeOK
    <2>7. BindFate(i)
        BY <2>1, <2>5, <2>6 DEF BindFate, Extended
    <2>. QED  BY <2>4, <2>7, PutBindFate
<1>. QED  BY <1>1, <1>2

LEMMA SpawnWaitingBinds ==
    ASSUME TypeInv, NEW i \in ProcessId, SpawnWaiting(i)
    PROVE  BindStep
<1>. DEFINE p == processes[i]
<1>1. CASE UNCHANGED processes
    BY <1>1, SameBindFate DEF BindStep
<1>2. CASE ~UNCHANGED processes
    <2>1. /\ i \in Present /\ i \in to_spawn
          /\ \/ Put(i, NoProcess)
             \/ \E q \in Pid : Put(i, SpawnedWaiting(p, q))
        BY <1>2 DEF SpawnWaiting, RemoveFailed, Present
    <2>2. p \in Process /\ Listed(i)
        BY <2>1, PresentProcess DEF TypeInv, Listed
    <2>3. ASSUME NEW q \in Pid, Put(i, SpawnedWaiting(p, q))
          PROVE  BindFate(i)
        <3>1. SameBindings(p, SpawnedWaiting(p, q))
            BY <2>2 DEF SpawnedWaiting, SameBindings, Process
        <3>2. processes'[i] = SpawnedWaiting(p, q)
            BY <2>3 DEF Put, TypeInv, TableTypeOK
        <3>. QED  BY <2>1, <2>2, <3>1, <3>2 DEF BindFate, Retained
    <2>. QED  BY <2>1, <2>3, PutBindFate
<1>. QED  BY <1>1, <1>2

LEMMA ReaperBinds ==
    ASSUME IInv, RestartInv, CurListed, ReaperNext
    PROVE  BindStep
<1>. USE DEF IInv
<1>1. CASE \/ BeginCycle \/ EndDetect \/ CollectTargets \/ EmitEvents
           \/ CollectEligible \/ CollectWaiting \/ CollectRunning
           \/ \E i \in ProcessId : RestartSkips(i) \/ ScheduleBlocks(i) \/ RestartWedges(i)
    <2>1. UNCHANGED processes
        BY <1>1 DEF BeginCycle, EndDetect, CollectTargets, EmitEvents, CollectEligible,
                    CollectWaiting, CollectRunning, RestartSkips, ScheduleBlocks,
                    RestartWedges
    <2>. QED  BY <2>1, SameBindFate DEF BindStep
<1>2. CASE ScheduleResumes
    <2>1. /\ cur \in Present /\ rpc = "schedule_wait"
          /\ Put(cur, Scheduled(processes[cur]))
        BY <1>2 DEF ScheduleResumes, In, GuardInv, ReaperWaits, Present
    <2>. QED  BY <2>1, ScheduleBinds
<1>3. ASSUME NEW i \in ProcessId, FlagTarget(i)
      PROVE  BindStep
    <2>1. UNCHANGED processes \/ (i \in Present /\ Put(i, Flagged(processes[i])))
        BY <1>3 DEF FlagTarget, Present
    <2>2. i \in Present => Mild(processes[i], Flagged(processes[i]))
        BY PresentProcess, MildEdits DEF TypeInv
    <2>. QED  BY <2>1, <2>2, SameBindFate, MildFate DEF BindStep
<1>4. ASSUME NEW i \in ProcessId, ScheduleRestart(i)
      PROVE  BindStep
    <2>1. \/ UNCHANGED processes
          \/ i \in Present /\ rpc = "schedule" /\ i \in todo /\ Put(i, Scheduled(processes[i]))
        BY <1>4 DEF ScheduleRestart, In, Present
    <2>. QED  BY <2>1, SameBindFate, ScheduleBinds DEF BindStep
<1>5. CASE RemoveExited
    <2>1. \A i \in ProcessId : processes'[i] \in {NoProcess, processes[i]}
        BY <1>5 DEF RemoveExited
    <2>2. \A i \in ProcessId : processes'[i] = NoProcess => BindFate(i)
        BY DEF BindFate, Present
    <2>. QED  BY <2>1, <2>2, SameBindFate DEF BindStep
<1>6. ASSUME NEW i \in ProcessId, FailWaiting(i) \/ FailRunning(i)
      PROVE  BindStep
    <2>1. UNCHANGED processes \/ Put(i, NoProcess)
        BY <1>6 DEF FailWaiting, FailRunning, RemoveFailed
    <2>. QED  BY <2>1, SameBindFate, MildFate DEF BindStep
<1>. QED
    BY <1>1, <1>2, <1>3, <1>4, <1>5, <1>6, DetectBinds, PerformRestartBinds,
       CheckWaitingBinds, SpawnWaitingBinds
    DEF ReaperNext

-----------------------------------------------------------------------------
(* The clients and the clock.                                              *)

LEMMA CallBinds ==
    ASSUME TypeInv, NEW t \in Threads, Calls(t)
    PROVE  BindStep
<1>1. CASE Poll(t)
    <2>1. PICK i \in Present : Put(i, Polled(processes[i]))
        BY <1>1 DEF Poll
    <2>2. Mild(processes[i], Polled(processes[i]))
        BY PresentProcess, MildEdits DEF TypeInv
    <2>. QED  BY <2>1, <2>2, MildFate
<1>2. CASE ~Poll(t)
    <2>1. UNCHANGED processes
        BY <1>2 DEF Calls, CallNext, StartCall, StopCall, StopManyCall, RestartCall,
                    DropManager, SendSignal
    <2>. QED  BY <2>1, SameBindFate DEF BindStep
<1>. QED  BY <1>1, <1>2

LEMMA StartBinds ==
    ASSUME TypeInv, IdsUsed, NEW t \in Threads, StartSpawn(t) \/ StartWaiting(t)
    PROVE  BindStep
<1>1. PICK id \in ProcessId, c \in Configs :
         id = calls[t].id /\ c = calls[t].config /\ At(t, "start_insert")
    BY CallRecord DEF StartSpawn, StartWaiting, TypeInv, At, GoodCall
<1>2. PICK deps \in resolve_dependencies(c.depends_on) :
        \/ \E q \in Pid : \E S :
             /\ processes' = [PollAll(S) EXCEPT
                                ![id] = NewProcess(c, q, next_spawn_sequence, deps)]
             /\ Len(deps) = Len(c.depends_on)
        \/ \E S : processes' = [PollAll(S) EXCEPT
                                  ![id] = NewProcess(c, 0, next_spawn_sequence, deps)]
        \/ \E S : processes' = PollAll(S)
    BY <1>1 DEF StartSpawn, StartWaiting
<1>3. ~Used(id) /\ id \notin Present
    BY <1>1 DEF Used, IdsUsed
<1>4. ASSUME NEW q, processes'[id] = NewProcess(c, q, next_spawn_sequence, deps),
             q # 0 => Len(deps) = Len(c.depends_on)
      PROVE  BindFate(id)
    <2>1. /\ processes'[id].config = c /\ processes'[id].resolved_deps = deps
          /\ Spawned(processes'[id]) => q # 0
        BY <1>4 DEF NewProcess, Spawned
    <2>. QED  BY <1>3, <1>4, <2>1 DEF BindFate, ResolvedAnew
<1>. QED  BY <1>2, <1>4, PollAllBindFate, PollBindFate DEF BindStep

\* What stop_many() has taken it may kill, so nothing goes back.
LEMMA ReapBinds ==
    ASSUME AllMayBeKilled, TypeInv, NEW t \in Threads, StopManyReap(t)
    PROVE  BindStep
<1>1. Reinserted(t) = {}
    <2>1. \A i \in Held(t) : calls[t].held[i].config \in Configs
        BY HeldType, RecordLists DEF TypeInv
    <2>. QED  BY <2>1 DEF Reinserted, KillResult, AllMayBeKilled
<1>2. \A i \in ProcessId : processes'[i] = processes[i]
    BY <1>1 DEF StopManyReap
<1>. QED  BY <1>2, SameBindFate DEF BindStep

LEMMA StepBinds ==
    ASSUME AllMayBeKilled, TypeInv, AllOrdinary, IdsUsed, NEW t \in Threads, Steps(t)
    PROVE  BindStep
<1>1. CASE AwaitTimeout(t)
    <2>. DEFINE i == calls[t].id
    <2>1. i \in ProcessId
        BY <1>1, CallRecord DEF AwaitTimeout, TypeInv, At, GoodCall
    <2>2. \/ UNCHANGED processes
          \/ i \in Present /\ Put(i, [processes[i] EXCEPT !.state = "Failed"])
        BY <1>1, <2>1 DEF AwaitTimeout, Present
    <2>3. i \in Present => Mild(processes[i], [processes[i] EXCEPT !.state = "Failed"])
        BY PresentProcess, MildEdits DEF TypeInv
    <2>. QED  BY <2>2, <2>3, SameBindFate, MildFate DEF BindStep
<1>2. CASE StopCancel(t) \/ StopUnqueue(t) \/ StopRemove(t) \/ StopManyRemove(t)
    <2>1. \E i : Put(i, NoProcess)
        BY <1>2 DEF StopCancel, StopUnqueue, StopRemove, StopManyRemove
    <2>. QED  BY <2>1, MildFate
<1>3. CASE \/ AwaitReturn(t) \/ StopCheck(t) \/ StopEscalate(t) \/ StopReap(t)
           \/ StopManySignal(t) \/ StopManyEscalate(t) \/ RestartCheck(t)
           \/ RestartBlocks(t) \/ DropStop(t)
    <2>1. UNCHANGED processes
        BY <1>3 DEF AwaitReturn, StopCheck, StopEscalate, StopReap, StopManySignal,
                    StopManyEscalate, RestartCheck, RestartBlocks, DropStop
    <2>. QED  BY <2>1, SameBindFate DEF BindStep
<1>4. ~(RestartReset(t) \/ RestartInPlace(t) \/ RestartInsert(t))
    BY DEF RestartInsert, RestartReset, RestartInPlace, At, AllOrdinary, Ordinary,
           RestartCallStep
<1>. QED  BY <1>1, <1>2, <1>3, <1>4, StartBinds, ReapBinds DEF Steps, StepNext

LEMMA TicksBind ==
    ASSUME TypeInv, NEW i \in ProcessId, Ticks(i)
    PROVE  BindStep
<1>1. i \in Present
    BY DEF Ticks, BackoffElapses, UptimeReached, DependencyExpires, InState
<1>2. processes[i] \in Process
    BY <1>1, PresentProcess DEF TypeInv
<1>3. \/ Put(i, [processes[i] EXCEPT !.backoff = "elapsed"])
      \/ Put(i, [processes[i] EXCEPT !.stable = TRUE])
      \/ Put(i, [processes[i] EXCEPT !.expired = TRUE])
    BY DEF Ticks, BackoffElapses, UptimeReached, DependencyExpires
<1>. QED  BY <1>1, <1>2, <1>3, MildEdits, MildFate

LEMMA EveryBindStep ==
    ASSUME AllMayBeKilled, NInv, CurListed, [Next]_vars
    PROVE  BindStep
<1>. USE DEF NInv, IInv
<1>1. ASSUME NEW t \in Threads, Calls(t) \/ Steps(t)
      PROVE  BindStep
    BY <1>1, CallBinds, StepBinds DEF IdInv
<1>2. CASE ReaperNext
    BY <1>2, ReaperBinds DEF ListInv
<1>3. ASSUME NEW i \in ProcessId, Ticks(i)
      PROVE  BindStep
    BY <1>3, TicksBind
<1>4. CASE (\E q \in Pid : Exits(q)) \/ Closes \/ UNCHANGED vars
    <2>1. UNCHANGED processes
        BY <1>4 DEF Exits, ChildExits, Closes, CloseChannel, vars
    <2>. QED  BY <2>1, SameBindFate DEF BindStep
<1>. QED  BY <1>1, <1>2, <1>3, <1>4 DEF Next, Ticks

LEMMA EveryLastingStep ==
    ASSUME TypeInv, IdStep, BindStep
    PROVE  LastingStep
<1>1. ASSUME NEW i \in ProcessId, Used(i)
      PROVE  Used(i)' /\ (i \in Present' => i \in Present /\ processes'[i].config = processes[i].config)
    <2>1. Used(i)'
        BY <1>1, UsedStays
    <2>2. BindFate(i)
        BY DEF BindStep
    <2>. QED  BY <1>1, <2>1, <2>2
              DEF BindFate, Retained, ResolvedAnew, Extended, SameBindings
<1>. QED  BY <1>1 DEF LastingStep

-----------------------------------------------------------------------------
(* The lists of the reaper.                                                *)

\* A Waiting process is listed to be spawned when all is bound and runs.
Ready(i) ==
    /\ i \in Present'
    /\ CheckWaiting(i)
    /\ AllResolved(processes'[i]) /\ AllRunning(processes'[i].resolved_deps)

SpawnListStep == \A i \in to_spawn' : i \in to_spawn \/ Ready(i)

LEMMA CheckWaitingLists ==
    ASSUME TypeInv, NEW i \in ProcessId, CheckWaiting(i)
    PROVE  SpawnListStep
<1>. DEFINE p == processes[i]
<1>1. CASE to_spawn' = to_spawn
    BY <1>1 DEF SpawnListStep
<1>2. CASE to_spawn' # to_spawn
    <2>1. i \in Present
        BY <1>2 DEF CheckWaiting, NextCheck, Present
    <2>2. p \in Process
        BY <2>1, PresentProcess DEF TypeInv
    <2>3. to_spawn' = to_spawn \cup {i}
        BY <1>2 DEF CheckWaiting, NextCheck
    <2>4. CASE UNCHANGED processes
        <3>1. AllResolved(p) /\ AllRunning(p.resolved_deps)
            <4>1. AllResolved(p) \/ Bindable(p) = {}
                  \/ \E newly \in NewlyResolved(p) : Put(i, [p EXCEPT !.resolved_deps = @ \o newly])
                BY <1>2 DEF CheckWaiting, NextCheck
            <4>2. CASE AllResolved(p) \/ Bindable(p) = {}
                BY <1>2, <2>1, <4>2 DEF CheckWaiting, NextCheck, Present
            <4>3. CASE ~(AllResolved(p) \/ Bindable(p) = {})
                <5>1. PICK newly \in NewlyResolved(p) :
                        LET bound == [p EXCEPT !.resolved_deps = @ \o newly] IN
                        /\ Put(i, bound)
                        /\ NextCheck(i, AllResolved(bound) /\ AllRunning(bound.resolved_deps),
                                     FALSE)
                    BY <1>2, <2>1, <4>3 DEF CheckWaiting, NextCheck, Present
                <5>2. processes'[i] = [p EXCEPT !.resolved_deps = @ \o newly]
                    BY <5>1 DEF Put, TypeInv, TableTypeOK
                <5>3. [p EXCEPT !.resolved_deps = @ \o newly] = p
                    BY <2>4, <5>2
                <5>. QED  BY <1>2, <5>1, <5>3 DEF NextCheck
            <4>. QED  BY <4>2, <4>3
        <3>. QED  BY <2>1, <2>3, <2>4, <3>1 DEF SpawnListStep, Ready, Present
    <2>5. CASE ~UNCHANGED processes
        <3>1. PICK newly \in NewlyResolved(p) :
                LET bound == [p EXCEPT !.resolved_deps = @ \o newly] IN
                /\ Put(i, bound)
                /\ NextCheck(i, AllResolved(bound) /\ AllRunning(bound.resolved_deps), FALSE)
            BY <2>5 DEF CheckWaiting
        <3>. DEFINE bound == [p EXCEPT !.resolved_deps = @ \o newly]
        <3>2. bound \in Process
            <4>. DEFINE d == p.resolved_deps \o newly
            <4>1. d \in Seq(ProcessId)
                BY <2>2, <3>1, NewlyResolvedType DEF Process
            <4>. HIDE DEF d
            <4>2. [p EXCEPT !.resolved_deps = d] \in Process
                BY <2>2, <4>1 DEF Process
            <4>. QED  BY <4>2 DEF d
        <3>3. processes'[i] = bound /\ bound # NoProcess
            BY <3>1, <3>2, NoneIsNoProcess DEF Put, TypeInv, TableTypeOK
        <3>4. AllResolved(bound) /\ AllRunning(bound.resolved_deps)
            BY <1>2, <3>1 DEF NextCheck
        <3>. HIDE DEF bound
        <3>. QED  BY <2>3, <3>3, <3>4 DEF SpawnListStep, Ready, Present
    <2>. QED  BY <2>4, <2>5
<1>. QED  BY <1>1, <1>2

LEMMA EverySpawnListStep ==
    ASSUME TypeInv, [Next]_vars
    PROVE  SpawnListStep
<1>1. CASE \E i \in ProcessId : CheckWaiting(i)
    BY <1>1, CheckWaitingLists
<1>2. CASE \E i \in ProcessId : SpawnWaiting(i)
    BY <1>2 DEF SpawnWaiting, SpawnListStep
<1>3. CASE ~\E i \in ProcessId : CheckWaiting(i) \/ SpawnWaiting(i)
    <2>1. UNCHANGED to_spawn
        <3>1. ASSUME NEW t \in Threads, Calls(t) \/ Steps(t)
              PROVE  UNCHANGED to_spawn
            BY <3>1 DEF Calls, Steps
        <3>2. CASE ReaperNext
            BY <1>3, <3>2 DEF ReaperNext, BeginCycle, EndDetect, CollectTargets,
               RemoveExited, EmitEvents, CollectEligible, CollectWaiting, CollectRunning,
               ScheduleResumes, DetectExit, DetectAlive, FlagTarget, ScheduleRestart,
               ScheduleBlocks, RestartSkips, RestartSpawns, RestartWaits, RestartWedges,
               FailWaiting, FailRunning
        <3>3. CASE \/ \E q \in Pid : Exits(q)
                   \/ \E i \in ProcessId : BackoffElapses(i) \/ UptimeReached(i) \/ DependencyExpires(i)
                   \/ Closes \/ UNCHANGED vars
            BY <3>3 DEF Exits, BackoffElapses, UptimeReached, DependencyExpires, Closes,
                        vars, reaperVars
        <3>. QED  BY <3>1, <3>2, <3>3 DEF Next
    <2>. QED  BY <2>1 DEF SpawnListStep
<1>. QED  BY <1>1, <1>2, <1>3

\* An entry the reaper lists was spawned, or has all it needs.
LEMMA ListedBefore ==
    ASSUME LInv, ListStep, FoundStep, SpawnListStep, NEW i \in ProcessId, Listed(i)'
    PROVE  \/ Listed(i) /\ ~(rpc = "restart" /\ rpc' \notin Scheduling /\ i \notin todo')
           \/ i \in Present /\ Spawned(processes[i]) /\ rpc # "restart"
           \/ Ready(i)
<1>. USE DEF LInv, NInv, IInv
<1>1. CASE Found(i)'
    <2>1. CASE Found(i) /\ exited'[i] = exited[i]
        <3>1. rpc # "restart"
            BY <2>1 DEF ReportInv, FoundOnlyInCycle, Reporting, Found, NoneExited
        <3>. QED  BY <2>1, <3>1 DEF Listed
    <2>2. CASE DetectExit(i)
        <3>1. i \in Present /\ rpc = "detect" /\ Exited(check_stable_uptime(processes[i]).child)
            BY <2>2 DEF DetectExit, In
        <3>2. processes[i] \in Process
            BY <3>1, PresentProcess DEF TypeInv
        <3>3. processes[i].child # 0
            BY <3>1, <3>2 DEF check_stable_uptime, Process, Exited
        <3>. QED  BY <3>1, <3>3 DEF Spawned
    <2>. QED  BY <1>1, <2>1, <2>2 DEF FoundStep
<1>2. CASE rpc' \in Scheduling /\ i \in todo'
    <2>1. CASE rpc \in Scheduling /\ todo' \subseteq todo
        BY <1>2, <2>1 DEF Listed, Scheduling
    <2>2. CASE EmitEvents /\ todo' = ToRestart
        BY <1>2, <2>2 DEF EmitEvents, In, ToRestart, Listed, Found
    <2>. QED  BY <1>2, <2>1, <2>2 DEF ListStep, ScheduleListStep
<1>3. CASE rpc' = "restart" /\ i \in todo'
    <2>1. CASE rpc = "restart" /\ todo' \subseteq todo
        BY <1>3, <2>1 DEF Listed
    <2>2. CASE CollectEligible /\ todo' \subseteq InState({"Restarting"})
        BY <1>3, <2>2 DEF CollectEligible, In, InState, Spawned
    <2>. QED  BY <1>3, <2>1, <2>2 DEF ListStep, RestartListStep
<1>4. CASE i \in to_spawn'
    <2>1. CASE i \in to_spawn
        <3>1. rpc # "restart"
            BY <2>1 DEF PhaseInv, WaitInv
        <3>. QED  BY <2>1, <3>1 DEF Listed
    <2>. QED  BY <1>4, <2>1 DEF SpawnListStep
<1>. QED  BY <1>1, <1>2, <1>3, <1>4 DEF Listed

-----------------------------------------------------------------------------
(* The theorem.                                                            *)

\* What is proved of a record r holds of the entry it is.
LEMMA PartialEntry ==
    ASSUME NEW i, NEW r, r = processes'[i], Partial(r)'
    PROVE  Partial(processes[i])'
BY DEF Partial, Matchings, Matching, Apart, Lasts

LEMMA WholeEntry ==
    ASSUME NEW i, NEW r, r = processes'[i], Whole(r)'
    PROVE  Whole(processes[i])'
BY DEF Whole, Matchings, Matching

LEMMA PartialInductive ==
    ASSUME LInv, TypeInv', DepInv, BindStep, LastingStep, NEW i \in Present'
    PROVE  /\ Partial(processes[i])'
           /\ Spawned(processes'[i]) => Whole(processes[i])'
<1>. USE DEF LInv, NInv, IInv
<1>1. i \in ProcessId /\ processes'[i] \in Process
    BY DEF TypeInv, TableTypeOK, Present
<1>2. PICK r \in Process : r = processes'[i]
    BY <1>1
<1>3. i \in Present => processes[i] \in Process
    BY PresentProcess DEF TypeInv
<1>4. Partial(r)' /\ (Spawned(r) => Whole(r)')
    <2>1. CASE Retained(i)
        <3>1. PICK p \in Process : p = processes[i]
            BY <1>3, <2>1 DEF Retained
        <3>2. SameBindings(p, r) /\ Partial(p)
            BY <1>2, <2>1, <3>1 DEF Retained, DepInv
        <3>3. Spawned(r) => Whole(p)
            BY <1>1, <1>2, <2>1, <3>1 DEF Retained, DepInv
        <3>. QED  BY <3>2, <3>3, PartialLasts, WholeLasts
    <2>2. CASE ResolvedAnew(i)
        <3>1. /\ r.resolved_deps \in resolve_dependencies(r.config.depends_on)
              /\ Spawned(r) => Len(r.resolved_deps) = Len(r.config.depends_on)
            BY <1>2, <2>2 DEF ResolvedAnew
        <3>2. IdsUsed /\ SameBindings(r, r)
            BY DEF IdInv, SameBindings
        <3>3. Partial(r)'
            BY <3>1, <3>2, ResolvedPartial, PartialLasts
        <3>4. Spawned(r) => Whole(r)'
            BY <3>1, <3>2, ResolvedWhole, WholeLasts
        <3>. QED  BY <3>3, <3>4
    <2>3. CASE Extended(i)
        <3>1. PICK p \in Process : p = processes[i]
            BY <1>3, <2>3 DEF Extended
        <3>2. PICK newly \in NewlyResolved(p) : r.resolved_deps = p.resolved_deps \o newly
            BY <1>2, <2>3, <3>1 DEF Extended
        <3>3. r.config = p.config /\ IdsUsed /\ SameBindings(r, r) /\ Partial(p)
            BY <1>2, <2>3, <3>1 DEF Extended, IdInv, SameBindings, DepInv
        <3>4. Partial(r)
            BY <3>2, <3>3, ExtendedPartial
        <3>5. ~Spawned(r)
            BY <1>2, <2>3, <3>1 DEF Extended, DepInv, Whole, AllResolved
        <3>. QED  BY <3>3, <3>4, <3>5, PartialLasts
    <2>. QED  BY <1>1, <2>1, <2>2, <2>3 DEF BindStep, BindFate
<1>. QED  BY <1>2, <1>4, PartialEntry, WholeEntry

LEMMA ListedInductive ==
    ASSUME LInv, TypeInv', DepInv, IdStep, ListStep, FoundStep, SpawnListStep,
           BindStep, LastingStep, NEW i \in ProcessId, Listed(i)'
    PROVE  Used(i)' /\ (i \in Present' => Whole(processes[i])')
<1>. USE DEF LInv, NInv, IInv
<1>1. i \in Present' => processes'[i] \in Process
    BY DEF TypeInv, TableTypeOK, Present
<1>2. i \in Present => processes[i] \in Process
    BY PresentProcess DEF TypeInv
\* What was whole and has been listed keeps its bindings.
<1>3. ASSUME Used(i), i \in Present => Whole(processes[i]),
             ~(rpc = "restart" /\ rpc' \notin Scheduling /\ i \notin todo')
      PROVE  Used(i)' /\ (i \in Present' => Whole(processes[i])')
    <2>1. Used(i)'
        BY <1>3 DEF LastingStep
    <2>2. ASSUME i \in Present'
          PROVE  Whole(processes[i])'
        <3>1. BindFate(i) /\ i \in Present
            BY <1>3, <2>2 DEF BindStep, LastingStep
        <3>2. Retained(i)
            BY <1>3, <2>2, <3>1 DEF BindFate, ResolvedAnew, Extended, Whole, AllResolved
        <3>3. PICK p \in Process, r \in Process : p = processes[i] /\ r = processes'[i]
            BY <1>1, <1>2, <2>2, <3>1
        <3>4. SameBindings(p, r) /\ Whole(p)
            BY <1>3, <3>1, <3>2, <3>3 DEF Retained
        <3>5. Whole(r)'
            BY <3>4, WholeLasts
        <3>. QED  BY <3>3, <3>5, WholeEntry
    <2>. QED  BY <2>1, <2>2
<1>4. CASE Listed(i) /\ ~(rpc = "restart" /\ rpc' \notin Scheduling /\ i \notin todo')
    BY <1>3, <1>4 DEF DepInv
<1>5. CASE i \in Present /\ Spawned(processes[i]) /\ rpc # "restart"
    BY <1>3, <1>5 DEF DepInv, IdInv, IdsUsed
<1>6. CASE Ready(i)
    <2>1. /\ i \in Present /\ i \in Present' /\ rpc = "check" /\ BindFate(i)
          /\ ~ResolvedAnew(i)
        <3>1. i \in Present' /\ rpc = "check" /\ BindFate(i)
            BY <1>6 DEF Ready, CheckWaiting, In, BindStep
        <3>2. i \in Present
            BY <1>6 DEF Ready, CheckWaiting, Present
        <3>. QED  BY <3>1, <3>2 DEF ResolvedAnew
    <2>2. PICK p \in Process, r \in Process : p = processes[i] /\ r = processes'[i]
        BY <1>1, <1>2, <2>1
    <2>3. Partial(p) /\ IdsUsed /\ SameBindings(r, r)
        BY <2>1, <2>2 DEF DepInv, IdInv, SameBindings
    <2>4. Partial(r)
        <3>1. CASE Retained(i)
            BY <2>2, <2>3, <3>1 DEF Retained, SameBindings, Partial, Matchings, Matching,
                                    Apart, Lasts
        <3>2. CASE Extended(i)
            BY <2>2, <2>3, <3>2, ExtendedPartial DEF Extended
        <3>. QED  BY <2>1, <3>1, <3>2 DEF BindFate
    <2>5. AllResolved(r) /\ AllRunning(r.resolved_deps)
        BY <1>6, <2>2 DEF Ready
    <2>6. Whole(r)'
        BY <2>3, <2>4, <2>5, RunningWhole, WholeLasts
    <2>7. Used(i)'
        BY <2>1 DEF IdInv, IdsUsed, LastingStep, Present
    <2>. QED  BY <2>2, <2>6, <2>7, WholeEntry
<1>. QED  BY <1>4, <1>5, <1>6, ListedBefore

LEMMA DepInitial == Init => DepInv
BY DEF Init, TableInit, ReaperInit, DepInv, Present, Listed, Found, NoneExited, Scheduling

LEMMA DepInductive ==
    ASSUME NoRestart, AllMayBeKilled, LInv, DepInv, [Next]_vars
    PROVE  DepInv'
<1>1. LInv'
    BY LInvInductive
<1>2. IdStep /\ ListStep /\ FoundStep /\ SpawnListStep
    BY NSteps, EveryFoundStep, EverySpawnListStep DEF LInv, NInv, IInv
<1>3. BindStep
    BY EveryBindStep DEF LInv, PhaseInv
<1>4. LastingStep
    BY <1>2, <1>3, EveryLastingStep DEF LInv, NInv, IInv
<1>5. TypeInv'
    BY <1>1 DEF LInv, NInv, IInv
<1>6. \A i \in Present' : /\ Partial(processes[i])'
                          /\ Spawned(processes'[i]) => Whole(processes[i])'
    BY <1>3, <1>4, <1>5, PartialInductive
<1>7. \A i \in ProcessId : Listed(i)' =>
         Used(i)' /\ (i \in Present' => Whole(processes[i])')
    BY <1>2, <1>3, <1>4, <1>5, ListedInductive
<1>. QED  BY <1>6, <1>7 DEF DepInv, Spawned

\* Without restart(), and where every process may be killed, a process that
\* has been spawned has as many bindings as dependencies and, while the
\* processes they name are all still there, one for each of them.
THEOREM DependenciesAreBound ==
    ASSUME NoRestart, AllMayBeKilled
    PROVE  Spec => []DependenciesBound
<1>1. Init => LInv /\ DepInv
    BY NInitial, ReportInitial, OverInitial, PhaseInitial, DepInitial DEF LInv
<1>2. LInv /\ DepInv /\ [Next]_vars => LInv' /\ DepInv'
    BY LInvInductive, DepInductive
<1>3. LInv /\ DepInv => DependenciesBound
    <2>1. SUFFICES ASSUME LInv, DepInv,
                          NEW i \in InState({"Starting", "Running", "Stopping"})
                   PROVE  LET p == processes[i] IN
                          /\ Len(p.resolved_deps) = Len(p.config.depends_on)
                          /\ (\A k \in DOMAIN p.resolved_deps : p.resolved_deps[k] \in Present)
                               => Unresolved(p) = {}
        BY DEF DependenciesBound
    <2>2. i \in Present /\ processes[i] \in Process
        BY <2>1, PresentProcess DEF InState, LInv, NInv, IInv, TypeInv
    <2>3. Spawned(processes[i])
        BY <2>1, <2>2, MatchesConsistent
        DEF InState, LInv, NInv, ListInv, Consistent, Spawned
    <2>4. Whole(processes[i])
        BY <2>1, <2>2, <2>3 DEF DepInv
    <2>. QED  BY <2>2, <2>4, WholeBinds DEF Whole
<1>. QED  BY <1>1, <1>2, <1>3, PTL DEF Spec

-----------------------------------------------------------------------------
(* Recursion, as far as detect_cycle() needs it.                           *)

\* Induction, on the set of the numbers a fact holds for.
LEMMA EveryNumber ==
    ASSUME NEW T, 0 \in T, \A n \in Nat : n \in T => n + 1 \in T
    PROVE  Nat \subseteq T
<1>. DEFINE others == Nat \ T
<1>. SUFFICES ASSUME others # {}
              PROVE  FALSE
    OBVIOUS
<1>1. PICK n \in others : \A m \in others : ~(<<m, n>> \in OpToRel(<, Nat))
    BY NatLessThanWellFounded, WFMin, others \subseteq Nat, Zenon
<1>2. n \in Nat /\ n # 0 /\ n - 1 \in Nat
    OBVIOUS
<1>3. n - 1 \in T
    <2>1. <<n - 1, n>> \in OpToRel(<, Nat)
        BY <1>2 DEF OpToRel
    <2>. QED  BY <1>1, <1>2, <2>1
<1>. QED  BY <1>2, <1>3

\* A loop of n rounds has a course: the values after each of them.
LEMMA CourseExists ==
    ASSUME NEW S, NEW b \in S, NEW n \in Nat, NEW step \in [(1 .. n) \X S -> S]
    PROVE  \E a \in [0 .. n -> S] :
               a[0] = b /\ \A k \in 1 .. n : a[k] = step[<<k, a[k - 1]>>]
<1>. DEFINE Course(a, m) ==
                /\ a \in [0 .. m -> S] /\ a[0] = b
                /\ \A k \in 1 .. m : a[k] = step[<<k, a[k - 1]>>]
            T == {m \in Nat : m <= n => \E a : Course(a, m)}
<1>1. 0 \in T
    <2>1. Course([k \in 0 .. 0 |-> b], 0)
        OBVIOUS
    <2>. HIDE DEF Course
    <2>. QED  BY <2>1
<1>2. ASSUME NEW m \in Nat, m \in T
      PROVE  m + 1 \in T
    <2>. SUFFICES ASSUME m + 1 <= n
                  PROVE  \E a : Course(a, m + 1)
        OBVIOUS
    <2>1. PICK a : Course(a, m)
        BY <1>2
    <2>. DEFINE c == [k \in 0 .. m + 1 |-> IF k = m + 1 THEN step[<<m + 1, a[m]>>]
                                           ELSE a[k]]
    <2>2. a[m] \in S /\ <<m + 1, a[m]>> \in (1 .. n) \X S
        BY <2>1
    <2>3. \A k \in 0 .. m : c[k] = a[k]
        OBVIOUS
    <2>4. c[m + 1] = step[<<m + 1, a[m]>>] /\ c[m + 1] \in S
        BY <2>2
    <2>5. c \in [0 .. m + 1 -> S] /\ c[0] = b
        BY <2>1, <2>2, <2>3, <2>4
    <2>6. ASSUME NEW k \in 1 .. m + 1
          PROVE  c[k] = step[<<k, c[k - 1]>>]
        <3>. HIDE DEF c
        <3>1. CASE k = m + 1
            BY <3>1, <2>3, <2>4, (m + 1) - 1 = m, m \in 0 .. m
        <3>2. CASE k # m + 1
            BY <3>2, <2>1, <2>3, k \in 1 .. m, k - 1 \in 0 .. m
        <3>. QED  BY <3>1, <3>2
    <2>7. Course(c, m + 1)
        BY <2>5, <2>6
    <2>. QED  BY <2>7
<1>3. n \in T
    BY <1>1, <1>2, EveryNumber
<1>. QED  BY <1>3

\* And one only.
LEMMA CourseUnique ==
    ASSUME NEW n \in Nat, NEW a, NEW c,
           a = [k \in 0 .. n |-> a[k]], c = [k \in 0 .. n |-> c[k]], a[0] = c[0],
           \A k \in 1 .. n : a[k - 1] = c[k - 1] => a[k] = c[k]
    PROVE  a = c
<1>. DEFINE T == {m \in Nat : m <= n => a[m] = c[m]}
<1>1. 0 \in T
    OBVIOUS
<1>2. ASSUME NEW m \in Nat, m \in T
      PROVE  m + 1 \in T
    <2>1. m + 1 <= n => m <= n /\ m + 1 \in 1 .. n /\ (m + 1) - 1 = m
        OBVIOUS
    <2>. QED  BY <1>2, <2>1
<1>3. Nat \subseteq T
    <2>. HIDE DEF T
    <2>. QED  BY <1>1, <1>2, EveryNumber
<1>4. \A k \in 0 .. n : a[k] = c[k]
    BY <1>3
<1>5. [k \in 0 .. n |-> a[k]] = [k \in 0 .. n |-> c[k]]
    BY <1>4
<1>. QED  BY <1>5

-----------------------------------------------------------------------------
(* dfs_cycle() is well defined: it calls itself with a longer path only.   *)

Graphs == [Labels -> Seq(DependencyRef)]

Results == [cycle : BOOLEAN, visited : SUBSET Labels]

PathOf(at) == at.path_labels \cup {at.label}

\* The calls a call may make.
Deeper(at) == {x \in Searches : x.path_labels = PathOf(at) /\ x.label \notin PathOf(at)}

Answers(dfs, at) == \A x \in Deeper(at) : dfs[x] \in Results

\* What Rounds chooses.
After(g, dfs, at, a, k) ==
    IF k = 0 THEN [cycle |-> FALSE, visited |-> at.visited]
    ELSE Follow(dfs, PathOf(at), a[k - 1], g[at.label][k])

IsRounds(g, dfs, at, a) ==
    a = [k \in 0 .. Len(g[at.label]) |-> After(g, dfs, at, a, k)]

LEMMA RoundsChosen ==
    ASSUME NEW g, NEW dfs, NEW at
    PROVE  Rounds(g, dfs, at) = CHOOSE a : IsRounds(g, dfs, at, a)
BY Zenon DEF Rounds, IsRounds, After, PathOf

LEMMA FollowResult ==
    ASSUME NEW dfs, NEW at \in Searches, Answers(dfs, at), NEW b \in Results,
           NEW d \in DependencyRef
    PROVE  Follow(dfs, PathOf(at), b, d) \in Results
<1>. DEFINE x == [label |-> d.target, path_labels |-> PathOf(at), visited |-> b.visited]
<1>1. CASE d.kind = "Id"
    BY <1>1 DEF Follow
<1>2. CASE d.kind # "Id"
    <2>1. d.target \in Labels
        BY <1>2 DEF DependencyRef
    <2>2. d.target \notin PathOf(at) => x \in Deeper(at)
        BY <2>1 DEF Deeper, Searches, PathOf, Results
    <2>3. [b EXCEPT !.cycle = TRUE] \in Results
        BY DEF Results
    <2>. QED  BY <1>2, <2>2, <2>3 DEF Follow, Answers
<1>. QED  BY <1>1, <1>2

LEMMA GraphEntry ==
    ASSUME NEW g \in Graphs, NEW at \in Searches
    PROVE  /\ Len(g[at.label]) \in Nat
           /\ \A k \in 1 .. Len(g[at.label]) : g[at.label][k] \in DependencyRef
<1>1. g[at.label] \in Seq(DependencyRef)
    BY DEF Graphs, Searches
<1>. QED  BY <1>1

LEMMA RoundsExist ==
    ASSUME NEW g \in Graphs, NEW dfs, NEW at \in Searches, Answers(dfs, at)
    PROVE  \E a \in [0 .. Len(g[at.label]) -> Results] : IsRounds(g, dfs, at, a)
<1>. DEFINE n == Len(g[at.label])
            b == [cycle |-> FALSE, visited |-> at.visited]
            step == [x \in (1 .. n) \X Results |->
                        Follow(dfs, PathOf(at), x[2], g[at.label][x[1]])]
<1>1. n \in Nat /\ b \in Results
    BY GraphEntry DEF Searches, Results
<1>2. step \in [(1 .. n) \X Results -> Results]
    BY GraphEntry, FollowResult
<1>3. PICK a \in [0 .. n -> Results] :
          a[0] = b /\ \A k \in 1 .. n : a[k] = step[<<k, a[k - 1]>>]
    <2>1. \A m \in Nat, c \in Results : \A s \in [(1 .. m) \X Results -> Results] :
              \E a \in [0 .. m -> Results] :
                  a[0] = c /\ \A k \in 1 .. m : a[k] = s[<<k, a[k - 1]>>]
        BY CourseExists
    <2>. HIDE DEF n, b, step
    <2>. QED  BY <1>1, <1>2, <2>1
<1>4. ASSUME NEW k \in 1 .. n
      PROVE  a[k] = Follow(dfs, PathOf(at), a[k - 1], g[at.label][k])
    <2>1. a[k - 1] \in Results
        BY <1>1, <1>3
    <2>. QED  BY <1>3, <2>1
<1>5. IsRounds(g, dfs, at, a)
    <2>1. a = [k \in 0 .. n |-> a[k]]
        BY <1>3
    <2>2. \A k \in 0 .. n : a[k] = After(g, dfs, at, a, k)
        BY <1>1, <1>3, <1>4 DEF After
    <2>. QED  BY <2>1, <2>2 DEF IsRounds
<1>. QED  BY <1>5

LEMMA RoundsEntries ==
    ASSUME NEW g, NEW dfs, NEW at, NEW a, IsRounds(g, dfs, at, a)
    PROVE  \A k \in 0 .. Len(g[at.label]) : a[k] = After(g, dfs, at, a, k)
BY Zenon DEF IsRounds

LEMMA RoundsUnique ==
    ASSUME NEW g \in Graphs, NEW dfs, NEW at \in Searches, NEW a, NEW c,
           IsRounds(g, dfs, at, a), IsRounds(g, dfs, at, c)
    PROVE  a = c
<1>. DEFINE n == Len(g[at.label])
<1>1. n \in Nat
    BY GraphEntry
<1>2. ASSUME NEW x, IsRounds(g, dfs, at, x)
      PROVE  /\ x = [k \in 0 .. n |-> x[k]]
             /\ x[0] = [cycle |-> FALSE, visited |-> at.visited]
             /\ \A k \in 1 .. n :
                   x[k] = Follow(dfs, PathOf(at), x[k - 1], g[at.label][k])
    <2>1. \A k \in 0 .. n : x[k] = After(g, dfs, at, x, k)
        BY <1>2, RoundsEntries
    <2>2. x = [k \in 0 .. n |-> x[k]]
        BY <1>2 DEF IsRounds
    <2>. HIDE DEF n
    <2>3. 0 \in 0 .. n /\ \A k \in 1 .. n : k \in 0 .. n /\ k # 0
        BY <1>1
    <2>4. /\ x[0] = [cycle |-> FALSE, visited |-> at.visited]
          /\ \A k \in 1 .. n : x[k] = Follow(dfs, PathOf(at), x[k - 1], g[at.label][k])
        BY <2>1, <2>3, Zenon DEF After
    <2>. QED  BY <2>2, <2>4, Zenon
<1>. HIDE DEF n
<1>3. a[0] = c[0] /\ \A k \in 1 .. n : a[k - 1] = c[k - 1] => a[k] = c[k]
    BY <1>2
<1>. QED  BY <1>1, <1>2, <1>3, CourseUnique

LEMMA RoundsValue ==
    ASSUME NEW g \in Graphs, NEW dfs, NEW at \in Searches, Answers(dfs, at)
    PROVE  /\ Rounds(g, dfs, at) \in [0 .. Len(g[at.label]) -> Results]
           /\ IsRounds(g, dfs, at, Rounds(g, dfs, at))
<1>1. PICK a \in [0 .. Len(g[at.label]) -> Results] : IsRounds(g, dfs, at, a)
    BY RoundsExist
<1>2. IsRounds(g, dfs, at, Rounds(g, dfs, at))
    BY <1>1, RoundsChosen, Zenon
<1>. QED  BY <1>1, <1>2, RoundsUnique

\* What holds before the first round, and after a round if before it.
LEMMA RoundsAll ==
    ASSUME NEW g \in Graphs, NEW dfs, NEW at \in Searches, Answers(dfs, at),
           NEW P \in [0 .. Len(g[at.label]) -> SUBSET Results],
           [cycle |-> FALSE, visited |-> at.visited] \in P[0],
           \A k \in 1 .. Len(g[at.label]) : \A b \in P[k - 1] :
               Follow(dfs, PathOf(at), b, g[at.label][k]) \in P[k]
    PROVE  \A k \in 0 .. Len(g[at.label]) : Rounds(g, dfs, at)[k] \in P[k]
<1>. DEFINE n == Len(g[at.label])
            a == Rounds(g, dfs, at)
            T == {m \in Nat : m <= n => a[m] \in P[m]}
<1>1. n \in Nat
    BY GraphEntry
<1>2. \A m \in 0 .. n : a[m] = After(g, dfs, at, a, m)
    BY RoundsValue, RoundsEntries
<1>. HIDE DEF n, a
<1>3. 0 \in T
    BY <1>1, <1>2, 0 \in 0 .. n DEF After
<1>4. ASSUME NEW m \in Nat, m \in T
      PROVE  m + 1 \in T
    <2>. SUFFICES ASSUME m + 1 <= n
                  PROVE  a[m + 1] \in P[m + 1]
        OBVIOUS
    <2>1. m + 1 \in 1 .. n /\ m + 1 \in 0 .. n /\ (m + 1) - 1 = m /\ m + 1 # 0
        BY <1>1
    <2>2. a[m] \in P[(m + 1) - 1]
        BY <1>1, <1>4, <2>1
    <2>3. a[m + 1] = Follow(dfs, PathOf(at), a[m], g[at.label][m + 1])
        BY <1>2, <2>1 DEF After
    <2>. QED  BY <2>1, <2>2, <2>3 DEF n
<1>5. Nat \subseteq T
    <2>. HIDE DEF T
    <2>. QED  BY <1>3, <1>4, EveryNumber
<1>. QED  BY <1>1, <1>5 DEF n, a

\* The rounds depend on what the deeper calls return, and on nothing else.
LEMMA RoundsSame ==
    ASSUME NEW g \in Graphs, NEW dfs, NEW e, NEW at \in Searches, Answers(dfs, at),
           \A x \in Deeper(at) : e[x] = dfs[x]
    PROVE  Rounds(g, e, at) = Rounds(g, dfs, at)
<1>. DEFINE a == Rounds(g, dfs, at)
            n == Len(g[at.label])
<1>1. a \in [0 .. n -> Results] /\ IsRounds(g, dfs, at, a) /\ n \in Nat
    BY RoundsValue, GraphEntry
<1>2. Answers(e, at)
    BY DEF Answers
<1>3. ASSUME NEW b \in Results, NEW d \in DependencyRef
      PROVE  Follow(e, PathOf(at), b, d) = Follow(dfs, PathOf(at), b, d)
    <2>. DEFINE x == [label |-> d.target, path_labels |-> PathOf(at), visited |-> b.visited]
    <2>1. d.kind # "Id" /\ d.target \notin PathOf(at) => x \in Deeper(at)
        BY DEF DependencyRef, Deeper, Searches, PathOf, Results
    <2>. QED  BY <2>1 DEF Follow
<1>4. ASSUME NEW k \in 1 .. n
      PROVE  Follow(e, PathOf(at), a[k - 1], g[at.label][k])
                = Follow(dfs, PathOf(at), a[k - 1], g[at.label][k])
    <2>1. a[k - 1] \in Results
        BY <1>1
    <2>2. g[at.label][k] \in DependencyRef
        BY GraphEntry
    <2>. HIDE DEF a, n
    <2>. QED  BY <1>3, <2>1, <2>2
<1>5. IsRounds(g, e, at, a)
    <2>. HIDE DEF a
    <2>1. \A k \in 0 .. n : k # 0 => k \in 1 .. n
        BY <1>1
    <2>. QED  BY <1>1, <1>4, <2>1 DEF IsRounds, After
<1>. QED  BY <1>2, <1>5, RoundsValue, RoundsUnique

\* What a call returns.
Look(g, dfs, at) ==
    [Rounds(g, dfs, at)[Len(g[at.label])] EXCEPT !.visited = @ \cup {at.label}]

LEMMA VisitResult ==
    ASSUME NEW g \in Graphs, NEW dfs, NEW at \in Searches, Answers(dfs, at)
    PROVE  Look(g, dfs, at) \in Results
<1>1. Rounds(g, dfs, at)[Len(g[at.label])] \in Results
    BY RoundsValue, GraphEntry
<1>. QED  BY <1>1 DEF Look, Results, Searches

LEMMA VisitSame ==
    ASSUME NEW g \in Graphs, NEW dfs, NEW e, NEW at \in Searches, Answers(dfs, at),
           \A x \in Deeper(at) : e[x] = dfs[x]
    PROVE  Look(g, e, at) = Look(g, dfs, at)
BY RoundsSame, Zenon DEF Look

\* The calls that have fewer than n labels left to go on to.
Left(at) == Labels \ PathOf(at)

Within(n) == {at \in Searches : Cardinality(Left(at)) < n}

LEMMA Shallower ==
    ASSUME IsFiniteSet(Labels), NEW n \in Nat, NEW at \in Within(n + 1), NEW x \in Deeper(at)
    PROVE  x \in Within(n)
<1>1. Left(x) = Left(at) \ {x.label} /\ x.label \in Left(at) /\ x \in Searches
    BY DEF Left, PathOf, Deeper, Searches
<1>2. IsFiniteSet(Left(at)) /\ Cardinality(Left(at)) \in Nat
    BY FS_Difference, FS_CardinalityType DEF Left
<1>3. Cardinality(Left(x)) = Cardinality(Left(at)) - 1
    BY <1>1, <1>2, FS_RemoveElement
<1>4. Cardinality(Left(at)) < n + 1
    BY DEF Within
<1>5. Cardinality(Left(x)) < n
    BY <1>2, <1>3, <1>4
<1>. QED  BY <1>1, <1>5 DEF Within

LEMMA WithinAll ==
    ASSUME IsFiniteSet(Labels)
    PROVE  /\ Within(0) = {}
           /\ Cardinality(Labels) + 1 \in Nat
           /\ Within(Cardinality(Labels) + 1) = Searches
<1>1. ASSUME NEW at \in Searches
      PROVE  Cardinality(Left(at)) \in Nat /\ Cardinality(Left(at)) <= Cardinality(Labels)
    BY FS_Difference, FS_CardinalityType, FS_Subset DEF Left
<1>. QED  BY <1>1, FS_CardinalityType DEF Within

\* A function that is right about them.
Solves(g, f, n) ==
    /\ f \in [Within(n) -> Results]
    /\ \A at \in Within(n) : f[at] = Look(g, f, at)

LEMMA Extendable ==
    ASSUME IsFiniteSet(Labels), NEW g \in Graphs, NEW n \in Nat, NEW f, Solves(g, f, n)
    PROVE  \E e : Solves(g, e, n + 1)
<1>. DEFINE e == [at \in Within(n + 1) |-> Look(g, f, at)]
<1>1. ASSUME NEW at \in Within(n + 1)
      PROVE  at \in Searches /\ Answers(f, at)
    BY Shallower DEF Solves, Answers, Within
<1>2. e \in [Within(n + 1) -> Results]
    BY <1>1, VisitResult
<1>3. ASSUME NEW at \in Within(n + 1)
      PROVE  Look(g, e, at) = Look(g, f, at)
    <2>1. ASSUME NEW x \in Deeper(at)
          PROVE  e[x] = f[x]
        <3>1. x \in Within(n)
            BY Shallower
        <3>2. x \in Within(n + 1)
            <4>1. x \in Searches /\ Cardinality(Left(x)) < n
                BY <3>1 DEF Within
            <4>2. Cardinality(Left(x)) \in Nat
                BY FS_CardinalityType, FS_Difference DEF Left
            <4>3. Cardinality(Left(x)) < n + 1
                BY <4>1, <4>2
            <4>. QED  BY <4>1, <4>3 DEF Within
        <3>. QED  BY <3>1, <3>2 DEF Solves
    <2>. HIDE DEF e
    <2>. QED  BY <1>1, <2>1, VisitSame
<1>4. Solves(g, e, n + 1)
    <2>1. \A at \in Within(n + 1) : e[at] = Look(g, e, at)
        BY <1>3
    <2>. HIDE DEF e
    <2>. QED  BY <1>2, <2>1 DEF Solves
<1>. QED  BY <1>4

\* The function dfs_cycle() is meant to be.
Searching(g, dfs) == dfs = [at \in Searches |-> Look(g, dfs, at)]

LEMMA SearchExists ==
    ASSUME IsFiniteSet(Labels), NEW g \in Graphs
    PROVE  \E dfs : Searching(g, dfs)
<1>. DEFINE T == {n \in Nat : \E f : Solves(g, f, n)}
<1>1. 0 \in T
    <2>1. Solves(g, [at \in {} |-> [cycle |-> FALSE, visited |-> {}]], 0)
        BY WithinAll DEF Solves
    <2>. QED  BY <2>1
<1>2. \A n \in Nat : n \in T => n + 1 \in T
    BY Extendable
<1>3. Nat \subseteq T
    <2>. HIDE DEF T
    <2>. QED  BY <1>1, <1>2, EveryNumber
<1>4. PICK f : Solves(g, f, Cardinality(Labels) + 1)
    BY <1>3, WithinAll
<1>. QED  BY <1>4, WithinAll DEF Solves, Searching

LEMMA SearchDefined ==
    ASSUME IsFiniteSet(Labels), NEW g \in Graphs
    PROVE  Searching(g, dfs_cycle(g))
<1>1. dfs_cycle(g) = CHOOSE dfs : Searching(g, dfs)
    BY Zenon DEF dfs_cycle, Searching, Look
<1>. QED  BY <1>1, SearchExists, Zenon

-----------------------------------------------------------------------------
(* What a search that meets no cycle has found.                            *)

\* The labels a process of label l needs, as the snapshot has it.
Needed(g, l) ==
    {g[l][k].target : k \in {j \in DOMAIN g[l] : g[l][j].kind # "Id"}}

Closed(g, S) == \A l \in S : Needed(g, l) \subseteq S

\* Labels each of which needs one of them.
Circle(g, C) == C # {} /\ \A l \in C : Needed(g, l) \cap C # {}

CircleFree(g, S) == \A C \in SUBSET S : ~Circle(g, C)

Begun(g, at) ==
    /\ at.label \notin at.path_labels
    /\ at.visited \cap PathOf(at) = {}
    /\ Closed(g, at.visited) /\ CircleFree(g, at.visited)

\* All that was reached is visited, and it leads to nothing on the path.
Ended(g, at, r) ==
    /\ at.visited \cup {at.label} \subseteq r.visited
    /\ r.visited \cap at.path_labels = {}
    /\ Closed(g, r.visited) /\ CircleFree(g, r.visited)

Sound(g, dfs, at) ==
    /\ dfs[at] \in Results
    /\ Begun(g, at) /\ ~dfs[at].cycle => Ended(g, at, dfs[at])

Course(g, at, k, r) ==
    /\ at.visited \subseteq r.visited
    /\ r.visited \cap PathOf(at) = {}
    /\ Closed(g, r.visited) /\ CircleFree(g, r.visited)
    /\ \A j \in 1 .. k : g[at.label][j].kind # "Id" => g[at.label][j].target \in r.visited

LEMMA RoundSound ==
    ASSUME NEW g \in Graphs, NEW dfs, NEW at \in Searches,
           \A x \in Deeper(at) : Sound(g, dfs, x),
           NEW k \in 1 .. Len(g[at.label]), NEW b \in Results, NEW r,
           r = Follow(dfs, PathOf(at), b, g[at.label][k]),
           ~r.cycle, ~b.cycle => Course(g, at, k - 1, b)
    PROVE  Course(g, at, k, r)
<1>. DEFINE d == g[at.label][k]
            x == [label |-> d.target, path_labels |-> PathOf(at), visited |-> b.visited]
<1>1. d \in DependencyRef /\ k \in Nat /\ \A j \in 1 .. k : j = k \/ j \in 1 .. (k - 1)
    BY GraphEntry
<1>2. ~b.cycle
    BY DEF Follow
<1>3. CASE r = b /\ (d.kind # "Id" => d.target \in b.visited)
    BY <1>1, <1>2, <1>3 DEF Course
<1>4. CASE d.kind # "Id" /\ d.target \notin PathOf(at) /\ r = dfs[x]
    <2>1. x \in Deeper(at)
        BY <1>1, <1>4 DEF DependencyRef, Deeper, Searches, PathOf, Results
    <2>2. /\ b.visited \cap PathOf(at) = {}
          /\ Closed(g, b.visited) /\ CircleFree(g, b.visited)
        BY <1>2 DEF Course
    <2>3. CASE d.target \in b.visited
        <3>1. r = b
            BY <1>2, <1>4, <2>3 DEF Follow
        <3>. QED  BY <1>3, <2>3, <3>1
    <2>4. CASE d.target \notin b.visited
        <3>1. Begun(g, x)
            BY <1>4, <2>2, <2>4 DEF Begun, PathOf
        <3>2. Ended(g, x, r)
            BY <1>4, <2>1, <3>1 DEF Sound
        <3>3. /\ b.visited \cup {d.target} \subseteq r.visited
              /\ r.visited \cap PathOf(at) = {}
              /\ Closed(g, r.visited) /\ CircleFree(g, r.visited)
            BY <3>2 DEF Ended
        <3>. QED  BY <1>1, <1>2, <3>3 DEF Course
    <2>. QED  BY <2>3, <2>4
<1>5. \/ r = b /\ (d.kind # "Id" => d.target \in b.visited)
      \/ d.kind # "Id" /\ d.target \notin PathOf(at) /\ r = dfs[x]
    <2>1. d.target \in PathOf(at) /\ d.kind # "Id" => r.cycle
        BY <1>2 DEF Follow, Results
    <2>. QED  BY <1>2, <2>1 DEF Follow
<1>. HIDE DEF d, x
<1>. QED  BY <1>3, <1>4, <1>5

LEMMA RoundsSound ==
    ASSUME NEW g \in Graphs, NEW dfs, NEW at \in Searches, Begun(g, at),
           \A x \in Deeper(at) : Sound(g, dfs, x),
           NEW k \in 0 .. Len(g[at.label]), ~Rounds(g, dfs, at)[k].cycle
    PROVE  Course(g, at, k, Rounds(g, dfs, at)[k])
<1>. DEFINE n == Len(g[at.label])
            P == [m \in 0 .. n |-> {r \in Results : ~r.cycle => Course(g, at, m, r)}]
<1>1. Answers(dfs, at) /\ n \in Nat
    BY GraphEntry DEF Answers, Sound
<1>2. [cycle |-> FALSE, visited |-> at.visited] \in P[0]
    <2>. DEFINE b == [cycle |-> FALSE, visited |-> at.visited]
    <2>1. b \in Results /\ b.visited = at.visited
        BY DEF Results, Searches
    <2>. HIDE DEF b
    <2>2. Course(g, at, 0, b)
        BY <2>1 DEF Course, Begun
    <2>3. 0 \in 0 .. n
        BY <1>1
    <2>4. b \in P[0]
        BY <2>1, <2>2, <2>3
    <2>. QED  BY <2>4 DEF b
<1>3. ASSUME NEW m \in 1 .. n, NEW b \in P[m - 1]
      PROVE  Follow(dfs, PathOf(at), b, g[at.label][m]) \in P[m]
    <2>1. PICK r \in Results : r = Follow(dfs, PathOf(at), b, g[at.label][m])
        BY <1>1, FollowResult, GraphEntry
    <2>2. b \in Results /\ (~b.cycle => Course(g, at, m - 1, b))
        BY <1>1
    <2>3. ~r.cycle => Course(g, at, m, r)
        BY <2>1, <2>2, RoundSound
    <2>. QED  BY <2>1, <2>3
<1>4. P \in [0 .. n -> SUBSET Results]
    OBVIOUS
<1>5. Rounds(g, dfs, at)[k] \in P[k]
    <2>. HIDE DEF P
    <2>. QED  BY <1>1, <1>2, <1>3, <1>4, RoundsAll
<1>. QED  BY <1>5

LEMMA NeededEntries ==
    ASSUME NEW g \in Graphs, NEW l \in Labels, NEW S,
           \A j \in 1 .. Len(g[l]) : g[l][j].kind # "Id" => g[l][j].target \in S
    PROVE  Needed(g, l) \subseteq S
<1>1. DOMAIN g[l] = 1 .. Len(g[l])
    BY DEF Graphs
<1>. QED  BY <1>1 DEF Needed

\* A label that needs only such as cannot need it is on no circle.
LEMMA OneMoreLabel ==
    ASSUME NEW g, NEW S, NEW l, Closed(g, S), CircleFree(g, S), l \notin S,
           Needed(g, l) \subseteq S
    PROVE  CircleFree(g, S \cup {l})
<1>1. SUFFICES ASSUME NEW C \in SUBSET (S \cup {l}), Circle(g, C)
               PROVE  FALSE
    BY DEF CircleFree
<1>. DEFINE D == C \ {l}
<1>2. D \in SUBSET S
    OBVIOUS
<1>3. \A m \in D : Needed(g, m) \subseteq S /\ Needed(g, m) \cap C # {}
    BY <1>1 DEF Closed, Circle
<1>4. \A m \in D : Needed(g, m) \cap D # {}
    BY <1>3
<1>5. D # {}
    BY <1>1 DEF Circle
<1>. QED  BY <1>2, <1>4, <1>5 DEF CircleFree, Circle

LEMMA VisitSound ==
    ASSUME NEW g \in Graphs, NEW dfs, Searching(g, dfs), NEW at \in Searches,
           \A x \in Deeper(at) : Sound(g, dfs, x)
    PROVE  Sound(g, dfs, at)
<1>. DEFINE n == Len(g[at.label])
            a == Rounds(g, dfs, at)
<1>1. dfs[at] = Look(g, dfs, at) /\ Answers(dfs, at)
    BY DEF Searching, Answers, Sound
<1>2. dfs[at] \in Results
    BY <1>1, VisitResult
<1>3. n \in 0 .. n /\ n \in Nat /\ a[n] \in Results
    BY <1>1, RoundsValue, GraphEntry
<1>4. ASSUME Begun(g, at), ~dfs[at].cycle
      PROVE  Ended(g, at, dfs[at])
    <2>1. dfs[at].cycle = a[n].cycle /\ dfs[at].visited = a[n].visited \cup {at.label}
        BY <1>1, <1>3 DEF Look, Results
    <2>2. Course(g, at, n, a[n])
        BY <1>3, <1>4, <2>1, RoundsSound
    <2>. HIDE DEF a, n
    <2>3. Needed(g, at.label) \subseteq a[n].visited
        BY <2>2, NeededEntries DEF Course, n, Searches
    <2>4. at.label \notin a[n].visited
        BY <2>2 DEF Course, PathOf
    <2>5. CircleFree(g, a[n].visited \cup {at.label})
        BY <2>2, <2>3, <2>4, OneMoreLabel DEF Course
    <2>. QED  BY <1>4, <2>1, <2>2, <2>3, <2>5 DEF Course, Ended, Closed, Begun, PathOf
<1>. QED  BY <1>2, <1>4 DEF Sound

LEMMA SearchSound ==
    ASSUME IsFiniteSet(Labels), NEW g \in Graphs, NEW at \in Searches
    PROVE  Sound(g, dfs_cycle(g), at)
<1>. DEFINE dfs == dfs_cycle(g)
            T == {n \in Nat : \A x \in Within(n) : Sound(g, dfs, x)}
<1>1. Searching(g, dfs)
    BY SearchDefined
<1>. HIDE DEF dfs
<1>2. 0 \in T
    BY WithinAll
<1>3. ASSUME NEW n \in Nat, n \in T, NEW x \in Within(n + 1)
      PROVE  Sound(g, dfs, x)
    <2>1. \A y \in Deeper(x) : Sound(g, dfs, y)
        BY <1>3, Shallower
    <2>. QED  BY <1>1, <2>1, VisitSound DEF Within
<1>4. Nat \subseteq T
    <2>1. \A n \in Nat : n \in T => n + 1 \in T
        BY <1>3
    <2>. HIDE DEF T
    <2>. QED  BY <1>2, <2>1, EveryNumber
<1>. QED  BY <1>4, WithinAll DEF dfs

\* Where no cycle is detected, the labels visited are all that the new
\* process needs, directly or through others, and there is no circle in them.
LEMMA NoCycleDetected ==
    ASSUME IsFiniteSet(Labels), NEW g \in Graphs, NEW c, c.label \in Labels,
           ~detect_cycle(g, c)
    PROVE  \E R \in SUBSET Labels : c.label \in R /\ Closed(g, R) /\ CircleFree(g, R)
<1>. DEFINE at == [label |-> c.label, path_labels |-> {}, visited |-> {}]
            dfs == dfs_cycle(g)
<1>1. at \in Searches /\ Begun(g, at) /\ at.label = c.label
    BY DEF Searches, Begun, PathOf, Closed, CircleFree, Circle
<1>2. ~dfs[at].cycle
    BY DEF detect_cycle
<1>3. Sound(g, dfs, at)
    BY <1>1, SearchSound
<1>. HIDE DEF at, dfs
<1>4. dfs[at] \in Results /\ Ended(g, at, dfs[at])
    BY <1>1, <1>2, <1>3 DEF Sound
<1>. QED  BY <1>1, <1>4 DEF Ended, Results

-----------------------------------------------------------------------------
(* What a search that meets a cycle has found.                             *)

\* All of C can be reached from l.
Reached(g, l, C) == \A R \in SUBSET Labels : l \in R /\ Closed(g, R) => C \subseteq R

CircleFrom(g, l) == \E C \in SUBSET Labels : Circle(g, C) /\ Reached(g, l, C)

\* The path has been followed from l, from each label to one that it needs.
Led(g, l, at) ==
    /\ \A p \in at.path_labels : Needed(g, p) \cap PathOf(at) # {}
    /\ Reached(g, l, PathOf(at))

Justified(g, l, dfs, at) == Led(g, l, at) /\ dfs[at].cycle => CircleFrom(g, l)

LEMMA EntryNeeded ==
    ASSUME NEW g \in Graphs, NEW at \in Searches, NEW k \in 1 .. Len(g[at.label]),
           g[at.label][k].kind # "Id"
    PROVE  g[at.label][k].target \in Needed(g, at.label)
<1>1. DOMAIN g[at.label] = 1 .. Len(g[at.label])
    BY DEF Graphs, Searches
<1>. QED  BY <1>1 DEF Needed

LEMMA RoundJustified ==
    ASSUME NEW g \in Graphs, NEW dfs, NEW at \in Searches, NEW l, Led(g, l, at),
           \A x \in Deeper(at) : Justified(g, l, dfs, x),
           NEW k \in 1 .. Len(g[at.label]), NEW b \in Results,
           Follow(dfs, PathOf(at), b, g[at.label][k]).cycle
    PROVE  b.cycle \/ CircleFrom(g, l)
<1>. DEFINE d == g[at.label][k]
            x == [label |-> d.target, path_labels |-> PathOf(at), visited |-> b.visited]
<1>1. SUFFICES ASSUME ~b.cycle, d.kind # "Id"
               PROVE  CircleFrom(g, l)
    BY DEF Follow
<1>2. d \in DependencyRef /\ d.target \in Needed(g, at.label)
    BY <1>1, GraphEntry, EntryNeeded
<1>3. CASE d.target \in PathOf(at)
    <2>1. Circle(g, PathOf(at))
        BY <1>2, <1>3 DEF Circle, Led, PathOf
    <2>. QED  BY <2>1 DEF CircleFrom, Led, PathOf, Searches
<1>4. CASE d.target \notin PathOf(at)
    <2>1. dfs[x].cycle
        BY <1>1, <1>4 DEF Follow
    <2>2. x \in Deeper(at)
        BY <1>1, <1>2, <1>4 DEF DependencyRef, Deeper, Searches, PathOf, Results
    <2>3. Led(g, l, x)
        <3>1. x.path_labels = PathOf(at) /\ PathOf(x) = PathOf(at) \cup {d.target}
            BY DEF PathOf
        <3>2. \A p \in PathOf(at) : Needed(g, p) \cap PathOf(x) # {}
            BY <1>2, <3>1 DEF Led, PathOf
        <3>3. Reached(g, l, PathOf(x))
            BY <1>2, <3>1 DEF Led, Reached, Closed, PathOf
        <3>. QED  BY <3>1, <3>2, <3>3 DEF Led
    <2>. QED  BY <2>1, <2>2, <2>3 DEF Justified
<1>. QED  BY <1>3, <1>4

LEMMA VisitJustified ==
    ASSUME NEW g \in Graphs, NEW dfs, Searching(g, dfs), NEW at \in Searches,
           Answers(dfs, at), NEW l, \A x \in Deeper(at) : Justified(g, l, dfs, x)
    PROVE  Justified(g, l, dfs, at)
<1>. DEFINE n == Len(g[at.label])
            P == [m \in 0 .. n |-> {r \in Results : r.cycle => CircleFrom(g, l)}]
<1>1. SUFFICES ASSUME Led(g, l, at), dfs[at].cycle
               PROVE  CircleFrom(g, l)
    BY DEF Justified
<1>2. n \in Nat /\ n \in 0 .. n
    BY GraphEntry
<1>3. [cycle |-> FALSE, visited |-> at.visited] \in P[0]
    BY <1>2 DEF Results, Searches
<1>4. ASSUME NEW m \in 1 .. n, NEW b \in P[m - 1]
      PROVE  Follow(dfs, PathOf(at), b, g[at.label][m]) \in P[m]
    <2>1. b \in Results /\ (b.cycle => CircleFrom(g, l))
        BY <1>2
    <2>2. Follow(dfs, PathOf(at), b, g[at.label][m]) \in Results
        BY <2>1, FollowResult, GraphEntry
    <2>3. Follow(dfs, PathOf(at), b, g[at.label][m]).cycle => CircleFrom(g, l)
        BY <1>1, <2>1, RoundJustified
    <2>. QED  BY <2>2, <2>3
<1>5. P \in [0 .. n -> SUBSET Results]
    OBVIOUS
<1>6. Rounds(g, dfs, at)[n] \in P[n]
    <2>. HIDE DEF P
    <2>. QED  BY <1>2, <1>3, <1>4, <1>5, RoundsAll
<1>7. Rounds(g, dfs, at)[n].cycle
    <2>1. dfs[at] = Look(g, dfs, at)
        BY DEF Searching
    <2>2. Rounds(g, dfs, at)[n] \in Results
        BY <1>2, <1>6
    <2>. QED  BY <1>1, <2>1, <2>2 DEF Look, Results
<1>. QED  BY <1>2, <1>6, <1>7

LEMMA SearchJustified ==
    ASSUME IsFiniteSet(Labels), NEW g \in Graphs, NEW l, NEW at \in Searches
    PROVE  Justified(g, l, dfs_cycle(g), at)
<1>. DEFINE dfs == dfs_cycle(g)
            T == {n \in Nat : \A x \in Within(n) : Justified(g, l, dfs, x)}
<1>1. Searching(g, dfs) /\ \A x \in Searches : Answers(dfs, x)
    BY SearchDefined, SearchSound DEF Answers, Sound, Deeper
<1>. HIDE DEF dfs
<1>2. 0 \in T
    BY WithinAll
<1>3. ASSUME NEW n \in Nat, n \in T, NEW x \in Within(n + 1)
      PROVE  Justified(g, l, dfs, x)
    <2>1. \A y \in Deeper(x) : Justified(g, l, dfs, y)
        BY <1>3, Shallower
    <2>. QED  BY <1>1, <2>1, VisitJustified DEF Within
<1>4. Nat \subseteq T
    <2>1. \A n \in Nat : n \in T => n + 1 \in T
        BY <1>3
    <2>. HIDE DEF T
    <2>. QED  BY <1>2, <2>1, EveryNumber
<1>. QED  BY <1>4, WithinAll DEF dfs

\* detect_cycle() is exact: in every graph, with a path of any length, it
\* reports a cycle just when a new process is led, by the labels it needs
\* directly or through others, to labels that need one another.
THEOREM CyclesDetected ==
    ASSUME IsFiniteSet(Labels), NEW g \in Graphs, NEW c, c.label \in Labels
    PROVE  detect_cycle(g, c) <=> CircleFrom(g, c.label)
<1>. DEFINE at == [label |-> c.label, path_labels |-> {}, visited |-> {}]
<1>1. ASSUME detect_cycle(g, c)
      PROVE  CircleFrom(g, c.label)
    <2>1. at \in Searches /\ Led(g, c.label, at)
        BY DEF Searches, Led, Reached, PathOf
    <2>2. dfs_cycle(g)[at].cycle
        BY <1>1 DEF detect_cycle
    <2>. QED  BY <2>1, <2>2, SearchJustified DEF Justified
<1>2. ASSUME ~detect_cycle(g, c)
      PROVE  ~CircleFrom(g, c.label)
    <2>1. PICK R \in SUBSET Labels :
             c.label \in R /\ Closed(g, R) /\ CircleFree(g, R)
        BY <1>2, NoCycleDetected
    <2>. QED  BY <2>1 DEF CircleFrom, Reached, CircleFree
<1>3. detect_cycle(g, c) \in BOOLEAN
    <2>1. at \in Searches
        BY DEF Searches
    <2>. HIDE DEF at
    <2>2. dfs_cycle(g)[at] \in Results
        BY <2>1, SearchSound DEF Sound
    <2>. QED  BY <2>2 DEF detect_cycle, Results, at
<1>. QED  BY <1>1, <1>2, <1>3

-----------------------------------------------------------------------------
(* The configurations in use.                                              *)

\* That of a process in the map, of one in the hands of a call, or of one a
\* call is about to put into the map.
InUse(c) ==
    \/ \E i \in Present : processes[i].config = c
    \/ \E t \in Threads : calls[t].config = c
    \/ \E t \in Threads : \E i \in Held(t) : InHand(t, i).config = c

\* A call goes on with the configuration it has, or takes one from the map.
CarriesOn(t) ==
    /\ \/ calls'[t] = Idle
       \/ /\ calls'[t].pc # "idle"
          /\ \E c : calls'[t].config = c /\ (c = NoProcess \/ InUse(c))
    /\ \A u \in Threads \ {t} : calls'[u] = calls[u]

LEMMA CarriesOnTo ==
    ASSUME TypeInv, NEW t \in Threads, NEW c, Becomes(t, c), c.pc # "idle",
           c.config = NoProcess \/ InUse(c.config)
    PROVE  CarriesOn(t)
BY DEF CarriesOn, Becomes, TypeInv

LEMMA SameConfig ==
    ASSUME NEW t \in Threads
    PROVE  InUse(calls[t].config)
BY DEF InUse

LEMMA ReturnCarriesOn ==
    ASSUME TypeInv, NEW t \in Threads, Return(t)
    PROVE  CarriesOn(t)
BY DEF CarriesOn, Return, Becomes, TypeInv

LEMMA StoppedCarriesOn ==
    ASSUME TypeInv, NEW t \in Threads, NEW s, Stopped(t, s)
    PROVE  CarriesOn(t)
<1>. DEFINE k == calls[t]
            next == [k EXCEPT !.pc = "stop_check", !.cur = Head(s), !.todo = Tail(s),
                              !.nested = TRUE, !.held = NoneHeld]
            last == [k EXCEPT !.pc = "restart_insert", !.nested = FALSE, !.held = NoneHeld]
<1>1. Return(t) \/ Becomes(t, next) \/ Becomes(t, last)
    BY DEF Stopped
<1>2. /\ next.pc = "stop_check" /\ next.config = k.config
      /\ last.pc = "restart_insert" /\ last.config = k.config
    BY CallRecord DEF Call, TypeInv
<1>. HIDE DEF next, last
<1>. QED  BY <1>1, <1>2, SameConfig, ReturnCarriesOn, CarriesOnTo

LEMMA StopFailedCarriesOn ==
    ASSUME TypeInv, NEW t \in Threads, StopFailed(t)
    PROVE  CarriesOn(t)
BY ReturnCarriesOn, StoppedCarriesOn DEF StopFailed

LEMMA RestartedCarriesOn ==
    ASSUME TypeInv, NEW t \in Threads, Restarted(t)
    PROVE  CarriesOn(t)
<1>. DEFINE c == [Idle EXCEPT !.pc = "restart_check", !.op = "restart", !.ids = calls[t].ids]
<1>1. Return(t) \/ Becomes(t, c)
    BY DEF Restarted
<1>2. c.pc = "restart_check" /\ c.config = NoProcess
    BY DEF Idle
<1>. HIDE DEF c
<1>. QED  BY <1>1, <1>2, ReturnCarriesOn, CarriesOnTo

LEMMA StepCarriesOn ==
    ASSUME TypeInv, NEW t \in Threads, Steps(t)
    PROVE  CarriesOn(t)
<1>. DEFINE k == calls[t]
<1>1. k \in Call /\ InUse(k.config)
    BY CallRecord, SameConfig DEF TypeInv
<1>2. CASE StartSpawn(t) \/ AwaitReturn(t) \/ AwaitTimeout(t) \/ StopManyReap(t)
    BY <1>2, ReturnCarriesOn DEF StartSpawn, AwaitReturn, AwaitTimeout, StopManyReap
<1>3. CASE StartWaiting(t) \/ StopEscalate(t) \/ RestartBlocks(t) \/ RestartReset(t)
    <2>1. PICK pc \in {"await_deps", "stop_reap", "restart_wait", "restart_in_place"} :
             Return(t) \/ Becomes(t, [k EXCEPT !.pc = pc]) \/ \E s : Stopped(t, s)
        BY <1>3 DEF StartWaiting, StopEscalate, RestartBlocks, RestartReset
    <2>2. [k EXCEPT !.pc = pc].config = k.config /\ [k EXCEPT !.pc = pc].pc = pc
        BY <1>1 DEF Call
    <2>. QED
        BY <1>1, <2>1, <2>2, ReturnCarriesOn, StoppedCarriesOn, CarriesOnTo
<1>4. CASE StopCheck(t)
    <2>. DEFINE p == processes[k.cur]
                pc == IF p.state = "Restarting" THEN "stop_cancel"
                      ELSE IF p.state = "Waiting" THEN "stop_unqueue" ELSE "stop_remove"
                c == [k EXCEPT !.pc = pc, !.pid = p.pid, !.cascade = p.config.cascade_stop]
    <2>1. StopFailed(t) \/ Becomes(t, c)
        BY <1>4 DEF StopCheck
    <2>2. pc # "idle"
        OBVIOUS
    <2>3. c.config = k.config /\ c.pc = pc
        <3>. HIDE DEF pc
        <3>. QED  BY <1>1 DEF Call
    <2>. HIDE DEF c, pc
    <2>. QED  BY <1>1, <2>1, <2>2, <2>3, StopFailedCarriesOn, CarriesOnTo
<1>5. CASE StopCancel(t) \/ StopUnqueue(t) \/ StopReap(t)
    BY <1>5, StoppedCarriesOn DEF StopCancel, StopUnqueue, StopReap
<1>6. CASE StopRemove(t)
    <2>1. PICK h : \/ StopFailed(t) \/ Stopped(t, k.todo)
                   \/ Becomes(t, [k EXCEPT !.pc = "stop_grace", !.held[k.cur] = h])
        BY <1>6 DEF StopRemove, KillResult
    <2>. DEFINE c == [k EXCEPT !.pc = "stop_grace", !.held[k.cur] = h]
    <2>2. c.config = k.config /\ c.pc = "stop_grace"
        BY <1>1 DEF Call
    <2>. HIDE DEF c
    <2>. QED
        BY <1>1, <2>1, <2>2, StopFailedCarriesOn, StoppedCarriesOn, CarriesOnTo DEF c
<1>7. CASE StopManyRemove(t)
    <2>1. PICK i \in k.ids : LET p == processes[i]
                                 ids == k.ids \ {i}
                                 held == IF p = NoProcess THEN k.held
                                         ELSE IF p.pid = 0 THEN k.held
                                         ELSE [k.held EXCEPT ![i] = p]
             IN \/ Return(t)
                \/ Becomes(t, [k EXCEPT
                       !.pc = IF ids = {} THEN "many_signal" ELSE "many_remove",
                       !.ids = ids, !.held = held])
        BY <1>7 DEF StopManyRemove
    <2>. DEFINE p == processes[i]
                held == IF p = NoProcess THEN k.held
                        ELSE IF p.pid = 0 THEN k.held ELSE [k.held EXCEPT ![i] = p]
                pc == IF k.ids \ {i} = {} THEN "many_signal" ELSE "many_remove"
                c == [k EXCEPT !.pc = pc, !.ids = k.ids \ {i}, !.held = held]
    <2>2. Return(t) \/ Becomes(t, c)
        BY <2>1
    <2>3. pc # "idle"
        OBVIOUS
    <2>4. c.config = k.config /\ c.pc = pc
        <3>. HIDE DEF pc, held
        <3>. QED  BY <1>1 DEF Call
    <2>. HIDE DEF c, pc
    <2>. QED  BY <1>1, <2>2, <2>3, <2>4, ReturnCarriesOn, CarriesOnTo
<1>8. CASE StopManySignal(t) \/ StopManyEscalate(t)
    <2>1. PICK h : \/ Becomes(t, [k EXCEPT !.pc = "many_grace", !.held = h])
                   \/ Becomes(t, [k EXCEPT !.pc = "many_reap", !.held = h])
        BY <1>8 DEF StopManySignal, StopManyEscalate
    <2>2. \A pc : /\ [k EXCEPT !.pc = pc, !.held = h].config = k.config
                  /\ [k EXCEPT !.pc = pc, !.held = h].pc = pc
        BY <1>1 DEF Call
    <2>. QED  BY <1>1, <2>1, <2>2, CarriesOnTo
<1>9. CASE DropStop(t)
    <2>1. PICK ids : Return(t) \/ Becomes(t, [k EXCEPT !.pc = "many_remove", !.ids = ids])
        BY <1>9 DEF DropStop
    <2>2. /\ [k EXCEPT !.pc = "many_remove", !.ids = ids].config = k.config
          /\ [k EXCEPT !.pc = "many_remove", !.ids = ids].pc = "many_remove"
        BY <1>1 DEF Call
    <2>. QED  BY <1>1, <2>1, <2>2, ReturnCarriesOn, CarriesOnTo
<1>10. CASE RestartCheck(t)
    <2>1. PICK i \in k.ids : LET p == processes[i] IN
             IF p = NoProcess THEN Return(t)
             ELSE Becomes(t, [k EXCEPT
                !.pc = IF p.state = "Restarting" THEN "restart_reset" ELSE "stop_check",
                !.id = i, !.cur = i, !.config = p.config, !.ids = @ \ {i}])
        BY <1>10 DEF RestartCheck
    <2>. DEFINE p == processes[i]
                pc == IF p.state = "Restarting" THEN "restart_reset" ELSE "stop_check"
                c == [k EXCEPT !.pc = pc, !.id = i, !.cur = i, !.config = p.config,
                               !.ids = @ \ {i}]
    <2>2. Return(t) \/ (p # NoProcess /\ Becomes(t, c))
        BY <2>1
    <2>3. pc # "idle"
        OBVIOUS
    <2>4. c.config = p.config /\ c.pc = pc
        <3>. HIDE DEF pc, p
        <3>. QED  BY <1>1 DEF Call
    <2>5. i \in ProcessId
        BY <1>1 DEF Call
    <2>6. p # NoProcess => InUse(p.config)
        BY <2>5 DEF InUse, Present
    <2>. HIDE DEF c, pc, p
    <2>. QED  BY <2>2, <2>3, <2>4, <2>6, ReturnCarriesOn, CarriesOnTo
<1>11. CASE RestartInPlace(t) \/ RestartInsert(t)
    BY <1>11, ReturnCarriesOn, RestartedCarriesOn DEF RestartInPlace, RestartInsert
<1>. QED
    BY <1>2, <1>3, <1>4, <1>5, <1>6, <1>7, <1>8, <1>9, <1>10, <1>11 DEF Steps, StepNext

\* start() lets a new process in.
Adds(t, c) ==
    /\ StartCall(t)
    /\ c \in Configs
    /\ c.depends_on # <<>> => \E g \in DependencySnapshots(c) : ~detect_cycle(g, c)
    /\ calls'[t].pc = "start_insert" /\ calls'[t].config = c
    /\ \A u \in Threads \ {t} : calls'[u] = calls[u]

LEMMA CallCarriesOn ==
    ASSUME TypeInv, NEW t \in Threads, Calls(t)
    PROVE  UNCHANGED calls \/ CarriesOn(t) \/ \E c \in Configs : Adds(t, c)
<1>1. CASE StartCall(t)
    <2>1. PICK op \in {"start", "start_with_deps"}, c \in Configs, cycle \in BOOLEAN :
             /\ IF c.depends_on = <<>> THEN cycle = FALSE
                ELSE \E g \in DependencySnapshots(c) : cycle = detect_cycle(g, c)
             /\ IF cycle THEN UNCHANGED calls
                ELSE Becomes(t, [Idle EXCEPT !.pc = "start_insert", !.op = op,
                                             !.id = next_id, !.config = c])
        BY <1>1 DEF StartCall
    <2>. DEFINE n == [Idle EXCEPT !.pc = "start_insert", !.op = op, !.id = next_id,
                                  !.config = c]
    <2>2. n.pc = "start_insert" /\ n.config = c
        BY DEF Idle
    <2>. HIDE DEF n
    <2>3. CASE cycle
        BY <2>1, <2>3
    <2>4. CASE ~cycle
        <3>1. Becomes(t, n)
            BY <2>1, <2>4 DEF n
        <3>2. calls'[t] = n /\ \A u \in Threads \ {t} : calls'[u] = calls[u]
            BY <3>1 DEF Becomes, TypeInv
        <3>3. c.depends_on # <<>> => \E g \in DependencySnapshots(c) : ~detect_cycle(g, c)
            BY <2>1, <2>4
        <3>. QED  BY <1>1, <2>2, <3>2, <3>3 DEF Adds
    <2>. QED  BY <2>3, <2>4
<1>2. CASE StopCall(t)
    <2>1. PICK i \in Present :
            Becomes(t, [Idle EXCEPT !.pc = "stop_check", !.op = "stop", !.id = i, !.cur = i])
        BY <1>2 DEF StopCall
    <2>. DEFINE c == [Idle EXCEPT !.pc = "stop_check", !.op = "stop", !.id = i, !.cur = i]
    <2>2. c.pc = "stop_check" /\ c.config = NoProcess
        BY DEF Idle
    <2>. HIDE DEF c
    <2>. QED  BY <2>1, <2>2, CarriesOnTo DEF c
<1>3. CASE StopManyCall(t) \/ RestartCall(t)
    <2>1. \E ids :
            \/ Becomes(t, [Idle EXCEPT !.pc = "many_remove", !.op = "stop_many", !.ids = ids])
            \/ Becomes(t, [Idle EXCEPT !.pc = "restart_check", !.op = "restart", !.ids = ids])
        BY <1>3 DEF StopManyCall, RestartCall
    <2>2. \A ids :
            /\ [Idle EXCEPT !.pc = "many_remove", !.op = "stop_many", !.ids = ids].pc # "idle"
            /\ [Idle EXCEPT !.pc = "many_remove", !.op = "stop_many", !.ids = ids].config
                 = NoProcess
            /\ [Idle EXCEPT !.pc = "restart_check", !.op = "restart", !.ids = ids].pc # "idle"
            /\ [Idle EXCEPT !.pc = "restart_check", !.op = "restart", !.ids = ids].config
                 = NoProcess
        BY DEF Idle
    <2>. QED  BY <2>1, <2>2, CarriesOnTo
<1>4. CASE DropManager(t)
    <2>. DEFINE c == [Idle EXCEPT !.pc = "drop_join", !.op = "drop"]
    <2>1. Becomes(t, c)
        BY <1>4 DEF DropManager
    <2>2. c.pc = "drop_join" /\ c.config = NoProcess
        BY DEF Idle
    <2>. HIDE DEF c
    <2>. QED  BY <2>1, <2>2, CarriesOnTo
<1>5. CASE Poll(t) \/ \E i \in ProcessId : SendSignal(t, i)
    BY <1>5 DEF Poll, SendSignal
<1>. QED  BY <1>1, <1>2, <1>3, <1>4, <1>5 DEF Calls, CallNext

UseStep ==
    \/ UNCHANGED calls
    \/ \E t \in Threads : CarriesOn(t)
    \/ \E t \in Threads, c \in Configs : Adds(t, c)

LEMMA EveryUseStep ==
    ASSUME TypeInv, [Next]_vars
    PROVE  UseStep
<1>1. ASSUME NEW t \in Threads, Calls(t) \/ Steps(t)
      PROVE  UseStep
    BY <1>1, CallCarriesOn, StepCarriesOn DEF UseStep
<1>2. CASE ReaperNext
    BY <1>2, ReaperUntouched DEF UseStep
<1>3. CASE \/ \E q \in Pid : Exits(q)
           \/ \E i \in ProcessId : BackoffElapses(i) \/ UptimeReached(i) \/ DependencyExpires(i)
           \/ Closes \/ UNCHANGED vars
    BY <1>3 DEF Exits, ChildExits, BackoffElapses, UptimeReached, DependencyExpires,
                Closes, CloseChannel, vars, UseStep
<1>. QED  BY <1>1, <1>2, <1>3 DEF Next

\* A call that is over has let go of everything.
IdleCalls == \A t \in Threads : At(t, "idle") => calls[t] = Idle

LEMMA IdleInductive ==
    ASSUME IdleCalls, UseStep
    PROVE  IdleCalls'
BY DEF IdleCalls, UseStep, CarriesOn, Adds, At

-----------------------------------------------------------------------------
(* No configuration comes into use but by start().                         *)

LEMMA KeptInUse ==
    ASSUME NEW i \in ProcessId, Keeps(i), i \in Present'
    PROVE  InUse(processes'[i].config)
BY DEF Keeps, Carried, SameRecord, Present, InUse

LEMMA ChangedInUse ==
    ASSUME TypeInv, NEW i \in ProcessId, Changes(i)
    PROVE  InUse(processes'[i].config)
<1>1. i \in Present => InUse(processes[i].config) /\ processes[i] \in Process
    BY PresentProcess DEF InUse, TypeInv
<1>2. CASE Respawns(i)
    BY <1>1, <1>2 DEF Respawns
<1>3. CASE Enters(i)
    <2>1. PICK t \in Threads : \E q, deps :
             processes'[i] = NewProcess(calls[t].config, q, next_spawn_sequence, deps)
        BY <1>3 DEF Enters
    <2>2. processes'[i].config = calls[t].config
        BY <2>1 DEF NewProcess
    <2>. QED  BY <2>2, SameConfig
<1>4. CASE Strikes(i) \/ Schedules(i) \/ Requeues(i) \/ Resets(i)
    <2>1. i \in Present /\ \E deps :
             \/ processes'[i] = Flagged(processes[i])
             \/ processes'[i] = Scheduled(processes[i])
             \/ processes'[i] = Requeued(processes[i], deps)
             \/ processes'[i] = Reset(processes[i])
        BY <1>4 DEF Strikes, Schedules, Requeues, Resets
    <2>2. \A p \in Process : /\ Flagged(p).config = p.config
                             /\ Scheduled(p).config = p.config
                             /\ \A deps : Requeued(p, deps).config = p.config
                             /\ Reset(p).config = p.config
        BY DEF Flagged, Scheduled, Requeued, Reset, Process
    <2>. QED  BY <1>1, <2>1, <2>2
<1>. QED  BY <1>2, <1>3, <1>4 DEF Changes

LEMMA PresentInUse ==
    ASSUME TypeInv, RecordStep, NEW i \in Present'
    PROVE  InUse(processes'[i].config)
<1>0. i \in ProcessId
    BY DEF Present
<1>1. CASE Keeps(i)
    BY <1>0, <1>1, KeptInUse
<1>2. CASE Changes(i)
    BY <1>0, <1>2, ChangedInUse
<1>3. ASSUME NEW t \in Threads, NEW S \in SUBSET ProcessId, PutsBack(t, S), i \in S
      PROVE  InUse(processes'[i].config)
    <2>1. i \in Held(t) /\ InHand(t, i) \in Process
        BY <1>3, HeldType DEF PutsBack, InHand, TypeInv
    <2>2. processes'[i].config = InHand(t, i).config
        BY <1>3, <2>1 DEF PutsBack, InHand, Process
    <2>. QED  BY <2>1, <2>2 DEF InUse
<1>. QED  BY <1>0, <1>1, <1>2, <1>3 DEF RecordStep, MapStep, MapKeeps, PutsBack

LEMMA HeldInUse ==
    ASSUME RecordStep, NEW t \in Threads, NEW i \in Held(t)'
    PROVE  InUse(InHand(t, i)'.config)
<1>0. i \in ProcessId /\ calls'[t].held[i] # NoProcess
    BY DEF Held
<1>1. CASE HandKeeps(t, i)
    BY <1>0, <1>1 DEF HandKeeps, SameRecord, Held, InHand, InUse
<1>2. CASE Takes(t, i)
    BY <1>0, <1>2 DEF Takes, SameRecord, InHand, InUse
<1>. QED  BY <1>0, <1>1, <1>2 DEF RecordStep, HandStep, HandsKeep, Takes

\* What start() adds apart, what is in use was so before.
LEMMA UseFrame ==
    ASSUME TypeInv, RecordStep, UseStep, NEW c \in Configs, InUse(c)'
    PROVE  InUse(c) \/ \E t \in Threads : Adds(t, c)
<1>1. CASE \E i \in Present' : processes'[i].config = c
    BY <1>1, PresentInUse
<1>2. CASE \E t \in Threads : \E i \in Held(t)' : InHand(t, i)'.config = c
    BY <1>2, HeldInUse
<1>3. ASSUME NEW t \in Threads, calls'[t].config = c
      PROVE  InUse(c) \/ \E u \in Threads : Adds(u, c)
    <2>1. CASE calls'[t] = calls[t]
        BY <1>3, <2>1 DEF InUse
    <2>2. CASE CarriesOn(t)
        BY <1>3, <2>2, NoProcessAssumption DEF CarriesOn, Idle
    <2>3. ASSUME NEW d \in Configs, Adds(t, d)
          PROVE  Adds(t, c)
        BY <1>3, <2>3 DEF Adds
    <2>. QED  BY <2>1, <2>2, <2>3 DEF UseStep, CarriesOn, Adds
<1>. QED  BY <1>1, <1>2, <1>3 DEF InUse

-----------------------------------------------------------------------------
(* Circles among what is in use.                                           *)

\* Every dependency is on a label.
DependByLabel ==
    \A c \in Configs : \A k \in DOMAIN c.depends_on : c.depends_on[k].kind = "Label"

\* Processes of one label depend on the same.
LabelsAgree ==
    \A c, d \in Configs :
        InUse(c) /\ InUse(d) /\ c.label = d.label => c.depends_on = d.depends_on

\* start() is called when no other call is in progress.
StartsAlone == \A t \in Threads : StartCall(t) => \A u \in Threads : At(u, "idle")

Needs(c, S) ==
    \E k \in DOMAIN c.depends_on :
        c.depends_on[k].kind # "Id" /\ c.depends_on[k].target \in S

Circular(S) == \A l \in S : \E c \in Configs : InUse(c) /\ c.label = l /\ Needs(c, S)

NoCircle == \A S \in SUBSET Labels : S # {} => ~Circular(S)

LEMMA ConfigLists ==
    ASSUME NEW c \in Configs
    PROVE  c.label \in Labels /\ c.depends_on \in Seq(DependencyRef)
BY ConfigsAssumption DEF ProcessConfig

LEMMA SnapshotGraph ==
    ASSUME TypeInv, NEW c \in Configs, NEW g \in DependencySnapshots(c)
    PROVE  g \in Graphs /\ g[c.label] = c.depends_on
<1>1. \A i \in Present : processes[i].config \in Configs
    BY PresentProcess DEF TypeInv, Process
<1>2. \A l \in Labels : g[l] \in Seq(DependencyRef)
    <2>1. <<>> \in Seq(DependencyRef)
        OBVIOUS
    <2>2. \A i \in Present : processes[i].config.depends_on \in Seq(DependencyRef)
        BY <1>1, ConfigLists
    <2>3. \A l \in Labels :
             g[l] \in {<<>>} \cup {processes[i].config.depends_on : i \in Present}
                      \cup {c.depends_on}
        BY DEF DependencySnapshots
    <2>. QED  BY <2>1, <2>2, <2>3, ConfigLists
<1>3. g[c.label] = c.depends_on
    BY ConfigLists DEF DependencySnapshots
<1>. QED  BY <1>2, <1>3 DEF DependencySnapshots, Graphs

LEMMA NeedsNeeded ==
    ASSUME NEW c, NEW g, g[c.label] = c.depends_on, NEW S, NEW R,
           Needed(g, c.label) \subseteq R, Needs(c, S)
    PROVE  Needed(g, c.label) \cap (R \cap S) # {}
BY DEF Needs, Needed

\* While no call is in progress everything in use is in the map.
LEMMA InUseInMap ==
    ASSUME IdleCalls, \A u \in Threads : At(u, "idle"), NEW c \in Configs, InUse(c)
    PROVE  \E i \in Present : processes[i].config = c
<1>1. \A u \in Threads : calls[u].config = NoProcess /\ Held(u) = {}
    BY DEF IdleCalls, Idle, Held, NoneHeld
<1>. QED  BY <1>1, NoProcessAssumption DEF InUse

\* So the snapshot has what it needs.
LEMMA SnapshotOfUse ==
    ASSUME TypeInv, IdleCalls, LabelsAgree, \A u \in Threads : At(u, "idle"),
           NEW c \in Configs, NEW g \in DependencySnapshots(c),
           NEW d \in Configs, InUse(d), d.label # c.label
    PROVE  g[d.label] = d.depends_on
<1>1. PICK i \in Present : processes[i].config = d
    BY InUseInMap
<1>2. i \in Labelled(d.label) /\ d.label \in Labels
    BY <1>1, ConfigLists DEF Labelled
<1>3. PICK j \in Labelled(d.label) : g[d.label] = processes[j].config.depends_on
    BY <1>2 DEF DependencySnapshots
<1>4. j \in Present /\ processes[j].config \in Configs /\ processes[j].config.label = d.label
    BY PresentProcess DEF Labelled, TypeInv, Process
<1>5. InUse(processes[j].config)
    BY <1>4 DEF InUse
<1>. QED  BY <1>3, <1>4, <1>5 DEF LabelsAgree

LEMMA AddedApart ==
    ASSUME TypeInv, RecordStep, UseStep, NEW t \in Threads, NEW c, Adds(t, c),
           NEW d \in Configs, InUse(d)', d # c
    PROVE  InUse(d)
<1>1. SUFFICES ASSUME NEW u \in Threads, Adds(u, d)
               PROVE  InUse(d)
    BY UseFrame
<1>2. u # t /\ calls'[u].config = d
    BY <1>1 DEF Adds
<1>3. calls[u].config = d
    BY <1>2 DEF Adds
<1>. QED  BY <1>3 DEF InUse

\* The process let in closes no circle: a circle it is part of would be one
\* in the snapshot, among the labels the search has visited.
LEMMA AddedNoCircle ==
    ASSUME IsFiniteSet(Labels), TypeInv, RecordStep, UseStep, IdleCalls, LabelsAgree,
           LabelsAgree', StartsAlone, NoCircle, NEW t \in Threads, NEW c \in Configs,
           Adds(t, c)
    PROVE  NoCircle'
<1>1. SUFFICES ASSUME NEW S \in SUBSET Labels, S # {}, Circular(S)'
               PROVE  FALSE
    BY DEF NoCircle
<1>2. \A l \in S : \E d \in Configs : InUse(d)' /\ d.label = l /\ Needs(d, S)
    BY <1>1 DEF Circular
<1>3. \A d \in Configs : InUse(d)' /\ d # c => InUse(d)
    BY AddedApart
<1>4. CASE c.label \notin S
    <2>1. Circular(S)
        BY <1>2, <1>3, <1>4 DEF Circular
    <2>. QED  BY <1>1, <2>1 DEF NoCircle
<1>5. CASE c.label \in S
    <2>1. InUse(c)'
        BY DEF Adds, InUse
    <2>2. Needs(c, S)
        <3>1. PICK d \in Configs : InUse(d)' /\ d.label = c.label /\ Needs(d, S)
            BY <1>2, <1>5
        <3>2. d.depends_on = c.depends_on
            BY <2>1, <3>1 DEF LabelsAgree
        <3>. QED  BY <3>1, <3>2 DEF Needs
    <2>3. c.depends_on # <<>>
        BY <2>2 DEF Needs
    <2>4. PICK g \in DependencySnapshots(c) : ~detect_cycle(g, c)
        BY <2>3 DEF Adds
    <2>5. g \in Graphs /\ g[c.label] = c.depends_on /\ c.label \in Labels
        BY <2>4, SnapshotGraph, ConfigLists
    <2>6. PICK R \in SUBSET Labels :
             c.label \in R /\ Closed(g, R) /\ CircleFree(g, R)
        BY <2>4, <2>5, NoCycleDetected
    <2>7. \A u \in Threads : At(u, "idle")
        BY DEF Adds, StartsAlone
    <2>8. ASSUME NEW l \in R \cap S
          PROVE  Needed(g, l) \cap (R \cap S) # {}
        <3>1. CASE l = c.label
            BY <2>2, <2>5, <2>6, <3>1, NeedsNeeded DEF Closed
        <3>2. CASE l # c.label
            <4>1. PICK d \in Configs : InUse(d)' /\ d.label = l /\ Needs(d, S)
                BY <1>2, <2>8
            <4>2. g[d.label] = d.depends_on
                BY <1>3, <2>4, <2>7, <3>2, <4>1, SnapshotOfUse
            <4>. QED  BY <2>6, <2>8, <4>1, <4>2, NeedsNeeded DEF Closed
        <3>. QED  BY <3>1, <3>2
    <2>9. Circle(g, R \cap S)
        BY <1>5, <2>6, <2>8 DEF Circle
    <2>. QED  BY <2>6, <2>9 DEF CircleFree
<1>. QED  BY <1>4, <1>5

LEMMA NoCircleInductive ==
    ASSUME IsFiniteSet(Labels), TypeInv, RecordStep, UseStep, IdleCalls, LabelsAgree,
           LabelsAgree', StartsAlone, NoCircle
    PROVE  NoCircle'
<1>1. CASE \E t \in Threads, c \in Configs : Adds(t, c)
    BY <1>1, AddedNoCircle
<1>2. CASE ~\E t \in Threads, c \in Configs : Adds(t, c)
    <2>1. \A c \in Configs : InUse(c)' => InUse(c)
        BY <1>2, UseFrame
    <2>2. \A S : Circular(S)' => Circular(S)
        BY <2>1 DEF Circular
    <2>. QED  BY <2>2 DEF NoCircle
<1>. QED  BY <1>1, <1>2

LEMMA NoCircleNoWait ==
    ASSUME TypeInv, DependByLabel, NoCircle
    PROVE  NoCircularWait
<1>1. SUFFICES ASSUME NEW S \in SUBSET InState({"Waiting"}), S # {}, WaitInACircle(S)
               PROVE  FALSE
    BY DEF NoCircularWait
<1>. DEFINE waiting == {processes[i].config.label : i \in S}
<1>2. \A i \in S : /\ i \in Present /\ processes[i].config \in Configs
                   /\ InUse(processes[i].config)
    BY PresentProcess DEF InState, TypeInv, Process, InUse
<1>3. waiting \in SUBSET Labels /\ waiting # {}
    BY <1>1, <1>2, ConfigLists
<1>4. ASSUME NEW i \in S
      PROVE  Needs(processes[i].config, waiting)
    <2>. DEFINE c == processes[i].config
    <2>1. PICK k \in DOMAIN c.depends_on :
             Carriers(c.depends_on[k]) # {} /\ Carriers(c.depends_on[k]) \subseteq S
        BY <1>1, <1>4 DEF WaitInACircle
    <2>2. c.depends_on[k].kind = "Label"
        BY <1>2, <1>4, <2>1 DEF DependByLabel
    <2>3. PICK j \in S : processes[j].config.label = c.depends_on[k].target
        BY <2>1, <2>2 DEF Carriers, Labelled
    <2>. QED  BY <2>1, <2>2, <2>3 DEF Needs
<1>5. Circular(waiting)
    BY <1>2, <1>4 DEF Circular
<1>. QED  BY <1>3, <1>5 DEF NoCircle

LEMMA NoCircleInitial ==
    ASSUME Init
    PROVE  IdleCalls /\ NoCircle
<1>1. \A t \in Threads : calls[t] = Idle
    BY DEF Init, ManagerInit
<1>2. Present = {} /\ \A t \in Threads : calls[t].config = NoProcess /\ Held(t) = {}
    BY <1>1 DEF Init, TableInit, Present, Idle, Held, NoneHeld
<1>3. \A c \in Configs : ~InUse(c)
    BY <1>2, NoProcessAssumption DEF InUse
<1>. QED  BY <1>1, <1>3 DEF IdleCalls, NoCircle, Circular

\* Processes that depend on labels only, and on the same if they have the
\* same label, never wait for one another, as long as a process is started
\* when no other call is in progress: start() has looked at all there is,
\* and the reaper and the other calls never come back to a dependency that
\* it has not seen.
THEOREM NoCirclesOfWaiting ==
    ASSUME IsFiniteSet(Labels), DependByLabel
    PROVE  Spec /\ []LabelsAgree /\ [][StartsAlone]_vars => []NoCircularWait
<1>1. Init => IInv /\ IdleCalls /\ NoCircle
    BY Initial, NoCircleInitial
<1>2. /\ IInv /\ IdleCalls /\ NoCircle /\ LabelsAgree /\ LabelsAgree'
      /\ [Next]_vars /\ [StartsAlone]_vars
      => IInv' /\ IdleCalls' /\ NoCircle'
    <2>1. SUFFICES ASSUME IInv, IdleCalls, NoCircle, LabelsAgree, LabelsAgree',
                          [Next]_vars, [StartsAlone]_vars
                   PROVE  IInv' /\ IdleCalls' /\ NoCircle'
        OBVIOUS
    <2>2. IInv' /\ RecordStep /\ UseStep
        BY <2>1, Inductive, EveryStep, EveryUseStep DEF IInv
    <2>3. StartsAlone
        <3>1. UNCHANGED vars => \A t \in Threads : ~StartCall(t)
            <4>1. next_id \in Nat
                BY <2>1, BoundsAssumption DEF IInv, TypeInv, TableTypeOK
            <4>2. UNCHANGED vars => next_id' = next_id
                BY DEF vars
            <4>3. \A t \in Threads : StartCall(t) => next_id' = next_id + 1
                BY DEF StartCall
            <4>. QED  BY <4>1, <4>2, <4>3
        <3>. QED  BY <2>1, <3>1 DEF StartsAlone
    <2>. QED  BY <2>1, <2>2, <2>3, IdleInductive, NoCircleInductive DEF IInv
<1>3. IInv /\ NoCircle => NoCircularWait
    BY NoCircleNoWait DEF IInv
<1>. QED  BY <1>1, <1>2, <1>3, PTL DEF Spec
=============================================================================
