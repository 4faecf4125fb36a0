--------------------------- MODULE RestartBackoff ----------------------------
(***************************************************************************)
(* The clock of automatic restarts, which ProcessTable leaves out: one     *)
(* process under RestartPolicy::Backoff, the reaper that polls it, clients *)
(* that look at its state, and siblings whose crash may take it down.      *)
(*                                                                         *)
(* Time is counted in ticks, and every Instant is kept as its distance     *)
(* from the present.  The reaper reads the clock once a cycle and uses     *)
(* that reading to the end of it.  stop() and restart(), which end the     *)
(* record or reset it, are in ManagerOps.                                  *)
(***************************************************************************)
EXTENDS Integers

CONSTANTS
    PollInterval,  \* how long the reaper sleeps between two cycles
    MaxLag,        \* how late a sleep may end, and how long a cycle may take
    initial_delay, multiplier, max_delay, max_restarts, min_uptime,
    MaxDuration,   \* the longest Duration there is
    CascadeBound   \* siblings crash only while restart_count is below it

ASSUME ClockAssumption ==
    /\ PollInterval \in Nat \ {0}
    /\ MaxLag \in Nat
    /\ MaxDuration \in Nat
    /\ CascadeBound \in Nat
ASSUME BackoffConfigAssumption ==
    /\ {initial_delay, multiplier, max_restarts, min_uptime} \subseteq Nat
    /\ max_delay \in 0 .. MaxDuration

VARIABLES
    state,           \* Process::state, or "gone" when it has been removed
    cascade_flag,
    restart_count,
    since_start,     \* the time since last_started_at
    until_eligible,  \* the time until next_eligible_restart
    alive,           \* is the child running?
    lived,           \* how long the last child has run (history)
    down,            \* how long ago it has exited (history)
    phase,           \* where the reaper is
    verdict,         \* what Phase 1 has decided of the process
    slept,           \* how long the reaper has slept
    lag              \* how long ago it has read the clock

clockVars == <<since_start, until_eligible, lived, down, slept, lag>>
reaperVars == <<phase, verdict>>
vars == <<state, cascade_flag, restart_count, alive, clockVars, reaperVars>>

\* The longest sleep, and the longest time from one reading of the clock to the
\* next.  A look at the process comes up to MaxLag after the reading.
LongestSleep == PollInterval + MaxLag
Round == LongestSleep + MaxLag

\* Beyond this no test of the code and no property tells two times apart.
Horizon == min_uptime + max_delay + 3 * Round

Later(t) == IF t < Horizon THEN t + 1 ELSE t
Sooner(t) == IF t > -MaxLag THEN t - 1 ELSE t

TypeOK ==
    /\ state \in {"Starting", "Running", "Stopping", "Crashed", "Restarting", "gone"}
    /\ cascade_flag \in BOOLEAN
    /\ restart_count \in Nat
    /\ {since_start, lived, down} \subseteq 0 .. Horizon
    /\ until_eligible \in -MaxLag .. max_delay
    /\ alive \in BOOLEAN
    /\ phase \in {"sleep", "detect", "cascade", "settle", "respawn", "panicked"}
    /\ verdict \in {"none", "restart", "remove"}
    /\ slept \in 0 .. LongestSleep
    /\ lag \in 0 .. MaxLag

\* The process has just been spawned by start(), at any time of the sleep.
Init ==
    /\ state = "Starting"
    /\ cascade_flag = FALSE
    /\ restart_count = 0
    /\ since_start = 0
    /\ until_eligible = -MaxLag
    /\ alive = TRUE
    /\ lived = 0
    /\ down = 0
    /\ phase = "sleep"
    /\ verdict = "none"
    /\ slept \in 0 .. LongestSleep
    /\ lag = 0

-----------------------------------------------------------------------------
(* RestartState                                                            *)

\* initial_delay * (multiplier / 10)^restart_count, before the cap.
RawDelay(n) == (initial_delay * multiplier ^ n) \div 10 ^ n

\* No count gets beyond this: it grows by one where it is below max_restarts, or
\* where a cascade has found it below CascadeBound, and then once more.
RestartBound == IF max_restarts > CascadeBound THEN max_restarts ELSE CascadeBound + 1

\* Arithmetic: a quotient of natural numbers is one.
ASSUME DelayAssumption == \A n \in 0 .. RestartBound : RawDelay(n) \in Nat

\* Mutant: the delay is not capped.
UncappedDelay(n) == RawDelay(n)

current_delay(n) == IF RawDelay(n) < max_delay THEN RawDelay(n) ELSE max_delay

\* Duration::from_secs_f64() of what no Duration can hold.
Overflows(n) == RawDelay(n) > MaxDuration

\* Mutant: one restart too many.
IsRateLimitedLate(n) == n > max_restarts

is_rate_limited(n) == n >= max_restarts

\* duration_since() of an Instant that is later than the clock reading is 0.
UptimeAtReading == IF since_start > lag THEN since_start - lag ELSE 0

\* Mutant: the count is never reset.
CountKept == restart_count

check_stable_uptime ==
    IF state = "Running" /\ UptimeAtReading >= min_uptime THEN 0 ELSE restart_count

\* Mutant: the backoff is over one clock reading too early.
IsEligibleEarly == until_eligible <= MaxLag + 1

is_eligible_for_restart == until_eligible + lag <= 0

-----------------------------------------------------------------------------
(* The clock, the child, the clients                                       *)

Tick ==
    /\ \/ phase = "sleep" /\ slept < LongestSleep
       \/ phase \in {"detect", "cascade", "settle", "respawn"} /\ lag < MaxLag
    /\ slept' = IF phase = "sleep" THEN slept + 1 ELSE slept
    /\ lag' = IF phase = "sleep" THEN lag ELSE lag + 1
    /\ since_start' = Later(since_start)
    /\ until_eligible' = Sooner(until_eligible)
    /\ lived' = IF alive THEN Later(lived) ELSE lived
    /\ down' = IF alive THEN down ELSE Later(down)
    /\ UNCHANGED <<state, cascade_flag, restart_count, alive, reaperVars>>

ChildExits ==
    /\ alive
    /\ alive' = FALSE
    /\ down' = 0
    /\ UNCHANGED <<state, cascade_flag, restart_count, since_start, until_eligible,
                   lived, slept, lag, reaperVars>>

\* A client calls state().
Poll ==
    /\ state \in {"Starting", "Running"}
    /\ state' = IF alive THEN "Running" ELSE "Crashed"
    /\ UNCHANGED <<cascade_flag, restart_count, alive, clockVars, reaperVars>>

-----------------------------------------------------------------------------
(* The reaper's cycle                                                      *)

Wake ==
    /\ phase = "sleep"
    /\ slept >= PollInterval
    /\ phase' = "detect"
    /\ lag' = 0
    /\ slept' = 0
    /\ UNCHANGED <<state, cascade_flag, restart_count, alive, since_start,
                   until_eligible, lived, down, verdict>>

\* Phase 1.  The uptime is looked at before the child is.
Detect ==
    /\ phase = "detect"
    /\ IF state \in {"Restarting", "gone"}
       THEN UNCHANGED <<state, cascade_flag, restart_count, verdict>>
       ELSE /\ restart_count' = check_stable_uptime
            /\ IF alive
               THEN /\ state' = IF state = "Starting" THEN "Running" ELSE state
                    /\ UNCHANGED <<cascade_flag, verdict>>
               ELSE /\ verdict' = IF ~cascade_flag /\ is_rate_limited(restart_count')
                                  THEN "remove" ELSE "restart"
                    /\ cascade_flag' = FALSE
                    /\ UNCHANGED state
    /\ phase' = "cascade"
    /\ UNCHANGED <<alive, clockVars>>

\* Phase 1b.  A sibling has crashed: whatever looks alive is taken down.
CascadeStrikes ==
    /\ phase = "cascade"
    /\ state \in {"Starting", "Running"}
    /\ restart_count < CascadeBound
    /\ cascade_flag' = TRUE
    /\ state' = "Stopping"
    /\ phase' = "settle"
    /\ UNCHANGED <<restart_count, alive, clockVars, verdict>>

NoCascade ==
    /\ phase = "cascade"
    /\ phase' = "settle"
    /\ UNCHANGED <<state, cascade_flag, restart_count, alive, clockVars, verdict>>

\* Phase 2.
Remove ==
    /\ phase = "settle"
    /\ verdict = "remove"
    /\ state' = "gone"
    /\ verdict' = "none"
    /\ phase' = "respawn"
    /\ UNCHANGED <<cascade_flag, restart_count, alive, clockVars>>

\* Phase 3.  A delay that is too long for a Duration ends the thread.
Schedule ==
    /\ phase = "settle"
    /\ verdict = "restart"
    /\ restart_count' = restart_count + 1
    /\ IF Overflows(restart_count')
       THEN phase' = "panicked" /\ UNCHANGED <<state, until_eligible, verdict>>
       ELSE /\ state' = "Restarting"
            /\ until_eligible' = current_delay(restart_count') - lag
            /\ phase' = "respawn"
            /\ verdict' = "none"
    /\ UNCHANGED <<cascade_flag, alive, since_start, lived, down, slept, lag>>

NothingToSettle ==
    /\ phase = "settle"
    /\ verdict = "none"
    /\ phase' = "respawn"
    /\ UNCHANGED <<state, cascade_flag, restart_count, alive, clockVars, verdict>>

EndCycle == phase' = "sleep" /\ slept' = 0 /\ lag' = 0

\* Mutant: last_started_at stays what it was.
RespawnUnmarked ==
    /\ phase = "respawn"
    /\ state = "Restarting"
    /\ is_eligible_for_restart
    /\ state' = "Starting" /\ alive' = TRUE
    /\ until_eligible' = -MaxLag
    /\ lived' = 0
    /\ EndCycle
    /\ UNCHANGED <<cascade_flag, restart_count, since_start, down, verdict>>

\* Phase 4.  perform_restart(): a fork may fail.
Respawn ==
    /\ phase = "respawn"
    /\ state = "Restarting"
    /\ is_eligible_for_restart
    /\ \/ /\ state' = "Starting" /\ alive' = TRUE
          /\ since_start' = 0
          /\ until_eligible' = -MaxLag
          /\ lived' = 0
       \/ state' = "gone" /\ UNCHANGED <<alive, since_start, until_eligible, lived>>
    /\ EndCycle
    /\ UNCHANGED <<cascade_flag, restart_count, down, verdict>>

NothingToRespawn ==
    /\ phase = "respawn"
    /\ state = "Restarting" => ~is_eligible_for_restart
    /\ EndCycle
    /\ UNCHANGED <<state, cascade_flag, restart_count, alive, since_start,
                   until_eligible, lived, down, verdict>>

-----------------------------------------------------------------------------
ReaperNext ==
    \/ Wake \/ Detect \/ CascadeStrikes \/ NoCascade \/ Remove \/ Schedule
    \/ NothingToSettle \/ Respawn \/ NothingToRespawn

Next == Tick \/ ChildExits \/ Poll \/ ReaperNext

\* Time passes and the reaper is scheduled; no child has to exit.
Spec == Init /\ [][Next]_vars /\ WF_vars(Tick) /\ WF_vars(ReaperNext)

-----------------------------------------------------------------------------
(* What is expected                                                        *)

\* The thread that supervises every process does not end in a panic: the
\* delay is capped before it can grow beyond what a Duration can hold.
ReaperSurvives == phase # "panicked"

\* The backoff holds: a child has been dead for the delay its restart is due,
\* less at most what the reaper's reading of the clock is old.
BackoffHolds ==
    [][~alive /\ alive' => down >= current_delay(restart_count) - MaxLag]_vars

\* And it ends: unless it has been given up, a process is not without a child
\* for longer than the longest delay, the round in which its exit is noticed,
\* the one in which the end of the delay is, and the time that cycle takes.
BackoffEnds ==
    \/ alive \/ state = "gone" \/ phase = "panicked"
    \/ down <= max_delay + 2 * Round + MaxLag

\* The count is reset only for a child that has run for min_uptime, less at
\* most the round since it was last seen alive.
UptimeEarned ==
    [][restart_count' < restart_count => lived >= min_uptime - Round]_vars

\* A child is counted as Running once it has been looked at, after a sleep.
EarliestCredit == IF min_uptime > LongestSleep THEN min_uptime ELSE LongestSleep

\* And it is reset for every child that has run for that time and one more
\* round with its cycle, unless it is about to be taken down.
UptimeCounts ==
    alive /\ lived > EarliestCredit + Round + MaxLag /\ state # "Stopping"
        => restart_count = 0

\* A process that keeps crashing early is not restarted for ever.
CrashLoopEnds ==
    []<>(alive /\ lived = 0) /\ []<>~alive => []<>(lived >= min_uptime - Round)
=============================================================================
