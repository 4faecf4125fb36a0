------------------------- MODULE RestartBackoffProofs -------------------------
(***************************************************************************)
(* Theorems about RestartBackoff, for every length of the sleep, of the    *)
(* cycle, of the delays and of min_uptime: how long a restart waits, how   *)
(* soon it comes, when the count is reset, and when the reaper survives.   *)
(*                                                                         *)
(* None of this is inductive as it stands.  What the times are depends on  *)
(* where the reaper is in its cycle, so the invariant bounds each of them  *)
(* by how long the reaper has slept or how old its reading of the clock    *)
(* is: DeathInv says how long a child has been dead unnoticed, DelayInv    *)
(* how the delay and the time since the exit add up, CreditInv how long a  *)
(* child may have run while its restarts still count.                      *)
(***************************************************************************)
EXTENDS RestartBackoff, TLAPS

InCycle == phase \in {"detect", "cascade", "settle", "respawn"}
PastDetect == phase \in {"cascade", "settle", "respawn"}

\* The record is that of a child, running or not yet known to have exited.
HasChild == state \notin {"Restarting", "gone"}

\* What Phase 1 decides is about a dead child, and settled in the same cycle.
PhaseInv ==
    /\ verdict # "none" =>
          ~alive /\ HasChild /\ phase \in {"cascade", "settle", "panicked"}
    /\ phase = "panicked" => verdict = "restart"
    /\ alive => state \in {"Starting", "Running", "Stopping"}
    /\ alive /\ state = "Starting" => ~PastDetect

\* Only a count below one of the limits is about to be raised.
CountInv ==
    /\ restart_count <= RestartBound
    /\ phase # "panicked" =>
          /\ cascade_flag => restart_count <= CascadeBound
          /\ cascade_flag /\ verdict # "none" => restart_count < CascadeBound
          /\ verdict = "restart" => restart_count < RestartBound

\* How long a child has lived, and how long its exit has gone unnoticed.
DeathInv ==
    HasChild =>
        /\ alive => lived = since_start
        /\ ~alive => lived + down >= since_start
        /\ ~alive /\ phase = "sleep" => down <= MaxLag + slept
        /\ ~alive /\ InCycle => down <= Round + lag
        /\ ~alive /\ PastDetect /\ verdict = "none" => down <= lag

\* What is left of the delay and the time since the exit make up the delay,
\* and when it is over the next cycle respawns the process.
DelayInv ==
    state = "Restarting" =>
        /\ until_eligible + down >= current_delay(restart_count) - MaxLag
        /\ until_eligible > -MaxLag => until_eligible + down <= Round + max_delay
        /\ phase = "sleep" => down <= Round + max_delay + MaxLag + slept
        /\ InCycle => down <= max_delay + 2 * Round + lag

\* How long a child may have run while the restarts before it still count.
CreditInv ==
    /\ alive /\ state = "Starting" =>
          /\ phase = "sleep" => lived <= slept
          /\ phase = "detect" => lived <= LongestSleep + lag
    /\ alive /\ state # "Stopping" /\ restart_count > 0 =>
          /\ phase = "sleep" => lived <= EarliestCredit + MaxLag + slept
          /\ phase = "detect" => lived <= EarliestCredit + Round + lag
          /\ PastDetect => lived <= EarliestCredit + lag

IInv == TypeOK /\ PhaseInv /\ CountInv /\ DeathInv /\ DelayInv /\ CreditInv

\* Every delay that is ever computed fits a Duration.
DelaysFit == \A n \in 1 .. RestartBound : ~Overflows(n)

-----------------------------------------------------------------------------
(* The constants, the clock and the delay.                                 *)

LEMMA Lengths ==
    /\ {PollInterval, MaxLag, LongestSleep, Round, Horizon, EarliestCredit} \subseteq Nat
    /\ {min_uptime, max_delay, max_restarts, CascadeBound, RestartBound} \subseteq Nat
    /\ PollInterval > 0
    /\ LongestSleep = PollInterval + MaxLag
    /\ Round = LongestSleep + MaxLag
    /\ Horizon = min_uptime + max_delay + 3 * Round
    /\ EarliestCredit >= LongestSleep /\ EarliestCredit >= min_uptime
    /\ RestartBound >= max_restarts /\ RestartBound > CascadeBound
BY ClockAssumption, BackoffConfigAssumption
DEF LongestSleep, Round, Horizon, EarliestCredit, RestartBound

\* The cap holds whatever the factor is.
LEMMA DelayCapped ==
    ASSUME NEW n \in 0 .. RestartBound
    PROVE  current_delay(n) \in 0 .. max_delay
<1>1. RawDelay(n) \in Nat
    BY DelayAssumption
<1>. QED  BY <1>1, Lengths DEF current_delay

LEMMA Clock ==
    ASSUME NEW t \in 0 .. Horizon
    PROVE  /\ Later(t) \in 0 .. Horizon
           /\ Later(t) \in {t, t + 1}
           /\ Later(t) = t => t = Horizon
BY Lengths DEF Later

LEMMA CountDown ==
    ASSUME NEW t \in -MaxLag .. max_delay
    PROVE  /\ Sooner(t) \in -MaxLag .. max_delay
           /\ t > -MaxLag => Sooner(t) = t - 1
           /\ t = -MaxLag => Sooner(t) = t
BY Lengths DEF Sooner

-----------------------------------------------------------------------------
(* Every step preserves the invariant.                                     *)

LEMMA Initial == Init => IInv
<1>. SUFFICES ASSUME Init PROVE IInv
    OBVIOUS
<1>1. TypeOK
    <2>1. -MaxLag \in -MaxLag .. max_delay /\ 0 \in 0 .. Horizon /\ 0 \in 0 .. MaxLag
        BY Lengths
    <2>. QED  BY <2>1 DEF Init, TypeOK
<1>2. PhaseInv /\ CountInv
    BY Lengths DEF Init, PhaseInv, CountInv, PastDetect, HasChild
<1>3. DeathInv /\ DelayInv
    BY DEF Init, DeathInv, DelayInv, HasChild, InCycle, PastDetect
<1>4. CreditInv
    BY Lengths DEF Init, CreditInv, PastDetect, TypeOK
<1>. QED  BY <1>1, <1>2, <1>3, <1>4 DEF IInv

LEMMA TickStep ==
    ASSUME IInv, Tick
    PROVE  IInv'
<1>. USE DEF InCycle, PastDetect, HasChild
<1>1. TypeOK'
    BY Lengths, Clock, CountDown DEF IInv, TypeOK, Tick, reaperVars
<1>2. PhaseInv' /\ CountInv'
    BY DEF IInv, PhaseInv, CountInv, Tick, reaperVars
<1>3. /\ since_start \in 0 .. Horizon /\ lived \in 0 .. Horizon /\ down \in 0 .. Horizon
      /\ until_eligible \in -MaxLag .. max_delay
      /\ slept \in Nat /\ lag \in Nat
    BY Lengths DEF IInv, TypeOK
<1>4. /\ phase = "sleep" => slept' = slept + 1 /\ lag' = lag
      /\ phase # "sleep" => slept' = slept /\ lag' = lag + 1
      /\ UNCHANGED <<state, restart_count, alive, phase, verdict>>
    BY DEF Tick, reaperVars
<1>5. DeathInv'
    <2>1. ASSUME alive, HasChild
          PROVE  lived' = since_start'
        BY <2>1 DEF Tick, IInv, DeathInv
    <2>2. ASSUME ~alive, HasChild
          PROVE  lived' + down' >= since_start'
        <3>1. lived' = lived /\ down' = Later(down) /\ since_start' = Later(since_start)
              /\ lived + down >= since_start
            BY <2>2 DEF Tick, IInv, DeathInv
        <3>. QED  BY <1>3, <3>1, Clock, Lengths
    <2>3. ASSUME ~alive, HasChild
          PROVE  down' \in {down, down + 1}
        BY <1>3, <2>3, Clock DEF Tick
    <2>4. \A a, b \in Nat : a <= b => a + 1 <= b + 1 /\ a <= b + 1
        OBVIOUS
    <2>. QED  BY <1>3, <1>4, <2>1, <2>2, <2>3, Lengths DEF IInv, DeathInv
<1>6. DelayInv'
    <2>. SUFFICES ASSUME state = "Restarting"
                  PROVE  DelayInv'
        BY <1>4 DEF DelayInv
    <2>1. ~alive /\ restart_count \in 0 .. RestartBound
        BY DEF IInv, PhaseInv, CountInv, TypeOK
    <2>2. current_delay(restart_count) \in 0 .. max_delay
        BY <2>1, DelayCapped
    <2>3. current_delay(restart_count)' = current_delay(restart_count)
        BY <1>4
    <2>4. down' = Later(down) /\ until_eligible' = Sooner(until_eligible)
        BY <2>1 DEF Tick
    <2>5. /\ down' \in {down, down + 1}
          /\ down' = down => down = Horizon
          /\ until_eligible > -MaxLag => until_eligible' = until_eligible - 1
          /\ until_eligible = -MaxLag => until_eligible' = until_eligible
        BY <1>3, <2>4, Clock, CountDown
    <2>6. until_eligible' + down' >= current_delay(restart_count) - MaxLag
        BY <1>3, <2>2, <2>5, Lengths DEF IInv, DelayInv
    <2>7. until_eligible' > -MaxLag => until_eligible' + down' <= Round + max_delay
        BY <1>3, <2>5, Lengths DEF IInv, DelayInv
    <2>8. /\ phase = "sleep" => down' <= Round + max_delay + MaxLag + slept'
          /\ InCycle => down' <= max_delay + 2 * Round + lag'
        BY <1>3, <1>4, <2>5, Lengths DEF IInv, DelayInv
    <2>. HIDE DEF InCycle
    <2>9. InCycle' = InCycle
        BY <1>4 DEF InCycle
    <2>. QED  BY <1>4, <2>3, <2>6, <2>7, <2>8, <2>9 DEF DelayInv
<1>7. CreditInv'
    <2>1. alive => lived' \in {lived, lived + 1}
        BY <1>3, Clock DEF Tick
    <2>. QED  BY <1>3, <1>4, <2>1, Lengths DEF IInv, CreditInv
<1>. QED  BY <1>1, <1>2, <1>5, <1>6, <1>7 DEF IInv

LEMMA ChildExitsStep ==
    ASSUME IInv, ChildExits
    PROVE  IInv'
<1>. USE DEF InCycle, PastDetect, HasChild, ChildExits, reaperVars
<1>1. TypeOK'
    <2>1. 0 \in 0 .. Horizon
        BY Lengths
    <2>. QED  BY <2>1 DEF IInv, TypeOK
<1>2. PhaseInv' /\ CountInv'
    BY DEF IInv, PhaseInv, CountInv
<1>3. DeathInv' /\ DelayInv' /\ CreditInv'
    <2>1. lived = since_start /\ state # "Restarting"
        BY DEF IInv, PhaseInv, DeathInv
    <2>2. down' = 0 /\ ~alive' /\ lived' = lived /\ since_start' = since_start
          /\ lag' = lag /\ slept' = slept /\ state' = state
        OBVIOUS
    <2>3. lived \in Nat /\ lag \in Nat /\ slept \in Nat
        BY Lengths DEF IInv, TypeOK
    <2>. QED  BY <2>1, <2>2, <2>3, Lengths DEF DeathInv, DelayInv, CreditInv
<1>. QED  BY <1>1, <1>2, <1>3 DEF IInv

LEMMA PollStep ==
    ASSUME IInv, Poll
    PROVE  IInv'
<1>. USE DEF InCycle, PastDetect, HasChild, Poll, reaperVars, clockVars
<1>1. TypeOK'
    BY DEF IInv, TypeOK
<1>2. PhaseInv' /\ CountInv'
    BY DEF IInv, PhaseInv, CountInv
<1>3. DeathInv' /\ DelayInv' /\ CreditInv'
    BY DEF IInv, DeathInv, DelayInv, CreditInv
<1>. QED  BY <1>1, <1>2, <1>3 DEF IInv

\* The clock is read at the end of the sleep.
LEMMA WakeStep ==
    ASSUME IInv, Wake
    PROVE  IInv'
<1>. USE DEF InCycle, PastDetect, HasChild, Wake, reaperVars
<1>1. TypeOK'
    BY Lengths DEF IInv, TypeOK
<1>2. PhaseInv' /\ CountInv'
    BY DEF IInv, PhaseInv, CountInv
<1>3. slept \in 0 .. LongestSleep /\ down \in Nat /\ lived \in Nat
    BY Lengths DEF IInv, TypeOK
<1>4. DeathInv'
    BY <1>3, Lengths DEF IInv, DeathInv
<1>5. DelayInv'
    BY <1>3, Lengths DEF IInv, DelayInv
<1>6. CreditInv'
    BY <1>3, Lengths DEF IInv, CreditInv
<1>. QED  BY <1>1, <1>2, <1>4, <1>5, <1>6 DEF IInv

\* The uptime a child is credited with: one that fails the test has run for
\* less than min_uptime when the clock is read, or is looked at for the first
\* time.
LEMMA DetectStep ==
    ASSUME IInv, Detect
    PROVE  IInv'
<1>. USE DEF InCycle, PastDetect, HasChild, reaperVars, clockVars
<1>1. /\ phase = "detect" /\ phase' = "cascade" /\ verdict = "none"
      /\ UNCHANGED <<alive, since_start, until_eligible, lived, down, slept, lag>>
    BY DEF Detect, IInv, PhaseInv
<1>2. /\ restart_count' \in {0, restart_count}
      /\ verdict' \in {"none", "restart", "remove"}
      /\ cascade_flag' \in {FALSE, cascade_flag}
      /\ verdict' # "none" => ~alive /\ HasChild /\ ~cascade_flag' /\ state' = state
      /\ ~HasChild => UNCHANGED <<state, restart_count, verdict>>
      /\ state' \in {state, "Running"}
      /\ state' # state => alive /\ state = "Starting"
      /\ alive => state' # "Starting"
      /\ ~alive /\ HasChild => verdict' # "none"
    BY <1>1 DEF Detect, IInv, PhaseInv, check_stable_uptime
<1>3. /\ restart_count \in Nat /\ lag \in Nat /\ since_start \in Nat /\ lived \in Nat
      /\ down \in Nat /\ cascade_flag \in BOOLEAN
    BY Lengths DEF IInv, TypeOK
<1>4. TypeOK'
    <2>1. restart_count' \in Nat
        BY <1>2, <1>3
    <2>3. cascade_flag' \in BOOLEAN
        BY <1>3 DEF Detect
    <2>2. state' \in {"Starting", "Running", "Stopping", "Crashed", "Restarting", "gone"}
        BY <1>2 DEF IInv, TypeOK
    <2>. QED  BY <1>1, <1>2, <2>1, <2>2, <2>3 DEF IInv, TypeOK
<1>5. PhaseInv'
    BY <1>1, <1>2 DEF IInv, PhaseInv
<1>6. CountInv'
    <2>1. verdict' = "restart" => restart_count' < RestartBound
        <3>. SUFFICES ASSUME verdict' = "restart"
                      PROVE  restart_count' < RestartBound
            OBVIOUS
        <3>1. CASE cascade_flag
            BY <1>1, <1>2, <1>3, <3>1, Lengths DEF IInv, CountInv
        <3>2. CASE ~cascade_flag
            <4>1. ~is_rate_limited(restart_count')
                BY <1>1, <3>2 DEF Detect
            <4>. QED  BY <1>2, <1>3, <4>1, Lengths DEF is_rate_limited
        <3>. QED  BY <3>1, <3>2
    <2>2. restart_count' <= RestartBound /\ restart_count' <= restart_count
        BY <1>2, <1>3, Lengths DEF IInv, CountInv
    <2>3. cascade_flag' => cascade_flag /\ verdict' = "none"
        BY <1>1 DEF Detect
    <2>4. cascade_flag => restart_count' <= CascadeBound
        BY <1>1, <1>2, <1>3, <2>2, Lengths DEF IInv, CountInv
    <2>. QED  BY <2>1, <2>2, <2>3, <2>4 DEF CountInv
<1>7. DeathInv'
    BY <1>1, <1>2, <1>3, Lengths DEF IInv, DeathInv
<1>8. DelayInv'
    BY <1>1, <1>2 DEF IInv, DelayInv
<1>9. CreditInv'
    <2>1. ASSUME alive, state # "Stopping", restart_count' > 0
          PROVE  lived <= EarliestCredit + lag
        <3>1. HasChild /\ lived = since_start
            BY <2>1 DEF IInv, PhaseInv, DeathInv
        <3>2. CASE state = "Starting"
            BY <1>1, <1>3, <2>1, <3>2, Lengths DEF IInv, CreditInv
        <3>3. CASE state # "Starting"
            <4>1. state = "Running"
                BY <2>1, <3>3 DEF IInv, PhaseInv
            <4>2. ~(UptimeAtReading >= min_uptime)
                BY <1>1, <2>1, <3>1, <4>1 DEF Detect, check_stable_uptime
            <4>. QED  BY <1>3, <3>1, <4>2, Lengths DEF UptimeAtReading
        <3>. QED  BY <3>2, <3>3
    <2>2. state' # "Stopping" => state # "Stopping"
        BY <1>2
    <2>. QED  BY <1>1, <1>2, <2>1, <2>2 DEF CreditInv
<1>. QED  BY <1>4, <1>5, <1>6, <1>7, <1>8, <1>9 DEF IInv

LEMMA CascadeStep ==
    ASSUME IInv, CascadeStrikes \/ NoCascade
    PROVE  IInv'
<1>. USE DEF InCycle, PastDetect, HasChild, CascadeStrikes, NoCascade, reaperVars, clockVars
<1>1. TypeOK'
    BY DEF IInv, TypeOK
<1>2. PhaseInv'
    BY DEF IInv, PhaseInv
<1>3. CountInv'
    BY Lengths DEF IInv, CountInv, TypeOK
<1>4. DeathInv' /\ DelayInv' /\ CreditInv'
    BY DEF IInv, DeathInv, DelayInv, CreditInv
<1>. QED  BY <1>1, <1>2, <1>3, <1>4 DEF IInv

LEMMA RemoveStep ==
    ASSUME IInv, Remove \/ NothingToSettle
    PROVE  IInv'
<1>. USE DEF InCycle, PastDetect, HasChild, Remove, NothingToSettle, reaperVars, clockVars
<1>1. TypeOK'
    BY DEF IInv, TypeOK
<1>2. PhaseInv' /\ CountInv'
    BY DEF IInv, PhaseInv, CountInv
<1>3. DeathInv' /\ DelayInv' /\ CreditInv'
    BY DEF IInv, PhaseInv, DeathInv, DelayInv, CreditInv
<1>. QED  BY <1>1, <1>2, <1>3 DEF IInv

\* The delay starts at the reading, up to MaxLag before the restart is scheduled.
LEMMA ScheduleStep ==
    ASSUME IInv, Schedule
    PROVE  IInv'
<1>. USE DEF InCycle, PastDetect, HasChild, reaperVars, clockVars
<1>1. /\ phase = "settle" /\ verdict = "restart" /\ ~alive /\ HasChild
      /\ restart_count \in Nat /\ restart_count < RestartBound
      /\ restart_count' = restart_count + 1
      /\ UNCHANGED <<cascade_flag, alive, since_start, lived, down, slept, lag>>
    BY DEF Schedule, IInv, PhaseInv, CountInv, TypeOK
<1>2. restart_count' \in 0 .. RestartBound
    BY <1>1, Lengths
<1>3. lag \in 0 .. MaxLag /\ down \in Nat /\ down <= Round + lag
    BY <1>1, Lengths DEF IInv, TypeOK, DeathInv
<1>4. CASE phase' = "panicked" /\ UNCHANGED <<state, until_eligible, verdict>>
    <2>1. TypeOK'
        BY <1>1, <1>2, <1>4, Lengths DEF IInv, TypeOK
    <2>2. PhaseInv' /\ CountInv'
        BY <1>1, <1>2, <1>4 DEF IInv, PhaseInv, CountInv
    <2>3. DeathInv' /\ DelayInv' /\ CreditInv'
        BY <1>1, <1>4 DEF IInv, DeathInv, DelayInv, CreditInv
    <2>. QED  BY <2>1, <2>2, <2>3 DEF IInv
<1>5. CASE /\ state' = "Restarting" /\ phase' = "respawn" /\ verdict' = "none"
           /\ until_eligible' = current_delay(restart_count') - lag
    <2>. DEFINE d == current_delay(restart_count')
    <2>1. d \in 0 .. max_delay
        BY <1>2, DelayCapped
    <2>2. until_eligible' = d - lag
        BY <1>5
    <2>. HIDE DEF d
    <2>3. TypeOK'
        <3>1. until_eligible' \in -MaxLag .. max_delay
            BY <1>3, <2>1, <2>2, Lengths
        <3>. QED  BY <1>1, <1>5, <3>1 DEF IInv, TypeOK
    <2>4. PhaseInv'
        BY <1>1, <1>5 DEF IInv, PhaseInv
    <2>5. CountInv'
        BY <1>1, <1>2, <1>5, Lengths DEF IInv, CountInv
    <2>6. DeathInv' /\ CreditInv'
        BY <1>1, <1>5 DEF DeathInv, CreditInv
    <2>7. DelayInv'
        <3>1. /\ until_eligible' + down' >= d - MaxLag
              /\ until_eligible' + down' <= Round + max_delay
              /\ down' <= max_delay + 2 * Round + lag'
            BY <1>1, <1>3, <2>1, <2>2, Lengths
        <3>2. current_delay(restart_count)' = d
            BY DEF d
        <3>. QED  BY <1>5, <3>1, <3>2 DEF DelayInv
    <2>. QED  BY <2>3, <2>4, <2>5, <2>6, <2>7 DEF IInv
<1>. QED  BY <1>4, <1>5 DEF Schedule

LEMMA RespawnStep ==
    ASSUME IInv, Respawn
    PROVE  IInv'
<1>. USE DEF InCycle, PastDetect, HasChild, Respawn, EndCycle, reaperVars
<1>1. TypeOK'
    <2>1. -MaxLag \in -MaxLag .. max_delay /\ 0 \in 0 .. Horizon /\ 0 \in 0 .. MaxLag
          /\ 0 \in 0 .. LongestSleep
        BY Lengths
    <2>. QED  BY <2>1 DEF IInv, TypeOK
<1>2. PhaseInv' /\ CountInv'
    BY DEF IInv, PhaseInv, CountInv
<1>3. DeathInv' /\ DelayInv'
    BY DEF IInv, PhaseInv, DeathInv, DelayInv
<1>4. CreditInv'
    BY Lengths DEF IInv, PhaseInv, CreditInv
<1>. QED  BY <1>1, <1>2, <1>3, <1>4 DEF IInv

\* A process that is not eligible at the end of a cycle was not at the reading.
LEMMA NothingToRespawnStep ==
    ASSUME IInv, NothingToRespawn
    PROVE  IInv'
<1>. USE DEF InCycle, PastDetect, HasChild, NothingToRespawn, EndCycle, reaperVars
<1>1. TypeOK'
    BY Lengths DEF IInv, TypeOK
<1>2. PhaseInv' /\ CountInv'
    BY DEF IInv, PhaseInv, CountInv
<1>3. lag \in 0 .. MaxLag /\ lived \in Nat /\ down \in Nat /\ until_eligible \in Int
    BY Lengths DEF IInv, TypeOK
<1>4. verdict = "none"
    BY DEF IInv, PhaseInv
<1>5. DeathInv'
    BY <1>3, <1>4, Lengths DEF IInv, DeathInv
<1>6. DelayInv'
    BY <1>3, Lengths DEF IInv, DelayInv, is_eligible_for_restart
<1>7. CreditInv'
    BY <1>3, Lengths DEF IInv, PhaseInv, CreditInv
<1>. QED  BY <1>1, <1>2, <1>5, <1>6, <1>7 DEF IInv

LEMMA Inductive == IInv /\ [Next]_vars => IInv'
<1>. SUFFICES ASSUME IInv, [Next]_vars PROVE IInv'
    OBVIOUS
<1>1. CASE UNCHANGED vars
    BY <1>1 DEF vars, clockVars, reaperVars, IInv, TypeOK, PhaseInv, CountInv, DeathInv,
                DelayInv, CreditInv, HasChild, InCycle, PastDetect
<1>2. CASE Next
    BY <1>2, TickStep, ChildExitsStep, PollStep, WakeStep, DetectStep, CascadeStep,
       RemoveStep, ScheduleStep, RespawnStep, NothingToRespawnStep DEF Next, ReaperNext
<1>. QED  BY <1>1, <1>2

THEOREM Invariance == Spec => []IInv
BY Initial, Inductive, PTL DEF Spec

-----------------------------------------------------------------------------
(* What follows.                                                           *)

THEOREM TypeCorrect == Spec => []TypeOK
BY Invariance, PTL DEF IInv

\* The reaper's thread does not end in a panic where every delay up to the
\* largest count there can be fits a Duration.
THEOREM ReaperLives ==
    ASSUME DelaysFit
    PROVE  Spec => []ReaperSurvives
<1>1. Init => ReaperSurvives
    BY DEF Init, ReaperSurvives
<1>2. ReaperSurvives /\ IInv /\ [Next]_vars => ReaperSurvives'
    <2>. SUFFICES ASSUME ReaperSurvives, IInv, [Next]_vars
                  PROVE  ReaperSurvives'
        OBVIOUS
    <2>1. CASE Schedule
        <3>1. restart_count \in Nat /\ restart_count < RestartBound /\ RestartBound \in Nat
            BY <2>1, Lengths DEF Schedule, ReaperSurvives, IInv, CountInv, TypeOK
        <3>2. restart_count' = restart_count + 1
            BY <2>1 DEF Schedule
        <3>3. restart_count' \in 1 .. RestartBound
            BY <3>1, <3>2
        <3>. QED  BY <2>1, <3>3 DEF Schedule, DelaysFit, ReaperSurvives
    <2>2. CASE UNCHANGED vars \/ (Next /\ ~Schedule)
        BY <2>2 DEF ReaperSurvives, vars, reaperVars, Next, ReaperNext, Tick, ChildExits,
                    Poll, Wake, Detect, CascadeStrikes, NoCascade, Remove,
                    NothingToSettle, Respawn, NothingToRespawn, EndCycle
    <2>. QED  BY <2>1, <2>2
<1>. QED  BY <1>1, <1>2, Invariance, PTL DEF Spec

\* A child has been dead for the delay its restart is due when it is replaced,
\* less at most the age of the reaper's reading of the clock.
THEOREM BackoffIsKept == Spec => BackoffHolds
<1>1. IInv /\ [Next]_vars
        => [~alive /\ alive' => down >= current_delay(restart_count) - MaxLag]_vars
    <2>. SUFFICES ASSUME IInv, Next, ~alive, alive'
                  PROVE  down >= current_delay(restart_count) - MaxLag
        OBVIOUS
    <2>1. Respawn
        BY DEF Next, ReaperNext, Tick, ChildExits, Poll, Wake, Detect, CascadeStrikes,
               NoCascade, Remove, Schedule, NothingToSettle, NothingToRespawn, EndCycle,
               clockVars, reaperVars
    <2>2. /\ restart_count \in 0 .. RestartBound
          /\ lag \in Nat /\ down \in Nat /\ until_eligible \in Int
        BY Lengths DEF IInv, CountInv, TypeOK
    <2>3. until_eligible + down >= current_delay(restart_count) - MaxLag
          /\ until_eligible + lag <= 0
        BY <2>1 DEF Respawn, is_eligible_for_restart, IInv, DelayInv
    <2>4. current_delay(restart_count) \in Nat
        BY <2>2, DelayCapped, Lengths
    <2>. QED  BY <2>2, <2>3, <2>4, Lengths
<1>. QED  BY <1>1, Invariance, PTL DEF Spec, BackoffHolds

\* No process that is kept is without a child for longer than the longest
\* delay and the two rounds it takes to notice its exit and the end of the delay.
THEOREM BackoffIsOver == Spec => []BackoffEnds
<1>1. IInv => BackoffEnds
    <2>. SUFFICES ASSUME IInv, ~alive, state # "gone", phase # "panicked"
                  PROVE  down <= max_delay + 2 * Round + MaxLag
        BY DEF BackoffEnds
    <2>1. /\ down \in Nat /\ lag \in 0 .. MaxLag /\ slept \in 0 .. LongestSleep
          /\ phase = "sleep" \/ InCycle
        BY Lengths DEF IInv, TypeOK, InCycle
    <2>2. CASE state = "Restarting"
        BY <2>1, <2>2, Lengths DEF IInv, DelayInv
    <2>3. CASE state # "Restarting"
        BY <2>1, <2>3, Lengths DEF IInv, DeathInv, HasChild
    <2>. QED  BY <2>2, <2>3
<1>. QED  BY <1>1, Invariance, PTL

\* A child that has run for min_uptime and a round has been credited with it.
THEOREM UptimeIsCounted == Spec => []UptimeCounts
<1>1. IInv => UptimeCounts
    <2>. SUFFICES ASSUME IInv, alive, state # "Stopping", restart_count # 0
                  PROVE  lived <= EarliestCredit + Round + MaxLag
        BY Lengths DEF UptimeCounts, IInv, TypeOK
    <2>1. /\ restart_count > 0 /\ lived \in Nat
          /\ lag \in 0 .. MaxLag /\ slept \in 0 .. LongestSleep
          /\ phase = "sleep" \/ phase = "detect" \/ PastDetect
        BY Lengths DEF IInv, TypeOK, PhaseInv, PastDetect
    <2>. QED  BY <2>1, Lengths DEF IInv, CreditInv
<1>. QED  BY <1>1, Invariance, PTL

\* And one that is credited with it has run for min_uptime, less a round.
THEOREM UptimeIsEarned == Spec => UptimeEarned
<1>1. IInv /\ [Next]_vars
        => [restart_count' < restart_count => lived >= min_uptime - Round]_vars
    <2>. SUFFICES ASSUME IInv, Next, restart_count' < restart_count
                  PROVE  lived >= min_uptime - Round
        OBVIOUS
    <2>1. /\ restart_count \in Nat /\ lag \in Nat /\ since_start \in Nat
          /\ lived \in Nat /\ down \in Nat
        BY Lengths DEF IInv, TypeOK
    <2>2. Detect
        BY <2>1 DEF Next, ReaperNext, Tick, ChildExits, Poll, Wake, CascadeStrikes,
                    NoCascade, Remove, Schedule, NothingToSettle, Respawn, NothingToRespawn
    <2>3. state = "Running" /\ UptimeAtReading >= min_uptime /\ phase = "detect"
        BY <2>1, <2>2 DEF Detect, check_stable_uptime
    <2>4. CASE alive
        BY <2>1, <2>3, <2>4, Lengths DEF UptimeAtReading, IInv, DeathInv, HasChild
    <2>5. CASE ~alive
        BY <2>1, <2>3, <2>5, Lengths DEF UptimeAtReading, IInv, DeathInv, HasChild, InCycle
    <2>. QED  BY <2>4, <2>5
<1>. QED  BY <1>1, Invariance, PTL DEF Spec, UptimeEarned
=============================================================================
