---------------------------- MODULE HealthTracker ----------------------------
(***************************************************************************)
(* basis_monitor::MarketDataHealthTracker for one market-data channel.     *)
(* The SDK's callback thread calls RecordTick, the main loop calls Check;  *)
(* both hold mutex_ for their whole body, so each is one action.  The      *)
(* clock is steady_clock, in fractions of a second; the tracker compares   *)
(* durations that duration_cast has truncated to whole seconds.            *)
(***************************************************************************)
EXTENDS Integers

CONSTANTS
    StaleThreshold,  \* stale_threshold_seconds_, at least 1
    RecoveryGrace,   \* recovery_grace_seconds_, at least 0
    UnitsPerSecond,  \* resolution of the clock
    MaxCheckLag,     \* longest time, in clock units, between two Checks: the
                     \* main loop's one-second sleep and the work it does
    MaxTime          \* bound on the clock

ASSUME TrackerAssumption ==
    /\ StaleThreshold \in Nat \ {0}
    /\ RecoveryGrace \in Nat
    /\ UnitsPerSecond \in Nat \ {0}
    /\ MaxCheckLag \in Nat \ {0}
    /\ MaxTime \in Nat

VARIABLES
    has_seen_tick,             \* has_seen_tick_
    last_tick_time,            \* last_tick_time_
    stale_active,              \* stale_active_
    recovery_pending,          \* recovery_pending_
    recovery_candidate_since,  \* recovery_candidate_since_
    now,                       \* now()
    loop_running,              \* the main loop has called Check once
    last_check,                \* when it last did
    steady_since,              \* history: the tick that ended the last silence
                               \* of StaleThreshold seconds, or the first tick
    outage_end                 \* history: the tick that ended the last silence
                               \* that a punctual loop cannot miss, or Never

tracker == <<has_seen_tick, last_tick_time, stale_active, recovery_pending,
             recovery_candidate_since>>
loop == <<loop_running, last_check>>
history == <<steady_since, outage_end>>
vars == <<tracker, now, loop, history>>

Never == -1

-----------------------------------------------------------------------------
\* duration_cast<seconds>
WholeSeconds(d) == d \div UnitsPerSecond

Silence == now - last_tick_time

\* Mutant: the comparison with the threshold is strict.
SilentStrictly == WholeSeconds(Silence) > StaleThreshold
Silent == WholeSeconds(Silence) >= StaleThreshold
Settled == WholeSeconds(now - recovery_candidate_since) >= RecoveryGrace

\* A silence so long that one of the loop's Checks falls in its stale part.
Outage == Silence >= StaleThreshold * UnitsPerSecond + MaxCheckLag

\* The transition that Check reports.
CheckEvent ==
    IF has_seen_tick /\ ~stale_active /\ Silent THEN "EnteredStale"
    ELSE IF has_seen_tick /\ stale_active /\ ~Silent /\ recovery_pending /\ Settled
    THEN "Recovered"
    ELSE "None"

TrackerInit ==
    /\ has_seen_tick = FALSE
    /\ last_tick_time = 0
    /\ stale_active = FALSE
    /\ recovery_pending = FALSE
    /\ recovery_candidate_since = 0

\* Mutants: the end of the grace period is stored instead of its start; every
\* tick starts the period again; no tick starts it.
RecordTickStoresDeadline ==
    LET starts == stale_active /\ ~recovery_pending
    IN  /\ has_seen_tick' = TRUE
        /\ last_tick_time' = now
        /\ recovery_pending' = (recovery_pending \/ starts)
        /\ recovery_candidate_since' =
              IF starts THEN now + RecoveryGrace ELSE recovery_candidate_since
        /\ UNCHANGED stale_active
RecordTickRestartsGrace ==
    /\ has_seen_tick' = TRUE
    /\ last_tick_time' = now
    /\ recovery_pending' = (recovery_pending \/ stale_active)
    /\ recovery_candidate_since' =
          IF stale_active THEN now ELSE recovery_candidate_since
    /\ UNCHANGED stale_active
RecordTickLeavesGrace ==
    /\ has_seen_tick' = TRUE
    /\ last_tick_time' = now
    /\ UNCHANGED <<stale_active, recovery_pending, recovery_candidate_since>>

\* A tick during an episode starts the grace period, unless one is running.
TrackerRecordTick ==
    LET starts == stale_active /\ ~recovery_pending
    IN  /\ has_seen_tick' = TRUE
        /\ last_tick_time' = now
        /\ recovery_pending' = (recovery_pending \/ starts)
        /\ recovery_candidate_since' =
              IF starts THEN now ELSE recovery_candidate_since
        /\ UNCHANGED stale_active

\* Mutant: a silence during the grace period does not reset it.
CheckKeepsPending ==
    LET grace == has_seen_tick /\ stale_active /\ ~Silent
    IN  /\ stale_active' = CASE CheckEvent = "EnteredStale" -> TRUE
                             [] CheckEvent = "Recovered" -> FALSE
                             [] OTHER -> stale_active
        /\ recovery_pending' = ((recovery_pending \/ grace)
                                 /\ CheckEvent \notin {"EnteredStale", "Recovered"})
        /\ recovery_candidate_since' = IF grace /\ ~recovery_pending
                                       THEN now
                                       ELSE recovery_candidate_since
        /\ UNCHANGED <<has_seen_tick, last_tick_time>>

TrackerCheck ==
    LET grace == has_seen_tick /\ stale_active /\ ~Silent
    IN  /\ stale_active' = CASE CheckEvent = "EnteredStale" -> TRUE
                             [] CheckEvent = "Recovered" -> FALSE
                             [] OTHER -> stale_active
        /\ recovery_pending' = IF has_seen_tick /\ (stale_active \/ Silent)
                               THEN grace /\ CheckEvent # "Recovered"
                               ELSE recovery_pending
        /\ recovery_candidate_since' = IF grace /\ ~recovery_pending
                                       THEN now
                                       ELSE recovery_candidate_since
        /\ UNCHANGED <<has_seen_tick, last_tick_time>>

-----------------------------------------------------------------------------
Init ==
    /\ TrackerInit
    /\ now = 0
    /\ loop_running = FALSE
    /\ last_check = 0
    /\ steady_since = 0
    /\ outage_end = Never

RecordTick ==
    /\ TrackerRecordTick
    /\ steady_since' = IF ~has_seen_tick \/ Silent THEN now ELSE steady_since
    /\ outage_end' = IF has_seen_tick /\ Outage THEN now ELSE outage_end
    /\ UNCHANGED <<now, loop>>

Check ==
    /\ TrackerCheck
    /\ loop_running' = TRUE
    /\ last_check' = now
    /\ UNCHANGED <<now, history>>

\* Ticks come before the loop runs for as long as the session takes to start;
\* once it runs, no MaxCheckLag passes without a Check.
AdvanceTime ==
    /\ now < MaxTime
    /\ loop_running => now - last_check < MaxCheckLag
    /\ now' = now + 1
    /\ UNCHANGED <<tracker, loop, history>>

Next == RecordTick \/ Check \/ AdvanceTime

Spec == Init /\ [][Next]_vars

-----------------------------------------------------------------------------
\* Every field keeps its type, and no recorded time lies in the future.
TypeOK ==
    /\ has_seen_tick \in BOOLEAN
    /\ stale_active \in BOOLEAN
    /\ recovery_pending \in BOOLEAN
    /\ loop_running \in BOOLEAN
    /\ now \in 0 .. MaxTime
    /\ last_tick_time \in 0 .. now
    /\ recovery_candidate_since \in 0 .. now
    /\ last_check \in 0 .. now
    /\ steady_since \in 0 .. now
    /\ outage_end \in {Never} \cup 0 .. now

\* A channel that has been silent for the threshold plus one loop period is
\* flagged, whatever ticks and checks came before: [MARKET_DATA_STALE] is late
\* by at most one iteration of the main loop.
SilenceDetected ==
    loop_running /\ has_seen_tick /\ Outage => stale_active

\* A feed that has not paused for StaleThreshold seconds during the grace
\* period and one loop period is not flagged: recovery does not hang.
SteadyFeedNotStale ==
    /\ loop_running /\ has_seen_tick /\ ~Silent
    /\ now - steady_since > RecoveryGrace * UnitsPerSecond + MaxCheckLag
    => ~stale_active

\* [MARKET_DATA_RECOVERED] is reported only a full grace period after the last
\* outage: a silence inside the grace period starts the period again.
RecoveryNeedsGrace ==
    [][stale_active /\ ~stale_active'
         => \/ outage_end = Never
            \/ WholeSeconds(now - outage_end) >= RecoveryGrace]_vars

\* The grace period always starts at a tick: Check never finds an episode that
\* is neither silent nor pending, so the loop's own start of the period
\* (the !recovery_pending_ branch of Check) is never taken.
GraceStartsAtTick ==
    stale_active /\ ~recovery_pending => Silent
=============================================================================
