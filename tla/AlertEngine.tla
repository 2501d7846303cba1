----------------------------- MODULE AlertEngine -----------------------------
(***************************************************************************)
(* basis_monitor::AlertEngine: the per-instrument state machine that turns *)
(* a stream of annualised basis rates into EnteredNegative and             *)
(* RepeatedNegative alerts.  A rate is abstracted to whether it is below   *)
(* negative_threshold_.  The clock (std::chrono::system_clock) counts      *)
(* minutes and does not step backwards here.                               *)
(***************************************************************************)
EXTENDS Integers

CONSTANTS
    Instruments,     \* contracts that are evaluated
    RepeatInterval,  \* repeat_interval_minutes of config/alert.json
    MaxTime          \* bound on the clock

\* The loader replaces an interval that is not positive by 20.
ASSUME RepeatIntervalAssumption == RepeatInterval \in Nat \ {0}
ASSUME MaxTimeAssumption == MaxTime \in Nat

VARIABLES
    is_negative,      \* AlertState::is_negative of each instrument
    last_alert_time,  \* AlertState::last_alert_time, the epoch (0) by default
    has_alert_time,   \* AlertState::has_alert_time
    event,            \* the AlertEvent returned by the last Evaluate
    now,              \* clock_()
    alerts,           \* history: the times at which i was alerted
    asked,            \* history: the last Evaluate since the clock moved
    calm              \* history: times since i's last alert at which i was
                      \* evaluated and was not below the threshold

engine == <<is_negative, last_alert_time, has_alert_time, event>>
history == <<alerts, calm>>
vars == <<engine, now, history, asked>>

Transitions == {"None", "EnteredNegative", "RepeatedNegative"}
NoEvent == [instrument_id |-> "none", transition |-> "None"]

-----------------------------------------------------------------------------
\* Mutant: the comparison with the interval is strict.
IntervalElapsedStrictly(i) ==
    \/ ~has_alert_time[i]
    \/ now - last_alert_time[i] > RepeatInterval

\* No alert is remembered, or the remembered one is an interval old.
IntervalElapsed(i) ==
    \/ ~has_alert_time[i]
    \/ now - last_alert_time[i] >= RepeatInterval

\* Mutant: the end of an episode is reported, as the enumeration would allow.
TransitionReportsRecovery(i, below) ==
    IF below /\ ~is_negative[i] THEN "EnteredNegative"
    ELSE IF below /\ IntervalElapsed(i) THEN "RepeatedNegative"
    ELSE IF is_negative[i] /\ IntervalElapsed(i) THEN "Recovered"
    ELSE "None"

\* The transition Evaluate reports for i, read from the state before it.
Transition(i, below) ==
    IF below /\ ~is_negative[i] THEN "EnteredNegative"
    ELSE IF below /\ IntervalElapsed(i) THEN "RepeatedNegative"
    ELSE "None"

\* Mutants: every recovery ends the episode; none does.
EndsEpisodeAtOnce(i, below) == ~below
EndsEpisodeNever(i, below) == FALSE

\* A rate that is not below the threshold ends the episode, and forgets the
\* last alert, only once the interval has passed.
EndsEpisode(i, below) == ~below /\ IntervalElapsed(i)

EngineInit ==
    /\ is_negative = [i \in Instruments |-> FALSE]
    /\ last_alert_time = [i \in Instruments |-> 0]
    /\ has_alert_time = [i \in Instruments |-> FALSE]
    /\ event = NoEvent

EngineEvaluate(i, below) ==
    LET raised == Transition(i, below) # "None"
    IN  /\ event' = [instrument_id |-> i, transition |-> Transition(i, below)]
        /\ is_negative' =
              [is_negative EXCEPT ![i] = (@ \/ below) /\ ~EndsEpisode(i, below)]
        /\ last_alert_time' =
              [last_alert_time EXCEPT ![i] = IF raised THEN now ELSE @]
        /\ has_alert_time' =
              [has_alert_time EXCEPT ![i] = raised \/ (@ /\ ~EndsEpisode(i, below))]

-----------------------------------------------------------------------------
Init ==
    /\ EngineInit
    /\ now \in 0 .. MaxTime
    /\ alerts = [i \in Instruments |-> {}]
    /\ calm = [i \in Instruments |-> {}]
    /\ asked = {}

Evaluate(i, below) ==
    LET raised == Transition(i, below) # "None"
    IN  /\ EngineEvaluate(i, below)
        /\ alerts' = [alerts EXCEPT ![i] = IF raised THEN @ \cup {now} ELSE @]
        /\ calm' = [calm EXCEPT ![i] = IF raised THEN {}
                                       ELSE IF below THEN @ ELSE @ \cup {now}]
        /\ asked' = {<<i, below>>}
        /\ UNCHANGED now

AdvanceClock ==
    /\ now < MaxTime
    /\ now' = now + 1
    /\ asked' = {}
    /\ UNCHANGED <<engine, history>>

Next ==
    \/ \E i \in Instruments, below \in BOOLEAN : Evaluate(i, below)
    \/ AdvanceClock

Spec == Init /\ [][Next]_vars

-----------------------------------------------------------------------------
\* Every variable keeps the type the class declares for it.
TypeOK ==
    /\ is_negative \in [Instruments -> BOOLEAN]
    /\ last_alert_time \in [Instruments -> 0 .. MaxTime]
    /\ has_alert_time \in [Instruments -> BOOLEAN]
    /\ event \in [instrument_id : Instruments \cup {"none"}, transition : Transitions]
    /\ now \in 0 .. MaxTime
    /\ alerts \in [Instruments -> SUBSET (0 .. MaxTime)]
    /\ calm \in [Instruments -> SUBSET (0 .. MaxTime)]
    /\ asked \in SUBSET (Instruments \X BOOLEAN)

\* No instrument is alerted twice within RepeatInterval, whatever mixture of
\* entries, reminders and short recoveries lies between the two alerts: the
\* "repeated reminders and state keeping" that README.md promises.
AlertSpacing ==
    \A i \in Instruments : \A s, t \in alerts[i] :
        s < t => t - s >= RepeatInterval

\* A late recovery: a rate that was not below the threshold, seen at least an
\* interval after every alert raised so far.
RecoveredLate(i) ==
    \E c \in calm[i] : \A t \in alerts[i] : c - t >= RepeatInterval

\* The reported transition tells a new episode from a reminder: an alert is
\* EnteredNegative exactly when it is the instrument's first one or a late
\* recovery was evaluated since the previous one.
TransitionTellsRecovery ==
    [][\A i \in Instruments :
          alerts'[i] # alerts[i] =>
             (event'.transition = "EnteredNegative"
                <=> alerts[i] = {} \/ RecoveredLate(i))]_vars

\* The three flags of AlertState are only a way to implement a throttle: the
\* engine raises an alert exactly when AlertThrottle does.
Throttle == INSTANCE AlertThrottle
ImplementsThrottle == Throttle!Spec
=============================================================================
