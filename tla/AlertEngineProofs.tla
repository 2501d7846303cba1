-------------------------- MODULE AlertEngineProofs --------------------------
(***************************************************************************)
(* The alert engine's invariants and its refinement of AlertThrottle, for  *)
(* every set of instruments, every interval and every run of the clock.    *)
(***************************************************************************)
EXTENDS AlertEngine, TLAPS

-----------------------------------------------------------------------------
(* What the engine knows of one instrument, against what really happened.   *)

\* The two flags agree: an instrument holds an alert time exactly while its
\* episode is open.
FlagsAgree(i) == is_negative[i] <=> has_alert_time[i]

\* While an episode is open the remembered time is the last alert's.
RemembersLast(i) == has_alert_time[i] => last_alert_time[i] \in alerts[i]

\* No alert is later than the remembered one, nor than the clock.
LastIsLatest(i) ==
    /\ last_alert_time[i] <= now
    /\ \A t \in alerts[i] : t <= last_alert_time[i]

\* Once the episode is over every alert is at least an interval old.
ForgottenIsOld(i) ==
    ~has_alert_time[i] => \A t \in alerts[i] : now - t >= RepeatInterval

\* The episode is closed exactly when there was no alert yet or the rate was
\* seen back above the threshold an interval after the last one.
ClosedIsRecovered(i) ==
    ~is_negative[i] <=> (alerts[i] = {} \/ RecoveredLate(i))

EngineKnows(i) ==
    /\ FlagsAgree(i)
    /\ RemembersLast(i)
    /\ LastIsLatest(i)
    /\ ForgottenIsOld(i)
    /\ ClosedIsRecovered(i)

IInv ==
    /\ TypeOK
    /\ AlertSpacing
    /\ \A i \in Instruments : EngineKnows(i)

-----------------------------------------------------------------------------
(* Initially nothing was alerted and nothing is remembered. *)
LEMMA InitIInv == Init => IInv
  BY RepeatIntervalAssumption, MaxTimeAssumption
  DEF Init, EngineInit, IInv, TypeOK, AlertSpacing, EngineKnows, FlagsAgree,
      RemembersLast, LastIsLatest, ForgottenIsOld, ClosedIsRecovered,
      RecoveredLate, Transitions, NoEvent

(* An evaluation keeps every variable's type. *)
LEMMA EvaluateTypeOK ==
  ASSUME TypeOK, NEW i \in Instruments, NEW below \in BOOLEAN, Evaluate(i, below)
  PROVE  TypeOK'
  BY DEF TypeOK, Evaluate, EngineEvaluate, Transition, Transitions,
         EndsEpisode, IntervalElapsed

(* The engine is due to alert exactly when the history says so. *)
LEMMA ElapsedIsDue ==
  ASSUME IInv, NEW i \in Instruments
  PROVE  IntervalElapsed(i) <=> \A t \in alerts[i] : now - t >= RepeatInterval
<1>1. /\ now \in Int /\ RepeatInterval \in Int
      /\ last_alert_time[i] \in Int
      /\ has_alert_time[i] \in BOOLEAN
      /\ \A t \in alerts[i] : t \in Int
  BY RepeatIntervalAssumption, MaxTimeAssumption DEF IInv, TypeOK
<1>2. EngineKnows(i)
  BY DEF IInv
<1>3. CASE has_alert_time[i]
  BY <1>1, <1>2, <1>3 DEF EngineKnows, RemembersLast, LastIsLatest, IntervalElapsed
<1>4. CASE ~has_alert_time[i]
  BY <1>2, <1>4 DEF EngineKnows, ForgottenIsOld, IntervalElapsed
<1>5. QED
  BY <1>3, <1>4

(* An alert is raised exactly when the throttle is due. *)
LEMMA RaisedIsDue ==
  ASSUME IInv, NEW i \in Instruments, NEW below \in BOOLEAN
  PROVE  Transition(i, below) # "None"
            <=> below /\ \A t \in alerts[i] : now - t >= RepeatInterval
<1>1. FlagsAgree(i) /\ ForgottenIsOld(i)
  BY DEF IInv, EngineKnows
<1>2. CASE is_negative[i]
  BY <1>2, ElapsedIsDue DEF Transition
<1>3. CASE ~is_negative[i]
  BY <1>1, <1>3 DEF FlagsAgree, ForgottenIsOld, Transition
<1>4. QED
  BY <1>2, <1>3

(* The evaluation of one instrument leaves what is known of the others. *)
LEMMA EvaluateOthers ==
  ASSUME IInv, NEW i \in Instruments, NEW below \in BOOLEAN, Evaluate(i, below),
         NEW j \in Instruments, j # i
  PROVE  /\ EngineKnows(j)'
         /\ alerts'[j] = alerts[j]
<1>1. /\ is_negative'[j] = is_negative[j]
      /\ has_alert_time'[j] = has_alert_time[j]
      /\ last_alert_time'[j] = last_alert_time[j]
      /\ alerts'[j] = alerts[j]
      /\ calm'[j] = calm[j]
      /\ now' = now
  BY DEF IInv, TypeOK, Evaluate, EngineEvaluate
<1>2. QED
  BY <1>1 DEF IInv, EngineKnows, FlagsAgree, RemembersLast, LastIsLatest,
              ForgottenIsOld, ClosedIsRecovered, RecoveredLate

(* What an alert leaves behind: an open episode that remembers it. *)
LEMMA RaisedSelf ==
  ASSUME IInv, NEW i \in Instruments, NEW below \in BOOLEAN, Evaluate(i, below),
         Transition(i, below) # "None"
  PROVE  EngineKnows(i)'
<1>1. below
  BY RaisedIsDue
<1>2. /\ is_negative'[i] = TRUE
      /\ has_alert_time'[i] = TRUE
      /\ last_alert_time'[i] = now
      /\ alerts'[i] = alerts[i] \cup {now}
      /\ calm'[i] = {}
      /\ now' = now
  BY <1>1 DEF IInv, TypeOK, Evaluate, EngineEvaluate, EndsEpisode
<1>3. /\ now \in Int
      /\ \A t \in alerts[i] : t <= now
  BY MaxTimeAssumption DEF IInv, TypeOK, EngineKnows, LastIsLatest
<1>4. FlagsAgree(i)' /\ RemembersLast(i)' /\ ForgottenIsOld(i)'
  BY <1>2 DEF FlagsAgree, RemembersLast, ForgottenIsOld
<1>5. LastIsLatest(i)'
  BY <1>2, <1>3 DEF LastIsLatest
<1>6. ClosedIsRecovered(i)'
  BY <1>2 DEF ClosedIsRecovered, RecoveredLate
<1>7. QED
  BY <1>4, <1>5, <1>6 DEF EngineKnows

(* A late recovery closes the episode, and every alert is then old. *)
LEMMA EndedSelf ==
  ASSUME IInv, NEW i \in Instruments, NEW below \in BOOLEAN, Evaluate(i, below),
         EndsEpisode(i, below)
  PROVE  EngineKnows(i)'
<1>1. Transition(i, below) = "None"
  BY DEF EndsEpisode, Transition
<1>2. /\ is_negative'[i] = FALSE
      /\ has_alert_time'[i] = FALSE
      /\ last_alert_time'[i] = last_alert_time[i]
      /\ alerts'[i] = alerts[i]
      /\ calm'[i] = calm[i] \cup {now}
      /\ now' = now
  BY <1>1 DEF IInv, TypeOK, Evaluate, EngineEvaluate, EndsEpisode
<1>3. \A t \in alerts[i] : now - t >= RepeatInterval
  BY ElapsedIsDue DEF EndsEpisode
<1>4. FlagsAgree(i)' /\ RemembersLast(i)' /\ ForgottenIsOld(i)'
  BY <1>2, <1>3 DEF FlagsAgree, RemembersLast, ForgottenIsOld
<1>5. LastIsLatest(i)'
  BY <1>2 DEF IInv, EngineKnows, LastIsLatest
<1>6. RecoveredLate(i)'
  BY <1>2, <1>3 DEF RecoveredLate
<1>7. QED
  BY <1>2, <1>4, <1>5, <1>6 DEF EngineKnows, ClosedIsRecovered

(* A suppressed reminder or an early recovery leaves the episode open. *)
LEMMA HeldSelf ==
  ASSUME IInv, NEW i \in Instruments, NEW below \in BOOLEAN, Evaluate(i, below),
         Transition(i, below) = "None", ~EndsEpisode(i, below)
  PROVE  EngineKnows(i)'
<1>1. /\ FlagsAgree(i)
      /\ RemembersLast(i)
      /\ LastIsLatest(i)
      /\ ClosedIsRecovered(i)
  BY DEF IInv, EngineKnows
<1>2. is_negative[i] = TRUE /\ has_alert_time[i] = TRUE
  <2>1. is_negative[i] \in BOOLEAN /\ has_alert_time[i] \in BOOLEAN
    BY DEF IInv, TypeOK
  <2>2. CASE below
    BY <1>1, <2>1, <2>2 DEF Transition, FlagsAgree
  <2>3. CASE ~below
    BY <1>1, <2>1, <2>3 DEF EndsEpisode, IntervalElapsed, FlagsAgree
  <2>4. QED
    BY <2>2, <2>3
<1>3. /\ is_negative'[i] = TRUE
      /\ has_alert_time'[i] = TRUE
      /\ last_alert_time'[i] = last_alert_time[i]
      /\ alerts'[i] = alerts[i]
      /\ calm'[i] = IF below THEN calm[i] ELSE calm[i] \cup {now}
      /\ now' = now
  BY <1>2 DEF IInv, TypeOK, Evaluate, EngineEvaluate
<1>4. FlagsAgree(i)' /\ RemembersLast(i)' /\ ForgottenIsOld(i)' /\ LastIsLatest(i)'
  BY <1>1, <1>2, <1>3
  DEF FlagsAgree, RemembersLast, ForgottenIsOld, LastIsLatest
<1>5. alerts[i] # {} /\ ~RecoveredLate(i)
  BY <1>1, <1>2 DEF ClosedIsRecovered
<1>6. ~RecoveredLate(i)'
  <2>1. CASE below
    BY <1>3, <1>5, <2>1 DEF RecoveredLate
  <2>2. CASE ~below
    <3>1. ~IntervalElapsed(i)
      BY <2>2 DEF EndsEpisode
    <3>2. ~ \A t \in alerts[i] : now - t >= RepeatInterval
      BY <3>1, ElapsedIsDue
    <3>3. QED
      BY <1>3, <1>5, <2>2, <3>2 DEF RecoveredLate
  <2>3. QED
    BY <2>1, <2>2
<1>7. QED
  BY <1>3, <1>4, <1>5, <1>6 DEF EngineKnows, ClosedIsRecovered

(* Alerts stay an interval apart: a new one is raised only when due. *)
LEMMA EvaluateSpacing ==
  ASSUME IInv, NEW i \in Instruments, NEW below \in BOOLEAN, Evaluate(i, below)
  PROVE  AlertSpacing'
<1>1. SUFFICES ASSUME NEW j \in Instruments, NEW s \in alerts'[j], NEW t \in alerts'[j],
                      s < t
               PROVE  t - s >= RepeatInterval
  BY DEF AlertSpacing
<1>2. \A p, q \in alerts[j] : p < q => q - p >= RepeatInterval
  BY DEF IInv, AlertSpacing
<1>3. CASE alerts'[j] = alerts[j]
  BY <1>1, <1>2, <1>3
<1>4. CASE alerts'[j] # alerts[j]
  <2>1. j = i
    BY <1>4, EvaluateOthers
  <2>2. /\ Transition(i, below) # "None"
        /\ alerts'[j] = alerts[j] \cup {now}
    BY <1>4, <2>1 DEF IInv, TypeOK, Evaluate
  <2>3. \A p \in alerts[j] : now - p >= RepeatInterval
    BY <2>1, <2>2, RaisedIsDue
  <2>4. /\ now \in Int
        /\ RepeatInterval \in Nat
        /\ \A p \in alerts[j] : p \in Int /\ p <= now
    BY RepeatIntervalAssumption, MaxTimeAssumption
    DEF IInv, TypeOK, EngineKnows, LastIsLatest
  <2>5. QED
    BY <1>1, <1>2, <2>2, <2>3, <2>4
<1>5. QED
  BY <1>3, <1>4

(* Time only makes alerts older. *)
LEMMA AdvanceClockIInv == ASSUME IInv, AdvanceClock PROVE IInv'
<1>1. TypeOK'
  BY MaxTimeAssumption DEF IInv, TypeOK, AdvanceClock, engine, history
<1>2. AlertSpacing'
  BY DEF IInv, AlertSpacing, AdvanceClock, history
<1>3. ASSUME NEW i \in Instruments PROVE EngineKnows(i)'
  <2>1. /\ is_negative'[i] = is_negative[i]
        /\ has_alert_time'[i] = has_alert_time[i]
        /\ last_alert_time'[i] = last_alert_time[i]
        /\ alerts'[i] = alerts[i]
        /\ calm'[i] = calm[i]
        /\ now' = now + 1
    BY DEF AdvanceClock, engine, history
  <2>2. /\ now \in Int
        /\ RepeatInterval \in Nat
        /\ last_alert_time[i] \in Int
        /\ \A t \in alerts[i] : t \in Int
    BY RepeatIntervalAssumption, MaxTimeAssumption DEF IInv, TypeOK
  <2>3. EngineKnows(i)
    BY DEF IInv
  <2>4. FlagsAgree(i)' /\ RemembersLast(i)' /\ ClosedIsRecovered(i)'
    BY <2>1, <2>3 DEF EngineKnows, FlagsAgree, RemembersLast, ClosedIsRecovered,
                      RecoveredLate
  <2>5. LastIsLatest(i)' /\ ForgottenIsOld(i)'
    BY <2>1, <2>2, <2>3 DEF EngineKnows, LastIsLatest, ForgottenIsOld
  <2>6. QED
    BY <2>4, <2>5 DEF EngineKnows
<1>4. QED
  BY <1>1, <1>2, <1>3 DEF IInv

(* The invariant is inductive. *)
LEMMA NextIInv == IInv /\ [Next]_vars => IInv'
<1>1. ASSUME IInv, NEW i \in Instruments, NEW below \in BOOLEAN, Evaluate(i, below)
      PROVE  IInv'
  <2>1. TypeOK'
    BY <1>1, EvaluateTypeOK DEF IInv
  <2>2. AlertSpacing'
    BY <1>1, EvaluateSpacing
  <2>3. EngineKnows(i)'
    BY <1>1, RaisedSelf, EndedSelf, HeldSelf
  <2>4. ASSUME NEW j \in Instruments PROVE EngineKnows(j)'
    BY <1>1, <2>3, EvaluateOthers
  <2>5. QED
    BY <2>1, <2>2, <2>4 DEF IInv
<1>2. ASSUME IInv, UNCHANGED vars PROVE IInv'
  BY <1>2 DEF vars, engine, history, IInv, TypeOK, AlertSpacing, EngineKnows,
              FlagsAgree, RemembersLast, LastIsLatest, ForgottenIsOld,
              ClosedIsRecovered, RecoveredLate
<1>3. QED
  BY <1>1, <1>2, AdvanceClockIInv DEF Next

(* So the invariant holds throughout. *)
LEMMA SpecIInv == Spec => []IInv
  BY InitIInv, NextIInv, PTL DEF Spec

-----------------------------------------------------------------------------
(* Every field of AlertState keeps its type. *)
THEOREM TypeCorrect == Spec => []TypeOK
<1>1. IInv => TypeOK
  BY DEF IInv
<1>2. QED
  BY <1>1, SpecIInv, PTL

(* No contract is alerted twice within the repeat interval. *)
THEOREM SpacingCorrect == Spec => []AlertSpacing
<1>1. IInv => AlertSpacing
  BY DEF IInv
<1>2. QED
  BY <1>1, SpecIInv, PTL

(* An alert is reported as a new episode exactly when there was none before  *)
(* or a late recovery was seen since.                                        *)
THEOREM TransitionCorrect == Spec => TransitionTellsRecovery
<1> DEFINE Tells ==
      \A i \in Instruments :
         alerts'[i] # alerts[i] =>
            (event'.transition = "EnteredNegative"
               <=> alerts[i] = {} \/ RecoveredLate(i))
<1>1. IInv /\ [Next]_vars => [Tells]_vars
  <2>1. ASSUME IInv, NEW i \in Instruments, NEW below \in BOOLEAN, Evaluate(i, below),
               NEW j \in Instruments, alerts'[j] # alerts[j]
        PROVE  event'.transition = "EnteredNegative"
                  <=> alerts[j] = {} \/ RecoveredLate(j)
    <3>1. j = i
      BY <2>1, EvaluateOthers
    <3>2. Transition(i, below) # "None"
      BY <2>1, <3>1 DEF IInv, TypeOK, Evaluate
    <3>3. event'.transition = Transition(i, below)
      BY <2>1 DEF Evaluate, EngineEvaluate
    <3>4. below
      BY <2>1, <3>2, RaisedIsDue
    <3>5. Transition(i, below) = "EnteredNegative" <=> ~is_negative[i]
      BY <3>4 DEF Transition
    <3>6. ClosedIsRecovered(i)
      BY <2>1 DEF IInv, EngineKnows
    <3>7. QED
      BY <3>1, <3>3, <3>5, <3>6 DEF ClosedIsRecovered
  <2>2. ASSUME AdvanceClock PROVE Tells
    BY <2>2 DEF AdvanceClock, history
  <2>3. QED
    BY <2>1, <2>2 DEF Next
<1>2. QED
  BY <1>1, SpecIInv, PTL DEF Spec, TransitionTellsRecovery

-----------------------------------------------------------------------------
(* The engine, flags and all, is a throttle with one alert per interval.     *)
THEOREM RefinesThrottle == Spec => ImplementsThrottle
<1>1. Init => Throttle!Init
  BY DEF Init, Throttle!Init
<1>2. IInv /\ [Next]_vars => [Throttle!Next]_Throttle!vars
  <2>1. ASSUME IInv, NEW i \in Instruments, NEW below \in BOOLEAN, Evaluate(i, below)
        PROVE  Throttle!Evaluate(i, below)
    <3>1. Transition(i, below) # "None" <=> below /\ Throttle!Due(i)
      BY <2>1, RaisedIsDue DEF Throttle!Due
    <3>2. CASE Transition(i, below) # "None"
      BY <2>1, <3>1, <3>2 DEF Evaluate, Throttle!Evaluate
    <3>3. CASE Transition(i, below) = "None"
      <4>1. alerts' = alerts
        BY <2>1, <3>3 DEF Evaluate, IInv, TypeOK
      <4>2. QED
        BY <2>1, <3>1, <3>3, <4>1 DEF Evaluate, Throttle!Evaluate
    <3>4. QED
      BY <3>2, <3>3
  <2>2. ASSUME AdvanceClock PROVE Throttle!AdvanceClock
    BY <2>2 DEF AdvanceClock, history, Throttle!AdvanceClock
  <2>3. ASSUME UNCHANGED vars PROVE UNCHANGED Throttle!vars
    BY <2>3 DEF vars, history, Throttle!vars
  <2>4. QED
    BY <2>1, <2>2, <2>3 DEF Next, Throttle!Next
<1>3. QED
  BY <1>1, <1>2, SpecIInv, PTL DEF Spec, ImplementsThrottle, Throttle!Spec
=============================================================================
