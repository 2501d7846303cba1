------------------------- MODULE HealthTrackerProofs -------------------------
(***************************************************************************)
(* The stale detection and recovery guarantees of one channel, for every   *)
(* threshold, grace period, clock resolution and loop period.              *)
(***************************************************************************)
EXTENDS HealthTracker, TLAPS

(* Comparing truncated whole seconds with a bound in seconds is comparing   *)
(* the duration with the bound in clock units.                              *)
LEMMA WholeSecondsBound ==
  ASSUME NEW d \in Nat, NEW s \in Nat
  PROVE  WholeSeconds(d) >= s <=> d >= s * UnitsPerSecond
<1> DEFINE q == d \div UnitsPerSecond
<1>1. /\ q \in Int
      /\ UnitsPerSecond * q <= d
      /\ d < UnitsPerSecond * (q + 1)
  BY TrackerAssumption
<1>2. ASSUME q >= s PROVE d >= s * UnitsPerSecond
  <2>1. UnitsPerSecond * q >= UnitsPerSecond * s
    BY <1>1, <1>2, TrackerAssumption
  <2>2. QED
    BY <1>1, <2>1, TrackerAssumption
<1>3. ASSUME ~(q >= s) PROVE ~(d >= s * UnitsPerSecond)
  <2>1. q + 1 <= s
    BY <1>1, <1>3
  <2>2. UnitsPerSecond * (q + 1) <= UnitsPerSecond * s
    BY <1>1, <2>1, TrackerAssumption
  <2>3. QED
    BY <1>1, <2>2, TrackerAssumption
<1>4. QED
  BY <1>2, <1>3 DEF WholeSeconds

-----------------------------------------------------------------------------
\* The threshold and the grace period in clock units.
StaleUnits == StaleThreshold * UnitsPerSecond
GraceUnits == RecoveryGrace * UnitsPerSecond

\* Nothing happens to the tracker out of order.
Ordered ==
    /\ stale_active => has_seen_tick /\ loop_running
    /\ recovery_pending => stale_active
    /\ loop_running => now - last_check <= MaxCheckLag
    /\ steady_since <= last_tick_time
    /\ outage_end <= last_tick_time

\* What the last Check found: a silence it saw is flagged and not pending.
CheckSawSilence ==
    loop_running /\ has_seen_tick /\ last_check - last_tick_time >= StaleUnits
       => stale_active /\ ~recovery_pending

\* An episode that is not pending has had no tick since that Check.
NotPendingIsSilent ==
    stale_active /\ ~recovery_pending => last_check - last_tick_time >= StaleUnits

\* The grace period starts after the last outage and not after the feed
\* became steady, and the last Check found it unfinished.
PendingGrace ==
    stale_active /\ recovery_pending =>
       /\ outage_end <= recovery_candidate_since
       /\ recovery_candidate_since <= steady_since
       /\ \/ last_check <= recovery_candidate_since
          \/ last_check - recovery_candidate_since < GraceUnits

IInv ==
    /\ TypeOK
    /\ Ordered
    /\ CheckSawSilence
    /\ NotPendingIsSilent
    /\ PendingGrace

-----------------------------------------------------------------------------
(* The thresholds, in clock units, are natural numbers. *)
LEMMA UnitsNat ==
  /\ StaleUnits \in Nat /\ StaleUnits > 0
  /\ GraceUnits \in Nat
  BY TrackerAssumption DEF StaleUnits, GraceUnits

(* The truncated durations of Check and of the outage, as clock units. *)
LEMMA SilentUnits == ASSUME TypeOK PROVE Silent <=> now - last_tick_time >= StaleUnits
<1>1. now - last_tick_time \in Nat /\ StaleThreshold \in Nat
  BY TrackerAssumption DEF TypeOK
<1>2. QED
  BY <1>1, WholeSecondsBound DEF Silent, Silence, StaleUnits

(* Likewise the grace period. *)
LEMMA SettledUnits ==
  ASSUME TypeOK PROVE Settled <=> now - recovery_candidate_since >= GraceUnits
<1>1. now - recovery_candidate_since \in Nat /\ RecoveryGrace \in Nat
  BY TrackerAssumption DEF TypeOK
<1>2. QED
  BY <1>1, WholeSecondsBound DEF Settled, GraceUnits

(* An outage lasts the threshold and one period of the loop. *)
LEMMA OutageUnits == Outage <=> now - last_tick_time >= StaleUnits + MaxCheckLag
  BY DEF Outage, Silence, StaleUnits

(* The three bounds the runs check follow from the invariant. *)
LEMMA IInvSilenceDetected == IInv => SilenceDetected
  BY OutageUnits, UnitsNat, TrackerAssumption
  DEF IInv, TypeOK, Ordered, CheckSawSilence, SilenceDetected

(* With no grace period pending the feed is silent, so only a tick starts one. *)
LEMMA IInvGraceStartsAtTick == IInv => GraceStartsAtTick
  BY SilentUnits, UnitsNat DEF IInv, TypeOK, NotPendingIsSilent, GraceStartsAtTick

(* A feed that has been steady for long enough has been cleared by a check. *)
LEMMA IInvSteadyFeed == IInv => SteadyFeedNotStale
<1> SUFFICES ASSUME IInv, loop_running, has_seen_tick, ~Silent, stale_active,
                    now - steady_since > GraceUnits + MaxCheckLag
             PROVE  FALSE
  BY DEF SteadyFeedNotStale, GraceUnits
<1>1. now - last_tick_time < StaleUnits
  BY SilentUnits, UnitsNat DEF IInv, TypeOK
<1>2. recovery_pending
  BY <1>1, UnitsNat DEF IInv, TypeOK, NotPendingIsSilent
<1>3. /\ recovery_candidate_since <= steady_since
      /\ \/ last_check <= recovery_candidate_since
         \/ last_check - recovery_candidate_since < GraceUnits
  BY <1>2 DEF IInv, PendingGrace
<1>4. now - last_check <= MaxCheckLag
  BY DEF IInv, Ordered
<1>5. QED
  BY <1>3, <1>4, UnitsNat, TrackerAssumption DEF IInv, TypeOK

-----------------------------------------------------------------------------
(* The tracker's constructor establishes the invariant; each call keeps it. *)
LEMMA InitIInv == ASSUME Init PROVE IInv
<1>1. TypeOK
  <2>1. /\ has_seen_tick \in BOOLEAN /\ stale_active \in BOOLEAN
        /\ recovery_pending \in BOOLEAN /\ loop_running \in BOOLEAN
    BY DEF Init, TrackerInit
  <2>2. QED
    BY <2>1, TrackerAssumption DEF Init, TrackerInit, TypeOK
<1>2. Ordered
  BY DEF Init, TrackerInit, Ordered, Never
<1>3. ~loop_running /\ ~stale_active
  BY DEF Init, TrackerInit
<1>4. CheckSawSilence /\ NotPendingIsSilent /\ PendingGrace
  BY <1>3 DEF CheckSawSilence, NotPendingIsSilent, PendingGrace
<1>5. QED
  BY <1>1, <1>2, <1>4 DEF IInv

(* A tick ends an episode's silence or begins its grace period. *)
LEMMA RecordTickIInv == ASSUME IInv, RecordTick PROVE IInv'
<1>1. /\ has_seen_tick' = TRUE
      /\ last_tick_time' = now
      /\ stale_active' = stale_active
      /\ now' = now
      /\ loop_running' = loop_running
      /\ last_check' = last_check
  BY DEF RecordTick, TrackerRecordTick, loop
<1>2. /\ recovery_pending' \in BOOLEAN
      /\ recovery_pending' <=> stale_active \/ recovery_pending
      /\ recovery_candidate_since' =
            IF stale_active /\ ~recovery_pending THEN now ELSE recovery_candidate_since
      /\ steady_since' = IF ~has_seen_tick \/ Silent THEN now ELSE steady_since
      /\ outage_end' = IF has_seen_tick /\ Outage THEN now ELSE outage_end
  BY DEF RecordTick, TrackerRecordTick, IInv, TypeOK
<1>3. TypeOK'
  BY <1>1, <1>2 DEF IInv, TypeOK
<1>4. Ordered'
  BY <1>1, <1>2 DEF IInv, TypeOK, Ordered, Never
<1>5. CheckSawSilence'
  BY <1>1, UnitsNat DEF IInv, TypeOK, CheckSawSilence
<1>6. NotPendingIsSilent'
  BY <1>1, <1>2 DEF NotPendingIsSilent
<1>7. PendingGrace'
  <2>1. CASE stale_active /\ ~recovery_pending
    <3>1. Silent
      BY <2>1, IInvGraceStartsAtTick DEF GraceStartsAtTick
    <3>2. recovery_candidate_since' = now /\ steady_since' = now /\ last_check <= now
      BY <1>2, <2>1, <3>1 DEF IInv, TypeOK
    <3>3. outage_end' <= now
      BY <1>2 DEF IInv, TypeOK, Ordered, Never
    <3>4. QED
      BY <1>1, <3>2, <3>3 DEF PendingGrace, IInv, TypeOK
  <2>2. CASE stale_active /\ recovery_pending
    <3>1. recovery_candidate_since' = recovery_candidate_since
      BY <1>2, <2>2
    <3>2. ~Outage
      BY <2>2, OutageUnits, UnitsNat, TrackerAssumption
      DEF IInv, TypeOK, Ordered, CheckSawSilence
    <3>3. outage_end' = outage_end
      BY <1>2, <3>2
    <3>4. steady_since <= steady_since'
      BY <1>2 DEF IInv, TypeOK
    <3>5. QED
      BY <1>1, <1>2, <2>2, <3>1, <3>3, <3>4 DEF IInv, TypeOK, PendingGrace
  <2>3. CASE ~stale_active
    BY <1>1, <2>3 DEF PendingGrace
  <2>4. QED
    BY <2>1, <2>2, <2>3
<1>8. QED
  BY <1>3, <1>4, <1>5, <1>6, <1>7 DEF IInv

(* A check sees the silence, the end of the grace period, or nothing new. *)
LEMMA CheckIInv == ASSUME IInv, Check PROVE IInv'
<1>1. /\ has_seen_tick' = has_seen_tick
      /\ last_tick_time' = last_tick_time
      /\ now' = now
      /\ loop_running' = TRUE
      /\ last_check' = now
      /\ steady_since' = steady_since
      /\ outage_end' = outage_end
  BY DEF Check, TrackerCheck, history
<1>2. /\ stale_active \in BOOLEAN /\ recovery_pending \in BOOLEAN
      /\ has_seen_tick \in BOOLEAN
  BY DEF IInv, TypeOK
<1>3. /\ Silent <=> now - last_tick_time >= StaleUnits
      /\ Settled <=> now - recovery_candidate_since >= GraceUnits
  BY SilentUnits, SettledUnits DEF IInv
<1>4. GraceStartsAtTick
  BY IInvGraceStartsAtTick
<1>5. CASE ~has_seen_tick \/ (~stale_active /\ ~Silent)
  <2>1. /\ stale_active' = stale_active
        /\ recovery_pending' = recovery_pending
        /\ recovery_candidate_since' = recovery_candidate_since
    BY <1>2, <1>5 DEF Check, TrackerCheck, CheckEvent, IInv, Ordered
  <2>2. ~stale_active
    BY <1>2, <1>5 DEF IInv, Ordered
  <2>3. TypeOK'
    BY <1>1, <2>1 DEF IInv, TypeOK
  <2>4. Ordered'
    BY <1>1, <2>1, TrackerAssumption DEF IInv, TypeOK, Ordered
  <2>5. CheckSawSilence'
    BY <1>1, <1>3, <1>5 DEF CheckSawSilence
  <2>6. NotPendingIsSilent' /\ PendingGrace'
    BY <2>1, <2>2 DEF NotPendingIsSilent, PendingGrace
  <2>7. QED
    BY <2>3, <2>4, <2>5, <2>6 DEF IInv
<1>6. CASE has_seen_tick /\ Silent
  <2>1. /\ stale_active' = TRUE
        /\ recovery_pending' = FALSE
        /\ recovery_candidate_since' = recovery_candidate_since
    BY <1>2, <1>6 DEF Check, TrackerCheck, CheckEvent
  <2>2. TypeOK'
    <3>1. stale_active' \in BOOLEAN /\ recovery_pending' \in BOOLEAN
      BY <2>1
    <3>2. QED
      BY <1>1, <2>1, <3>1 DEF IInv, TypeOK
  <2>3. Ordered'
    BY <1>1, <1>6, <2>1, TrackerAssumption DEF IInv, TypeOK, Ordered
  <2>4. CheckSawSilence' /\ PendingGrace'
    BY <2>1 DEF CheckSawSilence, PendingGrace
  <2>5. NotPendingIsSilent'
    BY <1>1, <1>3, <1>6 DEF NotPendingIsSilent
  <2>6. QED
    BY <2>2, <2>3, <2>4, <2>5 DEF IInv
<1>7. CASE has_seen_tick /\ stale_active /\ ~Silent
  <2>1. recovery_pending
    BY <1>4, <1>7 DEF GraceStartsAtTick
  <2>2. recovery_candidate_since' = recovery_candidate_since
    BY <1>7, <2>1 DEF Check, TrackerCheck
  <2>3. CASE Settled
    <3>1. stale_active' = FALSE /\ recovery_pending' = FALSE
      BY <1>7, <2>1, <2>3 DEF Check, TrackerCheck, CheckEvent
    <3>2. TypeOK'
      <4>1. stale_active' \in BOOLEAN /\ recovery_pending' \in BOOLEAN
        BY <3>1
      <4>2. QED
        BY <1>1, <2>2, <4>1 DEF IInv, TypeOK
    <3>3. Ordered'
      BY <1>1, <3>1, TrackerAssumption DEF IInv, TypeOK, Ordered
    <3>4. CheckSawSilence'
      BY <1>1, <1>3, <1>7 DEF CheckSawSilence
    <3>5. NotPendingIsSilent' /\ PendingGrace'
      BY <3>1 DEF NotPendingIsSilent, PendingGrace
    <3>6. QED
      BY <3>2, <3>3, <3>4, <3>5 DEF IInv
  <2>4. CASE ~Settled
    <3>1. stale_active' = TRUE /\ recovery_pending' = TRUE
      BY <1>2, <1>7, <2>1, <2>4 DEF Check, TrackerCheck, CheckEvent
    <3>2. TypeOK'
      BY <1>1, <2>2, <3>1 DEF IInv, TypeOK
    <3>3. Ordered'
      BY <1>1, <1>7, <3>1, TrackerAssumption DEF IInv, TypeOK, Ordered
    <3>4. CheckSawSilence'
      BY <1>1, <1>3, <1>7 DEF CheckSawSilence
    <3>5. NotPendingIsSilent'
      BY <3>1 DEF NotPendingIsSilent
    <3>6. PendingGrace'
      <4>1. now - recovery_candidate_since < GraceUnits
        BY <1>3, <2>4, UnitsNat DEF IInv, TypeOK
      <4>2. /\ outage_end <= recovery_candidate_since
            /\ recovery_candidate_since <= steady_since
        BY <1>7, <2>1 DEF IInv, PendingGrace
      <4>3. QED
        BY <1>1, <2>2, <4>1, <4>2 DEF PendingGrace
    <3>7. QED
      BY <3>2, <3>3, <3>4, <3>5, <3>6 DEF IInv
  <2>5. QED
    BY <2>3, <2>4
<1>8. QED
  BY <1>2, <1>5, <1>6, <1>7

(* Time passes, but never a whole lag without a check. *)
LEMMA AdvanceTimeIInv == ASSUME IInv, AdvanceTime PROVE IInv'
<1>1. /\ UNCHANGED <<tracker, loop, history>>
      /\ now' = now + 1
      /\ now < MaxTime
      /\ loop_running => now - last_check < MaxCheckLag
  BY DEF AdvanceTime
<1>2. TypeOK'
  BY <1>1, TrackerAssumption DEF IInv, TypeOK, tracker, loop, history
<1>3. Ordered'
  BY <1>1, TrackerAssumption DEF IInv, TypeOK, Ordered, tracker, loop, history
<1>4. CheckSawSilence' /\ NotPendingIsSilent' /\ PendingGrace'
  BY <1>1 DEF IInv, CheckSawSilence, NotPendingIsSilent, PendingGrace,
              tracker, loop, history
<1>5. QED
  BY <1>2, <1>3, <1>4 DEF IInv

(* Every step keeps the invariant. *)
LEMMA NextIInv == IInv /\ [Next]_vars => IInv'
<1>1. ASSUME IInv, UNCHANGED vars PROVE IInv'
  BY <1>1 DEF vars, tracker, loop, history, IInv, TypeOK, Ordered,
              CheckSawSilence, NotPendingIsSilent, PendingGrace
<1>2. QED
  BY <1>1, RecordTickIInv, CheckIInv, AdvanceTimeIInv DEF Next

(* So it holds throughout. *)
LEMMA SpecIInv == Spec => []IInv
  BY InitIInv, NextIInv, PTL DEF Spec

-----------------------------------------------------------------------------
(* Every field keeps its type and no recorded time is in the future. *)
THEOREM TypeCorrect == Spec => []TypeOK
<1>1. IInv => TypeOK
  BY DEF IInv
<1>2. QED
  BY <1>1, SpecIInv, PTL

(* A silent channel is flagged within the threshold and one loop period.     *)
THEOREM SilenceIsDetected == Spec => []SilenceDetected
  BY IInvSilenceDetected, SpecIInv, PTL

(* A steady channel is cleared within the grace period and one loop period.  *)
THEOREM SteadyFeedIsCleared == Spec => []SteadyFeedNotStale
  BY IInvSteadyFeed, SpecIInv, PTL

(* Check's own start of the grace period is unreachable.                     *)
THEOREM GraceIsStartedByTicks == Spec => []GraceStartsAtTick
  BY IInvGraceStartsAtTick, SpecIInv, PTL

(* Recovery is reported a full grace period after the last outage.           *)
THEOREM RecoveryIsGraced == Spec => RecoveryNeedsGrace
<1> DEFINE Graced ==
      stale_active /\ ~stale_active'
        => outage_end = Never \/ WholeSeconds(now - outage_end) >= RecoveryGrace
<1>1. IInv /\ [Next]_vars => [Graced]_vars
  <2>1. ASSUME IInv, Check, stale_active, ~stale_active', outage_end # Never
        PROVE  WholeSeconds(now - outage_end) >= RecoveryGrace
    <3>1. has_seen_tick /\ recovery_pending /\ Settled
      BY <2>1 DEF Check, TrackerCheck, CheckEvent
    <3>2. now - recovery_candidate_since >= GraceUnits
      BY <2>1, <3>1, SettledUnits DEF IInv
    <3>3. outage_end <= recovery_candidate_since
      BY <2>1, <3>1 DEF IInv, PendingGrace
    <3>4. now - outage_end \in Nat /\ now - outage_end >= GraceUnits
      BY <2>1, <3>2, <3>3, UnitsNat DEF IInv, TypeOK
    <3>5. QED
      BY <3>4, WholeSecondsBound, TrackerAssumption DEF GraceUnits
  <2>2. ASSUME RecordTick \/ AdvanceTime PROVE Graced
    BY <2>2 DEF RecordTick, TrackerRecordTick, AdvanceTime, tracker
  <2>3. QED
    BY <2>1, <2>2 DEF Next
<1>2. QED
  BY <1>1, SpecIInv, PTL DEF Spec, RecoveryNeedsGrace
=============================================================================
