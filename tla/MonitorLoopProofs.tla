------------------------- MODULE MonitorLoopProofs -------------------------
(***************************************************************************)
(* The main loop and its reports, for every threshold, loop period, length *)
(* of day and set of contracts.                                            *)
(***************************************************************************)
EXTENDS MonitorLoop, TLAPS

-----------------------------------------------------------------------------
(* The calendar *)

(* A moment is so many seconds after the midnight of its day. *)
LEMMA DayParts ==
  ASSUME NEW n \in Nat
  PROVE  /\ n \div DayLength \in Nat
         /\ n % DayLength \in 0 .. DayLength - 1
         /\ n = DayLength * (n \div DayLength) + (n % DayLength)
<1> DEFINE q == n \div DayLength
           r == n % DayLength
<1>1. DayLength \in Nat /\ DayLength > 0
  BY LoopAssumption
<1>2. /\ r \in 0 .. DayLength - 1
      /\ q \in Int
      /\ n = DayLength * q + r
  <2>1. r \in 0 .. DayLength - 1
    BY <1>1
  <2>2. q \in Int
    BY <1>1
  <2>3. n = DayLength * q + r
    BY <1>1
  <2>4. QED
    BY <2>1, <2>2, <2>3
<1> HIDE DEF q, r
<1>3. ASSUME q <= -1 PROVE FALSE
  <2>1. DayLength * q <= DayLength * (-1)
    BY <1>1, <1>2, <1>3
  <2>2. QED
    BY <1>1, <1>2, <2>1
<1>4. q \in Nat
  BY <1>2, <1>3
<1>5. QED
  BY <1>2, <1>4 DEF q, r

(* Days do not go back. *)
LEMMA DaysGrow ==
  ASSUME NEW m \in Nat, NEW n \in Nat, m <= n
  PROVE  m \div DayLength <= n \div DayLength
<1> DEFINE a == m \div DayLength
           b == n \div DayLength
<1>1. /\ a \in Nat /\ b \in Nat
      /\ DayLength * a <= m /\ n < DayLength * (b + 1)
  BY DayParts, LoopAssumption
<1>2. ASSUME b + 1 <= a PROVE FALSE
  <2>1. DayLength * (b + 1) <= DayLength * a
    BY <1>1, <1>2, LoopAssumption
  <2>2. QED
    BY <1>1, <2>1, LoopAssumption
<1>3. QED
  BY <1>1, <1>2

(* The clock stays within the calendar of the report files. *)
LEMMA TodayIsDate == ASSUME now \in Times PROVE Today \in Dates
<1>1. now \in Nat /\ MaxTime \in Nat /\ now <= MaxTime
  BY LoopAssumption DEF Times
<1>2. QED
  BY <1>1, DayParts, DaysGrow DEF Today, Dates
-----------------------------------------------------------------------------
(* Type correctness *)

Pcs == {"down", "wait", "check", "clock", "tick", "snapshots", "metadata",
        "truncate", "write"}
Triggered == [moment : Moments, trading_date : Dates]
Filled == [moment : Moments, trading_date : Dates,
           snapshots : [Contracts -> Times \cup {Never}]]
Dated == [moment : Moments, trading_date : Dates,
          snapshots : [Contracts -> Times \cup {Never}],
          report_generated_at : Times,
          data_as_of : Times \cup {Never}, stale : BOOLEAN]

LoopTypeOK ==
    /\ now \in Times
    /\ pc \in Pcs
    /\ time_of_day \in 0 .. DayLength - 1
    /\ last_report_date \in Dates \cup {Never}
    /\ midday_sent \in BOOLEAN /\ close_sent \in BOOLEAN
    /\ last_check \in Times /\ loop_since \in Times
    /\ stops \in 0 .. MaxStops

ReportTypeOK ==
    /\ pc = "snapshots" => report \in Triggered
    /\ pc = "metadata" => report \in Filled
    /\ pc \in {"truncate", "write"} => report \in Dated
    /\ pc \notin {"snapshots", "metadata", "truncate", "write"} => report = NoReport

CtpTypeOK ==
    \/ ctp = NoTick
    \/ ctp \in [pc : {"record"}, contract : Contracts]
    \/ ctp \in [pc : {"update"}, contract : Contracts, at : Times]

TrackerTypeOK ==
    /\ first_market_data \in BOOLEAN
    /\ has_seen_tick \in BOOLEAN /\ stale_active \in BOOLEAN
    /\ recovery_pending \in BOOLEAN
    /\ last_tick_time \in Times /\ recovery_candidate_since \in Times

StoreTypeOK ==
    /\ snapshots \in [Contracts -> Times \cup {Never}]
    /\ files \in [Dates \X Moments -> {"absent", "empty", "complete"}]
    /\ failed \subseteq Dates \X Moments

(* The type invariant, in parts. *)
LEMMA TypeParts ==
  TypeOK <=> /\ LoopTypeOK /\ ReportTypeOK /\ CtpTypeOK
             /\ TrackerTypeOK /\ StoreTypeOK
<1>1. (CASE pc = "snapshots" -> report \in Triggered
         [] pc = "metadata" -> report \in Filled
         [] pc \in {"truncate", "write"} -> report \in Dated
         [] OTHER -> report = NoReport) <=> ReportTypeOK
  BY DEF ReportTypeOK
<1>2. QED
  BY <1>1, Zenon DEF TypeOK, LoopTypeOK, CtpTypeOK, TrackerTypeOK, StoreTypeOK,
     Triggered, Filled, Dated, Pcs

(* Every variable keeps its type; the fields of a report are filled in      *)
(* order.                                                                   *)
THEOREM LoopTypes == Spec => []TypeOK
<1>1. Init => TypeOK
  <2> SUFFICES ASSUME Init PROVE TypeOK
    OBVIOUS
  <2>1. now \in Times /\ 0 \in 0 .. DayLength - 1 /\ stops \in 0 .. MaxStops
    BY LoopAssumption DEF Init, Times
  <2>2. LoopTypeOK
    BY <2>1 DEF Init, MemoryInit, LoopTypeOK, Pcs
  <2>3. ReportTypeOK /\ CtpTypeOK
    BY DEF Init, MemoryInit, ReportTypeOK, CtpTypeOK
  <2>4. TrackerTypeOK
    BY <2>1 DEF Init, MemoryInit, Health!TrackerInit, TrackerTypeOK
  <2>5. StoreTypeOK
    BY DEF Init, MemoryInit, StoreTypeOK, NoSnapshots
  <2>6. QED
    BY <2>2, <2>3, <2>4, <2>5, TypeParts
<1>2. TypeOK /\ [Next]_vars => TypeOK'
  <2> SUFFICES ASSUME TypeOK, [Next]_vars
               PROVE  /\ LoopTypeOK' /\ ReportTypeOK' /\ CtpTypeOK'
                      /\ TrackerTypeOK' /\ StoreTypeOK'
    BY TypeParts, PTL
  <2>1. LoopTypeOK /\ ReportTypeOK /\ CtpTypeOK /\ TrackerTypeOK /\ StoreTypeOK
    BY TypeParts
  <2>2. now \in Times /\ 0 \in Times /\ 0 \in 0 .. DayLength - 1 /\ Today \in Dates
    BY <2>1, TodayIsDate, LoopAssumption DEF LoopTypeOK, Times
  <2>3. CASE UNCHANGED vars
    BY <2>1, <2>3 DEF vars, main, feed, scheduler, tracker, LoopTypeOK,
       ReportTypeOK, CtpTypeOK, TrackerTypeOK, StoreTypeOK
  <2>4. ASSUME NEW c \in Contracts, CtpFirstTick(c)
        PROVE  /\ LoopTypeOK' /\ ReportTypeOK' /\ CtpTypeOK'
               /\ TrackerTypeOK' /\ StoreTypeOK'
    BY <2>1, <2>4 DEF CtpFirstTick, main, scheduler, tracker, LoopTypeOK,
       ReportTypeOK, CtpTypeOK, TrackerTypeOK, StoreTypeOK
  <2>5. ASSUME NEW c \in Contracts, NEW r \in BOOLEAN, CtpRecord(c, r)
        PROVE  /\ LoopTypeOK' /\ ReportTypeOK' /\ CtpTypeOK'
               /\ TrackerTypeOK' /\ StoreTypeOK'
    <3>1. CtpTypeOK'
      BY <2>2, <2>5 DEF CtpRecord, CtpTypeOK
    <3>2. TrackerTypeOK'
      BY <2>1, <2>2, <2>5 DEF CtpRecord, TrackerTypeOK, Health!TrackerRecordTick
    <3>3. LoopTypeOK' /\ ReportTypeOK' /\ StoreTypeOK'
      BY <2>1, <2>5 DEF CtpRecord, main, scheduler, LoopTypeOK, ReportTypeOK,
         StoreTypeOK
    <3>4. QED
      BY <3>1, <3>2, <3>3
  <2>6. CASE CtpUpdate
    <3>1. ctp.contract \in Contracts /\ ctp.at \in Times
      BY <2>1, <2>6 DEF CtpUpdate, CtpTypeOK, NoTick
    <3>2. StoreTypeOK'
      BY <2>1, <2>6, <3>1 DEF CtpUpdate, StoreTypeOK
    <3>3. QED
      BY <2>1, <2>6, <3>2 DEF CtpUpdate, main, scheduler, tracker, LoopTypeOK,
         ReportTypeOK, CtpTypeOK, TrackerTypeOK
  <2>7. CASE Released
    BY <2>1, <2>2, <2>7 DEF Released, feed, scheduler, tracker, LoopTypeOK, Pcs,
       ReportTypeOK, CtpTypeOK, TrackerTypeOK, StoreTypeOK
  <2>8. CASE CheckHealth
    <3>1. LoopTypeOK' /\ ReportTypeOK' /\ CtpTypeOK' /\ StoreTypeOK'
      BY <2>1, <2>2, <2>8 DEF CheckHealth, feed, scheduler, LoopTypeOK, Pcs,
         ReportTypeOK, CtpTypeOK, StoreTypeOK
    <3>2. TrackerTypeOK'
      BY <2>1, <2>2, <2>8 DEF CheckHealth, feed, TrackerTypeOK,
         Health!TrackerCheck, Health!CheckEvent
    <3>3. QED
      BY <3>1, <3>2
  <2>9. CASE ReadClock
    <3>1. time_of_day' \in 0 .. DayLength - 1
      BY <2>2, <2>9, DayParts DEF ReadClock, Times
    <3>2. QED
      BY <2>1, <2>9, <3>1 DEF ReadClock, feed, scheduler, tracker, LoopTypeOK, Pcs,
         ReportTypeOK, CtpTypeOK, TrackerTypeOK, StoreTypeOK
  <2>10. CASE ScheduleTick
    <3>1. ReportTypeOK'
      BY <2>1, <2>2, <2>10 DEF ScheduleTick, ReportTypeOK, Triggered, Moments
    <3>2. midday_sent' \in BOOLEAN /\ close_sent' \in BOOLEAN
      BY <2>10, Zenon DEF ScheduleTick
    <3>3. pc' \in Pcs /\ last_report_date' \in Dates \cup {Never}
      BY <2>2, <2>10 DEF ScheduleTick, Pcs
    <3>4. LoopTypeOK'
      BY <2>1, <2>2, <2>10, <3>2, <3>3 DEF ScheduleTick, LoopTypeOK
    <3>5. CtpTypeOK' /\ TrackerTypeOK' /\ StoreTypeOK'
      BY <2>1, <2>10 DEF ScheduleTick, feed, tracker, CtpTypeOK, TrackerTypeOK,
         StoreTypeOK
    <3>6. QED
      BY <3>1, <3>4, <3>5
  <2>11. CASE TakeSnapshots
    <3>1. ReportTypeOK'
      BY <2>1, <2>11 DEF TakeSnapshots, ReportTypeOK, StoreTypeOK, Triggered, Filled
    <3>2. QED
      BY <2>1, <2>11, <3>1 DEF TakeSnapshots, feed, scheduler, tracker, LoopTypeOK,
         Pcs, CtpTypeOK, TrackerTypeOK, StoreTypeOK
  <2>12. CASE TakeMetadata
    <3>1. ReportTypeOK'
      BY <2>1, <2>2, <2>12 DEF TakeMetadata, ReportTypeOK, TrackerTypeOK, Filled, Dated
    <3>2. QED
      BY <2>1, <2>12, <3>1 DEF TakeMetadata, feed, scheduler, tracker, LoopTypeOK,
         Pcs, CtpTypeOK, TrackerTypeOK, StoreTypeOK
  <2>13. CASE TruncateFile
    <3>1. StoreTypeOK'
      BY <2>1, <2>13 DEF TruncateFile, feed, StoreTypeOK
    <3>2. QED
      BY <2>1, <2>13, <3>1 DEF TruncateFile, feed, scheduler, tracker, LoopTypeOK,
         Pcs, ReportTypeOK, CtpTypeOK, TrackerTypeOK
  <2>14. CASE WriteFile
    <3>1. StoreTypeOK'
      BY <2>1, <2>14 DEF WriteFile, feed, StoreTypeOK
    <3>2. QED
      BY <2>1, <2>14, <3>1 DEF WriteFile, feed, scheduler, tracker, LoopTypeOK,
         Pcs, ReportTypeOK, CtpTypeOK, TrackerTypeOK
  <2>15. CASE Start
    BY <2>1, <2>15 DEF Start, feed, scheduler, tracker, LoopTypeOK, Pcs,
       ReportTypeOK, CtpTypeOK, TrackerTypeOK, StoreTypeOK
  <2>16. CASE Stop
    <3>1. stops' \in 0 .. MaxStops
      BY <2>1, <2>16, LoopAssumption DEF Stop, LoopTypeOK
    <3>2. LoopTypeOK'
      BY <2>1, <2>2, <2>16, <3>1 DEF Stop, ForgetSchedule, LoopTypeOK, Pcs
    <3>3. ReportTypeOK' /\ CtpTypeOK'
      BY <2>16 DEF Stop, ReportTypeOK, CtpTypeOK
    <3>4. TrackerTypeOK' /\ StoreTypeOK'
      BY <2>1, <2>2, <2>16 DEF Stop, NoSnapshots, TrackerTypeOK, StoreTypeOK
    <3>5. QED
      BY <3>2, <3>3, <3>4
  <2>17. CASE AdvanceTime
    <3>1. now' \in Times
      BY <2>2, <2>17, LoopAssumption DEF AdvanceTime, Times
    <3>2. QED
      BY <2>1, <2>17, <3>1 DEF AdvanceTime, main, feed, scheduler, tracker,
         LoopTypeOK, ReportTypeOK, CtpTypeOK, TrackerTypeOK, StoreTypeOK
  <2>18. CASE WriteFails
    <3>1. report.trading_date \in Dates /\ report.moment \in Moments
      BY <2>1, <2>18 DEF WriteFails, ReportTypeOK, Dated
    <3>2. StoreTypeOK'
      BY <2>1, <2>18, <3>1 DEF WriteFails, feed, StoreTypeOK
    <3>3. QED
      BY <2>1, <2>18, <3>2 DEF WriteFails, feed, scheduler, tracker, LoopTypeOK,
         Pcs, ReportTypeOK, CtpTypeOK, TrackerTypeOK
  <2>19. QED
    BY <2>3, <2>4, <2>5, <2>6, <2>7, <2>8, <2>9, <2>10, <2>11, <2>12, <2>13,
       <2>14, <2>15, <2>16, <2>17, <2>18 DEF Next, MainStep
<1>3. QED
  BY <1>1, <1>2, PTL DEF Spec

-----------------------------------------------------------------------------
(* What a report says of the feed *)

\* Snapshot s of a report or of the store is of a tick the tracker knows.
Known(s) == s = Never \/ (has_seen_tick /\ s <= last_tick_time)

\* The tracker is told of a tick before the store is, so that it never lags
\* behind a snapshot, nor behind those that a report has taken from the store.
FeedOrder ==
    /\ last_tick_time <= now
    /\ \A c \in Contracts : Known(snapshots[c])
    /\ ctp.pc = "update" => Known(ctp.at)
    /\ pc = "metadata" => \A c \in Contracts : Known(report.snapshots[c])

(* Time and the other steps of the main thread change nothing of it, a tick *)
(* only raises last_tick_time, and a stop forgets all.                      *)
LEMMA FeedOrderStep ==
  ASSUME TypeOK, FeedOrder, DataAsOfCovers, [Next]_vars
  PROVE  FeedOrder' /\ DataAsOfCovers'
<1>1. LoopTypeOK /\ ReportTypeOK /\ CtpTypeOK /\ TrackerTypeOK /\ StoreTypeOK
  BY TypeParts
<1>2. /\ now \in Nat /\ last_tick_time \in Nat
      /\ \A c \in Contracts : snapshots[c] \in Nat \cup {Never}
  BY <1>1 DEF LoopTypeOK, TrackerTypeOK, StoreTypeOK, Times
<1>3. CASE UNCHANGED vars
  BY <1>3 DEF vars, main, feed, scheduler, tracker, FeedOrder, Known, DataAsOfCovers,
     Made
<1>4. ASSUME NEW c \in Contracts, CtpFirstTick(c) PROVE FeedOrder' /\ DataAsOfCovers'
  BY <1>4 DEF CtpFirstTick, main, scheduler, tracker, FeedOrder, Known,
     DataAsOfCovers, Made
<1>5. ASSUME NEW c \in Contracts, NEW r \in BOOLEAN, CtpRecord(c, r)
      PROVE  FeedOrder' /\ DataAsOfCovers'
  <2>1. /\ has_seen_tick' = TRUE /\ last_tick_time' = now /\ now' = now
        /\ snapshots' = snapshots /\ report' = report /\ pc' = pc
    BY <1>5 DEF CtpRecord, Health!TrackerRecordTick, main
  <2>2. ASSUME NEW s \in Nat \cup {Never}, Known(s) PROVE Known(s)'
    BY <1>2, <2>1, <2>2 DEF Known, FeedOrder, Never
  <2>3. \A d \in Contracts : Known(snapshots[d])'
    BY <1>2, <2>1, <2>2 DEF FeedOrder, Known
  <2>4. ctp'.pc = "update" => Known(ctp.at)'
    BY <1>2, <1>5, <2>1 DEF CtpRecord, Known, NoTick
  <2>5. pc' = "metadata" => \A d \in Contracts : Known(report.snapshots[d])'
    <3>1. pc = "metadata" =>
             \A d \in Contracts : report.snapshots[d] \in Nat \cup {Never}
      BY <1>1 DEF ReportTypeOK, Filled, Times
    <3>2. QED
      BY <2>1, <2>2, <3>1 DEF FeedOrder, Known
  <2>6. QED
    BY <1>2, <2>1, <2>3, <2>4, <2>5 DEF FeedOrder, DataAsOfCovers, Made
<1>6. CASE CtpUpdate
  <2>1. ctp.contract \in Contracts /\ Known(ctp.at)
    BY <1>1, <1>6 DEF CtpUpdate, CtpTypeOK, NoTick, FeedOrder
  <2>2. \A c \in Contracts :
           snapshots'[c] = IF c = ctp.contract THEN ctp.at ELSE snapshots[c]
    BY <1>1, <1>6 DEF CtpUpdate, StoreTypeOK
  <2>3. QED
    BY <1>6, <2>1, <2>2 DEF CtpUpdate, main, tracker, FeedOrder, Known, NoTick,
       DataAsOfCovers, Made
<1>7. CASE Released \/ ReadClock \/ TruncateFile \/ WriteFile \/ WriteFails \/ Start
  BY <1>7 DEF Released, ReadClock, TruncateFile, WriteFile, WriteFails, Start, feed,
     scheduler, tracker, FeedOrder, Known, DataAsOfCovers, Made
<1>8. CASE CheckHealth
  BY <1>8 DEF CheckHealth, Health!TrackerCheck, feed, FeedOrder, Known,
     DataAsOfCovers, Made
<1>9. CASE ScheduleTick
  BY <1>9 DEF ScheduleTick, feed, tracker, FeedOrder, Known, DataAsOfCovers, Made
<1>10. CASE TakeSnapshots
  BY <1>10 DEF TakeSnapshots, feed, tracker, FeedOrder, Known, DataAsOfCovers, Made
<1>11. CASE TakeMetadata
  <2>1. \A c \in Contracts : report.snapshots[c] \in Nat \cup {Never}
    BY <1>1, <1>11 DEF TakeMetadata, ReportTypeOK, Filled, Times
  <2>2. DataAsOfCovers'
    BY <1>2, <1>11, <2>1 DEF TakeMetadata, FeedOrder, Known, DataAsOfCovers, Made, Never
  <2>3. QED
    BY <1>11, <2>2 DEF TakeMetadata, feed, tracker, FeedOrder, Known
<1>12. CASE Stop
  BY <1>2, <1>12 DEF Stop, NoSnapshots, NoTick, FeedOrder, Known, DataAsOfCovers, Made
<1>13. CASE AdvanceTime
  BY <1>2, <1>13 DEF AdvanceTime, main, feed, scheduler, tracker, FeedOrder, Known,
     DataAsOfCovers, Made
<1>14. QED
  BY <1>3, <1>4, <1>5, <1>6, <1>7, <1>8, <1>9, <1>10, <1>11, <1>12, <1>13
     DEF Next, MainStep

(* The order of tick, tracker and store at every moment.                    *)
LEMMA FeedInOrder == Spec => [](FeedOrder /\ DataAsOfCovers)
<1>1. Init => FeedOrder /\ DataAsOfCovers
  BY LoopAssumption DEF Init, MemoryInit, Health!TrackerInit, NoSnapshots, NoTick,
     FeedOrder, Known, DataAsOfCovers, Made
<1>2. TypeOK /\ FeedOrder /\ DataAsOfCovers /\ [Next]_vars
         => FeedOrder' /\ DataAsOfCovers'
  BY FeedOrderStep
<1>3. QED
  BY <1>1, <1>2, LoopTypes, PTL DEF Spec

(* data_as_of covers the report: no snapshot in it comes from a later tick. *)
THEOREM ReportsAreCovered == Spec => []DataAsOfCovers
<1>1. QED
  BY FeedInOrder, PTL

-----------------------------------------------------------------------------
(* When a report may say OK *)

(* The clock of this module counts whole seconds.                           *)
LEMMA SecondsAreWhole == ASSUME NEW d \in Int PROVE Health!WholeSeconds(d) = d
<1>1. QED
  BY DEF Health!WholeSeconds

\* The loop is punctual, and from its check until the report has its metadata
\* the flag tells of any silence that the check found.
CheckedBeforeReport ==
    /\ last_check <= now
    /\ Looping => now - last_check <= MaxCheckLag
    /\ /\ pc \in {"clock", "tick", "snapshots", "metadata"}
       /\ has_seen_tick
       /\ last_check - last_tick_time >= StaleThreshold
       => stale_active

(* The check raises the flag, the CTP thread cannot lower it, and no other   *)
(* step of the main thread does so before the report.                       *)
LEMMA CheckedStep ==
  ASSUME TypeOK, FeedOrder, CheckedBeforeReport, OkReportIsLive, [Next]_vars
  PROVE  CheckedBeforeReport' /\ OkReportIsLive'
<1>1. LoopTypeOK /\ ReportTypeOK /\ TrackerTypeOK
  BY TypeParts
<1>2. /\ now \in Nat /\ last_tick_time \in Nat /\ last_check \in Nat
      /\ stale_active \in BOOLEAN /\ has_seen_tick \in BOOLEAN
      /\ last_tick_time <= now
      /\ StaleThreshold \in Nat /\ StaleThreshold > 0
      /\ MaxCheckLag \in Nat /\ MaxCheckLag > 0
  BY <1>1, LoopAssumption DEF LoopTypeOK, TrackerTypeOK, Times, FeedOrder
<1>3. CASE UNCHANGED vars
  BY <1>3 DEF vars, main, tracker, CheckedBeforeReport, Looping, OkReportIsLive, Made
<1>4. ASSUME NEW c \in Contracts, CtpFirstTick(c)
      PROVE  CheckedBeforeReport' /\ OkReportIsLive'
  BY <1>4 DEF CtpFirstTick, main, tracker, CheckedBeforeReport, Looping,
     OkReportIsLive, Made
<1>5. ASSUME NEW c \in Contracts, NEW r \in BOOLEAN, CtpRecord(c, r)
      PROVE  CheckedBeforeReport' /\ OkReportIsLive'
  BY <1>2, <1>5 DEF CtpRecord, Health!TrackerRecordTick, main, CheckedBeforeReport,
     Looping, OkReportIsLive, Made
<1>6. CASE CtpUpdate \/ ReadClock \/ TruncateFile \/ WriteFile \/ WriteFails
  BY <1>6 DEF CtpUpdate, ReadClock, TruncateFile, WriteFile, WriteFails, main, tracker,
     CheckedBeforeReport, Looping, OkReportIsLive, Made
<1>7. CASE Released \/ Start \/ Stop
  BY <1>2, <1>7 DEF Released, Start, Stop, tracker, CheckedBeforeReport, Looping,
     OkReportIsLive, Made
<1>8. CASE CheckHealth
  <2>1. has_seen_tick /\ now - last_tick_time >= StaleThreshold => stale_active'
    BY <1>2, <1>8, SecondsAreWhole DEF CheckHealth, Health!TrackerCheck,
       Health!CheckEvent, Health!Silent, Health!Silence
  <2>2. QED
    BY <1>2, <1>8, <2>1 DEF CheckHealth, Health!TrackerCheck, CheckedBeforeReport,
       Looping, OkReportIsLive, Made
<1>9. CASE ScheduleTick \/ TakeSnapshots
  BY <1>9 DEF ScheduleTick, TakeSnapshots, tracker, CheckedBeforeReport, Looping,
     OkReportIsLive, Made
<1>10. CASE TakeMetadata
  <2>1. ~stale_active /\ has_seen_tick =>
           now - last_tick_time < StaleThreshold + MaxCheckLag
    BY <1>2, <1>10 DEF TakeMetadata, CheckedBeforeReport, Looping
  <2>2. QED
    BY <1>2, <1>10, <2>1 DEF TakeMetadata, tracker, CheckedBeforeReport, Looping,
       OkReportIsLive, Made, Never
<1>11. CASE AdvanceTime
  BY <1>2, <1>11 DEF AdvanceTime, main, tracker, CheckedBeforeReport, Looping,
     OkReportIsLive, Made
<1>12. QED
  BY <1>3, <1>4, <1>5, <1>6, <1>7, <1>8, <1>9, <1>10, <1>11 DEF Next, MainStep

(* The loop is punctual and checks before it reports.                       *)
LEMMA LoopChecks == Spec => [](CheckedBeforeReport /\ OkReportIsLive)
<1>1. Init => CheckedBeforeReport /\ OkReportIsLive
  BY DEF Init, MemoryInit, CheckedBeforeReport, Looping, OkReportIsLive, Made
<1>2. TypeOK /\ FeedOrder /\ CheckedBeforeReport /\ OkReportIsLive /\ [Next]_vars
         => CheckedBeforeReport' /\ OkReportIsLive'
  BY CheckedStep
<1>3. QED
  BY <1>1, <1>2, LoopTypes, FeedInOrder, PTL DEF Spec

(* A report marked market_data_status=OK whose data_as_of is not N/A rests on *)
(* a feed that was alive, up to one loop period before it was generated.    *)
THEOREM OkReportsAreLive == Spec => []OkReportIsLive
<1>1. QED
  BY LoopChecks, PTL

-----------------------------------------------------------------------------
(* Never too early *)

\* The time of day that the iteration has read, and the moment of the report
\* that it makes, are past on the day that the calendar shows.
PastMoment ==
    /\ pc = "tick" => Today * DayLength + time_of_day <= now
    /\ pc \in {"snapshots", "metadata", "truncate", "write"} =>
          now >= report.trading_date * DayLength + Due(report.moment)

(* The two looks at the clock are on the same day: the process that is      *)
(* stopped before midnight cannot take yesterday's time for today's.        *)
LEMMA PastMomentStep ==
  ASSUME ~RunsOvernight, TypeOK, PastMoment, NotEarly, [Next]_vars
  PROVE  PastMoment' /\ NotEarly'
<1>1. LoopTypeOK /\ ReportTypeOK
  BY TypeParts
<1> DEFINE midnight == Today * DayLength
           moment_of_report == report.trading_date * DayLength + Due(report.moment)
<1>2. /\ now \in Nat /\ Today \in Nat /\ time_of_day \in Nat
      /\ DayLength \in Nat /\ MiddayAt \in Nat /\ CloseAt \in Nat
      /\ now = midnight + (now % DayLength) /\ now % DayLength \in Nat
  BY <1>1, DayParts, LoopAssumption DEF LoopTypeOK, Times, Today
<1>3. midnight \in Nat
  BY <1>2
<1>4. pc \in {"snapshots", "metadata", "truncate", "write"} =>
         moment_of_report \in Int
  BY <1>1, <1>2 DEF ReportTypeOK, Triggered, Filled, Dated, Dates, Due
<1>5. CASE UNCHANGED vars
  BY <1>5 DEF vars, main, PastMoment, Today, NotEarly, Made
<1>6. ASSUME NEW c \in Contracts, CtpFirstTick(c) PROVE PastMoment' /\ NotEarly'
  BY <1>6 DEF CtpFirstTick, main, PastMoment, Today, NotEarly, Made
<1>7. ASSUME NEW c \in Contracts, NEW r \in BOOLEAN, CtpRecord(c, r)
      PROVE  PastMoment' /\ NotEarly'
  BY <1>7 DEF CtpRecord, main, PastMoment, Today, NotEarly, Made
<1>8. CASE CtpUpdate \/ Released \/ CheckHealth \/ Start \/ Stop
  BY <1>8 DEF CtpUpdate, Released, CheckHealth, Start, Stop, main, PastMoment, Today,
     NotEarly, Made
<1>9. CASE ReadClock
  BY <1>2, <1>3, <1>9 DEF ReadClock, PastMoment, Today, NotEarly, Made
<1>10. CASE ScheduleTick
  <2>1. pc' = "snapshots" =>
           /\ report'.trading_date = Today
           /\ time_of_day >= Due(report'.moment)
           /\ report'.moment \in Moments
    BY <1>10 DEF ScheduleTick, AfterMidday, AfterClose, Due, Moments
  <2>2. pc' = "snapshots" => now >= midnight + Due(report'.moment)
    BY <1>2, <1>3, <1>10, <2>1 DEF ScheduleTick, PastMoment, Due
  <2>3. QED
    BY <1>10, <2>1, <2>2 DEF ScheduleTick, PastMoment, NotEarly, Made
<1>11. CASE TakeSnapshots \/ TakeMetadata
  BY <1>11 DEF TakeSnapshots, TakeMetadata, PastMoment, NotEarly, Made
<1>12. CASE TruncateFile \/ WriteFile \/ WriteFails
  BY <1>12 DEF TruncateFile, WriteFile, WriteFails, PastMoment, NotEarly, Made
<1>13. CASE AdvanceTime
  <2>1. /\ now' = now + 1 /\ pc' = pc /\ time_of_day' = time_of_day
        /\ report' = report
        /\ pc # "down" => Today' = Today
    BY <1>13 DEF AdvanceTime, main, Today
  <2>2. pc' = "tick" => Today' * DayLength + time_of_day' <= now'
    BY <1>2, <1>3, <2>1 DEF PastMoment
  <2>3. QED
    BY <1>2, <1>4, <2>1, <2>2 DEF PastMoment, NotEarly, Made
<1>14. QED
  BY <1>5, <1>6, <1>7, <1>8, <1>9, <1>10, <1>11, <1>12, <1>13 DEF Next, MainStep

(* A process that is stopped every day before midnight generates no report  *)
(* earlier than its moment of its date: the "11:30 and 15:00" of README.md. *)
(* For one that runs overnight the statement is false.                      *)
THEOREM ReportsAreNotEarly == ASSUME ~RunsOvernight PROVE Spec => []NotEarly
<1>1. Init => PastMoment /\ NotEarly
  BY DEF Init, PastMoment, NotEarly, Made
<1>2. TypeOK /\ PastMoment /\ NotEarly /\ [Next]_vars => PastMoment' /\ NotEarly'
  BY PastMomentStep
<1>3. QED
  BY <1>1, <1>2, LoopTypes, PTL DEF Spec

-----------------------------------------------------------------------------
(* Never late *)

Midnight == Today * DayLength

(* It is still the same day, or it is midnight.                             *)
LEMMA NextMidnight ==
  ASSUME now \in Times, now' = now + 1
  PROVE  (Today' = Today /\ Midnight' = Midnight) \/ Midnight' = now'
<1> DEFINE q == Today
           p == (now + 1) \div DayLength
<1>1. /\ now \in Nat /\ q \in Nat /\ p \in Nat
      /\ DayLength \in Nat /\ DayLength > 0
      /\ now < DayLength * (q + 1)
      /\ DayLength * p <= now + 1
      /\ q <= p
  <2>1. now \in Nat /\ now + 1 \in Nat /\ DayLength \in Nat /\ DayLength > 0
    BY LoopAssumption DEF Times
  <2>2. /\ q \in Nat /\ now % DayLength \in 0 .. DayLength - 1
        /\ now = DayLength * q + (now % DayLength)
    BY <2>1, DayParts DEF Today
  <2>3. /\ p \in Nat /\ (now + 1) % DayLength \in 0 .. DayLength - 1
        /\ now + 1 = DayLength * p + ((now + 1) % DayLength)
    BY <2>1, DayParts
  <2>4. q <= p
    BY <2>1, DaysGrow DEF Today
  <2> HIDE DEF q, p
  <2>5. DayLength * q \in Int /\ DayLength * p \in Int
        /\ DayLength * (q + 1) = DayLength * q + DayLength
    BY <2>1, <2>2, <2>3
  <2>6. QED
    BY <2>1, <2>2, <2>3, <2>4, <2>5
<1>2. Midnight = DayLength * q /\ Midnight' = DayLength * p
  BY <1>1 DEF Midnight, Today
<1> HIDE DEF q, p
<1>3. CASE q + 1 <= p
  <2>1. DayLength * (q + 1) <= DayLength * p
    BY <1>1, <1>3
  <2>2. QED
    BY <1>1, <1>2, <2>1
<1>4. CASE p = q
  BY <1>4 DEF p, q, Midnight, Today
<1>5. QED
  BY <1>1, <1>3, <1>4

\* A report that has been triggered is not complete before pc leaves these.
Making == pc \in {"snapshots", "metadata", "truncate", "write"}
Sent(m) == IF m = "midday" THEN midday_sent ELSE close_sent
Unsent(m) == last_report_date # Today \/ ~Sent(m)

\* The last check was made, but for so much slack, when the report of that
\* moment was not yet due or the loop had only begun; the close waits for a
\* midday report that is due at once when the loop starts in the evening.
Within(slack, m) ==
    IF m = "midday"
    THEN \/ last_check <= Midnight + MiddayAt - 1 + slack
         \/ last_check <= loop_since + slack
    ELSE \/ last_check <= Midnight + CloseAt + slack
         \/ last_check <= loop_since + MaxCheckLag + slack

\* A report that is not sent was not due at the last look, which one loop
\* period separates from the next.
NotForgotten ==
    /\ pc = "tick" => last_check <= Midnight + time_of_day
    /\ \A m \in Moments :
          /\ Unsent(m) /\ (pc = "check" \/ Making) => Within(0, m)
          /\ Unsent(m) /\ pc \in {"clock", "tick"} => Within(MaxCheckLag, m)
    /\ Making /\ report.trading_date = Today => Within(MaxCheckLag, report.moment)

\* What counts as sent is on disk or being made, or its write has failed.
SentIsWritten ==
    \A d \in Dates, m \in Moments :
       last_report_date = d /\ Sent(m) =>
          \/ files[<<d, m>>] = "complete"
          \/ <<d, m>> \in failed
          \/ Making /\ report.trading_date = d /\ report.moment = m

(* Only WriteFile and WriteFails end the making of a report, and only a new *)
(* date or a new process forgets that one was sent.                         *)
LEMMA SentIsWrittenStep ==
  ASSUME TypeOK, SentIsWritten, [Next]_vars
  PROVE  SentIsWritten'
<1>1. LoopTypeOK /\ ReportTypeOK /\ StoreTypeOK
  BY TypeParts
<1>2. CASE UNCHANGED vars
  BY <1>2 DEF vars, main, scheduler, SentIsWritten, Sent, Making
<1>3. ASSUME NEW c \in Contracts, CtpFirstTick(c) PROVE SentIsWritten'
  BY <1>3 DEF CtpFirstTick, main, scheduler, SentIsWritten, Sent, Making
<1>4. ASSUME NEW c \in Contracts, NEW r \in BOOLEAN, CtpRecord(c, r)
      PROVE  SentIsWritten'
  BY <1>4 DEF CtpRecord, main, scheduler, SentIsWritten, Sent, Making
<1>5. CASE CtpUpdate \/ AdvanceTime
  BY <1>5 DEF CtpUpdate, AdvanceTime, main, scheduler, SentIsWritten, Sent, Making
<1>6. CASE Released \/ CheckHealth \/ ReadClock \/ Start
  BY <1>6 DEF Released, CheckHealth, ReadClock, Start, scheduler, SentIsWritten,
     Sent, Making
<1>7. CASE ScheduleTick
  <2> SUFFICES ASSUME NEW d \in Dates, NEW m \in Moments,
                      last_report_date' = d, Sent(m)'
               PROVE  \/ files'[<<d, m>>] = "complete"
                      \/ <<d, m>> \in failed'
                      \/ /\ Making' /\ report'.trading_date = d
                         /\ report'.moment = m
    BY DEF SentIsWritten
  <2>1. d = Today /\ files' = files /\ failed' = failed
    BY <1>7 DEF ScheduleTick
  <2>2. CASE last_report_date = d /\ Sent(m)
    BY <1>7, <2>1, <2>2 DEF ScheduleTick, SentIsWritten, Making
  <2>3. CASE ~(last_report_date = d /\ Sent(m))
    <3>1. CASE m = "midday"
      <4>1. midday_sent'
        BY <3>1 DEF Sent
      <4>2. pc' = "snapshots" /\ report' = [moment |-> "midday", trading_date |-> Today]
        BY <1>7, <2>1, <2>3, <3>1, <4>1 DEF ScheduleTick, Sent
      <4>3. QED
        BY <2>1, <3>1, <4>2 DEF Making
    <3>2. CASE m = "close"
      <4>1. close_sent'
        BY <3>2 DEF Sent
      <4>2. pc' = "snapshots" /\ report' = [moment |-> "close", trading_date |-> Today]
        BY <1>7, <2>1, <2>3, <3>2, <4>1 DEF ScheduleTick, Sent
      <4>3. QED
        BY <2>1, <3>2, <4>2 DEF Making
    <3>3. QED
      BY <3>1, <3>2 DEF Moments
  <2>4. QED
    BY <2>2, <2>3
<1>8. CASE TakeSnapshots \/ TakeMetadata
  BY <1>8 DEF TakeSnapshots, TakeMetadata, scheduler, SentIsWritten, Sent, Making
<1>9. CASE TruncateFile
  BY <1>1, <1>9 DEF TruncateFile, scheduler, SentIsWritten, Sent, Making, StoreTypeOK
<1>10. CASE WriteFile
  <2>1. report.trading_date \in Dates /\ report.moment \in Moments
    BY <1>1, <1>10 DEF WriteFile, ReportTypeOK, Dated
  <2>2. QED
    BY <1>1, <1>10, <2>1 DEF WriteFile, scheduler, SentIsWritten, Sent, Making,
       StoreTypeOK
<1>11. CASE Stop
  BY <1>11, LoopAssumption DEF Stop, ForgetSchedule, SentIsWritten, Sent
<1>12. CASE WriteFails
  <2>1. report.trading_date \in Dates /\ report.moment \in Moments
    BY <1>1, <1>12 DEF WriteFails, ReportTypeOK, Dated
  <2>2. <<report.trading_date, report.moment>> \in failed' /\ failed \subseteq failed'
    BY <1>12 DEF WriteFails
  <2>3. QED
    BY <1>12, <2>1, <2>2 DEF WriteFails, scheduler, SentIsWritten, Sent, Making
<1>13. QED
  BY <1>2, <1>3, <1>4, <1>5, <1>6, <1>7, <1>8, <1>9, <1>10, <1>11, <1>12
     DEF Next, MainStep

\* The moments are so far apart that an iteration that starts before 11:30
\* ends before 15:00.
MomentsApart == MiddayAt + MaxCheckLag <= CloseAt + 1

(* A check moves the bounds by one loop period, ScheduleTick by none: it    *)
(* triggers what is due.                                                    *)
LEMMA NotForgottenStep ==
  ASSUME MomentsApart, TypeOK, CheckedBeforeReport, NotForgotten, [Next]_vars
  PROVE  NotForgotten'
<1>1. LoopTypeOK /\ ReportTypeOK
  BY TypeParts
<1>2. /\ now \in Nat /\ last_check \in Nat /\ loop_since \in Nat
      /\ time_of_day \in Nat /\ Midnight \in Nat
      /\ MiddayAt \in Nat /\ CloseAt \in Nat /\ MaxCheckLag \in Nat
      /\ MiddayAt + MaxCheckLag <= CloseAt + 1
  <2>1. Today \in Nat /\ DayLength \in Nat
    BY <1>1, DayParts, LoopAssumption DEF LoopTypeOK, Times, Today
  <2>2. QED
    BY <1>1, <2>1, LoopAssumption DEF LoopTypeOK, Times, Midnight, MomentsApart
<1>3. ASSUME UNCHANGED <<now, pc, time_of_day, scheduler, report, last_check, loop_since>>
      PROVE  NotForgotten'
  BY <1>3 DEF scheduler, NotForgotten, Making, Unsent, Sent, Within, Midnight, Today
<1>4. CASE UNCHANGED vars
  BY <1>3, <1>4 DEF vars, main
<1>5. ASSUME NEW c \in Contracts, CtpFirstTick(c) PROVE NotForgotten'
  BY <1>3, <1>5 DEF CtpFirstTick, main
<1>6. ASSUME NEW c \in Contracts, NEW r \in BOOLEAN, CtpRecord(c, r)
      PROVE  NotForgotten'
  BY <1>3, <1>6 DEF CtpRecord, main
<1>7. CASE CtpUpdate
  BY <1>3, <1>7 DEF CtpUpdate, main
<1>8. CASE Released
  <2>1. last_check' = now /\ loop_since' = now
    BY <1>8 DEF Released
  <2>2. \A m \in Moments : Within(0, m)'
    BY <1>2, <2>1 DEF Within
  <2>3. QED
    BY <1>8, <2>2 DEF Released, NotForgotten, Making
<1>9. CASE CheckHealth
  <2>1. /\ now - last_check <= MaxCheckLag /\ last_check' = now
        /\ UNCHANGED <<now, loop_since, scheduler>>
    BY <1>9 DEF CheckHealth, CheckedBeforeReport, Looping
  <2>2. ASSUME NEW m \in Moments, Within(0, m) PROVE Within(MaxCheckLag, m)'
    BY <1>2, <2>1, <2>2 DEF Within, Midnight, Today
  <2>3. QED
    BY <1>9, <2>1, <2>2 DEF CheckHealth, NotForgotten, Making, Unsent, Sent, scheduler,
       Today
<1>10. CASE ReadClock
  <2>1. UNCHANGED <<now, loop_since, scheduler, last_check>>
    BY <1>10 DEF ReadClock
  <2>2. last_check' <= Midnight' + time_of_day'
    <3>1. now = Midnight + (now % DayLength) /\ now % DayLength \in Nat
      BY <1>2, DayParts, LoopAssumption DEF Midnight, Today
    <3>2. QED
      BY <1>2, <1>10, <3>1 DEF ReadClock, CheckedBeforeReport, Midnight, Today
  <2>3. QED
    BY <1>10, <2>1, <2>2 DEF ReadClock, NotForgotten, Making, Unsent, Sent, scheduler,
       Today, Midnight, Within
<1>11. CASE ScheduleTick
  <2>1. /\ UNCHANGED <<now, loop_since, last_check>>
        /\ last_report_date' = Today /\ Today' = Today /\ Midnight' = Midnight
        /\ last_check <= Midnight + time_of_day
    BY <1>11 DEF ScheduleTick, NotForgotten, Today, Midnight
  <2>2. ASSUME pc' = "snapshots"
        PROVE  Within(MaxCheckLag, report.moment)'
    <3>1. report'.moment \in Moments /\ Unsent(report'.moment)
      BY <1>11, <2>2 DEF ScheduleTick, Unsent, Sent, Moments
    <3>2. Within(MaxCheckLag, report'.moment)
      BY <1>11, <3>1 DEF ScheduleTick, NotForgotten
    <3>3. QED
      BY <2>1, <3>2 DEF Within
  <2>3. ASSUME Unsent("midday")' PROVE Within(0, "midday")'
    <3>1. ~AfterMidday
      BY <1>11, <2>1, <2>3 DEF ScheduleTick, Unsent, Sent
    <3>2. QED
      BY <1>2, <2>1, <3>1 DEF AfterMidday, Within
  <2>4. ASSUME Unsent("close")' PROVE Within(0, "close")'
    <3>1. ~AfterClose \/ Unsent("midday")
      BY <1>11, <2>1, <2>4 DEF ScheduleTick, Unsent, Sent
    <3>2. CASE ~AfterClose
      BY <1>2, <2>1, <3>2 DEF AfterClose, Within
    <3>3. CASE Unsent("midday")
      <4>1. Within(MaxCheckLag, "midday")
        BY <1>11, <3>3 DEF ScheduleTick, NotForgotten, Moments
      <4>2. QED
        BY <1>2, <2>1, <4>1 DEF Within
    <3>4. QED
      BY <3>1, <3>2, <3>3
  <2>5. QED
    BY <1>11, <2>2, <2>3, <2>4 DEF ScheduleTick, NotForgotten, Making, Moments
<1>12. CASE TakeSnapshots \/ TakeMetadata \/ TruncateFile
  BY <1>12 DEF TakeSnapshots, TakeMetadata, TruncateFile, scheduler, NotForgotten,
     Making, Unsent, Sent, Within, Midnight, Today
<1>13. CASE WriteFile \/ WriteFails
  BY <1>13 DEF WriteFile, WriteFails, scheduler, NotForgotten, Making, Unsent, Sent, Within,
     Midnight, Today
<1>14. CASE Start \/ Stop
  BY <1>14 DEF Start, Stop, NotForgotten, Making
<1>15. CASE AdvanceTime
  <2>1. /\ now' = now + 1
        /\ UNCHANGED <<pc, time_of_day, scheduler, report, last_check, loop_since>>
    BY <1>15 DEF AdvanceTime, main
  <2>2. (Today' = Today /\ Midnight' = Midnight) \/ Midnight' = now'
    BY <1>1, <2>1, NextMidnight DEF LoopTypeOK
  <2>3. CASE Midnight' = now'
    <3>1. last_check' < Midnight'
      BY <1>2, <2>1, <2>3 DEF CheckedBeforeReport
    <3>2. \A m \in Moments : Within(0, m)' /\ Within(MaxCheckLag, m)'
      BY <1>2, <2>1, <2>3, <3>1 DEF Within
    <3>3. Making => report'.moment \in Moments
      BY <1>1, <2>1 DEF ReportTypeOK, Triggered, Filled, Dated, Making
    <3>4. QED
      BY <1>2, <2>1, <2>3, <3>1, <3>2, <3>3 DEF NotForgotten, Making
  <2>4. CASE Today' = Today /\ Midnight' = Midnight
    BY <2>1, <2>4 DEF scheduler, NotForgotten, Making, Unsent, Sent, Within
  <2>5. QED
    BY <2>2, <2>3, <2>4
<1>16. QED
  BY <1>4, <1>5, <1>6, <1>7, <1>8, <1>9, <1>10, <1>11, <1>12, <1>13, <1>14, <1>15
     DEF Next, MainStep

(* What is not on disk is not sent or being made, and either bounds how long *)
(* ago the report fell due.                                                 *)
LEMMA PunctualFromParts ==
  ASSUME MomentsApart, TypeOK, CheckedBeforeReport, NotForgotten, SentIsWritten
  PROVE  Punctual
<1> SUFFICES ASSUME NEW m \in Moments, Looping,
                    now - loop_since > 3 * MaxCheckLag,
                    (now % DayLength) - Due(m) > 2 * MaxCheckLag,
                    files[<<Today, m>>] # "complete", <<Today, m>> \notin failed
             PROVE  FALSE
  BY DEF Punctual, Overdue
<1>1. /\ now \in Nat /\ last_check \in Nat /\ loop_since \in Nat
      /\ MiddayAt \in Nat /\ CloseAt \in Nat
      /\ MaxCheckLag \in Nat /\ MaxCheckLag > 0
      /\ Today \in Dates /\ Midnight \in Nat
      /\ now % DayLength = now - Midnight
  <2>1. now \in Times /\ now \in Nat /\ last_check \in Nat /\ loop_since \in Nat
    BY TypeParts DEF LoopTypeOK, Times
  <2>2. /\ Today \in Dates /\ Today \in Nat /\ DayLength \in Nat
        /\ now % DayLength \in Nat
        /\ now = DayLength * Today + (now % DayLength)
    BY <2>1, DayParts, TodayIsDate, LoopAssumption DEF Today
  <2>3. Midnight \in Nat /\ Midnight = DayLength * Today
    BY <2>2 DEF Midnight
  <2>4. QED
    BY <2>1, <2>2, <2>3, LoopAssumption
<1>2. now - last_check <= MaxCheckLag
  BY DEF CheckedBeforeReport
<1>3. CASE Unsent(m)
  <2>1. Within(0, m) \/ Within(MaxCheckLag, m)
    BY <1>3, TypeParts DEF Looping, LoopTypeOK, Pcs, NotForgotten, Making
  <2>2. QED
    BY <1>1, <1>2, <2>1 DEF Within, Due, Moments
<1>4. CASE ~Unsent(m)
  <2>1. Making /\ report.trading_date = Today /\ report.moment = m
    BY <1>1, <1>4 DEF Unsent, SentIsWritten
  <2>2. Within(MaxCheckLag, m)
    BY <2>1 DEF NotForgotten
  <2>3. QED
    BY <1>1, <1>2, <2>2 DEF Within, Due, Moments
<1>5. QED
  BY <1>3, <1>4

(* Both reports of today are on disk, complete, two loop periods after they *)
(* are due, or three after a late start of the loop, even when an earlier   *)
(* process died while it was writing one, unless a write of it has failed:  *)
(* also for a service that runs overnight, as long as the two moments are   *)
(* further apart than a loop period.                                        *)
THEOREM ReportsArePunctual == ASSUME MomentsApart PROVE Spec => []Punctual
<1>1. Init => NotForgotten /\ SentIsWritten
  <2>1. \A d \in Dates : d # Never
    BY LoopAssumption DEF Dates, Never
  <2>2. QED
    BY <2>1 DEF Init, MemoryInit, NotForgotten, SentIsWritten, Making
<1>2. TypeOK /\ CheckedBeforeReport /\ NotForgotten /\ SentIsWritten /\ [Next]_vars
         => NotForgotten' /\ SentIsWritten'
  BY NotForgottenStep, SentIsWrittenStep
<1>3. TypeOK /\ CheckedBeforeReport /\ NotForgotten /\ SentIsWritten => Punctual
  BY PunctualFromParts
<1>4. QED
  BY <1>1, <1>2, <1>3, LoopTypes, LoopChecks, PTL DEF Spec
=============================================================================
