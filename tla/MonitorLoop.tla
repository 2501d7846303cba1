----------------------------- MODULE MonitorLoop -----------------------------
(***************************************************************************)
(* One run after another of the basis_monitor process: the main loop with  *)
(* its ScheduledReportService, the CTP callback thread that feeds the      *)
(* future channel's health tracker and the snapshot store, and the report  *)
(* files that outlive the process.  The process may be killed between any  *)
(* two steps; all it keeps is in memory.                                   *)
(*                                                                         *)
(* The clock counts seconds from the first midnight; one clock stands for  *)
(* steady_clock and system_clock.  A snapshot is abstracted to the time at *)
(* which its tick was recorded by the health tracker.                      *)
(***************************************************************************)
EXTENDS Integers

CONSTANTS
    Contracts,       \* monitored contracts
    DayLength,       \* length of a day
    MiddayAt,        \* 11:30
    CloseAt,         \* 15:00
    StaleThreshold,  \* market_data_stale_threshold_sec
    RecoveryGrace,   \* market_data_recovery_grace_sec
    MaxCheckLag,     \* longest time between two health checks of the loop: its
                     \* one-second sleep and the work it does
    RunsOvernight,   \* TRUE: a service; FALSE: stopped every day before midnight
    MaxStops,        \* bound on the stops of the process
    MaxTime          \* bound on the clock

ASSUME LoopAssumption ==
    /\ DayLength \in Nat /\ MiddayAt \in Nat /\ CloseAt \in Nat
    /\ MiddayAt < CloseAt /\ CloseAt < DayLength
    /\ StaleThreshold \in Nat \ {0}
    /\ RecoveryGrace \in Nat
    /\ MaxCheckLag \in Nat \ {0}
    /\ RunsOvernight \in BOOLEAN
    /\ MaxStops \in Nat
    /\ MaxTime \in Nat

VARIABLES
    now,
    pc,                 \* next step of the main thread
    time_of_day,        \* local_time, read once per iteration
    last_report_date, midday_sent, close_sent,  \* ScheduledReportService
    report,             \* the report that the iteration is making
    first_market_data,  \* first_market_data_event_ is set
    ctp,                \* the tick that the CTP thread is handling
    has_seen_tick, last_tick_time, stale_active, recovery_pending,
    recovery_candidate_since,                   \* the future channel's tracker
    last_check,         \* when the loop last checked the channel
    snapshots,          \* LatestBasisSnapshotStore
    files,              \* the report files on disk
    failed,             \* history: the reports of which a write has failed
    loop_since,         \* history: the first check of this process
    stops               \* history: number of stops so far

scheduler == <<last_report_date, midday_sent, close_sent>>
tracker == <<has_seen_tick, last_tick_time, stale_active, recovery_pending,
             recovery_candidate_since>>
main == <<pc, time_of_day, scheduler, report, last_check, loop_since>>
feed == <<first_market_data, ctp, snapshots>>
vars == <<now, main, feed, tracker, files, failed, stops>>

Never == -1
Times == 0 .. MaxTime
Dates == 0 .. MaxTime \div DayLength
Moments == {"midday", "close"}
Due(moment) == IF moment = "midday" THEN MiddayAt ELSE CloseAt
Today == now \div DayLength
Looping == pc \notin {"down", "wait"}

NoReport == [moment |-> "none"]
NoTick == [pc |-> "idle"]
NoSnapshots == [c \in Contracts |-> Never]

\* The future channel of MarketDataHealthRegistry; its history is kept by
\* HealthTracker.tla.
Health == INSTANCE HealthTracker
          WITH UnitsPerSecond <- 1, loop_running <- TRUE,
               steady_since <- 0, outage_end <- 0

-----------------------------------------------------------------------------
(* CTP thread: OnRtnDepthMarketData and TerminalMdListener::OnTick. *)

\* The event that releases the main thread is set before the listener is told
\* of the tick.
CtpFirstTick(c) ==
    /\ pc # "down" /\ ~first_market_data
    /\ first_market_data' = TRUE
    /\ ctp' = [pc |-> "record", contract |-> c]
    /\ UNCHANGED <<now, main, snapshots, tracker, files, failed, stops>>

\* Mutant: the tick is recorded for the index channel.
CtpRecordForIndex(c, has_result) ==
    /\ first_market_data
    /\ ctp = NoTick \/ (ctp.pc = "record" /\ ctp.contract = c)
    /\ ctp' = IF has_result THEN [pc |-> "update", contract |-> c, at |-> now] ELSE NoTick
    /\ UNCHANGED <<now, main, first_market_data, snapshots, tracker, files, failed, stops>>

\* The tick is recorded and, unless the service skips it, becomes a snapshot.
CtpRecord(c, has_result) ==
    /\ first_market_data
    /\ ctp = NoTick \/ (ctp.pc = "record" /\ ctp.contract = c)
    /\ Health!TrackerRecordTick
    /\ ctp' = IF has_result THEN [pc |-> "update", contract |-> c, at |-> now] ELSE NoTick
    /\ UNCHANGED <<now, main, first_market_data, snapshots, files, failed, stops>>

CtpUpdate ==
    /\ ctp.pc = "update"
    /\ snapshots' = [snapshots EXCEPT ![ctp.contract] = ctp.at]
    /\ ctp' = NoTick
    /\ UNCHANGED <<now, main, first_market_data, tracker, files, failed, stops>>

-----------------------------------------------------------------------------
(* Main thread. *)

\* WaitForFirstMarketData returns; the first iteration begins.
Released ==
    /\ pc = "wait" /\ first_market_data
    /\ pc' = "check"
    /\ last_check' = now
    /\ loop_since' = now
    /\ UNCHANGED <<now, time_of_day, scheduler, report, feed, tracker, files, failed, stops>>

CheckHealth ==
    /\ pc = "check"
    /\ Health!TrackerCheck
    /\ last_check' = now
    /\ pc' = "clock"
    /\ UNCHANGED <<now, time_of_day, scheduler, report, loop_since, feed, files, failed, stops>>

\* Mutant: the time of day is taken for the time since the epoch.
ReadClockSinceEpoch ==
    /\ pc = "clock"
    /\ time_of_day' = now
    /\ pc' = "tick"
    /\ UNCHANGED <<now, scheduler, report, last_check, loop_since, feed, tracker,
                   files, failed, stops>>

ReadClock ==
    /\ pc = "clock"
    /\ time_of_day' = now % DayLength
    /\ pc' = "tick"
    /\ UNCHANGED <<now, scheduler, report, last_check, loop_since, feed, tracker,
                   files, failed, stops>>

\* Mutant: the close is an hour early.
AfterCloseEarly == time_of_day >= CloseAt - 1

AfterMidday == time_of_day >= MiddayAt
AfterClose == time_of_day >= CloseAt

\* ScheduledReportService::Tick, called with the date of a second look at the
\* clock: a new date resets the flags, and at most one report is due.
ScheduleTick ==
    LET new_date == Today # last_report_date
        midday_due == (new_date \/ ~midday_sent) /\ AfterMidday
        close_due == (new_date \/ ~close_sent) /\ AfterClose
        triggers(moment) ==
            /\ report' = [moment |-> moment, trading_date |-> Today]
            /\ pc' = "snapshots"
    IN  /\ pc = "tick"
        /\ last_report_date' = Today
        /\ midday_sent' = ((midday_sent /\ ~new_date) \/ midday_due)
        /\ close_sent' = ((close_sent /\ ~new_date) \/ (close_due /\ ~midday_due))
        /\ \/ midday_due /\ triggers("midday")
           \/ ~midday_due /\ close_due /\ triggers("close")
           \/ ~midday_due /\ ~close_due /\ pc' = "check" /\ UNCHANGED report
        /\ time_of_day' = 0
        /\ UNCHANGED <<now, last_check, loop_since, feed, tracker, files, failed, stops>>

\* snapshot_store.GetAll()
TakeSnapshots ==
    /\ pc = "snapshots"
    /\ report' = [moment |-> report.moment, trading_date |-> report.trading_date,
                  snapshots |-> snapshots]
    /\ pc' = "metadata"
    /\ UNCHANGED <<now, time_of_day, scheduler, last_check, loop_since, feed,
                   tracker, files, failed, stops>>

\* Mutant: the report's metadata keeps its default status.
TakeMetadataWithoutStatus ==
    /\ pc = "metadata"
    /\ report' = [moment |-> report.moment, trading_date |-> report.trading_date,
                  snapshots |-> report.snapshots, report_generated_at |-> now,
                  data_as_of |-> IF has_seen_tick THEN last_tick_time ELSE Never,
                  stale |-> FALSE]
    /\ pc' = "truncate"
    /\ UNCHANGED <<now, time_of_day, scheduler, last_check, loop_since, feed,
                   tracker, files, failed, stops>>

\* Only this thread changes stale_active, so it is read with data_as_of.
TakeMetadata ==
    /\ pc = "metadata"
    /\ report' = [moment |-> report.moment, trading_date |-> report.trading_date,
                  snapshots |-> report.snapshots, report_generated_at |-> now,
                  data_as_of |-> IF has_seen_tick THEN last_tick_time ELSE Never,
                  stale |-> stale_active]
    /\ pc' = "truncate"
    /\ UNCHANGED <<now, time_of_day, scheduler, last_check, loop_since, feed,
                   tracker, files, failed, stops>>

\* ReportStore::Write opens the file with trunc and writes it on return.
TruncateFile ==
    /\ pc = "truncate"
    /\ files' = [files EXCEPT ![<<report.trading_date, report.moment>>] = "empty"]
    /\ pc' = "write"
    /\ UNCHANGED <<now, time_of_day, scheduler, report, last_check, loop_since,
                   feed, tracker, failed, stops>>

WriteFile ==
    /\ pc = "write"
    /\ files' = [files EXCEPT ![<<report.trading_date, report.moment>>] = "complete"]
    /\ pc' = "check"
    /\ report' = NoReport
    /\ UNCHANGED <<now, time_of_day, scheduler, last_check, loop_since, feed,
                   tracker, failed, stops>>

\* The stream cannot be opened, and the file stays as it was, or the text is
\* not written, and it stays empty.  Write does not look at the stream and
\* returns the path all the same; the moment counts as sent.
WriteFails ==
    /\ pc \in {"truncate", "write"}
    /\ failed' = failed \cup {<<report.trading_date, report.moment>>}
    /\ pc' = "check"
    /\ report' = NoReport
    /\ UNCHANGED <<now, time_of_day, scheduler, last_check, loop_since, feed,
                   tracker, files, stops>>

MainStep ==
    \/ Released
    \/ CheckHealth
    \/ ReadClock
    \/ ScheduleTick
    \/ TakeSnapshots
    \/ TakeMetadata
    \/ TruncateFile
    \/ WriteFile
    \/ WriteFails

-----------------------------------------------------------------------------
(* The process and its supervisor. *)

MemoryInit ==
    /\ time_of_day = 0
    /\ last_report_date = Never
    /\ midday_sent = FALSE
    /\ close_sent = FALSE
    /\ report = NoReport
    /\ first_market_data = FALSE
    /\ ctp = NoTick
    /\ Health!TrackerInit
    /\ last_check = 0
    /\ snapshots = NoSnapshots
    /\ loop_since = 0

Init ==
    /\ now = 0
    /\ pc = "down"
    /\ MemoryInit
    /\ files = [f \in Dates \X Moments |-> "absent"]
    /\ failed = {}
    /\ stops = 0

Start ==
    /\ pc = "down"
    /\ pc' = "wait"
    /\ UNCHANGED <<now, time_of_day, scheduler, report, last_check, loop_since,
                   feed, tracker, files, failed, stops>>

\* Mutant: the flags of the scheduler survive the process.
KeepSchedule == UNCHANGED scheduler

\* A new process has a new ScheduledReportService.
ForgetSchedule ==
    /\ last_report_date' = Never
    /\ midday_sent' = FALSE
    /\ close_sent' = FALSE

\* A signal, a failed start or a crash.
Stop ==
    /\ pc # "down" /\ stops < MaxStops
    /\ pc' = "down"
    /\ time_of_day' = 0
    /\ ForgetSchedule
    /\ report' = NoReport
    /\ first_market_data' = FALSE
    /\ ctp' = NoTick
    /\ has_seen_tick' = FALSE
    /\ last_tick_time' = 0
    /\ stale_active' = FALSE
    /\ recovery_pending' = FALSE
    /\ recovery_candidate_since' = 0
    /\ last_check' = 0
    /\ snapshots' = NoSnapshots
    /\ loop_since' = 0
    /\ stops' = stops + 1
    /\ UNCHANGED <<now, files, failed>>

\* The loop is never late; without RunsOvernight the process is down at
\* midnight.
AdvanceTime ==
    /\ now < MaxTime
    /\ Looping => now - last_check < MaxCheckLag
    /\ RunsOvernight \/ pc = "down" \/ (now + 1) \div DayLength = Today
    /\ now' = now + 1
    /\ UNCHANGED <<main, feed, tracker, files, failed, stops>>

Next ==
    \/ \E c \in Contracts : CtpFirstTick(c)
    \/ \E c \in Contracts, has_result \in BOOLEAN : CtpRecord(c, has_result)
    \/ CtpUpdate
    \/ MainStep
    \/ Start
    \/ Stop
    \/ AdvanceTime

Spec == Init /\ [][Next]_vars

\* The main thread runs, the supervisor starts what is down, and a process
\* that subscribes is sent a tick.
FairSpec ==
    /\ Spec
    /\ WF_vars(MainStep)
    /\ WF_vars(Start)
    /\ WF_vars(\E c \in Contracts : CtpFirstTick(c))

-----------------------------------------------------------------------------
\* Every variable keeps its type; the fields of a report are filled in order.
TypeOK ==
    /\ now \in Times
    /\ pc \in {"down", "wait", "check", "clock", "tick", "snapshots", "metadata",
               "truncate", "write"}
    /\ time_of_day \in 0 .. DayLength - 1
    /\ last_report_date \in Dates \cup {Never}
    /\ midday_sent \in BOOLEAN /\ close_sent \in BOOLEAN
    /\ CASE pc = "snapshots" -> report \in [moment : Moments, trading_date : Dates]
         [] pc = "metadata" -> report \in [moment : Moments, trading_date : Dates,
                                  snapshots : [Contracts -> Times \cup {Never}]]
         [] pc \in {"truncate", "write"} ->
               report \in [moment : Moments, trading_date : Dates,
                           snapshots : [Contracts -> Times \cup {Never}],
                           report_generated_at : Times,
                           data_as_of : Times \cup {Never}, stale : BOOLEAN]
         [] OTHER -> report = NoReport
    /\ first_market_data \in BOOLEAN
    /\ \/ ctp = NoTick
       \/ ctp \in [pc : {"record"}, contract : Contracts]
       \/ ctp \in [pc : {"update"}, contract : Contracts, at : Times]
    /\ has_seen_tick \in BOOLEAN /\ stale_active \in BOOLEAN
    /\ recovery_pending \in BOOLEAN
    /\ last_tick_time \in Times /\ recovery_candidate_since \in Times
    /\ last_check \in Times /\ loop_since \in Times
    /\ snapshots \in [Contracts -> Times \cup {Never}]
    /\ files \in [Dates \X Moments -> {"absent", "empty", "complete"}]
    /\ failed \subseteq Dates \X Moments
    /\ stops \in 0 .. MaxStops

Made == pc \in {"truncate", "write"}

\* data_as_of covers the report: no snapshot in it comes from a later tick,
\* although the CTP thread goes on while the report is put together.
DataAsOfCovers ==
    Made => \A c \in Contracts : report.snapshots[c] <= report.data_as_of

\* A report marked market_data_status=OK whose data_as_of is not N/A rests on a
\* feed that was alive, up to one loop period before it was generated.
OkReportIsLive ==
    Made /\ ~report.stale /\ report.data_as_of # Never =>
       report.report_generated_at - report.data_as_of < StaleThreshold + MaxCheckLag

\* A report is generated no earlier than its moment of its date: the "11:30 and
\* 15:00" of README.md.
NotEarly ==
    Made => report.report_generated_at
               >= report.trading_date * DayLength + Due(report.moment)

\* Two loop periods after the report is due, or three after a late start of the
\* loop
Overdue(moment) ==
    /\ now - loop_since > 3 * MaxCheckLag
    /\ (now % DayLength) - Due(moment) > 2 * MaxCheckLag

\* Both reports of today are on disk, complete, when they are overdue, even if
\* an earlier process died while it was writing one; only a write that failed is
\* not made up for.
Punctual ==
    Looping => \A m \in Moments :
       Overdue(m) => files[Today, m] = "complete" \/ <<Today, m>> \in failed

\* A report that was triggered is finished on its day, or its write fails, or
\* the day is over: a crash between the flag and the file loses the flag as
\* well.
TriggeredIsFinished ==
    \A d \in Dates, m \in Moments :
       (pc = "snapshots" /\ report.trading_date = d /\ report.moment = m)
          ~> (files[d, m] = "complete" \/ <<d, m>> \in failed \/ Today # d)
=============================================================================
