# TLA+ model of basis_monitor

basis_monitor selects the futures contracts to watch from reference data that a
script pushes to its machine, subscribes to index-futures ticks (CTP) and
spot-index prices (XTP), computes annualised basis rates, raises alerts when a
rate is below a threshold and writes a report file at 11:30 and 15:00. Python
scripts on a second server pull the output files and forward alerts and reports
to a chat robot. This directory models the program, checks the models with TLC and
proves their main invariants with TLAPS. Source paths below are relative to
the repository root.

## Inventory

| Component | State | Operations | Interacts with |
|---|---|---|---|
| `AlertEngine` (src/monitor/alert_engine.cpp) | per instrument: `is_negative`, `last_alert_time`, `has_alert_time` | `Evaluate` | called by the service in the CTP callback thread |
| `MarketDataHealthTracker`, `...Registry` | last tick, `stale_active_`, grace period; two trackers, one mutex each | `RecordTick`, `Check`, getters | callback threads record, the main loop checks and reads |
| `BasisMonitorService`, `BasisCalculator` | `latest_index_prices_` (no lock), the alert engine | `OnIndexTick`, `OnTick` | XTP thread writes the map, CTP thread reads it |
| `TerminalMdListener` (app/main.cpp) | terminal lines | `OnTick` | service, stores, health registry, notifier |
| Main loop (app/main.cpp) | `g_keepRunning`, locals | start, wait for the first tick, loop, stop | everything |
| `ScheduledReportService` | last date, two flags | `Tick` | called by the main loop |
| `LatestBasisSnapshotStore` | a snapshot per contract, one mutex | `Update`, `GetAll` | CTP thread updates, main loop reads |
| `ReportStore`, `AlertStore`, `BasisResultStore`, `TickStore` | files | `Write`, `Append` | read by the relay's pulls while they are written |
| CTP session (`MdSpiBridge`, `MdApiSession`) | four events, flags, the api and the bridge | connect, login, subscribe, disconnect, ticks, release | SDK thread calls the bridge, main thread waits on the events |
| XTP session, session factory | `api_`, `spi_bridge_`, `started_`, the first-tick flag | start, login, subscribe, recover, ticks, stop | both threads log in and subscribe; the dual session starts and stops both |
| Reference data, contract selection | none after start | find, load, select, subset, subscriptions | once before the loop, and on the other machine before a push |
| Reference data push (scripts/push_reference_data_to_zhongtai.sh) | four remote directories | clear, put | replaces files that the monitor reads when it starts |
| Notifier, formatters, renderer | temporary files | `SendMarkdown`, `SendText` | spawn curl; called from two threads |
| Relay (scripts/relay_zhongtai_notifications.py) | JSON state of what was sent | `relay_alerts`, `relay_reports` | reads pulled files, posts to the robot |
| Orchestrator (scripts/run_zhongtai_relay_orchestrator.py) | clock, windows | pull, relay, sleep | runs the two above |
| Supervision (start.sh, stop.sh, systemd, daily schedule) | PID file | start, stop | starts and kills the process |

What is hard: two SDK threads and the main thread share memory, partly
without a lock; connections are lost and made again between the steps of a
handshake; objects are destroyed while other threads may still call them; the
process is killed and restarted and keeps nothing but files; durations,
time-outs and the date come from clocks that are read several times; files are
copied while they are written. PROJECT.json lists each hazard
at its line with the properties that cover it.

What makes the components correct: alerts are spaced and never silently lost
(engine, listener, store); a dead feed is flagged in time and a healthy one
cleared (tracker); results and alerts are computed from fresh index prices only
(service); reports are on time, complete, consistent with their `data_as_of` and
truthful about the feed (loop, scheduler, snapshot store, report store); a
session is started only when everything is subscribed, comes back after a
disconnection, and calls nobody after it was stopped (sessions); what is
monitored is what the source files call for, or the start fails (reference
data); each alert and report reaches the robot (relay).

## Modules

| Module | Models | Refines / uses |
|---|---|---|
| `AlertThrottle` | abstract: an alert if and only if the last interval had none | |
| `AlertEngine` | src/monitor/alert_engine.cpp | implements `AlertThrottle` |
| `AlertEngineProofs` | its theorems | |
| `HealthTracker` | src/monitor/market_data_health_tracker.cpp for one channel | |
| `HealthTrackerProofs` | its theorems | |
| `TickPipeline` (`MCTickPipeline`) | `OnIndexTick` and `OnTick` of service and listener, two threads | instance of `AlertEngine` |
| `TickPipelineProofs` | its theorems | |
| `MonitorLoop` | main loop, scheduler, snapshot store, report files, kills and restarts | instance of `HealthTracker` |
| `MonitorLoopProofs` | its theorems | |
| `LinuxEvent` | the events of platform/linux_compat.h | operators of `CtpSession` |
| `CtpSession` | `MdSpiBridge`, `MdApiSession` | part of `DualSession` |
| `XtpSession` | `XtpMarketDataSession` and its bridge | part of `DualSession` |
| `SessionContract` | abstract: what main.cpp needs of a session | |
| `DualSession` (`MCDualSession`) | the factory, the three kinds of session, start to exit of the main thread | composes the two, implements `SessionContract` |
| `DualSessionProofs` | its theorems: types, events, lifetimes, refinement | |
| `SubscriptionProofs` | its theorems about what is subscribed | extends `DualSessionProofs` |
| `ContractSelection` | selection, subset, subscriptions as pure functions | operators of `ReferenceData` |
| `ReferenceData` (`MCReferenceData`) | the push, and the start up to the selection | |
| `ReferenceDataProofs` | its theorems | |
| `Relay` | orchestrator, SFTP pull, relay and its state file, stops and crashes | |
| `RelayProofs` | its theorems | |

### AlertEngine

`is_negative`, `last_alert_time` and `has_alert_time` are the three fields of
`AlertState`; an instrument without an entry in `state_` is one with the default
fields, because `operator[]` creates it so. `Evaluate(i, below)` is one call: the
rate is abstracted to whether it is below `negative_threshold_`. The histories
`alerts` and `calm` record when alerts were raised and when the rate was seen
back above the threshold since; no guard reads them. `asked` names the
evaluations of the current instant, so that an alert that is not raised is seen
by the refinement. The clock is in minutes and
does not step back, which `system_clock` may.

### HealthTracker

`RecordTick` and `Check` hold the mutex throughout, so each is one action. The
clock has `UnitsPerSecond` units per second, because the tracker truncates
durations to seconds before it compares them. `AdvanceTime` lets no
`MaxCheckLag` pass between two `Check`s once the loop runs: this is the loop's
one-second sleep plus its work, an assumption on the scheduling (a call of the
notifier in the main thread lengthens it). Before that ticks may come and go
unchecked, as they do during start-up. Histories: `steady_since`, `outage_end`.

### TickPipeline

An assignment to an entry of `latest_index_prices_` is two stores and no lock is
held, so `XtpTick` (the entry exists, `now()` was read) is followed by one
`XtpStore` per field, and the CTP thread reads the time in `CtpLookup` and the
price in the step after it. Which field is stored first is up to the build: it is
the constant `FirstStores`. A price is represented by the time it was received,
which is what freshness is about. `CtpCompute` is the rest of
`BasisMonitorService::OnTick` and the listener up to the alert row, `CtpAppend`
the row; the snapshot stores what it was computed from. A concurrent rehash of
the `unordered_map` (the first tick of an index while a futures tick looks
another up) is undefined beyond what the model shows and is not modelled.

### MonitorLoop

`pc` is the main thread's next step. `ReadClock` and `ScheduleTick` are apart
because main.cpp reads the time of day before the date. `TakeSnapshots`,
`TakeMetadata`, `TruncateFile` and `WriteFile` are the steps between which the
CTP thread (`CtpFirstTick`, `CtpRecord`, `CtpUpdate`) or a kill (`Stop`) may come.
`CtpFirstTick` releases the main thread before the tick is recorded, as
`OnRtnDepthMarketData` does. `Stop` forgets all memory and keeps `files`. With
`RunsOvernight = FALSE` the process is down at midnight, as
run_remote_daily_schedule.sh arranges; with `TRUE` it runs on, as the systemd unit
does. `WriteFails` is a stream that cannot be opened or written: `ReportStore::Write`
does not look at it, so the loop goes on as after a report that was saved; the
history `failed` says of which reports that happened. The index channel is not in
this module: the loop checks it but no report depends on it.

### CtpSession, XtpSession, DualSession, SessionContract

The two halves are modules of their own because they share nothing; each has its
variables, its library thread's actions and the parts of `Start` and `Stop` that
the main thread runs. `DualSession` extends both and adds the main thread: `pc`
is its next step, `mode` what the factory made, `teardown` what is left of
stopping and destroying, whichever path led there (`Stop`, or the destructors
after a failed start).

`ctp` holds the flags of `MdSpiBridge`, `event` its four auto-reset events. A
callback is one action when nothing but its last statement can be seen by another
thread; `OnFrontConnected` and `OnRspUserLogin`, which end in a `SetEvent` after
a request was sent, and the tick callback, which sets the event before it calls
the listener, are two. `MdApiSession::Start` is a `WaitFor...` and a `Check...`
for each wait, because the flags are read after the event was taken and a
connection may be lost and made again in between. The two flags of one check are
read as one: a success implies its request was accepted, so what two reads say
is what one of the two moments says. `front` is external: a
connection, the answers it owes, the instruments it streams. A response is
delivered only on the connection it was asked for on. Responses to a subscription
come one for each instrument in any order, the last with `bIsLast`.

`call[t]` is how far thread `t` is in `LoginAndSubscribe`, which the main thread
runs in `Start` and the library's thread in `OnDisconnected`, without a lock.
The exchanges are subscribed one call at a time, in the map's order. `Stop` is
four steps: log out, free the bridge, make `api_` null, release. A callback on a
freed bridge is undefined behaviour: it goes on as before or ends the process
(`misused` enables `Crash`); a call through the null `api_` ends it. Queued ticks
may be delivered after `Logout`, until `Release` returns.

Assumed of both libraries: one callback at a time, none before the registration,
none after `Release` returned, which it does when no callback runs. Left out:
the log; the choice of the time-out for the first
tick (main.cpp:486-490), as any wait may time out; a signal before the loop,
which has no handler yet and kills the process. `OnDisconnected` before
`started_` does nothing, as in the code.

`SessionContract` says what main.cpp relies on: the loop is entered only after
market data came, no listener call begins before `Start` or is running when the
session has been stopped, and the process dies of the session, if at all, while
it stops. `KeepsContract` maps `pc` to the phase and the callbacks that hold
market data to `delivering`.

### ContractSelection, ReferenceData

Reference data is a record of four files, each a sequence of rows; a file in a
directory has its date, its rows and whether it can be read at all.
`SelectContracts` is `SelectPerProductTop4` as written: filter, sort by turnover
and id, cut to `TopN`. `Due` beside it is the reference definition, without
sorting. `Written` stands for the six significant digits of `operator<<`: from
`ExactBelow` on, neighbouring numbers become equal.

A file is known by the date in its name, which it keeps from the source directory
to the monitor's. `newest` is the date of the newest file of each of the four
source directories: `Deliver` (external) brings today's into some of them, so the
four dates of a push may differ, as in test_reference_data_loader.cpp:98-101, and
two pushes of the same source files write the same names. `push` is the script:
`Prepare` is everything up to the batch (copying the newest file of each
directory and running prepare_reference_subset on them on that machine), then the
batch's commands one by one. `BeginPut` puts what a transfer in progress shows
of a file, `EndPut` the whole; `BreakOff` ends the batch at any point. `Cuts` are the contents
a transfer may leave: a header that is not complete or a row without its columns
makes the loader throw (`readable` is FALSE), a row whose last number or date is
cut reads as a smaller number or a missing date (`Beginning`). The batch's `-rm`
removes what is there; that the server refuses a removal, which the dash would
hide, is not modelled, and a `-cd` that fails would be a directory that is missing,
which `-mkdir` has made. `start` is the monitor: the day, then the four
`FindLatestFile` calls, the four loads, the selection; the loader records the
dates it finds and compares them with nothing. The machines share nothing but
the directories, so every step of one may fall between two of the other. The
rows of the source files are one of `Markets`, the same for prepare and for
the properties. Both machines have the same date. Left out: CSV quoting, and
columns that nothing in the selection reads. Warnings are log lines. The history
`uploads` holds the dates of the files of each push.

`OneVersionOnly` says that the dates of the files a start has opened are those of
one push. It does not say that one push has put them: a file name is that of its
source, so a start that overlaps a second push, one that shares some source files
with the first, may open some files of either and know only the contracts that
both have selected. The steps of the model reach such starts (the metadata changes
between the pushes, the EOD file does not); no property claims that they do not
happen, as the scripts do nothing to keep a start and a push apart.

### Relay

`orch` is the orchestrator with the window flag it computed at the head of the
cycle; `child` are the processes it starts: the pull, then the relay with
`--skip-reports`, then, in the window, with `--skip-alerts`. `Stop` is
stop_zhongtai_relay_orchestrator.sh, which signals the orchestrator's process
only, so its child goes on beside those of the next one; `Crash` is the loss of
the host. A child's `dict` is the dictionary of load_state and save_state;
`sent`, `gaveUp` and `attempts` beside it are the local sets of relay_alerts and
relay_reports, which reach the dictionary only when the function returns.
`stateFile` is what load_state would return: an emptied file is the default.
Alert rows are numbered by their position, and the spool's copy is a prefix of
the monitor's file, because the file is only appended to and a transfer may break
off. A report is empty between `TruncateReport` and `FillReport`, and its copy is
empty while it is fetched; reports are smaller than one SFTP block, so no other
part of one is seen. A try of post_wecom_json is `PostOk`, `PostError` (caught,
tried again) or `PostTimeout` (not caught: `urlopen` wraps errors of sending the
request only); in the last two the robot may have accepted the message. Left
out: receipts, which nothing reads, the Markdown, and `--once`. The clock counts
minutes; cycles take any time. Histories: `posts`, `failures`, `stops`, `faults`.

## Runs

| Run | Module, cfg | Shows | Bounds and why they suffice |
|---|---|---|---|
| alert_engine | AlertEngine, AlertEngine.cfg | spacing, meaning of the transition, refinement of the throttle | interval 2, clock to 6: three intervals, so entry, reminder, recovery inside and after the interval and re-entry all occur; two instruments show independence |
| health_tracker | HealthTracker.cfg | detection and recovery deadlines | threshold and grace of 2 s, half-second clock, a lag of 1.5 s that is no multiple of a second, 12 s: two full outages and recoveries |
| tick_pipeline | MCTickPipeline, TickPipeline.cfg | freshness of results, backing of suppression | a reported contract and one of the current month that expires share an index; threshold and interval 2, clock to 5: an entry is fresh, stale and fresh again, an alert is followed by a reminder |
| index_race (violation) | IndexRace.cfg | the same, if the build stores the time first | as above |
| alert_lost (violation) | AlertLost.cfg | a failed append is never made up for | as above |
| monitor_loop | MonitorLoop.cfg | consistency, truthfulness and punctuality of reports, when processes die and writes fail; a triggered report is finished on its day | a day of seven units with both report times in its first two, and the first moments of the next; a lag of one unit, so that a report is overdue while a process that was started again after dying at 11:30 or 15:00 has been looping for long enough to be held to it; threshold 2, grace 1; one kill at any step; one contract, because the property compares each snapshot with `data_as_of` on its own |
| midnight_report (violation) | MidnightReport.cfg | the 11:30 report of the next day at 00:00 | a day of ten units, overnight |
| relay_alerts | Relay, RelayAlerts.cfg | no unexplained repetition, nothing marked sent that was not | one row on each of two days, or two on one; two process slots, one stop and one further fault, so a child of a stopped orchestrator meets every step of the next one's cycle |
| relay_reports | RelayReports.cfg | the same for reports, that a failing one is given up, and that alerts and reports get through | one process slot, one row, one report moment with its window on a day of two units, two tries, two attempts, one fault at any transfer or post; liveness needs the full graph, which keeps it that small |
| relay_limit (violation) | RelayLimit.cfg | a time-out is not counted | limit of one attempt, two unanswered posts |
| sessions | MCDualSession, DualSession.cfg | what the sessions promise, from the factory to the exit | every configuration; two instruments, so that one may fail after the other; two connections, so that each step of the handshake may meet the loss of one and the beginning of the next; one refusal, one XTP disconnection, one denial; two exchanges in use (three suffixes, one empty ticker) |
| reference_data | MCReferenceData, ReferenceData.cfg | what a start selects, beside pushes, after a complete one and after one that broke off | four markets: ties and near-ties of turnover, orders that change from one date to the next, a contract that expires between the days, and each reason to leave a contract out; metadata and EOD files delivered apart; top 2 of 3; two days, one start, two pushes, so that one may leave files of another, of the same names or of newer ones |

Deadlock is checked except in two runs: in `sessions` the process exits, and in
`reference_data` the pushes, starts and days of the bounds run out. In the others
ticks, evaluations and the loop go on when the clock has reached its bound.

Every property of a passing run has a mutant in PROJECT.json: a variant of one
definition, written before it in the module and marked "Mutant", under which TLC
finds the property violated.

### What the violations say

- index_race: with a build that stores `received_at` first, a result can use a
  price older than the threshold. The C++ program has a data race here either
  way; `TickPipelineProofs` proves freshness for the other order.
- alert_lost: the engine's state is committed before the row is appended.
- midnight_report: two reads of the clock around midnight.
- relay_limit: a time-out while the answer is awaited ends the whole round; it is
  not tried again, not counted, and what the round has posted is forgotten.

Some properties of passing runs except what the code cannot keep and no
document promises: `BridgeIsAlive` and `SessionContract` an XTP bridge that is
used after `Stop` has freed it, `FirstTickKnown` a first tick of which the
listener is still being told, `Punctual` and `TriggeredIsFinished` a report whose
write has failed (the scheduler's flag is set before, and nobody looks at the
stream), `AlertReaches` the cycles before the first report file, `ReportReaches` a
window that closes, `CutPushIsNoticed` a cut within the last file of a push, and
`QuietStartMonitorsAll` a contract that expired after the push, in whose place the
subset has no other. They show that there is no other failure of the kind; the
hazards they leave open are listed in PROJECT.json without them.

`DuplicatesExplained` says how often a message may be repeated: once for each
crash, cut transfer, time-out or accepted post that was answered with an error,
and twice for a stop, since the child that goes on may lose what was recorded
when it empties the state file and again when it fills it. So README.md's
de-duplication by `alert_key` is one between rounds whose state was saved.

### Fairness

`FairSpec` of `MonitorLoop`: the main thread is scheduled (`MainStep`), the
supervisor starts what is down (`Start`: systemd's `Restart=on-failure`, or the
daily schedule), and a process that subscribed receives a tick (`CtpFirstTick`:
on subscription the exchange sends a snapshot; without one the process exits
after `first_tick_timeout_ms` and is started again). Neither time nor kills are
fair.

`FairSpec` of `Relay`: the orchestrator is started when it is down, it and its
children do not stand still, and (strong fairness) a transfer or post that is
tried again and again succeeds in the end; the network is assumed no better than
that. Time, stops and faults are not fair, so an open window may close before a
report is through. `AlertReaches` excepts one case: in the window, as long as
there is no report file at all, the pull fails at `mget` and takes the alerts of
the cycle with it.

`FairSpec` of `DualSession`: the main thread runs and a callback that has begun
ends (weak fairness), and the CTP library's thread delivers what the front sends
(strong fairness: its queue is first in, first out, so an answer that is owed is
not overtaken by ticks for ever, though it may go away with the connection).
Nothing is assumed of ticks, time-outs, the signal, XTP, or the loss of a
connection. So `StartEnds` excepts exactly the cases in which the code waits for
ever: the front is not connected, or has turned something down on a connection
after the one that `Start` was waiting on.

## Proofs

All theorems hold for every value of the constants that satisfies the named
`ASSUME`s. Three have a hypothesis of their own besides, which their statement
shows and the items below explain: `FreshnessCorrect`, `ReportsAreNotEarly` and
`ReportsArePunctual`.

- `AlertEngineProofs`: `IInv` says what the three flags know of the histories:
  the flags agree, an open episode remembers the last alert, a closed one means
  that every alert is an interval old, and an episode is closed exactly when
  there was no alert or a late recovery. `AlertSpacing` alone is not inductive:
  it needs to know that a forgotten alert is old. The refinement maps `alerts`
  to `alerts`; a step that raises an alert is a step of the throttle because the
  flags are due exactly when the history is.
- `HealthTrackerProofs`: `WholeSecondsBound` turns truncated durations into
  bounds in clock units. `IInv` relates the flags to the last check: a silence
  it saw is flagged, an episode without grace period has had no tick since, and
  a running grace period lies between the last outage and the last check.
- `TickPipelineProofs`: `BackedInv` extends suppression backing to the tick in
  flight; `FreshInv` says that an entry's price is as recent as its time and
  that the time an admitted tick saw can only grow. Freshness is proved for the
  builds that store the price first (`FirstStores \subseteq {"price"}`); for the
  others index_race refutes it.
- `ReferenceDataProofs`: the dates of what a start has opened are those of one
  push (`OneVersionOnlyHolds`). A push has a version, its four dates, and versions
  never go back in any of the four (`VersionsGrow`). Because a push clears all four
  directories before its first put (`PushReplacesAll`: what has been cleared stays
  empty until all is), what is there at any time is of one version
  (`FilesOfOneVersion`). A start finds its four files before it opens the first, so
  that none of the dates it has found is later than in the version w that is there
  then (`FoundIsThere`); a file that it opens later is of a version not before w
  and of a date not after that of w, hence of w's (`OpenedOfOneVersion`). The four
  dates themselves may differ, as they do in the code. A
  push that broke off is noticed (`CutPushesAreNoticed`) because, while it runs,
  the directories from that of the next put on are empty (`RestIsEmpty`), so
  that it leaves an empty one unless nothing, or only the end of the last file,
  is missing (`LeavesGap`); a start that meets no push finds all four not empty
  at once (`UndisturbedFinds`).
- `DualSessionProofs`: a step of any thread is a step of one half and leaves the
  other alone (`StepOfHalves`), so types and events are proved half by half.
  `EventInv` adds to `EventIsOfLastRequest` that no login answer is owed while
  `OnRspUserLogin` has still to set its event. `LifeInv` is about the apis and
  bridges: `CtpLife` and `XtpLife` say from which step to which each may be
  alive, `TeardownInv` that an api that is alive is released (and, for XTP, made
  null) by one of the steps left of the teardown, before its bridge goes in the
  CTP case, and `HeardInv` what is known of the first tick. `BridgesLive` and
  `FirstTickHolds` follow. So does `ContractIsKept`, the refinement: `Exit` is
  the contract's end of the stop because an empty teardown means that nothing is
  alive that could deliver, `Crash` happens while stopping because only then is
  anything freed, and the loop is entered with market data because of
  `HeardInv`.
- `SubscriptionProofs`: when the CTP half of `Start` returns true, every
  instrument is subscribed on the present connection, or `OnFrontDisconnected`
  for it is still to come (`StartSubscribes`). `SubscriptionInv` says what the
  bridge's flags know of the front: a subscription that has succeeded is of
  every instrument, and as long as responses are owed an instrument is
  subscribed, owed or in error. That every exchange stays subscribed once the
  index session runs (`IndexStays`) needs, for each of the two threads that may
  be in `LoginAndSubscribe`, how far it is and what it will still do
  (`MainCall`, `SdkCall`), since no lock keeps them apart: `IndexInv`.
- `MonitorLoopProofs`: `DayParts` and `DaysGrow` are what is used of `\div` and
  `%`. `data_as_of` covers a report because the tracker is told of a tick before
  the store is, so that no snapshot is ever ahead of the tracker (`FeedOrder`).
  A report marked OK rests on a live feed because the loop has checked it at
  most a loop period before, and the flag keeps telling of any silence that the
  check found until the report has its metadata (`CheckedBeforeReport`). That no
  report is early follows from `PastMoment`, what the time of day that was read
  says of the clock now, under the hypothesis `~RunsOvernight`: across midnight
  the statement is false, which midnight_report shows. `Punctual` is proved
  overnight as well: a report that is not sent was not due at the last look,
  which is one loop period before the next (`NotForgotten`), and a flag that is
  set means a report on disk, one whose write has failed, or one in the main
  thread's hands (`SentIsWritten`).
  Its hypothesis `MomentsApart` says that the second moment is not due while the
  report of the first is put off for the loop period it may take: 11:30 and
  15:00, and a loop of seconds.
- `RelayProofs`: `TypeInv` includes that the spool's copy is a prefix of the
  alert file and that dictionaries and processes name as sent only what can be a
  message of their kind. `SentInv`, for the state file and for every process,
  children of stopped orchestrators included, says that what it counts as sent
  was posted. `DuplicatesAreExplained` and `ReportsAreGivenUp` are one argument,
  as an account: for each message, what was counted (posts, or failed rounds of
  a report) and what may still be owed is at most the weight (1, or
  `MaxAttempts`) times one for the first delivery, one for each fault and two
  for each stop (`AccountInv`). Owed is what the orchestrator's own rounds may
  add, given what the state file holds now (`Official`) and given what a round
  has in hand (`Detour`), and what children left behind may add by posting or
  writing what they know (`Repeats`) or by emptying the state file or shortening
  the spool (`Upsets`). Each is a set, so that a step is shown to pay by
  comparing sets: a post moves a unit from owed to counted, a stop turns a
  child's part of the orchestrator's account into that of an orphan, and a crash
  or a time-out is bought by the fault it is (`LoopPays`, `TimeoutPays`,
  `ProcessPays`, `StopAccount`, `CrashAccount`). `DeliveryInv` adds what the
  account needs of the processes: the orchestrator's child has ended between two
  cycles (`OrchInv`), the messages that a round has left are neither sent nor
  given up (`WorkInv`), and the days of the rows and dictionaries do not run
  ahead (`DaysInv`).

Every invariant that a passing run checks, and every action property but one, is
the subject of a theorem. Model-checked only:

- what holds under fairness, which is out of the prover's reach (as is
  `ENABLED`): `TriggeredIsFinished`, `AlertReaches`, `ReportReaches`,
  `FuturesComeBack` and `StartEnds`;
- `QuietStartMonitorsAll`, that what is selected is what is due: it needs what
  sorting does for every input, which is an induction over data.

## Plan

Done: AlertThrottle, AlertEngine, HealthTracker, TickPipeline, MonitorLoop,
Relay; LinuxEvent, CtpSession, XtpSession, DualSession with SessionContract;
ContractSelection and ReferenceData with the push; the proofs above.

Left: for `Relay`, an abstract specification "each row is posted at least once, and
once when nothing fails", which `SentIsPosted` and `DuplicatesAreExplained` now
state as invariants.

## Not modelled, and why

- Formatters, the image renderer and the logger: no state that a property is
  about; what they write is text.
- The notifier spawns curl and keeps nothing but temporary files. Its failures
  are modelled where something depends on them, in `Relay`; in the monitor a
  failed push is logged and forgotten.
- The configuration loader is read once, before any thread exists, and keeps no
  state. What it guarantees (positive thresholds and intervals, at least one
  instrument) is what the assumptions on the constants state.
- The rows of `BasisResultStore` and `TickStore`: appended and never read by the
  program. A file of an older schema keeps its header, as storage_common.cpp:34
  writes one only into an empty file.
- The PID files of start.sh and stop.sh: the scripts take no lock and nothing in
  the repository runs two of them at once, so no promise is made that a property
  could state. What they do to the processes (`Stop`, `Start`, children that go
  on) is modelled.
- A wall clock that steps back, and a concurrent rehash of the index map, which
  is undefined behaviour beyond what the model shows.
- The CTP and XTP libraries are closed: external, with the assumptions named
  under the sessions.
