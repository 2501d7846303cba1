------------------------------- MODULE Relay -------------------------------
(***************************************************************************)
(* The notification relay: the orchestrator                                *)
(* (scripts/run_zhongtai_relay_orchestrator.py), the SFTP pull it starts   *)
(* (scripts/pull_zhongtai_outputs.sh) and the relay it starts              *)
(* (scripts/relay_zhongtai_notifications.py) with its JSON state file.     *)
(*                                                                         *)
(* The orchestrator waits for the child it has started.  A child outlives  *)
(* an orchestrator that is stopped, because                                *)
(* stop_zhongtai_relay_orchestrator.sh signals the orchestrator's process  *)
(* only; so children of two orchestrators may run at once.                 *)
(***************************************************************************)
EXTENDS Naturals, Sequences, FiniteSets, SequencesExt

CONSTANTS
  Procs,        \* slots for child processes (bounds the orphans)
  DayLength,    \* minutes in a day
  RelayTimes,   \* report_relay_times, minutes of the day
  Lead,         \* report_pull_lead_minutes
  Window,       \* report_relay_window_minutes
  Moments,      \* the minutes of the day of the monitor's reports
  MaxTries,     \* wecom_max_send_retries
  MaxAttempts,  \* max_report_send_attempts
  MaxRows,      \* bound: alert rows the monitor writes
  MaxTime,      \* bound of the clock
  MaxStops,     \* bound: stops of the orchestrator
  MaxFaults     \* bound: crashes, cut transfers, answers that are lost

ASSUME RelayAssumption ==
  /\ Procs # {} /\ IsFiniteSet(Procs)
  /\ DayLength \in Nat \ {0}
  /\ RelayTimes \subseteq 0 .. DayLength - 1
  /\ Moments \subseteq 0 .. DayLength - 1
  /\ {Lead, Window, MaxRows, MaxTime, MaxStops, MaxFaults} \subseteq Nat
  /\ {MaxTries, MaxAttempts} \subseteq Nat \ {0}

Kinds == {"alerts", "reports"}
Days == 0 .. MaxTime \div DayLength
NoDay == MaxTime + 1
\* An alert row is <<trade date, position in the file>>, a report is
\* <<trade date, moment>>: what alert_key and the file name tell apart.
Rows == Days \X (1 .. MaxRows)
Reports == Days \X Moments
Messages(k) == IF k = "alerts" THEN Rows ELSE Reports
Contents == {"none", "empty", "full"}

VARIABLES
  now,            \* the wall clock, in minutes
  rows,           \* the monitor's alert_events.csv: the date of each row
  reports,        \* the monitor's report files
  spoolRows,      \* rows in the spool's copy of alert_events.csv
  spoolReports,   \* the spool's report files
  stateFile,      \* relay_state.json: what load_state makes of it
  orch,           \* the orchestrator: its step, its window flag, its child
  child,          \* the child processes
  posts,          \* history: how often the robot accepted each message
  failures,       \* history: rounds in which the post of a report failed
  stops,          \* history: number of stops of the orchestrator
  faults          \* history: number of faults

monitor == <<rows, reports>>
spool == <<spoolRows, spoolReports>>
robot == <<posts, failures>>
faulty == <<stops, faults>>
vars == <<now, monitor, spool, stateFile, orch, child, robot, faulty>>

Today == now \div DayLength

\* is_time_within_report_window, over all report_relay_times
InReportWindow ==
  LET minute == now % DayLength IN
  \E t \in RelayTimes : t <= minute + Lead /\ minute <= t + Window

NoAttempts == [r \in Reports |-> 0]

\* The dictionary that load_state returns and save_state writes: for each
\* kind the trade date and what was sent, for reports those given up and the
\* rounds in which the post failed.
Dict == [day      : [Kinds -> Days \cup {NoDay}],
         sent     : [Kinds -> SUBSET (Rows \cup Reports)],
         gaveUp   : SUBSET Reports,
         attempts : [Reports -> 0 .. MaxAttempts]]

default_state ==
  [day |-> [k \in Kinds |-> NoDay], sent |-> [k \in Kinds |-> {}],
   gaveUp |-> {}, attempts |-> NoAttempts]

\* reset_daily_alert_state_if_needed
ResetAlerts(d, day) ==
  IF d.day["alerts"] = day THEN d
  ELSE [d EXCEPT !.day["alerts"] = day, !.sent["alerts"] = {}]

\* reset_daily_report_state_if_needed
ResetReports(d, day) ==
  IF d.day["reports"] = day THEN d
  ELSE [d EXCEPT !.day["reports"] = day, !.sent["reports"] = {},
                 !.gaveUp = {}, !.attempts = NoAttempts]

\* A process: the dictionary, and beside it the sets that relay_alerts and
\* relay_reports work on and store in the dictionary when they return.
Exited(ok) ==
  [pc |-> "exited", kind |-> "alerts", ok |-> ok, texts |-> FALSE,
   dict |-> default_state, todo |-> {}, sent |-> {}, gaveUp |-> {},
   attempts |-> NoAttempts, try |-> 1]

PullSteps == {"getRows", "gettingRows", "getReports", "gettingReports"}
RelaySteps == {"load", "read", "next", "post", "truncate", "write"}

Processes ==
  [pc : PullSteps \cup RelaySteps \cup {"exited"}, kind : Kinds,
   ok : BOOLEAN, texts : BOOLEAN, dict : Dict, todo : SUBSET (Rows \cup Reports),
   sent : SUBSET (Rows \cup Reports), gaveUp : SUBSET Reports,
   attempts : [Reports -> 0 .. MaxAttempts],
   try : 1 .. MaxTries]

TypeOK ==
  /\ now \in 0 .. MaxTime
  /\ rows \in Seq(Days) /\ Len(rows) <= MaxRows
  /\ reports \in [Reports -> Contents]
  /\ spoolRows \in 0 .. MaxRows
  /\ spoolReports \in [Reports -> Contents]
  /\ stateFile \in Dict
  /\ orch \in [pc : {"down", "cycle", "pull", "alerts", "reports"},
               window : BOOLEAN, proc : Procs]
  /\ child \in [Procs -> Processes]
  /\ DOMAIN posts = Kinds
  /\ \A k \in Kinds : posts[k] \in [Messages(k) -> Nat]
  /\ failures \in [Reports -> Nat]
  /\ stops \in 0 .. MaxStops
  /\ faults \in 0 .. MaxFaults

Init ==
  /\ now = 0
  /\ rows = <<>>
  /\ reports = [r \in Reports |-> "none"]
  /\ spoolRows = 0
  /\ spoolReports = reports
  /\ stateFile = default_state
  /\ orch \in [pc : {"down"}, window : {FALSE}, proc : {CHOOSE p \in Procs : TRUE}]
  /\ child = [p \in Procs |-> Exited(TRUE)]
  /\ posts = [k \in Kinds |-> [m \in Messages(k) |-> 0]]
  /\ failures = [r \in Reports |-> 0]
  /\ stops = 0
  /\ faults = 0

Fault == faults < MaxFaults /\ faults' = faults + 1 /\ UNCHANGED stops

-----------------------------------------------------------------------------
(* The surroundings: the clock and the monitor's files on the server.       *)

AdvanceClock ==
  /\ now < MaxTime
  /\ now' = now + 1
  /\ UNCHANGED <<monitor, spool, stateFile, orch, child, robot, faulty>>

\* AlertStore::Append: one row, stamped with the time of the append
AppendAlert ==
  /\ Len(rows) < MaxRows
  /\ rows' = Append(rows, Today)
  /\ UNCHANGED <<now, reports, spool, stateFile, orch, child, robot, faulty>>

\* ReportStore::Write truncates the file and fills it; a monitor that was
\* restarted after the moment does so again.
TruncateReport(m) ==
  /\ m <= now % DayLength
  /\ reports[<<Today, m>>] # "empty"
  /\ reports' = [reports EXCEPT ![<<Today, m>>] = "empty"]
  /\ UNCHANGED <<now, rows, spool, stateFile, orch, child, robot, faulty>>

FillReport(r) ==
  /\ reports[r] = "empty"
  /\ reports' = [reports EXCEPT ![r] = "full"]
  /\ UNCHANGED <<now, rows, spool, stateFile, orch, child, robot, faulty>>

-----------------------------------------------------------------------------
(* run_zhongtai_relay_orchestrator.py                                       *)

Start ==
  /\ orch.pc = "down"
  /\ \E p \in Procs :
       /\ child[p].pc = "exited"
       /\ orch' = [orch EXCEPT !.pc = "cycle", !.proc = p]
  /\ UNCHANGED <<now, monitor, spool, stateFile, child, robot, faulty>>

\* stop_zhongtai_relay_orchestrator.sh: the child goes on
Stop ==
  /\ orch.pc # "down"
  /\ stops < MaxStops /\ stops' = stops + 1
  /\ orch' = [orch EXCEPT !.pc = "down"]
  /\ UNCHANGED <<now, monitor, spool, stateFile, child, robot, faults>>

\* the host goes down: only files survive
Crash ==
  /\ Fault
  /\ orch' = [orch EXCEPT !.pc = "down"]
  /\ child' = [p \in Procs |-> Exited(TRUE)]
  /\ UNCHANGED <<now, monitor, spool, stateFile, robot>>

\* The orchestrator starts a child for its next step.
Spawn(step, process) ==
  /\ orch' = [orch EXCEPT !.pc = step]
  /\ child' = [child EXCEPT ![orch.proc] = process]

Pull(withTexts) == [Exited(TRUE) EXCEPT !.pc = "getRows", !.texts = withTexts]
Relay(kind) == [Exited(TRUE) EXCEPT !.pc = "load", !.kind = kind]

\* The window is computed before the pull and holds for the whole cycle.
BeginCycle ==
  /\ orch.pc = "cycle"
  /\ orch' = [orch EXCEPT !.pc = "pull", !.window = InReportWindow]
  /\ child' = [child EXCEPT ![orch.proc] = Pull(InReportWindow)]
  /\ UNCHANGED <<now, monitor, spool, stateFile, robot, faulty>>

PullReturns ==
  /\ orch.pc = "pull" /\ child[orch.proc].pc = "exited"
  /\ \/ child[orch.proc].ok /\ Spawn("alerts", Relay("alerts"))
     \/ /\ ~child[orch.proc].ok
        /\ orch' = [orch EXCEPT !.pc = "cycle"]
        /\ UNCHANGED child
  /\ UNCHANGED <<now, monitor, spool, stateFile, robot, faulty>>

AlertsReturn ==
  /\ orch.pc = "alerts" /\ child[orch.proc].pc = "exited"
  /\ \/ orch.window /\ Spawn("reports", Relay("reports"))
     \/ /\ ~orch.window
        /\ orch' = [orch EXCEPT !.pc = "cycle"]
        /\ UNCHANGED child
  /\ UNCHANGED <<now, monitor, spool, stateFile, robot, faulty>>

ReportsReturn ==
  /\ orch.pc = "reports" /\ child[orch.proc].pc = "exited"
  /\ orch' = [orch EXCEPT !.pc = "cycle"]
  /\ UNCHANGED <<now, monitor, spool, stateFile, child, robot, faulty>>

Orchestrate == BeginCycle \/ PullReturns \/ AlertsReturn \/ ReportsReturn

-----------------------------------------------------------------------------
(* pull_zhongtai_outputs.sh: an SFTP batch that a failure ends, unless the  *)
(* command has a leading dash, as the one for alert_events.csv has.         *)

PullStep(p, record) ==
  /\ child' = [child EXCEPT ![p] = record]
  /\ UNCHANGED <<now, monitor, stateFile, orch, robot>>

AfterRows(p) == IF child[p].texts THEN [child[p] EXCEPT !.pc = "getReports"]
                ELSE Exited(TRUE)

\* The copy is truncated, and grows.
GetRowsOpens(p) ==
  /\ child[p].pc = "getRows" /\ rows # <<>>
  /\ spoolRows' \in 0 .. Len(rows)
  /\ PullStep(p, [child[p] EXCEPT !.pc = "gettingRows"])
  /\ UNCHANGED <<spoolReports, faulty>>

\* no such file yet, or it could not be opened: ignored
GetRowsRefused(p) ==
  /\ child[p].pc = "getRows"
  /\ PullStep(p, AfterRows(p))
  /\ UNCHANGED <<spool, faulty>>

GetRowsEnds(p) ==
  /\ child[p].pc = "gettingRows"
  /\ spoolRows' = Len(rows)
  /\ PullStep(p, AfterRows(p))
  /\ UNCHANGED <<spoolReports, faulty>>

\* The transfer breaks off, alone or with the connection.
GetRowsCut(p) ==
  /\ child[p].pc = "gettingRows"
  /\ Fault
  /\ \E record \in {AfterRows(p), Exited(FALSE)} : PullStep(p, record)
  /\ UNCHANGED spool

\* mget of the reports, whose copies are empty until they are filled
GetReportsOpens(p) ==
  /\ child[p].pc = "getReports"
  /\ \E r \in Reports : reports[r] # "none"
  /\ spoolReports' = [r \in Reports |-> IF reports[r] = "none" THEN "none"
                                        ELSE "empty"]
  /\ PullStep(p, [child[p] EXCEPT !.pc = "gettingReports"])
  /\ UNCHANGED <<spoolRows, faulty>>

GetReportsEnds(p) ==
  /\ child[p].pc = "gettingReports"
  /\ spoolReports' = reports
  /\ PullStep(p, Exited(TRUE))
  /\ UNCHANGED <<spoolRows, faulty>>

\* The connection is lost, or mget finds no file that matches.
PullFails(p) ==
  /\ child[p].pc \in {"getRows", "getReports", "gettingReports"}
  /\ PullStep(p, Exited(FALSE))
  /\ UNCHANGED <<spool, faulty>>

-----------------------------------------------------------------------------
(* relay_zhongtai_notifications.py                                          *)

RelayStep(p, record) ==
  /\ child' = [child EXCEPT ![p] = record]
  /\ UNCHANGED <<now, monitor, spool, orch>>

LoadState(p) ==
  /\ child[p].pc = "load"
  /\ RelayStep(p, [child[p] EXCEPT !.pc = "read", !.dict = stateFile])
  /\ UNCHANGED <<stateFile, robot, faulty>>

\* relay_alerts up to its loop: rows of the latest date, not sent yet.
ReadAlerts(p) ==
  /\ child[p].pc = "read" /\ child[p].kind = "alerts"
  /\ LET dates == {rows[n] : n \in 1 .. spoolRows}
         dict  == IF dates = {} THEN child[p].dict
                  ELSE ResetAlerts(child[p].dict, Max(dates))
         news  == {<<rows[n], n>> : n \in 1 .. spoolRows} \ dict.sent["alerts"]
     IN RelayStep(p, [child[p] EXCEPT !.pc = "next", !.dict = dict,
                        !.sent = dict.sent["alerts"],
                        !.todo = {m \in news : m[1] = dict.day["alerts"]}])
  /\ UNCHANGED <<stateFile, robot, faulty>>

\* relay_reports up to its loop: the reports in the spool dated today.
ReadReports(p) ==
  /\ child[p].pc = "read" /\ child[p].kind = "reports"
  /\ LET todays == {r \in Reports : r[1] = Today /\ spoolReports[r] # "none"}
         dict   == IF todays = {} THEN child[p].dict
                   ELSE ResetReports(child[p].dict, Today)
     IN RelayStep(p, [child[p] EXCEPT !.pc = "next", !.dict = dict,
                        !.sent = dict.sent["reports"], !.gaveUp = dict.gaveUp,
                        !.attempts = dict.attempts,
                        !.todo = (todays \ dict.sent["reports"]) \ dict.gaveUp])
  /\ UNCHANGED <<stateFile, robot, faulty>>

\* The next message of a round: rows in file order, reports by name.
NextMessage(p) == CHOOSE m \in child[p].todo : \A x \in child[p].todo : m[2] <= x[2]

\* Mutant of Spent: one round too many.
SpentLater(p, m) == child[p].kind = "reports" /\ child[p].attempts[m] > MaxAttempts

Spent(p, m) == child[p].kind = "reports" /\ child[p].attempts[m] >= MaxAttempts

Blank(p, m) == child[p].kind = "reports" /\ spoolReports[m] = "empty"

\* Mutant of PassOver: an empty report counts as sent.
PassOverAsSent(p, m) ==
  [child[p] EXCEPT !.todo = @ \ {m}, !.sent = @ \cup {m}]

PassOver(p, m) == [child[p] EXCEPT !.todo = @ \ {m}]

\* The loop takes up a message: it posts it, gives a report up after
\* max_report_send_attempts rounds, or passes over an empty report.
TakeUp(p) ==
  /\ child[p].pc = "next" /\ child[p].todo # {}
  /\ LET m == NextMessage(p) IN
     \/ /\ ~Spent(p, m) /\ ~Blank(p, m)
        /\ RelayStep(p, [child[p] EXCEPT !.pc = "post", !.try = 1])
     \/ /\ Spent(p, m)
        /\ RelayStep(p, [child[p] EXCEPT !.todo = @ \ {m}, !.gaveUp = @ \cup {m}])
     \/ /\ ~Spent(p, m) /\ Blank(p, m)
        /\ RelayStep(p, PassOver(p, m))
  /\ UNCHANGED <<stateFile, robot, faulty>>

\* Mutant of Stored: the dictionary is not told what was sent.
StoresNothing(p) == child[p].dict

\* The dictionary with what the loop has worked on.
Stored(p) ==
  IF child[p].kind = "alerts"
  THEN [child[p].dict EXCEPT !.sent["alerts"] = child[p].sent]
  ELSE [child[p].dict EXCEPT !.sent["reports"] = child[p].sent,
          !.gaveUp = child[p].gaveUp, !.attempts = child[p].attempts]

\* The loop ends.
Return(p) ==
  /\ child[p].pc = "next" /\ child[p].todo = {}
  /\ RelayStep(p, [child[p] EXCEPT !.pc = "truncate", !.dict = Stored(p)])
  /\ UNCHANGED <<stateFile, robot, faulty>>

\* The rounds counted for m become n; alerts are not counted.
Attempts(p, m, n) == IF child[p].kind = "alerts" THEN child[p].attempts
                     ELSE [child[p].attempts EXCEPT ![m] = n]

\* post_wecom_json, one try: the robot accepts the message and says so.
PostOk(p) ==
  /\ child[p].pc = "post"
  /\ LET m == NextMessage(p) IN
     /\ posts' = [posts EXCEPT ![child[p].kind][m] = @ + 1]
     /\ RelayStep(p, [child[p] EXCEPT !.pc = "next", !.todo = @ \ {m},
                        !.sent = @ \cup {m}, !.attempts = Attempts(p, m, 0)])
  /\ UNCHANGED <<stateFile, failures, faulty>>

\* A round in which the post of message m failed; only reports are counted.
Failed(p, m) ==
  failures' = IF child[p].kind = "alerts" THEN failures
              ELSE [failures EXCEPT ![m] = @ + 1]

\* Mutant of LastTry: one try too many.
LastTryLater(p) == child[p].try > MaxTries

LastTry(p) == child[p].try = MaxTries

\* Mutant of RoundLost: a message whose post failed counts as sent.
RoundLostAsSent(p, m) ==
  [child[p] EXCEPT !.pc = "next", !.todo = @ \ {m}, !.sent = @ \cup {m}]

RoundLost(p, m) ==
  [child[p] EXCEPT !.pc = "next", !.todo = @ \ {m},
                   !.attempts = Attempts(p, m, @[m] + 1)]

\* A try fails with an error that post_wecom_json catches: a refused
\* connection, a status or an errcode that is not 0.  The robot may have
\* accepted the message nevertheless.  After the last try the round is lost.
PostError(p) ==
  /\ child[p].pc = "post"
  /\ LET m == NextMessage(p) IN
     /\ \/ UNCHANGED <<posts, faulty>>
        \/ /\ posts' = [posts EXCEPT ![child[p].kind][m] = @ + 1]
           /\ Fault
     /\ \/ /\ ~LastTry(p)
           /\ RelayStep(p, [child[p] EXCEPT !.try = @ + 1])
           /\ UNCHANGED failures
        \/ /\ LastTry(p)
           /\ Failed(p, m)
           /\ RelayStep(p, RoundLost(p, m))
  /\ UNCHANGED stateFile

\* The answer does not come in time.  urlopen wraps only errors of the
\* request in URLError, so the timeout passes through post_wecom_json and
\* relay_alerts or relay_reports up to main, which saves the dictionary
\* without what the round has done.
PostTimeout(p) ==
  /\ child[p].pc = "post"
  /\ Fault
  /\ LET m == NextMessage(p) IN
     /\ \E accepted \in {0, 1} :
          posts' = [posts EXCEPT ![child[p].kind][m] = @ + accepted]
     /\ Failed(p, m)
     /\ RelayStep(p, [child[p] EXCEPT !.pc = "truncate"])
  /\ UNCHANGED stateFile

\* save_state opens the file, which empties it, and then writes it.  Like a
\* missing file, an empty one is not JSON and loads as the default.
TruncateState(p) ==
  /\ child[p].pc = "truncate"
  /\ stateFile' = default_state
  /\ RelayStep(p, [child[p] EXCEPT !.pc = "write"])
  /\ UNCHANGED <<robot, faulty>>

WriteState(p) ==
  /\ child[p].pc = "write"
  /\ stateFile' = child[p].dict
  /\ RelayStep(p, Exited(TRUE))
  /\ UNCHANGED <<robot, faulty>>

-----------------------------------------------------------------------------
Work(p) ==
  \/ GetRowsOpens(p) \/ GetRowsRefused(p) \/ GetRowsEnds(p) \/ GetRowsCut(p)
  \/ GetReportsOpens(p) \/ GetReportsEnds(p) \/ PullFails(p)
  \/ LoadState(p) \/ ReadAlerts(p) \/ ReadReports(p) \/ TakeUp(p) \/ Return(p)
  \/ PostOk(p) \/ PostError(p) \/ PostTimeout(p)
  \/ TruncateState(p) \/ WriteState(p)

Next ==
  \/ AdvanceClock \/ AppendAlert
  \/ \E m \in Moments : TruncateReport(m)
  \/ \E r \in Reports : FillReport(r)
  \/ Start \/ Stop \/ Crash \/ Orchestrate
  \/ \E p \in Procs : Work(p)

Spec == Init /\ [][Next]_vars

-----------------------------------------------------------------------------
\* A message is posted once, and again at most once for each fault and twice
\* for each stop of the orchestrator.
DuplicatesExplained ==
  \A k \in Kinds : \A m \in Messages(k) : posts[k][m] <= 1 + faults + 2 * stops

\* What the state file or a relay calls sent was accepted by the robot.
SentWasPosted ==
  \A k \in Kinds : \A m \in Messages(k) :
    \/ m \in stateFile.sent[k]
    \/ \E p \in Procs : m \in child[p].dict.sent[k]
    \/ \E p \in Procs : child[p].kind = k /\ m \in child[p].sent
    => posts[k][m] > 0

\* A report whose post fails is given up after MaxAttempts rounds; each fault
\* may cost the relay its count.
GivesUp ==
  \A r \in Reports : failures[r] <= MaxAttempts * (1 + faults + 2 * stops)

\* README.md: a failed send is tried again and given up beyond the limit.
LimitHolds == \A r \in Reports : failures[r] <= MaxAttempts

-----------------------------------------------------------------------------
\* The orchestrator is started again when it is down, and neither it nor a
\* child stands still.  A transfer or a post that is tried again and again
\* succeeds in the end.
Fairness ==
  /\ WF_vars(Start) /\ WF_vars(Orchestrate)
  /\ \A p \in Procs :
       /\ WF_vars(Work(p))
       /\ SF_vars(GetRowsOpens(p) \/ (rows = <<>> /\ GetRowsRefused(p)))
       /\ SF_vars(GetRowsEnds(p))
       /\ SF_vars(GetReportsOpens(p)) /\ SF_vars(GetReportsEnds(p))
       /\ SF_vars(PostOk(p))

FairSpec == Spec /\ Fairness

\* A row is posted, unless one of a later date supersedes it, or there is no
\* report yet, for which the pull of a cycle in the window fails.
AlertReaches ==
  \A n \in 1 .. MaxRows :
    Len(rows) >= n ~>
      /\ Len(rows) >= n
      /\ \/ posts["alerts"][<<rows[n], n>>] > 0
         \/ rows[n] # Last(rows)
         \/ InReportWindow /\ \A r \in Reports : reports[r] = "none"

\* A report that is there while the window is open is posted or given up,
\* unless the window closes or the monitor writes the report again before.
ReportReaches ==
  \A r \in Reports :
    reports[r] = "full" /\ r[1] = Today /\ InReportWindow ~>
      \/ posts["reports"][r] > 0
      \/ r \in stateFile.gaveUp
      \/ reports[r] # "full"
      \/ r[1] # Today \/ ~InReportWindow
=============================================================================
