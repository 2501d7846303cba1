----------------------------- MODULE TickPipeline -----------------------------
(***************************************************************************)
(* The two SDK callback threads meet in BasisMonitorService: the XTP       *)
(* thread stores index prices (OnIndexTick), the CTP thread turns futures  *)
(* ticks into results and alerts (TerminalMdListener::OnTick).  The map    *)
(* between them, latest_index_prices_, has no lock: an assignment to an    *)
(* entry is two stores, {price, received_at}, that a reader can see one    *)
(* without the other.                                                      *)
(*                                                                         *)
(* A price is abstracted to the time it was received, or NonPositive; a    *)
(* rate to whether it is below the alert threshold.  One clock stands for  *)
(* steady_clock and system_clock, in seconds.                              *)
(***************************************************************************)
EXTENDS Integers

CONSTANTS
    Contracts,            \* monitored contracts
    Indexes,              \* spot indexes
    IndexOf,              \* the index each contract is measured against
    CurrentMonth,         \* contracts for which IsCurrentMonthContract holds
    Expiring,             \* contracts with remaining_days <= 0 today
    IndexStaleThreshold,  \* live_index_stale_threshold_seconds_
    RepeatInterval,       \* alert repeat interval, in seconds
    FirstStores,          \* fields that the build may store first when it
                          \* assigns an entry: a subset of Fields
    MaxTime               \* bound on the clock

Fields == {"price", "received_at"}

ASSUME PipelineAssumption ==
    /\ IndexOf \in [Contracts -> Indexes]
    /\ CurrentMonth \subseteq Contracts
    /\ Expiring \subseteq Contracts
    /\ IndexStaleThreshold \in Nat \ {0}
    /\ FirstStores \in SUBSET Fields
    /\ MaxTime \in Nat
ASSUME PipelineIntervalAssumption == RepeatInterval \in Nat \ {0}

VARIABLES
    now,
    require_live,     \* require_live_index_prices_: XTP is enabled
    cached,           \* keys of latest_index_prices_
    price,            \* price of each entry
    received_at,      \* received_at of each entry
    xtp,              \* the assignment the XTP thread is executing
    ctp,              \* the futures tick the CTP thread is handling
    is_negative, last_alert_time, has_alert_time, event,  \* AlertEngine
    snapshots,        \* LatestBasisSnapshotStore: what each entry was made of
    appended          \* history: outcome of each contract's last alert append

cache == <<cached, price, received_at>>
engine == <<is_negative, last_alert_time, has_alert_time, event>>
vars == <<now, require_live, cache, xtp, ctp, engine, snapshots, appended>>

NonPositive == -1
Yesterday == -2                     \* index_close_yesterday
Epoch == 0 - IndexStaleThreshold    \* a default-constructed time_point
Times == 0 .. MaxTime
XtpAtRest == [todo |-> {}]
NoTick == [pc |-> "idle"]
NoSnapshot == [has_tick |-> FALSE]
NotAppended == [for |-> -1, stored |-> FALSE]

\* The service's alert engine; its history is kept by AlertEngine.tla.
Engine == INSTANCE AlertEngine
          WITH Instruments <- Contracts, alerts <- <<>>, calm <- <<>>, asked <- <<>>

-----------------------------------------------------------------------------
(* XTP thread: OnIndexTick. *)

\* operator[] creates a missing entry with price 0 and a default time before
\* the new value is assigned to it; now() is read once, before the stores.
XtpTick(x, positive) ==
    /\ require_live
    /\ xtp = XtpAtRest
    /\ cached' = cached \cup {x}
    /\ xtp' = [todo |-> Fields, index |-> x, received_at |-> now,
               price |-> IF positive THEN now ELSE NonPositive]
    /\ UNCHANGED <<now, require_live, price, received_at, ctp, engine, snapshots, appended>>

XtpStore(field) ==
    /\ field \in xtp.todo
    /\ xtp.todo = Fields => field \in FirstStores
    /\ xtp' = IF xtp.todo = {field} THEN XtpAtRest
              ELSE [xtp EXCEPT !.todo = @ \ {field}]
    /\ price' = IF field = "price"
                THEN [price EXCEPT ![xtp.index] = xtp.price] ELSE price
    /\ received_at' = IF field = "received_at"
                      THEN [received_at EXCEPT ![xtp.index] = xtp.received_at]
                      ELSE received_at
    /\ UNCHANGED <<now, require_live, cached, ctp, engine, snapshots, appended>>

-----------------------------------------------------------------------------
(* CTP thread: OnTick, from the lookup of the index price to the alert row. *)

Fresh(x) == now - received_at[x] < IndexStaleThreshold

\* The entry is found and its time is compared with the clock.  Without an
\* entry a monitor that requires one returns here (WAITING_FOR_LIVE_INDEX).
CtpLookup(c) ==
    LET x == IndexOf[c] IN
    /\ ctp = NoTick
    /\ require_live => x \in cached
    /\ ctp' = [pc |-> "price", contract |-> c, looked_at |-> now,
               live |-> x \in cached, fresh |-> x \in cached /\ Fresh(x)]
    /\ UNCHANGED <<now, require_live, cache, xtp, engine, snapshots, appended>>

\* The price is read after the time was.
Baseline == IF ctp.live THEN price[IndexOf[ctp.contract]] ELSE Yesterday

\* Mutants: a stale price, or a price that is not positive, is not rejected.
RejectedWhenInvalid == Baseline = NonPositive
RejectedWhenStale == require_live /\ ~ctp.fresh

\* STALE_LIVE_INDEX and INVALID_INDEX_BASELINE.
Rejected == (require_live /\ ~ctp.fresh) \/ Baseline = NonPositive

CtpSkip ==
    /\ ctp.pc = "price" /\ Rejected
    /\ ctp' = NoTick
    /\ UNCHANGED <<now, require_live, cache, xtp, engine, snapshots, appended>>

\* The engine is asked about a contract that has days left; a contract of the
\* current month is asked about as well, but its alert goes nowhere.
Asked(c) == c \notin Expiring
Reported(c) == c \notin CurrentMonth

\* Mutant: a reminder is not acted on.
EntersOnly(c, below) == Engine!Transition(c, below) = "EnteredNegative"

\* The transitions that the listener acts on.
Raises(c, below) ==
    Engine!Transition(c, below) \in {"EnteredNegative", "RepeatedNegative"}

CtpCompute(below) ==
    LET c == ctp.contract
        raised == Asked(c) /\ Raises(c, below)
    IN  /\ ctp.pc = "price" /\ ~Rejected
        /\ IF Asked(c) THEN Engine!EngineEvaluate(c, below) ELSE UNCHANGED engine
        /\ snapshots' = [snapshots EXCEPT ![c] =
              [has_tick |-> TRUE, index_price |-> Baseline, looked_at |-> ctp.looked_at]]
        /\ ctp' = IF raised /\ Reported(c) THEN [ctp EXCEPT !.pc = "append"] ELSE NoTick
        /\ UNCHANGED <<now, require_live, cache, xtp, appended>>

\* AlertStore::Append; a failure is logged and forgotten.
CtpAppend(stored) ==
    /\ ctp.pc = "append"
    /\ appended' = [appended EXCEPT ![ctp.contract] =
          [for |-> last_alert_time[ctp.contract], stored |-> stored]]
    /\ ctp' = NoTick
    /\ UNCHANGED <<now, require_live, cache, xtp, engine, snapshots>>

-----------------------------------------------------------------------------
Init ==
    /\ now = 0
    /\ require_live \in BOOLEAN
    /\ cached = {}
    /\ price = [x \in Indexes |-> NonPositive]
    /\ received_at = [x \in Indexes |-> Epoch]
    /\ xtp = XtpAtRest
    /\ ctp = NoTick
    /\ Engine!EngineInit
    /\ snapshots = [c \in Contracts |-> NoSnapshot]
    /\ appended = [c \in Contracts |-> NotAppended]

AdvanceTime ==
    /\ now < MaxTime
    /\ now' = now + 1
    /\ UNCHANGED <<require_live, cache, xtp, ctp, engine, snapshots, appended>>

Next ==
    \/ \E x \in Indexes, positive \in BOOLEAN : XtpTick(x, positive)
    \/ \E field \in Fields : XtpStore(field)
    \/ \E c \in Contracts : CtpLookup(c)
    \/ CtpSkip
    \/ \E below \in BOOLEAN : CtpCompute(below)
    \/ \E stored \in BOOLEAN : CtpAppend(stored)
    \/ AdvanceTime

Spec == Init /\ [][Next]_vars

-----------------------------------------------------------------------------
\* Every variable keeps its type; a price is the time it was received at.
TypeOK ==
    /\ now \in Times
    /\ require_live \in BOOLEAN
    /\ cached \in SUBSET Indexes
    /\ price \in [Indexes -> Times \cup {NonPositive}]
    /\ received_at \in [Indexes -> Times \cup {Epoch}]
    /\ \/ xtp = XtpAtRest
       \/ xtp \in [todo : SUBSET Fields, index : Indexes, received_at : Times,
                   price : Times \cup {NonPositive}]
    /\ \/ ctp = NoTick
       \/ ctp \in [pc : {"price", "append"}, contract : Contracts, looked_at : Times,
                   live : BOOLEAN, fresh : BOOLEAN]
    /\ is_negative \in [Contracts -> BOOLEAN]
    /\ last_alert_time \in [Contracts -> Times]
    /\ has_alert_time \in [Contracts -> BOOLEAN]
    /\ snapshots \in [Contracts -> {NoSnapshot} \cup
                         [has_tick : {TRUE}, looked_at : Times,
                          index_price : Times \cup {Yesterday}]]
    /\ appended \in [Contracts -> [for : Times \cup {-1}, stored : BOOLEAN]]

\* With XTP enabled every result is made from an index price received less
\* than the threshold before the tick's lookup: decision 5 of
\* architecture_decisions.md (a stale live index suspends results and alerts).
ResultsUseFreshIndex ==
    require_live =>
       \A c \in Contracts : snapshots[c].has_tick =>
          snapshots[c].looked_at - snapshots[c].index_price < IndexStaleThreshold

\* The engine withholds alerts for a reportable contract only on the strength
\* of an alert that was handed to the alert store by this process: a
\* skipped tick or an unreported evaluation does not leave it silent.
SuppressionIsBacked ==
    \A c \in Contracts :
       has_alert_time[c] /\ Reported(c) /\ ~(ctp # NoTick /\ ctp.contract = c)
          => appended[c].for = last_alert_time[c]

\* README.md: crossing the threshold pushes an alert at once, and the pushed
\* alerts are the rows of alert_events.csv.  So an alert that starts a window
\* of suppression has a row.
SuppressionIsStored ==
    \A c \in Contracts :
       has_alert_time[c] /\ Reported(c) /\ ~(ctp # NoTick /\ ctp.contract = c)
          => appended[c].stored
=============================================================================
