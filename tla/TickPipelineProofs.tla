-------------------------- MODULE TickPipelineProofs --------------------------
(***************************************************************************)
(* The pipeline's guarantees for every set of contracts and indexes, every *)
(* threshold and every run of the clock.  That results are made from fresh *)
(* prices is proved for a build that stores an entry's price before its    *)
(* time; run IndexRace shows that it is false otherwise.                   *)
(***************************************************************************)
EXTENDS TickPipeline, TLAPS

\* An entry's price is at least as recent as its time says.
PriceIsAsRecent(x) == price[x] # NonPositive => received_at[x] <= price[x]

\* The assignment under way is newer than the entry, and stored the price
\* first.
AssignmentInOrder ==
    xtp # XtpAtRest =>
       /\ xtp.todo \in {Fields, {"received_at"}}
       /\ xtp.price \in {xtp.received_at, NonPositive}
       /\ xtp.received_at <= now
       /\ received_at[xtp.index] <= xtp.received_at
       /\ xtp.todo = {"received_at"} => price[xtp.index] = xtp.price

\* A tick that passed the freshness test still finds an entry that would have
\* passed it then: the entry's time only grows.
LookupHolds ==
    ctp # NoTick /\ ctp.pc = "price" =>
       /\ require_live => ctp.live
       /\ ctp.fresh => ctp.looked_at - received_at[IndexOf[ctp.contract]]
                          < IndexStaleThreshold

FreshInv ==
    /\ \A x \in Indexes : PriceIsAsRecent(x) /\ received_at[x] <= now
    /\ AssignmentInOrder
    /\ LookupHolds
    /\ ResultsUseFreshIndex

\* Between two ticks, and until a raised alert is appended, what the engine
\* remembers was appended.
BackedInv ==
    \A c \in Contracts :
       has_alert_time[c] /\ Reported(c) /\ ~(ctp # NoTick /\ ctp.pc = "append" /\ ctp.contract = c)
          => appended[c].for = last_alert_time[c]

USE DEF Times, Fields, XtpAtRest, NoTick, NoSnapshot, NotAppended, NonPositive,
        Yesterday, Epoch, cache, engine

-----------------------------------------------------------------------------
(* The types hold at the start. *)
LEMMA InitTypeOK == Init => TypeOK
  BY PipelineAssumption
  DEF Init, TypeOK, Engine!EngineInit, Engine!NoEvent

(* Evaluating the engine keeps the types of its variables. *)
LEMMA EngineTypes ==
  ASSUME TypeOK, NEW c \in Contracts, NEW below \in BOOLEAN,
         Engine!EngineEvaluate(c, below)
  PROVE  /\ is_negative' \in [Contracts -> BOOLEAN]
         /\ last_alert_time' \in [Contracts -> Times]
         /\ has_alert_time' \in [Contracts -> BOOLEAN]
  BY DEF TypeOK, Engine!EngineEvaluate, Engine!Transition, Engine!EndsEpisode,
         Engine!IntervalElapsed

(* The baseline of an accepted tick is a time or yesterday's close. *)
LEMMA BaselineType ==
  ASSUME TypeOK, ctp # NoTick, ~Rejected
  PROVE  Baseline \in Times \cup {Yesterday}
<1>1. ctp.contract \in Contracts /\ IndexOf[ctp.contract] \in Indexes
  BY PipelineAssumption DEF TypeOK
<1>2. price[IndexOf[ctp.contract]] \in Times \cup {NonPositive}
  BY <1>1 DEF TypeOK
<1>3. QED
  BY <1>2 DEF Baseline, Rejected

(* Every step keeps the types. *)
LEMMA NextTypeOK == TypeOK /\ [Next]_vars => TypeOK'
<1> SUFFICES ASSUME TypeOK, [Next]_vars PROVE TypeOK'
  OBVIOUS
<1>1. ASSUME NEW x \in Indexes, NEW positive \in BOOLEAN, XtpTick(x, positive)
      PROVE  TypeOK'
  BY <1>1 DEF XtpTick, TypeOK
<1>2. ASSUME NEW field \in Fields, XtpStore(field) PROVE TypeOK'
  <2>1. xtp # XtpAtRest
    BY <1>2 DEF XtpStore
  <2>2. xtp \in [todo : SUBSET Fields, index : Indexes, received_at : Times,
                 price : Times \cup {NonPositive}]
    BY <2>1 DEF TypeOK
  <2>3. xtp' = XtpAtRest \/ xtp' \in [todo : SUBSET Fields, index : Indexes,
                                     received_at : Times, price : Times \cup {NonPositive}]
    BY <1>2, <2>2 DEF XtpStore
  <2>4. /\ price' \in [Indexes -> Times \cup {NonPositive}]
        /\ received_at' \in [Indexes -> Times \cup {Epoch}]
    BY <1>2, <2>2 DEF XtpStore, TypeOK
  <2>5. UNCHANGED <<now, require_live, cached, ctp, is_negative, last_alert_time,
                    has_alert_time, snapshots, appended>>
    BY <1>2 DEF XtpStore
  <2>6. QED
    BY <2>3, <2>4, <2>5, Zenon DEF TypeOK
<1>3. ASSUME NEW c \in Contracts, CtpLookup(c) PROVE TypeOK'
  <2>1. ctp' \in [pc : {"price", "append"}, contract : Contracts, looked_at : Times,
                  live : BOOLEAN, fresh : BOOLEAN]
    BY <1>3 DEF CtpLookup, TypeOK
  <2>2. UNCHANGED <<now, require_live, cached, price, received_at, xtp, is_negative,
                    last_alert_time, has_alert_time, snapshots, appended>>
    BY <1>3 DEF CtpLookup
  <2>3. QED
    BY <2>1, <2>2, Zenon DEF TypeOK
<1>4. CASE CtpSkip
  BY <1>4 DEF CtpSkip, TypeOK
<1>5. ASSUME NEW below \in BOOLEAN, CtpCompute(below) PROVE TypeOK'
  <2>1. ctp # NoTick
    BY <1>5 DEF CtpCompute
  <2>2. ctp \in [pc : {"price", "append"}, contract : Contracts, looked_at : Times,
                 live : BOOLEAN, fresh : BOOLEAN]
    BY <2>1 DEF TypeOK
  <2>3. Baseline \in Times \cup {Yesterday}
    BY <1>5, <2>1, BaselineType DEF CtpCompute
  <2>4. /\ is_negative' \in [Contracts -> BOOLEAN]
        /\ last_alert_time' \in [Contracts -> Times]
        /\ has_alert_time' \in [Contracts -> BOOLEAN]
    <3>1. CASE Asked(ctp.contract)
      BY <3>1, <1>5, <2>2, EngineTypes DEF CtpCompute
    <3>2. CASE ~Asked(ctp.contract)
      BY <3>2, <1>5 DEF CtpCompute, TypeOK
    <3>3. QED
      BY <3>1, <3>2
  <2>5. snapshots' \in [Contracts -> {NoSnapshot} \cup
                         [has_tick : {TRUE}, looked_at : Times,
                          index_price : Times \cup {Yesterday}]]
    <3>1. [has_tick |-> TRUE, index_price |-> Baseline, looked_at |-> ctp.looked_at]
            \in [has_tick : {TRUE}, looked_at : Times, index_price : Times \cup {Yesterday}]
      BY <2>2, <2>3
    <3>2. QED
      BY <3>1, <1>5 DEF CtpCompute, TypeOK
  <2>6. ctp' = NoTick \/ ctp' \in [pc : {"price", "append"}, contract : Contracts,
                                   looked_at : Times, live : BOOLEAN, fresh : BOOLEAN]
    BY <1>5, <2>2 DEF CtpCompute
  <2>7. QED
    BY <1>5, <2>4, <2>5, <2>6 DEF CtpCompute, TypeOK
<1>6. ASSUME NEW stored \in BOOLEAN, CtpAppend(stored) PROVE TypeOK'
  <2>1. ctp # NoTick
    BY <1>6 DEF CtpAppend
  <2>2. ctp.contract \in Contracts /\ last_alert_time[ctp.contract] \in Times
    BY <2>1 DEF TypeOK
  <2>3. appended' \in [Contracts -> [for : Times \cup {-1}, stored : BOOLEAN]]
    <3>1. [for |-> last_alert_time[ctp.contract], stored |-> stored]
            \in [for : Times \cup {-1}, stored : BOOLEAN]
      BY <2>2
    <3>2. QED
      BY <3>1, <1>6 DEF CtpAppend, TypeOK
  <2>4. ctp' = NoTick
    BY <1>6 DEF CtpAppend
  <2>5. UNCHANGED <<now, require_live, cached, price, received_at, xtp, is_negative,
                    last_alert_time, has_alert_time, snapshots>>
    BY <1>6 DEF CtpAppend
  <2>6. QED
    BY <2>3, <2>4, <2>5, Zenon DEF TypeOK
<1>7. CASE AdvanceTime
  <2>1. now' \in Times
    BY <1>7, PipelineAssumption DEF AdvanceTime, TypeOK
  <2>2. UNCHANGED <<require_live, cached, price, received_at, xtp, ctp, is_negative,
                    last_alert_time, has_alert_time, snapshots, appended>>
    BY <1>7 DEF AdvanceTime
  <2>3. QED
    BY <2>1, <2>2, Zenon DEF TypeOK
<1>8. CASE UNCHANGED vars
  BY <1>8 DEF vars, TypeOK
<1>9. QED
  BY <1>1, <1>2, <1>3, <1>4, <1>5, <1>6, <1>7, <1>8 DEF Next

(* Type correctness of the pipeline, whatever the build stores first. *)
THEOREM TypeCorrect == Spec => []TypeOK
  BY InitTypeOK, NextTypeOK, PTL DEF Spec

-----------------------------------------------------------------------------
(* Suppression is backed at the start, and every step keeps it so. *)
LEMMA InitBackedInv == Init => BackedInv
  BY DEF Init, BackedInv, Engine!EngineInit

(* Every step keeps suppression backed. *)
LEMMA NextBackedInv == TypeOK /\ BackedInv /\ [Next]_vars => BackedInv'
<1> SUFFICES ASSUME TypeOK, BackedInv, [Next]_vars PROVE BackedInv'
  OBVIOUS
<1>1. ASSUME NEW x \in Indexes, NEW positive \in BOOLEAN, XtpTick(x, positive)
      PROVE  BackedInv'
  BY <1>1 DEF XtpTick, BackedInv
<1>2. ASSUME NEW field \in Fields, XtpStore(field) PROVE BackedInv'
  BY <1>2 DEF XtpStore, BackedInv
<1>3. ASSUME NEW c \in Contracts, CtpLookup(c) PROVE BackedInv'
  BY <1>3 DEF CtpLookup, BackedInv
<1>4. CASE CtpSkip
  BY <1>4 DEF CtpSkip, BackedInv
<1>5. ASSUME NEW below \in BOOLEAN, CtpCompute(below) PROVE BackedInv'
  <2> DEFINE c == ctp.contract
  <2>1. c \in Contracts /\ ctp.pc = "price"
    BY <1>5 DEF CtpCompute, TypeOK
  <2>2. CASE Asked(c) /\ Engine!Transition(c, below) # "None"
    <3>1. \A d \in Contracts : d # c => /\ has_alert_time'[d] = has_alert_time[d]
                                        /\ last_alert_time'[d] = last_alert_time[d]
      BY <1>5, <2>1, <2>2 DEF CtpCompute, Engine!EngineEvaluate, TypeOK
    <3>2. Raises(c, below)
      BY <2>2 DEF Raises, Engine!Transition
    <3>3. Reported(c) => ctp' # NoTick /\ ctp'.pc = "append" /\ ctp'.contract = c
      BY <1>5, <2>1, <2>2, <3>2 DEF CtpCompute, TypeOK
    <3>4. QED
      BY <1>5, <2>1, <3>1, <3>3 DEF CtpCompute, BackedInv, Reported
  <2>3. CASE Asked(c) /\ Engine!Transition(c, below) = "None"
    <3>1. \A d \in Contracts : /\ has_alert_time'[d] => has_alert_time[d]
                               /\ last_alert_time'[d] = last_alert_time[d]
      BY <1>5, <2>1, <2>3 DEF CtpCompute, Engine!EngineEvaluate, TypeOK
    <3>2. QED
      BY <1>5, <2>1, <3>1 DEF CtpCompute, BackedInv, Reported
  <2>4. CASE ~Asked(c)
    BY <1>5, <2>1, <2>4 DEF CtpCompute, BackedInv, Reported
  <2>5. QED
    BY <2>2, <2>3, <2>4
<1>6. ASSUME NEW stored \in BOOLEAN, CtpAppend(stored) PROVE BackedInv'
  BY <1>6 DEF CtpAppend, BackedInv, TypeOK, Reported
<1>7. CASE AdvanceTime
  BY <1>7 DEF AdvanceTime, BackedInv
<1>8. CASE UNCHANGED vars
  BY <1>8 DEF vars, BackedInv
<1>9. QED
  BY <1>1, <1>2, <1>3, <1>4, <1>5, <1>6, <1>7, <1>8 DEF Next

(* The engine is silent about a reportable contract only after handing its *)
(* alert to the store.                                                     *)
THEOREM SuppressionCorrect == Spec => []SuppressionIsBacked
<1>1. BackedInv => SuppressionIsBacked
  BY DEF BackedInv, SuppressionIsBacked
<1>2. QED
  BY <1>1, InitTypeOK, NextTypeOK, InitBackedInv, NextBackedInv, PTL DEF Spec

-----------------------------------------------------------------------------
(* The freshness of results, when an entry's price is stored first. *)
LEMMA InitFreshInv == Init => FreshInv
  BY PipelineAssumption
  DEF Init, FreshInv, PriceIsAsRecent, AssignmentInOrder, LookupHolds,
      ResultsUseFreshIndex

(* Every step of a build that stores the price first keeps results fresh. *)
LEMMA NextFreshInv ==
  ASSUME FirstStores \subseteq {"price"}, TypeOK, FreshInv, [Next]_vars
  PROVE  FreshInv'
<1>1. ASSUME NEW x \in Indexes, NEW positive \in BOOLEAN, XtpTick(x, positive)
      PROVE  FreshInv'
  <2>1. /\ xtp' = [todo |-> Fields, index |-> x, received_at |-> now,
                  price |-> IF positive THEN now ELSE NonPositive]
        /\ UNCHANGED <<now, require_live, price, received_at, ctp, snapshots>>
    BY <1>1 DEF XtpTick
  <2>2. /\ xtp'.todo = Fields /\ xtp'.index = x /\ xtp'.received_at = now
        /\ xtp'.price \in {now, NonPositive}
    BY <2>1
  <2>3. now <= now
    BY PipelineAssumption DEF TypeOK
  <2>4. received_at[x] <= now
    BY DEF FreshInv
  <2>5. Fields # {"received_at"}
    OBVIOUS
  <2>6. AssignmentInOrder'
    BY <2>1, <2>2, <2>3, <2>4, <2>5 DEF AssignmentInOrder
  <2>7. QED
    BY <2>1, <2>6 DEF FreshInv, PriceIsAsRecent, LookupHolds, ResultsUseFreshIndex
<1>2. ASSUME NEW field \in Fields, XtpStore(field) PROVE FreshInv'
  <2> DEFINE y == xtp.index
  <2>0. xtp # XtpAtRest
    BY <1>2 DEF XtpStore
  <2>1. /\ y \in Indexes
        /\ xtp.received_at \in Times
        /\ xtp.price \in {xtp.received_at, NonPositive}
        /\ xtp.received_at <= now
        /\ received_at[y] <= xtp.received_at
        /\ xtp.todo \in {Fields, {"received_at"}}
        /\ xtp.todo = {"received_at"} => price[y] = xtp.price
    BY <2>0 DEF TypeOK, FreshInv, AssignmentInOrder
  <2>2. CASE xtp.todo = Fields
    <3>1. field = "price"
      BY <1>2, <2>2 DEF XtpStore
    <3>2. /\ price' = [price EXCEPT ![y] = xtp.price]
          /\ received_at' = received_at
          /\ xtp' = [xtp EXCEPT !.todo = {"received_at"}]
          /\ UNCHANGED <<now, require_live, ctp, snapshots>>
      BY <1>2, <2>2, <3>1 DEF XtpStore
    <3>3. (\A x \in Indexes : PriceIsAsRecent(x) /\ received_at[x] <= now)'
      BY <2>1, <3>2 DEF FreshInv, PriceIsAsRecent, TypeOK
    <3>4. AssignmentInOrder'
      <4>1. /\ xtp'.todo = {"received_at"} /\ xtp'.index = y
            /\ xtp'.price = xtp.price /\ xtp'.received_at = xtp.received_at
        BY <2>0, <3>2 DEF TypeOK
      <4>2. price'[y] = xtp.price
        BY <2>1, <3>2 DEF TypeOK
      <4>3. QED
        BY <2>1, <3>2, <4>1, <4>2 DEF AssignmentInOrder
    <3>5. LookupHolds' /\ ResultsUseFreshIndex'
      BY <3>2 DEF FreshInv, LookupHolds, ResultsUseFreshIndex
    <3>6. QED
      BY <3>3, <3>4, <3>5 DEF FreshInv
  <2>3. CASE xtp.todo = {"received_at"}
    <3>1. field = "received_at"
      BY <1>2, <2>3 DEF XtpStore
    <3>2. /\ price' = price
          /\ received_at' = [received_at EXCEPT ![y] = xtp.received_at]
          /\ xtp' = XtpAtRest
          /\ UNCHANGED <<now, require_live, ctp, snapshots>>
      BY <1>2, <2>3, <3>1 DEF XtpStore
    <3>3. (\A x \in Indexes : PriceIsAsRecent(x) /\ received_at[x] <= now)'
      BY <2>1, <2>3, <3>2 DEF FreshInv, PriceIsAsRecent, TypeOK
    <3>4. AssignmentInOrder'
      BY <3>2 DEF AssignmentInOrder
    <3>5. LookupHolds'
      <4> SUFFICES ASSUME ctp # NoTick, ctp.pc = "price"
                   PROVE /\ require_live => ctp.live
                         /\ ctp.fresh => ctp.looked_at - received_at'[IndexOf[ctp.contract]]
                                            < IndexStaleThreshold
        BY <3>2 DEF LookupHolds
      <4>1. /\ IndexOf[ctp.contract] \in Indexes
            /\ ctp.looked_at \in Times
        BY PipelineAssumption DEF TypeOK
      <4>2. /\ received_at[IndexOf[ctp.contract]] <= received_at'[IndexOf[ctp.contract]]
            /\ received_at[IndexOf[ctp.contract]] \in Int
            /\ received_at'[IndexOf[ctp.contract]] \in Int
        BY <2>1, <3>2, <4>1, PipelineAssumption DEF TypeOK
      <4>3. QED
        BY <4>1, <4>2, PipelineAssumption DEF FreshInv, LookupHolds
    <3>6. ResultsUseFreshIndex'
      BY <3>2 DEF FreshInv, ResultsUseFreshIndex
    <3>7. QED
      BY <3>3, <3>4, <3>5, <3>6 DEF FreshInv
  <2>4. QED
    BY <2>1, <2>2, <2>3
<1>3. ASSUME NEW c \in Contracts, CtpLookup(c) PROVE FreshInv'
  <2> DEFINE x == IndexOf[c]
  <2>0. /\ ctp' = [pc |-> "price", contract |-> c, looked_at |-> now,
                  live |-> x \in cached, fresh |-> x \in cached /\ Fresh(x)]
        /\ require_live => x \in cached
        /\ UNCHANGED <<now, require_live, price, received_at, xtp, snapshots>>
    BY <1>3 DEF CtpLookup
  <2>1. LookupHolds'
    <3>1. /\ ctp'.contract = c /\ ctp'.looked_at = now
          /\ ctp'.live = (x \in cached)
          /\ ctp'.fresh = (x \in cached /\ Fresh(x))
      BY <2>0
    <3>2. QED
      BY <2>0, <3>1 DEF LookupHolds, Fresh
  <2>2. QED
    BY <2>0, <2>1
    DEF FreshInv, PriceIsAsRecent, AssignmentInOrder, ResultsUseFreshIndex
<1>4. CASE CtpSkip
  BY <1>4
  DEF CtpSkip, FreshInv, PriceIsAsRecent, AssignmentInOrder, LookupHolds,
      ResultsUseFreshIndex
<1>5. ASSUME NEW below \in BOOLEAN, CtpCompute(below) PROVE FreshInv'
  <2>0. ctp # NoTick /\ ctp.pc = "price"
    BY <1>5 DEF CtpCompute
  <2>1. /\ ctp.contract \in Contracts /\ ctp # NoTick /\ ctp.pc = "price"
        /\ IndexOf[ctp.contract] \in Indexes
        /\ ctp.looked_at \in Times
    BY <2>0, PipelineAssumption DEF TypeOK
  <2>2. require_live => ctp.looked_at - Baseline < IndexStaleThreshold
    <3> SUFFICES ASSUME require_live PROVE ctp.looked_at - Baseline < IndexStaleThreshold
      OBVIOUS
    <3>1. ctp.live /\ ctp.fresh /\ Baseline # NonPositive
      BY <1>5, <2>1 DEF CtpCompute, Rejected, FreshInv, LookupHolds
    <3>2. /\ Baseline = price[IndexOf[ctp.contract]]
          /\ received_at[IndexOf[ctp.contract]] <= Baseline
      BY <2>1, <3>1 DEF Baseline, FreshInv, PriceIsAsRecent
    <3>3. ctp.looked_at - received_at[IndexOf[ctp.contract]] < IndexStaleThreshold
      BY <2>1, <3>1 DEF FreshInv, LookupHolds
    <3>4. Baseline \in Int /\ received_at[IndexOf[ctp.contract]] \in Int
      BY <2>1, <3>2, PipelineAssumption DEF TypeOK
    <3>5. QED
      BY <2>1, <3>2, <3>3, <3>4, PipelineAssumption
  <2>3. /\ snapshots' = [snapshots EXCEPT ![ctp.contract] =
              [has_tick |-> TRUE, index_price |-> Baseline, looked_at |-> ctp.looked_at]]
        /\ ctp' = NoTick \/ ctp'.pc = "append"
        /\ UNCHANGED <<now, require_live, price, received_at, xtp>>
    BY <1>5, <2>1 DEF CtpCompute, TypeOK
  <2>4. ResultsUseFreshIndex'
    BY <2>1, <2>2, <2>3 DEF FreshInv, ResultsUseFreshIndex, TypeOK
  <2>5. QED
    BY <2>3, <2>4 DEF FreshInv, PriceIsAsRecent, AssignmentInOrder, LookupHolds
<1>6. ASSUME NEW stored \in BOOLEAN, CtpAppend(stored) PROVE FreshInv'
  BY <1>6
  DEF CtpAppend, FreshInv, PriceIsAsRecent, AssignmentInOrder, LookupHolds,
      ResultsUseFreshIndex
<1>7. CASE AdvanceTime
  <2>1. UNCHANGED <<require_live, price, received_at, xtp, ctp, snapshots>> /\ now' = now + 1
    BY <1>7 DEF AdvanceTime
  <2>2. (\A x \in Indexes : PriceIsAsRecent(x) /\ received_at[x] <= now)'
    BY <2>1, PipelineAssumption DEF FreshInv, PriceIsAsRecent, TypeOK
  <2>3. AssignmentInOrder'
    BY <2>1 DEF FreshInv, AssignmentInOrder, TypeOK
  <2>4. LookupHolds' /\ ResultsUseFreshIndex'
    BY <2>1 DEF FreshInv, LookupHolds, ResultsUseFreshIndex
  <2>5. QED
    BY <2>2, <2>3, <2>4 DEF FreshInv
<1>8. CASE UNCHANGED vars
  BY <1>8
  DEF vars, FreshInv, PriceIsAsRecent, AssignmentInOrder, LookupHolds,
      ResultsUseFreshIndex
<1>9. QED
  BY <1>1, <1>2, <1>3, <1>4, <1>5, <1>6, <1>7, <1>8 DEF Next

(* In a build that stores the price of an entry before its time, no result *)
(* uses an index price as old as the threshold.                            *)
THEOREM FreshnessCorrect ==
  ASSUME FirstStores \subseteq {"price"}
  PROVE  Spec => []ResultsUseFreshIndex
<1>1. FreshInv => ResultsUseFreshIndex
  BY DEF FreshInv
<1>2. TypeOK /\ FreshInv /\ [Next]_vars => FreshInv'
  BY NextFreshInv
<1>3. QED
  BY <1>1, <1>2, InitTypeOK, NextTypeOK, InitFreshInv, PTL DEF Spec
=============================================================================
