----------------------------- MODULE RelayProofs -----------------------------
(***************************************************************************)
(* Theorems about Relay.                                                   *)
(***************************************************************************)
EXTENDS Relay, Integers, FiniteSetTheorems, WellFoundedInduction, TLAPS

(* A nonempty set of numbers has a least one. *)
LEMMA LeastNumber ==
  ASSUME NEW S, S \subseteq Nat, S # {}
  PROVE  \E m \in S : \A x \in S : m <= x
<1>1. IsWellFoundedOn(OpToRel(<, Nat), Nat)
  BY NatLessThanWellFounded
<1>2. PICK m \in S : \A x \in S : <<x, m>> \notin OpToRel(<, Nat)
  BY <1>1, WFMin
<1>3. ASSUME NEW x \in S, ~(m <= x) PROVE FALSE
  <2>1. x \in Nat /\ m \in Nat /\ x < m
    BY <1>3
  <2>2. <<x, m>> \in OpToRel(<, Nat)
    BY <2>1 DEF OpToRel
  <2> QED BY <2>2, <1>2
<1> QED BY <1>3

(* The number that NextMessage compares: a message is the pair of its      *)
(* day and its place, and a round takes the one that comes first.          *)
First(S) == CHOOSE m \in S : \A x \in S : m[2] <= x[2]

(* A round that has messages left has a next one among them. *)
LEMMA FirstIsThere ==
  ASSUME NEW k \in Kinds, NEW S \in SUBSET Messages(k), S # {}
  PROVE  First(S) \in S
<1>1. \A m \in Messages(k) : m[2] \in Nat
  <2>1. \A m \in Rows : m[2] \in Nat
    BY DEF Rows
  <2>2. Moments \subseteq Nat
    BY RelayAssumption
  <2>3. \A m \in Reports : m[2] \in Nat
    BY <2>2 DEF Reports
  <2> QED BY <2>1, <2>3 DEF Messages
<1> DEFINE places == {m[2] : m \in S}
<1>2. places \subseteq Nat /\ places # {}
  BY <1>1
<1>3. PICK n \in places : \A x \in places : n <= x
  BY <1>2, LeastNumber
<1>4. PICK m \in S : m[2] = n
  BY <1>3
<1>5. \A x \in S : m[2] <= x[2]
  BY <1>3, <1>4
<1> QED BY <1>4, <1>5 DEF First

(* The latest of the days of some rows is one of them. *)
LEMMA LatestDay ==
  ASSUME NEW S \in SUBSET Days, S # {}
  PROVE  Max(S) \in S /\ \A d \in S : d <= Max(S)
<1> DEFINE top == MaxTime \div DayLength
<1>1. top \in Nat
  BY RelayAssumption
<1>2. \A d \in S : d \in Nat /\ top - d \in Nat
  BY <1>1 DEF Days
<1> DEFINE before == {top - d : d \in S}
<1>3. before \subseteq Nat /\ before # {}
  BY <1>2
<1>4. PICK n \in before : \A x \in before : n <= x
  BY <1>3, LeastNumber
<1>5. PICK d \in S : top - d = n
  BY <1>4
<1> HIDE DEF top
<1>6. \A x \in S : d >= x
  <2> TAKE x \in S
  <2>1. top - d <= top - x
    BY <1>4, <1>5
  <2> QED BY <2>1, <1>1, <1>2
<1>7. Max(S) \in S /\ \A x \in S : Max(S) >= x
  BY <1>5, <1>6 DEF Max
<1> QED BY <1>7, <1>2

-----------------------------------------------------------------------------
(* The records that processes and the state file hold *)

\* A dictionary names as sent what can be a message of the kind.
SoundDict == {d \in Dict : \A k \in Kinds : d.sent[k] \subseteq Messages(k)}

\* So do the sets a relay works on; it posts while there is something to
\* post, and a report only while it has attempts left.
SoundProcess ==
  {c \in Processes :
     /\ c.dict \in SoundDict
     /\ c.todo \subseteq Messages(c.kind) /\ c.sent \subseteq Messages(c.kind)
     /\ c.pc = "post" =>
          /\ c.todo # {}
          /\ c.kind = "reports" => c.attempts[First(c.todo)] < MaxAttempts}

Steps == PullSteps \cup RelaySteps \cup {"exited"}

(* The sets that the records are built from. *)
LEMMA Basics ==
  /\ MaxAttempts \in Nat \ {0} /\ MaxTries \in Nat \ {0}
  /\ MaxTime \in Nat /\ MaxRows \in Nat
  /\ Days \subseteq Nat /\ NoDay \in Nat /\ \A d \in Days : d < NoDay
  /\ Kinds = {"alerts", "reports"}
  /\ Messages("alerts") = Rows /\ Messages("reports") = Reports
<1>1. /\ MaxAttempts \in Nat \ {0} /\ MaxTries \in Nat \ {0}
      /\ MaxTime \in Nat /\ MaxRows \in Nat /\ DayLength \in Nat \ {0}
  BY RelayAssumption
<1>2. MaxTime \div DayLength \in Nat /\ MaxTime \div DayLength <= MaxTime
  BY <1>1
<1>3. Days \subseteq Nat /\ NoDay \in Nat /\ \A d \in Days : d < NoDay
  BY <1>1, <1>2 DEF Days, NoDay
<1> QED BY <1>1, <1>3 DEF Kinds, Messages

(* What load_state makes of a missing or an empty file is a dictionary. *)
LEMMA DefaultIsSound == default_state \in SoundDict
<1>1. NoAttempts \in [Reports -> 0 .. MaxAttempts]
  BY Basics DEF NoAttempts
<1>2. default_state \in Dict
  BY <1>1 DEF default_state, Dict
<1>3. \A k \in Kinds : default_state.sent[k] = {}
  BY DEF default_state
<1> QED BY <1>2, <1>3 DEF SoundDict

(* Both daily resets keep a dictionary a dictionary. *)
LEMMA ResetsAreSound ==
  ASSUME NEW d \in SoundDict, NEW day \in Days
  PROVE  ResetAlerts(d, day) \in SoundDict /\ ResetReports(d, day) \in SoundDict
<1>1. d \in Dict /\ \A k \in Kinds : d.sent[k] \subseteq Messages(k)
  BY DEF SoundDict
<1>2. NoAttempts \in [Reports -> 0 .. MaxAttempts]
  BY Basics DEF NoAttempts
<1>3. ResetAlerts(d, day) \in Dict
  BY <1>1 DEF ResetAlerts, Dict, Kinds
<1>4. ResetReports(d, day) \in Dict
  BY <1>1, <1>2 DEF ResetReports, Dict, Kinds
<1>5. \A k \in Kinds : /\ ResetAlerts(d, day).sent[k] \subseteq Messages(k)
                       /\ ResetReports(d, day).sent[k] \subseteq Messages(k)
  BY <1>1 DEF ResetAlerts, ResetReports, Dict, Kinds
<1> QED BY <1>3, <1>4, <1>5 DEF SoundDict

(* A process that has ended has forgotten everything. *)
LEMMA ExitedIsSound ==
  ASSUME NEW ok \in BOOLEAN
  PROVE  Exited(ok) \in SoundProcess
<1>1. default_state \in Dict /\ NoAttempts \in [Reports -> 0 .. MaxAttempts]
  BY DefaultIsSound, Basics DEF SoundDict, NoAttempts
<1>2. Exited(ok) \in Processes
  BY <1>1, Basics DEF Exited, Processes, Kinds
<1> QED BY <1>2, DefaultIsSound DEF Exited, SoundProcess

(* A process may go to any step but the post. *)
LEMMA StepIsSound ==
  ASSUME NEW c \in SoundProcess, NEW step \in Steps \ {"post"}
  PROVE  [c EXCEPT !.pc = step] \in SoundProcess
<1>1. [c EXCEPT !.pc = step] \in Processes
  BY DEF SoundProcess, Processes, Steps
<1> QED BY <1>1 DEF SoundProcess, Processes

\* Types, with what the proofs know beyond TypeOK: the spool's copy of the
\* alerts is a beginning of the monitor's file, and the records are sound.
TypeInv ==
  /\ TypeOK
  /\ spoolRows <= Len(rows)
  /\ stateFile \in SoundDict
  /\ child \in [Procs -> SoundProcess]

Counted == /\ DOMAIN posts = Kinds
           /\ \A k \in Kinds : posts[k] \in [Messages(k) -> Nat]
           /\ failures \in [Reports -> Nat]

(* A step of a process keeps the types when what it writes has them. *)
LEMMA ProcessStepTypes ==
  ASSUME TypeInv, NEW p \in Procs, NEW record \in SoundProcess,
         child' = [child EXCEPT ![p] = record],
         UNCHANGED <<now, monitor, orch, stops>>,
         spoolRows' \in 0 .. Len(rows), spoolReports' \in [Reports -> Contents],
         stateFile' \in SoundDict, Counted', faults' \in 0 .. MaxFaults
  PROVE  TypeInv'
<1>1. child' \in [Procs -> SoundProcess]
  BY DEF TypeInv
<1>2. child' \in [Procs -> Processes] /\ stateFile' \in Dict
  BY <1>1 DEF SoundProcess, SoundDict
<1>3. Len(rows) \in Nat /\ Len(rows) <= MaxRows /\ rows \in Seq(Days)
  BY DEF TypeInv, TypeOK
<1>4. rows' = rows /\ reports' = reports
  BY DEF monitor
<1>5. spoolRows' \in 0 .. MaxRows /\ spoolRows' <= Len(rows')
  BY <1>3, <1>4, Basics
<1>6. /\ now' \in 0 .. MaxTime
      /\ rows' \in Seq(Days) /\ Len(rows') <= MaxRows
      /\ reports' \in [Reports -> Contents]
      /\ orch' \in [pc : {"down", "cycle", "pull", "alerts", "reports"},
                    window : BOOLEAN, proc : Procs]
      /\ stops' \in 0 .. MaxStops
  BY <1>4 DEF TypeInv, TypeOK
<1>7. TypeOK'
  BY <1>2, <1>5, <1>6 DEF TypeOK, Counted
<1> QED BY <1>1, <1>5, <1>7 DEF TypeInv

(* The pull keeps the types: it changes the spool and its own step only. *)
LEMMA PullTypes ==
  ASSUME TypeInv, NEW p \in Procs,
         \/ GetRowsOpens(p) \/ GetRowsRefused(p) \/ GetRowsEnds(p) \/ GetRowsCut(p)
         \/ GetReportsOpens(p) \/ GetReportsEnds(p) \/ PullFails(p)
  PROVE  TypeInv'
<1>1. child[p] \in SoundProcess /\ stateFile \in SoundDict /\ Counted
      /\ rows \in Seq(Days) /\ spoolRows \in 0 .. Len(rows)
      /\ reports \in [Reports -> Contents]
      /\ spoolReports \in [Reports -> Contents] /\ faults \in 0 .. MaxFaults
  BY DEF TypeInv, TypeOK, Counted
<1>2. Exited(TRUE) \in SoundProcess /\ Exited(FALSE) \in SoundProcess
  BY ExitedIsSound
<1>3. \A step \in {"getReports", "gettingRows", "gettingReports"} :
        [child[p] EXCEPT !.pc = step] \in SoundProcess
  BY <1>1, StepIsSound DEF Steps, PullSteps
<1>4. AfterRows(p) \in SoundProcess
  BY <1>2, <1>3 DEF AfterRows
<1>5. /\ stateFile' \in SoundDict /\ Counted'
      /\ UNCHANGED <<now, monitor, orch, stops>>
  BY <1>1 DEF GetRowsOpens, GetRowsRefused, GetRowsEnds, GetRowsCut,
              GetReportsOpens, GetReportsEnds, PullFails, PullStep, robot, faulty,
              Fault, Counted
<1>6. PICK record \in SoundProcess : child' = [child EXCEPT ![p] = record]
  BY <1>2, <1>3, <1>4 DEF GetRowsOpens, GetRowsRefused, GetRowsEnds, GetRowsCut,
              GetReportsOpens, GetReportsEnds, PullFails, PullStep
<1>7. spoolRows' \in 0 .. Len(rows)
  <2>1. Len(rows) \in Nat
    BY <1>1
  <2>2. \/ spoolRows' \in 0 .. Len(rows)
        \/ spoolRows' = Len(rows)
        \/ spoolRows' = spoolRows
    BY DEF GetRowsOpens, GetRowsRefused, GetRowsEnds, GetRowsCut,
           GetReportsOpens, GetReportsEnds, PullFails, spool
  <2> QED BY <1>1, <2>1, <2>2
<1>8. spoolReports' \in [Reports -> Contents]
  BY <1>1 DEF GetRowsOpens, GetRowsRefused, GetRowsEnds, GetRowsCut,
              GetReportsOpens, GetReportsEnds, PullFails, spool, Contents
<1>9. faults' \in 0 .. MaxFaults
  <2>1. MaxFaults \in Nat
    BY RelayAssumption
  <2>2. UNCHANGED faults \/ Fault
    BY DEF GetRowsOpens, GetRowsRefused, GetRowsEnds, GetRowsCut,
           GetReportsOpens, GetReportsEnds, PullFails, faulty
  <2> QED BY <1>1, <2>1, <2>2 DEF Fault
<1> QED BY <1>5, <1>6, <1>7, <1>8, <1>9, ProcessStepTypes

(* Posting message m of kind k adds to its number and to no other. *)
LEMMA PostsGrow ==
  ASSUME Counted, NEW k \in Kinds, NEW m \in Messages(k), NEW n \in Nat,
         posts' = [posts EXCEPT ![k][m] = @ + n]
  PROVE  /\ DOMAIN posts' = Kinds
         /\ \A j \in Kinds : posts'[j] \in [Messages(j) -> Nat]
         /\ posts'[k][m] = posts[k][m] + n
         /\ \A j \in Kinds : \A x \in Messages(j) :
              j # k \/ x # m => posts'[j][x] = posts[j][x]
<1>1. posts' = [posts EXCEPT ![k] = [posts[k] EXCEPT ![m] = posts[k][m] + n]]
  OBVIOUS
<1>2. posts[k] \in [Messages(k) -> Nat] /\ DOMAIN posts = Kinds
  BY DEF Counted
<1>3. [posts[k] EXCEPT ![m] = posts[k][m] + n] \in [Messages(k) -> Nat]
  BY <1>2
<1>4. /\ DOMAIN posts' = Kinds
      /\ posts'[k] = [posts[k] EXCEPT ![m] = posts[k][m] + n]
      /\ \A j \in Kinds : j # k => posts'[j] = posts[j]
  BY <1>1, <1>2
<1>5. \A j \in Kinds : posts'[j] \in [Messages(j) -> Nat]
  BY <1>3, <1>4 DEF Counted
<1>6. /\ posts'[k][m] = posts[k][m] + n
      /\ \A x \in Messages(k) : x # m => posts'[k][x] = posts[k][x]
  BY <1>2, <1>4
<1> QED BY <1>4, <1>5, <1>6

(* The round of message m of a report that failed is counted for m alone. *)
LEMMA FailuresGrow ==
  ASSUME Counted, NEW p \in Procs, child[p].kind \in Kinds,
         NEW m \in Messages(child[p].kind), Failed(p, m)
  PROVE  /\ failures' \in [Reports -> Nat]
         /\ child[p].kind = "alerts" => failures' = failures
         /\ child[p].kind = "reports" => failures'[m] = failures[m] + 1
         /\ \A x \in Reports : x # m => failures'[x] = failures[x]
<1>1. CASE child[p].kind = "alerts"
  BY <1>1 DEF Failed, Counted
<1>2. CASE child[p].kind = "reports"
  BY <1>2, Basics DEF Failed, Counted
<1> QED BY <1>1, <1>2 DEF Kinds

(* The next message of a process that has one is of its kind. *)
LEMMA NextIsThere ==
  ASSUME NEW p \in Procs, child[p] \in SoundProcess, child[p].todo # {}
  PROVE  /\ NextMessage(p) = First(child[p].todo)
         /\ NextMessage(p) \in child[p].todo
         /\ child[p].kind \in Kinds
         /\ NextMessage(p) \in Messages(child[p].kind)
<1>1. child[p].kind \in Kinds /\ child[p].todo \in SUBSET Messages(child[p].kind)
  BY DEF SoundProcess, Processes
<1>2. First(child[p].todo) \in child[p].todo
  BY <1>1, FirstIsThere
<1>3. NextMessage(p) = First(child[p].todo)
  BY DEF NextMessage, First
<1> QED BY <1>1, <1>2, <1>3

(* The relay keeps the types up to its loop, and when it saves its state. *)
LEMMA OutsideLoopTypes ==
  ASSUME TypeInv, NEW p \in Procs,
         \/ LoadState(p) \/ ReadAlerts(p) \/ ReadReports(p)
         \/ Return(p) \/ TruncateState(p) \/ WriteState(p)
  PROVE  TypeInv'
<1> DEFINE c == child[p]
<1>1. c \in SoundProcess /\ stateFile \in SoundDict /\ Counted
      /\ rows \in Seq(Days) /\ spoolRows \in 0 .. Len(rows) /\ Len(rows) <= MaxRows
      /\ spoolReports \in [Reports -> Contents] /\ faults \in 0 .. MaxFaults
  BY DEF TypeInv, TypeOK, Counted
<1>2. /\ c \in Processes /\ c.kind \in Kinds /\ c.dict \in SoundDict
      /\ c.dict \in Dict /\ stateFile \in Dict
  BY <1>1 DEF SoundProcess, Processes, SoundDict
<1>3. \A d \in SoundDict : d \in Dict /\ \A k \in Kinds : d.sent[k] \subseteq Messages(k)
  BY DEF SoundDict
<1>4. /\ spoolRows' = spoolRows /\ spoolReports' = spoolReports /\ Counted'
      /\ faults' = faults /\ UNCHANGED <<now, monitor, orch, stops>>
  BY <1>1 DEF LoadState, ReadAlerts, ReadReports, Return, TruncateState, WriteState,
              RelayStep, spool, robot, faulty, Counted
<1>5. ASSUME NEW record \in SoundProcess, child' = [child EXCEPT ![p] = record],
             stateFile' \in SoundDict
      PROVE  TypeInv'
  BY <1>1, <1>4, <1>5, ProcessStepTypes
<1>6. CASE LoadState(p)
  <2> DEFINE r == [c EXCEPT !.pc = "read", !.dict = stateFile]
  <2>1. r \in Processes
    BY <1>2 DEF Processes, RelaySteps
  <2>2. r \in SoundProcess
    BY <1>1, <1>2, <2>1 DEF SoundProcess, Processes
  <2>3. child' = [child EXCEPT ![p] = r] /\ stateFile' = stateFile
    BY <1>6 DEF LoadState, RelayStep
  <2> QED BY <1>1, <1>5, <2>2, <2>3
<1>7. CASE ReadAlerts(p)
  <2> DEFINE dates == {rows[n] : n \in 1 .. spoolRows}
             dict  == IF dates = {} THEN c.dict ELSE ResetAlerts(c.dict, Max(dates))
             news  == {<<rows[n], n>> : n \in 1 .. spoolRows} \ dict.sent["alerts"]
             todo  == {m \in news : m[1] = dict.day["alerts"]}
             r     == [c EXCEPT !.pc = "next", !.dict = dict,
                                !.sent = dict.sent["alerts"], !.todo = todo]
  <2>1. \A n \in 1 .. spoolRows : rows[n] \in Days /\ <<rows[n], n>> \in Rows
    BY <1>1, Basics DEF Rows
  <2>2. dates \in SUBSET Days
    BY <2>1
  <2>3. dates # {} => Max(dates) \in Days
    BY <2>2, LatestDay
  <2>4. dict \in SoundDict
    BY <1>2, <2>3, ResetsAreSound
  <2>5. todo \subseteq Rows
    BY <2>1
  <2>6. c.kind = "alerts" /\ child' = [child EXCEPT ![p] = r] /\ stateFile' = stateFile
    BY <1>7 DEF ReadAlerts, RelayStep
  <2> HIDE DEF dict, todo
  <2>7. /\ dict \in Dict /\ dict.sent["alerts"] \subseteq Rows
        /\ todo \subseteq Rows \cup Reports
        /\ dict.sent["alerts"] \subseteq Rows \cup Reports
    BY <1>3, <2>4, <2>5, Basics
  <2>8. r \in Processes
    BY <1>2, <2>7 DEF Processes, RelaySteps
  <2>9. r \in SoundProcess
    BY <1>1, <1>2, <2>4, <2>5, <2>6, <2>7, <2>8, Basics DEF SoundProcess, Processes
  <2> QED BY <1>1, <1>5, <2>6, <2>9
<1>8. CASE ReadReports(p)
  <2> DEFINE todays == {x \in Reports : x[1] = Today /\ spoolReports[x] # "none"}
             dict   == IF todays = {} THEN c.dict ELSE ResetReports(c.dict, Today)
             todo   == (todays \ dict.sent["reports"]) \ dict.gaveUp
             r      == [c EXCEPT !.pc = "next", !.dict = dict,
                                 !.sent = dict.sent["reports"], !.gaveUp = dict.gaveUp,
                                 !.attempts = dict.attempts, !.todo = todo]
  <2>1. todays # {} => Today \in Days
    BY DEF Reports
  <2>2. dict \in SoundDict
    BY <1>2, <2>1, ResetsAreSound
  <2>3. todo \subseteq Reports
    OBVIOUS
  <2>4. c.kind = "reports" /\ child' = [child EXCEPT ![p] = r] /\ stateFile' = stateFile
    BY <1>8 DEF ReadReports, RelayStep
  <2> HIDE DEF dict, todo
  <2>5. /\ dict \in Dict /\ dict.sent["reports"] \subseteq Reports
        /\ todo \subseteq Rows \cup Reports
        /\ dict.sent["reports"] \subseteq Rows \cup Reports
        /\ dict.gaveUp \subseteq Reports
        /\ dict.attempts \in [Reports -> 0 .. MaxAttempts]
    BY <1>3, <2>2, <2>3, Basics DEF Dict
  <2>6. r \in Processes
    BY <1>2, <2>5 DEF Processes, RelaySteps
  <2>7. r \in SoundProcess
    BY <1>1, <1>2, <2>2, <2>3, <2>4, <2>5, <2>6, Basics DEF SoundProcess, Processes
  <2> QED BY <1>1, <1>5, <2>4, <2>7
<1>9. CASE Return(p)
  <2> DEFINE dict == Stored(p)
             r    == [c EXCEPT !.pc = "truncate", !.dict = dict]
  <2>1. /\ c.sent \subseteq Messages(c.kind) /\ c.sent \subseteq Rows \cup Reports
        /\ c.gaveUp \subseteq Reports /\ c.attempts \in [Reports -> 0 .. MaxAttempts]
    BY <1>1, <1>2 DEF SoundProcess, Processes
  <2>2. Stored(p) \in Dict
    BY <1>2, <2>1 DEF Stored, Dict, Kinds
  <2>3. \A k \in Kinds : Stored(p).sent[k] \subseteq Messages(k)
    BY <1>2, <1>3, <2>1 DEF Stored, Dict, Kinds
  <2>4. dict \in SoundDict /\ dict \in Dict
    BY <2>2, <2>3 DEF SoundDict
  <2>5. child' = [child EXCEPT ![p] = r] /\ stateFile' = stateFile
    BY <1>9 DEF Return, RelayStep
  <2> HIDE DEF dict
  <2>6. r \in Processes
    BY <1>2, <2>4 DEF Processes, RelaySteps
  <2>7. r \in SoundProcess
    BY <1>1, <1>2, <2>4, <2>6 DEF SoundProcess, Processes
  <2> QED BY <1>1, <1>5, <2>5, <2>7
<1>10. CASE TruncateState(p)
  <2>1. [c EXCEPT !.pc = "write"] \in SoundProcess
    BY <1>1, StepIsSound DEF Steps, RelaySteps
  <2>2. child' = [child EXCEPT ![p] = [c EXCEPT !.pc = "write"]]
        /\ stateFile' = default_state
    BY <1>10 DEF TruncateState, RelayStep
  <2> QED BY <1>5, <2>1, <2>2, DefaultIsSound
<1>11. CASE WriteState(p)
  <2>1. child' = [child EXCEPT ![p] = Exited(TRUE)] /\ stateFile' = c.dict
    BY <1>11 DEF WriteState, RelayStep
  <2> QED BY <1>2, <1>5, <2>1, ExitedIsSound
<1> QED BY <1>6, <1>7, <1>8, <1>9, <1>10, <1>11

(* The loop keeps the types: it posts only what it has attempts for. *)
LEMMA LoopTypes ==
  ASSUME TypeInv, NEW p \in Procs,
         TakeUp(p) \/ PostOk(p) \/ PostError(p) \/ PostTimeout(p)
  PROVE  TypeInv'
<1> DEFINE c == child[p]
           m == NextMessage(p)
<1>1. c \in SoundProcess /\ stateFile \in SoundDict /\ Counted
      /\ rows \in Seq(Days) /\ spoolRows \in 0 .. Len(rows)
      /\ spoolReports \in [Reports -> Contents]
      /\ faults \in 0 .. MaxFaults /\ MaxFaults \in Nat
  BY RelayAssumption DEF TypeInv, TypeOK, Counted
<1>2. c.todo # {}
  BY <1>1 DEF TakeUp, PostOk, PostError, PostTimeout, SoundProcess
<1>3. /\ m = First(c.todo) /\ m \in c.todo /\ c.kind \in Kinds
      /\ m \in Messages(c.kind)
  BY <1>1, <1>2, NextIsThere
<1>4. /\ c \in Processes /\ c.dict \in SoundDict
      /\ c.todo \subseteq Messages(c.kind) /\ c.sent \subseteq Messages(c.kind)
      /\ c.sent \cup {m} \subseteq Messages(c.kind)
      /\ Messages(c.kind) \subseteq Rows \cup Reports
      /\ c.kind = "reports" => m \in Reports
  BY <1>1, <1>3, Basics DEF SoundProcess
<1>5. /\ spoolRows' = spoolRows /\ spoolReports' = spoolReports
      /\ stateFile' = stateFile /\ UNCHANGED <<now, monitor, orch, stops>>
  BY DEF TakeUp, PostOk, PostError, PostTimeout, RelayStep, spool, faulty, Fault
<1>6. ASSUME NEW record \in SoundProcess, child' = [child EXCEPT ![p] = record],
             Counted', faults' \in 0 .. MaxFaults
      PROVE  TypeInv'
  BY <1>1, <1>5, <1>6, ProcessStepTypes
<1>7. ASSUME UNCHANGED faults \/ Fault PROVE faults' \in 0 .. MaxFaults
  BY <1>1, <1>7 DEF Fault
<1>8. ASSUME NEW n \in {0, 1}, posts' = [posts EXCEPT ![c.kind][m] = @ + n],
             UNCHANGED failures \/ Failed(p, m)
      PROVE  Counted'
  <2>1. DOMAIN posts' = Kinds /\ \A j \in Kinds : posts'[j] \in [Messages(j) -> Nat]
    BY <1>1, <1>3, <1>8, PostsGrow
  <2>2. failures' \in [Reports -> Nat]
    BY <1>1, <1>3, <1>8, FailuresGrow DEF Counted
  <2> QED BY <2>1, <2>2 DEF Counted
<1>9. ASSUME UNCHANGED posts, UNCHANGED failures \/ Failed(p, m) PROVE Counted'
  <2>1. failures' \in [Reports -> Nat]
    BY <1>1, <1>3, <1>9, FailuresGrow DEF Counted
  <2> QED BY <1>1, <1>9, <2>1 DEF Counted
<1>10. CASE TakeUp(p)
  <2>1. Counted' /\ faults' \in 0 .. MaxFaults
    BY <1>1, <1>10 DEF TakeUp, robot, faulty, Counted
  <2>2. CASE ~Spent(p, m) /\ RelayStep(p, [c EXCEPT !.pc = "post", !.try = 1])
    <3> DEFINE r == [c EXCEPT !.pc = "post", !.try = 1]
    <3>1. 1 \in 1 .. MaxTries
      BY Basics
    <3>2. r \in Processes
      BY <1>4, <3>1 DEF Processes, RelaySteps
    <3>3. c.kind = "reports" => c.attempts[m] < MaxAttempts
      BY <1>4, <2>2, Basics DEF Spent, Processes
    <3>4. r \in SoundProcess
      BY <1>2, <1>3, <1>4, <3>2, <3>3 DEF SoundProcess, Processes
    <3> QED BY <1>6, <2>1, <2>2, <3>4 DEF RelayStep
  <2>3. CASE RelayStep(p, [c EXCEPT !.todo = @ \ {m}, !.gaveUp = @ \cup {m}])
             /\ Spent(p, m)
    <3> DEFINE r == [c EXCEPT !.todo = @ \ {m}, !.gaveUp = @ \cup {m}]
    <3>1. m \in Reports /\ c.pc = "next"
      BY <1>4, <1>10, <2>3 DEF Spent, TakeUp
    <3>2. r \in Processes
      BY <1>4, <3>1 DEF Processes
    <3>3. r \in SoundProcess
      BY <1>4, <3>1, <3>2 DEF SoundProcess, Processes
    <3> QED BY <1>6, <2>1, <2>3, <3>3 DEF RelayStep
  <2>4. CASE RelayStep(p, PassOver(p, m))
    <3> DEFINE r == [c EXCEPT !.todo = @ \ {m}]
    <3>1. r \in Processes /\ c.pc = "next"
      BY <1>4, <1>10 DEF Processes, TakeUp
    <3>2. r \in SoundProcess
      BY <1>4, <3>1 DEF SoundProcess, Processes
    <3> QED BY <1>6, <2>1, <2>4, <3>2 DEF RelayStep, PassOver
  <2> QED BY <1>10, <2>2, <2>3, <2>4 DEF TakeUp
<1>11. CASE PostOk(p)
  <2> DEFINE r == [c EXCEPT !.pc = "next", !.todo = @ \ {m}, !.sent = @ \cup {m},
                            !.attempts = Attempts(p, m, 0)]
  <2>1. Attempts(p, m, 0) \in [Reports -> 0 .. MaxAttempts]
    BY <1>4, Basics DEF Attempts, Processes
  <2>2. r \in Processes
    BY <1>4, <2>1 DEF Processes, RelaySteps
  <2>3. r \in SoundProcess
    BY <1>4, <2>2 DEF SoundProcess, Processes
  <2>4. Counted' /\ faults' = faults
    BY <1>8, <1>11 DEF PostOk, faulty
  <2> QED BY <1>1, <1>6, <1>11, <2>3, <2>4 DEF PostOk, RelayStep
<1>12. CASE PostError(p)
  <2>1. faults' \in 0 .. MaxFaults
    BY <1>7, <1>12 DEF PostError, faulty
  <2>2. UNCHANGED failures \/ Failed(p, m)
    BY <1>12 DEF PostError
  <2>3. Counted'
    BY <1>8, <1>9, <1>12, <2>2 DEF PostError
  <2>4. CASE ~LastTry(p) /\ RelayStep(p, [c EXCEPT !.try = @ + 1])
    <3> DEFINE r == [c EXCEPT !.try = @ + 1]
    <3>1. c.try + 1 \in 1 .. MaxTries
      BY <1>4, <2>4, Basics DEF LastTry, Processes
    <3>2. r \in Processes
      BY <1>4, <3>1 DEF Processes
    <3>3. r \in SoundProcess
      BY <1>1, <1>4, <3>2 DEF SoundProcess, Processes
    <3> QED BY <1>6, <2>1, <2>3, <2>4, <3>3 DEF RelayStep
  <2>5. CASE LastTry(p) /\ RelayStep(p, RoundLost(p, m))
    <3> DEFINE n == c.attempts[m] + 1
               r == [c EXCEPT !.pc = "next", !.todo = @ \ {m},
                              !.attempts = Attempts(p, m, @[m] + 1)]
    <3>1. c.kind = "reports" => c.attempts[m] < MaxAttempts
      BY <1>1, <1>3, <1>12 DEF PostError, SoundProcess
    <3>2. Attempts(p, m, c.attempts[m] + 1) \in [Reports -> 0 .. MaxAttempts]
      BY <1>4, <3>1, Basics DEF Attempts, Processes
    <3>3. r \in Processes
      BY <1>4, <3>2 DEF Processes, RelaySteps
    <3>4. r \in SoundProcess
      BY <1>4, <3>3 DEF SoundProcess, Processes
    <3> QED BY <1>6, <2>1, <2>3, <2>5, <3>4 DEF RelayStep, RoundLost
  <2> QED BY <1>12, <2>4, <2>5 DEF PostError
<1>13. CASE PostTimeout(p)
  <2>1. [c EXCEPT !.pc = "truncate"] \in SoundProcess
    BY <1>1, StepIsSound DEF Steps, RelaySteps
  <2>2. faults' \in 0 .. MaxFaults
    BY <1>7, <1>13 DEF PostTimeout
  <2>3. Counted'
    BY <1>8, <1>13 DEF PostTimeout
  <2> QED BY <1>6, <1>13, <2>1, <2>2, <2>3 DEF PostTimeout, RelayStep
<1> QED BY <1>10, <1>11, <1>12, <1>13

(* Division by a length keeps the order: days do not go back. *)
LEMMA DivMonotone ==
  ASSUME NEW m \in Nat, NEW n \in Nat, NEW d \in Nat \ {0}, m <= n
  PROVE  m \div d <= n \div d
<1> DEFINE a == m \div d
           b == n \div d
<1>1. a \in Int /\ b \in Int
  OBVIOUS
<1>2. m = d * a + (m % d) /\ n = d * b + (n % d)
  OBVIOUS
<1>3. m % d \in 0 .. d - 1 /\ n % d \in 0 .. d - 1
  OBVIOUS
<1> HIDE DEF a, b
<1>4. d * a <= m /\ n < d * (b + 1)
  <2>1. d * (b + 1) = d * b + d
    BY <1>1
  <2>2. d * a \in Int /\ d * b \in Int
    BY <1>1
  <2> QED BY <1>2, <1>3, <2>1, <2>2
<1>5. ASSUME b + 1 <= a PROVE FALSE
  <2>1. d * (b + 1) <= d * a
    BY <1>1, <1>5
  <2> QED BY <1>1, <1>4, <2>1
<1>6. a <= b
  BY <1>1, <1>5
<1> QED BY <1>6 DEF a, b

(* The initial state has the types. *)
LEMMA InitTypes ==
  ASSUME Init
  PROVE  TypeInv
<1>1. orch \in [pc : {"down", "cycle", "pull", "alerts", "reports"},
                window : BOOLEAN, proc : Procs]
  <2>1. (CHOOSE p \in Procs : TRUE) \in Procs
    BY RelayAssumption
  <2> QED BY <2>1 DEF Init
<1>2. child \in [Procs -> SoundProcess]
  BY ExitedIsSound DEF Init
<1>3. child \in [Procs -> Processes] /\ stateFile \in SoundDict /\ stateFile \in Dict
  BY <1>2, DefaultIsSound DEF SoundProcess, SoundDict, Init
<1>4. reports \in [Reports -> Contents] /\ spoolReports \in [Reports -> Contents]
  BY DEF Init, Contents
<1>5. rows \in Seq(Days) /\ Len(rows) = 0 /\ spoolRows = 0
  BY DEF Init
<1>6. Counted
  BY DEF Init, Counted
<1>7. now = 0 /\ stops = 0 /\ faults = 0
  BY DEF Init
<1>8. MaxRows \in Nat /\ MaxTime \in Nat /\ MaxStops \in Nat /\ MaxFaults \in Nat
  BY RelayAssumption
<1> QED BY <1>1, <1>2, <1>3, <1>4, <1>5, <1>6, <1>7, <1>8 DEF TypeInv, TypeOK, Counted

(* The day of a moment is one of the days. *)
LEMMA MomentHasADay ==
  ASSUME NEW t \in 0 .. MaxTime
  PROVE  t \div DayLength \in Days
<1>1. t \in Nat /\ t <= MaxTime /\ MaxTime \in Nat /\ DayLength \in Nat \ {0}
  BY RelayAssumption
<1>2. t \div DayLength \in Nat /\ MaxTime \div DayLength \in Nat
  BY <1>1
<1>3. t \div DayLength <= MaxTime \div DayLength
  BY <1>1, DivMonotone
<1> QED BY <1>2, <1>3 DEF Days

(* So is today. *)
LEMMA TodayIsADay == ASSUME TypeInv PROVE Today \in Days
  BY MomentHasADay DEF Today, TypeInv, TypeOK

(* The clock and the monitor's files keep the types. *)
LEMMA SurroundingsTypes ==
  ASSUME TypeInv,
         \/ AdvanceClock \/ AppendAlert
         \/ \E m \in Moments : TruncateReport(m)
         \/ \E r \in Reports : FillReport(r)
  PROVE  TypeInv'
<1>1. /\ spoolRows' = spoolRows /\ spoolReports' = spoolReports
      /\ UNCHANGED <<stateFile, orch, child, posts, failures, stops, faults>>
  BY DEF AdvanceClock, AppendAlert, TruncateReport, FillReport, spool, robot, faulty
<1>2. rows \in Seq(Days) /\ Len(rows) \in Nat /\ Len(rows) <= MaxRows
      /\ MaxRows \in Nat /\ spoolRows <= Len(rows) /\ spoolRows \in Nat
      /\ reports \in [Reports -> Contents]
      /\ now \in 0 .. MaxTime /\ MaxTime \in Nat
  BY Basics DEF TypeInv, TypeOK
<1>3. now' \in 0 .. MaxTime
  <2>1. now' = now \/ (now < MaxTime /\ now' = now + 1)
    BY DEF AdvanceClock, AppendAlert, TruncateReport, FillReport
  <2> QED BY <1>2, <2>1
<1>4. /\ rows' \in Seq(Days) /\ Len(rows') <= MaxRows
      /\ spoolRows' <= Len(rows')
  <2>1. CASE AppendAlert
    <3>1. rows' = Append(rows, Today) /\ Len(rows) < MaxRows
      BY <2>1 DEF AppendAlert
    <3>2. rows' \in Seq(Days) /\ Len(rows') = Len(rows) + 1
      BY <1>2, <3>1, TodayIsADay
    <3> QED BY <1>1, <1>2, <3>1, <3>2
  <2>2. CASE UNCHANGED rows
    BY <1>1, <1>2, <2>2
  <2> QED BY <2>1, <2>2 DEF AdvanceClock, TruncateReport, FillReport, monitor
<1>5. reports' \in [Reports -> Contents]
  BY <1>2 DEF AdvanceClock, AppendAlert, TruncateReport, FillReport, monitor, Contents
<1>6. TypeOK'
  BY <1>1, <1>3, <1>4, <1>5 DEF TypeInv, TypeOK
<1> QED BY <1>1, <1>4, <1>6 DEF TypeInv

(* The orchestrator, its stop and a crash keep the types. *)
LEMMA OrchestratorTypes ==
  ASSUME TypeInv, Start \/ Stop \/ Crash \/ Orchestrate
  PROVE  TypeInv'
<1>1. /\ UNCHANGED <<now, monitor, spool, stateFile, robot>>
  BY DEF Start, Stop, Crash, Orchestrate, BeginCycle, PullReturns, AlertsReturn,
         ReportsReturn
<1>2. UNCHANGED <<now, rows, reports, spoolRows, spoolReports, stateFile, posts,
                  failures>>
  BY <1>1 DEF monitor, spool, robot
<1>3. /\ orch \in [pc : {"down", "cycle", "pull", "alerts", "reports"},
                   window : BOOLEAN, proc : Procs]
      /\ child \in [Procs -> SoundProcess]
      /\ stops \in 0 .. MaxStops /\ faults \in 0 .. MaxFaults
      /\ MaxStops \in Nat /\ MaxFaults \in Nat
  BY RelayAssumption DEF TypeInv, TypeOK
<1>4. stops' \in 0 .. MaxStops
  <2>1. stops' = stops \/ (stops < MaxStops /\ stops' = stops + 1)
    BY DEF Start, Stop, Crash, Orchestrate, BeginCycle, PullReturns, AlertsReturn,
           ReportsReturn, faulty, Fault
  <2> QED BY <1>3, <2>1
<1>5. faults' \in 0 .. MaxFaults
  <2>1. UNCHANGED faults \/ Fault
    BY DEF Start, Stop, Crash, Orchestrate, BeginCycle, PullReturns, AlertsReturn,
           ReportsReturn, faulty
  <2> QED BY <1>3, <2>1 DEF Fault
<1>6. InReportWindow \in BOOLEAN
  BY DEF InReportWindow
<1>7. orch' \in [pc : {"down", "cycle", "pull", "alerts", "reports"},
                 window : BOOLEAN, proc : Procs]
  <2>1. CASE Start
    BY <1>3, <2>1 DEF Start
  <2>2. CASE Stop
    BY <1>3, <2>2 DEF Stop
  <2>3. CASE Crash
    BY <1>3, <2>3 DEF Crash
  <2>4. CASE BeginCycle
    BY <1>3, <1>6, <2>4 DEF BeginCycle
  <2>5. CASE PullReturns
    BY <1>3, <2>5 DEF PullReturns, Spawn
  <2>6. CASE AlertsReturn
    BY <1>3, <2>6 DEF AlertsReturn, Spawn
  <2>7. CASE ReportsReturn
    BY <1>3, <2>7 DEF ReportsReturn
  <2> QED BY <2>1, <2>2, <2>3, <2>4, <2>5, <2>6, <2>7 DEF Orchestrate
<1>8. child' \in [Procs -> SoundProcess]
  <2>1. Exited(TRUE) \in SoundProcess
    BY ExitedIsSound
  <2>2. \A b \in BOOLEAN : Pull(b) \in SoundProcess
    <3> TAKE b \in BOOLEAN
    <3>1. Exited(TRUE) \in Processes
      BY <2>1 DEF SoundProcess
    <3>2. Pull(b) \in Processes
      BY <3>1 DEF Pull, Processes, PullSteps
    <3>3. Pull(b).pc = "getRows" /\ Pull(b).dict = default_state
          /\ Pull(b).todo = {} /\ Pull(b).sent = {}
      BY DEF Pull, Exited
    <3> QED BY <3>2, <3>3, DefaultIsSound DEF SoundProcess
  <2>3. \A k \in Kinds : Relay(k) \in SoundProcess
    <3> TAKE k \in Kinds
    <3>1. Exited(TRUE) \in Processes
      BY <2>1 DEF SoundProcess
    <3>2. Relay(k) \in Processes
      BY <3>1 DEF Relay, Processes, RelaySteps
    <3>3. Relay(k).pc = "load" /\ Relay(k).dict = default_state
          /\ Relay(k).todo = {} /\ Relay(k).sent = {}
      BY DEF Relay, Exited
    <3> QED BY <3>2, <3>3, DefaultIsSound DEF SoundProcess
  <2>4. \/ child' = child
        \/ child' = [p \in Procs |-> Exited(TRUE)]
        \/ child' = [child EXCEPT ![orch.proc] = Pull(InReportWindow)]
        \/ \E k \in Kinds : child' = [child EXCEPT ![orch.proc] = Relay(k)]
    BY DEF Start, Stop, Crash, Orchestrate, BeginCycle, PullReturns, AlertsReturn,
           ReportsReturn, Spawn, Kinds
  <2>5. orch.proc \in Procs
    BY <1>3
  <2> QED BY <1>3, <1>6, <2>1, <2>2, <2>3, <2>4, <2>5
<1>9. child' \in [Procs -> Processes]
  BY <1>8 DEF SoundProcess
<1> QED BY <1>2, <1>4, <1>5, <1>7, <1>8, <1>9 DEF TypeInv, TypeOK

(* Every step keeps the types. *)
LEMMA StepTypes ==
  ASSUME TypeInv, [Next]_vars
  PROVE  TypeInv'
<1>1. CASE UNCHANGED vars
  BY <1>1 DEF vars, monitor, spool, robot, faulty, TypeInv, TypeOK
<1>2. CASE \E p \in Procs : Work(p)
  <2> PICK p \in Procs : Work(p)
    BY <1>2
  <2> QED BY PullTypes, OutsideLoopTypes, LoopTypes DEF Work
<1> QED BY <1>1, <1>2, SurroundingsTypes, OrchestratorTypes DEF Next

(* The relay's variables have their types: counters stay within their      *)
(* bounds, a report is never posted beyond its attempts, and nothing that  *)
(* is not an alert or a report is ever marked as sent.                     *)
THEOREM RelayTypes == Spec => []TypeOK
<1>1. Init => TypeInv
  BY InitTypes
<1>2. TypeInv /\ [Next]_vars => TypeInv'
  BY StepTypes
<1>3. TypeInv => TypeOK
  BY DEF TypeInv
<1> QED BY <1>1, <1>2, <1>3, PTL DEF Spec

-----------------------------------------------------------------------------
(* What counts as sent was posted *)

\* The messages of each kind that the robot has accepted.
Posted == [k \in Kinds |-> {m \in Messages(k) : posts[k][m] > 0}]

\* What a dictionary and a process call sent is among the messages done.
BackedDict(d, done) == \A k \in Kinds : d.sent[k] \subseteq done[k]
Backed(c, done) == BackedDict(c.dict, done) /\ c.sent \subseteq done[c.kind]

SentInv ==
  /\ BackedDict(stateFile, Posted)
  /\ \A p \in Procs : Backed(child[p], Posted)

(* A process that has just been started calls nothing sent. *)
LEMMA FreshIsBacked ==
  ASSUME NEW done, NEW ok \in BOOLEAN, NEW b \in BOOLEAN, NEW k \in Kinds
  PROVE  /\ BackedDict(default_state, done)
         /\ Backed(Exited(ok), done) /\ Backed(Pull(b), done)
         /\ Backed(Relay(k), done)
<1>1. BackedDict(default_state, done)
  BY DEF BackedDict, default_state
<1>2. /\ Exited(ok).dict = default_state /\ Exited(ok).sent = {}
      /\ Exited(TRUE).dict = default_state /\ Exited(TRUE).sent = {}
  BY DEF Exited
<1>3. /\ Pull(b).dict = default_state /\ Pull(b).sent = {}
      /\ Relay(k).dict = default_state /\ Relay(k).sent = {}
  BY DEF Pull, Relay, Exited
<1> QED BY <1>1, <1>2, <1>3 DEF Backed

(* A step that takes no message back and writes only what is backed keeps  *)
(* what counts as sent among the messages posted.                          *)
LEMMA BackedStep ==
  ASSUME TypeInv, SentInv, NEW p \in Procs, NEW record,
         \/ child' = [child EXCEPT ![p] = record] /\ Backed(record, Posted')
         \/ child' = child,
         \A k \in Kinds : Posted[k] \subseteq Posted'[k],
         stateFile' = stateFile \/ BackedDict(stateFile', Posted')
  PROVE  SentInv'
<1>1. BackedDict(stateFile', Posted')
  BY DEF SentInv, BackedDict
<1>2. \A q \in Procs : child[q].kind \in Kinds
  BY DEF TypeInv, TypeOK, Processes
<1>3. \A q \in Procs : Backed(child[q], Posted')
  BY <1>2 DEF SentInv, Backed, BackedDict
<1>4. \A q \in Procs : child'[q] = child[q] \/ (q = p /\ child'[q] = record)
  BY DEF TypeInv
<1>5. \A q \in Procs : Backed(child'[q], Posted')
  <2> TAKE q \in Procs
  <2>1. CASE child'[q] = child[q]
    BY <1>3, <2>1
  <2>2. CASE q = p /\ child'[q] # child[q]
    <3>1. child' # child /\ child'[q] = record
      BY <1>4, <2>2
    <3> QED BY <3>1
  <2> QED BY <1>4, <2>1, <2>2
<1> QED BY <1>1, <1>5 DEF SentInv

(* Steps in which the robot takes nothing: dictionaries are loaded, reset, *)
(* stored and saved, and nothing else enters them.                         *)
LEMMA QuietStepSent ==
  ASSUME TypeInv, SentInv, NEW p \in Procs,
         \/ LoadState(p) \/ ReadAlerts(p) \/ ReadReports(p) \/ TakeUp(p)
         \/ Return(p) \/ TruncateState(p) \/ WriteState(p)
  PROVE  SentInv'
<1> DEFINE c == child[p]
           m == NextMessage(p)
<1>1. c \in SoundProcess /\ c \in Processes /\ c.kind \in Kinds
      /\ Backed(c, Posted) /\ BackedDict(stateFile, Posted)
      /\ c.dict \in Dict
  BY DEF TypeInv, SoundProcess, SoundDict, Processes, SentInv
<1>2. Posted' = Posted
  BY DEF LoadState, ReadAlerts, ReadReports, TakeUp, Return, TruncateState, WriteState,
         robot, Posted
<1>3. ASSUME NEW record, child' = [child EXCEPT ![p] = record], Backed(record, Posted),
             stateFile' = stateFile \/ BackedDict(stateFile', Posted)
      PROVE  SentInv'
  BY <1>2, <1>3, BackedStep
<1>4. CASE LoadState(p)
  <2> DEFINE r == [c EXCEPT !.pc = "read", !.dict = stateFile]
  <2>1. Backed(r, Posted)
    BY <1>1 DEF Backed, Processes
  <2> QED BY <1>3, <1>4, <2>1 DEF LoadState, RelayStep
<1>5. CASE ReadAlerts(p)
  <2> DEFINE dates == {rows[n] : n \in 1 .. spoolRows}
             dict  == IF dates = {} THEN c.dict ELSE ResetAlerts(c.dict, Max(dates))
             news  == {<<rows[n], n>> : n \in 1 .. spoolRows} \ dict.sent["alerts"]
             todo  == {x \in news : x[1] = dict.day["alerts"]}
             r     == [c EXCEPT !.pc = "next", !.dict = dict,
                                !.sent = dict.sent["alerts"], !.todo = todo]
  <2>1. BackedDict(dict, Posted)
    BY <1>1 DEF Backed, BackedDict, ResetAlerts, Dict
  <2>2. c.kind = "alerts" /\ child' = [child EXCEPT ![p] = r] /\ stateFile' = stateFile
    BY <1>5 DEF ReadAlerts, RelayStep
  <2> HIDE DEF dict, todo
  <2>3. Backed(r, Posted)
    BY <1>1, <2>1, <2>2 DEF Backed, BackedDict, Processes
  <2> QED BY <1>3, <2>2, <2>3
<1>6. CASE ReadReports(p)
  <2> DEFINE todays == {x \in Reports : x[1] = Today /\ spoolReports[x] # "none"}
             dict   == IF todays = {} THEN c.dict ELSE ResetReports(c.dict, Today)
             todo   == (todays \ dict.sent["reports"]) \ dict.gaveUp
             r      == [c EXCEPT !.pc = "next", !.dict = dict,
                                 !.sent = dict.sent["reports"], !.gaveUp = dict.gaveUp,
                                 !.attempts = dict.attempts, !.todo = todo]
  <2>1. BackedDict(dict, Posted)
    BY <1>1 DEF Backed, BackedDict, ResetReports, Dict
  <2>2. c.kind = "reports" /\ child' = [child EXCEPT ![p] = r] /\ stateFile' = stateFile
    BY <1>6 DEF ReadReports, RelayStep
  <2> HIDE DEF dict, todo
  <2>3. Backed(r, Posted)
    BY <1>1, <2>1, <2>2 DEF Backed, BackedDict, Processes
  <2> QED BY <1>3, <2>2, <2>3
<1>7. CASE TakeUp(p)
  <2>1. PICK record \in {[c EXCEPT !.pc = "post", !.try = 1],
                         [c EXCEPT !.todo = @ \ {m}, !.gaveUp = @ \cup {m}],
                         PassOver(p, m)} :
          child' = [child EXCEPT ![p] = record]
    BY <1>7 DEF TakeUp, RelayStep
  <2>2. record.dict = c.dict /\ record.sent = c.sent /\ record.kind = c.kind
    BY <1>1, <2>1 DEF Processes, PassOver
  <2> QED BY <1>1, <1>3, <1>7, <2>1, <2>2 DEF TakeUp, Backed
<1>8. CASE Return(p)
  <2> DEFINE dict == Stored(p)
             r    == [c EXCEPT !.pc = "truncate", !.dict = dict]
  <2>1. BackedDict(dict, Posted)
    BY <1>1 DEF Stored, Backed, BackedDict, Dict, Kinds
  <2>2. child' = [child EXCEPT ![p] = r] /\ stateFile' = stateFile
    BY <1>8 DEF Return, RelayStep
  <2> HIDE DEF dict
  <2>3. Backed(r, Posted)
    BY <1>1, <2>1 DEF Backed, Processes
  <2> QED BY <1>3, <2>2, <2>3
<1>9. CASE TruncateState(p)
  <2> DEFINE r == [c EXCEPT !.pc = "write"]
  <2>1. Backed(r, Posted)
    BY <1>1 DEF Backed, Processes
  <2>2. BackedDict(default_state, Posted)
    BY FreshIsBacked, Basics
  <2>3. child' = [child EXCEPT ![p] = r] /\ stateFile' = default_state
    BY <1>9 DEF TruncateState, RelayStep
  <2> QED BY <1>3, <2>1, <2>2, <2>3
<1>10. CASE WriteState(p)
  BY <1>1, <1>3, <1>10, FreshIsBacked DEF WriteState, RelayStep, Backed
<1> QED BY <1>4, <1>5, <1>6, <1>7, <1>8, <1>9, <1>10

(* A try adds to the messages posted the one that it may call sent. *)
LEMMA PostStepSent ==
  ASSUME TypeInv, SentInv, NEW p \in Procs,
         PostOk(p) \/ PostError(p) \/ PostTimeout(p)
  PROVE  SentInv'
<1> DEFINE c == child[p]
           m == NextMessage(p)
<1>1. c \in SoundProcess /\ c \in Processes /\ Counted
      /\ Backed(c, Posted) /\ BackedDict(stateFile, Posted)
  BY DEF TypeInv, TypeOK, Counted, SoundProcess, SentInv
<1>2. c.kind \in Kinds /\ m \in Messages(c.kind)
  BY <1>1, NextIsThere DEF PostOk, PostError, PostTimeout, SoundProcess
<1>3. ASSUME NEW n \in {0, 1}, posts' = [posts EXCEPT ![c.kind][m] = @ + n]
      PROVE  /\ \A k \in Kinds : Posted[k] \subseteq Posted'[k]
             /\ n = 1 => m \in Posted'[c.kind]
  <2>1. /\ posts'[c.kind][m] = posts[c.kind][m] + n
        /\ \A j \in Kinds : \A x \in Messages(j) :
             j # c.kind \/ x # m => posts'[j][x] = posts[j][x]
    BY <1>1, <1>2, <1>3, PostsGrow
  <2>2. posts[c.kind][m] \in Nat
    BY <1>1, <1>2 DEF Counted
  <2>3. \A k \in Kinds : \A x \in Messages(k) : posts[k][x] > 0 => posts'[k][x] > 0
    <3> TAKE k \in Kinds
    <3> TAKE x \in Messages(k)
    <3>1. CASE k = c.kind /\ x = m
      BY <2>1, <2>2, <3>1
    <3>2. CASE k # c.kind \/ x # m
      BY <2>1, <3>2
    <3> QED BY <3>1, <3>2
  <2>4. n = 1 => posts'[c.kind][m] > 0
    BY <2>1, <2>2
  <2> QED BY <1>2, <2>3, <2>4 DEF Posted
<1>4. \A k \in Kinds : Posted[k] \subseteq Posted'[k]
  <2>1. CASE UNCHANGED posts
    BY <2>1 DEF Posted
  <2> QED BY <1>3, <2>1 DEF PostOk, PostError, PostTimeout
<1>5. Backed(c, Posted')
  BY <1>1, <1>2, <1>4 DEF Backed, BackedDict
<1>6. CASE PostOk(p)
  <2> DEFINE r == [c EXCEPT !.pc = "next", !.todo = @ \ {m}, !.sent = @ \cup {m},
                            !.attempts = Attempts(p, m, 0)]
  <2>1. m \in Posted'[c.kind]
    BY <1>3, <1>6 DEF PostOk
  <2>2. r.dict = c.dict /\ r.sent = c.sent \cup {m} /\ r.kind = c.kind
    BY <1>1 DEF Processes
  <2>3. Backed(r, Posted')
    BY <1>5, <2>1, <2>2 DEF Backed
  <2>4. child' = [child EXCEPT ![p] = r] /\ stateFile' = stateFile
    BY <1>6 DEF PostOk, RelayStep
  <2> QED BY <1>4, <2>3, <2>4, BackedStep
<1>7. CASE PostError(p) \/ PostTimeout(p)
  <2>1. PICK record \in {[c EXCEPT !.try = @ + 1], RoundLost(p, m),
                         [c EXCEPT !.pc = "truncate"]} :
          child' = [child EXCEPT ![p] = record] /\ stateFile' = stateFile
    BY <1>7 DEF PostError, PostTimeout, RelayStep
  <2>2. record.dict = c.dict /\ record.sent = c.sent /\ record.kind = c.kind
    BY <1>1, <2>1 DEF Processes, RoundLost
  <2>3. Backed(record, Posted')
    BY <1>5, <2>2 DEF Backed
  <2> QED BY <1>4, <2>1, <2>3, BackedStep
<1> QED BY <1>6, <1>7

(* Every step keeps what counts as sent among the messages posted. *)
LEMMA StepSent ==
  ASSUME TypeInv, SentInv, [Next]_vars
  PROVE  SentInv'
<1>1. orch.proc \in Procs
  BY DEF TypeInv, TypeOK
<1>2. ASSUME UNCHANGED posts PROVE \A k \in Kinds : Posted[k] \subseteq Posted'[k]
  BY <1>2 DEF Posted
<1>3. CASE UNCHANGED <<stateFile, child, posts>>
  BY <1>1, <1>2, <1>3, BackedStep
<1>4. CASE Start \/ Stop \/ Orchestrate
  <2>1. UNCHANGED <<stateFile, posts>>
    BY <1>4 DEF Start, Stop, Orchestrate, BeginCycle, PullReturns, AlertsReturn,
                ReportsReturn, robot
  <2>2. \/ child' = child
        \/ child' = [child EXCEPT ![orch.proc] = Pull(InReportWindow)]
        \/ \E k \in Kinds : child' = [child EXCEPT ![orch.proc] = Relay(k)]
    BY <1>4 DEF Start, Stop, Orchestrate, BeginCycle, PullReturns, AlertsReturn,
                ReportsReturn, Spawn, Kinds
  <2>3. InReportWindow \in BOOLEAN
    BY DEF InReportWindow
  <2>4. /\ Backed(Pull(InReportWindow), Posted')
        /\ \A k \in Kinds : Backed(Relay(k), Posted')
    BY <2>3, FreshIsBacked, Basics
  <2> QED BY <1>1, <1>2, <2>1, <2>2, <2>4, BackedStep
<1>5. CASE Crash
  <2>1. /\ UNCHANGED <<stateFile, posts>> /\ Posted' = Posted
        /\ \A p \in Procs : child'[p] = Exited(TRUE)
    BY <1>5 DEF Crash, robot, Posted
  <2>2. Backed(Exited(TRUE), Posted)
    BY FreshIsBacked, Basics
  <2> QED BY <2>1, <2>2 DEF SentInv
<1>6. ASSUME NEW p \in Procs,
             \/ GetRowsOpens(p) \/ GetRowsRefused(p) \/ GetRowsEnds(p)
             \/ GetRowsCut(p) \/ GetReportsOpens(p) \/ GetReportsEnds(p)
             \/ PullFails(p)
      PROVE  SentInv'
  <2> DEFINE c == child[p]
  <2>1. UNCHANGED <<stateFile, posts>>
    BY <1>6 DEF GetRowsOpens, GetRowsRefused, GetRowsEnds, GetRowsCut,
         GetReportsOpens, GetReportsEnds, PullFails, PullStep, robot
  <2>2. PICK record \in {Exited(TRUE), Exited(FALSE), [c EXCEPT !.pc = "gettingRows"],
                         [c EXCEPT !.pc = "getReports"],
                         [c EXCEPT !.pc = "gettingReports"]} :
          child' = [child EXCEPT ![p] = record]
    BY <1>6 DEF GetRowsOpens, GetRowsRefused, GetRowsEnds, GetRowsCut,
         GetReportsOpens, GetReportsEnds, PullFails, PullStep, AfterRows
  <2>3. Backed(c, Posted) /\ c \in Processes
    BY DEF SentInv, TypeInv, SoundProcess
  <2>4. Backed(Exited(TRUE), Posted) /\ Backed(Exited(FALSE), Posted)
    BY FreshIsBacked, Basics
  <2>5. Backed(record, Posted)
    BY <2>2, <2>3, <2>4 DEF Backed, Processes
  <2>6. Posted' = Posted
    BY <2>1 DEF Posted
  <2> QED BY <2>1, <2>2, <2>5, <2>6, BackedStep
<1>7. ASSUME NEW p \in Procs, Work(p) PROVE SentInv'
  BY <1>6, <1>7, QuietStepSent, PostStepSent DEF Work
<1>8. CASE \/ AdvanceClock \/ AppendAlert \/ UNCHANGED vars
           \/ \E m \in Moments : TruncateReport(m)
           \/ \E r \in Reports : FillReport(r)
  BY <1>3, <1>8 DEF AdvanceClock, AppendAlert, TruncateReport, FillReport, robot, vars
<1> QED BY <1>4, <1>5, <1>7, <1>8 DEF Next

(* A message that the state file or a relay calls sent was accepted by the *)
(* robot: no crash, timeout, stopped orchestrator or relay beside another  *)
(* makes an alert or a report pass for delivered that was not.             *)
THEOREM SentIsPosted == Spec => []SentWasPosted
<1>1. Init => TypeInv /\ SentInv
  <2>1. ASSUME Init PROVE SentInv
    <3>1. /\ stateFile = default_state
          /\ \A p \in Procs : child[p] = Exited(TRUE)
      BY <2>1 DEF Init
    <3> QED BY <3>1, FreshIsBacked, Basics DEF SentInv
  <2> QED BY <2>1, InitTypes
<1>2. TypeInv /\ SentInv /\ [Next]_vars => (TypeInv /\ SentInv)'
  BY StepTypes, StepSent
<1>3. SentInv => SentWasPosted
  BY DEF SentInv, Backed, BackedDict, Posted, SentWasPosted
<1> QED BY <1>1, <1>2, <1>3, PTL DEF Spec

-----------------------------------------------------------------------------
(* What a round knows of the messages it has left *)

\* The messages that a round has left are of the day of the dictionary, and
\* neither sent nor given up.
Ready(c) ==
  c.pc \in {"next", "post"} =>
    \A m \in c.todo :
      /\ m[1] = c.dict.day[c.kind]
      /\ m \notin c.sent
      /\ c.kind = "reports" => m \notin c.gaveUp

WorkInv == \A p \in Procs : Ready(child[p])

\* The orchestrator is not between two cycles while its child runs.
OrchInv == orch.pc = "cycle" => child[orch.proc].pc = "exited"

(* A step of process p alone keeps both when its own record is ready. *)
LEMMA WorkStep ==
  ASSUME TypeInv, WorkInv, OrchInv, NEW p \in Procs, NEW record,
         child' = [child EXCEPT ![p] = record], Ready(record),
         orch' = orch, child[p].pc # "exited"
  PROVE  WorkInv' /\ OrchInv'
<1>1. \A q \in Procs : child'[q] = IF q = p THEN record ELSE child[q]
  BY DEF TypeInv
<1>2. WorkInv'
  BY <1>1 DEF WorkInv
<1>3. orch.proc \in Procs
  BY DEF TypeInv, TypeOK
<1>4. OrchInv'
  BY <1>1, <1>3 DEF OrchInv
<1> QED BY <1>2, <1>4

(* Every step keeps what a round knows of its messages. *)
LEMMA StepWork ==
  ASSUME TypeInv, WorkInv, OrchInv, [Next]_vars
  PROVE  WorkInv' /\ OrchInv'
<1>1. orch.proc \in Procs /\ \A p \in Procs : child[p] \in Processes
                             /\ child[p] \in SoundProcess
  BY DEF TypeInv, TypeOK
<1>2. /\ Exited(TRUE).pc = "exited" /\ Exited(FALSE).pc = "exited"
      /\ \A b : Pull(b).pc = "getRows"
      /\ \A k : Relay(k).pc = "load"
  BY DEF Exited, Pull, Relay
<1>3. /\ Ready(Exited(TRUE)) /\ Ready(Exited(FALSE))
      /\ \A b : Ready(Pull(b))
      /\ \A k : Ready(Relay(k))
  BY <1>2 DEF Ready
<1>4. CASE UNCHANGED <<orch, child>>
  BY <1>4 DEF WorkInv, OrchInv
<1>5. CASE Start
  <2>1. PICK p \in Procs : child[p].pc = "exited" /\ orch' = [orch EXCEPT !.pc = "cycle", !.proc = p]
    BY <1>5 DEF Start
  <2>2. child' = child /\ orch'.proc = p
    BY <1>5, <2>1 DEF Start, TypeInv, TypeOK
  <2> QED BY <2>1, <2>2 DEF WorkInv, OrchInv
<1>6. CASE Stop
  BY <1>6 DEF Stop, WorkInv, OrchInv, TypeInv, TypeOK
<1>7. CASE Crash
  BY <1>2, <1>3, <1>7 DEF Crash, WorkInv, OrchInv, TypeInv, TypeOK
<1>8. CASE Orchestrate
  <2>1. /\ orch'.pc # "cycle" \/ (child' = child /\ child[orch.proc].pc = "exited")
        /\ orch'.proc = orch.proc
    BY <1>8 DEF Orchestrate, BeginCycle, PullReturns, AlertsReturn, ReportsReturn,
                Spawn, TypeInv, TypeOK
  <2>2. \/ child' = child
        \/ child' = [child EXCEPT ![orch.proc] = Pull(InReportWindow)]
        \/ \E k \in Kinds : child' = [child EXCEPT ![orch.proc] = Relay(k)]
    BY <1>8 DEF Orchestrate, BeginCycle, PullReturns, AlertsReturn,
                ReportsReturn, Spawn, Kinds
  <2>3. \A q \in Procs : child'[q] = child[q] \/ Ready(child'[q])
    BY <1>1, <1>3, <2>2 DEF TypeInv
  <2>4. WorkInv'
    BY <2>3 DEF WorkInv
  <2> QED BY <2>1, <2>4 DEF OrchInv
<1>9. ASSUME NEW p \in Procs, Work(p) PROVE WorkInv' /\ OrchInv'
  <2> DEFINE c == child[p]
             m == NextMessage(p)
  <2>1. c \in Processes /\ c \in SoundProcess /\ Ready(c)
    BY <1>1 DEF WorkInv
  <2>2. orch' = orch /\ c.pc # "exited"
    BY <1>9 DEF Work, GetRowsOpens, GetRowsRefused, GetRowsEnds, GetRowsCut,
         GetReportsOpens, GetReportsEnds, PullFails, PullStep, LoadState, ReadAlerts,
         ReadReports, TakeUp, Return, PostOk, PostError, PostTimeout, TruncateState,
         WriteState, RelayStep
  <2>3. ASSUME NEW record, child' = [child EXCEPT ![p] = record], Ready(record)
        PROVE  WorkInv' /\ OrchInv'
    BY <2>2, <2>3, WorkStep
  <2>4. ASSUME \/ GetRowsOpens(p) \/ GetRowsRefused(p) \/ GetRowsEnds(p)
               \/ GetRowsCut(p) \/ GetReportsOpens(p) \/ GetReportsEnds(p)
               \/ PullFails(p)
        PROVE  WorkInv' /\ OrchInv'
    <3>1. PICK record \in {Exited(TRUE), Exited(FALSE), [c EXCEPT !.pc = "gettingRows"],
                           [c EXCEPT !.pc = "getReports"],
                           [c EXCEPT !.pc = "gettingReports"]} :
            child' = [child EXCEPT ![p] = record]
      BY <2>4 DEF GetRowsOpens, GetRowsRefused, GetRowsEnds, GetRowsCut,
           GetReportsOpens, GetReportsEnds, PullFails, PullStep, AfterRows
    <3>2. Ready(record)
      BY <1>3, <2>1, <3>1 DEF Ready, Processes
    <3> QED BY <2>3, <3>1, <3>2
  <2>5. ASSUME LoadState(p) \/ Return(p) \/ PostTimeout(p) \/ TruncateState(p)
        PROVE  WorkInv' /\ OrchInv'
    <3>1. PICK record \in {[c EXCEPT !.pc = "read", !.dict = stateFile],
                           [c EXCEPT !.pc = "truncate", !.dict = Stored(p)],
                           [c EXCEPT !.pc = "truncate"], [c EXCEPT !.pc = "write"]} :
            child' = [child EXCEPT ![p] = record]
      BY <2>5 DEF LoadState, Return, PostTimeout, TruncateState, RelayStep
    <3>2. record.pc \notin {"next", "post"}
      BY <2>1, <3>1 DEF Processes
    <3>3. Ready(record)
      BY <3>2 DEF Ready
    <3> QED BY <2>3, <3>1, <3>3
  <2>6. ASSUME WriteState(p) PROVE WorkInv' /\ OrchInv'
    BY <1>3, <2>3, <2>6 DEF WriteState, RelayStep
  <2>7. ASSUME ReadAlerts(p) PROVE WorkInv' /\ OrchInv'
    <3> DEFINE dates == {rows[n] : n \in 1 .. spoolRows}
               dict  == IF dates = {} THEN c.dict ELSE ResetAlerts(c.dict, Max(dates))
               news  == {<<rows[n], n>> : n \in 1 .. spoolRows} \ dict.sent["alerts"]
               todo  == {x \in news : x[1] = dict.day["alerts"]}
               r     == [c EXCEPT !.pc = "next", !.dict = dict,
                                  !.sent = dict.sent["alerts"], !.todo = todo]
    <3>1. c.kind = "alerts" /\ child' = [child EXCEPT ![p] = r]
      BY <2>7 DEF ReadAlerts, RelayStep
    <3>2. \A x \in todo : x[1] = dict.day["alerts"] /\ x \notin dict.sent["alerts"]
      OBVIOUS
    <3> HIDE DEF dict, todo
    <3>3. Ready(r)
      BY <2>1, <3>1, <3>2 DEF Ready, Processes
    <3> QED BY <2>3, <3>1, <3>3
  <2>8. ASSUME ReadReports(p) PROVE WorkInv' /\ OrchInv'
    <3> DEFINE todays == {x \in Reports : x[1] = Today /\ spoolReports[x] # "none"}
               dict   == IF todays = {} THEN c.dict ELSE ResetReports(c.dict, Today)
               todo   == (todays \ dict.sent["reports"]) \ dict.gaveUp
               r      == [c EXCEPT !.pc = "next", !.dict = dict,
                                   !.sent = dict.sent["reports"], !.gaveUp = dict.gaveUp,
                                   !.attempts = dict.attempts, !.todo = todo]
    <3>1. c.kind = "reports" /\ child' = [child EXCEPT ![p] = r]
      BY <2>8 DEF ReadReports, RelayStep
    <3>2. todays # {} => dict.day["reports"] = Today
      BY <2>1 DEF ResetReports, Processes, Dict, Kinds
    <3>3. \A x \in todo : /\ x[1] = dict.day["reports"]
                          /\ x \notin dict.sent["reports"] /\ x \notin dict.gaveUp
      BY <3>2
    <3> HIDE DEF dict, todo
    <3>4. Ready(r)
      BY <2>1, <3>1, <3>3 DEF Ready, Processes
    <3> QED BY <2>3, <3>1, <3>4
  <2>9. ASSUME TakeUp(p) PROVE WorkInv' /\ OrchInv'
    <3>1. PICK record \in {[c EXCEPT !.pc = "post", !.try = 1],
                           [c EXCEPT !.todo = @ \ {m}, !.gaveUp = @ \cup {m}],
                           PassOver(p, m)} :
            child' = [child EXCEPT ![p] = record]
      BY <2>9 DEF TakeUp, RelayStep
    <3>2. /\ record.dict = c.dict /\ record.sent = c.sent /\ record.kind = c.kind
          /\ record.todo \subseteq c.todo /\ c.pc = "next"
          /\ record.todo \cap record.gaveUp \subseteq c.gaveUp
      BY <2>1, <2>9, <3>1 DEF Processes, PassOver, TakeUp
    <3>3. Ready(record)
      BY <2>1, <3>2 DEF Ready
    <3> QED BY <2>3, <3>1, <3>3
  <2>10. ASSUME PostOk(p) \/ PostError(p)
         PROVE  WorkInv' /\ OrchInv'
    <3>1. PICK record \in {[c EXCEPT !.pc = "next", !.todo = @ \ {m}, !.sent = @ \cup {m},
                                     !.attempts = Attempts(p, m, 0)],
                           [c EXCEPT !.try = @ + 1], RoundLost(p, m)} :
            child' = [child EXCEPT ![p] = record]
      BY <2>10 DEF PostOk, PostError, RelayStep
    <3>2. /\ record.dict = c.dict /\ record.gaveUp = c.gaveUp /\ record.kind = c.kind
          /\ \/ record.todo = c.todo \ {m} /\ record.sent = c.sent \cup {m}
             \/ record.todo = c.todo /\ record.sent = c.sent
             \/ record.todo = c.todo \ {m} /\ record.sent = c.sent
      BY <2>1, <3>1 DEF Processes, RoundLost
    <3>3. c.pc = "post"
      BY <2>10 DEF PostOk, PostError
    <3>4. Ready(record)
      BY <2>1, <3>2, <3>3 DEF Ready
    <3> QED BY <2>3, <3>1, <3>4
  <2> QED BY <1>9, <2>4, <2>5, <2>6, <2>7, <2>8, <2>9, <2>10 DEF Work
<1>10. CASE \/ AdvanceClock \/ AppendAlert \/ UNCHANGED vars
            \/ \E m \in Moments : TruncateReport(m)
            \/ \E r \in Reports : FillReport(r)
  BY <1>4, <1>10 DEF AdvanceClock, AppendAlert, TruncateReport, FillReport, vars
<1> QED BY <1>5, <1>6, <1>7, <1>8, <1>9, <1>10 DEF Next

-----------------------------------------------------------------------------
(* The days of the rows and of the dictionaries *)

\* The monitor appends its alerts in the order of their days.
SortedRows ==
  /\ \A i \in 1 .. Len(rows) : rows[i] <= Today
  /\ \A i, j \in 1 .. Len(rows) : i <= j => rows[i] <= rows[j]

LastDay == IF Len(rows) = 0 THEN -1 ELSE rows[Len(rows)]

\* No dictionary is of a day later than the last row or than today.
Dated(d, last, today) ==
  /\ d.day["alerts"] # NoDay => d.day["alerts"] <= last
  /\ d.day["reports"] # NoDay => d.day["reports"] <= today

DaysInv ==
  /\ SortedRows
  /\ Dated(stateFile, LastDay, Today)
  /\ \A p \in Procs : Dated(child[p].dict, LastDay, Today)

(* The latest day of the rows in the spool is that of the last one. *)
LEMMA LatestRow ==
  ASSUME TypeInv, SortedRows, spoolRows > 0
  PROVE  /\ {rows[n] : n \in 1 .. spoolRows} # {}
         /\ Max({rows[n] : n \in 1 .. spoolRows}) = rows[spoolRows]
         /\ rows[spoolRows] \in Days /\ rows[spoolRows] <= LastDay
<1> DEFINE dates == {rows[n] : n \in 1 .. spoolRows}
<1>1. spoolRows \in Nat /\ Len(rows) \in Nat /\ spoolRows <= Len(rows)
      /\ \A n \in 1 .. Len(rows) : rows[n] \in Days
  BY DEF TypeInv, TypeOK
<1>2. spoolRows \in 1 .. spoolRows /\ spoolRows \in 1 .. Len(rows)
      /\ Len(rows) \in 1 .. Len(rows)
  BY <1>1
<1>3. dates \in SUBSET Days /\ rows[spoolRows] \in dates
  BY <1>1, <1>2
<1>4. Max(dates) \in dates /\ \A d \in dates : d <= Max(dates)
  BY <1>3, LatestDay
<1>5. PICK n \in 1 .. spoolRows : Max(dates) = rows[n]
  BY <1>4
<1>6. rows[n] <= rows[spoolRows] /\ rows[spoolRows] <= rows[Len(rows)]
  BY <1>1, <1>2 DEF SortedRows
<1>7. rows[spoolRows] <= rows[n]
  BY <1>3, <1>4, <1>5
<1>8. rows[n] \in Nat /\ rows[spoolRows] \in Nat
  <2>1. n \in 1 .. Len(rows)
    BY <1>1
  <2> QED BY <1>1, <1>2, <2>1, Basics
<1>9. Max(dates) = rows[spoolRows]
  BY <1>5, <1>6, <1>7, <1>8
<1> QED BY <1>1, <1>2, <1>3, <1>6, <1>9 DEF LastDay

(* The rows stay sorted, and neither their last day nor today goes back. *)
LEMMA DaysAdvance ==
  ASSUME TypeInv, SortedRows, [Next]_vars
  PROVE  SortedRows' /\ LastDay <= LastDay' /\ Today <= Today'
         /\ LastDay \in Int /\ LastDay' \in Int /\ Today \in Nat /\ Today' \in Nat
<1>1. rows \in Seq(Days) /\ Len(rows) \in Nat
      /\ now \in Nat /\ DayLength \in Nat \ {0}
      /\ \A n \in 1 .. Len(rows) : rows[n] \in Days
  BY RelayAssumption DEF TypeInv, TypeOK
<1>2. Today \in Days /\ Today \in Nat
  BY TodayIsADay, Basics
<1>3. LastDay \in Int
  <2>1. CASE Len(rows) = 0
    BY <2>1 DEF LastDay
  <2>2. CASE Len(rows) # 0
    <3>1. Len(rows) \in 1 .. Len(rows)
      BY <1>1, <2>2
    <3>2. rows[Len(rows)] \in Nat
      BY <1>1, <3>1, Basics
    <3> QED BY <2>2, <3>2 DEF LastDay
  <2> QED BY <2>1, <2>2
<1>4. CASE AdvanceClock
  <2>1. now' = now + 1 /\ rows' = rows
    BY <1>4 DEF AdvanceClock, monitor
  <2>2. Today <= Today' /\ Today' \in Nat
    <3>1. TypeInv'
      BY <1>4, SurroundingsTypes
    <3>2. Today' \in Days
      BY <3>1, MomentHasADay DEF Today, TypeInv, TypeOK
    <3>3. now + 1 \in Nat /\ now <= now + 1
      BY <1>1
    <3>4. now \div DayLength <= (now + 1) \div DayLength
      BY <1>1, <3>3, DivMonotone
    <3> QED BY <2>1, <3>2, <3>4, Basics DEF Today
  <2>3. \A i \in 1 .. Len(rows) : rows[i] \in Nat
    BY <1>1, Basics
  <2>4. SortedRows'
    BY <1>2, <2>1, <2>2, <2>3 DEF SortedRows
  <2> QED BY <1>2, <1>3, <2>1, <2>2, <2>4 DEF LastDay
<1>5. CASE AppendAlert
  <2>1. rows' = Append(rows, Today) /\ Today' = Today
    BY <1>5 DEF AppendAlert, Today
  <2>2. /\ Len(rows') = Len(rows) + 1
        /\ rows'[Len(rows) + 1] = Today
        /\ \A i \in 1 .. Len(rows) : rows'[i] = rows[i]
    BY <1>1, <1>2, <2>1
  <2>3. \A i \in 1 .. Len(rows) : rows[i] <= Today /\ rows[i] \in Nat
    BY <1>1, Basics DEF SortedRows
  <2>4. \A i \in 1 .. Len(rows') : i \in 1 .. Len(rows) \/ i = Len(rows) + 1
    BY <1>1, <2>2
  <2>5. \A i \in 1 .. Len(rows') : rows'[i] <= Today
    BY <1>2, <2>2, <2>3, <2>4
  <2>6. \A i, j \in 1 .. Len(rows') : i <= j => rows'[i] <= rows'[j]
    <3> TAKE i, j \in 1 .. Len(rows')
    <3>1. CASE i \in 1 .. Len(rows) /\ j \in 1 .. Len(rows)
      BY <2>2, <3>1 DEF SortedRows
    <3>2. CASE j = Len(rows) + 1
      BY <2>2, <2>5, <3>2
    <3>3. CASE i = Len(rows) + 1 /\ j \in 1 .. Len(rows)
      BY <1>1, <3>3
    <3> QED BY <2>4, <3>1, <3>2, <3>3
  <2>7. SortedRows'
    BY <2>1, <2>5, <2>6 DEF SortedRows
  <2>8. LastDay' = Today
    BY <1>1, <2>2 DEF LastDay
  <2>9. LastDay <= Today
    <3>1. CASE Len(rows) = 0
      BY <1>2, <3>1 DEF LastDay
    <3>2. CASE Len(rows) # 0
      <4>1. Len(rows) \in 1 .. Len(rows)
        BY <1>1, <3>2
      <4> QED BY <2>3, <3>2, <4>1 DEF LastDay
    <3> QED BY <3>1, <3>2
  <2> QED BY <1>2, <1>3, <2>1, <2>7, <2>8, <2>9
<1>6. CASE UNCHANGED <<now, rows>>
  <2>1. SortedRows' /\ LastDay' = LastDay /\ Today' = Today
    BY <1>6 DEF SortedRows, LastDay, Today
  <2> QED BY <1>2, <1>3, <2>1
<1>7. \/ AdvanceClock \/ AppendAlert \/ UNCHANGED <<now, rows>>
  BY DEF Next, vars, monitor, TruncateReport, FillReport, Start, Stop, Crash,
         Orchestrate, BeginCycle, PullReturns, AlertsReturn, ReportsReturn, Work,
         GetRowsOpens, GetRowsRefused, GetRowsEnds, GetRowsCut, GetReportsOpens,
         GetReportsEnds, PullFails, PullStep, LoadState, ReadAlerts, ReadReports,
         TakeUp, Return, PostOk, PostError, PostTimeout, TruncateState, WriteState,
         RelayStep
<1> QED BY <1>4, <1>5, <1>6, <1>7

(* A relay that reads takes over the day of the latest row, or today.      *)
LEMMA ReadDays ==
  ASSUME TypeInv, DaysInv, NEW p \in Procs, ReadAlerts(p) \/ ReadReports(p)
  PROVE  Dated(child'[p].dict, LastDay, Today)
<1> DEFINE c == child[p]
<1>1. c \in Processes /\ c.dict \in Dict /\ Dated(c.dict, LastDay, Today)
      /\ spoolRows \in Nat
  BY DEF DaysInv, TypeInv, TypeOK, Processes
<1>2. CASE ReadAlerts(p)
  <2> DEFINE dates == {rows[n] : n \in 1 .. spoolRows}
             dict  == IF dates = {} THEN c.dict ELSE ResetAlerts(c.dict, Max(dates))
  <2>1. child'[p].dict = dict
    BY <1>1, <1>2 DEF ReadAlerts, RelayStep, Processes, TypeInv
  <2>2. CASE spoolRows > 0
    <3>1. dates # {} /\ Max(dates) <= LastDay
      BY <2>2, LatestRow DEF DaysInv
    <3> HIDE DEF dates
    <3> QED BY <1>1, <2>1, <3>1 DEF ResetAlerts, Dated, Dict, Kinds
  <2>3. CASE spoolRows = 0
    <3>1. dates = {}
      BY <2>3
    <3> QED BY <1>1, <2>1, <3>1
  <2> QED BY <1>1, <2>2, <2>3
<1>3. CASE ReadReports(p)
  <2> DEFINE todays == {x \in Reports : x[1] = Today /\ spoolReports[x] # "none"}
             dict   == IF todays = {} THEN c.dict ELSE ResetReports(c.dict, Today)
  <2>1. child'[p].dict = dict
    BY <1>1, <1>3 DEF ReadReports, RelayStep, Processes, TypeInv
  <2>2. Today \in Nat
    BY TodayIsADay, Basics
  <2> QED BY <1>1, <2>1, <2>2 DEF ResetReports, Dated, Dict, Kinds
<1> QED BY <1>2, <1>3

(* No step dates a dictionary beyond the last row or beyond today. *)
LEMMA StepDays ==
  ASSUME TypeInv, DaysInv, [Next]_vars
  PROVE  DaysInv'
<1>1. /\ SortedRows' /\ LastDay <= LastDay' /\ Today <= Today'
      /\ LastDay \in Int /\ LastDay' \in Int /\ Today \in Nat /\ Today' \in Nat
  BY DaysAdvance DEF DaysInv
<1>2. /\ stateFile' \in SoundDict /\ child' \in [Procs -> SoundProcess]
  BY StepTypes DEF TypeInv
<1>3. /\ orch.proc \in Procs
      /\ \A p \in Procs : child[p] \in Processes /\ Dated(child[p].dict, LastDay, Today)
      /\ Dated(stateFile, LastDay, Today)
  BY DEF DaysInv, TypeInv, TypeOK
<1>4. ASSUME Dated(stateFile', LastDay, Today),
             \A p \in Procs : child'[p].dict = child[p].dict
                              \/ Dated(child'[p].dict, LastDay, Today)
      PROVE  DaysInv'
  <2>1. \A d \in SoundDict : /\ d.day["alerts"] \in Days \cup {NoDay}
                             /\ d.day["reports"] \in Days \cup {NoDay}
    BY DEF SoundDict, Dict, Kinds
  <2>2. \A d \in SoundDict : d.day["alerts"] \in Nat /\ d.day["reports"] \in Nat
    BY <2>1, Basics
  <2>3. \A d \in SoundDict : Dated(d, LastDay, Today) => Dated(d, LastDay', Today')
    BY <1>1, <2>2 DEF Dated
  <2>4. \A p \in Procs : child'[p].dict \in SoundDict
    BY <1>2 DEF SoundProcess
  <2>5. \A p \in Procs : Dated(child'[p].dict, LastDay, Today)
    BY <1>3, <1>4
  <2> QED BY <1>1, <1>2, <1>4, <2>3, <2>4, <2>5 DEF DaysInv
<1>5. /\ Dated(default_state, LastDay, Today)
      /\ Exited(TRUE).dict = default_state /\ Exited(FALSE).dict = default_state
      /\ \A b : Pull(b).dict = default_state
      /\ \A k : Relay(k).dict = default_state
  BY DEF Exited, Pull, Relay, default_state, Dated, Kinds
<1>6. CASE UNCHANGED <<stateFile, child>>
  BY <1>3, <1>4, <1>6
<1>7. CASE Start \/ Stop \/ Crash \/ Orchestrate
  <2>1. stateFile' = stateFile
    BY <1>7 DEF Start, Stop, Crash, Orchestrate, BeginCycle, PullReturns, AlertsReturn,
                ReportsReturn
  <2>2. \/ child' = child
        \/ child' = [p \in Procs |-> Exited(TRUE)]
        \/ child' = [child EXCEPT ![orch.proc] = Pull(InReportWindow)]
        \/ \E k \in Kinds : child' = [child EXCEPT ![orch.proc] = Relay(k)]
    BY <1>7 DEF Start, Stop, Crash, Orchestrate, BeginCycle, PullReturns, AlertsReturn,
                ReportsReturn, Spawn, Kinds
  <2>3. \A p \in Procs : child'[p] = child[p] \/ child'[p].dict = default_state
    BY <1>3, <1>5, <2>2 DEF TypeInv
  <2> QED BY <1>3, <1>4, <1>5, <2>1, <2>3
<1>8. ASSUME NEW p \in Procs, Work(p) PROVE DaysInv'
  <2> DEFINE c == child[p]
             m == NextMessage(p)
  <2>1. \A q \in Procs : q # p => child'[q] = child[q]
    BY <1>8 DEF TypeInv, Work, GetRowsOpens, GetRowsRefused, GetRowsEnds, GetRowsCut,
         GetReportsOpens, GetReportsEnds, PullFails, PullStep, LoadState, ReadAlerts,
         ReadReports, TakeUp, Return, PostOk, PostError, PostTimeout, TruncateState,
         WriteState, RelayStep
  <2>2. \/ stateFile' = stateFile
        \/ stateFile' = default_state
        \/ stateFile' = c.dict
    BY <1>8 DEF Work, GetRowsOpens, GetRowsRefused, GetRowsEnds, GetRowsCut,
         GetReportsOpens, GetReportsEnds, PullFails, PullStep, LoadState, ReadAlerts,
         ReadReports, TakeUp, Return, PostOk, PostError, PostTimeout, TruncateState,
         WriteState
  <2>3. Dated(stateFile', LastDay, Today)
    BY <1>3, <1>5, <2>2
  <2>4. ASSUME child'[p].dict = c.dict \/ Dated(child'[p].dict, LastDay, Today)
        PROVE  DaysInv'
    BY <1>4, <2>1, <2>3, <2>4
  <2>5. CASE ReadAlerts(p) \/ ReadReports(p)
    BY <2>4, <2>5, ReadDays
  <2>6. CASE Return(p)
    <3>1. child'[p].dict = Stored(p)
      BY <1>3, <2>6 DEF Return, RelayStep, TypeInv, Processes
    <3>2. Stored(p).day = c.dict.day
      BY <1>3 DEF Stored, Processes, Dict
    <3> QED BY <1>3, <2>4, <3>1, <3>2 DEF Dated
  <2>7. CASE LoadState(p)
    <3>1. child'[p].dict = stateFile
      BY <1>3, <2>7 DEF LoadState, RelayStep, TypeInv, Processes
    <3> QED BY <1>3, <2>4, <3>1
  <2>8. CASE \/ TakeUp(p) \/ PostOk(p) \/ PostError(p) \/ PostTimeout(p)
             \/ TruncateState(p) \/ WriteState(p)
    <3>1. PICK record \in {[c EXCEPT !.pc = "post", !.try = 1],
                           [c EXCEPT !.todo = @ \ {m}, !.gaveUp = @ \cup {m}],
                           PassOver(p, m),
                           [c EXCEPT !.pc = "next", !.todo = @ \ {m}, !.sent = @ \cup {m},
                                     !.attempts = Attempts(p, m, 0)],
                           [c EXCEPT !.try = @ + 1], RoundLost(p, m),
                           [c EXCEPT !.pc = "truncate"], [c EXCEPT !.pc = "write"],
                           Exited(TRUE)} :
            child' = [child EXCEPT ![p] = record]
      BY <2>8 DEF TakeUp, PostOk, PostError, PostTimeout, TruncateState, WriteState,
                  RelayStep
    <3>2. record.dict = c.dict \/ record.dict = default_state
      BY <1>3, <1>5, <3>1 DEF Processes, PassOver, RoundLost
    <3>3. child'[p] = record
      BY <3>1 DEF TypeInv
    <3> QED BY <1>5, <2>4, <3>2, <3>3
  <2>9. CASE \/ GetRowsOpens(p) \/ GetRowsRefused(p) \/ GetRowsEnds(p)
             \/ GetRowsCut(p) \/ GetReportsOpens(p) \/ GetReportsEnds(p)
             \/ PullFails(p)
    <3>1. PICK record \in {Exited(TRUE), Exited(FALSE), [c EXCEPT !.pc = "gettingRows"],
                           [c EXCEPT !.pc = "getReports"],
                           [c EXCEPT !.pc = "gettingReports"]} :
            child' = [child EXCEPT ![p] = record]
      BY <2>9 DEF GetRowsOpens, GetRowsRefused, GetRowsEnds, GetRowsCut,
           GetReportsOpens, GetReportsEnds, PullFails, PullStep, AfterRows
    <3>2. record.dict = c.dict \/ record.dict = default_state
      BY <1>3, <1>5, <3>1 DEF Processes
    <3>3. child'[p] = record
      BY <3>1 DEF TypeInv
    <3> QED BY <1>5, <2>4, <3>2, <3>3
  <2> QED BY <1>8, <2>5, <2>6, <2>7, <2>8, <2>9 DEF Work
<1>9. CASE \/ AdvanceClock \/ AppendAlert \/ UNCHANGED vars
           \/ \E m \in Moments : TruncateReport(m)
           \/ \E r \in Reports : FillReport(r)
  BY <1>6, <1>9 DEF AdvanceClock, AppendAlert, TruncateReport, FillReport, vars
<1> QED BY <1>7, <1>8, <1>9 DEF Next

-----------------------------------------------------------------------------
(* What has still to be accounted for *)

\* Three numbers are counted: how often an alert is posted, how often a report
\* is, and in how many rounds the post of a report fails.
Counts == {"alerts", "reports", "rounds"}
Kind(c) == IF c = "alerts" THEN "alerts" ELSE "reports"
Count(c, m) == IF c = "rounds" THEN failures[m] ELSE posts[c][m]

\* How much a message costs whose history has been forgotten.
Weight(c) == IF c = "rounds" THEN MaxAttempts ELSE 1
Units(c) == 1 .. Weight(c)

\* What a dictionary knows of the messages of a kind.
Holds(d, k) ==
  [day |-> d.day[k], sent |-> d.sent[k],
   gaveUp |-> IF k = "alerts" THEN {} ELSE d.gaveUp,
   attempts |-> IF k = "alerts" THEN NoAttempts ELSE d.attempts]

Works(r, k) == r.pc \in {"next", "post"} /\ r.kind = k

\* What a relay knows: while it works on the kind, its sets and not the
\* dictionary.
View(r, k) ==
  IF Works(r, k)
  THEN [day |-> r.dict.day[k], sent |-> r.sent,
        gaveUp |-> IF k = "alerts" THEN {} ELSE r.gaveUp,
        attempts |-> IF k = "alerts" THEN NoAttempts ELSE r.attempts]
  ELSE Holds(r.dict, k)

\* The knowledge v is of a day after that of message m.
Past(v, m) == v.day # NoDay /\ v.day > m[1]

\* What message m may still cost for all that v knows on its day.
Open(c, v, m) ==
  IF v.day # m[1] THEN Units(c)
  ELSE IF m \in v.sent THEN {}
  ELSE IF c # "rounds" THEN Units(c)
  ELSE IF m \in v.gaveUp THEN {}
  ELSE 1 .. (MaxAttempts - v.attempts[m])

\* A relay that reads the day finds it before that of v and not after that of
\* message m: it forgets what v knows and may take m up.
Behind(v, m, day) == v.day # NoDay /\ day < v.day /\ day <= m[1]

\* What message m may still cost when v is what a relay loads that reads day.
Left(c, v, m, day) ==
  IF Behind(v, m, day) THEN Units(c)
  ELSE IF Past(v, m) THEN {}
  ELSE Open(c, v, m)

\* The step of the orchestrator's child.
Supervised == {"pull", "alerts", "reports"}
Stage == IF orch.pc \in Supervised THEN child[orch.proc].pc ELSE "exited"

\* The day that a relay would read: rows that the orchestrator's pull is
\* fetching will all be there when its relay reads them.
DayRead(k) ==
  IF k = "reports" THEN Today
  ELSE IF spoolRows = 0 \/ Stage = "gettingRows" THEN NoDay
  ELSE rows[spoolRows]

Holding == {"read", "next", "post", "truncate", "write"}

\* What message m may still cost the orchestrator's next rounds: by what the
\* state file knows (file), or by what the child at step s knows (v) that will
\* write the file.
OfficialOf(c, m, s, works, v, file, day) ==
  IF s \notin Holding THEN Left(c, file, m, day)
  ELSE IF s = "write" THEN Left(c, v, m, day)
  ELSE IF s = "read" \/ Past(v, m) THEN Left(c, v, m, day) \cup Left(c, file, m, day)
  ELSE IF works THEN Open(c, v, m)
  ELSE Left(c, v, m, day)

\* A relay at work posts m, and the next one may forget it over a spool that
\* has fallen behind.
DetourOf(c, m, s, works, v, day) ==
  IF s \in {"next", "post"} /\ works /\ ~Past(v, m) /\ Behind(v, m, day)
  THEN Units(c) ELSE {}

Official(c, m) ==
  OfficialOf(c, m, Stage, Works(child[orch.proc], Kind(c)),
             View(child[orch.proc], Kind(c)), Holds(stateFile, Kind(c)),
             DayRead(Kind(c)))
Detour(c, m) ==
  DetourOf(c, m, Stage, Works(child[orch.proc], Kind(c)),
           View(child[orch.proc], Kind(c)), DayRead(Kind(c)))

\* A child that was left behind: it may shorten the spool or empty the state
\* file once (Upsets), and may cost what its own knowledge leaves open, by
\* posting or by writing the state file (Repeats).
Orphan(p) == child[p].pc # "exited" /\ ~(orch.pc \in Supervised /\ p = orch.proc)
UpsetsOf(r, c) ==
  IF r.pc \in {"getRows", "load", "read", "next", "post", "truncate"}
  THEN Units(c) ELSE {}
RepeatsOf(r, c, m) ==
  IF r.pc \in {"load", "read"} THEN Units(c)
  ELSE IF r.pc \in {"next", "post", "truncate", "write"}
  THEN Open(c, View(r, Kind(c)), m)
  ELSE {}
Upsets(c) == {t \in Procs \X Units(c) : Orphan(t[1]) /\ t[2] \in UpsetsOf(child[t[1]], c)}
Repeats(c, m) ==
  {t \in Procs \X Units(c) : Orphan(t[1]) /\ t[2] \in RepeatsOf(child[t[1]], c, m)}

Owed(c, m) == Cardinality(Official(c, m)) + Cardinality(Detour(c, m))
              + Cardinality(Upsets(c)) + Cardinality(Repeats(c, m))

\* What was counted and what may still come is paid for by the first delivery,
\* the faults and the stops.
AccountInv ==
  \A c \in Counts : \A m \in Messages(Kind(c)) :
    Count(c, m) + Owed(c, m) <= Weight(c) * (1 + faults + 2 * stops)

-----------------------------------------------------------------------------
(* What a message may still cost: the sets *)

Knowledge ==
  [day : Days \cup {NoDay}, sent : SUBSET (Rows \cup Reports),
   gaveUp : SUBSET Reports, attempts : [Reports -> 0 .. MaxAttempts]]

(* The kind and the weight of a count. *)
LEMMA CountBasics ==
  ASSUME NEW c \in Counts
  PROVE  /\ Kind(c) \in Kinds /\ Weight(c) \in Nat \ {0}
         /\ c = "rounds" => Kind(c) = "reports" /\ Weight(c) = MaxAttempts
         /\ c # "rounds" => Kind(c) = c /\ Weight(c) = 1
         /\ Units(c) # {} /\ Units(c) = 1 .. Weight(c) /\ 1 \in Units(c)
         /\ \A m \in Messages(Kind(c)) : m[1] \in Days
<1>1. MaxAttempts \in Nat \ {0}
  BY Basics
<1>2. Kind(c) \in Kinds /\ Weight(c) \in Nat \ {0}
  BY <1>1 DEF Kind, Kinds, Weight
<1>3. 1 \in Units(c) /\ Units(c) = 1 .. Weight(c)
  BY <1>2 DEF Units
<1>4. \A m \in Messages(Kind(c)) : m[1] \in Days
  BY DEF Messages, Rows, Reports
<1> QED BY <1>2, <1>3, <1>4 DEF Kind, Weight, Counts

(* What a message may cost are units of the count. *)
LEMMA CostsAreUnits ==
  ASSUME NEW c \in Counts, NEW m \in Messages(Kind(c)), NEW v \in Knowledge,
         NEW day
  PROVE  Open(c, v, m) \subseteq Units(c) /\ Left(c, v, m, day) \subseteq Units(c)
<1>1. ASSUME c = "rounds" PROVE 1 .. (MaxAttempts - v.attempts[m]) \subseteq Units(c)
  <2>1. m \in Reports /\ Units(c) = 1 .. MaxAttempts
    BY <1>1, Basics, CountBasics
  <2>2. v.attempts[m] \in 0 .. MaxAttempts /\ MaxAttempts \in Nat
    BY <2>1, Basics DEF Knowledge
  <2> QED BY <2>1, <2>2
<1>2. Open(c, v, m) \subseteq Units(c)
  BY <1>1 DEF Open
<1> QED BY <1>2 DEF Left

(* When the day read rises, nothing becomes open that was not.             *)
LEMMA DayRises ==
  ASSUME NEW c \in Counts, NEW m \in Messages(Kind(c)), NEW v \in Knowledge,
         NEW day \in Days \cup {NoDay}, NEW later \in Days \cup {NoDay},
         day <= later \/ v.day = NoDay \/ v.day <= later
  PROVE  /\ Behind(v, m, later) => Behind(v, m, day)
         /\ Left(c, v, m, later) \subseteq Left(c, v, m, day)
<1>1. v.day \in Nat /\ m[1] \in Nat /\ day \in Nat /\ later \in Nat
  BY Basics, CountBasics DEF Knowledge
<1>2. Behind(v, m, later) => Behind(v, m, day)
  BY <1>1 DEF Behind
<1>3. Open(c, v, m) \subseteq Units(c)
  BY CostsAreUnits
<1> QED BY <1>2, <1>3 DEF Left

(* What v loads may cost is open by v itself or was already by w: where a  *)
(* relay would fall behind v, it has not come to message m's day by w.     *)
LEMMA BehindIsOpen ==
  ASSUME NEW c \in Counts, NEW m \in Messages(Kind(c)), NEW v \in Knowledge,
         NEW w \in Knowledge, NEW day \in Days \cup {NoDay}
  PROVE  Left(c, v, m, day) \subseteq Left(c, w, m, day) \cup Open(c, v, m)
<1>1. v.day \in Nat /\ w.day \in Nat /\ m[1] \in Nat /\ day \in Nat
  BY Basics, CountBasics DEF Knowledge
<1>2. CASE Behind(v, m, day) /\ v.day = m[1]
  <2>1. day < m[1] /\ m[1] # NoDay
    BY <1>1, <1>2 DEF Behind
  <2>2. CASE w.day # NoDay /\ day < w.day
    <3>1. Behind(w, m, day)
      BY <1>1, <2>1, <2>2 DEF Behind
    <3> QED BY CostsAreUnits, <3>1 DEF Left
  <2>3. CASE w.day = NoDay \/ ~(day < w.day)
    <3>1. ~Past(w, m) /\ w.day # m[1]
      BY <1>1, <2>1, <2>3 DEF Past
    <3>2. Left(c, w, m, day) = Units(c)
      BY <3>1 DEF Left, Open
    <3> QED BY CostsAreUnits, <3>2
  <2> QED BY <2>2, <2>3
<1>3. CASE v.day # m[1]
  <2>1. Open(c, v, m) = Units(c)
    BY <1>3 DEF Open
  <2> QED BY <2>1, CostsAreUnits
<1>4. CASE ~Behind(v, m, day)
  BY <1>4 DEF Left
<1> QED BY <1>2, <1>3, <1>4

(* What the orchestrator's next rounds may cost are units; it does not     *)
(* grow when the day read rises.                                           *)
LEMMA OfficialDay ==
  ASSUME NEW c \in Counts, NEW m \in Messages(Kind(c)), NEW v \in Knowledge,
         NEW file \in Knowledge, NEW s, NEW works,
         NEW day \in Days \cup {NoDay}, NEW later \in Days \cup {NoDay},
         \/ day <= later
         \/ (v.day = NoDay \/ v.day <= later) /\ (file.day = NoDay \/ file.day <= later)
  PROVE  /\ OfficialOf(c, m, s, works, v, file, later)
              \subseteq OfficialOf(c, m, s, works, v, file, day)
         /\ DetourOf(c, m, s, works, v, later) \subseteq DetourOf(c, m, s, works, v, day)
<1>1. /\ Behind(v, m, later) => Behind(v, m, day)
      /\ Left(c, v, m, later) \subseteq Left(c, v, m, day)
      /\ Left(c, file, m, later) \subseteq Left(c, file, m, day)
  BY DayRises
<1> QED BY <1>1 DEF OfficialOf, DetourOf

(* It grows by no more than a new state file leaves open.                  *)
LEMMA OfficialFile ==
  ASSUME NEW c \in Counts, NEW m, NEW v, NEW file, NEW new, NEW s, NEW works,
         NEW day, NEW extra, Left(c, new, m, day) \subseteq Left(c, file, m, day) \cup extra
  PROVE  OfficialOf(c, m, s, works, v, new, day)
           \subseteq OfficialOf(c, m, s, works, v, file, day) \cup extra
  BY DEF OfficialOf

(* Both are units. *)
LEMMA OfficialUnits ==
  ASSUME NEW c \in Counts, NEW m \in Messages(Kind(c)), NEW v \in Knowledge,
         NEW file \in Knowledge, NEW s, NEW works, NEW day
  PROVE  /\ OfficialOf(c, m, s, works, v, file, day) \subseteq Units(c)
         /\ DetourOf(c, m, s, works, v, day) \subseteq Units(c)
<1>1. /\ Left(c, v, m, day) \subseteq Units(c) /\ Left(c, file, m, day) \subseteq Units(c)
      /\ Open(c, v, m) \subseteq Units(c)
  BY CostsAreUnits
<1> QED BY <1>1 DEF OfficialOf, DetourOf

-----------------------------------------------------------------------------
(* What a message may still cost: the numbers *)

(* A set of units has at most as many as the count's weight.               *)
LEMMA UnitsNumber ==
  ASSUME NEW c \in Counts, NEW S \in SUBSET Units(c)
  PROVE  /\ IsFiniteSet(S) /\ Cardinality(S) \in Nat /\ Cardinality(S) <= Weight(c)
         /\ S = {} => Cardinality(S) = 0
         /\ S = Units(c) => Cardinality(S) = Weight(c)
         /\ S # {} => Cardinality(S) >= 1
<1>1. Weight(c) \in Nat \ {0} /\ Units(c) = 1 .. Weight(c)
  BY CountBasics
<1>2. IsFiniteSet(Units(c)) /\ Cardinality(Units(c)) = Weight(c)
  BY <1>1, FS_Interval
<1>3. IsFiniteSet(S) /\ Cardinality(S) <= Weight(c)
  BY <1>2, FS_Subset
<1>4. Cardinality(S) \in Nat
  BY <1>3, FS_CardinalityType
<1>5. Cardinality(S) = 0 <=> S = {}
  BY <1>3, FS_EmptySet
<1> QED BY <1>2, <1>3, <1>4, <1>5

(* Sets of units grow by at most what is added. *)
LEMMA UnitsAdd ==
  ASSUME NEW c \in Counts, NEW S \in SUBSET Units(c), NEW T \in SUBSET Units(c),
         NEW X \in SUBSET Units(c), S \subseteq T \cup X
  PROVE  Cardinality(S) <= Cardinality(T) + Cardinality(X)
<1>1. /\ IsFiniteSet(T) /\ IsFiniteSet(X) /\ IsFiniteSet(S)
      /\ Cardinality(T) \in Nat /\ Cardinality(X) \in Nat /\ Cardinality(S) \in Nat
  BY UnitsNumber
<1>2. /\ IsFiniteSet(T \cup X)
      /\ Cardinality(T \cup X) = Cardinality(T) + Cardinality(X) - Cardinality(T \cap X)
  BY <1>1, FS_Union
<1>3. Cardinality(T \cap X) \in Nat
  <2>1. IsFiniteSet(T \cap X)
    BY <1>1, FS_Intersection
  <2> QED BY <2>1, FS_CardinalityType
<1>4. Cardinality(S) <= Cardinality(T \cup X)
  BY <1>2, FS_Subset
<1>5. Cardinality(T \cup X) \in Nat
  BY <1>2, FS_CardinalityType
<1> QED BY <1>1, <1>2, <1>3, <1>4, <1>5

(* Sets of units do not grow when nothing is added. *)
LEMMA UnitsSubset ==
  ASSUME NEW c \in Counts, NEW T \in SUBSET Units(c), NEW S \in SUBSET T
  PROVE  Cardinality(S) <= Cardinality(T)
  BY UnitsNumber, FS_Subset

\* What the processes other than p owe.
Rest(T, p) == {t \in T : t[1] # p}

\* In T process p owes the units X; S differs from T by process p only.
Share(T, c, p, X) == \A i \in Units(c) : <<p, i>> \in T <=> i \in X
OthersSame(S, T, c, p) ==
  \A q \in Procs : \A i \in Units(c) : q # p => (<<q, i>> \in S <=> <<q, i>> \in T)

(* What process p owes is a part of what all owe.                          *)
LEMMA ShareOfProcess ==
  ASSUME NEW c \in Counts, NEW T \in SUBSET (Procs \X Units(c)), NEW p \in Procs,
         NEW X \in SUBSET Units(c), Share(T, c, p, X)
  PROVE  /\ Cardinality(T) \in Nat /\ Cardinality(Rest(T, p)) \in Nat
         /\ Cardinality(T) = Cardinality(Rest(T, p)) + Cardinality(X)
<1> DEFINE rest == Rest(T, p)
           share == {p} \X X
<1> USE DEF Rest
<1>1. IsFiniteSet(Procs) /\ IsFiniteSet(Units(c)) /\ IsFiniteSet(X)
      /\ Cardinality(X) \in Nat
  BY RelayAssumption, UnitsNumber
<1>2. IsFiniteSet(Procs \X Units(c))
  BY <1>1, FS_Product
<1>3. IsFiniteSet(T) /\ IsFiniteSet(rest)
  <2>1. IsFiniteSet(T)
    BY <1>2, FS_Subset
  <2>2. rest \in SUBSET T
    OBVIOUS
  <2> QED BY <2>1, <2>2, FS_Subset
<1>4. IsFiniteSet(share) /\ Cardinality(share) = Cardinality(X)
  <2>1. IsFiniteSet({p}) /\ Cardinality({p}) = 1
    BY FS_Singleton
  <2>2. IsFiniteSet(share) /\ Cardinality(share) = 1 * Cardinality(X)
    BY <1>1, <2>1, FS_Product
  <2> QED BY <1>1, <2>2
<1>5. T = rest \cup share
  <2>1. \A t \in T : t = <<t[1], t[2]>> /\ t[1] \in Procs /\ t[2] \in Units(c)
    OBVIOUS
  <2>2. \A t \in T : t[1] = p => t \in share
    BY <2>1 DEF Share
  <2>3. \A t \in share : t \in T
    BY DEF Share
  <2> QED BY <2>2, <2>3
<1>6. rest \cap share = {}
  OBVIOUS
<1>7. Cardinality(T) = Cardinality(rest) + Cardinality(share) - Cardinality(rest \cap share)
  BY <1>3, <1>4, <1>5, FS_Union
<1>8. Cardinality(rest \cap share) = 0
  BY <1>6, FS_EmptySet
<1>9. Cardinality(rest) \in Nat /\ Cardinality(T) \in Nat
  BY <1>3, FS_CardinalityType
<1> QED BY <1>1, <1>3, <1>4, <1>7, <1>8, <1>9

\* T and S are what all owe before and after a step of process p alone, which
\* takes what p owes from X to Y.
Moves(c, p, T, X, S, Y) ==
  /\ T \subseteq Procs \X Units(c) /\ S \subseteq Procs \X Units(c)
  /\ X \subseteq Units(c) /\ Y \subseteq Units(c)
  /\ Share(T, c, p, X) /\ Share(S, c, p, Y) /\ OthersSame(S, T, c, p)

(* When only process p changes, what all owe changes by what p owes.       *)
LEMMA ProcessChanges ==
  ASSUME NEW c \in Counts, NEW p \in Procs, NEW T, NEW X, NEW S, NEW Y,
         Moves(c, p, T, X, S, Y)
  PROVE  /\ Cardinality(S) \in Nat /\ Cardinality(T) \in Nat
         /\ Cardinality(S) + Cardinality(X) = Cardinality(T) + Cardinality(Y)
<1> USE DEF Moves
<1>1. Rest(S, p) = Rest(T, p)
  <2>1. \A t \in Procs \X Units(c) :
          t = <<t[1], t[2]>> /\ t[1] \in Procs /\ t[2] \in Units(c)
    OBVIOUS
  <2> QED BY <2>1 DEF Rest, OthersSame
<1>2. /\ Cardinality(S) \in Nat /\ Cardinality(Rest(S, p)) \in Nat
      /\ Cardinality(S) = Cardinality(Rest(S, p)) + Cardinality(Y)
  BY ShareOfProcess
<1>3. /\ Cardinality(T) \in Nat /\ Cardinality(Rest(T, p)) \in Nat
      /\ Cardinality(T) = Cardinality(Rest(T, p)) + Cardinality(X)
  BY ShareOfProcess
<1>4. Cardinality(X) \in Nat /\ Cardinality(Y) \in Nat
  BY UnitsNumber
<1> QED BY <1>1, <1>2, <1>3, <1>4

-----------------------------------------------------------------------------
(* Who pays for a step *)

\* What process p owes.
OwnUpsets(p, c) == IF Orphan(p) THEN UpsetsOf(child[p], c) ELSE {}
OwnRepeats(p, c, m) == IF Orphan(p) THEN RepeatsOf(child[p], c, m) ELSE {}

\* What the orchestrator's next rounds and process p owe.
Fee(p, c, m) ==
  Cardinality(Official(c, m)) + Cardinality(Detour(c, m))
  + Cardinality(OwnUpsets(p, c)) + Cardinality(OwnRepeats(p, c, m))

Account(c, m) ==
  Count(c, m) + Owed(c, m) <= Weight(c) * (1 + faults + 2 * stops)

(* What dictionaries and processes know is knowledge. *)
LEMMA KnowledgeTypes ==
  ASSUME NEW k \in Kinds
  PROVE  /\ \A d \in SoundDict : Holds(d, k) \in Knowledge
         /\ \A r \in SoundProcess : View(r, k) \in Knowledge
<1>1. NoAttempts \in [Reports -> 0 .. MaxAttempts]
  BY Basics DEF NoAttempts
<1>2. ASSUME NEW d \in Dict PROVE Holds(d, k) \in Knowledge
  <2>1. /\ d.day[k] \in Days \cup {NoDay} /\ d.sent[k] \in SUBSET (Rows \cup Reports)
        /\ d.gaveUp \in SUBSET Reports /\ d.attempts \in [Reports -> 0 .. MaxAttempts]
    BY DEF Dict
  <2> QED BY <1>1, <2>1 DEF Holds, Knowledge
<1>3. \A d \in SoundDict : Holds(d, k) \in Knowledge
  BY <1>2 DEF SoundDict
<1>4. ASSUME NEW r \in SoundProcess PROVE View(r, k) \in Knowledge
  <2>1. /\ r.dict \in Dict /\ r.sent \in SUBSET (Rows \cup Reports)
        /\ r.gaveUp \in SUBSET Reports /\ r.attempts \in [Reports -> 0 .. MaxAttempts]
    BY DEF SoundProcess, Processes
  <2>2. r.dict.day[k] \in Days \cup {NoDay}
    BY <2>1 DEF Dict
  <2> QED BY <1>1, <1>2, <2>1, <2>2 DEF View, Knowledge
<1> QED BY <1>3, <1>4

(* A process owes units. *)
LEMMA OwedTypes ==
  ASSUME NEW c \in Counts, NEW m \in Messages(Kind(c)), NEW r \in SoundProcess
  PROVE  UpsetsOf(r, c) \subseteq Units(c) /\ RepeatsOf(r, c, m) \subseteq Units(c)
<1>1. View(r, Kind(c)) \in Knowledge
  BY CountBasics, KnowledgeTypes
<1>2. Open(c, View(r, Kind(c)), m) \subseteq Units(c)
  BY <1>1, CostsAreUnits
<1> QED BY <1>2 DEF UpsetsOf, RepeatsOf

(* The day that a relay would read is a day, if there is one. *)
LEMMA DayReadType ==
  ASSUME TypeInv, NEW k \in Kinds
  PROVE  DayRead(k) \in Days \cup {NoDay}
<1>1. ASSUME spoolRows # 0 PROVE rows[spoolRows] \in Days
  BY <1>1 DEF TypeInv, TypeOK
<1> QED BY <1>1, TodayIsADay DEF DayRead

(* So it is after a step. *)
LEMMA DaysLater ==
  ASSUME NEW k \in Kinds
  PROVE  (TypeInv => DayRead(k) \in Days \cup {NoDay})'
<1>1. TypeInv => DayRead(k) \in Days \cup {NoDay}
  BY DayReadType
<1> QED BY <1>1, PTL

(* The orchestrator's next rounds owe units. *)
LEMMA OfficialType ==
  ASSUME TypeInv, NEW c \in Counts, NEW m \in Messages(Kind(c))
  PROVE  Official(c, m) \subseteq Units(c) /\ Detour(c, m) \subseteq Units(c)
<1>1. orch.proc \in Procs /\ child[orch.proc] \in SoundProcess /\ stateFile \in SoundDict
  BY DEF TypeInv, TypeOK
<1>2. View(child[orch.proc], Kind(c)) \in Knowledge /\ Holds(stateFile, Kind(c)) \in Knowledge
  BY <1>1, CountBasics, KnowledgeTypes
<1> QED BY <1>2, OfficialUnits DEF Official, Detour

(* A step of one process changes the debts of all by those of its own. *)
LEMMA OneProcess ==
  ASSUME TypeInv, TypeInv', NEW c \in Counts, NEW m \in Messages(Kind(c)),
         NEW p \in Procs,
         \A q \in Procs : q # p => child'[q] = child[q] /\ (Orphan(q)' <=> Orphan(q))
  PROVE  /\ Cardinality(Upsets(c)) \in Nat /\ Cardinality(Upsets(c)') \in Nat
         /\ Cardinality(Repeats(c, m)) \in Nat /\ Cardinality(Repeats(c, m)') \in Nat
         /\ Cardinality(Upsets(c)') + Cardinality(OwnUpsets(p, c))
              = Cardinality(Upsets(c)) + Cardinality(OwnUpsets(p, c)')
         /\ Cardinality(Repeats(c, m)') + Cardinality(OwnRepeats(p, c, m))
              = Cardinality(Repeats(c, m)) + Cardinality(OwnRepeats(p, c, m)')
<1>1. /\ child[p] \in SoundProcess /\ child'[p] \in SoundProcess
  BY DEF TypeInv
<1>2. /\ OwnUpsets(p, c) \in SUBSET Units(c) /\ OwnUpsets(p, c)' \in SUBSET Units(c)
      /\ OwnRepeats(p, c, m) \in SUBSET Units(c)
      /\ OwnRepeats(p, c, m)' \in SUBSET Units(c)
  BY <1>1, OwedTypes DEF OwnUpsets, OwnRepeats
<1>3. /\ Upsets(c) \in SUBSET (Procs \X Units(c)) /\ Upsets(c)' \in SUBSET (Procs \X Units(c))
      /\ Repeats(c, m) \in SUBSET (Procs \X Units(c))
      /\ Repeats(c, m)' \in SUBSET (Procs \X Units(c))
  BY DEF Upsets, Repeats
<1>4. \A q \in Procs : \A i \in Units(c) :
        /\ <<q, i>> \in Upsets(c) <=> i \in OwnUpsets(q, c)
        /\ <<q, i>> \in Upsets(c)' <=> i \in OwnUpsets(q, c)'
        /\ <<q, i>> \in Repeats(c, m) <=> i \in OwnRepeats(q, c, m)
        /\ <<q, i>> \in Repeats(c, m)' <=> i \in OwnRepeats(q, c, m)'
  BY DEF Upsets, Repeats, OwnUpsets, OwnRepeats
<1>5. \A q \in Procs : q # p =>
        OwnUpsets(q, c)' = OwnUpsets(q, c) /\ OwnRepeats(q, c, m)' = OwnRepeats(q, c, m)
  BY DEF OwnUpsets, OwnRepeats
<1>6. /\ Cardinality(Upsets(c)') \in Nat /\ Cardinality(Upsets(c)) \in Nat
      /\ Cardinality(Upsets(c)') + Cardinality(OwnUpsets(p, c))
              = Cardinality(Upsets(c)) + Cardinality(OwnUpsets(p, c)')
  <2>1. /\ Share(Upsets(c), c, p, OwnUpsets(p, c))
        /\ Share(Upsets(c)', c, p, OwnUpsets(p, c)')
        /\ OthersSame(Upsets(c)', Upsets(c), c, p)
    BY <1>4, <1>5 DEF Share, OthersSame
  <2>2. Moves(c, p, Upsets(c), OwnUpsets(p, c), Upsets(c)', OwnUpsets(p, c)')
    BY <1>2, <1>3, <2>1 DEF Moves
  <2> QED BY <2>2, ProcessChanges
<1>7. /\ Cardinality(Repeats(c, m)') \in Nat /\ Cardinality(Repeats(c, m)) \in Nat
      /\ Cardinality(Repeats(c, m)') + Cardinality(OwnRepeats(p, c, m))
              = Cardinality(Repeats(c, m)) + Cardinality(OwnRepeats(p, c, m)')
  <2>1. /\ Share(Repeats(c, m), c, p, OwnRepeats(p, c, m))
        /\ Share(Repeats(c, m)', c, p, OwnRepeats(p, c, m)')
        /\ OthersSame(Repeats(c, m)', Repeats(c, m), c, p)
    BY <1>4, <1>5 DEF Share, OthersSame
  <2>2. Moves(c, p, Repeats(c, m), OwnRepeats(p, c, m), Repeats(c, m)',
              OwnRepeats(p, c, m)')
    BY <1>2, <1>3, <2>1 DEF Moves
  <2> QED BY <2>2, ProcessChanges
<1> QED BY <1>6, <1>7

(* The weight is paid once for each fault and twice for each stop. *)
LEMMA Payment ==
  ASSUME NEW w \in Nat, NEW f \in Nat, NEW s \in Nat, NEW g \in Nat, NEW t \in Nat
  PROVE  w * (1 + (f + g) + 2 * (s + t)) = w * (1 + f + 2 * s) + w * g + 2 * (w * t)
  OBVIOUS

(* The counts are numbers. *)
LEMMA CountType ==
  ASSUME TypeInv, NEW c \in Counts, NEW m \in Messages(Kind(c))
  PROVE  Count(c, m) \in Nat
<1>1. CASE c = "rounds"
  <2>1. m \in Reports /\ failures \in [Reports -> Nat]
    BY <1>1, CountBasics, Basics DEF TypeInv, TypeOK
  <2> QED BY <1>1, <2>1 DEF Count
<1>2. CASE c # "rounds"
  <2>1. c \in Kinds /\ m \in Messages(c) /\ posts[c] \in [Messages(c) -> Nat]
    BY <1>2, CountBasics DEF TypeInv, TypeOK
  <2> QED BY <1>2, <2>1 DEF Count
<1> QED BY <1>1, <1>2

(* What is owed are numbers, which the weight bounds. *)
LEMMA FeeNumbers ==
  ASSUME TypeInv, NEW c \in Counts, NEW m \in Messages(Kind(c)), NEW p \in Procs
  PROVE  /\ OwnUpsets(p, c) \subseteq Units(c) /\ OwnRepeats(p, c, m) \subseteq Units(c)
         /\ Cardinality(Official(c, m)) \in Nat /\ Cardinality(Detour(c, m)) \in Nat
         /\ Cardinality(OwnUpsets(p, c)) \in Nat /\ Cardinality(OwnRepeats(p, c, m)) \in Nat
         /\ Cardinality(Official(c, m)) <= Weight(c)
<1>1. child[p] \in SoundProcess
  BY DEF TypeInv
<1>2. OwnUpsets(p, c) \subseteq Units(c) /\ OwnRepeats(p, c, m) \subseteq Units(c)
  BY <1>1, OwedTypes DEF OwnUpsets, OwnRepeats
<1>3. Official(c, m) \subseteq Units(c) /\ Detour(c, m) \subseteq Units(c)
  BY OfficialType
<1> QED BY <1>2, <1>3, UnitsNumber

\* What the account adds up.
Numbers(p, c, m) ==
  /\ Cardinality(Official(c, m)) \in Nat /\ Cardinality(Detour(c, m)) \in Nat
  /\ Cardinality(OwnUpsets(p, c)) \in Nat /\ Cardinality(OwnRepeats(p, c, m)) \in Nat
  /\ Count(c, m) \in Nat
  /\ Cardinality(Official(c, m)) <= Weight(c)

(* They are numbers before and after a step. *)
LEMMA NumbersLater ==
  ASSUME NEW c \in Counts, NEW m \in Messages(Kind(c)), NEW p \in Procs
  PROVE  (TypeInv => Numbers(p, c, m)) /\ (TypeInv => Numbers(p, c, m))'
<1>1. TypeInv => Numbers(p, c, m)
  BY FeeNumbers, CountType DEF Numbers
<1> QED BY <1>1, PTL

(* What is owed after a step are units, too. *)
LEMMA UnitsLater ==
  ASSUME NEW c \in Counts, NEW m \in Messages(Kind(c)), NEW p \in Procs
  PROVE  (TypeInv => /\ Official(c, m) \in SUBSET Units(c)
                     /\ Detour(c, m) \in SUBSET Units(c)
                     /\ OwnUpsets(p, c) \in SUBSET Units(c)
                     /\ OwnRepeats(p, c, m) \in SUBSET Units(c))'
<1>1. TypeInv => /\ Official(c, m) \in SUBSET Units(c)
                 /\ Detour(c, m) \in SUBSET Units(c)
                 /\ OwnUpsets(p, c) \in SUBSET Units(c)
                 /\ OwnRepeats(p, c, m) \in SUBSET Units(c)
  BY FeeNumbers, OfficialType
<1> QED BY <1>1, PTL

\* A step that costs f faults and t stops pays, with them and with what
\* process p and the orchestrator owed, for what it counts and what they owe
\* then.
Pays(p, c, m, f, t) ==
  Count(c, m)' + Fee(p, c, m)'
    <= Count(c, m) + Fee(p, c, m) + Weight(c) * f + 2 * (Weight(c) * t)

(* The account stays settled when a step of one process pays. *)
LEMMA Settled ==
  ASSUME TypeInv, TypeInv', NEW c \in Counts, NEW m \in Messages(Kind(c)),
         NEW p \in Procs,
         \A q \in Procs : q # p => child'[q] = child[q] /\ (Orphan(q)' <=> Orphan(q)),
         NEW f \in Nat, NEW t \in Nat, faults' = faults + f, stops' = stops + t,
         Pays(p, c, m, f, t), Account(c, m)
  PROVE  Account(c, m)'
<1> DEFINE w == Weight(c)
<1>1. /\ Cardinality(Upsets(c)) \in Nat /\ Cardinality(Upsets(c)') \in Nat
      /\ Cardinality(Repeats(c, m)) \in Nat /\ Cardinality(Repeats(c, m)') \in Nat
      /\ Cardinality(Upsets(c)') + Cardinality(OwnUpsets(p, c))
           = Cardinality(Upsets(c)) + Cardinality(OwnUpsets(p, c)')
      /\ Cardinality(Repeats(c, m)') + Cardinality(OwnRepeats(p, c, m))
           = Cardinality(Repeats(c, m)) + Cardinality(OwnRepeats(p, c, m)')
  BY OneProcess
<1>2. /\ Cardinality(Official(c, m)) \in Nat /\ Cardinality(Detour(c, m)) \in Nat
      /\ Cardinality(OwnUpsets(p, c)) \in Nat /\ Cardinality(OwnRepeats(p, c, m)) \in Nat
      /\ Count(c, m) \in Nat
  BY FeeNumbers, CountType
<1>3. /\ Cardinality(Official(c, m)') \in Nat /\ Cardinality(Detour(c, m)') \in Nat
      /\ Cardinality(OwnUpsets(p, c)') \in Nat /\ Cardinality(OwnRepeats(p, c, m)') \in Nat
      /\ Count(c, m)' \in Nat
  BY NumbersLater DEF Numbers
<1>4. w \in Nat /\ faults \in Nat /\ stops \in Nat
  BY CountBasics DEF TypeInv, TypeOK
<1>5. w * (1 + (faults + f) + 2 * (stops + t)) = w * (1 + faults + 2 * stops) + w * f + 2 * (w * t)
  BY <1>4, Payment
<1>6. /\ Count(c, m)' + (Cardinality(Official(c, m)') + Cardinality(Detour(c, m)')
           + Cardinality(OwnUpsets(p, c)') + Cardinality(OwnRepeats(p, c, m)'))
         <= Count(c, m) + (Cardinality(Official(c, m)) + Cardinality(Detour(c, m))
           + Cardinality(OwnUpsets(p, c)) + Cardinality(OwnRepeats(p, c, m)))
           + w * f + 2 * (w * t)
  BY DEF Pays, Fee
<1>7. Count(c, m) + (Cardinality(Official(c, m)) + Cardinality(Detour(c, m))
        + Cardinality(Upsets(c)) + Cardinality(Repeats(c, m)))
        <= w * (1 + faults + 2 * stops)
  BY DEF Account, Owed
<1>8. w * (1 + faults + 2 * stops) \in Nat /\ w * f \in Nat /\ w * t \in Nat
  BY <1>4
<1> HIDE DEF w
<1>9. Count(c, m)' + (Cardinality(Official(c, m)') + Cardinality(Detour(c, m)')
        + Cardinality(Upsets(c)') + Cardinality(Repeats(c, m)'))
        <= w * (1 + (faults + f) + 2 * (stops + t))
  BY <1>1, <1>2, <1>3, <1>5, <1>6, <1>7, <1>8
<1> QED BY <1>9 DEF w, Account, Owed

-----------------------------------------------------------------------------
(* What a round counts, and what it learns *)

\* Process p is at message m, which c counts.
AtMessage(p, c, m) == child[p].kind = Kind(c) /\ m = NextMessage(p)

(* A post counts for the message that the round is at, and for no other.   *)
LEMMA PostCounts ==
  ASSUME TypeInv, NEW p \in Procs, NEW c \in Counts, NEW m \in Messages(Kind(c)),
         NEW n \in {0, 1}, child[p].pc = "post",
         posts' = [posts EXCEPT ![child[p].kind][NextMessage(p)] = @ + n]
  PROVE  /\ Counted /\ child[p].kind \in Kinds
         /\ NextMessage(p) \in Messages(child[p].kind)
         /\ c # "rounds" => Count(c, m)' = Count(c, m) + (IF AtMessage(p, c, m) THEN n ELSE 0)
<1>1. /\ Counted /\ child[p] \in SoundProcess /\ child[p].todo # {}
  BY DEF TypeInv, TypeOK, Counted, SoundProcess
<1>2. child[p].kind \in Kinds /\ NextMessage(p) \in Messages(child[p].kind)
  BY <1>1, NextIsThere
<1>3. ASSUME c # "rounds"
      PROVE  Count(c, m)' = Count(c, m) + (IF AtMessage(p, c, m) THEN n ELSE 0)
  <2>1. c \in Kinds /\ Kind(c) = c /\ m \in Messages(c)
    BY <1>3, CountBasics
  <2>2. Count(c, m) = posts[c][m] /\ Count(c, m)' = posts'[c][m] /\ Count(c, m) \in Nat
    BY <1>3, CountType DEF Count
  <2>3. /\ posts'[child[p].kind][NextMessage(p)] = posts[child[p].kind][NextMessage(p)] + n
        /\ child[p].kind # c \/ NextMessage(p) # m => posts'[c][m] = posts[c][m]
    BY <1>1, <1>2, <2>1, PostsGrow
  <2>4. CASE AtMessage(p, c, m)
    BY <2>1, <2>2, <2>3, <2>4 DEF AtMessage
  <2>5. CASE ~AtMessage(p, c, m)
    BY <2>1, <2>2, <2>3, <2>5 DEF AtMessage
  <2> QED BY <2>4, <2>5
<1> QED BY <1>1, <1>2, <1>3

(* So does a failed round. *)
LEMMA RoundCounts ==
  ASSUME TypeInv, NEW p \in Procs, NEW c \in Counts, NEW m \in Messages(Kind(c)),
         c = "rounds", child[p].pc = "post"
  PROVE  /\ failures' = failures => Count(c, m)' = Count(c, m)
         /\ Failed(p, NextMessage(p)) =>
              Count(c, m)' = Count(c, m) + (IF AtMessage(p, c, m) THEN 1 ELSE 0)
<1>1. /\ Counted /\ child[p] \in SoundProcess /\ child[p].todo # {}
  BY DEF TypeInv, TypeOK, Counted, SoundProcess
<1>2. child[p].kind \in Kinds /\ NextMessage(p) \in Messages(child[p].kind)
  BY <1>1, NextIsThere
<1>3. Kind(c) = "reports" /\ m \in Reports
  BY CountBasics, Basics
<1>4. Count(c, m) = failures[m] /\ Count(c, m)' = failures'[m] /\ Count(c, m) \in Nat
  BY CountType DEF Count
<1>5. ASSUME Failed(p, NextMessage(p))
      PROVE  Count(c, m)' = Count(c, m) + (IF AtMessage(p, c, m) THEN 1 ELSE 0)
  <2>1. /\ child[p].kind = "alerts" => failures' = failures
        /\ child[p].kind = "reports" =>
             failures'[NextMessage(p)] = failures[NextMessage(p)] + 1
        /\ m # NextMessage(p) => failures'[m] = failures[m]
    BY <1>1, <1>2, <1>3, <1>5, FailuresGrow
  <2>2. CASE AtMessage(p, c, m)
    BY <1>3, <1>4, <2>1, <2>2 DEF AtMessage
  <2>3. CASE ~AtMessage(p, c, m)
    BY <1>2, <1>3, <1>4, <2>1, <2>3 DEF AtMessage, Kinds
  <2> QED BY <2>2, <2>3
<1> QED BY <1>4, <1>5

(* A message that a round is at is open: what it may still cost is one     *)
(* post, or the failed rounds that its attempts leave.                     *)
LEMMA MessageIsOpen ==
  ASSUME TypeInv, WorkInv, NEW p \in Procs, NEW c \in Counts,
         NEW m \in Messages(Kind(c)), child[p].pc = "post", AtMessage(p, c, m)
  PROVE  /\ Works(child[p], Kind(c)) /\ View(child[p], Kind(c)).day = m[1]
         /\ m \notin child[p].sent
         /\ c # "rounds" => Open(c, View(child[p], Kind(c)), m) = Units(c)
         /\ c = "rounds" =>
              /\ child[p].attempts[m] \in 0 .. MaxAttempts - 1 /\ m \notin child[p].gaveUp
              /\ Open(c, View(child[p], Kind(c)), m)
                   = 1 .. (MaxAttempts - child[p].attempts[m])
<1> DEFINE r == child[p]
           v == View(r, Kind(c))
<1>1. r \in SoundProcess /\ r \in Processes /\ r.todo # {} /\ Ready(r)
  BY DEF TypeInv, SoundProcess, WorkInv
<1>2. r.kind = Kind(c) /\ m = First(r.todo) /\ m \in r.todo
  BY <1>1, NextIsThere DEF AtMessage
<1>3. /\ m[1] = r.dict.day[Kind(c)] /\ m \notin r.sent
      /\ Kind(c) = "reports" => m \notin r.gaveUp
  BY <1>1, <1>2 DEF Ready
<1>4. Works(r, Kind(c))
  BY <1>2 DEF Works
<1>5. /\ v.day = r.dict.day[Kind(c)] /\ v.sent = r.sent
      /\ Kind(c) = "reports" => v.gaveUp = r.gaveUp /\ v.attempts = r.attempts
  BY <1>4 DEF View
<1>6. CASE c # "rounds"
  BY <1>3, <1>4, <1>5, <1>6 DEF Open
<1>7. CASE c = "rounds"
  <2>1. Kind(c) = "reports" /\ m \in Reports
    BY <1>7, CountBasics, Basics
  <2>2. r.attempts[m] \in 0 .. MaxAttempts /\ r.attempts[m] < MaxAttempts
    BY <1>1, <1>2, <2>1 DEF SoundProcess, Processes
  <2>3. Open(c, v, m) = 1 .. (MaxAttempts - r.attempts[m])
    BY <1>3, <1>5, <1>7, <2>1 DEF Open
  <2>4. r.attempts[m] \in 0 .. MaxAttempts - 1
    BY <2>2, Basics
  <2> QED BY <1>3, <1>4, <1>5, <1>7, <2>1, <2>3, <2>4
<1> QED BY <1>6, <1>7

(* What the steps of the loop write into the process. *)
LEMMA LoopRecord ==
  ASSUME TypeInv, NEW p \in Procs, TakeUp(p) \/ PostOk(p) \/ PostError(p)
  PROVE  /\ child[p].pc \in {"next", "post"} /\ child'[p].pc \in {"next", "post"}
         /\ child'[p].kind = child[p].kind /\ child'[p].dict = child[p].dict
         /\ child[p].sent \subseteq child'[p].sent
         /\ child[p].gaveUp \subseteq child'[p].gaveUp
         /\ \/ TakeUp(p) /\ child'[p].attempts = child[p].attempts
            \/ /\ PostOk(p) /\ NextMessage(p) \in child'[p].sent
               /\ child'[p].attempts = Attempts(p, NextMessage(p), 0)
            \/ /\ PostError(p)
               /\ child'[p].sent = child[p].sent /\ child'[p].gaveUp = child[p].gaveUp
               /\ \/ failures' = failures /\ child'[p].attempts = child[p].attempts
                  \/ /\ Failed(p, NextMessage(p))
                     /\ child'[p].attempts
                          = Attempts(p, NextMessage(p), child[p].attempts[NextMessage(p)] + 1)
<1> DEFINE r == child[p]
           x == NextMessage(p)
<1>1. /\ r \in Processes
      /\ \A record : child' = [child EXCEPT ![p] = record] => child'[p] = record
  BY DEF TypeInv, TypeOK
<1>2. CASE TakeUp(p)
  <2>1. PICK record \in {[r EXCEPT !.pc = "post", !.try = 1],
                         [r EXCEPT !.todo = @ \ {x}, !.gaveUp = @ \cup {x}],
                         PassOver(p, x)} :
          r.pc = "next" /\ child' = [child EXCEPT ![p] = record]
    BY <1>2 DEF TakeUp, RelayStep
  <2>2. /\ record.pc \in {"next", "post"} /\ record.kind = r.kind /\ record.dict = r.dict
        /\ record.sent = r.sent /\ r.gaveUp \subseteq record.gaveUp
        /\ record.attempts = r.attempts
    BY <1>1, <2>1 DEF PassOver, Processes
  <2> QED BY <1>1, <1>2, <2>1, <2>2
<1>3. CASE PostOk(p)
  <2> DEFINE record == [r EXCEPT !.pc = "next", !.todo = @ \ {x}, !.sent = @ \cup {x},
                                 !.attempts = Attempts(p, x, 0)]
  <2>1. r.pc = "post" /\ child' = [child EXCEPT ![p] = record]
    BY <1>3 DEF PostOk, RelayStep
  <2>2. /\ record.pc = "next" /\ record.kind = r.kind /\ record.dict = r.dict
        /\ record.sent = r.sent \cup {x} /\ r.gaveUp = record.gaveUp
        /\ record.attempts = Attempts(p, x, 0)
    BY <1>1 DEF Processes
  <2>3. child'[p] = record
    BY <1>1, <2>1
  <2> HIDE DEF record
  <2> QED BY <1>3, <2>1, <2>2, <2>3
<1>4. CASE PostError(p)
  <2>1. \/ /\ failures' = failures
           /\ child' = [child EXCEPT ![p] = [r EXCEPT !.try = @ + 1]]
        \/ Failed(p, x) /\ child' = [child EXCEPT ![p] = RoundLost(p, x)]
    BY <1>4 DEF PostError, RelayStep
  <2>2. r.pc = "post"
    BY <1>4 DEF PostError
  <2>3. LET a == [r EXCEPT !.try = @ + 1] IN
        /\ a.pc = "post" /\ a.kind = r.kind /\ a.dict = r.dict /\ a.sent = r.sent
        /\ a.gaveUp = r.gaveUp /\ a.attempts = r.attempts
    BY <1>1, <2>2 DEF Processes
  <2>4. LET b == RoundLost(p, x) IN
        /\ b.pc = "next" /\ b.kind = r.kind /\ b.dict = r.dict /\ b.sent = r.sent
        /\ b.gaveUp = r.gaveUp /\ b.attempts = Attempts(p, x, r.attempts[x] + 1)
    BY <1>1 DEF Processes, RoundLost
  <2>5. CASE /\ failures' = failures
             /\ child' = [child EXCEPT ![p] = [r EXCEPT !.try = @ + 1]]
    <3>1. child'[p] = [r EXCEPT !.try = @ + 1]
      BY <1>1, <2>5
    <3> QED BY <1>4, <2>2, <2>3, <2>5, <3>1
  <2>6. CASE Failed(p, x) /\ child' = [child EXCEPT ![p] = RoundLost(p, x)]
    <3>1. child'[p] = RoundLost(p, x)
      BY <1>1, <2>6
    <3> QED BY <1>4, <2>2, <2>4, <2>6, <3>1
  <2> QED BY <2>1, <2>5, <2>6
<1> QED BY <1>2, <1>3, <1>4

(* In the loop nothing becomes open that was not. *)
LEMMA LoopCloses ==
  ASSUME TypeInv, NEW p \in Procs, TakeUp(p) \/ PostOk(p) \/ PostError(p),
         NEW c \in Counts, NEW m \in Messages(Kind(c))
  PROVE  /\ Works(child'[p], Kind(c)) <=> Works(child[p], Kind(c))
         /\ View(child'[p], Kind(c)).day = View(child[p], Kind(c)).day
         /\ Open(c, View(child'[p], Kind(c)), m) \subseteq Open(c, View(child[p], Kind(c)), m)
         /\ ~Works(child[p], Kind(c)) => View(child'[p], Kind(c)) = View(child[p], Kind(c))
<1> DEFINE r == child[p]
           n == child'[p]
           x == NextMessage(p)
           before == View(r, Kind(c))
           after == View(n, Kind(c))
<1>1. /\ r \in Processes /\ r.kind \in Kinds
      /\ r.attempts \in [Reports -> 0 .. MaxAttempts]
  BY DEF TypeInv, TypeOK, Processes
<1>2. /\ r.pc \in {"next", "post"} /\ n.pc \in {"next", "post"}
      /\ n.kind = r.kind /\ n.dict = r.dict
      /\ r.sent \subseteq n.sent /\ r.gaveUp \subseteq n.gaveUp
      /\ \/ n.attempts = r.attempts
         \/ x \in n.sent /\ n.attempts = Attempts(p, x, 0)
         \/ n.attempts = Attempts(p, x, r.attempts[x] + 1)
  BY LoopRecord
<1>3. Works(n, Kind(c)) <=> Works(r, Kind(c))
  BY <1>2 DEF Works
<1>4. CASE ~Works(r, Kind(c))
  <2>1. after = before
    BY <1>2, <1>3, <1>4 DEF View
  <2> QED BY <1>3, <2>1
<1>5. CASE Works(r, Kind(c))
  <2>1. r.kind = Kind(c)
    BY <1>5 DEF Works
  <2>2. /\ before.day = r.dict.day[Kind(c)] /\ after.day = before.day
        /\ before.sent = r.sent /\ after.sent = n.sent
        /\ Kind(c) = "reports" => /\ before.gaveUp = r.gaveUp /\ after.gaveUp = n.gaveUp
                                  /\ before.attempts = r.attempts
                                  /\ after.attempts = n.attempts
    BY <1>2, <1>3, <1>5 DEF View
  <2>3. ASSUME c # "rounds" PROVE Open(c, after, m) \subseteq Open(c, before, m)
    BY <1>2, <2>2, <2>3 DEF Open
  <2>4. ASSUME c = "rounds" PROVE Open(c, after, m) \subseteq Open(c, before, m)
    <3>1. Kind(c) = "reports" /\ m \in Reports
      BY <2>4, CountBasics, Basics
    <3>2. r.attempts[m] \in Nat /\ n.attempts[m] \in Nat
          /\ (r.attempts[m] <= n.attempts[m] \/ m \in n.sent)
      BY <1>1, <1>2, <2>1, <3>1 DEF Attempts
    <3>3. r.attempts[m] <= n.attempts[m] =>
            1 .. (MaxAttempts - n.attempts[m]) \subseteq 1 .. (MaxAttempts - r.attempts[m])
      BY <3>2, Basics
    <3>4. CASE m \in n.sent
      BY <1>2, <2>2, <2>4, <3>1, <3>4 DEF Open
    <3>5. CASE r.attempts[m] <= n.attempts[m]
      BY <1>2, <2>2, <2>4, <3>1, <3>3, <3>5 DEF Open
    <3> QED BY <3>2, <3>4, <3>5
  <2> QED BY <1>3, <1>5, <2>2, <2>3, <2>4
<1> QED BY <1>4, <1>5

(* In the loop, what is counted was open, or costs a fault. *)
LEMMA LoopPays ==
  ASSUME TypeInv, TypeInv', WorkInv, NEW p \in Procs,
         TakeUp(p) \/ PostOk(p) \/ PostError(p),
         NEW c \in Counts, NEW m \in Messages(Kind(c))
  PROVE  /\ \/ Count(c, m)' = Count(c, m)
            \/ Works(child[p], Kind(c)) /\ View(child[p], Kind(c)).day = m[1]
         /\ stops' = stops
         /\ \E f \in {0, 1} :
              /\ faults' = faults + f
              /\ Count(c, m)' + Cardinality(Open(c, View(child'[p], Kind(c)), m))
                   <= Count(c, m) + Cardinality(Open(c, View(child[p], Kind(c)), m)) + f
<1> DEFINE r == child[p]
           n == child'[p]
           x == NextMessage(p)
           before == View(r, Kind(c))
           after == View(n, Kind(c))
<1>1. /\ before \in Knowledge /\ after \in Knowledge
  <2>1. r \in SoundProcess /\ n \in SoundProcess
    BY DEF TypeInv
  <2> QED BY <2>1, CountBasics, KnowledgeTypes
<1>2. /\ Open(c, before, m) \in SUBSET Units(c) /\ Open(c, after, m) \in SUBSET Units(c)
      /\ Open(c, after, m) \subseteq Open(c, before, m)
  BY <1>1, CostsAreUnits, LoopCloses
<1>3. /\ Cardinality(Open(c, before, m)) \in Nat /\ Cardinality(Open(c, after, m)) \in Nat
      /\ Cardinality(Open(c, after, m)) <= Cardinality(Open(c, before, m))
  BY <1>2, UnitsNumber, UnitsSubset
<1>4. faults \in Nat /\ Count(c, m) \in Nat
  BY CountType DEF TypeInv, TypeOK
<1>5. ASSUME NEW f \in {0, 1}, faults' = faults + f, stops' = stops,
             \/ Count(c, m)' = Count(c, m)
             \/ /\ AtMessage(p, c, m) /\ r.pc = "post"
                /\ Count(c, m)' + Cardinality(Open(c, after, m))
                     <= Count(c, m) + Cardinality(Open(c, before, m)) + f
      PROVE  /\ \/ Count(c, m)' = Count(c, m)
                \/ Works(r, Kind(c)) /\ before.day = m[1]
             /\ stops' = stops
             /\ \E g \in {0, 1} :
                  /\ faults' = faults + g
                  /\ Count(c, m)' + Cardinality(Open(c, after, m))
                       <= Count(c, m) + Cardinality(Open(c, before, m)) + g
  <2>1. CASE Count(c, m)' = Count(c, m)
    <3>1. Count(c, m)' + Cardinality(Open(c, after, m))
            <= Count(c, m) + Cardinality(Open(c, before, m)) + f
      BY <1>3, <1>4, <2>1
    <3> QED BY <1>5, <2>1, <3>1
  <2>2. CASE AtMessage(p, c, m) /\ r.pc = "post"
    <3>1. Works(r, Kind(c)) /\ before.day = m[1]
      BY <2>2, MessageIsOpen
    <3> QED BY <1>3, <1>4, <1>5, <3>1
  <2> QED BY <1>5, <2>1, <2>2
<1>6. CASE TakeUp(p)
  <2>1. posts' = posts /\ failures' = failures /\ faults' = faults /\ stops' = stops
    BY <1>6 DEF TakeUp, robot, faulty
  <2>2. Count(c, m)' = Count(c, m)
    BY <2>1 DEF Count
  <2> QED BY <1>4, <1>5, <2>1, <2>2
<1>7. ASSUME PostOk(p), x \in n.sent
      PROVE  /\ faults' = faults /\ stops' = stops
             /\ \/ Count(c, m)' = Count(c, m)
                \/ /\ AtMessage(p, c, m) /\ r.pc = "post"
                   /\ Count(c, m)' + Cardinality(Open(c, after, m))
                        <= Count(c, m) + Cardinality(Open(c, before, m))
  <2>1. /\ r.pc = "post" /\ faults' = faults /\ stops' = stops /\ failures' = failures
        /\ posts' = [posts EXCEPT ![r.kind][x] = @ + 1]
    BY <1>7 DEF PostOk, faulty
  <2>2. CASE c = "rounds"
    BY <2>1, <2>2, RoundCounts
  <2>3. CASE c # "rounds"
    <3>1. Count(c, m)' = Count(c, m) + (IF AtMessage(p, c, m) THEN 1 ELSE 0)
      BY <2>1, <2>3, PostCounts
    <3>2. CASE ~AtMessage(p, c, m)
      BY <1>4, <2>1, <3>1, <3>2
    <3>3. CASE AtMessage(p, c, m)
      <4>1. Open(c, before, m) = Units(c) /\ Works(r, Kind(c)) /\ Weight(c) = 1
        BY <2>1, <2>3, <3>3, MessageIsOpen, CountBasics
      <4>2. Works(n, Kind(c)) /\ m \in n.sent /\ after.day = before.day
            /\ before.day = m[1]
        BY <1>7, <2>1, <3>3, <4>1, LoopCloses, MessageIsOpen DEF AtMessage
      <4>3. Open(c, after, m) = {}
        BY <4>2 DEF Open, View
      <4>4. Cardinality(Open(c, after, m)) = 0 /\ Cardinality(Open(c, before, m)) = 1
        BY <1>2, <4>1, <4>3, UnitsNumber
      <4> QED BY <1>4, <2>1, <3>1, <3>3, <4>4
    <3> QED BY <3>2, <3>3
  <2> QED BY <2>1, <2>2, <2>3
<1>8. ASSUME PostError(p), n.sent = r.sent, n.gaveUp = r.gaveUp,
             \/ failures' = failures /\ n.attempts = r.attempts
             \/ Failed(p, x) /\ n.attempts = Attempts(p, x, r.attempts[x] + 1)
      PROVE  \E f \in {0, 1} :
               /\ faults' = faults + f /\ stops' = stops
               /\ \/ Count(c, m)' = Count(c, m)
                  \/ /\ AtMessage(p, c, m) /\ r.pc = "post"
                     /\ Count(c, m)' + Cardinality(Open(c, after, m))
                          <= Count(c, m) + Cardinality(Open(c, before, m)) + f
  <2>1. PICK f \in {0, 1} :
          /\ faults' = faults + f /\ stops' = stops
          /\ f = 0 => posts' = posts
          /\ f = 1 => posts' = [posts EXCEPT ![r.kind][x] = @ + 1]
    BY <1>4, <1>8 DEF PostError, Fault, faulty
  <2>2. r.pc = "post"
    BY <1>8 DEF PostError
  <2>3. CASE c # "rounds" /\ f = 0
    <3>1. Count(c, m)' = Count(c, m)
      BY <2>1, <2>3 DEF Count
    <3> QED BY <2>1, <3>1
  <2>4. CASE c # "rounds" /\ f = 1
    <3>1. Count(c, m)' = Count(c, m) + (IF AtMessage(p, c, m) THEN 1 ELSE 0)
      BY <2>1, <2>2, <2>4, PostCounts
    <3>2. CASE AtMessage(p, c, m)
      BY <1>3, <1>4, <2>1, <2>2, <2>4, <3>1, <3>2
    <3>3. CASE ~AtMessage(p, c, m)
      BY <1>4, <2>1, <3>1, <3>3
    <3> QED BY <3>2, <3>3
  <2>5. CASE c = "rounds"
    <3>1. CASE failures' = failures
      BY <2>1, <2>2, <2>5, <3>1, RoundCounts
    <3>2. CASE ~AtMessage(p, c, m) /\ Failed(p, x)
      BY <1>4, <2>1, <2>2, <2>5, <3>2, RoundCounts
    <3>3. CASE /\ AtMessage(p, c, m) /\ Failed(p, x)
               /\ n.attempts = Attempts(p, x, r.attempts[x] + 1)
      <4> DEFINE a == r.attempts[m]
      <4>1. Count(c, m)' = Count(c, m) + 1
        BY <2>2, <2>5, <3>3, RoundCounts
      <4>2. /\ Works(r, Kind(c)) /\ before.day = m[1] /\ m \notin r.sent /\ m \notin r.gaveUp
            /\ a \in 0 .. MaxAttempts - 1 /\ Open(c, before, m) = 1 .. (MaxAttempts - a)
        BY <2>2, <2>5, <3>3, MessageIsOpen
      <4>3. /\ Kind(c) = "reports" /\ m \in Reports /\ r.kind = "reports" /\ x = m
            /\ r.attempts \in [Reports -> 0 .. MaxAttempts]
        BY <2>5, <3>3, CountBasics, Basics DEF AtMessage, TypeInv, TypeOK, Processes
      <4>4. n.attempts[m] = a + 1
        BY <3>3, <4>3 DEF Attempts
      <4>5. Works(n, Kind(c)) /\ after.day = m[1]
        BY <4>2, LoopCloses
      <4>6. Open(c, after, m) = 1 .. (MaxAttempts - (a + 1))
        BY <1>8, <2>5, <4>2, <4>3, <4>4, <4>5 DEF Open, View
      <4>7. /\ a \in Nat /\ MaxAttempts \in Nat /\ a + 1 <= MaxAttempts
        BY <4>2, Basics
      <4> HIDE DEF a
      <4>8. /\ Cardinality(1 .. (MaxAttempts - a)) = MaxAttempts - a
            /\ Cardinality(1 .. (MaxAttempts - (a + 1))) = MaxAttempts - (a + 1)
        <5>1. MaxAttempts - a \in Nat /\ MaxAttempts - (a + 1) \in Nat
          BY <4>7
        <5>2. \A k \in Nat : Cardinality(1 .. k) = k
          <6> TAKE k \in Nat
          <6>1. Cardinality(1 .. k) = IF 1 > k THEN 0 ELSE k - 1 + 1
            BY FS_Interval
          <6> QED BY <6>1
        <5> QED BY <5>1, <5>2
      <4>9. Count(c, m)' + Cardinality(Open(c, after, m))
              <= Count(c, m) + Cardinality(Open(c, before, m)) + f
        BY <1>4, <4>1, <4>2, <4>6, <4>7, <4>8
      <4> QED BY <2>1, <2>2, <3>3, <4>9
    <3> QED BY <1>8, <3>1, <3>2, <3>3
  <2> QED BY <2>3, <2>4, <2>5
<1>9. CASE PostOk(p) /\ x \in n.sent
  <2>1. faults' = faults + 0
    BY <1>4, <1>7, <1>9
  <2>2. \/ Count(c, m)' = Count(c, m)
        \/ /\ AtMessage(p, c, m) /\ r.pc = "post"
           /\ Count(c, m)' + Cardinality(Open(c, after, m))
                <= Count(c, m) + Cardinality(Open(c, before, m)) + 0
    BY <1>3, <1>4, <1>7, <1>9
  <2> QED BY <1>5, <1>7, <1>9, <2>1, <2>2
<1>10. CASE /\ PostError(p) /\ n.sent = r.sent /\ n.gaveUp = r.gaveUp
            /\ \/ failures' = failures /\ n.attempts = r.attempts
               \/ Failed(p, x) /\ n.attempts = Attempts(p, x, r.attempts[x] + 1)
  BY <1>5, <1>8, <1>10
<1> QED BY <1>6, <1>9, <1>10, LoopRecord

(* A post whose answer is late costs a fault.  It counts at most once, and *)
(* only for a message that was open; the round ends and forgets.           *)
LEMMA TimeoutPays ==
  ASSUME TypeInv, WorkInv, NEW p \in Procs, PostTimeout(p),
         NEW c \in Counts, NEW m \in Messages(Kind(c))
  PROVE  /\ faults' = faults + 1 /\ stops' = stops
         /\ child[p].pc = "post" /\ child'[p].pc = "truncate"
         /\ Count(c, m)' <= Count(c, m) + 1
         /\ \/ Count(c, m)' = Count(c, m)
            \/ /\ Works(child[p], Kind(c)) /\ View(child[p], Kind(c)).day = m[1]
               /\ Open(c, View(child[p], Kind(c)), m) # {}
<1> DEFINE r == child[p]
           x == NextMessage(p)
<1>1. /\ faults' = faults + 1 /\ stops' = stops /\ r.pc = "post" /\ Failed(p, x)
      /\ child' = [child EXCEPT ![p] = [r EXCEPT !.pc = "truncate"]]
      /\ \E n \in {0, 1} : posts' = [posts EXCEPT ![r.kind][x] = @ + n]
  BY DEF PostTimeout, Fault, RelayStep
<1>2. child'[p].pc = "truncate"
  BY <1>1 DEF TypeInv, TypeOK, Processes
<1>3. Count(c, m) \in Nat
  BY CountType
<1>4. /\ Count(c, m)' <= Count(c, m) + 1
      /\ ~AtMessage(p, c, m) => Count(c, m)' = Count(c, m)
  <2>1. CASE c = "rounds"
    <3>1. Count(c, m)' = Count(c, m) + (IF AtMessage(p, c, m) THEN 1 ELSE 0)
      BY <1>1, <2>1, RoundCounts
    <3> QED BY <1>3, <3>1
  <2>2. CASE c # "rounds"
    <3>1. PICK n \in {0, 1} : posts' = [posts EXCEPT ![r.kind][x] = @ + n]
      BY <1>1
    <3>2. Count(c, m)' = Count(c, m) + (IF AtMessage(p, c, m) THEN n ELSE 0)
      BY <1>1, <2>2, <3>1, PostCounts
    <3>3. CASE AtMessage(p, c, m)
      BY <1>3, <3>2, <3>3
    <3>4. CASE ~AtMessage(p, c, m)
      BY <1>3, <3>2, <3>4
    <3> QED BY <3>3, <3>4
  <2> QED BY <2>1, <2>2
<1>5. ASSUME AtMessage(p, c, m)
      PROVE  /\ Works(r, Kind(c)) /\ View(r, Kind(c)).day = m[1]
             /\ Open(c, View(r, Kind(c)), m) # {}
  <2>1. /\ Works(r, Kind(c)) /\ View(r, Kind(c)).day = m[1]
        /\ c # "rounds" => Open(c, View(r, Kind(c)), m) = Units(c)
        /\ c = "rounds" => /\ r.attempts[m] \in 0 .. MaxAttempts - 1
                           /\ Open(c, View(r, Kind(c)), m) = 1 .. (MaxAttempts - r.attempts[m])
    BY <1>1, <1>5, MessageIsOpen
  <2>2. c # "rounds" => Open(c, View(r, Kind(c)), m) # {}
    BY <2>1, CountBasics
  <2>3. c = "rounds" => 1 \in Open(c, View(r, Kind(c)), m)
    BY <2>1, Basics
  <2> QED BY <2>1, <2>2, <2>3
<1> QED BY <1>1, <1>2, <1>4, <1>5

(* Returning from the loop stores what the round knows, and saving the     *)
(* dictionary changes it no more.                                          *)
LEMMA ReturnStores ==
  ASSUME TypeInv, NEW p \in Procs, Return(p) \/ TruncateState(p), NEW k \in Kinds
  PROVE  View(child'[p], k) = View(child[p], k) /\ ~Works(child'[p], k)
<1> DEFINE r == child[p]
           n == child'[p]
<1>1. /\ r \in Processes /\ r.kind \in Kinds /\ r.dict \in Dict
      /\ \A record : child' = [child EXCEPT ![p] = record] => n = record
  BY DEF TypeInv, TypeOK, Processes
<1>2. CASE Return(p)
  <2>1. n = [r EXCEPT !.pc = "truncate", !.dict = Stored(p)] /\ r.pc = "next"
    BY <1>1, <1>2 DEF Return, RelayStep
  <2>2. n.pc = "truncate" /\ n.dict = Stored(p)
    BY <1>1, <2>1 DEF Processes
  <2>3. View(n, k) = Holds(Stored(p), k) /\ ~Works(n, k)
    BY <2>2 DEF View, Works
  <2>4. CASE r.kind = k
    <3>1. /\ Stored(p).day[k] = r.dict.day[k] /\ Stored(p).sent[k] = r.sent
          /\ k = "reports" => /\ Stored(p).gaveUp = r.gaveUp
                              /\ Stored(p).attempts = r.attempts
      BY <1>1, <2>4 DEF Stored, Dict, Kinds
    <3>2. Works(r, k)
      BY <2>1, <2>4 DEF Works
    <3> QED BY <2>3, <3>1, <3>2 DEF Holds, View, Kinds
  <2>5. CASE r.kind # k
    <3>1. /\ Stored(p).day[k] = r.dict.day[k] /\ Stored(p).sent[k] = r.dict.sent[k]
          /\ k = "reports" => /\ Stored(p).gaveUp = r.dict.gaveUp
                              /\ Stored(p).attempts = r.dict.attempts
      BY <1>1, <2>5 DEF Stored, Dict, Kinds
    <3>2. ~Works(r, k)
      BY <2>5 DEF Works
    <3> QED BY <2>3, <3>1, <3>2 DEF Holds, View, Kinds
  <2> QED BY <2>4, <2>5
<1>3. CASE TruncateState(p)
  <2>1. n = [r EXCEPT !.pc = "write"] /\ r.pc = "truncate"
    BY <1>1, <1>3 DEF TruncateState, RelayStep
  <2>2. n.pc = "write" /\ n.dict = r.dict
    BY <1>1, <2>1 DEF Processes
  <2> QED BY <2>1, <2>2 DEF View, Works
<1> QED BY <1>2, <1>3

\* What a relay takes over from a dictionary when it reads a day: it keeps the
\* knowledge of that day, or that it has when there is nothing to read, and
\* forgets any other.
Takes(after, before, day) ==
  \/ /\ after = before
     /\ before.day = NoDay \/ day = NoDay \/ before.day <= day
  \/ /\ before.day # day /\ day # NoDay /\ after.day = day /\ after.sent = {}
     /\ after.gaveUp = {} /\ after.attempts = NoAttempts

(* A message that the relay has not passed was open by what it loaded.     *)
LEMMA TakesNothingDone ==
  ASSUME NEW c \in Counts, NEW m \in Messages(Kind(c)), NEW before \in Knowledge,
         NEW after \in Knowledge, NEW day \in Days \cup {NoDay},
         Takes(after, before, day)
  PROVE  /\ Left(c, after, m, day) \subseteq Left(c, before, m, day)
         /\ ~Past(after, m) => Open(c, after, m) \subseteq Left(c, before, m, day)
         /\ ~Behind(after, m, day)
<1>1. before.day \in Nat /\ after.day \in Nat /\ m[1] \in Nat /\ day \in Nat
      /\ NoDay \in Nat /\ m[1] < NoDay /\ \A d \in Days : d < NoDay
  BY Basics, CountBasics DEF Knowledge
<1>2. /\ Open(c, after, m) \subseteq Units(c) /\ Left(c, after, m, day) \subseteq Units(c)
  BY CostsAreUnits
<1>3. CASE after = before /\ (before.day = NoDay \/ day = NoDay \/ before.day <= day)
  <2>1. ~Behind(before, m, day)
    BY <1>1, <1>3 DEF Behind, Knowledge
  <2> QED BY <1>3, <2>1 DEF Left
<1>4. CASE before.day # day /\ day # NoDay /\ after.day = day
  <2>1. ~Behind(after, m, day)
    BY <1>1, <1>4 DEF Behind
  <2>2. CASE Past(after, m)
    BY <2>1, <2>2 DEF Left
  <2>3. CASE ~Past(after, m)
    <3>1. day <= m[1]
      BY <1>1, <1>4, <2>3 DEF Past
    <3>2. Left(c, before, m, day) = Units(c)
      <4>1. CASE before.day = NoDay
        BY <1>1, <4>1 DEF Left, Behind, Past, Open
      <4>2. CASE before.day # NoDay /\ before.day < day
        BY <1>1, <3>1, <4>2 DEF Left, Behind, Past, Open
      <4>3. CASE before.day # NoDay /\ day < before.day
        BY <1>1, <3>1, <4>3 DEF Left, Behind
      <4> QED BY <1>1, <1>4, <4>1, <4>2, <4>3
    <3> QED BY <1>2, <2>1, <3>2
  <2> QED BY <2>2, <2>3
<1> QED BY <1>3, <1>4 DEF Takes

\* The day that the spool shows a relay.
DaySpooled(k) ==
  IF k = "reports" THEN Today ELSE IF spoolRows = 0 THEN NoDay ELSE rows[spoolRows]

(* A relay that reads takes over, of its kind, what its dictionary knows   *)
(* of the day that the spool shows.                                        *)
LEMMA ReadTakes ==
  ASSUME TypeInv, DaysInv, NEW p \in Procs, ReadAlerts(p) \/ ReadReports(p),
         NEW k \in Kinds
  PROVE  /\ child[p].pc = "read" /\ child'[p].pc = "next"
         /\ child'[p].kind = child[p].kind
         /\ ~Works(child[p], k) /\ (Works(child'[p], k) <=> child[p].kind = k)
         /\ child[p].kind # k => View(child'[p], k) = View(child[p], k)
         /\ child[p].kind = k => Takes(View(child'[p], k), View(child[p], k), DaySpooled(k))
<1> DEFINE r == child[p]
           n == child'[p]
<1>1. /\ r \in Processes /\ r.dict \in Dict /\ r.kind \in Kinds
      /\ Dated(r.dict, LastDay, Today)
      /\ \A record : child' = [child EXCEPT ![p] = record] => n = record
      /\ spoolRows \in Nat
  BY DEF TypeInv, TypeOK, Processes, DaysInv
<1>2. CASE ReadAlerts(p)
  <2> DEFINE dates == {rows[i] : i \in 1 .. spoolRows}
             dict  == IF dates = {} THEN r.dict ELSE ResetAlerts(r.dict, Max(dates))
             news  == {<<rows[i], i>> : i \in 1 .. spoolRows} \ dict.sent["alerts"]
             todo  == {x \in news : x[1] = dict.day["alerts"]}
  <2>1. /\ r.pc = "read" /\ r.kind = "alerts"
        /\ n = [r EXCEPT !.pc = "next", !.dict = dict, !.sent = dict.sent["alerts"],
                         !.todo = todo]
    BY <1>1, <1>2 DEF ReadAlerts, RelayStep
  <2>2. \/ dict = r.dict /\ spoolRows = 0
        \/ spoolRows > 0 /\ dict = ResetAlerts(r.dict, rows[spoolRows])
           /\ rows[spoolRows] \in Days
    <3>1. CASE spoolRows = 0
      <4>1. dates = {}
        BY <3>1
      <4> QED BY <3>1, <4>1
    <3>2. CASE spoolRows > 0
      <4>1. dates # {} /\ Max(dates) = rows[spoolRows] /\ rows[spoolRows] \in Days
        BY <3>2, LatestRow DEF DaysInv
      <4> HIDE DEF dates
      <4> QED BY <3>2, <4>1
    <3>3. spoolRows = 0 \/ spoolRows > 0
      BY <1>1
    <3> HIDE DEF dict
    <3> QED BY <3>1, <3>2, <3>3
  <2> HIDE DEF dict, todo
  <2>3. /\ n.pc = "next" /\ n.kind = "alerts" /\ n.dict = dict
        /\ n.sent = dict.sent["alerts"]
    BY <1>1, <2>1 DEF Processes
  <2>4. ~Works(r, k) /\ (Works(n, k) <=> k = "alerts") /\ View(r, k) = Holds(r.dict, k)
        /\ View(n, k) = Holds(dict, k)
    BY <2>1, <2>3 DEF Works, View, Holds
  <2>5. CASE k = "reports"
    <3>1. /\ dict.day[k] = r.dict.day[k] /\ dict.sent[k] = r.dict.sent[k]
          /\ dict.gaveUp = r.dict.gaveUp /\ dict.attempts = r.dict.attempts
      <4>1. /\ dict.day["reports"] = r.dict.day["reports"]
            /\ dict.sent["reports"] = r.dict.sent["reports"]
            /\ dict.gaveUp = r.dict.gaveUp /\ dict.attempts = r.dict.attempts
        <5>1. CASE dict = r.dict
          BY <5>1
        <5>2. CASE dict = ResetAlerts(r.dict, rows[spoolRows])
          BY <1>1, <5>2 DEF ResetAlerts, Dict, Kinds
        <5> QED BY <2>2, <5>1, <5>2
      <4> QED BY <2>5, <4>1
    <3>2. View(n, k) = View(r, k)
      BY <2>4, <3>1 DEF Holds
    <3> QED BY <2>1, <2>3, <2>4, <2>5, <3>2
  <2>6. CASE k = "alerts"
    <3>1. /\ View(r, k).day = r.dict.day[k] /\ View(n, k).day = dict.day[k]
          /\ View(n, k).sent = dict.sent[k]
          /\ View(n, k).gaveUp = {} /\ View(n, k).attempts = NoAttempts
      BY <2>4, <2>6 DEF Holds
    <3>2. CASE spoolRows = 0
      <4>1. DaySpooled(k) = NoDay /\ View(n, k) = View(r, k)
        BY <2>2, <2>4, <2>6, <3>2 DEF DaySpooled
      <4> QED BY <2>1, <2>3, <2>4, <2>6, <4>1 DEF Takes
    <3>3. CASE spoolRows > 0
      <4> DEFINE day == rows[spoolRows]
      <4>1. DaySpooled(k) = day /\ day # NoDay /\ day \in Nat /\ dict = ResetAlerts(r.dict, day)
        <5>1. rows[spoolRows] \in Days /\ dict = ResetAlerts(r.dict, rows[spoolRows])
          BY <1>1, <2>2, <3>3
        <5>2. day \in Nat /\ day < NoDay /\ NoDay \in Nat
          BY <5>1, Basics
        <5> QED BY <1>1, <2>6, <3>3, <5>1, <5>2 DEF DaySpooled
      <4> HIDE DEF day
      <4>2. CASE r.dict.day["alerts"] = day
        <5>1. View(n, k) = View(r, k) /\ View(r, k).day <= DaySpooled(k)
          BY <2>4, <2>6, <3>1, <4>1, <4>2 DEF ResetAlerts
        <5> QED BY <2>1, <2>3, <2>4, <2>6, <5>1 DEF Takes
      <4>3. CASE r.dict.day["alerts"] # day
        <5>1. dict.day["alerts"] = day /\ dict.sent["alerts"] = {}
          BY <1>1, <4>1, <4>3 DEF ResetAlerts, Dict, Kinds
        <5> QED BY <2>1, <2>3, <2>4, <2>6, <3>1, <4>1, <4>3, <5>1 DEF Takes
      <4> QED BY <4>2, <4>3
    <3> QED BY <1>1, <3>2, <3>3
  <2> QED BY <2>5, <2>6 DEF Kinds
<1>3. CASE ReadReports(p)
  <2> DEFINE todays == {x \in Reports : x[1] = Today /\ spoolReports[x] # "none"}
             dict   == IF todays = {} THEN r.dict ELSE ResetReports(r.dict, Today)
             todo   == (todays \ dict.sent["reports"]) \ dict.gaveUp
  <2>1. /\ r.pc = "read" /\ r.kind = "reports"
        /\ n = [r EXCEPT !.pc = "next", !.dict = dict, !.sent = dict.sent["reports"],
                         !.gaveUp = dict.gaveUp, !.attempts = dict.attempts, !.todo = todo]
    BY <1>1, <1>3 DEF ReadReports, RelayStep
  <2>2. dict = r.dict \/ dict = ResetReports(r.dict, Today)
    OBVIOUS
  <2> HIDE DEF dict, todo
  <2>3. /\ n.pc = "next" /\ n.kind = "reports" /\ n.dict = dict
        /\ n.sent = dict.sent["reports"] /\ n.gaveUp = dict.gaveUp
        /\ n.attempts = dict.attempts
    BY <1>1, <2>1 DEF Processes
  <2>4. ~Works(r, k) /\ (Works(n, k) <=> k = "reports") /\ View(r, k) = Holds(r.dict, k)
        /\ View(n, k) = Holds(dict, k)
    BY <2>1, <2>3 DEF Works, View, Holds
  <2>5. CASE k = "alerts"
    <3>1. /\ dict.day[k] = r.dict.day[k] /\ dict.sent[k] = r.dict.sent[k]
      <4>1. /\ dict.day["alerts"] = r.dict.day["alerts"]
            /\ dict.sent["alerts"] = r.dict.sent["alerts"]
        <5>1. CASE dict = r.dict
          BY <5>1
        <5>2. CASE dict = ResetReports(r.dict, Today)
          BY <1>1, <5>2 DEF ResetReports, Dict, Kinds
        <5> QED BY <2>2, <5>1, <5>2
      <4> QED BY <2>5, <4>1
    <3>2. View(n, k) = View(r, k)
      BY <2>4, <2>5, <3>1 DEF Holds
    <3> QED BY <2>1, <2>3, <2>4, <2>5, <3>2
  <2>6. CASE k = "reports"
    <3>1. /\ View(r, k).day = r.dict.day[k] /\ View(n, k).day = dict.day[k]
          /\ View(n, k).sent = dict.sent[k]
          /\ View(n, k).gaveUp = dict.gaveUp /\ View(n, k).attempts = dict.attempts
      BY <2>4, <2>6 DEF Holds
    <3>2. DaySpooled(k) = Today /\ Today # NoDay /\ Today \in Nat
      <4>1. Today \in Nat /\ Today < NoDay /\ NoDay \in Nat
        BY TodayIsADay, Basics
      <4> QED BY <2>6, <4>1 DEF DaySpooled
    <3>3. CASE dict = r.dict
      <4>1. View(n, k) = View(r, k) /\ (View(r, k).day = NoDay \/ View(r, k).day <= Today)
        BY <1>1, <2>4, <2>6, <3>1, <3>3 DEF Dated
      <4> QED BY <2>1, <2>3, <2>4, <2>6, <3>2, <4>1 DEF Takes
    <3>4. CASE dict = ResetReports(r.dict, Today) /\ dict # r.dict
      <4>1. /\ r.dict.day["reports"] # Today
            /\ dict.day["reports"] = Today /\ dict.sent["reports"] = {}
            /\ dict.gaveUp = {} /\ dict.attempts = NoAttempts
        BY <1>1, <3>4 DEF ResetReports, Dict, Kinds
      <4> QED BY <2>1, <2>3, <2>4, <2>6, <3>1, <3>2, <4>1 DEF Takes
    <3> QED BY <2>2, <3>3, <3>4
  <2> QED BY <2>5, <2>6 DEF Kinds
<1> QED BY <1>2, <1>3

-----------------------------------------------------------------------------
(* The ways in which a step pays *)

\* The step of a process has nothing to pay for: nobody owes more.
Nothing(p, c, m) ==
  /\ Official(c, m)' \subseteq Official(c, m) /\ Detour(c, m)' \subseteq Detour(c, m)
  /\ OwnUpsets(p, c)' \subseteq OwnUpsets(p, c)
  /\ OwnRepeats(p, c, m)' \subseteq OwnRepeats(p, c, m)
  /\ Count(c, m)' = Count(c, m)

\* The orchestrator's child pays with what it owed: a detour it does not make,
\* or what it has counted; or with a fault.
ChildPays(p, c, m, f) ==
  /\ OwnUpsets(p, c)' = {} /\ OwnRepeats(p, c, m)' = {}
  /\ \/ /\ Official(c, m)' \subseteq Official(c, m) \cup Detour(c, m)
        /\ Detour(c, m)' = {} /\ Count(c, m)' = Count(c, m)
     \/ /\ f = 1 /\ Detour(c, m)' = {}
        /\ \/ Count(c, m)' = Count(c, m)
           \/ Official(c, m) # {} /\ Count(c, m)' <= Count(c, m) + 1
     \/ /\ Detour(c, m)' \subseteq Detour(c, m)
        /\ Count(c, m)' + Cardinality(Official(c, m)')
             <= Count(c, m) + Cardinality(Official(c, m)) + f

\* A child that was left behind pays with its upset, with what it knew, with
\* what it has counted, or with a fault.
OrphanPays(p, c, m, f) ==
  \/ /\ OwnUpsets(p, c) = Units(c) /\ OwnUpsets(p, c)' = {}
     /\ OwnRepeats(p, c, m)' \subseteq OwnRepeats(p, c, m) /\ Count(c, m)' = Count(c, m)
     /\ \/ Official(c, m)' \subseteq Official(c, m)
        \/ Detour(c, m)' \subseteq Detour(c, m)
  \/ /\ Official(c, m)' \subseteq Official(c, m) \cup OwnRepeats(p, c, m)
     /\ OwnRepeats(p, c, m)' = {} /\ Detour(c, m)' \subseteq Detour(c, m)
     /\ OwnUpsets(p, c)' = {} /\ Count(c, m)' = Count(c, m)
  \/ /\ Official(c, m)' \subseteq Official(c, m) /\ Detour(c, m)' \subseteq Detour(c, m)
     /\ OwnUpsets(p, c)' \subseteq OwnUpsets(p, c)
     /\ \/ /\ f = 1
           /\ \/ Count(c, m)' = Count(c, m)
              \/ OwnRepeats(p, c, m) # {} /\ Count(c, m)' <= Count(c, m) + 1
        \/ Count(c, m)' + Cardinality(OwnRepeats(p, c, m)')
             <= Count(c, m) + Cardinality(OwnRepeats(p, c, m)) + f

\* The ways in which a step pays, by the numbers: n is what is counted, o, d,
\* u and r are what the orchestrator's rounds, their detour and process p owe,
\* first before the step and then after it.
Bounded(n, o, d, u, r, w) ==
  n \in Nat /\ o \in 0 .. w /\ d \in 0 .. w /\ u \in 0 .. w /\ r \in 0 .. w
Covered(n, o, d, u, r, nn, oo, dd, uu, rr, w, f) ==
  /\ Bounded(n, o, d, u, r, w) /\ Bounded(nn, oo, dd, uu, rr, w)
  /\ \/ nn = n /\ oo <= o /\ dd <= d /\ uu <= u /\ rr <= r
     \/ /\ uu = 0 /\ rr = 0
        /\ \/ oo <= o + d /\ dd = 0 /\ nn = n
           \/ f = 1 /\ dd = 0 /\ (nn = n \/ (o >= 1 /\ nn <= n + 1))
           \/ dd <= d /\ nn + oo <= n + o + f
     \/ u = w /\ uu = 0 /\ rr <= r /\ nn = n /\ (oo <= o \/ dd <= d)
     \/ oo <= o + r /\ rr = 0 /\ dd <= d /\ uu = 0 /\ nn = n
     \/ /\ oo <= o /\ dd <= d /\ uu <= u
        /\ \/ f = 1 /\ (nn = n \/ (r >= 1 /\ nn <= n + 1))
           \/ nn + rr <= n + r + f

(* A step that pays in one of them is covered by its faults. *)
LEMMA CoveredSum ==
  ASSUME NEW w \in Nat \ {0}, NEW f \in {0, 1},
         NEW n, NEW o, NEW d, NEW u, NEW r, NEW nn, NEW oo, NEW dd, NEW uu, NEW rr,
         Covered(n, o, d, u, r, nn, oo, dd, uu, rr, w, f)
  PROVE  nn + (oo + dd + uu + rr) <= n + (o + d + u + r) + w * f + 2 * (w * 0)
<1>1. w * f = (IF f = 1 THEN w ELSE 0) /\ w * 0 = 0
  OBVIOUS
<1> QED BY <1>1 DEF Covered, Bounded

(* A step of one process that pays in one of these ways leaves the account *)
(* settled.                                                                *)
LEMMA ProcessPays ==
  ASSUME TypeInv, TypeInv', NEW c \in Counts, NEW m \in Messages(Kind(c)),
         NEW p \in Procs, orch' = orch, \A q \in Procs : q # p => child'[q] = child[q],
         NEW f \in {0, 1}, faults' = faults + f, stops' = stops,
         Nothing(p, c, m) \/ ChildPays(p, c, m, f) \/ OrphanPays(p, c, m, f),
         Account(c, m)
  PROVE  Account(c, m)'
<1> DEFINE w == Weight(c)
           o == Cardinality(Official(c, m))
           d == Cardinality(Detour(c, m))
           u == Cardinality(OwnUpsets(p, c))
           r == Cardinality(OwnRepeats(p, c, m))
           n == Count(c, m)
<1>1. /\ Official(c, m) \in SUBSET Units(c) /\ Detour(c, m) \in SUBSET Units(c)
      /\ OwnUpsets(p, c) \in SUBSET Units(c) /\ OwnRepeats(p, c, m) \in SUBSET Units(c)
  BY FeeNumbers, OfficialType
<1>2. /\ Official(c, m)' \in SUBSET Units(c) /\ Detour(c, m)' \in SUBSET Units(c)
      /\ OwnUpsets(p, c)' \in SUBSET Units(c) /\ OwnRepeats(p, c, m)' \in SUBSET Units(c)
  BY UnitsLater
<1>3. Bounded(n, o, d, u, r, w) /\ Bounded(n', o', d', u', r', w)
  <2>1. w \in Nat /\ n \in Nat /\ n' \in Nat
    BY NumbersLater, CountBasics DEF Numbers
  <2>2. \A S \in SUBSET Units(c) : Cardinality(S) \in 0 .. w
    BY <2>1, UnitsNumber
  <2> QED BY <1>1, <1>2, <2>1, <2>2 DEF Bounded
<1>4. /\ Official(c, m)' \subseteq Official(c, m) => o' <= o
      /\ Detour(c, m)' \subseteq Detour(c, m) => d' <= d
      /\ OwnUpsets(p, c)' \subseteq OwnUpsets(p, c) => u' <= u
      /\ OwnRepeats(p, c, m)' \subseteq OwnRepeats(p, c, m) => r' <= r
  BY <1>1, UnitsSubset
<1>5. /\ Detour(c, m)' = {} => d' = 0
      /\ OwnUpsets(p, c)' = {} => u' = 0
      /\ OwnRepeats(p, c, m)' = {} => r' = 0
      /\ OwnUpsets(p, c) = Units(c) => u = w
      /\ Official(c, m) # {} => o >= 1
      /\ OwnRepeats(p, c, m) # {} => r >= 1
  BY <1>1, <1>2, UnitsNumber
<1>6. /\ Official(c, m)' \subseteq Official(c, m) \cup Detour(c, m) => o' <= o + d
      /\ Official(c, m)' \subseteq Official(c, m) \cup OwnRepeats(p, c, m) => o' <= o + r
  BY <1>1, <1>2, UnitsAdd
<1>7. Covered(n, o, d, u, r, n', o', d', u', r', w, f)
  <2>1. CASE Nothing(p, c, m)
    BY <1>3, <1>4, <2>1 DEF Nothing, Covered
  <2>2. CASE ChildPays(p, c, m, f)
    BY <1>3, <1>4, <1>5, <1>6, <2>2 DEF ChildPays, Covered
  <2>3. CASE OrphanPays(p, c, m, f)
    BY <1>3, <1>4, <1>5, <1>6, <2>3 DEF OrphanPays, Covered
  <2> QED BY <2>1, <2>2, <2>3
<1>8. Pays(p, c, m, f, 0)
  <2>1. w \in Nat \ {0}
    BY CountBasics
  <2>2. n' + (o' + d' + u' + r') <= n + (o + d + u + r) + w * f + 2 * (w * 0)
    BY <1>7, <2>1, CoveredSum
  <2> QED BY <2>2 DEF Pays, Fee
<1>9. \A q \in Procs : q # p => child'[q] = child[q] /\ (Orphan(q)' <=> Orphan(q))
  BY DEF Orphan
<1>10. f \in Nat /\ stops' = stops + 0
  BY DEF TypeInv, TypeOK
<1> QED BY <1>8, <1>9, <1>10, Settled

-----------------------------------------------------------------------------
(* The steps of the orchestrator's child *)

\* Process p is the child that the orchestrator waits for.
Child(p) == p = orch.proc /\ orch.pc \in Supervised

(* The day that a relay would read stays while the monitor's rows, the     *)
(* spool and the date do.                                                  *)
LEMMA DayStays ==
  ASSUME UNCHANGED <<now, rows, spoolRows>>,
         Stage = "gettingRows" <=> Stage' = "gettingRows", NEW k
  PROVE  DayRead(k)' = DayRead(k)
  BY DEF DayRead, Today

(* What the orchestrator's next rounds owe is told by its child.           *)
LEMMA ChildTells ==
  ASSUME NEW c \in Counts, NEW m, NEW p, Child(p), orch' = orch
  PROVE  /\ Child(p)' /\ Stage = child[p].pc /\ Stage' = child'[p].pc
         /\ OwnUpsets(p, c) = {} /\ OwnUpsets(p, c)' = {}
         /\ OwnRepeats(p, c, m) = {} /\ OwnRepeats(p, c, m)' = {}
         /\ Official(c, m) = OfficialOf(c, m, child[p].pc, Works(child[p], Kind(c)),
              View(child[p], Kind(c)), Holds(stateFile, Kind(c)), DayRead(Kind(c)))
         /\ Official(c, m)' = OfficialOf(c, m, child'[p].pc, Works(child'[p], Kind(c)),
              View(child'[p], Kind(c)), Holds(stateFile', Kind(c)), DayRead(Kind(c))')
         /\ Detour(c, m) = DetourOf(c, m, child[p].pc, Works(child[p], Kind(c)),
              View(child[p], Kind(c)), DayRead(Kind(c)))
         /\ Detour(c, m)' = DetourOf(c, m, child'[p].pc, Works(child'[p], Kind(c)),
              View(child'[p], Kind(c)), DayRead(Kind(c))')
<1>1. /\ Child(p)' /\ Stage = child[p].pc /\ Stage' = child'[p].pc
      /\ ~Orphan(p) /\ ~Orphan(p)'
  BY DEF Child, Stage, Orphan
<1>2. /\ OwnUpsets(p, c) = {} /\ OwnUpsets(p, c)' = {}
      /\ OwnRepeats(p, c, m) = {} /\ OwnRepeats(p, c, m)' = {}
  BY <1>1 DEF OwnUpsets, OwnRepeats
<1>3. orch.proc = p /\ orch'.proc = p
  BY DEF Child
<1> QED BY <1>1, <1>2, <1>3 DEF Official, Detour

(* In the loop, the child pays for what it counts with what was open. *)
LEMMA ChildLoops ==
  ASSUME TypeInv, TypeInv', WorkInv, NEW p \in Procs, Child(p),
         TakeUp(p) \/ PostOk(p) \/ PostError(p),
         NEW c \in Counts, NEW m \in Messages(Kind(c)), Account(c, m)
  PROVE  Account(c, m)'
<1> DEFINE r    == child[p]
           n    == child'[p]
           v    == View(r, Kind(c))
           vv   == View(n, Kind(c))
           file == Holds(stateFile, Kind(c))
           day  == DayRead(Kind(c))
<1>1. /\ orch' = orch /\ stateFile' = stateFile
      /\ UNCHANGED <<now, rows, spoolRows>>
      /\ \A q \in Procs : q # p => child'[q] = child[q]
  BY DEF TakeUp, PostOk, PostError, RelayStep, TypeInv, monitor, spool
<1>2. /\ r.pc \in {"next", "post"} /\ n.pc \in {"next", "post"}
      /\ n.kind = r.kind
      /\ vv.day = v.day /\ Open(c, vv, m) \subseteq Open(c, v, m)
      /\ ~Works(r, Kind(c)) => vv = v
  BY LoopRecord, LoopCloses
<1>3. PICK f \in {0, 1} :
        /\ faults' = faults + f /\ stops' = stops
        /\ Count(c, m)' + Cardinality(Open(c, vv, m))
             <= Count(c, m) + Cardinality(Open(c, v, m)) + f
        /\ \/ Count(c, m)' = Count(c, m)
           \/ Works(r, Kind(c)) /\ v.day = m[1]
  BY LoopPays
<1>4. DayRead(Kind(c))' = day
  BY <1>1, <1>2, ChildTells, DayStays
<1>5. Works(n, Kind(c)) = Works(r, Kind(c))
  BY <1>2 DEF Works
<1>6. /\ OwnUpsets(p, c) = {} /\ OwnUpsets(p, c)' = {}
      /\ OwnRepeats(p, c, m) = {} /\ OwnRepeats(p, c, m)' = {}
      /\ Official(c, m) = OfficialOf(c, m, r.pc, Works(r, Kind(c)), v, file, day)
      /\ Official(c, m)' = OfficialOf(c, m, n.pc, Works(r, Kind(c)), vv, file, day)
      /\ Detour(c, m) = DetourOf(c, m, r.pc, Works(r, Kind(c)), v, day)
      /\ Detour(c, m)' = DetourOf(c, m, n.pc, Works(r, Kind(c)), vv, day)
  BY <1>1, <1>4, <1>5, ChildTells
<1>7. /\ Past(vv, m) <=> Past(v, m)
      /\ Behind(vv, m, day) <=> Behind(v, m, day)
      /\ Left(c, vv, m, day) \subseteq Left(c, v, m, day)
  BY <1>2 DEF Past, Behind, Left
<1>8. Detour(c, m)' = Detour(c, m)
  BY <1>2, <1>6, <1>7 DEF DetourOf
<1>9. CASE Past(v, m)
  <2>1. v.day # m[1]
    <3>1. m[1] \in Nat
      BY CountBasics, Basics
    <3> QED BY <1>9, <3>1 DEF Past
  <2>2. Official(c, m)' \subseteq Official(c, m)
    BY <1>2, <1>6, <1>7, <1>9 DEF OfficialOf, Holding
  <2>3. Nothing(p, c, m)
    BY <1>3, <1>6, <1>8, <2>1, <2>2 DEF Nothing
  <2> QED BY <1>1, <1>3, <2>3, ProcessPays
<1>10. CASE ~Past(v, m) /\ Works(r, Kind(c))
  <2>1. Official(c, m) = Open(c, v, m) /\ Official(c, m)' = Open(c, vv, m)
    BY <1>2, <1>6, <1>7, <1>10 DEF OfficialOf, Holding
  <2>2. ChildPays(p, c, m, f)
    BY <1>3, <1>6, <1>8, <2>1 DEF ChildPays
  <2> QED BY <1>1, <1>3, <2>2, ProcessPays
<1>11. CASE ~Past(v, m) /\ ~Works(r, Kind(c))
  <2>1. Official(c, m)' = Official(c, m)
    BY <1>2, <1>6, <1>11 DEF OfficialOf, Holding
  <2>2. Nothing(p, c, m)
    BY <1>3, <1>6, <1>8, <1>11, <2>1 DEF Nothing
  <2> QED BY <1>1, <1>3, <2>2, ProcessPays
<1> QED BY <1>9, <1>10, <1>11

(* When an answer is late, the child pays with the fault for forgetting    *)
(* its round, and with what was open for what was counted.                 *)
LEMMA ChildTimesOut ==
  ASSUME TypeInv, TypeInv', WorkInv, NEW p \in Procs, Child(p), PostTimeout(p),
         NEW c \in Counts, NEW m \in Messages(Kind(c)), Account(c, m)
  PROVE  Account(c, m)'
<1> DEFINE r == child[p]
           v == View(r, Kind(c))
<1>1. /\ orch' = orch /\ \A q \in Procs : q # p => child'[q] = child[q]
  BY DEF PostTimeout, RelayStep, TypeInv
<1>2. /\ faults' = faults + 1 /\ stops' = stops
      /\ r.pc = "post" /\ child'[p].pc = "truncate"
      /\ Count(c, m)' <= Count(c, m) + 1
      /\ \/ Count(c, m)' = Count(c, m)
         \/ Works(r, Kind(c)) /\ v.day = m[1] /\ Open(c, v, m) # {}
  BY TimeoutPays
<1>3. OwnUpsets(p, c)' = {} /\ OwnRepeats(p, c, m)' = {} /\ Detour(c, m)' = {}
  BY <1>1, <1>2, ChildTells DEF DetourOf
<1>4. ASSUME Works(r, Kind(c)), v.day = m[1]
      PROVE  Official(c, m) = Open(c, v, m)
  <2>1. ~Past(v, m)
    <3>1. m[1] \in Nat
      BY CountBasics, Basics
    <3> QED BY <1>4, <3>1 DEF Past
  <2> QED BY <1>1, <1>2, <1>4, <2>1, ChildTells DEF OfficialOf, Holding
<1>5. ChildPays(p, c, m, 1)
  BY <1>2, <1>3, <1>4 DEF ChildPays
<1> QED BY <1>1, <1>2, <1>5, ProcessPays

(* Reading, the child comes to no message that it had done. *)
LEMMA ChildReads ==
  ASSUME TypeInv, TypeInv', DaysInv, NEW p \in Procs, Child(p),
         ReadAlerts(p) \/ ReadReports(p),
         NEW c \in Counts, NEW m \in Messages(Kind(c)), Account(c, m)
  PROVE  Account(c, m)'
<1> DEFINE r    == child[p]
           n    == child'[p]
           v    == View(r, Kind(c))
           vv   == View(n, Kind(c))
           file == Holds(stateFile, Kind(c))
           day  == DayRead(Kind(c))
<1>1. /\ orch' = orch /\ stateFile' = stateFile
      /\ UNCHANGED <<now, rows, spoolRows, posts, failures, faults, stops>>
      /\ \A q \in Procs : q # p => child'[q] = child[q]
  BY DEF ReadAlerts, ReadReports, RelayStep, TypeInv, monitor, spool, robot, faulty
<1>2. Kind(c) \in Kinds
  BY CountBasics
<1>3. /\ r.pc = "read" /\ n.pc = "next" /\ n.kind = r.kind
      /\ Works(n, Kind(c)) <=> r.kind = Kind(c)
      /\ r.kind # Kind(c) => vv = v
      /\ r.kind = Kind(c) => Takes(vv, v, DaySpooled(Kind(c)))
  BY <1>2, ReadTakes
<1>4. DayRead(Kind(c))' = day
  BY <1>1, <1>3, ChildTells, DayStays
<1>5. day = DaySpooled(Kind(c)) /\ day \in Days \cup {NoDay}
  BY <1>1, <1>2, <1>3, ChildTells, DayReadType DEF DayRead, DaySpooled
<1>6. vv \in Knowledge /\ v \in Knowledge
  <2>1. r \in SoundProcess /\ n \in SoundProcess
    BY DEF TypeInv
  <2> QED BY <1>2, <2>1, KnowledgeTypes
<1>7. /\ OwnUpsets(p, c)' = {} /\ OwnRepeats(p, c, m)' = {}
      /\ Official(c, m) = OfficialOf(c, m, r.pc, Works(r, Kind(c)), v, file, day)
      /\ Official(c, m)' = OfficialOf(c, m, n.pc, Works(n, Kind(c)), vv, file, day)
      /\ Detour(c, m)' = DetourOf(c, m, n.pc, Works(n, Kind(c)), vv, day)
  BY <1>1, <1>4, ChildTells
<1>8. Official(c, m) = Left(c, v, m, day) \cup Left(c, file, m, day)
  BY <1>3, <1>7 DEF OfficialOf, Holding
<1>9. Official(c, m)' \subseteq Official(c, m) /\ Detour(c, m)' = {}
  <2>1. CASE r.kind # Kind(c)
    BY <1>3, <1>7, <1>8, <2>1 DEF OfficialOf, DetourOf, Holding
  <2>2. CASE r.kind = Kind(c)
    <3>1. /\ Left(c, vv, m, day) \subseteq Left(c, v, m, day)
          /\ ~Past(vv, m) => Open(c, vv, m) \subseteq Left(c, v, m, day)
          /\ ~Behind(vv, m, day)
      BY <1>3, <1>5, <1>6, <2>2, TakesNothingDone
    <3>2. Works(n, Kind(c))
      BY <1>3, <2>2
    <3> QED BY <1>3, <1>7, <1>8, <3>1, <3>2 DEF OfficialOf, DetourOf, Holding
  <2> QED BY <2>1, <2>2
<1>10. Count(c, m)' = Count(c, m)
  BY <1>1 DEF Count
<1>11. Nothing(p, c, m)
  BY <1>7, <1>9, <1>10 DEF Nothing
<1>12. faults' = faults + 0 /\ stops' = stops
  BY <1>1 DEF TypeInv, TypeOK
<1> QED BY <1>1, <1>11, <1>12, ProcessPays

(* Returning and saving, the child keeps what it knows; a detour that      *)
(* threatened while it worked may come.                                    *)
LEMMA ChildReturns ==
  ASSUME TypeInv, TypeInv', NEW p \in Procs, Child(p),
         Return(p) \/ TruncateState(p),
         NEW c \in Counts, NEW m \in Messages(Kind(c)), Account(c, m)
  PROVE  Account(c, m)'
<1> DEFINE r    == child[p]
           n    == child'[p]
           v    == View(r, Kind(c))
           file == Holds(stateFile, Kind(c))
           day  == DayRead(Kind(c))
<1>1. /\ orch' = orch
      /\ UNCHANGED <<now, rows, spoolRows, posts, failures, faults, stops>>
      /\ \A q \in Procs : q # p => child'[q] = child[q]
  BY DEF Return, TruncateState, RelayStep, TypeInv, monitor, spool, robot, faulty
<1>2. View(n, Kind(c)) = v /\ ~Works(n, Kind(c))
  BY CountBasics, ReturnStores
<1>3. \/ r.pc = "next" /\ n.pc = "truncate" /\ stateFile' = stateFile
      \/ r.pc = "truncate" /\ n.pc = "write"
  <2>1. r \in Processes
    BY DEF TypeInv, TypeOK
  <2>2. CASE Return(p)
    <3>1. /\ r.pc = "next" /\ stateFile' = stateFile
          /\ n = [r EXCEPT !.pc = "truncate", !.dict = Stored(p)]
      BY <2>2 DEF Return, RelayStep, TypeInv
    <3> QED BY <2>1, <3>1 DEF Processes
  <2>3. CASE TruncateState(p)
    <3>1. r.pc = "truncate" /\ n = [r EXCEPT !.pc = "write"]
      BY <2>3 DEF TruncateState, RelayStep, TypeInv
    <3> QED BY <2>1, <3>1 DEF Processes
  <2> QED BY <2>2, <2>3
<1>4. DayRead(Kind(c))' = day
  BY <1>1, <1>3, ChildTells, DayStays
<1>5. /\ OwnUpsets(p, c)' = {} /\ OwnRepeats(p, c, m)' = {}
      /\ Official(c, m) = OfficialOf(c, m, r.pc, Works(r, Kind(c)), v, file, day)
      /\ Official(c, m)' = OfficialOf(c, m, n.pc, Works(n, Kind(c)), v,
                                      Holds(stateFile', Kind(c)), day)
      /\ Detour(c, m) = DetourOf(c, m, r.pc, Works(r, Kind(c)), v, day)
      /\ Detour(c, m)' = DetourOf(c, m, n.pc, Works(n, Kind(c)), v, day)
  BY <1>1, <1>2, <1>4, ChildTells
<1>6. Detour(c, m)' = {} /\ Count(c, m)' = Count(c, m)
  BY <1>1, <1>3, <1>5 DEF DetourOf, Count
<1>7. Official(c, m)' \subseteq Official(c, m) \cup Detour(c, m)
  <2>1. CASE r.pc = "next" /\ n.pc = "truncate" /\ stateFile' = stateFile
    <3>1. CASE Past(v, m)
      BY <1>5, <2>1, <3>1 DEF OfficialOf, Holding
    <3>2. CASE ~Past(v, m) /\ Works(r, Kind(c))
      <4>1. Official(c, m)' = Left(c, v, m, day) /\ Official(c, m) = Open(c, v, m)
        BY <1>2, <1>5, <2>1, <3>2 DEF OfficialOf, Holding
      <4>2. Behind(v, m, day) => Detour(c, m) = Units(c)
        BY <1>5, <2>1, <3>2 DEF DetourOf
      <4> QED BY <3>2, <4>1, <4>2 DEF Left
    <3>3. CASE ~Past(v, m) /\ ~Works(r, Kind(c))
      BY <1>2, <1>5, <2>1, <3>3 DEF OfficialOf, Holding
    <3> QED BY <3>1, <3>2, <3>3
  <2>2. CASE r.pc = "truncate" /\ n.pc = "write"
    <3>1. ~Works(r, Kind(c))
      BY <2>2 DEF Works
    <3> QED BY <1>5, <2>2, <3>1 DEF OfficialOf, Holding
  <2> QED BY <1>3, <2>1, <2>2
<1>8. ChildPays(p, c, m, 0)
  BY <1>5, <1>6, <1>7 DEF ChildPays
<1>9. faults' = faults + 0 /\ stops' = stops
  BY <1>1 DEF TypeInv, TypeOK
<1> QED BY <1>1, <1>8, <1>9, ProcessPays

(* Loading the state file and writing it, the child knows what it knows.   *)
LEMMA ChildLoadsAndWrites ==
  ASSUME TypeInv, TypeInv', NEW p \in Procs, Child(p),
         LoadState(p) \/ WriteState(p),
         NEW c \in Counts, NEW m \in Messages(Kind(c)), Account(c, m)
  PROVE  Account(c, m)'
<1> DEFINE r    == child[p]
           n    == child'[p]
           file == Holds(stateFile, Kind(c))
           day  == DayRead(Kind(c))
<1>1. /\ orch' = orch
      /\ UNCHANGED <<now, rows, spoolRows, posts, failures, faults, stops>>
      /\ \A q \in Procs : q # p => child'[q] = child[q]
  BY DEF LoadState, WriteState, RelayStep, TypeInv, monitor, spool, robot, faulty
<1>2. \/ r.pc = "load" /\ n.pc = "read" /\ n.dict = stateFile /\ stateFile' = stateFile
      \/ r.pc = "write" /\ n.pc = "exited" /\ stateFile' = r.dict
  <2>1. r \in Processes
    BY DEF TypeInv, TypeOK
  <2>2. CASE LoadState(p)
    <3>1. /\ r.pc = "load" /\ stateFile' = stateFile
          /\ n = [r EXCEPT !.pc = "read", !.dict = stateFile]
      BY <2>2 DEF LoadState, RelayStep, TypeInv
    <3> QED BY <2>1, <3>1 DEF Processes
  <2>3. CASE WriteState(p)
    <3>1. r.pc = "write" /\ stateFile' = r.dict /\ n = Exited(TRUE)
      BY <2>3 DEF WriteState, RelayStep, TypeInv
    <3> QED BY <3>1 DEF Exited
  <2> QED BY <2>2, <2>3
<1>3. DayRead(Kind(c))' = day
  BY <1>1, <1>2, ChildTells, DayStays
<1>4. /\ OwnUpsets(p, c)' = {} /\ OwnRepeats(p, c, m)' = {}
      /\ Official(c, m) = OfficialOf(c, m, r.pc, Works(r, Kind(c)), View(r, Kind(c)), file, day)
      /\ Official(c, m)' = OfficialOf(c, m, n.pc, Works(n, Kind(c)), View(n, Kind(c)),
                                      Holds(stateFile', Kind(c)), day)
      /\ Detour(c, m)' = DetourOf(c, m, n.pc, Works(n, Kind(c)), View(n, Kind(c)), day)
  BY <1>1, <1>3, ChildTells
<1>5. Detour(c, m)' = {} /\ Count(c, m)' = Count(c, m)
  BY <1>1, <1>2, <1>4 DEF DetourOf, Count
<1>6. Official(c, m)' = Official(c, m)
  <2>1. CASE r.pc = "load" /\ n.pc = "read" /\ n.dict = stateFile /\ stateFile' = stateFile
    <3>1. View(n, Kind(c)) = file
      BY <2>1 DEF View, Works
    <3> QED BY <1>4, <2>1, <3>1 DEF OfficialOf, Holding
  <2>2. CASE r.pc = "write" /\ n.pc = "exited" /\ stateFile' = r.dict
    <3>1. View(r, Kind(c)) = Holds(stateFile', Kind(c))
      BY <2>2 DEF View, Works
    <3> QED BY <1>4, <2>2, <3>1 DEF OfficialOf, Holding
  <2> QED BY <1>2, <2>1, <2>2
<1>7. Nothing(p, c, m)
  BY <1>4, <1>5, <1>6 DEF Nothing
<1>8. faults' = faults + 0 /\ stops' = stops
  BY <1>1 DEF TypeInv, TypeOK
<1> QED BY <1>1, <1>7, <1>8, ProcessPays

PullWork(p) == \/ GetRowsOpens(p) \/ GetRowsRefused(p) \/ GetRowsEnds(p) \/ GetRowsCut(p)
               \/ GetReportsOpens(p) \/ GetReportsEnds(p) \/ PullFails(p)

\* What a pull does to the rows in the spool: it opens their copy, completes
\* it, is cut off from it, or does something else.
RowsOpen(p) ==
  child[p].pc = "getRows" /\ child'[p].pc = "gettingRows" /\ faults' = faults
RowsComplete(p) ==
  /\ child[p].pc = "gettingRows" /\ child'[p].pc \in {"getReports", "exited"}
  /\ spoolRows' = Len(rows) /\ faults' = faults
RowsCut(p) ==
  /\ child[p].pc = "gettingRows" /\ child'[p].pc \in {"getReports", "exited"}
  /\ spoolRows' = spoolRows /\ faults' = faults + 1
RowsStay(p) ==
  /\ child[p].pc \in PullSteps \ {"gettingRows"}
  /\ child'[p].pc \in {"getReports", "gettingReports", "exited"}
  /\ spoolRows' = spoolRows /\ faults' = faults

(* A pull does one of these, and changes nothing that the robot or a relay *)
(* knows.                                                                  *)
LEMMA PullRecord ==
  ASSUME TypeInv, NEW p \in Procs, PullWork(p)
  PROVE  /\ UNCHANGED <<now, rows, stateFile, orch, posts, failures, stops>>
         /\ \A q \in Procs : q # p => child'[q] = child[q]
         /\ RowsOpen(p) \/ RowsComplete(p) \/ RowsCut(p) \/ RowsStay(p)
<1> DEFINE r == child[p]
           n == child'[p]
<1>1. /\ UNCHANGED <<now, rows, stateFile, orch, posts, failures, stops>>
      /\ \A q \in Procs : q # p => child'[q] = child[q]
  BY DEF PullWork, GetRowsOpens, GetRowsRefused, GetRowsEnds, GetRowsCut,
         GetReportsOpens, GetReportsEnds, PullFails, PullStep, Fault, TypeInv, monitor,
         robot, faulty
<1>2. /\ r \in Processes
      /\ \A record : child' = [child EXCEPT ![p] = record] => n = record
  BY DEF TypeInv, TypeOK
<1>3. /\ Exited(TRUE).pc = "exited" /\ Exited(FALSE).pc = "exited"
      /\ [r EXCEPT !.pc = "getReports"].pc = "getReports"
      /\ [r EXCEPT !.pc = "gettingRows"].pc = "gettingRows"
      /\ [r EXCEPT !.pc = "gettingReports"].pc = "gettingReports"
  BY <1>2 DEF Exited, Processes
<1>4. AfterRows(p) \in {Exited(TRUE), [r EXCEPT !.pc = "getReports"]}
  BY DEF AfterRows
<1>5. CASE GetRowsOpens(p)
  <2>1. /\ r.pc = "getRows" /\ faults' = faults
        /\ n = [r EXCEPT !.pc = "gettingRows"]
    BY <1>2, <1>5 DEF GetRowsOpens, PullStep, faulty
  <2> QED BY <1>1, <1>3, <2>1 DEF RowsOpen
<1>6. CASE GetRowsEnds(p)
  <2>1. /\ r.pc = "gettingRows" /\ spoolRows' = Len(rows) /\ faults' = faults
        /\ n = AfterRows(p)
    BY <1>2, <1>6 DEF GetRowsEnds, PullStep, faulty
  <2> QED BY <1>1, <1>3, <1>4, <2>1 DEF RowsComplete
<1>7. CASE GetRowsCut(p)
  <2>1. /\ r.pc = "gettingRows" /\ spoolRows' = spoolRows /\ faults' = faults + 1
        /\ n \in {AfterRows(p), Exited(FALSE)}
    BY <1>2, <1>7 DEF GetRowsCut, PullStep, Fault, spool
  <2> QED BY <1>1, <1>3, <1>4, <2>1 DEF RowsCut
<1>8. CASE \/ GetRowsRefused(p) \/ GetReportsOpens(p) \/ GetReportsEnds(p)
           \/ PullFails(p)
  <2>1. /\ r.pc \in {"getRows", "getReports", "gettingReports"}
        /\ spoolRows' = spoolRows /\ faults' = faults
        /\ n \in {AfterRows(p), [r EXCEPT !.pc = "gettingReports"], Exited(TRUE),
                  Exited(FALSE)}
    BY <1>2, <1>8 DEF GetRowsRefused, GetReportsOpens, GetReportsEnds, PullFails,
                      PullStep, spool, faulty
  <2> QED BY <1>1, <1>3, <1>4, <2>1 DEF RowsStay, PullSteps
<1> QED BY <1>1, <1>5, <1>6, <1>7, <1>8 DEF PullWork

(* When the rows are complete, the day read is that of the last one.       *)
LEMMA RowsArrive ==
  ASSUME TypeInv, UNCHANGED <<now, rows>>, spoolRows' = Len(rows), NEW k \in Kinds
  PROVE  \/ DayRead(k)' = DayRead(k) \/ DayRead(k)' = NoDay
         \/ k = "alerts" /\ DayRead(k)' = LastDay
<1>1. Len(rows) \in Nat
  BY DEF TypeInv, TypeOK
<1> QED BY <1>1 DEF DayRead, LastDay, Today, Kinds

(* What is known is not of a later day than the last row or than today.    *)
LEMMA KnownDays ==
  ASSUME NEW d, NEW last, NEW today, Dated(d, last, today), NEW k \in Kinds
  PROVE  /\ Holds(d, k).day = d.day[k]
         /\ k = "alerts" => Holds(d, k).day = NoDay \/ Holds(d, k).day <= last
         /\ k = "reports" => Holds(d, k).day = NoDay \/ Holds(d, k).day <= today
  BY DEF Holds, Dated

(* Pulling, the child moves the day read to that of the last row; when it  *)
(* is cut off, the fault pays for a spool that has fallen behind.          *)
LEMMA ChildPulls ==
  ASSUME TypeInv, TypeInv', DaysInv, NEW p \in Procs, Child(p), PullWork(p),
         NEW c \in Counts, NEW m \in Messages(Kind(c)), Account(c, m)
  PROVE  Account(c, m)'
<1> DEFINE r    == child[p]
           n    == child'[p]
           k    == Kind(c)
           file == Holds(stateFile, k)
           day  == DayRead(k)
<1>1. /\ UNCHANGED <<now, rows, stateFile, orch, posts, failures, stops>>
      /\ \A q \in Procs : q # p => child'[q] = child[q]
      /\ RowsOpen(p) \/ RowsComplete(p) \/ RowsCut(p) \/ RowsStay(p)
  BY PullRecord
<1>2. r.pc \notin Holding /\ n.pc \notin Holding
  BY <1>1 DEF RowsOpen, RowsComplete, RowsCut, RowsStay, Holding, PullSteps
<1>3. /\ OwnUpsets(p, c)' = {} /\ OwnRepeats(p, c, m)' = {}
      /\ Official(c, m) = Left(c, file, m, day)
      /\ Official(c, m)' = Left(c, file, m, day')
      /\ Detour(c, m)' = {} /\ Stage = r.pc /\ Stage' = n.pc
  BY <1>1, <1>2, ChildTells DEF OfficialOf, DetourOf, Holding
<1>4. Count(c, m)' = Count(c, m)
  BY <1>1 DEF Count
<1>5. faults \in Nat
  BY DEF TypeInv, TypeOK
<1>6. ASSUME day' = day \/ day' = NoDay \/ (k = "alerts" /\ day' = LastDay),
             faults' = faults
      PROVE  Account(c, m)'
  <2>1. k \in Kinds /\ file \in Knowledge
    BY CountBasics, KnowledgeTypes DEF TypeInv
  <2>2. /\ day \in Days \cup {NoDay} /\ day' \in Days \cup {NoDay}
    BY <2>1, DaysLater, DayReadType
  <2>3. \/ day <= day' \/ file.day = NoDay \/ file.day <= day'
    <3>1. \A x \in Days \cup {NoDay} : x \in Nat /\ x <= NoDay
      BY Basics
    <3>2. k = "alerts" => file.day = NoDay \/ file.day <= LastDay
      BY <2>1, KnownDays DEF DaysInv
    <3> QED BY <1>6, <2>2, <3>1, <3>2
  <2>4. Left(c, file, m, day') \subseteq Left(c, file, m, day)
    BY <2>1, <2>2, <2>3, DayRises
  <2>5. Nothing(p, c, m)
    BY <1>3, <1>4, <2>4 DEF Nothing
  <2>6. faults' = faults + 0
    BY <1>5, <1>6
  <2> QED BY <1>1, <2>5, <2>6, ProcessPays
<1>7. CASE RowsOpen(p)
  <2>1. day' = day \/ day' = NoDay
    BY <1>1, <1>3, <1>7 DEF RowsOpen, DayRead, Today
  <2> QED BY <1>6, <1>7, <2>1 DEF RowsOpen
<1>8. CASE RowsComplete(p)
  <2>1. \/ day' = day \/ day' = NoDay
        \/ k = "alerts" /\ day' = LastDay
    BY <1>1, <1>8, CountBasics, RowsArrive DEF RowsComplete
  <2> QED BY <1>6, <1>8, <2>1 DEF RowsComplete
<1>9. CASE RowsStay(p)
  <2>1. day' = day
    BY <1>1, <1>3, <1>9, DayStays DEF RowsStay
  <2> QED BY <1>6, <1>9, <2>1 DEF RowsStay
<1>10. CASE RowsCut(p)
  <2>1. ChildPays(p, c, m, 1)
    BY <1>3, <1>4 DEF ChildPays
  <2> QED BY <1>1, <1>10, <2>1, ProcessPays DEF RowsCut
<1> QED BY <1>1, <1>7, <1>8, <1>9, <1>10


-----------------------------------------------------------------------------
(* The steps of a child that was left behind *)

(* A child that was left behind changes what the orchestrator's next       *)
(* rounds owe only by the state file and by the day they read.             *)
LEMMA OrphanTells ==
  ASSUME NEW c \in Counts, NEW m, NEW p \in Procs, Orphan(p), orch' = orch,
         \A q \in Procs : q # p => child'[q] = child[q], orch.proc \in Procs
  PROVE  /\ Stage' = Stage
         /\ Official(c, m)' = OfficialOf(c, m, Stage, Works(child[orch.proc], Kind(c)),
              View(child[orch.proc], Kind(c)), Holds(stateFile', Kind(c)), DayRead(Kind(c))')
         /\ Detour(c, m)' = DetourOf(c, m, Stage, Works(child[orch.proc], Kind(c)),
              View(child[orch.proc], Kind(c)), DayRead(Kind(c))')
         /\ OwnUpsets(p, c) = UpsetsOf(child[p], c)
         /\ OwnRepeats(p, c, m) = RepeatsOf(child[p], c, m)
         /\ OwnUpsets(p, c)' = UpsetsOf(child'[p], c)
         /\ OwnRepeats(p, c, m)' = RepeatsOf(child'[p], c, m)
<1> DEFINE k == Kind(c)
<1>1. /\ OwnUpsets(p, c) = UpsetsOf(child[p], c)
      /\ OwnRepeats(p, c, m) = RepeatsOf(child[p], c, m)
  BY DEF OwnUpsets, OwnRepeats
<1>2. /\ OwnUpsets(p, c)' = UpsetsOf(child'[p], c)
      /\ OwnRepeats(p, c, m)' = RepeatsOf(child'[p], c, m)
  <2>1. CASE child'[p].pc = "exited"
    <3>1. UpsetsOf(child'[p], c) = {} /\ RepeatsOf(child'[p], c, m) = {} /\ ~Orphan(p)'
      BY <2>1 DEF UpsetsOf, RepeatsOf, Orphan
    <3> QED BY <3>1 DEF OwnUpsets, OwnRepeats
  <2>2. CASE child'[p].pc # "exited"
    BY <2>2 DEF OwnUpsets, OwnRepeats, Orphan
  <2> QED BY <2>1, <2>2
<1>3. CASE p # orch.proc
  <2>1. child'[orch'.proc] = child[orch.proc]
    BY <1>3
  <2>2. Stage' = Stage
    BY <2>1 DEF Stage
  <2>3. /\ Works(child'[orch'.proc], k) = Works(child[orch.proc], k)
        /\ View(child'[orch'.proc], k) = View(child[orch.proc], k)
    BY <2>1
  <2> QED BY <1>1, <1>2, <2>2, <2>3 DEF Official, Detour
<1>4. CASE p = orch.proc
  <2>1. Stage = "exited" /\ Stage' = "exited"
    BY <1>4 DEF Stage, Orphan
  <2>2. /\ Official(c, m)' = OfficialOf(c, m, Stage, Works(child[orch.proc], k),
              View(child[orch.proc], k), Holds(stateFile', k), DayRead(k)')
        /\ Detour(c, m)' = DetourOf(c, m, Stage, Works(child[orch.proc], k),
              View(child[orch.proc], k), DayRead(k)')
    BY <2>1 DEF Official, Detour, OfficialOf, DetourOf, Holding
  <2> QED BY <1>1, <1>2, <2>1, <2>2
<1> QED BY <1>3, <1>4

(* It changes nothing of it when it writes neither file.                   *)
LEMMA OrphanKeeps ==
  ASSUME NEW c \in Counts, NEW m, NEW p \in Procs, Orphan(p), orch' = orch,
         \A q \in Procs : q # p => child'[q] = child[q], orch.proc \in Procs,
         UNCHANGED <<now, rows, spoolRows, stateFile>>
  PROVE  Official(c, m)' = Official(c, m) /\ Detour(c, m)' = Detour(c, m)
<1>1. Stage' = Stage
  BY OrphanTells
<1>2. DayRead(Kind(c))' = DayRead(Kind(c))
  BY <1>1, DayStays
<1>3. /\ Official(c, m)' = OfficialOf(c, m, Stage, Works(child[orch.proc], Kind(c)),
            View(child[orch.proc], Kind(c)), Holds(stateFile, Kind(c)), DayRead(Kind(c)))
      /\ Detour(c, m)' = DetourOf(c, m, Stage, Works(child[orch.proc], Kind(c)),
            View(child[orch.proc], Kind(c)), DayRead(Kind(c)))
  BY <1>2, OrphanTells
<1> QED BY <1>3 DEF Official, Detour

(* In the loop, it pays for what it counts with what was open.             *)
LEMMA OrphanLoops ==
  ASSUME TypeInv, TypeInv', WorkInv, NEW p \in Procs, Orphan(p),
         TakeUp(p) \/ PostOk(p) \/ PostError(p),
         NEW c \in Counts, NEW m \in Messages(Kind(c)), Account(c, m)
  PROVE  Account(c, m)'
<1> DEFINE r == child[p]
           n == child'[p]
<1>1. /\ orch' = orch /\ orch.proc \in Procs
      /\ UNCHANGED <<now, rows, spoolRows, stateFile>>
      /\ \A q \in Procs : q # p => child'[q] = child[q]
  BY DEF TakeUp, PostOk, PostError, RelayStep, TypeInv, TypeOK, monitor, spool
<1>2. r.pc \in {"next", "post"} /\ n.pc \in {"next", "post"}
  BY LoopRecord
<1>3. PICK f \in {0, 1} :
        /\ faults' = faults + f /\ stops' = stops
        /\ Count(c, m)' + Cardinality(Open(c, View(n, Kind(c)), m))
             <= Count(c, m) + Cardinality(Open(c, View(r, Kind(c)), m)) + f
  BY LoopPays
<1>4. /\ OwnRepeats(p, c, m) = Open(c, View(r, Kind(c)), m)
      /\ OwnRepeats(p, c, m)' = Open(c, View(n, Kind(c)), m)
      /\ OwnUpsets(p, c)' = OwnUpsets(p, c)
  BY <1>1, <1>2, OrphanTells DEF UpsetsOf, RepeatsOf
<1>5. Official(c, m)' = Official(c, m) /\ Detour(c, m)' = Detour(c, m)
  BY <1>1, OrphanKeeps
<1>6. OrphanPays(p, c, m, f)
  BY <1>3, <1>4, <1>5 DEF OrphanPays
<1> QED BY <1>1, <1>3, <1>6, ProcessPays

(* When an answer is late, the fault and what was open pay.                *)
LEMMA OrphanTimesOut ==
  ASSUME TypeInv, TypeInv', WorkInv, NEW p \in Procs, Orphan(p), PostTimeout(p),
         NEW c \in Counts, NEW m \in Messages(Kind(c)), Account(c, m)
  PROVE  Account(c, m)'
<1> DEFINE r == child[p]
           n == child'[p]
<1>1. /\ orch' = orch /\ orch.proc \in Procs
      /\ UNCHANGED <<now, rows, spoolRows, stateFile>>
      /\ \A q \in Procs : q # p => child'[q] = child[q]
  BY DEF PostTimeout, RelayStep, TypeInv, TypeOK, monitor, spool
<1>2. /\ faults' = faults + 1 /\ stops' = stops
      /\ r.pc = "post" /\ n.pc = "truncate"
      /\ Count(c, m)' <= Count(c, m) + 1
      /\ Count(c, m)' = Count(c, m) \/ Open(c, View(r, Kind(c)), m) # {}
  BY TimeoutPays
<1>3. /\ OwnRepeats(p, c, m) = Open(c, View(r, Kind(c)), m)
      /\ OwnUpsets(p, c)' = OwnUpsets(p, c)
  BY <1>1, <1>2, OrphanTells DEF UpsetsOf, RepeatsOf
<1>4. Official(c, m)' = Official(c, m) /\ Detour(c, m)' = Detour(c, m)
  BY <1>1, OrphanKeeps
<1>5. OrphanPays(p, c, m, 1)
  BY <1>2, <1>3, <1>4 DEF OrphanPays
<1> QED BY <1>1, <1>2, <1>5, ProcessPays

(* Loading, reading and returning, it comes to know more.                  *)
LEMMA OrphanReads ==
  ASSUME TypeInv, TypeInv', DaysInv, NEW p \in Procs, Orphan(p),
         LoadState(p) \/ ReadAlerts(p) \/ ReadReports(p) \/ Return(p),
         NEW c \in Counts, NEW m \in Messages(Kind(c)), Account(c, m)
  PROVE  Account(c, m)'
<1> DEFINE r == child[p]
           n == child'[p]
<1>1. /\ orch' = orch /\ orch.proc \in Procs
      /\ UNCHANGED <<now, rows, spoolRows, stateFile, posts, failures, faults, stops>>
      /\ \A q \in Procs : q # p => child'[q] = child[q]
  BY DEF LoadState, ReadAlerts, ReadReports, Return, RelayStep, TypeInv, TypeOK, monitor,
         spool, robot, faulty
<1>2. r \in Processes /\ n \in SoundProcess
  BY DEF TypeInv, TypeOK
<1>3. \/ r.pc = "load" /\ n.pc = "read"
      \/ r.pc = "read" /\ n.pc = "next"
      \/ r.pc = "next" /\ n.pc = "truncate" /\ View(n, Kind(c)) = View(r, Kind(c))
  <2>1. CASE LoadState(p)
    <3>1. r.pc = "load" /\ n = [r EXCEPT !.pc = "read", !.dict = stateFile]
      BY <2>1 DEF LoadState, RelayStep, TypeInv
    <3> QED BY <1>2, <3>1 DEF Processes
  <2>2. CASE ReadAlerts(p) \/ ReadReports(p)
    BY <2>2, CountBasics, ReadTakes
  <2>3. CASE Return(p)
    <3>1. r.pc = "next" /\ n = [r EXCEPT !.pc = "truncate", !.dict = Stored(p)]
      BY <2>3 DEF Return, RelayStep, TypeInv
    <3>2. View(n, Kind(c)) = View(r, Kind(c))
      BY <2>3, CountBasics, ReturnStores
    <3>3. n.pc = "truncate"
      BY <1>2, <3>1 DEF Processes
    <3> QED BY <3>1, <3>2, <3>3
  <2> QED BY <2>1, <2>2, <2>3
<1>4. Open(c, View(n, Kind(c)), m) \subseteq Units(c)
  BY <1>2, CountBasics, KnowledgeTypes, CostsAreUnits
<1>5. /\ OwnUpsets(p, c)' = OwnUpsets(p, c)
      /\ OwnRepeats(p, c, m)' \subseteq OwnRepeats(p, c, m)
  BY <1>1, <1>3, <1>4, OrphanTells DEF UpsetsOf, RepeatsOf
<1>6. Official(c, m)' = Official(c, m) /\ Detour(c, m)' = Detour(c, m)
  BY <1>1, OrphanKeeps
<1>7. Count(c, m)' = Count(c, m)
  BY <1>1 DEF Count
<1>8. Nothing(p, c, m)
  BY <1>5, <1>6, <1>7 DEF Nothing
<1>9. faults' = faults + 0 /\ stops' = stops
  BY <1>1 DEF TypeInv, TypeOK
<1> QED BY <1>1, <1>8, <1>9, ProcessPays


(* Emptying the state file, it pays with its upset.                        *)
LEMMA OrphanTruncates ==
  ASSUME TypeInv, TypeInv', NEW p \in Procs, Orphan(p), TruncateState(p),
         NEW c \in Counts, NEW m \in Messages(Kind(c)), Account(c, m)
  PROVE  Account(c, m)'
<1> DEFINE r == child[p]
           n == child'[p]
<1>1. /\ orch' = orch /\ orch.proc \in Procs
      /\ UNCHANGED <<now, rows, spoolRows, posts, failures, faults, stops>>
      /\ \A q \in Procs : q # p => child'[q] = child[q]
  BY DEF TruncateState, RelayStep, TypeInv, TypeOK, monitor, spool, robot, faulty
<1>2. r.pc = "truncate" /\ n.pc = "write"
  <2>1. r \in Processes
    BY DEF TypeInv, TypeOK
  <2>2. r.pc = "truncate" /\ n = [r EXCEPT !.pc = "write"]
    BY DEF TruncateState, RelayStep, TypeInv
  <2> QED BY <2>1, <2>2 DEF Processes
<1>3. View(n, Kind(c)) = View(r, Kind(c))
  BY CountBasics, ReturnStores
<1>4. /\ OwnUpsets(p, c) = Units(c) /\ OwnUpsets(p, c)' = {}
      /\ OwnRepeats(p, c, m)' = OwnRepeats(p, c, m)
  BY <1>1, <1>2, <1>3, OrphanTells DEF UpsetsOf, RepeatsOf
<1>5. Detour(c, m)' = Detour(c, m)
  <2>1. Stage' = Stage
    BY <1>1, OrphanTells
  <2>2. DayRead(Kind(c))' = DayRead(Kind(c))
    BY <1>1, <2>1, DayStays
  <2>3. Detour(c, m)' = DetourOf(c, m, Stage, Works(child[orch.proc], Kind(c)),
              View(child[orch.proc], Kind(c)), DayRead(Kind(c)))
    BY <1>1, <2>2, OrphanTells
  <2> QED BY <2>3 DEF Detour
<1>6. Count(c, m)' = Count(c, m)
  BY <1>1 DEF Count
<1>7. OrphanPays(p, c, m, 0)
  BY <1>4, <1>5, <1>6 DEF OrphanPays
<1>8. faults' = faults + 0 /\ stops' = stops
  BY <1>1 DEF TypeInv, TypeOK
<1> QED BY <1>1, <1>7, <1>8, ProcessPays

(* Writing the state file, it pays with what its own knowledge left open.  *)
LEMMA OrphanWrites ==
  ASSUME TypeInv, TypeInv', NEW p \in Procs, Orphan(p), WriteState(p),
         NEW c \in Counts, NEW m \in Messages(Kind(c)), Account(c, m)
  PROVE  Account(c, m)'
<1> DEFINE r    == child[p]
           n    == child'[p]
           k    == Kind(c)
           file == Holds(stateFile, k)
           v    == View(r, k)
           day  == DayRead(k)
<1>1. /\ orch' = orch /\ orch.proc \in Procs
      /\ UNCHANGED <<now, rows, spoolRows, posts, failures, faults, stops>>
      /\ \A q \in Procs : q # p => child'[q] = child[q]
  BY DEF WriteState, RelayStep, TypeInv, TypeOK, monitor, spool, robot, faulty
<1>2. r.pc = "write" /\ n.pc = "exited" /\ stateFile' = r.dict
  BY DEF WriteState, RelayStep, TypeInv, Exited
<1>3. v = Holds(stateFile', k)
  BY <1>2 DEF View, Works
<1>4. /\ OwnRepeats(p, c, m) = Open(c, v, m) /\ OwnRepeats(p, c, m)' = {}
      /\ OwnUpsets(p, c)' = {}
  BY <1>1, <1>2, OrphanTells DEF UpsetsOf, RepeatsOf
<1>5. DayRead(k)' = day
  <2>1. Stage' = Stage
    BY <1>1, OrphanTells
  <2> QED BY <1>1, <2>1, DayStays
<1>6. /\ Official(c, m)' = OfficialOf(c, m, Stage, Works(child[orch.proc], k),
              View(child[orch.proc], k), v, day)
      /\ Detour(c, m)' = DetourOf(c, m, Stage, Works(child[orch.proc], k),
              View(child[orch.proc], k), day)
  BY <1>1, <1>3, <1>5, OrphanTells
<1>7. Left(c, v, m, day) \subseteq Left(c, file, m, day) \cup Open(c, v, m)
  <2>1. v \in Knowledge /\ file \in Knowledge
    BY CountBasics, KnowledgeTypes DEF TypeInv
  <2>2. day \in Days \cup {NoDay}
    BY CountBasics, DayReadType
  <2> QED BY <2>1, <2>2, BehindIsOpen
<1>8. Official(c, m)' \subseteq Official(c, m) \cup OwnRepeats(p, c, m)
  BY <1>4, <1>6, <1>7, OfficialFile DEF Official
<1>9. Detour(c, m)' = Detour(c, m) /\ Count(c, m)' = Count(c, m)
  BY <1>1, <1>6 DEF Detour, Count
<1>10. OrphanPays(p, c, m, 0)
  BY <1>4, <1>8, <1>9 DEF OrphanPays
<1>11. faults' = faults + 0 /\ stops' = stops
  BY <1>1 DEF TypeInv, TypeOK
<1> QED BY <1>1, <1>10, <1>11, ProcessPays

(* What a process knows is not of a later day than the last row or today.  *)
LEMMA KnownDaysOfProcess ==
  ASSUME DaysInv, NEW p \in Procs, NEW k \in Kinds
  PROVE  /\ k = "alerts" => View(child[p], k).day = NoDay \/ View(child[p], k).day <= LastDay
         /\ k = "reports" => View(child[p], k).day = NoDay \/ View(child[p], k).day <= Today
<1>1. Dated(child[p].dict, LastDay, Today)
  BY DEF DaysInv
<1>2. View(child[p], k).day = Holds(child[p].dict, k).day
  BY DEF View, Holds
<1> QED BY <1>1, <1>2, KnownDays

(* Pulling, it pays with its upset for the spool that it opens.            *)
LEMMA OrphanPulls ==
  ASSUME TypeInv, TypeInv', DaysInv, NEW p \in Procs, Orphan(p), PullWork(p),
         NEW c \in Counts, NEW m \in Messages(Kind(c)), Account(c, m)
  PROVE  Account(c, m)'
<1> DEFINE r     == child[p]
           n     == child'[p]
           k     == Kind(c)
           works == Works(child[orch.proc], k)
           v     == View(child[orch.proc], k)
           file  == Holds(stateFile, k)
           day   == DayRead(k)
<1>1. /\ UNCHANGED <<now, rows, stateFile, orch, posts, failures, stops>>
      /\ \A q \in Procs : q # p => child'[q] = child[q]
      /\ RowsOpen(p) \/ RowsComplete(p) \/ RowsCut(p) \/ RowsStay(p)
      /\ orch.proc \in Procs
  BY PullRecord DEF TypeInv, TypeOK
<1>2. /\ Stage' = Stage
      /\ Official(c, m) = OfficialOf(c, m, Stage, works, v, file, day)
      /\ Official(c, m)' = OfficialOf(c, m, Stage, works, v, file, day')
      /\ Detour(c, m) = DetourOf(c, m, Stage, works, v, day)
      /\ Detour(c, m)' = DetourOf(c, m, Stage, works, v, day')
  BY <1>1, OrphanTells DEF Official, Detour
<1>3. /\ OwnUpsets(p, c)' = {} /\ OwnRepeats(p, c, m)' = {}
      /\ r.pc = "getRows" => OwnUpsets(p, c) = Units(c)
  <2>1. n.pc \in {"gettingRows", "getReports", "gettingReports", "exited"}
    BY <1>1 DEF RowsOpen, RowsComplete, RowsCut, RowsStay
  <2> QED BY <1>1, <2>1, OrphanTells DEF UpsetsOf, RepeatsOf
<1>4. Count(c, m)' = Count(c, m)
  BY <1>1 DEF Count
<1>5. faults \in Nat
  BY DEF TypeInv, TypeOK
<1>6. CASE RowsOpen(p)
  <2>1. Official(c, m)' \subseteq Official(c, m) \/ Detour(c, m)' \subseteq Detour(c, m)
    BY <1>2 DEF OfficialOf, DetourOf, Holding
  <2>2. OrphanPays(p, c, m, 0)
    BY <1>3, <1>4, <1>6, <2>1 DEF OrphanPays, RowsOpen
  <2>3. faults' = faults + 0
    BY <1>5, <1>6 DEF RowsOpen
  <2> QED BY <1>1, <2>2, <2>3, ProcessPays
<1>7. CASE RowsComplete(p)
  <2>1. k \in Kinds /\ file \in Knowledge /\ v \in Knowledge
    BY <1>1, CountBasics, KnowledgeTypes DEF TypeInv
  <2>2. /\ day \in Days \cup {NoDay} /\ day' \in Days \cup {NoDay}
    BY <2>1, DaysLater, DayReadType
  <2>3. \/ day <= day'
        \/ (v.day = NoDay \/ v.day <= day') /\ (file.day = NoDay \/ file.day <= day')
    <3>1. \A x \in Days \cup {NoDay} : x \in Nat /\ x <= NoDay
      BY Basics
    <3>2. k = "alerts" => /\ file.day = NoDay \/ file.day <= LastDay
                          /\ v.day = NoDay \/ v.day <= LastDay
      BY <1>1, <2>1, KnownDays, KnownDaysOfProcess DEF DaysInv
    <3>3. \/ day' = day \/ day' = NoDay
          \/ k = "alerts" /\ day' = LastDay
      BY <1>1, <1>7, <2>1, RowsArrive DEF RowsComplete
    <3> QED BY <2>2, <3>1, <3>2, <3>3
  <2>4. Official(c, m)' \subseteq Official(c, m) /\ Detour(c, m)' \subseteq Detour(c, m)
    BY <1>2, <2>1, <2>2, <2>3, OfficialDay
  <2>5. Nothing(p, c, m)
    BY <1>3, <1>4, <2>4 DEF Nothing
  <2>6. faults' = faults + 0
    BY <1>5, <1>7 DEF RowsComplete
  <2> QED BY <1>1, <2>5, <2>6, ProcessPays
<1>8. CASE RowsCut(p) \/ RowsStay(p)
  <2>1. Official(c, m)' = Official(c, m) /\ Detour(c, m)' = Detour(c, m)
    BY <1>1, <1>8, OrphanKeeps DEF RowsCut, RowsStay
  <2>2. Nothing(p, c, m)
    BY <1>3, <1>4, <2>1 DEF Nothing
  <2>3. PICK f \in {0, 1} : faults' = faults + f
    BY <1>5, <1>8 DEF RowsCut, RowsStay
  <2> QED BY <1>1, <2>2, <2>3, ProcessPays
<1> QED BY <1>1, <1>6, <1>7, <1>8

(* Whatever a process does, the account stays settled. *)
LEMMA ProcessAccount ==
  ASSUME TypeInv, TypeInv', WorkInv, DaysInv, NEW p \in Procs, Work(p),
         NEW c \in Counts, NEW m \in Messages(Kind(c)), Account(c, m)
  PROVE  Account(c, m)'
<1>1. Child(p) \/ Orphan(p)
  <2>1. child[p].pc # "exited"
    BY DEF Work, GetRowsOpens, GetRowsRefused, GetRowsEnds, GetRowsCut, GetReportsOpens,
           GetReportsEnds, PullFails, LoadState, ReadAlerts, ReadReports, TakeUp, Return,
           PostOk, PostError, PostTimeout, TruncateState, WriteState
  <2> QED BY <2>1 DEF Child, Orphan
<1>2. CASE PullWork(p)
  BY <1>1, <1>2, ChildPulls, OrphanPulls
<1>3. CASE TakeUp(p) \/ PostOk(p) \/ PostError(p)
  BY <1>1, <1>3, ChildLoops, OrphanLoops
<1>4. CASE PostTimeout(p)
  BY <1>1, <1>4, ChildTimesOut, OrphanTimesOut
<1>5. CASE ReadAlerts(p) \/ ReadReports(p)
  BY <1>1, <1>5, ChildReads, OrphanReads
<1>6. CASE Return(p)
  BY <1>1, <1>6, ChildReturns, OrphanReads
<1>7. CASE TruncateState(p)
  BY <1>1, <1>7, ChildReturns, OrphanTruncates
<1>8. CASE LoadState(p)
  BY <1>1, <1>8, ChildLoadsAndWrites, OrphanReads
<1>9. CASE WriteState(p)
  BY <1>1, <1>9, ChildLoadsAndWrites, OrphanWrites
<1> QED BY <1>2, <1>3, <1>4, <1>5, <1>6, <1>7, <1>8, <1>9 DEF Work, PullWork


-----------------------------------------------------------------------------
(* The other steps *)

(* The clock and the monitor only move the day read on. *)
LEMMA SurroundingsAccount ==
  ASSUME TypeInv, TypeInv', DaysInv,
         \/ AdvanceClock \/ AppendAlert
         \/ \E m \in Moments : TruncateReport(m)
         \/ \E r \in Reports : FillReport(r),
         [Next]_vars,
         NEW c \in Counts, NEW m \in Messages(Kind(c)), Account(c, m)
  PROVE  Account(c, m)'
<1> DEFINE p == orch.proc
           k == Kind(c)
<1>1. /\ UNCHANGED <<spoolRows, stateFile, orch, child, posts, failures, faults, stops>>
      /\ rows' = rows \/ rows' = Append(rows, Today)
  BY DEF AdvanceClock, AppendAlert, TruncateReport, FillReport, spool, robot, faulty,
         monitor
<1>2. p \in Procs /\ k \in Kinds
  BY CountBasics DEF TypeInv, TypeOK
<1>3. DayRead(k) \in Days \cup {NoDay} /\ DayRead(k)' \in Days \cup {NoDay}
  BY <1>2, DaysLater, DayReadType
<1>4. DayRead(k) <= DayRead(k)'
  <2>1. CASE k = "reports"
    <3>1. Today <= Today'
      BY DaysAdvance DEF DaysInv
    <3> QED BY <2>1, <3>1 DEF DayRead
  <2>2. CASE k = "alerts"
    <3>1. Stage' = Stage
      BY <1>1 DEF Stage
    <3>2. spoolRows # 0 => rows'[spoolRows] = rows[spoolRows]
      <4>1. rows \in Seq(Days) /\ spoolRows \in Nat /\ spoolRows <= Len(rows)
            /\ Today \in Days
        BY TodayIsADay DEF TypeInv, TypeOK
      <4> QED BY <1>1, <4>1
    <3>3. DayRead(k)' = DayRead(k)
      BY <1>1, <2>2, <3>1, <3>2 DEF DayRead
    <3>4. DayRead(k) \in Nat
      BY <1>3, Basics
    <3> QED BY <3>3, <3>4
  <2> QED BY <1>2, <2>1, <2>2, Basics
<1>5. Official(c, m)' \subseteq Official(c, m) /\ Detour(c, m)' \subseteq Detour(c, m)
  <2>1. child[p] \in SoundProcess /\ stateFile \in SoundDict
    BY <1>2 DEF TypeInv
  <2>2. View(child[p], k) \in Knowledge /\ Holds(stateFile, k) \in Knowledge
    BY <1>2, <2>1, KnowledgeTypes
  <2>3. /\ Stage' = Stage /\ orch'.proc = p /\ child'[p] = child[p]
    BY <1>1 DEF Stage
  <2>4. /\ Official(c, m)' = OfficialOf(c, m, Stage, Works(child[p], k), View(child[p], k),
                                        Holds(stateFile, k), DayRead(k)')
        /\ Detour(c, m)' = DetourOf(c, m, Stage, Works(child[p], k), View(child[p], k),
                                    DayRead(k)')
    BY <1>1, <2>3 DEF Official, Detour
  <2> QED BY <1>3, <1>4, <2>2, <2>4, OfficialDay DEF Official, Detour
<1>6. Nothing(p, c, m)
  BY <1>1, <1>5 DEF Nothing, OwnUpsets, OwnRepeats, Orphan, Count
<1>7. faults' = faults + 0
  BY <1>1 DEF TypeInv, TypeOK
<1> QED BY <1>1, <1>2, <1>6, <1>7, ProcessPays

(* A step at which nobody comes to owe anything else pays for itself.      *)
LEMMA NothingPays ==
  ASSUME TypeInv, TypeInv', NEW c \in Counts, NEW m \in Messages(Kind(c)),
         NEW p \in Procs, Nothing(p, c, m)
  PROVE  Pays(p, c, m, 0, 0)
<1> DEFINE w == Weight(c)
           o == Cardinality(Official(c, m))
           d == Cardinality(Detour(c, m))
           u == Cardinality(OwnUpsets(p, c))
           r == Cardinality(OwnRepeats(p, c, m))
           n == Count(c, m)
<1>1. /\ Official(c, m) \in SUBSET Units(c) /\ Detour(c, m) \in SUBSET Units(c)
      /\ OwnUpsets(p, c) \in SUBSET Units(c) /\ OwnRepeats(p, c, m) \in SUBSET Units(c)
  BY FeeNumbers, OfficialType
<1>2. /\ Official(c, m)' \in SUBSET Units(c) /\ Detour(c, m)' \in SUBSET Units(c)
      /\ OwnUpsets(p, c)' \in SUBSET Units(c) /\ OwnRepeats(p, c, m)' \in SUBSET Units(c)
  BY UnitsLater
<1>3. Bounded(n, o, d, u, r, w) /\ Bounded(n', o', d', u', r', w)
  <2>1. w \in Nat /\ n \in Nat /\ n' \in Nat
    BY NumbersLater, CountBasics DEF Numbers
  <2>2. \A S \in SUBSET Units(c) : Cardinality(S) \in 0 .. w
    BY <2>1, UnitsNumber
  <2> QED BY <1>1, <1>2, <2>1, <2>2 DEF Bounded
<1>4. o' <= o /\ d' <= d /\ u' <= u /\ r' <= r /\ n' = n
  BY <1>1, UnitsSubset DEF Nothing
<1>5. Covered(n, o, d, u, r, n', o', d', u', r', w, 0)
  BY <1>3, <1>4 DEF Covered
<1>6. n' + (o' + d' + u' + r') <= n + (o + d + u + r) + w * 0 + 2 * (w * 0)
  BY <1>5, CountBasics, CoveredSum
<1> QED BY <1>6 DEF Pays, Fee

(* Starting, and between two of its children, the orchestrator owes what   *)
(* the state file leaves open.                                             *)
LEMMA OrchestratorAccount ==
  ASSUME TypeInv, TypeInv', OrchInv, Start \/ Orchestrate,
         NEW c \in Counts, NEW m \in Messages(Kind(c)), Account(c, m)
  PROVE  Account(c, m)'
<1> DEFINE k == Kind(c)
<1>1. UNCHANGED <<now, rows, spoolRows, stateFile, posts, failures, faults, stops>>
  BY DEF Start, Orchestrate, BeginCycle, PullReturns, AlertsReturn, ReportsReturn, spool,
         robot, faulty, monitor
<1>2. PICK p \in Procs : p = orch.proc
  BY DEF TypeInv, TypeOK
<1>3. /\ Stage = "exited" /\ Stage' \notin Holding /\ Stage' # "gettingRows"
      /\ \A q \in Procs : Orphan(q)' <=> Orphan(q)
      /\ \A q \in Procs : child'[q] = child[q] \/ (q = p /\ ~Orphan(q))
  <2>1. CASE Start
    <3>1. PICK q \in Procs : child[q].pc = "exited" /\ orch' = [orch EXCEPT !.pc = "cycle", !.proc = q]
      BY <2>1 DEF Start
    <3>2. child' = child /\ orch'.pc = "cycle" /\ orch.pc = "down"
      BY <2>1, <3>1 DEF Start, TypeInv, TypeOK
    <3> QED BY <3>2 DEF Stage, Supervised, Holding, Orphan
  <2>2. CASE Orchestrate
    <3>1. /\ child[p].pc = "exited" /\ orch'.proc = p
          /\ \A q \in Procs : q # p => child'[q] = child[q]
      BY <1>2, <2>2 DEF Orchestrate, BeginCycle, PullReturns, AlertsReturn, ReportsReturn,
                  Spawn, OrchInv, TypeInv, TypeOK
    <3>2. \/ orch'.pc \in Supervised /\ child'[p].pc \in {"getRows", "load"}
          \/ orch'.pc = "cycle" /\ child'[p].pc = "exited"
      <4>1. \A b, kind : Pull(b).pc = "getRows" /\ Relay(kind).pc = "load"
        BY DEF Pull, Relay, Exited
      <4>2. orch'.pc = "cycle" => child' = child
        BY <2>2 DEF Orchestrate, BeginCycle, PullReturns, AlertsReturn, ReportsReturn, Spawn,
                    TypeInv, TypeOK
      <4>3. \/ orch'.pc = "cycle"
            \/ orch'.pc = "pull" /\ child'[p] = Pull(InReportWindow)
            \/ orch'.pc \in {"alerts", "reports"} /\ \E kind : child'[p] = Relay(kind)
        BY <1>2, <2>2 DEF Orchestrate, BeginCycle, PullReturns, AlertsReturn, ReportsReturn,
                    Spawn, TypeInv, TypeOK
      <4> QED BY <3>1, <4>1, <4>2, <4>3 DEF Supervised
    <3>3. ~Orphan(p) /\ ~Orphan(p)' /\ Stage = "exited"
          /\ Stage' \in {"getRows", "load", "exited"}
      BY <1>2, <3>1, <3>2 DEF Orphan, Stage, Supervised
    <3>4. \A q \in Procs : Orphan(q)' <=> Orphan(q)
      <4>1. \A q \in Procs : q # p => (Orphan(q) <=> child[q].pc # "exited")
                                      /\ (Orphan(q)' <=> child'[q].pc # "exited")
        BY <1>2, <3>1 DEF Orphan
      <4> QED BY <3>1, <3>3, <4>1
    <3> QED BY <3>1, <3>3, <3>4 DEF Holding
  <2> QED BY <2>1, <2>2
<1>4. DayRead(k)' = DayRead(k)
  BY <1>1, <1>3, DayStays
<1>5. /\ Official(c, m) = Left(c, Holds(stateFile, k), m, DayRead(k))
      /\ Official(c, m)' = Left(c, Holds(stateFile, k), m, DayRead(k))
      /\ Detour(c, m)' = {}
  <2>1. /\ Official(c, m) = Left(c, Holds(stateFile, k), m, DayRead(k))
        /\ Official(c, m)' = Left(c, Holds(stateFile', k), m, DayRead(k)')
        /\ Detour(c, m)' = {}
    BY <1>3 DEF Official, Detour, OfficialOf, DetourOf, Holding
  <2> QED BY <1>1, <1>4, <2>1
<1>6. /\ OwnUpsets(p, c)' = OwnUpsets(p, c) /\ OwnRepeats(p, c, m)' = OwnRepeats(p, c, m)
  <2>1. CASE Orphan(p)
    <3>1. child'[p] = child[p] /\ Orphan(p)'
      BY <1>2, <1>3, <2>1
    <3> QED BY <2>1, <3>1 DEF OwnUpsets, OwnRepeats
  <2>2. CASE ~Orphan(p)
    <3>1. ~Orphan(p)'
      BY <1>2, <1>3, <2>2
    <3> QED BY <2>2, <3>1 DEF OwnUpsets, OwnRepeats
  <2> QED BY <2>1, <2>2
<1>7. Count(c, m)' = Count(c, m)
  BY <1>1 DEF Count
<1>8. Nothing(p, c, m)
  BY <1>5, <1>6, <1>7 DEF Nothing
<1>9. Pays(p, c, m, 0, 0)
  BY <1>2, <1>8, NothingPays
<1>10. faults' = faults + 0 /\ stops' = stops + 0
  BY <1>1 DEF TypeInv, TypeOK
<1>11. \A q \in Procs : q # p => child'[q] = child[q] /\ (Orphan(q)' <=> Orphan(q))
  BY <1>3
<1> QED BY <1>2, <1>9, <1>10, <1>11, Settled


(* Stopped, the orchestrator leaves its child behind.  What the child may  *)
(* upset and what it may repeat is paid by the stop, as far as it is not   *)
(* what the orchestrator's next rounds owed and no longer owe.             *)
LEMMA StopAccount ==
  ASSUME TypeInv, TypeInv', OrchInv, Stop,
         NEW c \in Counts, NEW m \in Messages(Kind(c)), Account(c, m)
  PROVE  Account(c, m)'
<1> DEFINE k    == Kind(c)
           w    == Weight(c)
           file == Holds(stateFile, k)
<1>1. /\ UNCHANGED <<now, rows, spoolRows, stateFile, child, posts, failures, faults>>
      /\ orch.pc # "down" /\ orch'.pc = "down" /\ orch'.proc = orch.proc
      /\ stops' = stops + 1
  BY DEF Stop, spool, robot, monitor, TypeInv, TypeOK
<1>2. PICK p \in Procs : p = orch.proc
  BY DEF TypeInv, TypeOK
<1> DEFINE r   == child[p]
           v   == View(r, k)
           day == DayRead(k)
<1>3. \A q \in Procs : q # p => child'[q] = child[q] /\ (Orphan(q)' <=> Orphan(q))
  BY <1>1, <1>2 DEF Orphan, Supervised
<1>4. Stage' = "exited" /\ Detour(c, m)' = {} /\ Official(c, m)' = Left(c, file, m, day')
  <2>1. Stage' = "exited"
    BY <1>1 DEF Stage, Supervised
  <2> QED BY <1>1, <2>1 DEF Official, Detour, OfficialOf, DetourOf, Holding
<1>5. /\ OwnUpsets(p, c)' = UpsetsOf(r, c) /\ OwnRepeats(p, c, m)' = RepeatsOf(r, c, m)
  <2>1. CASE r.pc = "exited"
    <3>1. ~Orphan(p)' /\ UpsetsOf(r, c) = {} /\ RepeatsOf(r, c, m) = {}
      BY <1>1, <2>1 DEF Orphan, UpsetsOf, RepeatsOf
    <3> QED BY <3>1 DEF OwnUpsets, OwnRepeats
  <2>2. CASE r.pc # "exited"
    <3>1. Orphan(p)'
      BY <1>1, <2>2 DEF Orphan, Supervised
    <3> QED BY <1>1, <3>1 DEF OwnUpsets, OwnRepeats
  <2> QED BY <2>1, <2>2
<1>6. Count(c, m)' = Count(c, m)
  BY <1>1 DEF Count
<1>7. /\ Official(c, m) = OfficialOf(c, m, Stage, Works(r, k), v, file, day)
      /\ Stage = r.pc \/ (Stage = "exited" /\ r.pc = "exited")
  <2>1. orch.pc \in Supervised \/ r.pc = "exited"
    BY <1>1, <1>2 DEF OrchInv, Supervised, TypeInv, TypeOK
  <2> QED BY <1>2, <2>1 DEF Official, Stage
<1>8. r.pc # "gettingRows" => day' = day
  <2>1. ASSUME r.pc # "gettingRows" PROVE Stage # "gettingRows"
    BY <1>7, <2>1
  <2> QED BY <1>1, <1>4, <2>1, DayStays
<1>9. \/ Official(c, m)' \subseteq Official(c, m)
      \/ OwnRepeats(p, c, m)' \subseteq Official(c, m)
      \/ OwnUpsets(p, c)' = {} \/ OwnRepeats(p, c, m)' = {}
  <2>1. CASE r.pc \notin {"load", "read", "next", "post", "truncate"}
    BY <1>5, <2>1 DEF UpsetsOf, RepeatsOf
  <2>2. CASE r.pc = "load"
    BY <1>4, <1>7, <1>8, <2>2 DEF OfficialOf, Holding
  <2>3. CASE r.pc = "read" \/ (r.pc \in {"next", "post", "truncate"} /\ Past(v, m))
    <3>1. Official(c, m) = Left(c, v, m, day) \cup Left(c, file, m, day)
      BY <1>7, <2>3 DEF OfficialOf, Holding
    <3> QED BY <1>4, <1>8, <2>3, <3>1
  <2>4. CASE r.pc \in {"next", "post", "truncate"} /\ ~Past(v, m)
    <3>1. OwnRepeats(p, c, m)' = Open(c, v, m)
      BY <1>5, <2>4 DEF RepeatsOf
    <3>2. Open(c, v, m) \subseteq Left(c, v, m, day)
      <4>1. v \in Knowledge
        BY CountBasics, KnowledgeTypes DEF TypeInv
      <4>2. Open(c, v, m) \subseteq Units(c)
        BY <4>1, CostsAreUnits
      <4> QED BY <2>4, <4>2 DEF Left
    <3>3. Official(c, m) \in {Open(c, v, m), Left(c, v, m, day)}
      BY <1>7, <2>4 DEF OfficialOf, Holding
    <3> QED BY <3>1, <3>2, <3>3
  <2> QED BY <2>1, <2>2, <2>3, <2>4
<1>10. Pays(p, c, m, 0, 1)
  <2>1. /\ Official(c, m) \in SUBSET Units(c) /\ Official(c, m)' \in SUBSET Units(c)
        /\ OwnUpsets(p, c)' \in SUBSET Units(c) /\ OwnRepeats(p, c, m)' \in SUBSET Units(c)
    BY OfficialType, UnitsLater
  <2>2. /\ Cardinality(OwnUpsets(p, c)') \in 0 .. w
        /\ Cardinality(OwnRepeats(p, c, m)') \in 0 .. w
        /\ Cardinality(Official(c, m)') \in 0 .. w
    <3>1. w \in Nat
      BY CountBasics
    <3>2. \A S \in SUBSET Units(c) : Cardinality(S) \in 0 .. w
      BY <3>1, UnitsNumber
    <3> QED BY <2>1, <3>2
  <2>3. \/ Cardinality(Official(c, m)') <= Cardinality(Official(c, m))
        \/ Cardinality(OwnRepeats(p, c, m)') <= Cardinality(Official(c, m))
        \/ Cardinality(OwnUpsets(p, c)') = 0 \/ Cardinality(OwnRepeats(p, c, m)') = 0
    BY <1>9, <2>1, UnitsSubset, UnitsNumber
  <2>4. Cardinality(Detour(c, m)') = 0
    BY <1>4, UnitsNumber
  <2>5. Numbers(p, c, m)
    BY NumbersLater
  <2>6. w \in Nat /\ w * 0 = 0 /\ w * 1 = w
    BY CountBasics
  <2> DEFINE n  == Count(c, m)
             o  == Cardinality(Official(c, m))
             d  == Cardinality(Detour(c, m))
             u  == Cardinality(OwnUpsets(p, c))
             rr == Cardinality(OwnRepeats(p, c, m))
             o2 == Cardinality(Official(c, m)')
             u2 == Cardinality(OwnUpsets(p, c)')
             r2 == Cardinality(OwnRepeats(p, c, m)')
  <2>7. n + (o2 + 0 + u2 + r2) <= n + (o + d + u + rr) + w * 0 + 2 * (w * 1)
    <3>1. n \in Nat /\ o \in Nat /\ d \in Nat /\ u \in Nat /\ rr \in Nat
      BY <2>5 DEF Numbers
    <3>2. o2 \in 0 .. w /\ u2 \in 0 .. w /\ r2 \in 0 .. w
      BY <2>2
    <3>3. o2 <= o \/ r2 <= o \/ u2 = 0 \/ r2 = 0
      BY <2>3
    <3> HIDE DEF n, o, d, u, rr, o2, u2, r2, w
    <3> QED BY <2>6, <3>1, <3>2, <3>3
  <2> QED BY <1>6, <2>4, <2>7 DEF Pays, Fee
<1>11. faults' = faults + 0
  BY <1>1 DEF TypeInv, TypeOK
<1> QED BY <1>1, <1>3, <1>10, <1>11, Settled

(* After a crash only the state file is owed, which the crash pays.        *)
LEMMA CrashAccount ==
  ASSUME TypeInv, TypeInv', Crash,
         NEW c \in Counts, NEW m \in Messages(Kind(c)), Account(c, m)
  PROVE  Account(c, m)'
<1> DEFINE w == Weight(c)
<1>1. /\ UNCHANGED <<posts, failures, stops>> /\ faults' = faults + 1
      /\ orch'.pc = "down" /\ \A p \in Procs : child'[p].pc = "exited"
  BY DEF Crash, Fault, robot, TypeInv, TypeOK, Exited
<1>2. Upsets(c)' = {} /\ Repeats(c, m)' = {}
  <2>1. \A p \in Procs : ~Orphan(p)'
    BY <1>1 DEF Orphan
  <2> QED BY <2>1 DEF Upsets, Repeats
<1>3. Detour(c, m)' = {}
  <2>1. Stage' = "exited"
    BY <1>1 DEF Stage, Supervised
  <2> QED BY <2>1 DEF Detour, DetourOf
<1>4. Count(c, m)' = Count(c, m)
  BY <1>1 DEF Count
<1>5. PICK p \in Procs : TRUE
  BY RelayAssumption
<1>6. /\ Cardinality(Official(c, m)') \in Nat /\ Cardinality(Official(c, m)') <= w
      /\ Cardinality(Official(c, m)) \in Nat /\ Cardinality(Detour(c, m)) \in Nat
      /\ Count(c, m) \in Nat
  BY NumbersLater DEF Numbers
<1>7. Cardinality(Upsets(c)) \in Nat /\ Cardinality(Repeats(c, m)) \in Nat
  <2>1. Upsets(c) \in SUBSET (Procs \X Units(c)) /\ Repeats(c, m) \in SUBSET (Procs \X Units(c))
    BY DEF Upsets, Repeats
  <2>2. IsFiniteSet(Procs) /\ IsFiniteSet(Units(c))
    BY RelayAssumption, UnitsNumber
  <2>3. IsFiniteSet(Procs \X Units(c))
    BY <2>2, FS_Product
  <2> QED BY <2>1, <2>3, FS_Subset, FS_CardinalityType
<1>8. /\ Cardinality(Upsets(c)') = 0 /\ Cardinality(Repeats(c, m)') = 0
      /\ Cardinality(Detour(c, m)') = 0
  BY <1>2, <1>3, FS_EmptySet
<1>9. w \in Nat /\ faults \in Nat /\ stops \in Nat
  BY CountBasics DEF TypeInv, TypeOK
<1>10. w * (1 + (faults + 1) + 2 * (stops + 0))
         = w * (1 + faults + 2 * stops) + w * 1 + 2 * (w * 0)
  BY <1>9, Payment
<1>11. w * 1 = w /\ w * 0 = 0 /\ stops + 0 = stops /\ w * (1 + faults + 2 * stops) \in Nat
  BY <1>9
<1>12. Count(c, m) + (Cardinality(Official(c, m)) + Cardinality(Detour(c, m))
        + Cardinality(Upsets(c)) + Cardinality(Repeats(c, m)))
        <= w * (1 + faults + 2 * stops)
  BY DEF Account, Owed
<1>13. Count(c, m) <= w * (1 + faults + 2 * stops)
  <2> HIDE DEF w
  <2> QED BY <1>6, <1>7, <1>11, <1>12
<1>14. w * (1 + (faults + 1) + 2 * stops) = w * (1 + faults + 2 * stops) + w
  BY <1>9, <1>10, <1>11
<1>15. Count(c, m) + (Cardinality(Official(c, m)') + 0 + 0 + 0)
         <= w * (1 + (faults + 1) + 2 * stops)
  <2> HIDE DEF w
  <2> QED BY <1>6, <1>9, <1>11, <1>13, <1>14
<1> QED BY <1>1, <1>4, <1>8, <1>15 DEF Account, Owed


-----------------------------------------------------------------------------
(* The account is settled *)

\* What the account rests on, and the account itself.
DeliveryInv == TypeInv /\ WorkInv /\ OrchInv /\ DaysInv /\ AccountInv

(* At the start nothing is counted, and each message may cost its weight.  *)
LEMMA InitDelivery ==
  ASSUME Init
  PROVE  DeliveryInv
<1>1. TypeInv
  BY InitTypes
<1>2. /\ rows = <<>> /\ stateFile = default_state /\ orch.pc = "down"
      /\ \A p \in Procs : child[p] = Exited(TRUE)
      /\ stops = 0 /\ faults = 0
  BY DEF Init
<1>3. Exited(TRUE).pc = "exited" /\ Exited(TRUE).dict = default_state
  BY DEF Exited
<1>4. WorkInv /\ OrchInv
  BY <1>2, <1>3 DEF WorkInv, OrchInv, Ready
<1>5. DaysInv
  <2>1. SortedRows
    BY <1>2 DEF SortedRows
  <2>2. Dated(default_state, LastDay, Today)
    BY DEF Dated, default_state, Kinds
  <2> QED BY <1>2, <1>3, <2>1, <2>2 DEF DaysInv
<1>6. ASSUME NEW c \in Counts, NEW m \in Messages(Kind(c)) PROVE Account(c, m)
  <2>1. Count(c, m) = 0
    <3>1. CASE c = "rounds"
      <4>1. m \in Reports
        BY <3>1, CountBasics, Basics
      <4> QED BY <3>1, <4>1 DEF Init, Count
    <3>2. CASE c # "rounds"
      <4>1. c \in Kinds /\ m \in Messages(c)
        BY <3>2, CountBasics
      <4> QED BY <3>2, <4>1 DEF Init, Count
    <3> QED BY <3>1, <3>2
  <2>2. Upsets(c) = {} /\ Repeats(c, m) = {}
    BY <1>2, <1>3 DEF Upsets, Repeats, Orphan
  <2>3. Detour(c, m) = {}
    BY <1>2 DEF Detour, DetourOf, Stage, Supervised
  <2>4. PICK p \in Procs : TRUE
    BY RelayAssumption
  <2>5. Cardinality(Official(c, m)) \in Nat /\ Cardinality(Official(c, m)) <= Weight(c)
    BY <1>1, FeeNumbers
  <2>6. /\ Cardinality(Upsets(c)) = 0 /\ Cardinality(Repeats(c, m)) = 0
        /\ Cardinality(Detour(c, m)) = 0
    BY <2>2, <2>3, FS_EmptySet
  <2>7. Weight(c) \in Nat /\ Weight(c) * (1 + 0 + 2 * 0) = Weight(c)
    BY CountBasics
  <2> QED BY <1>2, <2>1, <2>5, <2>6, <2>7 DEF Account, Owed
<1> QED BY <1>1, <1>4, <1>5, <1>6 DEF DeliveryInv, AccountInv, Account

(* Every step keeps it settled.                                            *)
LEMMA StepAccount ==
  ASSUME TypeInv, TypeInv', WorkInv, OrchInv, DaysInv, [Next]_vars,
         NEW c \in Counts, NEW m \in Messages(Kind(c)), Account(c, m)
  PROVE  Account(c, m)'
<1>1. CASE UNCHANGED vars
  BY <1>1 DEF vars, monitor, spool, robot, faulty, Account, Owed, Count, Official, Detour,
              Upsets, Repeats, Orphan, Stage, DayRead, Today
<1>2. CASE \/ AdvanceClock \/ AppendAlert
           \/ \E moment \in Moments : TruncateReport(moment)
           \/ \E r \in Reports : FillReport(r)
  BY <1>2, SurroundingsAccount
<1>3. CASE Start \/ Orchestrate
  BY <1>3, OrchestratorAccount
<1>4. CASE Stop
  BY <1>4, StopAccount
<1>5. CASE Crash
  BY <1>5, CrashAccount
<1>6. CASE \E p \in Procs : Work(p)
  BY <1>6, ProcessAccount
<1> QED BY <1>1, <1>2, <1>3, <1>4, <1>5, <1>6 DEF Next

(* So it is in every reachable state. *)
LEMMA AccountsAreSettled == Spec => []DeliveryInv
<1>1. Init => DeliveryInv
  BY InitDelivery
<1>2. DeliveryInv /\ [Next]_vars => DeliveryInv'
  <2> SUFFICES ASSUME DeliveryInv, [Next]_vars PROVE DeliveryInv'
    OBVIOUS
  <2>1. /\ TypeInv /\ WorkInv /\ OrchInv /\ DaysInv
        /\ \A c \in Counts : \A m \in Messages(Kind(c)) : Account(c, m)
    BY DEF DeliveryInv, AccountInv, Account
  <2>2. TypeInv' /\ WorkInv' /\ OrchInv' /\ DaysInv'
    BY <2>1, StepTypes, StepWork, StepDays
  <2>3. ASSUME NEW c \in Counts, NEW m \in Messages(Kind(c)) PROVE Account(c, m)'
    BY <2>1, <2>2, StepAccount
  <2> QED BY <2>2, <2>3 DEF DeliveryInv, AccountInv, Account
<1> QED BY <1>1, <1>2, PTL DEF Spec

(* A settled account bounds what was counted.                              *)
LEMMA SettledCounts ==
  ASSUME DeliveryInv, NEW c \in Counts, NEW m \in Messages(Kind(c))
  PROVE  Count(c, m) <= Weight(c) * (1 + faults + 2 * stops)
<1>1. TypeInv /\ Account(c, m)
  BY DEF DeliveryInv, AccountInv, Account
<1>2. PICK p \in Procs : TRUE
  BY RelayAssumption
<1>3. /\ Cardinality(Official(c, m)) \in Nat /\ Cardinality(Detour(c, m)) \in Nat
      /\ Cardinality(Upsets(c)) \in Nat /\ Cardinality(Repeats(c, m)) \in Nat
      /\ Count(c, m) \in Nat
  <2>1. Upsets(c) \in SUBSET (Procs \X Units(c)) /\ Repeats(c, m) \in SUBSET (Procs \X Units(c))
    BY DEF Upsets, Repeats
  <2>2. IsFiniteSet(Procs) /\ IsFiniteSet(Units(c))
    BY RelayAssumption, UnitsNumber
  <2>3. IsFiniteSet(Procs \X Units(c))
    BY <2>2, FS_Product
  <2>4. Cardinality(Upsets(c)) \in Nat /\ Cardinality(Repeats(c, m)) \in Nat
    BY <2>1, <2>3, FS_Subset, FS_CardinalityType
  <2> QED BY <1>1, <2>4, FeeNumbers, CountType
<1>4. Weight(c) * (1 + faults + 2 * stops) \in Nat
  <2>1. Weight(c) \in Nat /\ faults \in Nat /\ stops \in Nat
    BY <1>1, CountBasics DEF TypeInv, TypeOK
  <2> QED BY <2>1
<1> QED BY <1>1, <1>3, <1>4 DEF Account, Owed

(* A message is posted again only for a reason: at most once for each      *)
(* fault and twice for each stop of the orchestrator                       *)
(* (relay_zhongtai_notifications.py saves what it has sent after the loop, *)
(* and a child that was left behind knows less than the state file).       *)
THEOREM DuplicatesAreExplained == Spec => []DuplicatesExplained
<1>1. DeliveryInv => DuplicatesExplained
  <2> SUFFICES ASSUME DeliveryInv, NEW k \in Kinds, NEW m \in Messages(k)
               PROVE  posts[k][m] <= 1 + faults + 2 * stops
    BY DEF DuplicatesExplained
  <2>1. /\ k \in Counts /\ Kind(k) = k /\ Weight(k) = 1 /\ Count(k, m) = posts[k][m]
    BY DEF Kinds, Counts, Kind, Weight, Count
  <2>2. posts[k][m] <= 1 * (1 + faults + 2 * stops)
    BY <2>1, SettledCounts
  <2>3. faults \in Nat /\ stops \in Nat
    BY DEF DeliveryInv, TypeInv, TypeOK
  <2> QED BY <2>2, <2>3
<1> QED BY <1>1, AccountsAreSettled, PTL

(* A report whose post fails is given up after max_report_send_attempts    *)
(* rounds, counted anew at most once for each fault and twice for each     *)
(* stop of the orchestrator.                                               *)
THEOREM ReportsAreGivenUp == Spec => []GivesUp
<1>1. DeliveryInv => GivesUp
  <2> SUFFICES ASSUME DeliveryInv, NEW r \in Reports
               PROVE  failures[r] <= MaxAttempts * (1 + faults + 2 * stops)
    BY DEF GivesUp
  <2>1. /\ "rounds" \in Counts /\ Kind("rounds") = "reports" /\ Weight("rounds") = MaxAttempts
        /\ Count("rounds", r) = failures[r] /\ r \in Messages("reports")
    BY Basics DEF Counts, Kind, Weight, Count
  <2> QED BY <2>1, SettledCounts
<1> QED BY <1>1, AccountsAreSettled, PTL
=============================================================================
