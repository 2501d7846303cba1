--------------------------- MODULE ReferenceData ---------------------------
(***************************************************************************)
(* The reference data on its way from the data machine to the monitor.     *)
(* push_reference_data_to_zhongtai.sh takes the newest file of each of the *)
(* four source directories, reduces them with prepare_reference_subset and *)
(* replaces, by SFTP and in place, the four files in the directories that  *)
(* the monitor reads when it starts.  A file is known by the date in its   *)
(* name, which it keeps on its way; the dates of the four may differ, and  *)
(* two pushes of one source file write the same name.                      *)
(* Push and monitor run on two machines, each by its own schedule: a start *)
(* may overlap a push, and a push may break off after any command or       *)
(* within a file.  That a removal fails, which "-rm" ignores, is not       *)
(* modelled.                                                               *)
(***************************************************************************)
EXTENDS ContractSelection

CONSTANTS
    Markets,        \* the source files of each date: functions from Days
    Deliveries,     \* the directories that get a source file together
    LastDay,        \* bound on the clock
    MaxPushes, MaxStarts   \* bounds on the pushes and the starts

ASSUME ReferenceAssumption ==
    /\ LastDay \in Nat \ {0} /\ MaxPushes \in Nat /\ MaxStarts \in Nat
    /\ Deliveries \subseteq SUBSET (1 .. 4)

VARIABLES
    today,
    source,     \* external: the source files of each date
    newest,     \* external: the date of the newest file of each directory
    directory,  \* the four directories on the monitoring machine: sets of files
    push,       \* the push script
    start,      \* the monitor, up to the selection of its contracts
    uploads,    \* history: the dates of the files of each push
    pushes, starts  \* history: numbers of pushes and starts so far

sources == <<source, newest>>
vars == <<today, sources, directory, push, start, uploads, pushes, starts>>

Days == 1 .. LastDay
Kinds == <<"fm", "im", "fe", "ie">>   \* the order of the batch and of the loads
Steps == 1 .. 4
Empty == [k \in {"fm", "im", "fe", "ie"} |-> <<>>]
NoDates == <<0, 0, 0, 0>>

NoPush == [op |-> "idle", step |-> 1, day |-> 0, dates |-> NoDates, files |-> Empty,
           ended |-> "never", at |-> 0]
NoStart == [op |-> "idle", step |-> 1, day |-> 0, data |-> Empty, dates |-> NoDates,
            opened |-> NoDates, overlaps |-> FALSE, monitored |-> <<>>, indices |-> <<>>]

Init ==
    /\ today = 1
    /\ source \in Markets /\ newest = [k \in Steps |-> 1]
    /\ directory = [k \in Steps |-> {}]
    /\ push = NoPush /\ start = NoStart
    /\ uploads = {} /\ pushes = 0 /\ starts = 0

Loading == start.op \in {"find", "load", "select"}
Overlaps == start' = [start EXCEPT !.overlaps = @ \/ Loading]

NextDay ==
    /\ today < LastDay
    /\ today' = today + 1
    /\ UNCHANGED <<sources, directory, push, start, uploads, pushes, starts>>

\* External: files of today come into some of the source directories.
Deliver ==
    /\ \E delivered \in Deliveries :
         newest' = [k \in Steps |-> IF k \in delivered THEN today ELSE newest[k]]
    /\ UNCHANGED <<today, source, directory, push, start, uploads, pushes, starts>>

-----------------------------------------------------------------------------
(* The push *)

\* What a transfer that is under way, or has been cut, leaves of a file: some
\* of its rows, and of the next one possibly a beginning.  A header or a number
\* that is missing makes the load throw; a number that is cut short reads as a
\* small one, and a date that is cut short as a missing one.
Beginning(k, row) ==
    CASE Kinds[k] = "fm" -> [row EXCEPT !.maturity = 0]
      [] Kinds[k] = "fe" -> [row EXCEPT !.turnover = 1]
      [] Kinds[k] = "ie" -> [row EXCEPT !.close = 1]
      [] OTHER -> row

Cuts(k, rows) ==
    {[rows |-> <<>>, readable |-> FALSE]}
      \cup {[rows |-> SubSeq(rows, 1, n), readable |-> TRUE] : n \in 0 .. Len(rows) - 1}
      \cup {[rows |-> Append(SubSeq(rows, 1, n - 1), Beginning(k, rows[n])),
             readable |-> TRUE] : n \in DOMAIN rows}

File(date, content) == [date |-> date, rows |-> content.rows, readable |-> content.readable]
Whole(rows) == [rows |-> rows, readable |-> TRUE]

\* A put replaces the file of the same name, which is that of its source.
Put(files, file) == {f \in files : f.date # file.date} \cup {file}

\* The files of these dates
SourceFiles(dates) ==
    [fm |-> source[dates[1]].fm, im |-> source[dates[2]].im,
     fe |-> source[dates[3]].fe, ie |-> source[dates[4]].ie]

\* copy_latest_csv_to_dir, of each directory its newest file, and
\* prepare_reference_subset, which leaves the four dates as they are.  A delivery
\* between two of the copies is one of which a part comes later.
Prepare ==
    /\ push.op = "idle" /\ pushes < MaxPushes
    /\ LET data == SourceFiles(newest)
       IN  push' = [NoPush EXCEPT !.op = "clear", !.day = today, !.dates = newest,
                      !.files = WrittenSubset(Subset(data, SelectContracts(data, today))),
                      !.ended = "running"]
    /\ uploads' = uploads \cup {newest}
    /\ pushes' = pushes + 1
    /\ Overlaps
    /\ UNCHANGED <<today, sources, directory, starts>>

\* All the directories are cleared before the first put.
AfterClear(k) == IF k < 4 THEN [op |-> "clear", step |-> k + 1] ELSE [op |-> "put", step |-> 1]

\* Mutant of AfterPut: one put too many.
AfterPutFive(k) == IF k <= 4 THEN [op |-> "put", step |-> k + 1] ELSE [op |-> "idle", step |-> 1]

AfterPut(k) == IF k < 4 THEN [op |-> "put", step |-> k + 1] ELSE [op |-> "idle", step |-> 1]

\* Mutant of Cleared: the old files are left.
KeepsFiles(files) == files

Cleared(files) == {}

\* -rm *.csv in the next directory
Clear ==
    /\ push.op = "clear"
    /\ directory' = [directory EXCEPT ![push.step] = Cleared(@)]
    /\ push' = [push EXCEPT !.op = AfterClear(push.step).op, !.step = AfterClear(push.step).step]
    /\ Overlaps
    /\ UNCHANGED <<today, sources, uploads, pushes, starts>>

BeginPut ==
    /\ push.op = "put"
    /\ \E content \in Cuts(push.step, push.files[Kinds[push.step]]) :
         directory' = [directory EXCEPT ![push.step] = Put(@, File(push.dates[push.step], content))]
    /\ push' = [push EXCEPT !.op = "putting"]
    /\ Overlaps
    /\ UNCHANGED <<today, sources, uploads, pushes, starts>>

EndPut ==
    /\ push.op = "putting"
    /\ directory' = [directory EXCEPT ![push.step] =
                       Put(@, File(push.dates[push.step],
                                   Whole(push.files[Kinds[push.step]])))]
    /\ push' = [push EXCEPT !.op = AfterPut(push.step).op, !.step = AfterPut(push.step).step,
                            !.ended = IF push.step = 4 THEN "complete" ELSE @]
    /\ Overlaps
    /\ UNCHANGED <<today, sources, uploads, pushes, starts>>

\* The connection breaks, or a put fails: sftp -b gives up.
BreakOff ==
    /\ push.op # "idle"
    /\ push' = [push EXCEPT !.op = "idle", !.ended = push.op, !.at = push.step]
    /\ Overlaps
    /\ UNCHANGED <<today, sources, directory, uploads, pushes, starts>>

-----------------------------------------------------------------------------
(* The start of the monitor *)

\* The trading date is read before the files are.
BeginStart ==
    /\ start.op \in {"idle", "running", "failed"} /\ starts < MaxStarts
    /\ start' = [NoStart EXCEPT !.op = "find", !.day = today, !.overlaps = push.op # "idle"]
    /\ starts' = starts + 1
    /\ UNCHANGED <<today, sources, directory, push, uploads, pushes>>

Latest(files) == CHOOSE f \in files : \A g \in files : g.date <= f.date

Fail == start' = [start EXCEPT !.op = "failed"]

\* FindLatestFile, for all four before the first is opened
Find ==
    /\ start.op = "find"
    /\ LET k == start.step IN
       \/ /\ directory[k] # {}
          /\ start' = [start EXCEPT !.dates[k] = Latest(directory[k]).date,
                         !.op = IF k < 4 THEN "find" ELSE "load",
                         !.step = IF k < 4 THEN k + 1 ELSE 1]
       \/ directory[k] = {} /\ Fail
    /\ UNCHANGED <<today, sources, directory, push, uploads, pushes, starts>>

\* Mutant of Opens: whatever is there now is opened.
OpensLatest(files, date) == {f \in files : f = Latest(files)}

\* The file is opened by the path that was found.
Opens(files, date) == {f \in files : f.date = date}

\* LoadFutureMetadata, LoadIndexMetadata, LoadFutureEod and LoadIndexEod
Load ==
    /\ start.op = "load"
    /\ LET k == start.step
           opened == Opens(directory[k], start.dates[k])
       IN  \/ \E f \in opened :
                /\ f.readable
                /\ start' = [start EXCEPT !.data[Kinds[k]] = f.rows,
                               !.opened[k] = f.date,
                               !.op = IF k < 4 THEN "load" ELSE "select",
                               !.step = IF k < 4 THEN k + 1 ELSE 1]
           \/ (\A f \in opened : ~f.readable) /\ Fail
    /\ UNCHANGED <<today, sources, directory, push, uploads, pushes, starts>>

\* The contracts and their subscriptions; none at all is an error.
Select ==
    /\ start.op = "select"
    /\ LET monitored == SelectContracts(start.data, start.day)
       IN  \/ /\ monitored # <<>>
              /\ start' = [start EXCEPT !.op = "running", !.monitored = monitored,
                             !.indices = IndexInstruments(monitored, <<>>)]
           \/ monitored = <<>> /\ Fail
    /\ UNCHANGED <<today, sources, directory, push, uploads, pushes, starts>>

Next ==
    \/ NextDay \/ Deliver
    \/ Prepare \/ Clear \/ BeginPut \/ EndPut \/ BreakOff
    \/ BeginStart \/ Find \/ Load \/ Select

Spec == Init /\ [][Next]_vars

-----------------------------------------------------------------------------
(* Properties *)

TypeOK ==
    /\ today \in Days /\ source \in Markets /\ newest \in [Steps -> Days]
    /\ \A k \in Steps : \A f \in directory[k] : f.date \in Days /\ f.readable \in BOOLEAN
    /\ push.op \in {"idle", "clear", "put", "putting"}
    /\ push.step \in Steps /\ push.day \in 0 .. LastDay
    /\ push.dates \in [Steps -> 0 .. LastDay]
    /\ start.op \in {"idle", "find", "load", "select", "running", "failed"}
    /\ start.step \in Steps /\ start.day \in 0 .. LastDay
    /\ start.dates \in [Steps -> 0 .. LastDay] /\ start.opened \in [Steps -> 0 .. LastDay]
    /\ uploads \subseteq [Steps -> Days]
    /\ pushes \in 0 .. MaxPushes /\ starts \in 0 .. MaxStarts

\* The contracts that ought to be monitored, without sorting: those of which
\* fewer than TopN of the same group come first, on the day of the push, and
\* which have not expired by the day of the start.
Due(data, pushDay, startDay) ==
    LET taken == {row \in Rows(data.fe) : Taken(data, row, pushDay)}
        First(row, other) ==
            /\ ReportGroupForProductGroup(ProductOf[row.id])
                 = ReportGroupForProductGroup(ProductOf[other.id])
            /\ \/ row.turnover > other.turnover
               \/ row.turnover = other.turnover /\ row.id < other.id
        top == {row \in taken : Cardinality({r \in taken : First(r, row)}) < TopN}
    IN  {row \in top : RowOf(data.fm, row.id).maturity >= startDay}

Undisturbed == start.op \in {"running", "failed"} /\ ~start.overlaps

\* The monitored contracts are those that the full source files call for, with
\* the source's prices as far as a CSV keeps them, each with the subscription
\* of its index.
MonitorsAllDue ==
    LET data == SourceFiles(push.dates)
        due == Due(data, push.day, start.day)
        Price(file, id) == Written(RowOf(file, id).close)
    IN  IF start.op = "failed" THEN due = {}
        ELSE /\ {c.id : c \in Rows(start.monitored)} = {row.id : row \in due}
             /\ Len(start.monitored) = Cardinality(due)
             /\ \A c \in Rows(start.monitored) :
                  /\ c.future_close = Price(data.fe, c.id)
                  /\ c.index = RowOf(data.fm, c.id).underlying
                  /\ c.index_close = Price(data.ie, c.index)
             /\ Rows(start.indices) = {c.index : c \in Rows(start.monitored)}
             /\ Len(start.indices) = Cardinality(Rows(start.indices))

\* A start that follows a complete push and overlaps none monitors exactly what
\* is due: selecting from the written subset, on a later day perhaps, loses and
\* invents nothing.
\* (The start is over; a push may have begun since, so the action says it.)
QuietStartMonitorsAll ==
    [][start.op # start'.op /\ Undisturbed' /\ push.ended = "complete"
         => MonitorsAllDue']_vars

\* A start after a push that broke off fails, unless the push broke off before
\* its first command, or in its very last file, of which part is there and may
\* be taken for the whole.
CutPushIsNoticed ==
    [][start.op # start'.op /\ Undisturbed' /\ start'.op = "running"
         => \/ push.ended = "complete"
            \/ push.ended = "clear" /\ push.at = 1
            \/ push.ended = "putting" /\ push.at = 4]_vars

\* Even when it overlaps pushes, a start that succeeds has opened, by their
\* dates, the four files of one push: the monitor never reads the metadata of
\* one delivery with the prices of another unless a push put them together.
\* (Pushes that share a source file share its name; which of them has put it is
\* not said.)
OneVersionOnly == start.op = "running" => start.opened \in uploads
=============================================================================
