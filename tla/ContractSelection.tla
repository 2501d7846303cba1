------------------------- MODULE ContractSelection -------------------------
(***************************************************************************)
(* What is computed from the reference data: the contracts to monitor, the *)
(* subset that is sent to the monitoring machine, and the subscriptions.   *)
(* Reference data is a record of four files, each a sequence of rows:      *)
(*   fm  future metadata   id, cffex, maturity, underlying                 *)
(*   im  index metadata    id                                              *)
(*   fe  future EOD        id, close, turnover                             *)
(*   ie  index EOD         id, close                                       *)
(* Dates, prices and turnovers are numbers; a date that is missing is 0.   *)
(* cffex stands for the two comparisons of exchange and product.           *)
(***************************************************************************)
EXTENDS Integers, Sequences, FiniteSets, TLC

CONSTANTS
    ProductOf,     \* the product of each order_book_id: IF, IC, IM, IH, ... or
                   \* "none" for one that is not a month contract's
    TopN,          \* 4: contracts monitored of each report group
    ExactBelow     \* numbers below it are written to a CSV exactly

Rows(file) == {file[i] : i \in DOMAIN file}
HasRow(file, id) == \E row \in Rows(file) : row.id = id

\* A later row of the same id replaces an earlier one.
RowOf(file, id) ==
    file[CHOOSE i \in DOMAIN file :
           /\ file[i].id = id
           /\ \A j \in DOMAIN file : file[j].id = id => j <= i]

\* In the order of the map grouped_contracts
ReportGroups == <<"hs300", "zz1000", "zz500">>

ReportGroupForProductGroup(product) ==
    CASE product = "IF" -> "hs300"
      [] product = "IC" -> "zz500"
      [] product = "IM" -> "zz1000"
      [] OTHER -> ""

IsExpiredContract(maturity, date) == maturity < date

HasIndex(data, code) ==
    /\ HasRow(data.im, code) /\ HasRow(data.ie, code)
    /\ RowOf(data.ie, code).close > 0

\* The conditions under which SelectPerProductTop4 takes a row of future_eod.
Taken(data, row, date) ==
    LET metadata == RowOf(data.fm, row.id)
    IN  /\ ReportGroupForProductGroup(ProductOf[row.id]) # ""
        /\ HasRow(data.fm, row.id)
        /\ metadata.cffex
        /\ metadata.maturity # 0
        /\ ~IsExpiredContract(metadata.maturity, date)
        /\ HasIndex(data, metadata.underlying)

MonitoredContract(data, row) ==
    LET index == RowOf(data.fm, row.id).underlying
    IN  [id |-> row.id, index |-> index, turnover |-> row.turnover,
         future_close |-> row.close, index_close |-> RowOf(data.ie, index).close]

\* Mutant of Before: ascending by turnover.
SmallestFirst(left, right) ==
    \/ left.turnover < right.turnover
    \/ left.turnover = right.turnover /\ left.id < right.id

\* The order of the sort
Before(left, right) ==
    \/ left.turnover > right.turnover
    \/ left.turnover = right.turnover /\ left.id < right.id

SelectGroup(data, group, date) ==
    LET InGroup(row) == /\ Taken(data, row, date)
                        /\ ReportGroupForProductGroup(ProductOf[row.id]) = group
        taken == SelectSeq(data.fe, InGroup)
        sorted == SortSeq([i \in DOMAIN taken |-> MonitoredContract(data, taken[i])], Before)
    IN  IF Len(sorted) > TopN THEN SubSeq(sorted, 1, TopN) ELSE sorted

\* SelectPerProductTop4 and FlattenContracts
SelectContracts(data, date) ==
    SelectGroup(data, ReportGroups[1], date)
      \o SelectGroup(data, ReportGroups[2], date)
      \o SelectGroup(data, ReportGroups[3], date)

\* BuildReferenceDataSubset
Subset(data, selection) ==
    LET OfContract(row) == \E c \in Rows(selection) : c.id = row.id
        OfIndex(row) == \E c \in Rows(selection) : c.index = row.id
    IN  [fm |-> SelectSeq(data.fm, OfContract), im |-> SelectSeq(data.im, OfIndex),
         fe |-> SelectSeq(data.fe, OfContract), ie |-> SelectSeq(data.ie, OfIndex)]

\* WriteReferenceDataSubset: operator<< keeps six significant digits, so that
\* large numbers that differ in the last digits become equal.
Written(number) == IF number < ExactBelow THEN number ELSE 2 * (number \div 2)

WrittenSubset(data) ==
    [data EXCEPT
       !.fe = [i \in DOMAIN @ |-> [@[i] EXCEPT !.close = Written(@),
                                               !.turnover = Written(@)]],
       !.ie = [i \in DOMAIN @ |-> [@[i] EXCEPT !.close = Written(@)]]]

\* BuildXtpIndexInstruments: the indices of the contracts, each once
IndexInstruments(contracts, fallback) ==
    LET First(i) == \A j \in 1 .. i - 1 : contracts[j].index # contracts[i].index
        firsts == SelectSeq([i \in DOMAIN contracts |-> i], First)
    IN  IF firsts = <<>> THEN fallback
        ELSE [i \in DOMAIN firsts |-> contracts[firsts[i]].index]
=============================================================================
