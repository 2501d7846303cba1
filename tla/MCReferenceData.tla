-------------------------- MODULE MCReferenceData --------------------------
(***************************************************************************)
(* Source files for ReferenceData: three IF contracts, of which the first  *)
(* may expire on the first day, one IC and one IH contract, one that is    *)
(* not a month contract; with and without gaps in the data, in several     *)
(* orders of turnover on either date; closes of a date differ from those   *)
(* of another.  Metadata and EOD files arrive independently.               *)
(***************************************************************************)
EXTENDS ReferenceData

Products == <<"IF", "IF", "IF", "IC", "IH", "none">>
Underlying == <<"000300", "000300", "000300", "000905", "000016", "">>

Data(day, turnover, gaps) ==
    [fm |-> SelectSeq([i \in 1 .. 6 |->
              [id |-> i, cffex |-> ~("exchange" \in gaps /\ i = 2),
               maturity |-> CASE "maturity" \in gaps /\ i = 2 -> 0
                             [] "expires" \in gaps /\ i = 1 -> 1
                             [] OTHER -> 2,
               underlying |-> Underlying[i]]],
              LAMBDA row : ~("metadata" \in gaps /\ row.id = 2)),
     im |-> SelectSeq(<<[id |-> "000300"], [id |-> "000905"]>>,
              LAMBDA row : ~("index" \in gaps /\ row.id = "000905")),
     fe |-> [i \in 1 .. 6 |->
              [id |-> i, close |-> 10 * day + i,
               turnover |-> IF i <= 3 THEN turnover[i] ELSE i]],
     ie |-> <<[id |-> "000300", close |-> 10 * day],
              [id |-> "000905", close |-> IF "close" \in gaps THEN 0 ELSE 10 * day + 5]>>]

\* The turnovers and the gaps of either date: near-ties that become ties when
\* they are written, exact ties, and every reason to leave a contract out.
SomeMarkets ==
    {<<Data(1, <<9, 8, 9>>, {"expires"}), Data(2, <<4, 8, 9>>, {"expires"})>>,
     <<Data(1, <<5, 4, 4>>, {}), Data(2, <<6, 5, 4>>, {})>>,
     <<Data(1, <<4, 5, 6>>, {"metadata", "index"}), Data(2, <<5, 4, 4>>, {"exchange"})>>,
     <<Data(1, <<9, 8, 9>>, {"maturity", "close"}), Data(2, <<8, 9, 8>>, {"expires"})>>}

SomeDeliveries == {{1, 2}, {3, 4}}
=============================================================================
