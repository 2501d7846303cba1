--------------------------- MODULE MCDualSession ---------------------------
(***************************************************************************)
(* Index instruments for DualSession: one for each way of finding its      *)
(* exchange, and one without a ticker.                                     *)
(***************************************************************************)
EXTENDS DualSession

SomeIndices == {[ticker |-> "000300", suffix |-> ""],
                [ticker |-> "000852", suffix |-> "XSHG"],
                [ticker |-> "399905", suffix |-> "XSHE"],
                [ticker |-> "", suffix |-> "XSHE"]}
=============================================================================
