---------------------------- MODULE MCTickPipeline ----------------------------
(* A contract that is reported and one of the current month that expires    *)
(* today, measured against the same index.                                  *)
EXTENDS TickPipeline

CONSTANTS far, last, hs300

MCContracts == {far, last}
MCIndexes == {hs300}
MCIndexOf == [c \in MCContracts |-> hs300]
MCCurrentMonth == {last}
MCExpiring == {last}
=============================================================================
