---------------------------- MODULE MCFeeReserve ----------------------------
(***************************************************************************)
(* A small instance of FeeReserve.                                         *)
(***************************************************************************)
EXTENDS FeeReserve

CONSTANTS v1, v2

\* storage prices of the instance
Prices == [t \in StorageTypes |-> IF t = "State" THEN 1 ELSE 2]
=============================================================================
