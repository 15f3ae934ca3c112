------------------------ MODULE MCTransactionTracker ------------------------
(***************************************************************************)
(* Small instances of TransactionTracker.                                  *)
(***************************************************************************)
EXTENDS TransactionTracker, TLC

CONSTANTS t1, t2, s1

TransactionSymmetry == Permutations(Transactions)
=============================================================================
