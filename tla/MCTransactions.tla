--------------------------- MODULE MCTransactions ---------------------------
(***************************************************************************)
(* Transactions whose BEGIN, COMMIT and ABORT records take one unit of the *)
(* log buffer and whose INSERT records take two (20 and 287 bytes in the   *)
(* code).                                                                  *)
(***************************************************************************)
EXTENDS Transactions

MCRecordSize(type) == IF type = "INSERT" THEN 2 ELSE 1

=============================================================================
