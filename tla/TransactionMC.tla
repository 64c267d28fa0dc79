---------------------------- MODULE TransactionMC ----------------------------
(* Instances of TransactionSession for TLC. *)
EXTENDS TransactionSession
=============================================================================
