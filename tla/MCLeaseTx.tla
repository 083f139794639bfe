------------------------------ MODULE MCLeaseTx ------------------------------
(* The server's worker loop and two CLI commands with --wait on one database; *)
(* three jobs, so that a lease can race an insert of an older row, a removal  *)
(* of the picked row and another lease.                                       *)
EXTENDS LeaseTx
=============================================================================
