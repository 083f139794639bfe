------------------------------ MODULE MCLogTail ------------------------------
(* Three rows and at most two overlapping polls. *)
EXTENDS LogTail
=============================================================================
