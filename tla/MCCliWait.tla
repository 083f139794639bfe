------------------------------ MODULE MCCliWait ------------------------------
(* Four jobs of several users and a loop of at most three turns. *)
EXTENDS CliWait
=============================================================================
