--------------------------- MODULE MCPasswordReveal ---------------------------
(* Three requests, so that two handlers can overlap and a third come later. *)
EXTENDS PasswordReveal, TLC
Symmetric == Permutations(Pages) \cup Permutations(Requests)
=============================================================================
