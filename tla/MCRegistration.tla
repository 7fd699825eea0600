--------------------------- MODULE MCRegistration ---------------------------
(* Small instances of Registration. *)
EXTENDS Registration, TLC

Symmetry == Permutations(C) \cup Permutations(Exit)
=============================================================================
