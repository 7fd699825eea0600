--------------------------- MODULE MCAuthPipeline ---------------------------
(* Small instances of AuthPipeline.                                         *)
EXTENDS AuthPipeline, TLC

Symmetry == Permutations(Receipts) \cup Permutations(Batches)
=============================================================================
