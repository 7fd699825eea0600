--------------------------- MODULE MCCspPipeline ---------------------------
(* Small instances of CspPipeline.  Workers, requests and envelopes of a    *)
(* kind are interchangeable, so the safety runs may permute them.           *)
EXTENDS CspPipeline, TLC

Symmetry == Permutations(S) \cup Permutations(P) \cup Permutations(C)
            \cup Permutations(Req) \cup Permutations(TEnv)
            \cup Permutations(QEnv)
=============================================================================
