---------------------------- MODULE MCCspTimeless ----------------------------
(* A small instance of CspPipeline in which, chosen at the start, everything *)
(* may happen or nothing expires and nobody interrupts.                      *)
EXTENDS MCCspPipeline

VARIABLE timeless  \* only Work is done

\* Bound: while everything may happen, one P worker stays at its loop head.
OneAtHead == \E p \in P : pcP[p] = "top"

AnyTimeSpec ==
  /\ Init /\ timeless \in BOOLEAN
  /\ [][/\ UNCHANGED timeless
        /\ \/ Work
           \/ ~timeless /\ (Aging \/ Interrupt)
        /\ timeless \/ OneAtHead']_<<vars, timeless>>

\* NoAdmissionMissed for the behaviours of TimelessSpec among these: a
\* producer is parked in acquire_t_production or acquire_q_batch only while
\* the gate would refuse it, whichever worker or task reports a change.
TimelessAdmissions == timeless => NoAdmissionMissed
=============================================================================
