--------------------------- MODULE AdmissionGate ---------------------------
(***************************************************************************)
(* grok_register/core/admission.py: the watermark gate in front of the T   *)
(* and Q producers.  A producer reserves its intent to produce against the *)
(* depth of the inventory plus what is already on its way.  Both kinds     *)
(* have a hysteresis: at the high watermark the gate closes, and it opens  *)
(* again only at the low one.                                              *)
(*                                                                         *)
(* The operators take the depth as a parameter, because the gate reads it  *)
(* from the inventory and keeps none of its own.  The gate's condition     *)
(* variable (who is parked, who is woken) belongs to the workers and is    *)
(* modelled where they are, in CspPipeline.                                *)
(***************************************************************************)
EXTENDS Integers

CONSTANTS TLow, THigh, QLow, QHigh

\* The ValueErrors of AdmissionGate.__init__.
ASSUME WatermarkAssumption ==
  /\ TLow \in Nat /\ QLow \in Nat
  /\ THigh \in Nat \ {0} /\ QHigh \in Nat \ {0}
  /\ TLow =< THigh
  /\ QLow =< QHigh

VARIABLES t_in_progress,  \* T production leases not yet released
          q_inflight,     \* Q reservations not yet released
          t_paused,       \* hysteresis state of each kind
          q_paused

gateVars == <<t_in_progress, q_inflight, t_paused, q_paused>>

GateInit ==
  /\ t_in_progress = 0
  /\ q_inflight = 0
  /\ t_paused = FALSE
  /\ q_paused = FALSE

----------------------------------------------------------------------------

\* The hysteresis as a loop iteration leaves it: closed at high, opened at low.
TPausedAt(total) == (t_paused \/ total >= THigh) /\ ~(total =< TLow)
QPausedAt(total) == (q_paused \/ total >= QHigh) /\ ~(total =< QLow)

TAdmits(depth) ==
  LET total == depth + t_in_progress
  IN  ~TPausedAt(total) /\ total < THigh

QAdmits(depth) ==
  LET total == depth + q_inflight
  IN  ~QPausedAt(total) /\ total < QHigh

\* Defect: the batch is reserved whole, whatever room is left.
QGrant_WholeBatch(depth, maxBatch) == maxBatch

\* How many requests one call reserves: the demand, capped by the batch.
QGrant(depth, maxBatch) ==
  LET demand == QHigh - (depth + q_inflight)
  IN  IF demand < maxBatch THEN demand ELSE maxBatch

acquire_t_production(depth) ==
  /\ TAdmits(depth)
  /\ t_paused' = FALSE
  /\ t_in_progress' = t_in_progress + 1
  /\ UNCHANGED <<q_inflight, q_paused>>

\* The loop found no room and goes to wait(); the hysteresis is still updated.
RefuseT(depth) ==
  /\ ~TAdmits(depth)
  /\ t_paused' = TPausedAt(depth + t_in_progress)
  /\ UNCHANGED <<t_in_progress, q_inflight, q_paused>>

acquire_q_batch(depth, maxBatch) ==
  /\ QAdmits(depth)
  /\ q_inflight' = q_inflight + QGrant(depth, maxBatch)
  /\ q_paused' = (depth + q_inflight' >= QHigh)
  /\ UNCHANGED <<t_in_progress, t_paused>>

RefuseQ(depth) ==
  /\ ~QAdmits(depth)
  /\ q_paused' = QPausedAt(depth + q_inflight)
  /\ UNCHANGED <<t_in_progress, q_inflight, t_paused>>

\* _TProductionLease.release: a lease is released once.
release_t ==
  /\ t_in_progress' = t_in_progress - 1
  /\ UNCHANGED <<q_inflight, t_paused, q_paused>>

\* _QBatchLease.release_one, called n times in one uninterrupted segment.
release_q(n) ==
  /\ q_inflight' = q_inflight - n
  /\ UNCHANGED <<t_in_progress, t_paused, q_paused>>
=============================================================================
