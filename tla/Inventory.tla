----------------------------- MODULE Inventory -----------------------------
(***************************************************************************)
(* grok_register/core/inventory.py with grok_register/core/envelope.py:    *)
(* the stock of T and Q envelopes, the slot each envelope occupies, and    *)
(* the pair leases of the consumers.                                       *)
(*                                                                         *)
(* An envelope is an identity that exists while its slot is held, and an   *)
(* identity may be used again once its slot is released.  The two deques   *)
(* are sets: apart from their order of arrival the envelopes of a kind     *)
(* differ only in having expired or not, and a claim takes one of the      *)
(* unexpired ones.  Time is the action Age, which lets any envelope pass   *)
(* its expires_at.                                                         *)
(*                                                                         *)
(* The lock of the inventory is never held across a suspension, so every   *)
(* operation below is one step.  The waiters of its condition variable are *)
(* consumers and are modelled with them, in CspPipeline.                   *)
(***************************************************************************)
EXTENDS Integers, FiniteSets

CONSTANTS TEnv, QEnv,            \* identities of T and of Q envelopes
          C,                     \* consumers
          TSlotCap, QSlotCap     \* initial values of T_Slot_Sem, Q_Slot_Sem

ASSUME InventoryAssumption ==
  /\ IsFiniteSet(TEnv) /\ IsFiniteSet(QEnv) /\ IsFiniteSet(C)
  /\ TEnv \cap QEnv = {}
  /\ TSlotCap \in Nat \ {0} /\ QSlotCap \in Nat \ {0}

VARIABLES t_buf, q_buf,          \* stocked envelopes
          lease,                 \* lease[c]: the envelopes of c's PairLease
          expired,               \* existing envelopes past their expires_at
          t_slot_sem, q_slot_sem \* free slots

stockVars == <<t_buf, q_buf, lease, expired, t_slot_sem, q_slot_sem>>

InventoryInit ==
  /\ t_buf = {} /\ q_buf = {}
  /\ lease = [c \in C |-> {}]
  /\ expired = {}
  /\ t_slot_sem = TSlotCap /\ q_slot_sem = QSlotCap

----------------------------------------------------------------------------

Leased == UNION {lease[c] : c \in C}
LiveT == t_buf \cup (Leased \cap TEnv)
LiveQ == q_buf \cup (Leased \cap QEnv)

t_depth == Cardinality(t_buf)
q_depth == Cardinality(q_buf)

\* What _cleanup_expired discards, and what it keeps.
StaleT == t_buf \cap expired
StaleQ == q_buf \cap expired
FreshT == t_buf \ expired
FreshQ == q_buf \ expired

\* create_with_slot followed by put_t: the slot is taken, both buffers are
\* cleaned, the envelope is stocked.
put_t(t) ==
  /\ t_slot_sem > 0
  /\ t \in TEnv \ LiveT
  /\ t_buf' = FreshT \cup {t}
  /\ q_buf' = FreshQ
  /\ t_slot_sem' = t_slot_sem - 1 + Cardinality(StaleT)
  /\ q_slot_sem' = q_slot_sem + Cardinality(StaleQ)
  /\ expired' = expired \ (StaleT \cup StaleQ)
  /\ UNCHANGED lease

put_q(q) ==
  /\ q_slot_sem > 0
  /\ q \in QEnv \ LiveQ
  /\ t_buf' = FreshT
  /\ q_buf' = FreshQ \cup {q}
  /\ t_slot_sem' = t_slot_sem + Cardinality(StaleT)
  /\ q_slot_sem' = q_slot_sem - 1 + Cardinality(StaleQ)
  /\ expired' = expired \ (StaleT \cup StaleQ)
  /\ UNCHANGED lease

\* Defect: put_t drops an expired envelope without discard().
put_t_expired_KeepsSlot ==
  /\ t_slot_sem > 0
  /\ t_slot_sem' = t_slot_sem - 1
  /\ UNCHANGED <<t_buf, q_buf, lease, expired, q_slot_sem>>

\* The wait for the slot outlived the value: put_t and put_q discard the
\* envelope and give the slot back before they look at the buffers.
put_t_expired == t_slot_sem > 0 /\ UNCHANGED stockVars
put_q_expired == q_slot_sem > 0 /\ UNCHANGED stockVars

\* Defect: the Q of a pair is read but not taken off its deque.
claim_pair_PeeksQ(c) ==
  \E t \in FreshT, q \in FreshQ :
    /\ lease' = [lease EXCEPT ![c] = {t, q}]
    /\ t_buf' = FreshT \ {t}
    /\ q_buf' = FreshQ
    /\ t_slot_sem' = t_slot_sem + Cardinality(StaleT)
    /\ q_slot_sem' = q_slot_sem + Cardinality(StaleQ)
    /\ expired' = expired \ (StaleT \cup StaleQ)

\* Defect: the pair is popped without cleaning the buffers first.
claim_pair_Unswept(c) ==
  \E t \in t_buf, q \in q_buf :
    /\ lease' = [lease EXCEPT ![c] = {t, q}]
    /\ t_buf' = t_buf \ {t}
    /\ q_buf' = q_buf \ {q}
    /\ UNCHANGED <<expired, t_slot_sem, q_slot_sem>>

\* _try_pop_pair after its cleanup: one T and one Q leave together.
claim_pair(c) ==
  \E t \in FreshT, q \in FreshQ :
    /\ lease' = [lease EXCEPT ![c] = {t, q}]
    /\ t_buf' = FreshT \ {t}
    /\ q_buf' = FreshQ \ {q}
    /\ t_slot_sem' = t_slot_sem + Cardinality(StaleT)
    /\ q_slot_sem' = q_slot_sem + Cardinality(StaleQ)
    /\ expired' = expired \ (StaleT \cup StaleQ)

\* _try_pop_pair found no pair: only the cleanup happened.
claim_nothing ==
  /\ FreshT = {} \/ FreshQ = {}
  /\ t_buf' = FreshT
  /\ q_buf' = FreshQ
  /\ t_slot_sem' = t_slot_sem + Cardinality(StaleT)
  /\ q_slot_sem' = q_slot_sem + Cardinality(StaleQ)
  /\ expired' = expired \ (StaleT \cup StaleQ)
  /\ UNCHANGED lease

\* PairLease.__aexit__: release_slot_once on both envelopes.
settle(c) ==
  /\ lease' = [lease EXCEPT ![c] = {}]
  /\ t_slot_sem' = t_slot_sem + Cardinality(lease[c] \cap TEnv)
  /\ q_slot_sem' = q_slot_sem + Cardinality(lease[c] \cap QEnv)
  /\ expired' = expired \ lease[c]
  /\ UNCHANGED <<t_buf, q_buf>>

\* is_expired turns true for one envelope.
Age(e) ==
  /\ e \in (LiveT \cup LiveQ) \ expired
  /\ expired' = expired \cup {e}
  /\ UNCHANGED <<t_buf, q_buf, lease, t_slot_sem, q_slot_sem>>

pair_is_expired(c) == lease[c] \cap expired # {}

----------------------------------------------------------------------------

StockTypeOK ==
  /\ t_buf \subseteq TEnv /\ q_buf \subseteq QEnv
  /\ lease \in [C -> SUBSET (TEnv \cup QEnv)]
  /\ expired \subseteq LiveT \cup LiveQ
  /\ t_slot_sem \in Nat /\ q_slot_sem \in Nat

\* Every slot taken is held by exactly one existing envelope: through expiry,
\* settlement, failure and cancellation each is released once and only once.
SlotConservation ==
  /\ t_slot_sem + Cardinality(LiveT) = TSlotCap
  /\ q_slot_sem + Cardinality(LiveQ) = QSlotCap

\* A lease is nothing or a whole pair.
WholePair(c) ==
  lease[c] = {} \/ \E t \in TEnv, q \in QEnv : lease[c] = {t, q}

\* An envelope has one owner, the stock or one lease.
SingleOwner ==
  /\ Leased \cap (t_buf \cup q_buf) = {}
  /\ \A c, d \in C : c # d => lease[c] \cap lease[d] = {}
  /\ \A c \in C : WholePair(c)
=============================================================================
