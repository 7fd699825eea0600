--------------------------- MODULE CspStockProofs ---------------------------
(***************************************************************************)
(* The inventory, the pipeline and its stock: every operation of the       *)
(* inventory keeps the types of the stock, the slots and the single owner  *)
(* of each envelope; the pipeline misses no pair and implements            *)
(* PairExchange, for any number of workers and any capacities.             *)
(***************************************************************************)
EXTENDS CspPipeline, FiniteSetTheorems, FunctionTheorems, TLAPS

(***************************************************************************)
(* The operations of the inventory.                                        *)
(***************************************************************************)

StockInv == StockTypeOK /\ SlotConservation /\ SingleOwner

----------------------------------------------------------------------------
(* Cardinalities of the finite sets that are counted.                       *)

\* Removing part of a finite set lowers its cardinality by that of the part.
LEMMA CardRemove ==
  ASSUME NEW A, IsFiniteSet(A), NEW B, B \subseteq A
  PROVE  /\ IsFiniteSet(A \ B)
         /\ Cardinality(A) \in Nat /\ Cardinality(B) \in Nat
         /\ Cardinality(A \ B) \in Nat
         /\ Cardinality(A \ B) = Cardinality(A) - Cardinality(B)
<1>1. IsFiniteSet(B)
  BY FS_Subset
<1>2. A \cap B = B
  OBVIOUS
<1>3. IsFiniteSet(A \ B) /\ Cardinality(A \ B) = Cardinality(A) - Cardinality(B)
  BY <1>2, FS_Difference
<1> QED
  BY <1>1, <1>3, FS_CardinalityType

\* Adding a new element to a finite set raises its cardinality by one.
LEMMA CardAdd ==
  ASSUME NEW A, IsFiniteSet(A), NEW x, x \notin A
  PROVE  /\ IsFiniteSet(A \cup {x})
         /\ Cardinality(A) \in Nat
         /\ Cardinality(A \cup {x}) = Cardinality(A) + 1
BY FS_AddElement, FS_CardinalityType

\* The existing envelopes and the stock are finite.
LEMMA StockFinite ==
  ASSUME StockTypeOK
  PROVE  /\ IsFiniteSet(LiveT) /\ IsFiniteSet(LiveQ)
         /\ IsFiniteSet(t_buf) /\ IsFiniteSet(q_buf)
<1>1. LiveT \subseteq TEnv /\ LiveQ \subseteq QEnv
  BY DEF StockTypeOK, LiveT, LiveQ
<1>2. t_buf \subseteq TEnv /\ q_buf \subseteq QEnv
  BY DEF StockTypeOK
<1> QED
  BY <1>1, <1>2, FS_Subset, InventoryAssumption

----------------------------------------------------------------------------
(* How the leased envelopes change with one lease.                          *)

\* A first lease adds its envelopes to the leased ones.
LEMMA LeasedAdd ==
  ASSUME StockTypeOK, NEW c \in C, NEW X, lease[c] = {},
         lease' = [lease EXCEPT ![c] = X]
  PROVE  Leased' = Leased \cup X
BY DEF StockTypeOK, Leased

\* Since leases are disjoint, ending one removes just its envelopes.
LEMMA LeasedRemove ==
  ASSUME StockTypeOK, SingleOwner, NEW c \in C,
         lease' = [lease EXCEPT ![c] = {}]
  PROVE  Leased' = Leased \ lease[c]
BY DEF StockTypeOK, SingleOwner, Leased

----------------------------------------------------------------------------
(* The operations.                                                          *)

LEMMA InventoryInitInv == InventoryInit => StockInv
<1> SUFFICES ASSUME InventoryInit PROVE StockInv
  OBVIOUS
<1>1. Leased = {}
  BY DEF InventoryInit, Leased
<1>2. LiveT = {} /\ LiveQ = {}
  BY <1>1 DEF InventoryInit, LiveT, LiveQ
<1>3. StockTypeOK
  BY <1>2, InventoryAssumption DEF InventoryInit, StockTypeOK
<1>4. SlotConservation
  BY <1>2, FS_EmptySet, InventoryAssumption
  DEF InventoryInit, SlotConservation
<1>5. SingleOwner
  BY <1>1 DEF InventoryInit, SingleOwner, WholePair
<1> QED
  BY <1>3, <1>4, <1>5 DEF StockInv

\* The cleanup alone, as a failed claim performs it.
LEMMA ClaimNothingInv ==
  ASSUME StockInv, claim_nothing
  PROVE  StockInv'
<1> USE DEF StockInv
<1>1. Leased' = Leased
  BY DEF claim_nothing, Leased
<1>2. /\ LiveT' = LiveT \ StaleT /\ StaleT \subseteq LiveT
      /\ LiveQ' = LiveQ \ StaleQ /\ StaleQ \subseteq LiveQ
  BY <1>1, InventoryAssumption
  DEF claim_nothing, LiveT, LiveQ, FreshT, FreshQ, StaleT, StaleQ,
      SingleOwner, StockTypeOK
<1>3. /\ Cardinality(LiveT') = Cardinality(LiveT) - Cardinality(StaleT)
      /\ Cardinality(LiveQ') = Cardinality(LiveQ) - Cardinality(StaleQ)
      /\ Cardinality(StaleT) \in Nat /\ Cardinality(StaleQ) \in Nat
      /\ Cardinality(LiveT) \in Nat /\ Cardinality(LiveQ) \in Nat
  BY <1>2, CardRemove, StockFinite
<1>4. StockTypeOK'
  <2>1. t_buf' \subseteq TEnv /\ q_buf' \subseteq QEnv
    BY DEF claim_nothing, StockTypeOK, FreshT, FreshQ
  <2>2. lease' \in [C -> SUBSET (TEnv \cup QEnv)]
    BY DEF claim_nothing, StockTypeOK
  <2>3. expired' \subseteq (LiveT \cup LiveQ)'
    BY <1>2 DEF claim_nothing, StockTypeOK
  <2>4. t_slot_sem' \in Nat /\ q_slot_sem' \in Nat
    BY <1>3 DEF claim_nothing, StockTypeOK
  <2> QED
    BY <2>1, <2>2, <2>3, <2>4 DEF StockTypeOK
<1>5. SlotConservation'
  BY <1>3, InventoryAssumption
  DEF claim_nothing, SlotConservation, StockTypeOK
<1>6. SingleOwner'
  BY <1>1 DEF claim_nothing, SingleOwner, WholePair, FreshT, FreshQ
<1> QED
  BY <1>4, <1>5, <1>6

LEMMA PutTInv ==
  ASSUME StockInv, NEW t \in TEnv, put_t(t)
  PROVE  StockInv'
<1> USE DEF StockInv
<1>1. Leased' = Leased
  BY DEF put_t, Leased
<1>2. /\ LiveT' = (LiveT \ StaleT) \cup {t} /\ StaleT \subseteq LiveT
      /\ LiveQ' = LiveQ \ StaleQ /\ StaleQ \subseteq LiveQ
      /\ t \notin LiveT
  BY <1>1, InventoryAssumption
  DEF put_t, LiveT, LiveQ, FreshT, FreshQ, StaleT, StaleQ, SingleOwner,
      StockTypeOK
<1>3. /\ Cardinality(LiveT') = Cardinality(LiveT) - Cardinality(StaleT) + 1
      /\ Cardinality(LiveQ') = Cardinality(LiveQ) - Cardinality(StaleQ)
      /\ Cardinality(StaleT) \in Nat /\ Cardinality(StaleQ) \in Nat
      /\ Cardinality(LiveT) \in Nat /\ Cardinality(LiveQ) \in Nat
  <2>1. /\ IsFiniteSet(LiveT \ StaleT)
        /\ Cardinality(LiveT \ StaleT) = Cardinality(LiveT) - Cardinality(StaleT)
        /\ Cardinality(LiveQ \ StaleQ) = Cardinality(LiveQ) - Cardinality(StaleQ)
        /\ Cardinality(StaleT) \in Nat /\ Cardinality(StaleQ) \in Nat
        /\ Cardinality(LiveT) \in Nat /\ Cardinality(LiveQ) \in Nat
    BY <1>2, CardRemove, StockFinite
  <2>2. t \notin LiveT \ StaleT
    BY <1>2
  <2>3. Cardinality((LiveT \ StaleT) \cup {t}) = Cardinality(LiveT \ StaleT) + 1
    BY <2>1, <2>2, CardAdd
  <2> QED
    BY <1>2, <2>1, <2>3
<1>4. StockTypeOK'
  <2>1. t_buf' \subseteq TEnv /\ q_buf' \subseteq QEnv
    BY DEF put_t, StockTypeOK, FreshT, FreshQ
  <2>2. lease' \in [C -> SUBSET (TEnv \cup QEnv)]
    BY DEF put_t, StockTypeOK
  <2>3. expired' \subseteq (LiveT \cup LiveQ)'
    BY <1>2 DEF put_t, StockTypeOK
  <2>4. t_slot_sem' \in Nat /\ q_slot_sem' \in Nat
    BY <1>3 DEF put_t, StockTypeOK
  <2> QED
    BY <2>1, <2>2, <2>3, <2>4 DEF StockTypeOK
<1>5. SlotConservation'
  BY <1>3, InventoryAssumption DEF put_t, SlotConservation, StockTypeOK
<1>6. SingleOwner'
  <2>1. t \notin Leased
    BY DEF put_t, LiveT
  <2> QED
    BY <1>1, <2>1 DEF put_t, SingleOwner, WholePair, FreshT, FreshQ
<1> QED
  BY <1>4, <1>5, <1>6

LEMMA PutQInv ==
  ASSUME StockInv, NEW q \in QEnv, put_q(q)
  PROVE  StockInv'
<1> USE DEF StockInv
<1>1. Leased' = Leased
  BY DEF put_q, Leased
<1>2. /\ LiveQ' = (LiveQ \ StaleQ) \cup {q} /\ StaleQ \subseteq LiveQ
      /\ LiveT' = LiveT \ StaleT /\ StaleT \subseteq LiveT
      /\ q \notin LiveQ
  BY <1>1, InventoryAssumption
  DEF put_q, LiveT, LiveQ, FreshT, FreshQ, StaleT, StaleQ, SingleOwner,
      StockTypeOK
<1>3. /\ Cardinality(LiveQ') = Cardinality(LiveQ) - Cardinality(StaleQ) + 1
      /\ Cardinality(LiveT') = Cardinality(LiveT) - Cardinality(StaleT)
      /\ Cardinality(StaleT) \in Nat /\ Cardinality(StaleQ) \in Nat
      /\ Cardinality(LiveT) \in Nat /\ Cardinality(LiveQ) \in Nat
  <2>1. /\ IsFiniteSet(LiveQ \ StaleQ)
        /\ Cardinality(LiveQ \ StaleQ) = Cardinality(LiveQ) - Cardinality(StaleQ)
        /\ Cardinality(LiveT \ StaleT) = Cardinality(LiveT) - Cardinality(StaleT)
        /\ Cardinality(StaleQ) \in Nat /\ Cardinality(StaleT) \in Nat
        /\ Cardinality(LiveQ) \in Nat /\ Cardinality(LiveT) \in Nat
    BY <1>2, CardRemove, StockFinite
  <2>2. q \notin LiveQ \ StaleQ
    BY <1>2
  <2>3. Cardinality((LiveQ \ StaleQ) \cup {q}) = Cardinality(LiveQ \ StaleQ) + 1
    BY <2>1, <2>2, CardAdd
  <2> QED
    BY <1>2, <2>1, <2>3
<1>4. StockTypeOK'
  <2>1. t_buf' \subseteq TEnv /\ q_buf' \subseteq QEnv
    BY DEF put_q, StockTypeOK, FreshT, FreshQ
  <2>2. lease' \in [C -> SUBSET (TEnv \cup QEnv)]
    BY DEF put_q, StockTypeOK
  <2>3. expired' \subseteq (LiveT \cup LiveQ)'
    BY <1>2 DEF put_q, StockTypeOK
  <2>4. t_slot_sem' \in Nat /\ q_slot_sem' \in Nat
    BY <1>3 DEF put_q, StockTypeOK
  <2> QED
    BY <2>1, <2>2, <2>3, <2>4 DEF StockTypeOK
<1>5. SlotConservation'
  BY <1>3, InventoryAssumption DEF put_q, SlotConservation, StockTypeOK
<1>6. SingleOwner'
  <2>1. q \notin Leased
    BY DEF put_q, LiveQ
  <2> QED
    BY <1>1, <2>1 DEF put_q, SingleOwner, WholePair, FreshT, FreshQ
<1> QED
  BY <1>4, <1>5, <1>6

LEMMA ClaimPairInv ==
  ASSUME StockInv, NEW c \in C, lease[c] = {}, claim_pair(c)
  PROVE  StockInv' /\ lease'[c] # {}
<1> USE DEF StockInv
<1>0. PICK t \in FreshT, q \in FreshQ :
        /\ lease' = [lease EXCEPT ![c] = {t, q}]
        /\ t_buf' = FreshT \ {t}
        /\ q_buf' = FreshQ \ {q}
        /\ t_slot_sem' = t_slot_sem + Cardinality(StaleT)
        /\ q_slot_sem' = q_slot_sem + Cardinality(StaleQ)
        /\ expired' = expired \ (StaleT \cup StaleQ)
  BY DEF claim_pair
<1>t. t \in TEnv /\ q \in QEnv /\ t \notin QEnv /\ q \notin TEnv
  BY <1>0, InventoryAssumption DEF FreshT, FreshQ, StockTypeOK
<1>1. Leased' = Leased \cup {t, q}
  BY <1>0, LeasedAdd
<1>2. /\ LiveT' = LiveT \ StaleT /\ StaleT \subseteq LiveT
      /\ LiveQ' = LiveQ \ StaleQ /\ StaleQ \subseteq LiveQ
  BY <1>0, <1>1, <1>t
  DEF LiveT, LiveQ, FreshT, FreshQ, StaleT, StaleQ, SingleOwner, StockTypeOK
<1>3. /\ Cardinality(LiveT') = Cardinality(LiveT) - Cardinality(StaleT)
      /\ Cardinality(LiveQ') = Cardinality(LiveQ) - Cardinality(StaleQ)
      /\ Cardinality(StaleT) \in Nat /\ Cardinality(StaleQ) \in Nat
      /\ Cardinality(LiveT) \in Nat /\ Cardinality(LiveQ) \in Nat
  BY <1>2, CardRemove, StockFinite
<1>4. StockTypeOK'
  <2>1. t_buf' \subseteq TEnv /\ q_buf' \subseteq QEnv
    BY <1>0 DEF StockTypeOK, FreshT, FreshQ
  <2>2. lease' \in [C -> SUBSET (TEnv \cup QEnv)]
    BY <1>0, <1>t DEF StockTypeOK
  <2>3. expired' \subseteq (LiveT \cup LiveQ)'
    BY <1>0, <1>2 DEF StockTypeOK
  <2>4. t_slot_sem' \in Nat /\ q_slot_sem' \in Nat
    BY <1>0, <1>3 DEF StockTypeOK
  <2> QED
    BY <2>1, <2>2, <2>3, <2>4 DEF StockTypeOK
<1>5. SlotConservation'
  BY <1>0, <1>3, InventoryAssumption DEF SlotConservation, StockTypeOK
<1>6. SingleOwner'
  <2>1. Leased' \cap (t_buf' \cup q_buf') = {}
    BY <1>0, <1>1, <1>t DEF SingleOwner, FreshT, FreshQ, StockTypeOK
  <2>2. ASSUME NEW a \in C, NEW b \in C, a # b
        PROVE  lease'[a] \cap lease'[b] = {}
    <3>1. \A d \in C : t \notin lease[d] /\ q \notin lease[d]
      BY <1>0 DEF SingleOwner, Leased, FreshT, FreshQ
    <3> QED
      BY <1>0, <2>2, <3>1 DEF SingleOwner, StockTypeOK
  <2>3. ASSUME NEW a \in C
        PROVE  WholePair(a)'
    BY <1>0, <1>t DEF SingleOwner, WholePair, StockTypeOK
  <2> QED
    BY <2>1, <2>2, <2>3 DEF SingleOwner
<1>7. lease'[c] # {}
  BY <1>0 DEF StockTypeOK
<1> QED
  BY <1>4, <1>5, <1>6, <1>7

LEMMA SettleInv ==
  ASSUME StockInv, NEW c \in C, settle(c)
  PROVE  StockInv' /\ lease'[c] = {}
<1> USE DEF StockInv
<1>1. Leased' = Leased \ lease[c] /\ lease[c] \subseteq Leased
  <2>1. lease[c] \subseteq Leased
    BY DEF Leased
  <2> QED
    BY <2>1, LeasedRemove DEF settle
<1>2. /\ LiveT' = LiveT \ (lease[c] \cap TEnv) /\ lease[c] \cap TEnv \subseteq LiveT
      /\ LiveQ' = LiveQ \ (lease[c] \cap QEnv) /\ lease[c] \cap QEnv \subseteq LiveQ
  BY <1>1 DEF settle, LiveT, LiveQ, SingleOwner, StockTypeOK
<1>3. /\ Cardinality(LiveT') = Cardinality(LiveT) - Cardinality(lease[c] \cap TEnv)
      /\ Cardinality(LiveQ') = Cardinality(LiveQ) - Cardinality(lease[c] \cap QEnv)
      /\ Cardinality(lease[c] \cap TEnv) \in Nat
      /\ Cardinality(lease[c] \cap QEnv) \in Nat
      /\ Cardinality(LiveT) \in Nat /\ Cardinality(LiveQ) \in Nat
  BY <1>2, CardRemove, StockFinite
<1>4. StockTypeOK'
  <2>1. lease' \in [C -> SUBSET (TEnv \cup QEnv)]
    BY DEF settle, StockTypeOK
  <2>2. expired' \subseteq (LiveT \cup LiveQ)'
    BY <1>2 DEF settle, StockTypeOK
  <2>3. t_slot_sem' \in Nat /\ q_slot_sem' \in Nat
    BY <1>3 DEF settle, StockTypeOK
  <2> QED
    BY <2>1, <2>2, <2>3 DEF StockTypeOK, settle
<1>5. SlotConservation'
  BY <1>3, InventoryAssumption DEF settle, SlotConservation, StockTypeOK
<1>6. SingleOwner'
  BY <1>1 DEF settle, SingleOwner, WholePair, StockTypeOK
<1>7. lease'[c] = {}
  BY DEF settle, StockTypeOK
<1> QED
  BY <1>4, <1>5, <1>6, <1>7

LEMMA AgeInv ==
  ASSUME StockInv, NEW e, Age(e)
  PROVE  StockInv'
<1> USE DEF StockInv
<1>1. Leased' = Leased /\ LiveT' = LiveT /\ LiveQ' = LiveQ
  BY DEF Age, Leased, LiveT, LiveQ
<1>2. StockTypeOK'
  BY <1>1 DEF Age, StockTypeOK
<1>3. SlotConservation' /\ SingleOwner'
  BY <1>1 DEF Age, SlotConservation, SingleOwner, WholePair
<1> QED
  BY <1>2, <1>3

LEMMA StockUnchangedInv ==
  ASSUME StockInv, UNCHANGED stockVars
  PROVE  StockInv'
BY DEF StockInv, stockVars, StockTypeOK, SlotConservation, SingleOwner,
       WholePair, Leased, LiveT, LiveQ

(***************************************************************************)
(* The stock of the pipeline.                                              *)
(***************************************************************************)

\* The part of the inductive invariant that speaks of the stock and of the
\* consumers.  SlotConservation alone is not inductive: that a settlement
\* returns exactly what it held needs the ownership of the leases, and that
\* a claim starts with an empty lease needs the consumers' places.
LeaseMatchesPlace == \A c \in C : pcC[c] \in HoldsPair <=> lease[c] # {}

StockPart ==
  /\ StockInv
  /\ pcC \in [C -> CPc]
  /\ LeaseMatchesPlace
  /\ NoPairMissed

\* A notification moves the parked and nobody else.
LEMMA WokenConsumers ==
  ASSUME pcC \in [C -> CPc]
  PROVE  /\ Woken(pcC) \in [C -> CPc]
         /\ \A c \in C : /\ Woken(pcC)[c] # "parked"
                         /\ Woken(pcC)[c] \in HoldsPair <=> pcC[c] \in HoldsPair
BY DEF Woken, CPc, HoldsPair

LEMMA StockPartInit == Init => StockPart
<1> SUFFICES ASSUME Init PROVE StockPart
  OBVIOUS
<1>1. StockInv
  BY InventoryInitInv DEF Init
<1>2. pcC \in [C -> CPc] /\ LeaseMatchesPlace /\ NoPairMissed
  BY DEF Init, InventoryInit, CPc, HoldsPair, LeaseMatchesPlace, NoPairMissed
<1> QED
  BY <1>1, <1>2 DEF StockPart

\* What leaves stock and consumers alone leaves their invariant alone.
LEMMA StockPartUnchanged ==
  ASSUME StockPart, UNCHANGED <<stockVars, pcC>>
  PROVE  StockPart'
<1>1. StockInv'
  BY StockUnchangedInv DEF StockPart
<1> QED
  BY <1>1 DEF StockPart, stockVars, LeaseMatchesPlace, NoPairMissed

\* Stocking an envelope wakes every consumer.
LEMMA StockPartPut ==
  ASSUME StockPart, UNCHANGED lease, StockInv', pcC' = Woken(pcC)
  PROVE  StockPart'
<1>1. pcC \in [C -> CPc]
  BY DEF StockPart
<1> QED
  BY <1>1, WokenConsumers DEF StockPart, LeaseMatchesPlace, NoPairMissed

LEMMA StockPartSStep ==
  ASSUME StockPart, NEW s \in S, SStep(s) \/ S_StockExpired(s)
  PROVE  StockPart'
<1>1. CASE S_Stock(s)
  <2>1. PICK t \in TEnv : put_t(t)
    BY <1>1 DEF S_Stock
  <2>2. StockInv' /\ UNCHANGED lease
    BY <2>1, PutTInv DEF StockPart, put_t
  <2> QED
    BY <1>1, <2>2, StockPartPut DEF S_Stock
<1>2. CASE S_StockExpired(s)
  BY <1>2, StockPartUnchanged DEF S_StockExpired, put_t_expired
<1>3. CASE \/ S_Admitted(s) \/ S_Park(s) \/ S_Physical(s) \/ S_Solved(s)
           \/ S_NoToken(s) \/ S_Stop(s) \/ S_Cancel(s)
  BY <1>3, StockPartUnchanged
  DEF S_Admitted, S_Park, S_Physical, S_Solved, S_NoToken, S_Stop, S_Cancel
<1> QED
  BY <1>1, <1>2, <1>3 DEF SStep

LEMMA StockPartPStep ==
  ASSUME StockPart, NEW p \in P, PStep(p)
  PROVE  StockPart'
BY StockPartUnchanged
DEF PStep, P_Admitted, P_Park, P_AcquirePending, P_EmailCreated,
    P_EmailFailed, P_AcquireSend, P_Physical, P_Sent, P_Settled, P_Stop,
    P_CancelAcquiring, P_CancelOwning, P_CancelIdle

LEMMA StockPartRStep ==
  ASSUME StockPart, NEW r \in Req, RStep(r) \/ R_StockExpired(r)
  PROVE  StockPart'
<1>1. CASE R_Stock(r)
  <2>1. PICK q \in QEnv : put_q(q)
    BY <1>1 DEF R_Stock
  <2>2. StockInv' /\ UNCHANGED lease
    BY <2>1, PutQInv DEF StockPart, put_q
  <2> QED
    BY <1>1, <2>2, StockPartPut DEF R_Stock
<1>2. CASE R_StockExpired(r)
  BY <1>2, StockPartUnchanged DEF R_StockExpired, put_q_expired
<1>3. CASE \/ R_NoCode(r) \/ R_PollRaised(r) \/ R_Resend(r)
           \/ R_AcquireSend(r) \/ R_Physical(r) \/ R_Resent(r)
           \/ R_CodeReturned(r) \/ R_CancelPoll(r) \/ R_CancelReturned(r)
  BY <1>3, StockPartUnchanged
  DEF R_NoCode, R_PollRaised, R_Resend, R_AcquireSend, R_Physical, R_Resent,
      R_CodeReturned, R_CancelPoll, R_CancelReturned, workerVars
<1> QED
  BY <1>1, <1>2, <1>3 DEF RStep

\* Leaving the pair's context settles the lease and wakes the consumers.
LEMMA StockPartExit ==
  ASSUME StockPart, NEW c \in C, NEW to \in CPc, to \notin HoldsPair,
         to # "parked", ExitPair(c, to)
  PROVE  StockPart'
<1>1. StockInv' /\ lease'[c] = {}
  BY SettleInv DEF StockPart, ExitPair
<1>2. pcC \in [C -> CPc] /\ lease \in [C -> SUBSET (TEnv \cup QEnv)]
  BY DEF StockPart, StockInv, StockTypeOK
<1>3. pcC' \in [C -> CPc]
  BY <1>2, WokenConsumers DEF ExitPair
<1>4. LeaseMatchesPlace'
  BY <1>1, <1>2, WokenConsumers
  DEF StockPart, LeaseMatchesPlace, ExitPair, settle
<1>5. NoPairMissed'
  BY <1>2, WokenConsumers DEF NoPairMissed, ExitPair
<1> QED
  BY <1>1, <1>3, <1>4, <1>5 DEF StockPart

LEMMA StockPartCStep ==
  ASSUME StockPart, NEW c \in C, CStep(c)
  PROVE  StockPart'
<1>0. pcC \in [C -> CPc] /\ LeaseMatchesPlace
  BY DEF StockPart
<1>1. CASE C_Claim(c)
  <2>1. lease[c] = {}
    BY <1>0, <1>1 DEF C_Claim, MayEnter, LeaseMatchesPlace, HoldsPair
  <2>2. StockInv' /\ lease'[c] # {}
    BY <1>1, <2>1, ClaimPairInv DEF StockPart, C_Claim
  <2>3. \A d \in C \ {c} : lease'[d] = lease[d] /\ pcC'[d] = pcC[d]
    BY <1>0, <1>1
    DEF C_Claim, claim_pair, StockPart, StockInv, StockTypeOK
  <2>4. pcC' \in [C -> CPc] /\ pcC'[c] = "cooldown"
    BY <1>0, <1>1 DEF C_Claim, CPc
  <2>5. LeaseMatchesPlace'
    BY <1>0, <2>2, <2>3, <2>4 DEF LeaseMatchesPlace, HoldsPair
  <2>6. NoPairMissed'
    <3>1. t_buf' \subseteq t_buf /\ q_buf' \subseteq q_buf
      BY <1>1 DEF C_Claim, claim_pair, FreshT, FreshQ
    <3> QED
      BY <2>3, <2>4, <3>1 DEF StockPart, NoPairMissed
  <2> QED
    BY <2>2, <2>4, <2>5, <2>6 DEF StockPart
<1>2. CASE C_Park(c)
  <2>1. StockInv' /\ UNCHANGED lease
    BY <1>2, ClaimNothingInv DEF StockPart, C_Park, claim_nothing
  <2>2. pcC' \in [C -> CPc] /\ LeaseMatchesPlace'
    BY <1>0, <1>2, <2>1
    DEF C_Park, CPc, MayEnter, LeaseMatchesPlace, HoldsPair
  <2>3. NoPairMissed'
    BY <1>2 DEF C_Park, claim_nothing, NoPairMissed
  <2> QED
    BY <2>1, <2>2, <2>3 DEF StockPart
<1>3. CASE \/ C_Thawed(c) /\ pair_is_expired(c)
           \/ C_Registered(c) \/ C_Failed(c)
  <2>1. ExitPair(c, "top")
    BY <1>3 DEF C_Thawed, C_Registered, C_Failed
  <2> QED
    BY <2>1, StockPartExit DEF CPc, HoldsPair
<1>4. CASE \/ C_Thawed(c) /\ ~pair_is_expired(c)
           \/ C_Physical(c) \/ C_Submit(c)
  <2>1. UNCHANGED stockVars
    BY <1>4 DEF C_Thawed, C_Physical, C_Submit
  <2>2. \E to \in {"physical", "verifying", "submitting"} :
          pcC[c] \in HoldsPair /\ pcC' = [pcC EXCEPT ![c] = to]
    BY <1>4 DEF C_Thawed, C_Physical, C_Submit, HoldsPair
  <2>3. StockInv'
    BY <2>1, StockUnchangedInv DEF StockPart
  <2> QED
    BY <1>0, <2>1, <2>2, <2>3
    DEF StockPart, stockVars, CPc, LeaseMatchesPlace, HoldsPair, NoPairMissed
<1>5. CASE C_Stop(c)
  <2>1. StockInv'
    BY <1>5, StockUnchangedInv DEF StockPart, C_Stop
  <2> QED
    BY <1>0, <1>5, <2>1
    DEF C_Stop, StockPart, stockVars, CPc, LeaseMatchesPlace, HoldsPair,
        NoPairMissed
<1>6. CASE C_Cancel(c) /\ pcC[c] \in {"top", "parked", "woken"}
  <2>1. StockInv'
    BY <1>6, StockUnchangedInv DEF StockPart, C_Cancel
  <2> QED
    BY <1>0, <1>6, <2>1
    DEF C_Cancel, StockPart, stockVars, CPc, LeaseMatchesPlace, HoldsPair,
        NoPairMissed
<1>7. CASE C_Cancel(c) /\ pcC[c] \notin {"top", "parked", "woken"}
  <2>1. ExitPair(c, "done")
    BY <1>7 DEF C_Cancel
  <2> QED
    BY <2>1, StockPartExit DEF CPc, HoldsPair
<1> QED
  BY <1>1, <1>2, <1>3, <1>4, <1>5, <1>6, <1>7 DEF CStep

\* Every step of the pipeline preserves the invariant of its stock.
LEMMA StockPartNext ==
  ASSUME StockPart, [Next]_vars
  PROVE  StockPart'
<1>1. CASE \E s \in S : SStep(s) \/ S_StockExpired(s)
  BY <1>1, StockPartSStep
<1>2. CASE \E p \in P : PStep(p)
  BY <1>2, StockPartPStep
<1>3. CASE \E r \in Req : RStep(r) \/ R_StockExpired(r)
  BY <1>3, StockPartRStep
<1>4. CASE \E c \in C : CStep(c)
  BY <1>4, StockPartCStep
<1>5. CASE Expire
  <2>1. PICK e \in TEnv \cup QEnv : Age(e)
    BY <1>5 DEF Expire
  <2>2. StockInv'
    BY <2>1, AgeInv DEF StockPart
  <2> QED
    BY <1>5, <2>1, <2>2
    DEF Expire, workerVars, Age, StockPart, LeaseMatchesPlace, NoPairMissed
<1>6. CASE ReachTarget \/ Interrupt \/ Terminated \/ UNCHANGED vars
  BY <1>6, StockPartUnchanged
  DEF ReachTarget, Interrupt, Terminated, vars, workerVars
<1> QED
  BY <1>1, <1>2, <1>3, <1>4, <1>5, <1>6 DEF Next, Work, Aging

LEMMA StockPartAlways == Spec => []StockPart
<1>1. Init => StockPart
  BY StockPartInit
<1>2. StockPart /\ [Next]_vars => StockPart'
  BY StockPartNext
<1> QED
  BY <1>1, <1>2, PTL DEF Spec

----------------------------------------------------------------------------

\* Every slot is released once and only once: T_Slot_Sem and Q_Slot_Sem are
\* always what the existing envelopes leave of the capacity.
THEOREM SlotsConserved == Spec => []SlotConservation
<1>1. StockPart => SlotConservation
  BY DEF StockPart, StockInv
<1> QED
  BY <1>1, StockPartAlways, PTL

\* claim_pair is all or nothing and PairLease settles whatever was claimed:
\* an envelope has one owner, and a consumer holds a whole pair from claim to
\* settlement and nothing outside it.
THEOREM PairsOwned == Spec => []PairOwnership
<1>1. StockPart => PairOwnership
  BY DEF StockPart, StockInv, LeaseMatchesPlace, PairOwnership
<1> QED
  BY <1>1, StockPartAlways, PTL

\* No consumer sleeps on the inventory's condition while a pair is there.
THEOREM PairsNotMissed == Spec => []NoPairMissed
<1>1. StockPart => NoPairMissed
  BY DEF StockPart
<1> QED
  BY <1>1, StockPartAlways, PTL

(***************************************************************************)
(* The pipeline implements PairExchange: every step that touches the stock *)
(* is one of its actions, every other step leaves its variables alone.     *)
(***************************************************************************)

\* What Exchange!Live is under the mapping, kind by kind.
LEMMA LiveByKind ==
  ASSUME StockInv
  PROVE  /\ Exchange!Live \cap TEnv = LiveT
         /\ Exchange!Live \cap QEnv = LiveQ
         /\ Exchange!Live = LiveT \cup LiveQ
BY InventoryAssumption
DEF StockInv, StockTypeOK, Exchange!Live, Exchange!AllHeld, LiveT, LiveQ, Leased

\* A small enough set fits: number it by a bijection with its cardinality.
LEMMA SmallFits ==
  ASSUME NEW X, IsFiniteSet(X), NEW n \in Nat, Cardinality(X) =< n
  PROVE  Exchange!Fits(X, n)
<1>1. /\ Cardinality(X) \in Nat
      /\ ExistsBijection(1..Cardinality(X), X)
  BY FS_CardinalityType
<1>2. PICK g \in Bijection(1..Cardinality(X), X) : TRUE
  BY <1>1, Fun_ExistsBij
<1> DEFINE f == Inverse(g, 1..Cardinality(X), X)
<1>3. f \in Bijection(X, 1..Cardinality(X))
  BY <1>2, Fun_BijInverse
<1>4. f \in [X -> 1..n] /\ \A x, y \in X : f[x] = f[y] => x = y
  BY <1>1, <1>3, Fun_BijectionProperties, Fun_InjectionProperties
<1> QED
  BY <1>4 DEF Exchange!Fits

\* The semaphore had a permit, so the abstract stock had room.
LEMMA RoomForOne ==
  ASSUME NEW X, IsFiniteSet(X), NEW e, e \notin X, NEW n \in Nat,
         NEW free \in Nat, free > 0, free + Cardinality(X) = n
  PROVE  Exchange!Fits(X \cup {e}, n)
<1>1. /\ IsFiniteSet(X \cup {e})
      /\ Cardinality(X \cup {e}) = Cardinality(X) + 1
  BY FS_AddElement
<1>2. Cardinality(X) \in Nat
  BY FS_CardinalityType
<1>3. Cardinality(X \cup {e}) =< n
  BY <1>1, <1>2
<1> QED
  BY <1>1, <1>3, SmallFits

LEMMA PutTRefines ==
  ASSUME StockInv, NEW t \in TEnv, put_t(t)
  PROVE  Exchange!Stock(t)
<1>1. t \notin Exchange!Live /\ t \notin LiveT
  BY LiveByKind DEF put_t
<1>2. IsFiniteSet(LiveT)
  BY StockFinite DEF StockInv
<1>3. Exchange!Fits(LiveT \cup {t}, TSlotCap)
  <2>1. t_slot_sem \in Nat /\ t_slot_sem > 0
    BY DEF put_t, StockInv, StockTypeOK
  <2>2. t_slot_sem + Cardinality(LiveT) = TSlotCap
    BY DEF StockInv, SlotConservation
  <2> QED
    BY <1>1, <1>2, <2>1, <2>2, RoomForOne, InventoryAssumption
<1>4. t \notin QEnv
  BY InventoryAssumption
<1>5. (t_buf \cup q_buf)' = ((t_buf \cup q_buf) \ expired) \cup {t}
  BY DEF put_t, FreshT, FreshQ
<1>6. expired' = expired \ (t_buf \cup q_buf) /\ lease' = lease
  BY DEF put_t, StaleT, StaleQ
<1> QED
  BY <1>1, <1>3, <1>4, <1>5, <1>6, LiveByKind DEF Exchange!Stock

LEMMA PutQRefines ==
  ASSUME StockInv, NEW q \in QEnv, put_q(q)
  PROVE  Exchange!Stock(q)
<1>1. q \notin Exchange!Live /\ q \notin LiveQ
  BY LiveByKind DEF put_q
<1>2. IsFiniteSet(LiveQ)
  BY StockFinite DEF StockInv
<1>3. Exchange!Fits(LiveQ \cup {q}, QSlotCap)
  <2>1. q_slot_sem \in Nat /\ q_slot_sem > 0
    BY DEF put_q, StockInv, StockTypeOK
  <2>2. q_slot_sem + Cardinality(LiveQ) = QSlotCap
    BY DEF StockInv, SlotConservation
  <2> QED
    BY <1>1, <1>2, <2>1, <2>2, RoomForOne, InventoryAssumption
<1>4. q \notin TEnv
  BY InventoryAssumption
<1>5. (t_buf \cup q_buf)' = ((t_buf \cup q_buf) \ expired) \cup {q}
  BY DEF put_q, FreshT, FreshQ
<1>6. expired' = expired \ (t_buf \cup q_buf) /\ lease' = lease
  BY DEF put_q, StaleT, StaleQ
<1> QED
  BY <1>1, <1>3, <1>4, <1>5, <1>6, LiveByKind DEF Exchange!Stock

LEMMA ClaimRefines ==
  ASSUME StockInv, NEW c \in C, lease[c] = {}, claim_pair(c)
  PROVE  Exchange!Claim(c)
<1>1. PICK t \in FreshT, q \in FreshQ :
        /\ lease' = [lease EXCEPT ![c] = {t, q}]
        /\ t_buf' = FreshT \ {t}
        /\ q_buf' = FreshQ \ {q}
        /\ expired' = expired \ (StaleT \cup StaleQ)
  BY DEF claim_pair
<1>2. /\ t \in TEnv \cap ((t_buf \cup q_buf) \ expired)
      /\ q \in QEnv \cap ((t_buf \cup q_buf) \ expired)
  BY <1>1 DEF FreshT, FreshQ, StockInv, StockTypeOK
<1>3. (t_buf \cup q_buf)' = ((t_buf \cup q_buf) \ expired) \ {t, q}
  BY <1>1, <1>2, InventoryAssumption
  DEF FreshT, FreshQ, StockInv, StockTypeOK
<1>4. expired' = expired \ (t_buf \cup q_buf)
  BY <1>1 DEF StaleT, StaleQ
<1> QED
  BY <1>1, <1>2, <1>3, <1>4 DEF Exchange!Claim

LEMMA ExitRefines ==
  ASSUME StockPart, NEW c \in C, NEW to, pcC[c] \in HoldsPair, ExitPair(c, to)
  PROVE  Exchange!Settle(c)
<1>1. lease[c] # {}
  BY DEF StockPart, LeaseMatchesPlace
<1> QED
  BY <1>1 DEF ExitPair, settle, Exchange!Settle

\* Steps that leave the inventory alone stutter.
LEMMA Stutters ==
  ASSUME UNCHANGED stockVars
  PROVE  UNCHANGED Exchange!pairVars
BY DEF stockVars, Exchange!pairVars

LEMMA CStepRefines ==
  ASSUME StockPart, NEW c \in C, CStep(c)
  PROVE  [Exchange!PairNext]_(Exchange!pairVars)
<1>1. CASE C_Claim(c)
  <2>1. lease[c] = {}
    BY <1>1 DEF StockPart, C_Claim, MayEnter, LeaseMatchesPlace, HoldsPair
  <2>2. Exchange!Claim(c)
    BY <1>1, <2>1, ClaimRefines DEF C_Claim, StockPart
  <2> QED
    BY <2>2 DEF Exchange!PairNext
<1>2. CASE C_Park(c)
  <2>1. Exchange!Sweep
    BY <1>2 DEF C_Park, claim_nothing, Exchange!Sweep, FreshT, FreshQ, StaleT,
                StaleQ
  <2> QED
    BY <2>1 DEF Exchange!PairNext
<1>3. CASE \/ C_Thawed(c) /\ pair_is_expired(c)
           \/ C_Registered(c) \/ C_Failed(c)
           \/ C_Cancel(c) /\ pcC[c] \notin {"top", "parked", "woken"}
  <2>1. \E to \in CPc : ExitPair(c, to)
    BY <1>3 DEF C_Thawed, C_Registered, C_Failed, C_Cancel, CPc
  <2>2. pcC[c] \in HoldsPair
    BY <1>3
    DEF C_Thawed, C_Registered, C_Failed, C_Cancel, HoldsPair, CPc, StockPart
  <2>3. Exchange!Settle(c)
    BY <2>1, <2>2, ExitRefines
  <2> QED
    BY <2>3 DEF Exchange!PairNext
<1>4. CASE \/ C_Thawed(c) /\ ~pair_is_expired(c)
           \/ C_Physical(c) \/ C_Submit(c) \/ C_Stop(c)
           \/ C_Cancel(c) /\ pcC[c] \in {"top", "parked", "woken"}
  <2>1. UNCHANGED stockVars
    BY <1>4 DEF C_Thawed, C_Physical, C_Submit, C_Stop, C_Cancel
  <2> QED
    BY <2>1, Stutters
<1> QED
  BY <1>1, <1>2, <1>3, <1>4 DEF CStep

LEMMA StepRefines ==
  ASSUME StockPart, [Next]_vars
  PROVE  [Exchange!PairNext]_(Exchange!pairVars)
<1> USE DEF StockPart
<1>1. CASE \E s \in S : S_Stock(s)
  <2>1. PICK t \in TEnv : put_t(t)
    BY <1>1 DEF S_Stock
  <2> QED
    BY <2>1, PutTRefines DEF Exchange!PairNext
<1>2. CASE \E r \in Req : R_Stock(r)
  <2>1. PICK q \in QEnv : put_q(q)
    BY <1>2 DEF R_Stock
  <2> QED
    BY <2>1, PutQRefines DEF Exchange!PairNext
<1>3. CASE \E c \in C : CStep(c)
  BY <1>3, CStepRefines
<1>4. CASE Expire
  <2>1. PICK e \in TEnv \cup QEnv : Age(e)
    BY <1>4 DEF Expire
  <2>2. e \in Exchange!Live
    BY <2>1, LiveByKind DEF Age
  <2>3. Exchange!GrowStale(e)
    BY <2>1, <2>2 DEF Age, Exchange!GrowStale
  <2> QED
    BY <2>1, <2>3 DEF Exchange!PairNext
<1>5. ASSUME NEW s \in S,
             \/ SStep(s) /\ ~S_Stock(s)
             \/ S_StockExpired(s)
      PROVE  UNCHANGED stockVars
  BY <1>5
  DEF SStep, S_Admitted, S_Park, S_Physical, S_Solved, S_NoToken, S_Stop,
      S_Cancel, S_StockExpired, put_t_expired
<1>6. ASSUME NEW p \in P, PStep(p)
      PROVE  UNCHANGED stockVars
  BY <1>6
  DEF PStep, P_Admitted, P_Park, P_AcquirePending, P_EmailCreated,
      P_EmailFailed, P_AcquireSend, P_Physical, P_Sent, P_Settled, P_Stop,
      P_CancelAcquiring, P_CancelOwning, P_CancelIdle
<1>7. ASSUME NEW r \in Req,
             \/ RStep(r) /\ ~R_Stock(r)
             \/ R_StockExpired(r)
      PROVE  UNCHANGED stockVars
  BY <1>7
  DEF RStep, R_NoCode, R_PollRaised, R_Resend, R_AcquireSend, R_Physical,
      R_Resent, R_CodeReturned, R_CancelPoll, R_CancelReturned,
      R_StockExpired, put_q_expired
<1>8. CASE ReachTarget \/ Interrupt \/ Terminated \/ UNCHANGED vars
  <2>1. UNCHANGED stockVars
    BY <1>8 DEF ReachTarget, Interrupt, Terminated, vars
  <2> QED
    BY <2>1, Stutters
<1> QED
  BY <1>1, <1>2, <1>3, <1>4, <1>5, <1>6, <1>7, <1>8, Stutters
  DEF Next, Work, Aging

\* The pipeline implements the exchange of pairs for every number of workers
\* and every capacity: its two slot semaphores enforce the abstract bounds,
\* and consumers take whole fresh pairs that are theirs alone until settled.
THEOREM PipelineImplementsExchange == Spec => ImplementsExchange
<1>1. Init => Exchange!PairInit
  BY DEF Init, InventoryInit, Exchange!PairInit
<1>2. StockPart /\ [Next]_vars => [Exchange!PairNext]_(Exchange!pairVars)
  BY StepRefines
<1> QED
  BY <1>1, <1>2, StockPartAlways, PTL
  DEF Spec, ImplementsExchange, Exchange!PairSpec
=============================================================================
