--------------------------- MODULE CspPermitProofs ---------------------------
(***************************************************************************)
(* The permits of the S/P/C pipeline, for any number of workers, requests  *)
(* and permits.  First the Q requests: each is driven by one P worker or   *)
(* by its own task, and each gives its permit of Q_Pending_Sem and its     *)
(* reservation back once.  Then the shared permits and the gate:           *)
(* Physical_Sem, P_Send_Sem and the T leases are conserved, the high       *)
(* watermarks are never exceeded, and every variable keeps its type.       *)
(***************************************************************************)
EXTENDS CspStockProofs

\* The part of the inductive invariant that speaks of requests.  The counts
\* alone are not inductive: that a cancelled or failing worker returns what
\* it owns, no more, needs each batch to be in step with its worker.
RequestPart ==
  /\ pcP \in [P -> PPc]
  /\ st \in [Req -> ReqState]
  /\ batch \in [P -> SUBSET Req]
  /\ q_pending_sem \in Nat /\ q_inflight \in Nat
  /\ BatchInStep
  /\ PendingConservation

Reserved == Req \ In({"free"})
Pending == In(PendingRequests)

----------------------------------------------------------------------------
(* Sets that are counted.                                                   *)

LEMMA RequestsFinite ==
  /\ IsFiniteSet(Reserved) /\ IsFiniteSet(Pending)
  /\ Cardinality(Reserved) \in Nat /\ Cardinality(Pending) \in Nat
  /\ \A R \in SUBSET Req : IsFiniteSet(R) /\ Cardinality(R) \in Nat
<1>1. Reserved \subseteq Req /\ Pending \subseteq Req
  BY DEF Reserved, Pending, In
<1>2. \A R \in SUBSET Req : IsFiniteSet(R) /\ Cardinality(R) \in Nat
  BY PipelineAssumption, FS_Subset, FS_CardinalityType
<1> QED
  BY <1>1, <1>2

\* Joining disjoint finite sets adds their cardinalities.
LEMMA CardJoin ==
  ASSUME NEW A, IsFiniteSet(A), NEW B, IsFiniteSet(B), A \cap B = {}
  PROVE  Cardinality(A \cup B) = Cardinality(A) + Cardinality(B)
<1>1. Cardinality(A) \in Nat /\ Cardinality(B) \in Nat
  BY FS_CardinalityType
<1>2. Cardinality(A \cap B) = 0
  BY FS_EmptySet
<1>3. Cardinality(A \cup B)
        = Cardinality(A) + Cardinality(B) - Cardinality(A \cap B)
  BY FS_Union
<1> QED
  BY <1>1, <1>2, <1>3

\* What BatchInStep says of one request of one worker's batch.
LEMMA BatchPlace ==
  ASSUME RequestPart, NEW p \in P, NEW r \in batch[p]
  PROVE  /\ r \in Req
         /\ st[r] \in BatchState(pcP[p])
         /\ \A x \in P \ {p} : r \notin batch[x]
BY DEF RequestPart, BatchInStep, In

\* A notification changes no worker's batch state.
LEMMA WokenProducers ==
  ASSUME pcP \in [P -> PPc]
  PROVE  /\ Woken(pcP) \in [P -> PPc]
         /\ \A p \in P : BatchState(Woken(pcP)[p]) = BatchState(pcP[p])
         /\ \A p \in P : pcP[p] \notin {"parked", "woken"}
                          => Woken(pcP)[p] = pcP[p]
BY DEF Woken, PPc, BatchState

LEMMA RequestPartInit == Init => RequestPart
<1> SUFFICES ASSUME Init PROVE RequestPart
  OBVIOUS
<1>1. Reserved = {} /\ Pending = {}
  BY DEF Init, Reserved, Pending, In, PendingRequests, Owned, OnTask
<1>2. PendingConservation
  BY <1>1, FS_EmptySet, PipelineAssumption
  DEF Init, GateInit, PendingConservation, Reserved, Pending
<1> QED
  BY <1>2, PipelineAssumption
  DEF Init, GateInit, RequestPart, PPc, ReqState, BatchInStep

LEMMA RequestPartUnchanged ==
  ASSUME RequestPart, UNCHANGED <<requestVars, q_pending_sem, q_inflight>>,
         pcP' \in [P -> PPc],
         \A p \in P : BatchState(pcP'[p]) = BatchState(pcP[p])
  PROVE  RequestPart'
BY DEF RequestPart, requestVars, BatchInStep, PendingConservation, In

----------------------------------------------------------------------------
(* How the counts move.                                                     *)

\* A set of pending requests reaches its end: permits and reservations back.
LEMMA CountsAfterEnd ==
  ASSUME RequestPart, NEW R \in SUBSET Pending,
         Pending' = Pending \ R, Reserved' = Reserved \ R,
         q_pending_sem' = q_pending_sem + Cardinality(R),
         q_inflight' = q_inflight - Cardinality(R)
  PROVE  PendingConservation' /\ q_pending_sem' \in Nat /\ q_inflight' \in Nat
<1>1. R \subseteq Reserved
  BY DEF Pending, Reserved, In, PendingRequests, Owned, OnTask
<1>2. /\ Cardinality(R) \in Nat
      /\ Cardinality(Pending \ R) \in Nat
      /\ Cardinality(Pending \ R) = Cardinality(Pending) - Cardinality(R)
  BY RequestsFinite, CardRemove
<1>3. /\ Cardinality(Reserved \ R) \in Nat
      /\ Cardinality(Reserved \ R) = Cardinality(Reserved) - Cardinality(R)
  BY <1>1, RequestsFinite, CardRemove
<1> QED
  BY <1>2, <1>3, RequestsFinite
  DEF RequestPart, PendingConservation, Pending, Reserved

\* The same for one request.
LEMMA CountsAfterTerminal ==
  ASSUME RequestPart, NEW r \in Pending,
         st' = [st EXCEPT ![r] = "free"],
         q_pending_sem' = q_pending_sem + 1, q_inflight' = q_inflight - 1
  PROVE  PendingConservation' /\ q_pending_sem' \in Nat /\ q_inflight' \in Nat
<1>1. r \in Req /\ st \in [Req -> ReqState]
  BY DEF RequestPart, Pending, In
<1>2. Pending' = Pending \ {r} /\ Reserved' = Reserved \ {r}
  BY <1>1 DEF Pending, Reserved, In, PendingRequests, Owned, OnTask
<1>3. Cardinality({r}) = 1
  BY FS_Singleton
<1>4. {r} \in SUBSET Pending
  OBVIOUS
<1> HIDE DEF Pending
<1> QED
  BY <1>2, <1>3, <1>4, CountsAfterEnd

\* A pending request goes on: nothing is counted anew.
LEMMA CountsAfterMove ==
  ASSUME RequestPart, NEW r \in Pending, NEW to \in PendingRequests,
         st' = [st EXCEPT ![r] = to], UNCHANGED <<q_pending_sem, q_inflight>>
  PROVE  PendingConservation'
<1>1. r \in Req /\ st \in [Req -> ReqState]
  BY DEF RequestPart, Pending, In
<1>2. Pending' = Pending /\ Reserved' = Reserved
  BY <1>1 DEF Pending, Reserved, In, PendingRequests, Owned, OnTask
<1> QED
  BY <1>2 DEF RequestPart, PendingConservation, Pending, Reserved

----------------------------------------------------------------------------
(* The P worker.                                                            *)

LEMMA RequestPartAdmitted ==
  ASSUME RequestPart, NEW p \in P, P_Admitted(p)
  PROVE  RequestPart'
<1>1. /\ pcP[p] \in {"top", "woken"}
      /\ pcP \in [P -> PPc] /\ st \in [Req -> ReqState]
      /\ batch \in [P -> SUBSET Req]
  BY DEF RequestPart, P_Admitted, MayEnter
<1>2. PICK R \in SUBSET In({"free"}) :
        /\ Cardinality(R) = QGrant(q_depth, MaxBatch)
        /\ st' = [r \in Req |-> IF r \in R THEN "reserved" ELSE st[r]]
        /\ batch' = [batch EXCEPT ![p] = R]
  BY DEF P_Admitted
<1>3. R \in SUBSET Req /\ R \cap Reserved = {}
  BY <1>2 DEF In, Reserved
<1>4. q_inflight' = q_inflight + Cardinality(R) /\ q_pending_sem' = q_pending_sem
  BY <1>2 DEF P_Admitted, acquire_q_batch, permitVars
<1>5. Pending' = Pending /\ Reserved' = Reserved \cup R
  BY <1>1, <1>2, <1>3
  DEF Pending, Reserved, In, PendingRequests, Owned, OnTask
<1>6. Cardinality(Reserved \cup R) = Cardinality(Reserved) + Cardinality(R)
  BY <1>3, RequestsFinite, CardJoin
<1>7. PendingConservation' /\ q_inflight' \in Nat /\ q_pending_sem' \in Nat
  BY <1>3, <1>4, <1>5, <1>6, RequestsFinite
  DEF RequestPart, PendingConservation, Pending, Reserved
<1>8. st' \in [Req -> ReqState] /\ batch' \in [P -> SUBSET Req]
  BY <1>1, <1>2, <1>3 DEF ReqState
<1>9. pcP' = [Woken(pcP) EXCEPT ![p] = "pending"]
  BY DEF P_Admitted, GateWakesP
<1>10. pcP' \in [P -> PPc]
  BY <1>1, <1>9, WokenProducers DEF PPc
<1>11. BatchInStep'
  <2>1. \A x \in P : batch'[x] \subseteq In(BatchState(pcP[x]))'
    <3>1. ASSUME NEW x \in P \ {p}, NEW r \in batch[x]
          PROVE  r \in In(BatchState(pcP[x]))'
      <4>1. /\ r \in Req /\ st[r] \in BatchState(pcP[x])
            /\ BatchState(pcP'[x]) = BatchState(pcP[x])
        BY <1>1, <1>9, <3>1, BatchPlace, WokenProducers
      <4>2. st[r] # "free"
        BY <4>1 DEF BatchState, OnTask
      <4> QED
        BY <1>2, <1>3, <4>1, <4>2 DEF In
    <3>2. batch'[p] \subseteq In({"reserved", "pending"})'
      BY <1>1, <1>2, <1>3 DEF In
    <3>3. pcP'[p] = "pending"
      BY <1>1, <1>9, WokenProducers
    <3> QED
      BY <1>1, <1>2, <3>1, <3>2, <3>3 DEF BatchState
  <2>2. \A x, y \in P : x # y => batch'[x] \cap batch'[y] = {}
    <3>1. \A x \in P : batch[x] \cap R = {}
      BY <1>1, <1>3, BatchPlace DEF In, Reserved, BatchState, OnTask
    <3> QED
      BY <1>1, <1>2, <3>1 DEF RequestPart, BatchInStep
  <2> QED
    BY <2>1, <2>2 DEF BatchInStep
<1> QED
  BY <1>7, <1>8, <1>10, <1>11 DEF RequestPart

\* One request of p's own batch moves on and p with it.
LEMMA BatchAfterMove ==
  ASSUME RequestPart, NEW p \in P, NEW r \in batch[p], NEW to \in ReqState,
         NEW place \in PPc,
         st' = [st EXCEPT ![r] = to],
         \A x \in P \ {p} : BatchState(pcP'[x]) = BatchState(pcP[x]),
         pcP'[p] = place,
         batch' \in [P -> SUBSET Req],
         \A x \in P \ {p} : batch'[x] = batch[x],
         batch'[p] \subseteq batch[p],
         \A x \in batch'[p] :
            (IF x = r THEN to ELSE st[x]) \in BatchState(place)
  PROVE  BatchInStep'
<1>1. ASSUME NEW x \in P \ {p}
      PROVE  batch'[x] \subseteq In(BatchState(pcP[x]))'
  BY <1>1, BatchPlace DEF In, RequestPart
<1>2. batch'[p] \subseteq In(BatchState(pcP[p]))'
  BY DEF In, RequestPart
<1>3. \A x, y \in P : x # y => batch'[x] \cap batch'[y] = {}
  BY DEF RequestPart, BatchInStep
<1> QED
  BY <1>1, <1>2, <1>3 DEF BatchInStep

LEMMA RequestPartAcquirePending ==
  ASSUME RequestPart, NEW p \in P, P_AcquirePending(p)
  PROVE  RequestPart'
<1>1. /\ pcP \in [P -> PPc] /\ st \in [Req -> ReqState]
      /\ batch \in [P -> SUBSET Req] /\ pcP[p] = "pending"
  BY DEF RequestPart, P_AcquirePending
<1>2. PICK r \in batch[p] :
        /\ st[r] = "reserved"
        /\ st' = [st EXCEPT ![r] = "pending"]
        /\ pcP' = [pcP EXCEPT ![p] =
                     IF \E x \in batch[p] \ {r} : st[x] = "reserved"
                     THEN "pending" ELSE "email"]
  BY DEF P_AcquirePending
<1>3. /\ q_pending_sem' = q_pending_sem - 1 /\ q_pending_sem > 0
      /\ q_inflight' = q_inflight /\ batch' = batch
  BY DEF P_AcquirePending, gateVars
<1>4. Pending' = Pending \cup {r} /\ Reserved' = Reserved /\ r \notin Pending
  BY <1>1, <1>2 DEF Pending, Reserved, In, PendingRequests, Owned, OnTask
<1>5. Cardinality(Pending \cup {r}) = Cardinality(Pending) + 1
  BY <1>4, RequestsFinite, CardAdd
<1>6. PendingConservation' /\ q_pending_sem' \in Nat /\ q_inflight' \in Nat
  <2>1. /\ q_pending_sem + Cardinality(Pending) = QPendingCap
        /\ q_inflight = Cardinality(Reserved)
        /\ q_pending_sem \in Nat /\ q_inflight \in Nat
    BY DEF RequestPart, PendingConservation, Pending, Reserved
  <2>2. /\ q_pending_sem' + Cardinality(Pending') = QPendingCap
        /\ q_inflight' = Cardinality(Reserved')
        /\ q_pending_sem' \in Nat /\ q_inflight' \in Nat
    BY <1>3, <1>4, <1>5, <2>1, RequestsFinite
  <2> QED
    BY <2>2 DEF PendingConservation, Pending, Reserved
<1>7. pcP' \in [P -> PPc] /\ st' \in [Req -> ReqState]
  BY <1>1, <1>2 DEF PPc, ReqState
<1>8. BatchInStep'
  <2>1. pcP'[p] = IF \E x \in batch[p] \ {r} : st[x] = "reserved"
                  THEN "pending" ELSE "email"
    BY <1>1, <1>2
  <2>2. \A x \in batch[p] : st[x] \in {"reserved", "pending"}
    BY <1>1, BatchPlace DEF BatchState
  <2>3. \A x \in batch'[p] :
           (IF x = r THEN "pending" ELSE st[x]) \in BatchState(pcP'[p])
    BY <1>3, <2>1, <2>2 DEF BatchState
  <2>4. pcP'[p] \in PPc /\ "pending" \in ReqState
    BY <1>7 DEF ReqState
  <2>5. \A x \in P \ {p} : BatchState(pcP'[x]) = BatchState(pcP[x])
    BY <1>1, <1>2
  <2> QED
    BY <1>1, <1>2, <1>3, <2>3, <2>4, <2>5, BatchAfterMove
<1> QED
  BY <1>1, <1>3, <1>6, <1>7, <1>8 DEF RequestPart

LEMMA RequestPartEmailCreated ==
  ASSUME RequestPart, NEW p \in P, P_EmailCreated(p)
  PROVE  RequestPart'
<1>1. /\ pcP \in [P -> PPc] /\ st \in [Req -> ReqState]
      /\ batch \in [P -> SUBSET Req] /\ pcP[p] = "email"
  BY DEF RequestPart, P_EmailCreated
<1>2. PICK r \in batch[p] :
        /\ st[r] = "pending"
        /\ st' = [st EXCEPT ![r] = "created"]
        /\ pcP' = [pcP EXCEPT ![p] = AfterEmail(p, r, "created")]
  BY DEF P_EmailCreated
<1>3. UNCHANGED <<q_pending_sem, q_inflight, batch>>
  BY DEF P_EmailCreated, gateVars, permitVars
<1>4. r \in Pending /\ "created" \in PendingRequests
  BY <1>1, <1>2 DEF Pending, In, PendingRequests, Owned
<1>5. PendingConservation'
  BY <1>2, <1>3, <1>4, CountsAfterMove
<1>6. pcP' \in [P -> PPc] /\ st' \in [Req -> ReqState]
  BY <1>1, <1>2 DEF PPc, ReqState, AfterEmail
<1>7. BatchInStep'
  <2>1. pcP'[p] = IF \E x \in batch[p] \ {r} : st[x] = "pending"
                  THEN "email" ELSE "p_send"
    BY <1>1, <1>2 DEF AfterEmail
  <2>2. \A x \in batch[p] : st[x] \in {"pending", "created"}
    BY <1>1, BatchPlace DEF BatchState
  <2>3. \A x \in batch'[p] :
           (IF x = r THEN "created" ELSE st[x]) \in BatchState(pcP'[p])
    BY <1>3, <2>1, <2>2 DEF BatchState
  <2>4. pcP'[p] \in PPc /\ "created" \in ReqState
    BY <1>6 DEF ReqState
  <2>5. \A x \in P \ {p} : BatchState(pcP'[x]) = BatchState(pcP[x])
    BY <1>1, <1>2
  <2> QED
    BY <1>1, <1>2, <1>3, <2>3, <2>4, <2>5, BatchAfterMove
<1> QED
  BY <1>1, <1>3, <1>5, <1>6, <1>7 DEF RequestPart

LEMMA RequestPartEmailFailed ==
  ASSUME RequestPart, NEW p \in P, P_EmailFailed(p)
  PROVE  RequestPart'
<1>1. /\ pcP \in [P -> PPc] /\ st \in [Req -> ReqState]
      /\ batch \in [P -> SUBSET Req] /\ pcP[p] = "email"
  BY DEF RequestPart, P_EmailFailed
<1>2. PICK r \in batch[p] :
        /\ st[r] = "pending"
        /\ st' = [st EXCEPT ![r] = "free"]
        /\ batch' = [batch EXCEPT ![p] = batch[p] \ {r}]
        /\ pcP' = [Woken(pcP) EXCEPT ![p] = AfterEmail(p, r, "free")]
  BY DEF P_EmailFailed, GateWakesP
<1>3. q_pending_sem' = q_pending_sem + 1 /\ q_inflight' = q_inflight - 1
  BY DEF P_EmailFailed, release_q
<1>4. r \in Pending
  BY <1>1, <1>2 DEF Pending, In, PendingRequests, Owned
<1>5. PendingConservation' /\ q_pending_sem' \in Nat /\ q_inflight' \in Nat
  BY <1>2, <1>3, <1>4, CountsAfterTerminal
<1>6. /\ pcP' \in [P -> PPc] /\ st' \in [Req -> ReqState]
      /\ batch' \in [P -> SUBSET Req]
  BY <1>1, <1>2, WokenProducers DEF PPc, ReqState, AfterEmail
<1>7. BatchInStep'
  <2>1. pcP'[p] = AfterEmail(p, r, "free")
    BY <1>1, <1>2, WokenProducers
  <2>2. \A x \in batch[p] : st[x] \in {"pending", "created"}
    BY <1>1, BatchPlace DEF BatchState
  <2>3. \A x \in batch'[p] :
           (IF x = r THEN "free" ELSE st[x]) \in BatchState(pcP'[p])
    BY <1>1, <1>2, <2>1, <2>2 DEF BatchState, AfterEmail
  <2>4. pcP'[p] \in PPc /\ "free" \in ReqState
    BY <1>6 DEF ReqState
  <2>5. \A x \in P \ {p} : BatchState(pcP'[x]) = BatchState(pcP[x])
    BY <1>1, <1>2, WokenProducers
  <2> QED
    BY <1>1, <1>2, <1>6, <2>3, <2>4, <2>5, BatchAfterMove
<1> QED
  BY <1>5, <1>6, <1>7 DEF RequestPart

\* Worker p gives up part of its own batch and goes where the rest belongs;
\* the requests given up end, the others move on together.
LEMMA BatchAfterSplit ==
  ASSUME RequestPart, NEW p \in P, NEW place \in PPc, NEW kept \in SUBSET batch[p],
         st' \in [Req -> ReqState],
         \A r \in Req \ batch[p] : st'[r] = st[r],
         \A r \in kept : st'[r] \in BatchState(place),
         \A x \in P \ {p} : BatchState(pcP'[x]) = BatchState(pcP[x]),
         pcP'[p] = place, batch' = [batch EXCEPT ![p] = kept]
  PROVE  BatchInStep' /\ batch' \in [P -> SUBSET Req]
<1>1. batch \in [P -> SUBSET Req]
  BY DEF RequestPart
<1>2. ASSUME NEW x \in P \ {p}
      PROVE  batch'[x] \subseteq In(BatchState(pcP[x]))'
  BY <1>1, <1>2, BatchPlace DEF In
<1>3. batch'[p] \subseteq In(BatchState(pcP[p]))'
  BY <1>1 DEF In
<1>4. \A x, y \in P : x # y => batch'[x] \cap batch'[y] = {}
  BY <1>1 DEF RequestPart, BatchInStep
<1> QED
  BY <1>1, <1>2, <1>3, <1>4 DEF BatchInStep

\* A cancelled worker gives up its whole batch.
LEMMA BatchAfterCancel ==
  ASSUME RequestPart, NEW p \in P,
         st' \in [Req -> ReqState],
         \A r \in Req \ batch[p] : st'[r] = st[r],
         \A x \in P \ {p} : BatchState(pcP'[x]) = BatchState(pcP[x]),
         pcP'[p] = "done", batch' = [batch EXCEPT ![p] = {}]
  PROVE  BatchInStep' /\ batch' \in [P -> SUBSET Req]
<1>1. "done" \in PPc /\ {} \in SUBSET batch[p]
  BY DEF PPc
<1>2. \A r \in {} : st'[r] \in BatchState("done")
  OBVIOUS
<1> QED
  BY <1>1, <1>2, BatchAfterSplit

LEMMA RequestPartSent ==
  ASSUME RequestPart, NEW p \in P, P_Sent(p)
  PROVE  RequestPart'
<1>1. /\ pcP \in [P -> PPc] /\ st \in [Req -> ReqState]
      /\ batch \in [P -> SUBSET Req] /\ pcP[p] = "sending"
  BY DEF RequestPart, P_Sent
<1>2. PICK sent \in SUBSET batch[p] :
        /\ st' = [r \in Req |-> IF r \in sent THEN "polling"
                      ELSE IF r \in batch[p] \ sent THEN "free" ELSE st[r]]
        /\ batch' = [batch EXCEPT ![p] = sent]
        /\ q_pending_sem' = q_pending_sem + Cardinality(batch[p] \ sent)
        /\ q_inflight' = q_inflight - Cardinality(batch[p] \ sent)
        /\ LET to == IF sent = {} THEN "top" ELSE "settling"
           IN  \/ pcP' = [Woken(pcP) EXCEPT ![p] = to]
               \/ pcP' = [pcP EXCEPT ![p] = to]
  BY DEF P_Sent, release_q, GateWakesP
<1> DEFINE unsent == batch[p] \ sent
<1> DEFINE to == IF sent = {} THEN "top" ELSE "settling"
<1>3. \A r \in batch[p] : r \in Req /\ st[r] = "created"
  BY <1>1, BatchPlace DEF BatchState
<1>4. unsent \in SUBSET Pending
  BY <1>3 DEF Pending, In, PendingRequests, Owned
<1>5. Pending' = Pending \ unsent /\ Reserved' = Reserved \ unsent
  BY <1>1, <1>2, <1>3
  DEF Pending, Reserved, In, PendingRequests, Owned, OnTask
<1>6. PendingConservation' /\ q_pending_sem' \in Nat /\ q_inflight' \in Nat
  BY <1>2, <1>4, <1>5, CountsAfterEnd
<1>7. st' \in [Req -> ReqState]
  BY <1>1, <1>2 DEF ReqState
<1>8. /\ pcP' \in [P -> PPc] /\ pcP'[p] = to /\ to \in PPc
      /\ \A x \in P \ {p} : BatchState(pcP'[x]) = BatchState(pcP[x])
  BY <1>1, <1>2, WokenProducers DEF PPc
<1>9. \A r \in sent : st'[r] \in BatchState(to)
  BY <1>1, <1>2 DEF BatchState, OnTask
<1>10. \A r \in Req \ batch[p] : st'[r] = st[r]
  BY <1>2
<1>11. BatchInStep' /\ batch' \in [P -> SUBSET Req]
  BY <1>2, <1>7, <1>8, <1>9, <1>10, BatchAfterSplit
<1> QED
  BY <1>6, <1>7, <1>8, <1>11 DEF RequestPart

LEMMA RequestPartCancelAcquiring ==
  ASSUME RequestPart, NEW p \in P, P_CancelAcquiring(p)
  PROVE  RequestPart'
<1>1. /\ pcP \in [P -> PPc] /\ st \in [Req -> ReqState]
      /\ batch \in [P -> SUBSET Req] /\ pcP[p] = "pending"
  BY DEF RequestPart, P_CancelAcquiring
<1> DEFINE R == {r \in batch[p] : st[r] = "pending"}
<1>2. /\ st' = [r \in Req |-> IF r \in batch[p] THEN "leaked" ELSE st[r]]
      /\ batch' = [batch EXCEPT ![p] = {}]
      /\ pcP' = [pcP EXCEPT ![p] = "done"]
      /\ q_pending_sem' = q_pending_sem + Cardinality(R)
      /\ q_inflight' = q_inflight
  BY DEF P_CancelAcquiring, gateVars
<1>3. \A r \in batch[p] : r \in Req /\ st[r] \in {"reserved", "pending"}
  BY <1>1, BatchPlace DEF BatchState
<1>4. R \in SUBSET Pending
  BY <1>3 DEF Pending, In, PendingRequests, Owned
<1>5. Pending' = Pending \ R /\ Reserved' = Reserved
  BY <1>1, <1>2, <1>3
  DEF Pending, Reserved, In, PendingRequests, Owned, OnTask
<1>6. PendingConservation' /\ q_pending_sem' \in Nat
  <2>1. /\ Cardinality(R) \in Nat
        /\ Cardinality(Pending \ R) \in Nat
        /\ Cardinality(Pending \ R) = Cardinality(Pending) - Cardinality(R)
    BY <1>4, RequestsFinite, CardRemove
  <2>2. /\ q_pending_sem + Cardinality(Pending) = QPendingCap
        /\ q_inflight = Cardinality(Reserved)
        /\ q_pending_sem \in Nat
    BY DEF RequestPart, PendingConservation, Pending, Reserved
  <2>3. /\ q_pending_sem' + Cardinality(Pending') = QPendingCap
        /\ q_inflight' = Cardinality(Reserved')
        /\ q_pending_sem' \in Nat
    <3> HIDE DEF R
    <3> QED
      BY <1>2, <1>5, <2>1, <2>2, RequestsFinite
  <2> QED
    BY <2>3 DEF PendingConservation, Pending, Reserved
<1>7. st' \in [Req -> ReqState] /\ pcP' \in [P -> PPc]
  BY <1>1, <1>2 DEF ReqState, PPc
<1>8. BatchInStep' /\ batch' \in [P -> SUBSET Req]
  <2>1. /\ pcP'[p] = "done" /\ \A r \in Req \ batch[p] : st'[r] = st[r]
        /\ \A x \in P \ {p} : BatchState(pcP'[x]) = BatchState(pcP[x])
    BY <1>1, <1>2
  <2> QED
    BY <1>2, <1>7, <2>1, BatchAfterCancel
<1> QED
  BY <1>2, <1>6, <1>7, <1>8 DEF RequestPart

LEMMA RequestPartCancelOwning ==
  ASSUME RequestPart, NEW p \in P, P_CancelOwning(p)
  PROVE  RequestPart'
<1>1. /\ pcP \in [P -> PPc] /\ st \in [Req -> ReqState]
      /\ batch \in [P -> SUBSET Req]
      /\ pcP[p] \in {"email", "p_send", "physical", "sending"}
  BY DEF RequestPart, P_CancelOwning
<1>2. /\ st' = [r \in Req |-> IF r \in batch[p] THEN "free" ELSE st[r]]
      /\ batch' = [batch EXCEPT ![p] = {}]
      /\ pcP' = [Woken(pcP) EXCEPT ![p] = "done"]
      /\ q_pending_sem' = q_pending_sem + Cardinality(batch[p])
      /\ q_inflight' = q_inflight - Cardinality(batch[p])
  BY DEF P_CancelOwning, release_q, GateWakesP
<1>3. \A r \in batch[p] : r \in Req /\ st[r] \in {"pending", "created"}
  BY <1>1, BatchPlace DEF BatchState
<1>4. batch[p] \in SUBSET Pending
  BY <1>3 DEF Pending, In, PendingRequests, Owned
<1>5. Pending' = Pending \ batch[p] /\ Reserved' = Reserved \ batch[p]
  BY <1>1, <1>2, <1>3
  DEF Pending, Reserved, In, PendingRequests, Owned, OnTask
<1>6. PendingConservation' /\ q_pending_sem' \in Nat /\ q_inflight' \in Nat
  BY <1>2, <1>4, <1>5, CountsAfterEnd
<1>7. /\ st' \in [Req -> ReqState]
      /\ pcP' \in [P -> PPc] /\ pcP'[p] = "done"
      /\ \A r \in Req \ batch[p] : st'[r] = st[r]
      /\ \A x \in P \ {p} : BatchState(pcP'[x]) = BatchState(pcP[x])
  BY <1>1, <1>2, WokenProducers DEF ReqState, PPc
<1>8. BatchInStep' /\ batch' \in [P -> SUBSET Req]
  BY <1>2, <1>7, BatchAfterCancel
<1> QED
  BY <1>6, <1>7, <1>8 DEF RequestPart

LEMMA RequestPartCancelIdle ==
  ASSUME RequestPart, NEW p \in P, P_CancelIdle(p)
  PROVE  RequestPart'
<1>1. /\ pcP \in [P -> PPc] /\ st \in [Req -> ReqState]
      /\ batch' = [batch EXCEPT ![p] = {}]
      /\ pcP' = [pcP EXCEPT ![p] = "done"] /\ pcP' \in [P -> PPc]
      /\ UNCHANGED <<st, q_pending_sem, q_inflight>>
      /\ pcP'[p] = "done" /\ st' \in [Req -> ReqState]
      /\ \A x \in P \ {p} : BatchState(pcP'[x]) = BatchState(pcP[x])
  BY DEF RequestPart, P_CancelIdle, gateVars, permitVars, PPc
<1>2. PendingConservation'
  BY <1>1 DEF RequestPart, PendingConservation, In
<1>3. BatchInStep' /\ batch' \in [P -> SUBSET Req]
  BY <1>1, BatchAfterCancel
<1> QED
  BY <1>1, <1>2, <1>3 DEF RequestPart

LEMMA RequestPartPStep ==
  ASSUME RequestPart, NEW p \in P, PStep(p)
  PROVE  RequestPart'
<1>1. CASE \/ P_Park(p) \/ P_Stop(p) \/ P_AcquireSend(p) \/ P_Physical(p)
  <2>1. pcP' \in [P -> PPc] /\ \A x \in P : BatchState(pcP'[x]) = BatchState(pcP[x])
    BY <1>1
    DEF RequestPart, P_Park, P_Stop, P_AcquireSend, P_Physical, MayEnter, PPc,
        BatchState
  <2>2. UNCHANGED <<requestVars, q_pending_sem, q_inflight>>
    BY <1>1
    DEF P_Park, RefuseQ, P_Stop, P_AcquireSend, P_Physical, gateVars, permitVars
  <2> QED
    BY <2>1, <2>2, RequestPartUnchanged
<1>2. CASE P_Settled(p)
  <2>1. /\ pcP' \in [P -> PPc] /\ batch[p] = {}
        /\ \A x \in P \ {p} : BatchState(pcP'[x]) = BatchState(pcP[x])
        /\ UNCHANGED <<st, batch, q_pending_sem, q_inflight>>
    BY <1>2
    DEF RequestPart, P_Settled, PPc, requestVars, gateVars, permitVars
  <2>2. BatchInStep' /\ PendingConservation'
    BY <2>1 DEF RequestPart, BatchInStep, PendingConservation, In
  <2> QED
    BY <2>1, <2>2 DEF RequestPart
<1> QED
  BY <1>1, <1>2, RequestPartAdmitted, RequestPartAcquirePending,
     RequestPartEmailCreated, RequestPartEmailFailed, RequestPartSent,
     RequestPartCancelAcquiring, RequestPartCancelOwning, RequestPartCancelIdle
  DEF PStep

----------------------------------------------------------------------------
(* The task of a request.                                                   *)

\* A task moves its request on, or takes it out of the batch it is in.
LEMMA BatchAfterTask ==
  ASSUME RequestPart, NEW r \in Req, st[r] \in OnTask, NEW to \in ReqState,
         st' = [st EXCEPT ![r] = to],
         batch' \in [P -> SUBSET Req],
         \A x \in P : batch'[x] \subseteq batch[x],
         \A x \in P : \/ BatchState(pcP'[x]) = BatchState(pcP[x])
                      \/ batch'[x] = {},
         to \in OnTask \/ \A x \in P : r \notin batch'[x]
  PROVE  BatchInStep'
<1>1. st \in [Req -> ReqState]
  BY DEF RequestPart
<1>2. ASSUME NEW x \in P, NEW y \in batch'[x]
      PROVE  y \in In(BatchState(pcP[x]))'
  <2>1. y \in Req /\ st[y] \in BatchState(pcP[x])
    BY <1>2, BatchPlace
  <2>2. BatchState(pcP'[x]) = BatchState(pcP[x])
    BY <1>2
  <2>3. st'[y] \in BatchState(pcP[x])
    <3>1. CASE y = r
      <4>1. BatchState(pcP[x]) = OnTask
        BY <2>1, <3>1 DEF BatchState, OnTask
      <4> QED
        BY <1>1, <1>2, <3>1, <4>1
    <3> QED
      BY <1>1, <2>1, <3>1
  <2> QED
    BY <2>1, <2>2, <2>3 DEF In
<1>3. \A x, y \in P : x # y => batch'[x] \cap batch'[y] = {}
  BY DEF RequestPart, BatchInStep
<1> QED
  BY <1>2, <1>3 DEF BatchInStep

LEMMA RequestPartTerminal ==
  ASSUME RequestPart, NEW r \in Req, st[r] \in OnTask, Terminal(r),
         pcP' = pcP \/ pcP' = Woken(pcP)
  PROVE  RequestPart'
<1>1. /\ pcP \in [P -> PPc] /\ st \in [Req -> ReqState]
      /\ batch \in [P -> SUBSET Req] /\ "free" \in ReqState
  BY DEF RequestPart, ReqState
<1>2. r \in Pending
  BY DEF Pending, In, PendingRequests
<1>3. PendingConservation' /\ q_pending_sem' \in Nat /\ q_inflight' \in Nat
  BY <1>2, CountsAfterTerminal DEF Terminal, release_q
<1>4. /\ pcP' \in [P -> PPc]
      /\ \A x \in P : BatchState(pcP'[x]) = BatchState(pcP[x])
  BY <1>1, WokenProducers
<1>5. batch' \in [P -> SUBSET Req] /\ st' \in [Req -> ReqState]
  BY <1>1 DEF Terminal
<1>6. BatchInStep'
  BY <1>1, <1>4, <1>5, BatchAfterTask DEF Terminal
<1> QED
  BY <1>3, <1>4, <1>5, <1>6 DEF RequestPart

LEMMA RequestPartPollRaised ==
  ASSUME RequestPart, NEW r \in Req, R_PollRaised(r)
  PROVE  RequestPart'
<1>1. /\ pcP \in [P -> PPc] /\ st \in [Req -> ReqState]
      /\ batch \in [P -> SUBSET Req] /\ st[r] = "polling"
      /\ "free" \in ReqState /\ st[r] \in OnTask
  BY DEF RequestPart, R_PollRaised, ReqState, OnTask
<1>2. r \in Pending
  BY <1>1 DEF Pending, In, PendingRequests
<1>3. PendingConservation' /\ q_pending_sem' \in Nat /\ q_inflight' \in Nat
  BY <1>2, CountsAfterTerminal DEF R_PollRaised, release_q
<1> DEFINE waits(p) == pcP[p] = "settling" /\ r \in batch[p]
<1>4. /\ pcP' = [p \in P |-> IF waits(p) THEN "top" ELSE Woken(pcP)[p]]
      /\ batch' = [p \in P |-> IF waits(p) THEN {} ELSE batch[p]]
      /\ st' = [st EXCEPT ![r] = "free"]
  BY DEF R_PollRaised
<1>5. /\ pcP' \in [P -> PPc] /\ batch' \in [P -> SUBSET Req]
      /\ st' \in [Req -> ReqState]
  BY <1>1, <1>4, WokenProducers DEF PPc
<1>6. \A x \in P : r \in batch[x] => pcP[x] = "settling"
  BY <1>1, BatchPlace DEF BatchState
<1>7. /\ \A x \in P : batch'[x] \subseteq batch[x] /\ r \notin batch'[x]
      /\ \A x \in P : \/ BatchState(pcP'[x]) = BatchState(pcP[x])
                      \/ batch'[x] = {}
  BY <1>1, <1>4, <1>6, WokenProducers
<1>8. BatchInStep'
  BY <1>1, <1>4, <1>5, <1>7, BatchAfterTask
<1> QED
  BY <1>3, <1>5, <1>8 DEF RequestPart

LEMMA RequestPartGoesOn ==
  ASSUME RequestPart, NEW r \in Req,
         \/ R_Resend(r) \/ R_AcquireSend(r) \/ R_Physical(r) \/ R_Resent(r)
         \/ R_CodeReturned(r) \/ R_CancelPoll(r)
  PROVE  RequestPart'
<1>1. /\ pcP \in [P -> PPc] /\ st \in [Req -> ReqState]
      /\ batch \in [P -> SUBSET Req] /\ st[r] \in OnTask
  BY DEF RequestPart, R_Resend, R_AcquireSend, R_Physical, R_Resent,
         R_CodeReturned, R_CancelPoll, OnTask
<1>2. UNCHANGED <<pcP, q_pending_sem, q_inflight>>
  BY DEF R_Resend, R_AcquireSend, R_Physical, R_Resent, R_CodeReturned,
         R_CancelPoll, workerVars, permitVars, gateVars
<1>3. PICK to \in OnTask \cup {"abandoned"} :
        /\ st' = [st EXCEPT ![r] = to]
        /\ \/ to \in OnTask /\ batch' = batch
           \/ batch' = [p \in P |-> batch[p] \ {r}]
  BY DEF R_Resend, R_AcquireSend, R_Physical, R_Resent, R_CodeReturned,
         R_CancelPoll, OnTask
<1>4. r \in Pending /\ to \in PendingRequests /\ to \in ReqState
  BY <1>1 DEF Pending, In, PendingRequests, OnTask, ReqState
<1>5. PendingConservation'
  BY <1>2, <1>3, <1>4, CountsAfterMove
<1>6. st' \in [Req -> ReqState] /\ batch' \in [P -> SUBSET Req]
  BY <1>1, <1>3, <1>4
<1>7. /\ \A x \in P : batch'[x] \subseteq batch[x]
      /\ to \in OnTask \/ \A x \in P : r \notin batch'[x]
  BY <1>1, <1>3
<1>8. BatchInStep'
  BY <1>1, <1>2, <1>3, <1>4, <1>6, <1>7, BatchAfterTask
<1> QED
  BY <1>2, <1>5, <1>6, <1>8 DEF RequestPart

LEMMA RequestPartRStep ==
  ASSUME RequestPart, NEW r \in Req, RStep(r) \/ R_StockExpired(r)
  PROVE  RequestPart'
<1>1. CASE \/ R_NoCode(r) \/ R_Stock(r) \/ R_StockExpired(r)
           \/ R_CancelReturned(r)
  <2>1. /\ Terminal(r) /\ st[r] \in OnTask
        /\ pcP' = pcP \/ pcP' = Woken(pcP)
    BY <1>1
    DEF R_NoCode, R_Stock, R_StockExpired, R_CancelReturned, OnTask, workerVars
  <2> QED
    BY <2>1, RequestPartTerminal
<1> QED
  BY <1>1, RequestPartPollRaised, RequestPartGoesOn DEF RStep

----------------------------------------------------------------------------
(* Every other step leaves the requests alone.                              *)

LEMMA RequestPartNext ==
  ASSUME RequestPart, [Next]_vars
  PROVE  RequestPart'
<1>1. CASE \E p \in P : PStep(p)
  BY <1>1, RequestPartPStep
<1>2. CASE \E r \in Req : RStep(r) \/ R_StockExpired(r)
  BY <1>2, RequestPartRStep
<1>3. CASE \E s \in S : SStep(s) \/ S_StockExpired(s)
  <2>1. UNCHANGED <<requestVars, q_pending_sem, q_inflight>>
    BY <1>3
    DEF SStep, S_Admitted, S_Park, S_Physical, S_Solved, S_NoToken, S_Stock,
        S_StockExpired, S_Stop, S_Cancel, acquire_t_production, RefuseT,
        release_t, permitVars, gateVars
  <2>2. pcP' = pcP \/ pcP' = Woken(pcP)
    BY <1>3
    DEF SStep, S_Admitted, S_Park, S_Physical, S_Solved, S_NoToken, S_Stock,
        S_StockExpired, S_Stop, S_Cancel, GateWakesS
  <2>3. /\ pcP' \in [P -> PPc]
        /\ \A x \in P : BatchState(pcP'[x]) = BatchState(pcP[x])
    BY <2>2, WokenProducers DEF RequestPart
  <2> QED
    BY <2>1, <2>3, RequestPartUnchanged
<1>4. CASE \E c \in C : CStep(c)
  <2>1. UNCHANGED <<requestVars, q_pending_sem, q_inflight>>
    BY <1>4
    DEF CStep, C_Claim, C_Park, C_Thawed, C_Physical, C_Submit, C_Registered,
        C_Failed, C_Stop, C_Cancel, permitVars, gateVars
  <2>2. pcP' = pcP \/ pcP' = Woken(pcP)
    BY <1>4
    DEF CStep, C_Claim, C_Park, C_Thawed, C_Physical, C_Submit, C_Registered,
        C_Failed, C_Stop, C_Cancel
  <2>3. /\ pcP' \in [P -> PPc]
        /\ \A x \in P : BatchState(pcP'[x]) = BatchState(pcP[x])
    BY <2>2, WokenProducers DEF RequestPart
  <2> QED
    BY <2>1, <2>3, RequestPartUnchanged
<1>5. CASE ReachTarget \/ Interrupt \/ Expire \/ Terminated \/ UNCHANGED vars
  <2>1. UNCHANGED <<requestVars, q_pending_sem, q_inflight, pcP>>
    BY <1>5
    DEF ReachTarget, Interrupt, Expire, Terminated, vars, workerVars, permitVars,
        gateVars
  <2> QED
    BY <2>1, RequestPartUnchanged DEF RequestPart
<1> QED
  BY <1>1, <1>2, <1>3, <1>4, <1>5 DEF Next, Work, Aging

LEMMA RequestPartAlways == Spec => []RequestPart
<1>1. Init => RequestPart
  BY RequestPartInit
<1>2. RequestPart /\ [Next]_vars => RequestPart'
  BY RequestPartNext
<1> QED
  BY <1>1, <1>2, PTL DEF Spec

\* _poll_and_admit_q, p_worker and the cancellations between them give every
\* permit of Q_Pending_Sem and every reservation back once, and only once,
\* except for those of abandoned and leaked requests.
THEOREM PendingConserved == Spec => []PendingConservation
<1>1. RequestPart => PendingConservation
  BY DEF RequestPart
<1> QED
  BY <1>1, RequestPartAlways, PTL

\* No request is driven by two workers, sent without permit and mailbox, or
\* left behind in the batch of a worker that has started over.
THEOREM BatchesInStep == Spec => []BatchInStep
<1>1. RequestPart => BatchInStep
  BY DEF RequestPart
<1> QED
  BY <1>1, RequestPartAlways, PTL

----------------------------------------------------------------------------
(* The shared permits and the gate.                                         *)

\* The part of the invariant that speaks of permits.  With an API solver no
\* S worker ever goes for a physical permit.
PermitPart ==
  /\ pcS \in [S -> SPc]
  /\ ApiSolver => \A s \in S : pcS[s] # "physical"
  /\ TLeaseConservation
  /\ physical_sem \in Nat /\ PhysicalConservation
  /\ p_send_sem \in Nat /\ SendConservation

Resending == In({"resending"})
Resends == In({"resendPhysical", "resending"})

LEMMA HoldersFinite ==
  /\ IsFiniteSet(SHolding) /\ IsFiniteSet(PHolding) /\ IsFiniteSet(CHolding)
  /\ IsFiniteSet(PSending) /\ IsFiniteSet(TLeases)
  /\ IsFiniteSet(Resending) /\ IsFiniteSet(Resends)
  /\ Cardinality(SHolding) \in Nat /\ Cardinality(PHolding) \in Nat
  /\ Cardinality(CHolding) \in Nat /\ Cardinality(PSending) \in Nat
  /\ Cardinality(TLeases) \in Nat
  /\ Cardinality(Resending) \in Nat /\ Cardinality(Resends) \in Nat
<1>1. /\ SHolding \subseteq S /\ TLeases \subseteq S
      /\ PHolding \subseteq P /\ PSending \subseteq P
      /\ CHolding \subseteq C
      /\ Resending \subseteq Req /\ Resends \subseteq Req
  BY DEF SHolding, TLeases, PHolding, PSending, CHolding, Resending, Resends, In
<1> QED
  BY <1>1, PipelineAssumption, InventoryAssumption, FS_Subset,
     FS_CardinalityType

\* The same of the next state.
LEMMA HoldersFiniteNext ==
  /\ Cardinality(PHolding') \in Nat /\ Cardinality(CHolding') \in Nat
  /\ Cardinality(Resending') \in Nat /\ Cardinality(Resends') \in Nat
<1>1. /\ PHolding' \subseteq P /\ CHolding' \subseteq C
      /\ Resending' \subseteq Req /\ Resends' \subseteq Req
  BY DEF PHolding, CHolding, Resending, Resends, In
<1> QED
  BY <1>1, PipelineAssumption, InventoryAssumption, FS_Subset,
     FS_CardinalityType

\* A member leaves a counted set.
LEMMA CardLeave ==
  ASSUME NEW A, IsFiniteSet(A), NEW x \in A
  PROVE  /\ Cardinality(A) \in Nat /\ Cardinality(A) > 0
         /\ Cardinality(A \ {x}) = Cardinality(A) - 1
<1>1. IsFiniteSet(A \ {x}) /\ Cardinality(A \ {x}) = Cardinality(A) - 1
  BY FS_RemoveElement
<1> QED
  BY <1>1, FS_CardinalityType

----------------------------------------------------------------------------
(* What a notification, and what the other kinds of workers leave alone.    *)

LEMMA WokenSolvers ==
  ASSUME pcS \in [S -> SPc]
  PROVE  /\ Woken(pcS) \in [S -> SPc]
         /\ \A s \in S : \A k \in SPc \ {"parked", "woken"} :
               Woken(pcS)[s] = k <=> pcS[s] = k
BY DEF Woken, SPc

LEMMA WokenKeepsS ==
  ASSUME pcS \in [S -> SPc], pcS' = pcS \/ pcS' = Woken(pcS)
  PROVE  /\ pcS' \in [S -> SPc]
         /\ \A s \in S : pcS'[s] = "physical" <=> pcS[s] = "physical"
         /\ TLeases' = TLeases /\ SHolding' = SHolding
<1>1. /\ pcS' \in [S -> SPc]
      /\ \A s \in S : \A k \in SPc \ {"parked", "woken"} :
               pcS'[s] = k <=> pcS[s] = k
  BY WokenSolvers
<1>2. {"physical", "solving", "slot"} \subseteq SPc \ {"parked", "woken"}
  BY DEF SPc
<1>3. \A s \in S : /\ pcS'[s] = "physical" <=> pcS[s] = "physical"
                   /\ pcS'[s] = "solving" <=> pcS[s] = "solving"
                   /\ pcS'[s] = "slot" <=> pcS[s] = "slot"
  BY <1>1, <1>2
<1> QED
  BY <1>1, <1>3 DEF TLeases, SHolding

LEMMA WokenKeepsP ==
  ASSUME pcP \in [P -> PPc], pcP' = pcP \/ pcP' = Woken(pcP)
  PROVE  PHolding' = PHolding /\ PSending' = PSending
BY DEF Woken, PPc, PHolding, PSending

LEMMA WokenKeepsC ==
  ASSUME pcC \in [C -> CPc], pcC' = pcC \/ pcC' = Woken(pcC)
  PROVE  CHolding' = CHolding
BY DEF Woken, CPc, CHolding

----------------------------------------------------------------------------
(* S workers.                                                               *)

\* What an S step does to the places of S, the leases and the permits.
SBalance ==
  /\ pcS' \in [S -> SPc]
  /\ ApiSolver => \A s \in S : pcS'[s] # "physical"
  /\ TLeaseConservation'
  /\ physical_sem' \in Nat
  /\ physical_sem' + Cardinality(SHolding') = physical_sem + Cardinality(SHolding)

\* s goes to "to" and everyone else is at most woken.
LEMMA SMoves ==
  ASSUME pcS \in [S -> SPc], NEW s \in S, NEW to \in SPc,
         \/ pcS' = [pcS EXCEPT ![s] = to]
         \/ pcS' = [Woken(pcS) EXCEPT ![s] = to]
  PROVE  /\ pcS' \in [S -> SPc] /\ pcS'[s] = to
         /\ \A x \in S \ {s} : /\ pcS'[x] = "physical" <=> pcS[x] = "physical"
                               /\ pcS'[x] = "solving" <=> pcS[x] = "solving"
                               /\ pcS'[x] = "slot" <=> pcS[x] = "slot"
BY DEF Woken, SPc

LEMMA SBalanceStep ==
  ASSUME PermitPart, NEW s \in S, SStep(s) \/ S_StockExpired(s)
  PROVE  SBalance
<1> DEFINE l == Cardinality(TLeases)
           h == Cardinality(SHolding)
<1>0. /\ pcS \in [S -> SPc] /\ ApiSolver \in BOOLEAN
      /\ ApiSolver => \A x \in S : pcS[x] # "physical"
      /\ t_in_progress = l /\ l \in Nat /\ h \in Nat
      /\ physical_sem \in Nat
  BY HoldersFinite, PipelineAssumption DEF PermitPart, TLeaseConservation
<1>1. CASE S_Admitted(s)
  <2>1. pcS' = [Woken(pcS) EXCEPT ![s] =
                  IF ApiSolver THEN "solving" ELSE "physical"]
    BY <1>1 DEF S_Admitted, GateWakesS
  <2>2. /\ pcS[s] \in {"top", "woken"}
        /\ t_in_progress' = t_in_progress + 1 /\ physical_sem' = physical_sem
    BY <1>1 DEF S_Admitted, MayEnter, acquire_t_production, permitVars
  <2>3. /\ pcS' \in [S -> SPc]
        /\ pcS'[s] = IF ApiSolver THEN "solving" ELSE "physical"
        /\ \A x \in S \ {s} : /\ pcS'[x] = "physical" <=> pcS[x] = "physical"
                              /\ pcS'[x] = "solving" <=> pcS[x] = "solving"
                              /\ pcS'[x] = "slot" <=> pcS[x] = "slot"
    BY <1>0, <2>1, SMoves DEF SPc
  <2>4. SHolding' = SHolding /\ TLeases' = TLeases \cup {s} /\ s \notin TLeases
    BY <1>0, <2>2, <2>3 DEF SHolding, TLeases
  <2>5. Cardinality(TLeases \cup {s}) = l + 1
    BY <2>4, HoldersFinite, CardAdd
  <2>6. ApiSolver => \A x \in S : pcS'[x] # "physical"
    BY <1>0, <2>3
  <2> HIDE DEF l, h
  <2> QED
    BY <1>0, <2>2, <2>3, <2>4, <2>5, <2>6 DEF SBalance, TLeaseConservation
<1>2. CASE \/ S_Park(s) \/ S_Stop(s)
           \/ S_Cancel(s) /\ pcS[s] \notin {"physical", "solving", "slot"}
  <2>1. PICK to \in {"parked", "done"} : pcS' = [pcS EXCEPT ![s] = to]
    BY <1>2 DEF S_Park, S_Stop, S_Cancel
  <2>2. /\ pcS[s] \notin {"physical", "solving", "slot"}
        /\ t_in_progress' = t_in_progress /\ physical_sem' = physical_sem
    BY <1>2
    DEF S_Park, S_Stop, S_Cancel, RefuseT, MayEnter, permitVars, gateVars
  <2>3. /\ pcS' \in [S -> SPc] /\ SHolding' = SHolding /\ TLeases' = TLeases
        /\ \A x \in S : pcS'[x] = "physical" <=> pcS[x] = "physical"
    BY <1>0, <2>1, <2>2 DEF SPc, SHolding, TLeases
  <2> QED
    BY <1>0, <2>2, <2>3 DEF SBalance, TLeaseConservation
<1>3. CASE S_Physical(s)
  <2>1. /\ pcS' = [pcS EXCEPT ![s] = "solving"] /\ pcS[s] = "physical"
        /\ t_in_progress' = t_in_progress
        /\ physical_sem > 0 /\ physical_sem' = physical_sem - 1
    BY <1>3 DEF S_Physical, gateVars
  <2>2. ~ApiSolver /\ pcS' \in [S -> SPc]
    BY <1>0, <2>1 DEF SPc
  <2>3. /\ SHolding' = SHolding \cup {s} /\ s \notin SHolding
        /\ TLeases' = TLeases
    BY <1>0, <2>1, <2>2 DEF SHolding, TLeases
  <2>4. Cardinality(SHolding \cup {s}) = h + 1
    BY <2>3, HoldersFinite, CardAdd
  <2>5. /\ TLeaseConservation'
        /\ ApiSolver => \A x \in S : pcS'[x] # "physical"
    BY <1>0, <2>1, <2>2, <2>3 DEF TLeaseConservation
  <2>6. /\ physical_sem' \in Nat
        /\ physical_sem' + Cardinality(SHolding') = physical_sem + h
    <3> HIDE DEF h
    <3> QED
      BY <1>0, <2>1, <2>3, <2>4
  <2> QED
    BY <1>0, <2>1, <2>2, <2>3, <2>5, <2>6 DEF SBalance, TLeaseConservation
<1>4. ASSUME pcS[s] = "solving", NEW to \in {"top", "slot", "done"},
             \/ pcS' = [pcS EXCEPT ![s] = to]
             \/ pcS' = [Woken(pcS) EXCEPT ![s] = to],
             physical_sem' = physical_sem + SolverPermit,
             t_in_progress' = IF to = "slot" THEN t_in_progress
                              ELSE t_in_progress - 1
      PROVE  SBalance
  <2>1. /\ pcS' \in [S -> SPc] /\ pcS'[s] = to
        /\ \A x \in S \ {s} : /\ pcS'[x] = "physical" <=> pcS[x] = "physical"
                              /\ pcS'[x] = "solving" <=> pcS[x] = "solving"
                              /\ pcS'[x] = "slot" <=> pcS[x] = "slot"
    BY <1>0, <1>4, SMoves DEF SPc
  <2>2. /\ TLeases' = IF to = "slot" THEN TLeases ELSE TLeases \ {s}
        /\ s \in TLeases
    BY <1>4, <2>1 DEF TLeases
  <2>3. l > 0 /\ Cardinality(TLeases \ {s}) = l - 1
    BY <2>2, HoldersFinite, CardLeave
  <2>4. physical_sem' + Cardinality(SHolding') = physical_sem + h
    <3>1. CASE ApiSolver
      BY <1>0, <1>4, <3>1 DEF SHolding, SolverPermit
    <3>2. CASE ~ApiSolver
      <4>1. SHolding' = SHolding \ {s} /\ s \in SHolding
        BY <1>4, <2>1, <3>2 DEF SHolding
      <4>2. h > 0 /\ Cardinality(SHolding \ {s}) = h - 1
        BY <4>1, HoldersFinite, CardLeave
      <4> HIDE DEF h
      <4> QED
        BY <1>0, <1>4, <3>2, <4>1, <4>2 DEF SolverPermit
    <3> QED
      BY <3>1, <3>2
  <2>5. physical_sem' \in Nat
    BY <1>0, <1>4 DEF SolverPermit
  <2>6. TLeaseConservation'
    <3> HIDE DEF l
    <3> QED
      BY <1>0, <1>4, <2>2, <2>3 DEF TLeaseConservation, l
  <2>7. ApiSolver => \A x \in S : pcS'[x] # "physical"
    BY <1>0, <1>4, <2>1
  <2> QED
    BY <2>1, <2>4, <2>5, <2>6, <2>7 DEF SBalance
<1>5. CASE \/ S_Solved(s) \/ S_NoToken(s)
           \/ S_Cancel(s) /\ pcS[s] = "solving"
  BY <1>4, <1>5
  DEF S_Solved, S_NoToken, S_Cancel, GateWakesS, release_t, gateVars
<1>6. CASE \/ S_Stock(s) \/ S_StockExpired(s)
           \/ S_Cancel(s) /\ pcS[s] \in {"physical", "slot"}
  <2>1. PICK to \in {"top", "done"} : pcS' = [Woken(pcS) EXCEPT ![s] = to]
    BY <1>6 DEF S_Stock, S_StockExpired, S_Cancel, GateWakesS
  <2>2. /\ pcS[s] \in {"physical", "slot"}
        /\ t_in_progress' = t_in_progress - 1 /\ physical_sem' = physical_sem
    BY <1>6 DEF S_Stock, S_StockExpired, S_Cancel, release_t, permitVars
  <2>3. /\ pcS' \in [S -> SPc] /\ pcS'[s] = to
        /\ \A x \in S \ {s} : /\ pcS'[x] = "physical" <=> pcS[x] = "physical"
                              /\ pcS'[x] = "solving" <=> pcS[x] = "solving"
                              /\ pcS'[x] = "slot" <=> pcS[x] = "slot"
    BY <1>0, <2>1, SMoves DEF SPc
  <2>4. SHolding' = SHolding /\ TLeases' = TLeases \ {s} /\ s \in TLeases
    BY <2>2, <2>3 DEF SHolding, TLeases
  <2>5. l > 0 /\ Cardinality(TLeases \ {s}) = l - 1
    BY <2>4, HoldersFinite, CardLeave
  <2>6. ApiSolver => \A x \in S : pcS'[x] # "physical"
    BY <1>0, <2>3
  <2> HIDE DEF l, h
  <2> QED
    BY <1>0, <2>2, <2>3, <2>4, <2>5, <2>6 DEF SBalance, TLeaseConservation, h
<1> QED
  BY <1>1, <1>2, <1>3, <1>5, <1>6 DEF SStep, S_Cancel

----------------------------------------------------------------------------
(* P workers.                                                               *)

PBalance ==
  /\ physical_sem' \in Nat /\ p_send_sem' \in Nat
  /\ physical_sem' + Cardinality(PHolding') = physical_sem + Cardinality(PHolding)
  /\ p_send_sem' + Cardinality(PSending') = p_send_sem + Cardinality(PSending)

\* p goes to "to" and everyone else is at most woken.
LEMMA PMoves ==
  ASSUME pcP \in [P -> PPc], NEW p \in P, NEW to \in PPc,
         \/ pcP' = [pcP EXCEPT ![p] = to]
         \/ pcP' = [Woken(pcP) EXCEPT ![p] = to]
  PROVE  /\ pcP'[p] = to
         /\ \A x \in P \ {p} : /\ pcP'[x] = "physical" <=> pcP[x] = "physical"
                               /\ pcP'[x] = "sending" <=> pcP[x] = "sending"
BY DEF Woken, PPc

\* No permit changes hands.
LEMMA PBalanceIdle ==
  ASSUME PermitPart, pcP \in [P -> PPc], NEW p \in P, NEW to \in PPc,
         \/ pcP' = [pcP EXCEPT ![p] = to]
         \/ pcP' = [Woken(pcP) EXCEPT ![p] = to],
         pcP[p] \notin {"physical", "sending"}, to \notin {"physical", "sending"},
         UNCHANGED <<physical_sem, p_send_sem>>
  PROVE  PBalance
<1>1. PHolding' = PHolding /\ PSending' = PSending
  BY PMoves DEF PHolding, PSending
<1> QED
  BY <1>1 DEF PermitPart, PBalance

\* The send is over or cut short: whatever p holds goes back.
LEMMA PBalanceGiveBack ==
  ASSUME PermitPart, pcP \in [P -> PPc], NEW p \in P, NEW to \in PPc,
         \/ pcP' = [pcP EXCEPT ![p] = to]
         \/ pcP' = [Woken(pcP) EXCEPT ![p] = to],
         to \notin {"physical", "sending"},
         p_send_sem' = IF pcP[p] \in {"physical", "sending"} THEN p_send_sem + 1
                       ELSE p_send_sem,
         physical_sem' = IF pcP[p] = "sending" THEN physical_sem + 1
                         ELSE physical_sem
  PROVE  PBalance
<1>1. /\ pcP'[p] = to
      /\ \A x \in P \ {p} : /\ pcP'[x] = "physical" <=> pcP[x] = "physical"
                            /\ pcP'[x] = "sending" <=> pcP[x] = "sending"
  BY PMoves
<1>2. PHolding' = PHolding \ {p} /\ PSending' = PSending \ {p}
  BY <1>1 DEF PHolding, PSending
<1>3. physical_sem \in Nat /\ p_send_sem \in Nat
  BY DEF PermitPart
<1>4. /\ p \in PHolding => Cardinality(PHolding \ {p}) = Cardinality(PHolding) - 1
      /\ p \notin PHolding => PHolding \ {p} = PHolding
      /\ p \in PHolding <=> pcP[p] = "sending"
  BY HoldersFinite, CardLeave DEF PHolding
<1>5. /\ p \in PSending => Cardinality(PSending \ {p}) = Cardinality(PSending) - 1
      /\ p \notin PSending => PSending \ {p} = PSending
      /\ p \in PSending <=> pcP[p] \in {"physical", "sending"}
  BY HoldersFinite, CardLeave DEF PSending
<1>6. /\ physical_sem' \in Nat
      /\ physical_sem' + Cardinality(PHolding')
           = physical_sem + Cardinality(PHolding)
  <2>1. CASE p \in PHolding
    BY <1>2, <1>3, <1>4, <2>1, HoldersFinite
  <2>2. CASE p \notin PHolding
    BY <1>2, <1>3, <1>4, <2>2, HoldersFinite
  <2> QED
    BY <2>1, <2>2
<1>7. /\ p_send_sem' \in Nat
      /\ p_send_sem' + Cardinality(PSending') = p_send_sem + Cardinality(PSending)
  <2>1. CASE p \in PSending
    BY <1>2, <1>3, <1>5, <2>1, HoldersFinite
  <2>2. CASE p \notin PSending
    BY <1>2, <1>3, <1>5, <2>2, HoldersFinite
  <2> QED
    BY <2>1, <2>2
<1> QED
  BY <1>6, <1>7 DEF PBalance

LEMMA PBalanceStep ==
  ASSUME PermitPart, RequestPart, NEW p \in P, PStep(p)
  PROVE  PBalance
<1>0. pcP \in [P -> PPc] /\ physical_sem \in Nat /\ p_send_sem \in Nat
  BY DEF RequestPart, PermitPart
<1>1. CASE P_AcquireSend(p)
  <2>1. /\ pcP[p] = "p_send" /\ pcP' = [pcP EXCEPT ![p] = "physical"]
        /\ p_send_sem > 0 /\ p_send_sem' = p_send_sem - 1
        /\ physical_sem' = physical_sem
    BY <1>1 DEF P_AcquireSend
  <2>2. /\ PSending' = PSending \cup {p} /\ p \notin PSending
        /\ PHolding' = PHolding
    BY <1>0, <2>1 DEF PSending, PHolding
  <2>3. Cardinality(PSending \cup {p}) = Cardinality(PSending) + 1
    BY <2>2, HoldersFinite, CardAdd
  <2>4. /\ p_send_sem' \in Nat
        /\ p_send_sem' + Cardinality(PSending') = p_send_sem + Cardinality(PSending)
    BY <1>0, <2>1, <2>2, <2>3, HoldersFinite
  <2> QED
    BY <1>0, <2>1, <2>2, <2>4 DEF PBalance
<1>2. CASE P_Physical(p)
  <2>1. /\ pcP[p] = "physical" /\ pcP' = [pcP EXCEPT ![p] = "sending"]
        /\ physical_sem > 0 /\ physical_sem' = physical_sem - 1
        /\ p_send_sem' = p_send_sem
    BY <1>2 DEF P_Physical
  <2>2. /\ PHolding' = PHolding \cup {p} /\ p \notin PHolding
        /\ PSending' = PSending
    BY <1>0, <2>1 DEF PSending, PHolding
  <2>3. Cardinality(PHolding \cup {p}) = Cardinality(PHolding) + 1
    BY <2>2, HoldersFinite, CardAdd
  <2>4. /\ physical_sem' \in Nat
        /\ physical_sem' + Cardinality(PHolding')
             = physical_sem + Cardinality(PHolding)
    BY <1>0, <2>1, <2>2, <2>3, HoldersFinite
  <2> QED
    BY <1>0, <2>1, <2>2, <2>4 DEF PBalance
<1>3. CASE P_Sent(p)
  <2>1. PICK to \in {"top", "settling"} :
          \/ pcP' = [pcP EXCEPT ![p] = to]
          \/ pcP' = [Woken(pcP) EXCEPT ![p] = to]
    BY <1>3 DEF P_Sent, GateWakesP
  <2>2. to \in PPc /\ to \notin {"physical", "sending"}
    BY DEF PPc
  <2> QED
    BY <1>0, <1>3, <2>1, <2>2, PBalanceGiveBack DEF P_Sent
<1>4. CASE P_CancelOwning(p)
  <2>1. "done" \in PPc /\ "done" \notin {"physical", "sending"}
    BY DEF PPc
  <2> QED
    BY <1>0, <1>4, <2>1, PBalanceGiveBack DEF P_CancelOwning, GateWakesP
<1>5. CASE \/ P_Admitted(p) \/ P_Park(p) \/ P_AcquirePending(p)
           \/ P_EmailCreated(p) \/ P_EmailFailed(p) \/ P_Settled(p)
           \/ P_Stop(p) \/ P_CancelAcquiring(p) \/ P_CancelIdle(p)
  <2>1. PICK to \in PPc \ {"physical", "sending"} :
          \/ pcP' = [pcP EXCEPT ![p] = to]
          \/ pcP' = [Woken(pcP) EXCEPT ![p] = to]
    BY <1>5
    DEF P_Admitted, P_Park, P_AcquirePending, P_EmailCreated, P_EmailFailed,
        P_Settled, P_Stop, P_CancelAcquiring, P_CancelIdle, GateWakesP,
        AfterEmail, PPc
  <2>2. /\ pcP[p] \notin {"physical", "sending"}
        /\ UNCHANGED <<physical_sem, p_send_sem>>
    BY <1>5
    DEF P_Admitted, P_Park, P_AcquirePending, P_EmailCreated, P_EmailFailed,
        P_Settled, P_Stop, P_CancelAcquiring, P_CancelIdle, MayEnter, permitVars
  <2> QED
    BY <1>0, <2>1, <2>2, PBalanceIdle
<1> QED
  BY <1>1, <1>2, <1>3, <1>4, <1>5 DEF PStep

\* A P worker touches no request that is being sent again.
LEMMA PKeepsResends ==
  ASSUME RequestPart, NEW p \in P, PStep(p)
  PROVE  Resending' = Resending /\ Resends' = Resends
<1>0. st \in [Req -> ReqState] /\ pcP \in [P -> PPc]
  BY DEF RequestPart
<1>1. \A r \in Req : r \in batch[p] /\ pcP[p] \notin {"settling"}
                     => st[r] \notin {"resending", "resendPhysical"}
  BY <1>0, BatchPlace DEF BatchState
<1>2. CASE P_Admitted(p)
  <2>1. PICK R \in SUBSET In({"free"}) :
          st' = [r \in Req |-> IF r \in R THEN "reserved" ELSE st[r]]
    BY <1>2 DEF P_Admitted
  <2> QED
    BY <1>0, <2>1 DEF Resending, Resends, In
<1>3. CASE P_AcquirePending(p) \/ P_EmailCreated(p) \/ P_EmailFailed(p)
  <2>1. PICK r \in batch[p], to \in {"pending", "created", "free"} :
          st[r] \in {"reserved", "pending"} /\ st' = [st EXCEPT ![r] = to]
    BY <1>3 DEF P_AcquirePending, P_EmailCreated, P_EmailFailed
  <2> QED
    BY <1>0, <2>1 DEF Resending, Resends, In
<1>4. CASE P_Sent(p) \/ P_CancelAcquiring(p) \/ P_CancelOwning(p)
  <2>1. \A r \in Req :
           \/ st'[r] = st[r]
           \/ r \in batch[p] /\ st'[r] \in {"polling", "free", "leaked"}
    BY <1>0, <1>4 DEF P_Sent, P_CancelAcquiring, P_CancelOwning
  <2>2. pcP[p] # "settling"
    BY <1>4 DEF P_Sent, P_CancelAcquiring, P_CancelOwning
  <2> QED
    BY <1>1, <2>1, <2>2 DEF Resending, Resends, In
<1>5. CASE \/ P_Park(p) \/ P_AcquireSend(p) \/ P_Physical(p) \/ P_Settled(p)
           \/ P_Stop(p) \/ P_CancelIdle(p)
  BY <1>5
  DEF P_Park, P_AcquireSend, P_Physical, P_Settled, P_Stop, P_CancelIdle,
      requestVars, Resending, Resends, In
<1> QED
  BY <1>2, <1>3, <1>4, <1>5 DEF PStep

----------------------------------------------------------------------------
(* C workers.                                                               *)

CBalance ==
  /\ physical_sem' \in Nat
  /\ physical_sem' + Cardinality(CHolding') = physical_sem + Cardinality(CHolding)

\* c goes to "to" and everyone else is at most woken.
LEMMA CMoves ==
  ASSUME pcC \in [C -> CPc], NEW c \in C, NEW to \in CPc,
         \/ pcC' = [pcC EXCEPT ![c] = to]
         \/ pcC' = [Woken(pcC) EXCEPT ![c] = to]
  PROVE  /\ pcC'[c] = to
         /\ \A x \in C \ {c} :
               /\ pcC'[x] = "verifying" <=> pcC[x] = "verifying"
               /\ pcC'[x] = "submitting" <=> pcC[x] = "submitting"
BY DEF Woken, CPc

\* Whatever permit c holds goes back.
LEMMA CBalanceGiveBack ==
  ASSUME PermitPart, pcC \in [C -> CPc], NEW c \in C, NEW to \in CPc,
         \/ pcC' = [pcC EXCEPT ![c] = to]
         \/ pcC' = [Woken(pcC) EXCEPT ![c] = to],
         to \notin {"verifying", "submitting"},
         physical_sem' = IF pcC[c] \in {"verifying", "submitting"}
                         THEN physical_sem + 1 ELSE physical_sem
  PROVE  CBalance
<1>1. CHolding' = CHolding \ {c}
  BY CMoves DEF CHolding
<1>2. physical_sem \in Nat
  BY DEF PermitPart
<1>3. c \in CHolding <=> pcC[c] \in {"verifying", "submitting"}
  BY DEF CHolding
<1>4. CASE c \in CHolding
  <2>1. Cardinality(CHolding \ {c}) = Cardinality(CHolding) - 1
    BY <1>4, HoldersFinite, CardLeave
  <2> QED
    BY <1>1, <1>2, <1>3, <1>4, <2>1, HoldersFinite DEF CBalance
<1>5. CASE c \notin CHolding
  <2>1. CHolding' = CHolding /\ physical_sem' = physical_sem
    BY <1>1, <1>3, <1>5
  <2> QED
    BY <1>2, <2>1 DEF CBalance
<1> QED
  BY <1>4, <1>5

LEMMA CBalanceStep ==
  ASSUME PermitPart, StockPart, NEW c \in C, CStep(c)
  PROVE  CBalance
<1>0. pcC \in [C -> CPc] /\ physical_sem \in Nat
  BY DEF StockPart, PermitPart
<1>1. CASE C_Physical(c)
  <2>1. /\ pcC[c] = "physical" /\ pcC' = [pcC EXCEPT ![c] = "verifying"]
        /\ physical_sem > 0 /\ physical_sem' = physical_sem - 1
    BY <1>1 DEF C_Physical
  <2>2. CHolding' = CHolding \cup {c} /\ c \notin CHolding
    BY <1>0, <2>1 DEF CHolding
  <2>3. Cardinality(CHolding \cup {c}) = Cardinality(CHolding) + 1
    BY <2>2, HoldersFinite, CardAdd
  <2> QED
    BY <1>0, <2>1, <2>2, <2>3, HoldersFinite DEF CBalance
<1>2. CASE C_Submit(c)
  <2>1. CHolding' = CHolding /\ physical_sem' = physical_sem
    BY <1>0, <1>2 DEF C_Submit, CHolding, permitVars
  <2> QED
    BY <1>0, <2>1 DEF CBalance
<1>3. CASE C_Registered(c) \/ C_Failed(c) \/ C_Cancel(c)
  <2>1. PICK to \in {"top", "done"} :
          \/ pcC' = [pcC EXCEPT ![c] = to]
          \/ pcC' = [Woken(pcC) EXCEPT ![c] = to]
    BY <1>3 DEF C_Registered, C_Failed, C_Cancel, ExitPair
  <2>2. to \in CPc /\ to \notin {"verifying", "submitting"}
    BY DEF CPc
  <2>3. physical_sem' = IF pcC[c] \in {"verifying", "submitting"}
                        THEN physical_sem + 1 ELSE physical_sem
    BY <1>3 DEF C_Registered, C_Failed, C_Cancel
  <2> QED
    BY <1>0, <2>1, <2>2, <2>3, CBalanceGiveBack
<1>4. CASE C_Claim(c) \/ C_Park(c) \/ C_Thawed(c) \/ C_Stop(c)
  <2>1. PICK to \in {"cooldown", "parked", "physical", "top", "done"} :
          \/ pcC' = [pcC EXCEPT ![c] = to]
          \/ pcC' = [Woken(pcC) EXCEPT ![c] = to]
    BY <1>4 DEF C_Claim, C_Park, C_Thawed, C_Stop, ExitPair
  <2>2. to \in CPc /\ to \notin {"verifying", "submitting"}
    BY DEF CPc
  <2>3. /\ pcC[c] \notin {"verifying", "submitting"}
        /\ physical_sem' = physical_sem
    BY <1>4 DEF C_Claim, C_Park, C_Thawed, C_Stop, MayEnter, permitVars
  <2> QED
    BY <1>0, <2>1, <2>2, <2>3, CBalanceGiveBack
<1> QED
  BY <1>1, <1>2, <1>3, <1>4 DEF CStep

----------------------------------------------------------------------------
(* The tasks of the requests.                                               *)

RBalance ==
  /\ physical_sem' \in Nat /\ p_send_sem' \in Nat
  /\ physical_sem' + Cardinality(Resending')
       = physical_sem + Cardinality(Resending)
  /\ p_send_sem' + Cardinality(Resends') = p_send_sem + Cardinality(Resends)

\* Whatever the task of r holds for sending again goes back.
LEMMA RBalanceGiveBack ==
  ASSUME PermitPart, RequestPart, NEW r \in Req, NEW to,
         to \notin {"resendPhysical", "resending"},
         st' = [st EXCEPT ![r] = to],
         p_send_sem' = IF st[r] \in {"resendPhysical", "resending"}
                       THEN p_send_sem + 1 ELSE p_send_sem,
         physical_sem' = IF st[r] = "resending" THEN physical_sem + 1
                         ELSE physical_sem
  PROVE  RBalance
<1>0. st \in [Req -> ReqState] /\ physical_sem \in Nat /\ p_send_sem \in Nat
  BY DEF RequestPart, PermitPart
<1>1. /\ Resending' = Resending \ {r} /\ Resends' = Resends \ {r}
      /\ r \in Resending <=> st[r] = "resending"
      /\ r \in Resends <=> st[r] \in {"resendPhysical", "resending"}
  BY <1>0 DEF Resending, Resends, In
<1>2. /\ physical_sem' \in Nat
      /\ physical_sem' + Cardinality(Resending')
           = physical_sem + Cardinality(Resending)
  <2>1. CASE r \in Resending
    <3>1. Cardinality(Resending \ {r}) = Cardinality(Resending) - 1
      BY <2>1, HoldersFinite, CardLeave
    <3> QED
      BY <1>0, <1>1, <2>1, <3>1, HoldersFinite
  <2>2. CASE r \notin Resending
    <3>1. Resending' = Resending /\ physical_sem' = physical_sem
      BY <1>1, <2>2
    <3> QED
      BY <1>0, <3>1
  <2> QED
    BY <2>1, <2>2
<1>3. /\ p_send_sem' \in Nat
      /\ p_send_sem' + Cardinality(Resends') = p_send_sem + Cardinality(Resends)
  <2>1. CASE r \in Resends
    <3>1. Cardinality(Resends \ {r}) = Cardinality(Resends) - 1
      BY <2>1, HoldersFinite, CardLeave
    <3> QED
      BY <1>0, <1>1, <2>1, <3>1, HoldersFinite
  <2>2. CASE r \notin Resends
    <3>1. Resends' = Resends /\ p_send_sem' = p_send_sem
      BY <1>1, <2>2
    <3> QED
      BY <1>0, <3>1
  <2> QED
    BY <2>1, <2>2
<1> QED
  BY <1>2, <1>3 DEF RBalance

LEMMA RBalanceStep ==
  ASSUME PermitPart, RequestPart, NEW r \in Req, RStep(r) \/ R_StockExpired(r)
  PROVE  RBalance
<1>0. st \in [Req -> ReqState] /\ physical_sem \in Nat /\ p_send_sem \in Nat
  BY DEF RequestPart, PermitPart
<1>1. CASE R_AcquireSend(r)
  <2>1. /\ st[r] = "resend" /\ st' = [st EXCEPT ![r] = "resendPhysical"]
        /\ p_send_sem > 0 /\ p_send_sem' = p_send_sem - 1
        /\ physical_sem' = physical_sem
    BY <1>1 DEF R_AcquireSend
  <2>2. /\ Resends' = Resends \cup {r} /\ r \notin Resends
        /\ Resending' = Resending
    BY <1>0, <2>1 DEF Resends, Resending, In
  <2>3. Cardinality(Resends \cup {r}) = Cardinality(Resends) + 1
    BY <2>2, HoldersFinite, CardAdd
  <2>4. /\ p_send_sem' \in Nat
        /\ p_send_sem' + Cardinality(Resends') = p_send_sem + Cardinality(Resends)
    BY <1>0, <2>1, <2>2, <2>3, HoldersFinite
  <2> QED
    BY <1>0, <2>1, <2>2, <2>4 DEF RBalance
<1>2. CASE R_Physical(r)
  <2>1. /\ st[r] = "resendPhysical" /\ st' = [st EXCEPT ![r] = "resending"]
        /\ physical_sem > 0 /\ physical_sem' = physical_sem - 1
        /\ p_send_sem' = p_send_sem
    BY <1>2 DEF R_Physical
  <2>2. /\ Resending' = Resending \cup {r} /\ r \notin Resending
        /\ Resends' = Resends
    BY <1>0, <2>1 DEF Resends, Resending, In
  <2>3. Cardinality(Resending \cup {r}) = Cardinality(Resending) + 1
    BY <2>2, HoldersFinite, CardAdd
  <2>4. /\ physical_sem' \in Nat
        /\ physical_sem' + Cardinality(Resending')
             = physical_sem + Cardinality(Resending)
    BY <1>0, <2>1, <2>2, <2>3, HoldersFinite
  <2> QED
    BY <1>0, <2>1, <2>2, <2>4 DEF RBalance
<1>3. CASE R_Resent(r) \/ R_CancelPoll(r)
  <2>1. PICK to \in {"polling", "abandoned"} : st' = [st EXCEPT ![r] = to]
    BY <1>3 DEF R_Resent, R_CancelPoll
  <2>2. to \notin {"resendPhysical", "resending"}
    OBVIOUS
  <2>3. /\ p_send_sem' = IF st[r] \in {"resendPhysical", "resending"}
                         THEN p_send_sem + 1 ELSE p_send_sem
        /\ physical_sem' = IF st[r] = "resending" THEN physical_sem + 1
                           ELSE physical_sem
    BY <1>3 DEF R_Resent, R_CancelPoll
  <2> QED
    BY <2>1, <2>2, <2>3, RBalanceGiveBack
<1>4. CASE \/ R_NoCode(r) \/ R_PollRaised(r) \/ R_Resend(r)
           \/ R_CodeReturned(r) \/ R_Stock(r) \/ R_StockExpired(r)
           \/ R_CancelReturned(r)
  <2>1. PICK to \in {"free", "resend", "returned"} :
          st' = [st EXCEPT ![r] = to]
    BY <1>4
    DEF R_NoCode, R_PollRaised, R_Resend, R_CodeReturned, R_Stock,
        R_StockExpired, R_CancelReturned, Terminal
  <2>2. to \notin {"resendPhysical", "resending"}
    OBVIOUS
  <2>3. /\ st[r] \notin {"resendPhysical", "resending"}
        /\ p_send_sem' = p_send_sem /\ physical_sem' = physical_sem
    BY <1>4
    DEF R_NoCode, R_PollRaised, R_Resend, R_CodeReturned, R_Stock,
        R_StockExpired, R_CancelReturned, permitVars
  <2> QED
    BY <2>1, <2>2, <2>3, RBalanceGiveBack
<1> QED
  BY <1>1, <1>2, <1>3, <1>4 DEF RStep

\* A request's task gives a P worker no permit and takes none from it.
LEMMA RKeepsP ==
  ASSUME RequestPart, NEW r \in Req, RStep(r) \/ R_StockExpired(r)
  PROVE  PHolding' = PHolding /\ PSending' = PSending
<1>0. pcP \in [P -> PPc]
  BY DEF RequestPart
<1>1. CASE R_PollRaised(r)
  BY <1>0, <1>1 DEF R_PollRaised, Woken, PPc, PHolding, PSending
<1>2. CASE ~R_PollRaised(r)
  <2>1. pcP' = pcP \/ pcP' = Woken(pcP)
    BY <1>2
    DEF RStep, R_NoCode, R_Resend, R_AcquireSend, R_Physical, R_Resent,
        R_CodeReturned, R_Stock, R_StockExpired, R_CancelPoll,
        R_CancelReturned, workerVars
  <2> QED
    BY <1>0, <2>1, WokenKeepsP
<1> QED
  BY <1>1, <1>2

----------------------------------------------------------------------------
(* All steps together.                                                      *)

LEMMA PermitPartInit == Init => PermitPart
<1> SUFFICES ASSUME Init PROVE PermitPart
  OBVIOUS
<1>1. /\ SHolding = {} /\ PHolding = {} /\ CHolding = {} /\ PSending = {}
      /\ TLeases = {} /\ Resending = {} /\ Resends = {}
  BY DEF Init, SHolding, PHolding, CHolding, PSending, TLeases, Resending,
         Resends, In
<1>2. TLeaseConservation /\ PhysicalConservation /\ SendConservation
  <2>1. Cardinality({}) = 0
    BY FS_EmptySet
  <2>2. /\ t_in_progress = Cardinality(TLeases)
        /\ physical_sem + Cardinality(SHolding) + Cardinality(PHolding)
             + Cardinality(CHolding) + Cardinality(Resending) = PhysicalCap
        /\ p_send_sem + Cardinality(PSending) + Cardinality(Resends) = PSendCap
    BY <1>1, <2>1, PipelineAssumption DEF Init, GateInit
  <2> QED
    BY <2>2
    DEF TLeaseConservation, PhysicalConservation, SendConservation, Resending,
        Resends
<1> QED
  BY <1>2, PipelineAssumption DEF Init, PermitPart, SPc

\* If the holders of one kind balance and the others stand still, all do.
LEMMA PermitPartBalance ==
  ASSUME PermitPart, SBalance,
         physical_sem' \in Nat, p_send_sem' \in Nat,
         physical_sem' + Cardinality(SHolding') + Cardinality(PHolding')
             + Cardinality(CHolding') + Cardinality(Resending')
           = physical_sem + Cardinality(SHolding) + Cardinality(PHolding)
               + Cardinality(CHolding) + Cardinality(Resending),
         p_send_sem' + Cardinality(PSending') + Cardinality(Resends')
           = p_send_sem + Cardinality(PSending) + Cardinality(Resends)
  PROVE  PermitPart'
BY DEF PermitPart, SBalance, PhysicalConservation, SendConservation, Resending,
       Resends

\* The same for a step that moves no S worker.
LEMMA PermitPartOthers ==
  ASSUME PermitPart, pcS' = pcS \/ pcS' = Woken(pcS),
         t_in_progress' = t_in_progress,
         physical_sem' \in Nat, p_send_sem' \in Nat,
         physical_sem' + Cardinality(PHolding') + Cardinality(CHolding')
             + Cardinality(Resending')
           = physical_sem + Cardinality(PHolding) + Cardinality(CHolding)
               + Cardinality(Resending),
         p_send_sem' + Cardinality(PSending') + Cardinality(Resends')
           = p_send_sem + Cardinality(PSending) + Cardinality(Resends)
  PROVE  PermitPart'
<1>1. /\ pcS' \in [S -> SPc]
      /\ \A s \in S : pcS'[s] = "physical" <=> pcS[s] = "physical"
      /\ TLeases' = TLeases /\ SHolding' = SHolding
  BY WokenKeepsS DEF PermitPart
<1>2. TLeaseConservation'
  BY <1>1 DEF PermitPart, TLeaseConservation
<1>3. PhysicalConservation' /\ SendConservation'
  <2>1. /\ physical_sem + Cardinality(SHolding) + Cardinality(PHolding)
             + Cardinality(CHolding) + Cardinality(Resending) = PhysicalCap
        /\ p_send_sem + Cardinality(PSending) + Cardinality(Resends) = PSendCap
        /\ physical_sem \in Nat
    BY DEF PermitPart, PhysicalConservation, SendConservation, Resending,
           Resends
  <2>2. /\ Cardinality(PHolding') \in Nat /\ Cardinality(CHolding') \in Nat
        /\ Cardinality(Resending') \in Nat
    BY HoldersFiniteNext
  <2>3. /\ physical_sem' + Cardinality(SHolding') + Cardinality(PHolding')
             + Cardinality(CHolding') + Cardinality(Resending') = PhysicalCap
        /\ p_send_sem' + Cardinality(PSending') + Cardinality(Resends') = PSendCap
    BY <1>1, <2>1, <2>2, HoldersFinite
  <2> QED
    BY <2>3 DEF PhysicalConservation, SendConservation, Resending, Resends
<1> QED
  BY <1>1, <1>2, <1>3 DEF PermitPart

LEMMA PermitPartNext ==
  ASSUME PermitPart, RequestPart, StockPart, [Next]_vars
  PROVE  PermitPart'
<1>0. /\ pcP \in [P -> PPc] /\ pcC \in [C -> CPc]
      /\ physical_sem \in Nat /\ p_send_sem \in Nat
  BY DEF RequestPart, StockPart, PermitPart
<1>1. ASSUME NEW s \in S, SStep(s) \/ S_StockExpired(s)
      PROVE  PermitPart'
  <2>1. SBalance
    BY <1>1, SBalanceStep
  <2>2. /\ pcP' = pcP \/ pcP' = Woken(pcP)
        /\ pcC' = pcC \/ pcC' = Woken(pcC)
        /\ st' = st /\ p_send_sem' = p_send_sem
    BY <1>1
    DEF SStep, S_Admitted, S_Park, S_Physical, S_Solved, S_NoToken, S_Stock,
        S_StockExpired, S_Stop, S_Cancel, GateWakesS, permitVars, requestVars
  <2>3. /\ PHolding' = PHolding /\ PSending' = PSending
        /\ CHolding' = CHolding
    BY <1>0, <2>2, WokenKeepsP, WokenKeepsC
  <2>4. Resending' = Resending /\ Resends' = Resends
    BY <2>2 DEF Resending, Resends, In
  <2>5. physical_sem' + Cardinality(SHolding') + Cardinality(PHolding')
          + Cardinality(CHolding') + Cardinality(Resending')
        = physical_sem + Cardinality(SHolding) + Cardinality(PHolding)
            + Cardinality(CHolding) + Cardinality(Resending)
    BY <2>1, <2>3, <2>4 DEF SBalance
  <2>6. /\ physical_sem' \in Nat /\ p_send_sem' \in Nat
        /\ p_send_sem' + Cardinality(PSending') + Cardinality(Resends')
             = p_send_sem + Cardinality(PSending) + Cardinality(Resends)
    BY <1>0, <2>1, <2>2, <2>3, <2>4 DEF SBalance
  <2> QED
    BY <2>1, <2>5, <2>6, PermitPartBalance
<1>2. ASSUME NEW p \in P, PStep(p)
      PROVE  PermitPart'
  <2>1. PBalance /\ Resending' = Resending /\ Resends' = Resends
    BY <1>2, PBalanceStep, PKeepsResends
  <2>2. /\ pcS' = pcS \/ pcS' = Woken(pcS)
        /\ pcC' = pcC /\ t_in_progress' = t_in_progress
    BY <1>2
    DEF PStep, P_Admitted, P_Park, P_AcquirePending, P_EmailCreated,
        P_EmailFailed, P_AcquireSend, P_Physical, P_Sent, P_Settled, P_Stop,
        P_CancelAcquiring, P_CancelOwning, P_CancelIdle, GateWakesP,
        acquire_q_batch, RefuseQ, release_q, gateVars
  <2>3. CHolding' = CHolding
    BY <2>2 DEF CHolding
  <2>4. /\ physical_sem' \in Nat /\ p_send_sem' \in Nat
        /\ physical_sem' + Cardinality(PHolding') + Cardinality(CHolding')
             + Cardinality(Resending')
           = physical_sem + Cardinality(PHolding) + Cardinality(CHolding)
               + Cardinality(Resending)
        /\ p_send_sem' + Cardinality(PSending') + Cardinality(Resends')
             = p_send_sem + Cardinality(PSending) + Cardinality(Resends)
    BY <2>1, <2>3 DEF PBalance
  <2> QED
    BY <2>2, <2>4, PermitPartOthers
<1>3. ASSUME NEW r \in Req, RStep(r) \/ R_StockExpired(r)
      PROVE  PermitPart'
  <2>1. RBalance /\ PHolding' = PHolding /\ PSending' = PSending
    BY <1>3, RBalanceStep, RKeepsP
  <2>2. /\ pcS' = pcS \/ pcS' = Woken(pcS)
        /\ pcC' = pcC \/ pcC' = Woken(pcC)
        /\ t_in_progress' = t_in_progress
    BY <1>3
    DEF RStep, R_NoCode, R_PollRaised, R_Resend, R_AcquireSend, R_Physical,
        R_Resent, R_CodeReturned, R_Stock, R_StockExpired, R_CancelPoll,
        R_CancelReturned, Terminal, release_q, gateVars, workerVars
  <2>3. CHolding' = CHolding
    BY <1>0, <2>2, WokenKeepsC
  <2>4. /\ physical_sem' \in Nat /\ p_send_sem' \in Nat
        /\ physical_sem' + Cardinality(PHolding') + Cardinality(CHolding')
             + Cardinality(Resending')
           = physical_sem + Cardinality(PHolding) + Cardinality(CHolding)
               + Cardinality(Resending)
        /\ p_send_sem' + Cardinality(PSending') + Cardinality(Resends')
             = p_send_sem + Cardinality(PSending) + Cardinality(Resends)
    <3>1. /\ physical_sem' + Cardinality(Resending')
               = physical_sem + Cardinality(Resending)
          /\ p_send_sem' + Cardinality(Resends') = p_send_sem + Cardinality(Resends)
          /\ physical_sem' \in Nat /\ p_send_sem' \in Nat
      BY <2>1 DEF RBalance
    <3>2. Cardinality(Resending') \in Nat /\ Cardinality(Resends') \in Nat
      BY HoldersFiniteNext
    <3> QED
      BY <1>0, <2>1, <2>3, <3>1, <3>2, HoldersFinite
  <2> QED
    BY <2>2, <2>4, PermitPartOthers
<1>4. ASSUME NEW c \in C, CStep(c)
      PROVE  PermitPart'
  <2>1. CBalance
    BY <1>4, CBalanceStep
  <2>2. /\ pcS' = pcS \/ pcS' = Woken(pcS)
        /\ pcP' = pcP \/ pcP' = Woken(pcP)
        /\ st' = st /\ p_send_sem' = p_send_sem /\ t_in_progress' = t_in_progress
    BY <1>4
    DEF CStep, C_Claim, C_Park, C_Thawed, C_Physical, C_Submit, C_Registered,
        C_Failed, C_Stop, C_Cancel, permitVars, requestVars, gateVars
  <2>3. /\ PHolding' = PHolding /\ PSending' = PSending
        /\ Resending' = Resending /\ Resends' = Resends
    BY <1>0, <2>2, WokenKeepsP DEF Resending, Resends, In
  <2>4. /\ physical_sem' \in Nat /\ p_send_sem' \in Nat
        /\ physical_sem' + Cardinality(PHolding') + Cardinality(CHolding')
             + Cardinality(Resending')
           = physical_sem + Cardinality(PHolding) + Cardinality(CHolding)
               + Cardinality(Resending)
        /\ p_send_sem' + Cardinality(PSending') + Cardinality(Resends')
             = p_send_sem + Cardinality(PSending) + Cardinality(Resends)
    <3>1. Cardinality(CHolding') \in Nat
      BY HoldersFiniteNext
    <3> QED
      BY <1>0, <2>1, <2>2, <2>3, <3>1, HoldersFinite DEF CBalance
  <2> QED
    BY <2>2, <2>4, PermitPartOthers
<1>5. CASE ReachTarget \/ Interrupt \/ Expire \/ Terminated \/ UNCHANGED vars
  <2>1. UNCHANGED <<pcS, pcP, pcC, st, physical_sem, p_send_sem, t_in_progress>>
    BY <1>5
    DEF ReachTarget, Interrupt, Expire, Terminated, vars, workerVars,
        requestVars, permitVars, gateVars
  <2> QED
    BY <2>1
    DEF PermitPart, TLeaseConservation, TLeases, PhysicalConservation, SHolding,
        PHolding, CHolding, SendConservation, PSending, In
<1> QED
  BY <1>1, <1>2, <1>3, <1>4, <1>5 DEF Next, Work, Aging

LEMMA PermitPartAlways == Spec => [](PermitPart /\ RequestPart /\ StockPart)
<1>1. Init => PermitPart
  BY PermitPartInit
<1>2. PermitPart /\ RequestPart /\ StockPart /\ [Next]_vars => PermitPart'
  BY PermitPartNext
<1> QED
  BY <1>1, <1>2, RequestPartAlways, StockPartAlways, PTL DEF Spec

----------------------------------------------------------------------------
(* The watermarks.                                                          *)

LEMMA DepthsNat ==
  ASSUME StockPart
  PROVE  /\ IsFiniteSet(t_buf) /\ IsFiniteSet(q_buf)
         /\ t_depth \in Nat /\ q_depth \in Nat
BY StockFinite, FS_CardinalityType DEF StockPart, StockInv, t_depth, q_depth

\* A buffer that only loses envelopes is not deeper than before, and one that
\* gains an envelope at most by one.
LEMMA DepthShrinks ==
  ASSUME NEW A, IsFiniteSet(A), NEW B, B \subseteq A
  PROVE  Cardinality(B) \in Nat /\ Cardinality(B) =< Cardinality(A)
BY FS_Subset, FS_CardinalityType

LEMMA DepthGrows ==
  ASSUME NEW A, IsFiniteSet(A), NEW x, NEW B, B \subseteq A \cup {x}
  PROVE  Cardinality(B) \in Nat /\ Cardinality(B) =< Cardinality(A) + 1
<1>1. /\ IsFiniteSet(A \cup {x})
      /\ Cardinality(A \cup {x}) =< Cardinality(A) + 1
  <2>1. Cardinality(A) \in Nat
    BY FS_CardinalityType
  <2>2. /\ IsFiniteSet(A \cup {x})
        /\ Cardinality(A \cup {x}) = IF x \in A THEN Cardinality(A)
                                      ELSE Cardinality(A) + 1
    BY FS_AddElement
  <2> QED
    BY <2>1, <2>2
<1>2. /\ IsFiniteSet(B) /\ Cardinality(B) =< Cardinality(A \cup {x})
  BY <1>1, FS_Subset
<1> QED
  BY <1>1, <1>2, FS_CardinalityType

\* What each step may do to the T side of the gate's sum: reserve with room
\* to spare, stock at most one T for a reservation, or at most remove.
TSide ==
  \/ /\ TAdmits(t_depth)
     /\ t_buf' = t_buf /\ t_in_progress' = t_in_progress + 1
  \/ /\ \E t : t_buf' \subseteq t_buf \cup {t}
     /\ t_in_progress' = t_in_progress - 1
  \/ t_buf' \subseteq t_buf /\ t_in_progress' = t_in_progress

LEMMA TSideStep ==
  ASSUME StockPart, [Next]_vars
  PROVE  TSide
<1>1. ASSUME NEW s \in S, S_Admitted(s)
      PROVE  TSide
  BY <1>1 DEF S_Admitted, acquire_t_production, stockVars, TSide
<1>2. ASSUME NEW s \in S, S_Stock(s)
      PROVE  TSide
  BY <1>2 DEF S_Stock, put_t, FreshT, release_t, TSide
<1>3. ASSUME t_buf' = t_buf, t_in_progress' = t_in_progress - 1
      PROVE  TSide
  <2>1. \E t : t_buf' \subseteq t_buf \cup {t}
    BY <1>3
  <2> QED
    BY <1>3, <2>1, Zenon DEF TSide
<1>4. ASSUME t_buf' \subseteq t_buf, t_in_progress' = t_in_progress
      PROVE  TSide
  BY <1>4, Zenon DEF TSide
<1>5. ASSUME NEW p \in P, PStep(p)
      PROVE  t_buf' = t_buf /\ t_in_progress' = t_in_progress
  BY <1>5
  DEF PStep, P_Admitted, P_Park, P_AcquirePending, P_EmailCreated,
      P_EmailFailed, P_AcquireSend, P_Physical, P_Sent, P_Settled, P_Stop,
      P_CancelAcquiring, P_CancelOwning, P_CancelIdle, acquire_q_batch, RefuseQ,
      release_q, stockVars, gateVars
<1>6. ASSUME NEW r \in Req, RStep(r) \/ R_StockExpired(r)
      PROVE  t_buf' \subseteq t_buf /\ t_in_progress' = t_in_progress
  BY <1>6
  DEF RStep, R_NoCode, R_PollRaised, R_Resend, R_AcquireSend, R_Physical,
      R_Resent, R_CodeReturned, R_Stock, R_StockExpired, R_CancelPoll,
      R_CancelReturned, Terminal, release_q, put_q, put_q_expired, FreshT,
      stockVars, gateVars
<1>7. ASSUME NEW c \in C, CStep(c)
      PROVE  t_buf' \subseteq t_buf /\ t_in_progress' = t_in_progress
  BY <1>7
  DEF CStep, C_Claim, C_Park, C_Thawed, C_Physical, C_Submit, C_Registered,
      C_Failed, C_Stop, C_Cancel, ExitPair, settle, claim_pair, claim_nothing,
      FreshT, stockVars, gateVars
<1>8. ASSUME ReachTarget \/ Interrupt \/ Expire \/ Terminated \/ UNCHANGED vars
      PROVE  t_buf' \subseteq t_buf /\ t_in_progress' = t_in_progress
  BY <1>8 DEF ReachTarget, Interrupt, Expire, Age, Terminated, vars, stockVars,
              gateVars
<1>9. ASSUME NEW s \in S, \/ S_NoToken(s) \/ S_StockExpired(s)
                         \/ S_Cancel(s) \/ S_Park(s) \/ S_Physical(s)
                         \/ S_Solved(s) \/ S_Stop(s)
      PROVE  /\ t_buf' = t_buf
             /\ t_in_progress' \in {t_in_progress, t_in_progress - 1}
  BY <1>9
  DEF S_NoToken, S_StockExpired, S_Cancel, S_Park, RefuseT, S_Physical, S_Solved,
      S_Stop, put_t_expired, release_t, stockVars, gateVars
<1>10. ASSUME t_buf' = t_buf, t_in_progress' \in {t_in_progress, t_in_progress - 1}
       PROVE  TSide
  BY <1>3, <1>4, <1>10
<1>11. ASSUME NEW s \in S, SStep(s) \/ S_StockExpired(s)
       PROVE  TSide
  <2>1. CASE S_Admitted(s) \/ S_Stock(s)
    BY <1>1, <1>2, <2>1, Zenon
  <2>2. CASE \/ S_NoToken(s) \/ S_StockExpired(s)
             \/ S_Cancel(s) \/ S_Park(s) \/ S_Physical(s)
             \/ S_Solved(s) \/ S_Stop(s)
    <3>1. /\ t_buf' = t_buf
          /\ t_in_progress' \in {t_in_progress, t_in_progress - 1}
      BY <1>9, <2>2, Zenon
    <3> QED
      BY <1>10, <3>1, Zenon
  <2> QED
    BY <1>11, <2>1, <2>2 DEF SStep
<1>12. ASSUME \/ \E p \in P : PStep(p)
              \/ \E r \in Req : RStep(r) \/ R_StockExpired(r)
              \/ \E c \in C : CStep(c)
              \/ ReachTarget \/ Interrupt \/ Expire \/ Terminated
              \/ UNCHANGED vars
       PROVE  TSide
  <2>1. t_buf' \subseteq t_buf /\ t_in_progress' = t_in_progress
    BY <1>5, <1>6, <1>7, <1>8, <1>12
  <2> QED
    BY <1>4, <2>1
<1> QED
  BY <1>11, <1>12 DEF Next, Work, Aging

\* The same for the Q side.
LEMMA QSideStep ==
  ASSUME StockPart, RequestPart, [Next]_vars
  PROVE  \/ /\ QAdmits(q_depth)
            /\ q_buf' = q_buf
            /\ q_inflight' = q_inflight + QGrant(q_depth, MaxBatch)
         \/ /\ \E q : q_buf' \subseteq q_buf \cup {q}
            /\ q_inflight' = q_inflight - 1
         \/ q_buf' \subseteq q_buf /\ q_inflight' =< q_inflight
<1>0. q_inflight \in Nat /\ RequestPart'
  BY RequestPartNext DEF RequestPart
<1>1. ASSUME NEW p \in P, P_Admitted(p)
      PROVE  /\ QAdmits(q_depth)
             /\ q_buf' = q_buf
             /\ q_inflight' = q_inflight + QGrant(q_depth, MaxBatch)
  BY <1>1 DEF P_Admitted, acquire_q_batch, stockVars
<1>2. ASSUME NEW r \in Req, R_Stock(r)
      PROVE  /\ \E q : q_buf' \subseteq q_buf \cup {q}
             /\ q_inflight' = q_inflight - 1
  BY <1>2 DEF R_Stock, put_q, FreshQ, Terminal, release_q
<1>3. ASSUME NEW p \in P,
             \/ P_EmailFailed(p) \/ P_Sent(p) \/ P_CancelOwning(p)
      PROVE  q_buf' \subseteq q_buf /\ q_inflight' =< q_inflight
  <2>1. PICK R \in SUBSET Req : q_inflight' = q_inflight - Cardinality(R)
                                \/ q_inflight' = q_inflight - 1
    BY <1>3 DEF P_EmailFailed, P_Sent, P_CancelOwning, release_q, RequestPart
  <2>2. Cardinality(R) \in Nat
    BY RequestsFinite
  <2>3. q_buf' = q_buf
    BY <1>3 DEF P_EmailFailed, P_Sent, P_CancelOwning, stockVars
  <2> QED
    BY <1>0, <2>1, <2>2, <2>3
<1>4. ASSUME NEW p \in P,
             \/ P_Park(p) \/ P_AcquirePending(p) \/ P_EmailCreated(p)
             \/ P_AcquireSend(p) \/ P_Physical(p) \/ P_Settled(p) \/ P_Stop(p)
             \/ P_CancelAcquiring(p) \/ P_CancelIdle(p)
      PROVE  q_buf' = q_buf /\ q_inflight' = q_inflight
  BY <1>4
  DEF P_Park, P_AcquirePending, P_EmailCreated, P_AcquireSend, P_Physical,
      P_Settled, P_Stop, P_CancelAcquiring, P_CancelIdle, RefuseQ, stockVars,
      gateVars
<1>5. ASSUME NEW r \in Req, RStep(r) \/ R_StockExpired(r), ~R_Stock(r)
      PROVE  q_buf' = q_buf /\ q_inflight' \in {q_inflight, q_inflight - 1}
  BY <1>5
  DEF RStep, R_NoCode, R_PollRaised, R_Resend, R_AcquireSend, R_Physical,
      R_Resent, R_CodeReturned, R_StockExpired, R_CancelPoll,
      R_CancelReturned, Terminal, release_q, put_q_expired, stockVars, gateVars
<1>6. ASSUME NEW s \in S, SStep(s) \/ S_StockExpired(s)
      PROVE  q_buf' \subseteq q_buf /\ q_inflight' = q_inflight
  BY <1>6
  DEF SStep, S_Admitted, S_Park, S_Physical, S_Solved, S_NoToken, S_Stock,
      S_StockExpired, S_Stop, S_Cancel, acquire_t_production, RefuseT, release_t,
      put_t, put_t_expired, FreshQ, stockVars, gateVars
<1>7. ASSUME NEW c \in C, CStep(c)
      PROVE  q_buf' \subseteq q_buf /\ q_inflight' = q_inflight
  BY <1>7
  DEF CStep, C_Claim, C_Park, C_Thawed, C_Physical, C_Submit, C_Registered,
      C_Failed, C_Stop, C_Cancel, ExitPair, settle, claim_pair, claim_nothing,
      FreshQ, stockVars, gateVars
<1>8. CASE ReachTarget \/ Interrupt \/ Expire \/ Terminated \/ UNCHANGED vars
  <2>1. q_buf' = q_buf /\ q_inflight' = q_inflight
    BY <1>8 DEF ReachTarget, Interrupt, Expire, Age, Terminated, vars,
                stockVars, gateVars
  <2> QED
    BY <1>0, <2>1
<1>9. ASSUME q_buf' \subseteq q_buf, q_inflight' \in {q_inflight, q_inflight - 1}
      PROVE  q_buf' \subseteq q_buf /\ q_inflight' =< q_inflight
  BY <1>0, <1>9
<1>10. CASE \E p \in P : PStep(p)
  <2>1. PICK p \in P : PStep(p)
    BY <1>10
  <2>2. CASE P_Admitted(p)
    BY <1>1, <2>2, Zenon
  <2>3. CASE ~P_Admitted(p)
    <3>1. q_buf' \subseteq q_buf /\ q_inflight' =< q_inflight
      BY <1>3, <1>4, <1>9, <2>1, <2>3 DEF PStep
    <3> QED
      BY <3>1, Zenon
  <2> QED
    BY <2>2, <2>3, Zenon
<1>11. CASE \E r \in Req : RStep(r) \/ R_StockExpired(r)
  <2>1. PICK r \in Req : RStep(r) \/ R_StockExpired(r)
    BY <1>11
  <2>2. CASE R_Stock(r)
    BY <1>2, <2>2, Zenon
  <2>3. CASE ~R_Stock(r)
    <3>1. q_buf' \subseteq q_buf /\ q_inflight' =< q_inflight
      BY <1>5, <1>9, <2>1, <2>3
    <3> QED
      BY <3>1, Zenon
  <2> QED
    BY <2>2, <2>3, Zenon
<1>12. CASE \/ \E s \in S : SStep(s) \/ S_StockExpired(s)
            \/ \E c \in C : CStep(c)
  <2>1. q_buf' \subseteq q_buf /\ q_inflight' =< q_inflight
    BY <1>6, <1>7, <1>9, <1>12
  <2> QED
    BY <2>1, Zenon
<1> QED
  BY <1>8, <1>10, <1>11, <1>12 DEF Next, Work, Aging

LEMMA WatermarksNext ==
  ASSUME PermitPart, RequestPart, StockPart, WithinWatermarks, [Next]_vars
  PROVE  WithinWatermarks'
<1>0. /\ t_depth \in Nat /\ q_depth \in Nat
      /\ t_in_progress \in Nat /\ q_inflight \in Nat
      /\ THigh \in Nat /\ QHigh \in Nat /\ MaxBatch \in Nat
  BY DepthsNat, HoldersFinite, WatermarkAssumption, PipelineAssumption
  DEF PermitPart, TLeaseConservation, RequestPart
<1>3. t_depth + t_in_progress =< THigh /\ q_depth + q_inflight =< QHigh
  BY DEF WithinWatermarks
<1>4. PICK td \in Nat, tp \in Nat, qd \in Nat, qp \in Nat :
        /\ td = t_depth /\ tp = t_in_progress
        /\ qd = q_depth /\ qp = q_inflight
  BY <1>0
<1>5. td + tp =< THigh /\ qd + qp =< QHigh
  BY <1>3, <1>4
<1>6. THigh \in Nat /\ QHigh \in Nat
  BY <1>0
<1>1. t_depth' + t_in_progress' =< THigh
  <2>1. CASE /\ TAdmits(t_depth)
             /\ t_buf' = t_buf /\ t_in_progress' = t_in_progress + 1
    <3>1. t_depth' = t_depth
      BY <2>1 DEF t_depth
    <3> QED
      BY <1>0, <2>1, <3>1 DEF TAdmits
  <2>2. CASE /\ \E t : t_buf' \subseteq t_buf \cup {t}
             /\ t_in_progress' = t_in_progress - 1
    <3>1. t_depth' \in Nat /\ t_depth' =< t_depth + 1
      BY <2>2, DepthsNat, DepthGrows DEF t_depth
    <3>2. PICK d \in Nat : d = t_depth'
      BY <3>1
    <3>3. PICK n \in Int : n = t_in_progress'
      BY <1>0, <2>2
    <3>6. n = tp - 1
      BY <1>4, <2>2, <3>3
    <3>4. d =< td + 1
      BY <1>4, <3>1, <3>2
    <3>5. d + n =< THigh
      BY <1>5, <1>6, <3>4, <3>6
    <3> QED
      BY <3>2, <3>3, <3>5
  <2>3. CASE t_buf' \subseteq t_buf /\ t_in_progress' = t_in_progress
    <3>1. t_depth' \in Nat /\ t_depth' =< t_depth
      BY <2>3, DepthsNat, DepthShrinks DEF t_depth
    <3>2. PICK d \in Nat : d = t_depth'
      BY <3>1
    <3>3. PICK n \in Nat : n = t_in_progress'
      BY <1>0, <2>3
    <3>6. n =< tp
      BY <1>4, <2>3, <3>3
    <3>4. d =< td
      BY <1>4, <3>1, <3>2
    <3>5. d + n =< THigh
      BY <1>5, <1>6, <3>4, <3>6
    <3> QED
      BY <3>2, <3>3, <3>5
  <2> QED
    BY <2>1, <2>2, <2>3, TSideStep, Zenon DEF TSide
<1>2. q_depth' + q_inflight' =< QHigh
  <2>1. CASE /\ QAdmits(q_depth)
             /\ q_buf' = q_buf
             /\ q_inflight' = q_inflight + QGrant(q_depth, MaxBatch)
    <3>1. q_depth' = q_depth
      BY <2>1 DEF q_depth
    <3> QED
      BY <1>0, <2>1, <3>1 DEF QAdmits, QGrant
  <2>2. CASE /\ \E q : q_buf' \subseteq q_buf \cup {q}
             /\ q_inflight' = q_inflight - 1
    <3>1. q_depth' \in Nat /\ q_depth' =< q_depth + 1
      BY <2>2, DepthsNat, DepthGrows DEF q_depth
    <3>2. PICK d \in Nat : d = q_depth'
      BY <3>1
    <3>3. PICK n \in Int : n = q_inflight'
      BY <1>0, <2>2
    <3>6. n = qp - 1
      BY <1>4, <2>2, <3>3
    <3>4. d =< qd + 1
      BY <1>4, <3>1, <3>2
    <3>5. d + n =< QHigh
      BY <1>5, <1>6, <3>4, <3>6
    <3> QED
      BY <3>2, <3>3, <3>5
  <2>3. CASE q_buf' \subseteq q_buf /\ q_inflight' =< q_inflight
    <3>1. q_depth' \in Nat /\ q_depth' =< q_depth
      BY <2>3, DepthsNat, DepthShrinks DEF q_depth
    <3>2. PICK d \in Nat : d = q_depth'
      BY <3>1
    <3>3. PICK n \in Nat : n = q_inflight'
      BY <1>0, <2>3, RequestPartNext DEF RequestPart
    <3>6. n =< qp
      BY <1>4, <2>3, <3>3
    <3>4. d =< qd
      BY <1>4, <3>1, <3>2
    <3>5. d + n =< QHigh
      BY <1>5, <1>6, <3>4, <3>6
    <3> QED
      BY <3>2, <3>3, <3>5
  <2> QED
    BY <2>1, <2>2, <2>3, QSideStep
<1> QED
  BY <1>1, <1>2 DEF WithinWatermarks

LEMMA WatermarksInit == Init => WithinWatermarks
<1> SUFFICES ASSUME Init PROVE WithinWatermarks
  OBVIOUS
<1>1. t_depth = 0 /\ q_depth = 0
  BY FS_EmptySet DEF Init, InventoryInit, t_depth, q_depth
<1> QED
  BY <1>1, WatermarkAssumption DEF Init, GateInit, WithinWatermarks

----------------------------------------------------------------------------
(* No worker waits in _acquire_many.                                        *)

\* A worker that is acquiring still has a request without its permit.
ReservedLeft ==
  \A p \in P : pcP[p] = "pending" => \E r \in batch[p] : st[r] = "reserved"

\* A worker that was acquiring before and whose batch nobody touched.
LEMMA StillAcquiring ==
  ASSUME ReservedLeft, NEW x \in P,
         pcP'[x] = "pending" => pcP[x] = "pending",
         pcP[x] = "pending" =>
           \A r \in batch[x] : st[r] = "reserved"
                               => r \in batch'[x] /\ st'[r] = "reserved"
  PROVE  pcP'[x] = "pending" => \E r \in batch'[x] : st'[r] = "reserved"
BY DEF ReservedLeft

LEMMA WokenAcquiring ==
  ASSUME pcP \in [P -> PPc]
  PROVE  \A x \in P : Woken(pcP)[x] = "pending" <=> pcP[x] = "pending"
BY DEF Woken, PPc

LEMMA GrantPositive ==
  ASSUME QAdmits(q_depth), q_depth \in Nat, q_inflight \in Nat
  PROVE  QGrant(q_depth, MaxBatch) \in Nat \ {0}
BY WatermarkAssumption, PipelineAssumption DEF QAdmits, QGrant

LEMMA ReservedLeftAdmitted ==
  ASSUME RequestPart, StockPart, ReservedLeft, NEW p \in P, P_Admitted(p)
  PROVE  ReservedLeft'
<1>1. /\ pcP \in [P -> PPc] /\ st \in [Req -> ReqState]
      /\ batch \in [P -> SUBSET Req] /\ q_inflight \in Nat
  BY DEF RequestPart
<1>2. PICK R \in SUBSET In({"free"}) :
        /\ Cardinality(R) = QGrant(q_depth, MaxBatch)
        /\ st' = [r \in Req |-> IF r \in R THEN "reserved" ELSE st[r]]
        /\ batch' = [batch EXCEPT ![p] = R]
  BY DEF P_Admitted
<1>3. pcP' = [Woken(pcP) EXCEPT ![p] = "pending"]
  BY DEF P_Admitted, GateWakesP
<1>4. R # {}
  <2>1. Cardinality(R) \in Nat \ {0}
    BY <1>1, <1>2, DepthsNat, GrantPositive DEF P_Admitted, acquire_q_batch
  <2> QED
    BY <2>1, FS_EmptySet
<1>5. \E r \in batch'[p] : st'[r] = "reserved"
  BY <1>1, <1>2, <1>4 DEF In
<1>6. ASSUME NEW x \in P \ {p}
      PROVE  pcP'[x] = "pending" => \E r \in batch'[x] : st'[r] = "reserved"
  <2>1. pcP'[x] = "pending" => pcP[x] = "pending"
    BY <1>1, <1>3, WokenAcquiring DEF Woken
  <2>2. \A r \in batch[x] : st[r] = "reserved"
                            => r \in batch'[x] /\ st'[r] = "reserved"
    BY <1>1, <1>2
  <2> QED
    BY <2>1, <2>2, StillAcquiring
<1> QED
  BY <1>5, <1>6 DEF ReservedLeft

LEMMA ReservedLeftAcquire ==
  ASSUME RequestPart, ReservedLeft, NEW p \in P, P_AcquirePending(p)
  PROVE  ReservedLeft'
<1>1. /\ pcP \in [P -> PPc] /\ st \in [Req -> ReqState]
      /\ batch \in [P -> SUBSET Req]
  BY DEF RequestPart
<1>2. PICK r \in batch[p] :
        /\ st' = [st EXCEPT ![r] = "pending"]
        /\ pcP' = [pcP EXCEPT ![p] =
                     IF \E x \in batch[p] \ {r} : st[x] = "reserved"
                     THEN "pending" ELSE "email"]
        /\ batch' = batch
  BY DEF P_AcquirePending
<1>3. pcP'[p] = "pending" => \E x \in batch'[p] : st'[x] = "reserved"
  BY <1>1, <1>2
<1>4. ASSUME NEW x \in P \ {p}
      PROVE  pcP'[x] = "pending" => \E y \in batch'[x] : st'[y] = "reserved"
  <2>1. pcP'[x] = pcP[x] /\ r \notin batch[x]
    BY <1>1, <1>2, BatchPlace
  <2>2. \A y \in batch[x] : st'[y] = st[y]
    BY <1>1, <1>2, <2>1
  <2> QED
    BY <1>2, <2>1, <2>2, StillAcquiring
<1> QED
  BY <1>3, <1>4 DEF ReservedLeft

\* The other steps of a worker touch no other worker's batch.
LEMMA ReservedLeftPStep ==
  ASSUME RequestPart, ReservedLeft, NEW p \in P, PStep(p),
         ~P_Admitted(p), ~P_AcquirePending(p)
  PROVE  ReservedLeft'
<1>1. /\ pcP \in [P -> PPc] /\ st \in [Req -> ReqState]
      /\ batch \in [P -> SUBSET Req]
  BY DEF RequestPart
<1>2. pcP'[p] # "pending"
  BY <1>1
  DEF PStep, P_Park, P_EmailCreated, P_EmailFailed, P_AcquireSend, P_Physical,
      P_Sent, P_Settled, P_Stop, P_CancelAcquiring, P_CancelOwning,
      P_CancelIdle, AfterEmail, GateWakesP, Woken
<1>3. ASSUME NEW x \in P \ {p}
      PROVE  /\ pcP'[x] \in {pcP[x], Woken(pcP)[x]}
             /\ batch'[x] = batch[x]
             /\ \A r \in Req \ batch[p] : st'[r] = st[r]
  BY <1>1, <1>3
  DEF PStep, P_Park, P_EmailCreated, P_EmailFailed, P_AcquireSend, P_Physical,
      P_Sent, P_Settled, P_Stop, P_CancelAcquiring, P_CancelOwning,
      P_CancelIdle, GateWakesP, Woken, requestVars
<1>4. ASSUME NEW x \in P \ {p}
      PROVE  pcP'[x] = "pending" => \E r \in batch'[x] : st'[r] = "reserved"
  <2>1. pcP'[x] = "pending" => pcP[x] = "pending"
    BY <1>1, <1>3, <1>4, WokenAcquiring
  <2>2. \A r \in batch[x] : r \in Req \ batch[p]
    BY <1>4, BatchPlace
  <2> QED
    BY <1>3, <1>4, <2>1, <2>2, StillAcquiring
<1> QED
  BY <1>2, <1>4 DEF ReservedLeft

LEMMA ReservedLeftRStep ==
  ASSUME RequestPart, ReservedLeft, NEW r \in Req, RStep(r) \/ R_StockExpired(r)
  PROVE  ReservedLeft'
<1>1. /\ pcP \in [P -> PPc] /\ st \in [Req -> ReqState]
      /\ batch \in [P -> SUBSET Req]
  BY DEF RequestPart
<1>2. st[r] # "reserved" /\ \A y \in Req \ {r} : st'[y] = st[y]
  BY <1>1
  DEF RStep, R_NoCode, R_PollRaised, R_Resend, R_AcquireSend, R_Physical,
      R_Resent, R_CodeReturned, R_Stock, R_StockExpired, R_CancelPoll,
      R_CancelReturned, Terminal, OnTask
<1>3. ASSUME NEW x \in P, pcP[x] = "pending"
      PROVE  batch[x] \ {r} \subseteq batch'[x]
  BY <1>1, <1>3
  DEF RStep, R_NoCode, R_PollRaised, R_Resend, R_AcquireSend, R_Physical,
      R_Resent, R_CodeReturned, R_Stock, R_StockExpired, R_CancelPoll,
      R_CancelReturned, Terminal
<1>4. ASSUME NEW x \in P
      PROVE  pcP'[x] \in {pcP[x], Woken(pcP)[x], "top"}
  BY <1>1, <1>4
  DEF RStep, R_NoCode, R_PollRaised, R_Resend, R_AcquireSend, R_Physical,
      R_Resent, R_CodeReturned, R_Stock, R_StockExpired, R_CancelPoll,
      R_CancelReturned, Terminal, workerVars
<1>5. ASSUME NEW x \in P
      PROVE  pcP'[x] = "pending" => \E y \in batch'[x] : st'[y] = "reserved"
  <2>1. pcP'[x] = "pending" => pcP[x] = "pending"
    BY <1>1, <1>4, <1>5, WokenAcquiring
  <2>2. \A y \in batch[x] : y \in Req
    BY <1>1, <1>5
  <2> QED
    BY <1>2, <1>3, <1>5, <2>1, <2>2, StillAcquiring
<1> QED
  BY <1>5 DEF ReservedLeft

LEMMA ReservedLeftNext ==
  ASSUME RequestPart, StockPart, ReservedLeft, [Next]_vars
  PROVE  ReservedLeft'
<1>1. pcP \in [P -> PPc]
  BY DEF RequestPart
<1>2. ASSUME pcP' = pcP \/ pcP' = Woken(pcP), UNCHANGED requestVars
      PROVE  ReservedLeft'
  BY <1>1, <1>2, WokenAcquiring DEF ReservedLeft, requestVars
<1>3. ASSUME NEW s \in S, SStep(s) \/ S_StockExpired(s)
      PROVE  ReservedLeft'
  BY <1>2, <1>3
  DEF SStep, S_Admitted, S_Park, S_Physical, S_Solved, S_NoToken, S_Stock,
      S_StockExpired, S_Stop, S_Cancel, GateWakesS
<1>4. ASSUME NEW c \in C, CStep(c)
      PROVE  ReservedLeft'
  BY <1>2, <1>4
  DEF CStep, C_Claim, C_Park, C_Thawed, C_Physical, C_Submit, C_Registered,
      C_Failed, C_Stop, C_Cancel
<1>5. CASE ReachTarget \/ Interrupt \/ Expire \/ Terminated \/ UNCHANGED vars
  BY <1>2, <1>5
  DEF ReachTarget, Interrupt, Expire, Terminated, vars, workerVars
<1>6. ASSUME NEW p \in P, PStep(p)
      PROVE  ReservedLeft'
  BY <1>6, ReservedLeftAdmitted, ReservedLeftAcquire, ReservedLeftPStep
<1> QED
  BY <1>3, <1>4, <1>5, <1>6, ReservedLeftRStep DEF Next, Work, Aging

\* Reservations never exceed the permits (QHigh =< QPendingCap), so one that
\* has none yet leaves one over.
LEMMA PermitLeft ==
  ASSUME RequestPart, StockPart, WithinWatermarks, ReservedLeft
  PROVE  PermitForReservation
<1> SUFFICES ASSUME NEW p \in P, pcP[p] = "pending"
             PROVE  q_pending_sem > 0
  BY DEF PermitForReservation
<1>1. PICK r \in batch[p] : st[r] = "reserved"
  BY DEF ReservedLeft
<1>2. r \in Req
  BY DEF RequestPart
<1>3. Pending \subseteq Reserved \ {r}
  BY <1>1 DEF Pending, Reserved, In, PendingRequests, Owned, OnTask
<1>4. r \in Reserved
  BY <1>1, <1>2 DEF Reserved, In
<1>5. /\ Cardinality(Reserved \ {r}) = Cardinality(Reserved) - 1
      /\ IsFiniteSet(Reserved \ {r})
  BY <1>4, RequestsFinite, FS_RemoveElement
<1>6. Cardinality(Pending) =< Cardinality(Reserved) - 1
  BY <1>3, <1>5, FS_Subset
<1>7. Cardinality(Reserved) =< QPendingCap
  <2>1. q_depth \in Nat /\ q_inflight = Cardinality(Reserved)
    BY DepthsNat DEF RequestPart, PendingConservation, Reserved
  <2> QED
    BY <2>1, RequestsFinite, WatermarkAssumption, PipelineAssumption,
       DerivedAssumption
    DEF WithinWatermarks
<1>8. q_pending_sem + Cardinality(Pending) = QPendingCap /\ q_pending_sem \in Nat
  BY DEF RequestPart, PendingConservation, Pending
<1> QED
  BY <1>6, <1>7, <1>8, RequestsFinite, PipelineAssumption

----------------------------------------------------------------------------
(* What is left of the types.                                               *)

RunPart ==
  /\ t_paused \in BOOLEAN /\ q_paused \in BOOLEAN
  /\ stop \in BOOLEAN /\ success_count \in 0..Target /\ shutdown \in BOOLEAN

\* A step of the gate leaves the hysteresis a Boolean.
LEMMA GateTypes ==
  ASSUME t_paused \in BOOLEAN, q_paused \in BOOLEAN, NEW d, NEW m, NEW n,
         \/ acquire_t_production(d) \/ RefuseT(d) \/ release_t
         \/ acquire_q_batch(d, m) \/ RefuseQ(d) \/ release_q(n)
  PROVE  t_paused' \in BOOLEAN /\ q_paused' \in BOOLEAN
<1>1. TPausedAt(d + t_in_progress) \in BOOLEAN
  BY DEF TPausedAt
<1>2. QPausedAt(d + q_inflight) \in BOOLEAN
  BY DEF QPausedAt
<1>3. /\ \/ t_paused' = t_paused \/ t_paused' = FALSE
         \/ t_paused' = TPausedAt(d + t_in_progress)
      /\ \/ q_paused' = q_paused \/ q_paused' = QPausedAt(d + q_inflight)
         \/ q_paused' = (d + q_inflight' >= QHigh)
  BY DEF acquire_t_production, RefuseT, release_t, acquire_q_batch, RefuseQ,
         release_q
<1>4. (d + q_inflight' >= QHigh) \in BOOLEAN
  OBVIOUS
<1> QED
  BY <1>1, <1>2, <1>3, <1>4, Zenon

LEMMA RunPartNext ==
  ASSUME RunPart, [Next]_vars
  PROVE  RunPart'
<1>0. /\ t_paused \in BOOLEAN /\ q_paused \in BOOLEAN
      /\ stop \in BOOLEAN /\ success_count \in 0..Target
      /\ shutdown \in BOOLEAN
  BY DEF RunPart
<1> DEFINE GateStep ==
      \/ UNCHANGED gateVars
      \/ \E d, m, n : \/ acquire_t_production(d) \/ RefuseT(d) \/ release_t
                      \/ acquire_q_batch(d, m) \/ RefuseQ(d) \/ release_q(n)
<1>1. ASSUME GateStep, UNCHANGED runVars
      PROVE  RunPart'
  <2>1. t_paused' \in BOOLEAN /\ q_paused' \in BOOLEAN
    BY <1>0, <1>1, GateTypes DEF gateVars
  <2> QED
    BY <1>0, <1>1, <2>1 DEF RunPart, runVars
<1>2. ASSUME NEW s \in S, SStep(s) \/ S_StockExpired(s)
      PROVE  GateStep /\ UNCHANGED runVars
  BY <1>2
  DEF SStep, S_Admitted, S_Park, S_Physical, S_Solved, S_NoToken, S_Stock,
      S_StockExpired, S_Stop, S_Cancel
<1>3. ASSUME NEW p \in P, PStep(p)
      PROVE  GateStep /\ UNCHANGED runVars
  BY <1>3
  DEF PStep, P_Admitted, P_Park, P_AcquirePending, P_EmailCreated,
      P_EmailFailed, P_AcquireSend, P_Physical, P_Sent, P_Settled, P_Stop,
      P_CancelAcquiring, P_CancelOwning, P_CancelIdle
<1>4. ASSUME NEW r \in Req, RStep(r) \/ R_StockExpired(r)
      PROVE  GateStep /\ UNCHANGED runVars
  BY <1>4
  DEF RStep, R_NoCode, R_PollRaised, R_Resend, R_AcquireSend, R_Physical,
      R_Resent, R_CodeReturned, R_Stock, R_StockExpired, R_CancelPoll,
      R_CancelReturned, Terminal
<1>5. ASSUME NEW c \in C, CStep(c)
      PROVE  RunPart'
  <2>1. /\ UNCHANGED gateVars /\ stop' = stop /\ shutdown' = shutdown
        /\ \/ success_count' = success_count
           \/ success_count < Target /\ success_count' = success_count + 1
    BY <1>5
    DEF CStep, C_Claim, C_Park, C_Thawed, C_Physical, C_Submit, C_Registered,
        C_Failed, C_Stop, C_Cancel, runVars
  <2> QED
    BY <1>0, <2>1, PipelineAssumption DEF RunPart, gateVars
<1>6. CASE ReachTarget \/ Interrupt \/ Expire \/ Terminated \/ UNCHANGED vars
  BY <1>0, <1>6
  DEF ReachTarget, Interrupt, Expire, Terminated, vars, runVars, gateVars,
      RunPart
<1> HIDE DEF GateStep
<1> QED
  BY <1>1, <1>2, <1>3, <1>4, <1>5, <1>6 DEF Next, Work, Aging

\* Everything that is invariant, together.
LEMMA PipelineAlways ==
  Spec => [](/\ PermitPart /\ RequestPart /\ StockPart
             /\ RunPart /\ WithinWatermarks)
<1>1. Init => WithinWatermarks
  BY WatermarksInit
<1>2. /\ PermitPart /\ RequestPart /\ StockPart /\ WithinWatermarks
      /\ [Next]_vars
      => WithinWatermarks'
  BY WatermarksNext
<1>3. Init => RunPart
  <2> SUFFICES ASSUME Init PROVE RunPart
    OBVIOUS
  <2>1. 0 \in 0..Target
    BY PipelineAssumption
  <2> QED
    BY <2>1 DEF Init, GateInit, RunPart
<1>4. RunPart /\ [Next]_vars => RunPart'
  BY RunPartNext
<1> QED
  BY <1>1, <1>2, <1>3, <1>4, PermitPartAlways, PTL DEF Spec

\* Every variable of the pipeline keeps its type; in particular no semaphore
\* and no counter of the gate is ever decremented below zero.
THEOREM TypeCorrect == Spec => []TypeOK
<1>1. PermitPart /\ RequestPart /\ StockPart /\ RunPart => TypeOK
  <2> SUFFICES ASSUME PermitPart, RequestPart, StockPart, RunPart
               PROVE  TypeOK
    OBVIOUS
  <2>1. t_in_progress \in Nat
    BY HoldersFinite DEF PermitPart, TLeaseConservation
  <2>2. StockTypeOK
    BY DEF StockPart, StockInv
  <2> QED
    BY <2>1, <2>2 DEF TypeOK, PermitPart, RequestPart, StockPart, RunPart
<1> QED
  BY <1>1, PipelineAlways, PTL

\* Physical_Sem is given back exactly once by each of its four kinds of
\* holders, on every way out of the solver, the sends and the consumption.
THEOREM PhysicalConserved == Spec => []PhysicalConservation
<1>1. PermitPart => PhysicalConservation
  BY DEF PermitPart
<1> QED
  BY <1>1, PipelineAlways, PTL

\* P_Send_Sem is given back exactly once by a first send and by a resend.
THEOREM SendConserved == Spec => []SendConservation
<1>1. PermitPart => SendConservation
  BY DEF PermitPart
<1> QED
  BY <1>1, PipelineAlways, PTL

\* The two together: no permit of a send is lost or given back twice.
THEOREM PermitsKept == Spec => []PermitsConserved
<1>1. PhysicalConservation /\ SendConservation => PermitsConserved
  BY DEF PermitsConserved
<1> QED
  BY <1>1, PhysicalConserved, SendConserved, PTL

\* _TProductionLease: t_in_progress counts the S workers between admission
\* and the end of their attempt, through failure and cancellation.
THEOREM TLeasesConserved == Spec => []TLeaseConservation
<1>1. PermitPart => TLeaseConservation
  BY DEF PermitPart
<1> QED
  BY <1>1, PipelineAlways, PTL

\* AdmissionGate keeps stock plus production under way within both high
\* watermarks, for any number of producers and any batch size.
THEOREM WatermarksHold == Spec => []WithinWatermarks
BY PipelineAlways, PTL

\* _acquire_many never waits: what the gate lets a P worker reserve is covered
\* by free permits of Q_Pending_Sem, so P workers cannot block each other with
\* half acquired batches.  This rests on QHigh =< QPendingCap, which Capacity
\* derives.
THEOREM ReservationsCovered == Spec => []PermitForReservation
<1>1. Init => ReservedLeft
  BY DEF Init, ReservedLeft
<1>2. RequestPart /\ StockPart /\ ReservedLeft /\ [Next]_vars => ReservedLeft'
  BY ReservedLeftNext
<1>3. RequestPart /\ StockPart /\ WithinWatermarks /\ ReservedLeft
      => PermitForReservation
  BY PermitLeft
<1> QED
  BY <1>1, <1>2, <1>3, PipelineAlways, PTL DEF Spec

----------------------------------------------------------------------------
(* The gate's wake-ups, while nothing expires.                              *)

\* With nothing stale the stock shrinks only when a pair is claimed, which
\* wakes the producers, so a refusal stays a refusal while it is slept on.
TimelessInv == /\ Running /\ expired = {} /\ NoAdmissionMissed

\* Which steps can bear on a sleeping producer: the step wakes everyone, or
\* leaves alone what the gate looks at, or refuses one more producer.
EveryoneAwake ==
  /\ \A s \in S : pcS'[s] # "parked"
  /\ \A p \in P : pcP'[p] # "parked"
NobodyDisturbed ==
  /\ UNCHANGED <<t_buf, q_buf, gateVars>>
  /\ \A s \in S : pcS'[s] = "parked" => pcS[s] = "parked"
  /\ \A p \in P : pcP'[p] = "parked" => pcP[p] = "parked"

LEMMA AwakeAfterNotify ==
  ASSUME pcS \in [S -> SPc], pcP \in [P -> PPc]
  PROVE  /\ \A s \in S : Woken(pcS)[s] # "parked"
         /\ \A p \in P : Woken(pcP)[p] # "parked"
         /\ \A s \in S : \A to \in SPc \ {"parked"} :
              GateWakesS(s, to) => EveryoneAwake
         /\ \A p \in P : \A to \in PPc \ {"parked"} :
              GateWakesP(p, to) => EveryoneAwake
BY DEF Woken, GateWakesS, GateWakesP, EveryoneAwake

\* A producer of one kind that parks leaves a refusal of its kind standing
\* and says nothing about the other kind.
LEMMA RefusalStands ==
  ASSUME t_in_progress \in Nat, q_inflight \in Nat, t_depth \in Nat,
         q_depth \in Nat, t_paused \in BOOLEAN, q_paused \in BOOLEAN,
         UNCHANGED <<t_buf, q_buf>>
  PROVE  /\ RefuseT(t_depth)
            => /\ ~TAdmits(t_depth)'
               /\ QAdmits(q_depth)' = QAdmits(q_depth)
         /\ RefuseQ(q_depth)
            => /\ ~QAdmits(q_depth)'
               /\ TAdmits(t_depth)' = TAdmits(t_depth)
<1>1. t_depth' = t_depth /\ q_depth' = q_depth
  BY DEF t_depth, q_depth
<1> QED
  BY <1>1, WatermarkAssumption
  DEF RefuseT, RefuseQ, TAdmits, QAdmits, TPausedAt, QPausedAt

LEMMA DepthKept ==
  ASSUME UNCHANGED <<t_buf, q_buf, gateVars>>
  PROVE  /\ TAdmits(t_depth)' = TAdmits(t_depth)
         /\ QAdmits(q_depth)' = QAdmits(q_depth)
BY DEF gateVars, t_depth, q_depth, TAdmits, QAdmits, TPausedAt, QPausedAt

LEMMA SWakes ==
  ASSUME pcS \in [S -> SPc], pcP \in [P -> PPc], Running,
         NEW s \in S, SStep(s), ~S_Park(s)
  PROVE  (EveryoneAwake \/ NobodyDisturbed) /\ Running'
<1>1. CASE S_Admitted(s) \/ S_NoToken(s) \/ S_Stock(s)
  <2>1. \E to \in SPc \ {"parked"} : GateWakesS(s, to)
    BY <1>1 DEF S_Admitted, S_NoToken, S_Stock, SPc
  <2>2. Running'
    BY <1>1 DEF S_Admitted, S_NoToken, S_Stock, Running, runVars
  <2> QED
    BY <2>1, <2>2, AwakeAfterNotify
<1>2. CASE S_Physical(s) \/ S_Solved(s) \/ S_Stop(s)
  BY <1>2
  DEF S_Physical, S_Solved, S_Stop, NobodyDisturbed, stockVars, gateVars,
      runVars, Running
<1>3. ~S_Cancel(s)
  BY DEF S_Cancel, Running
<1> QED
  BY <1>1, <1>2, <1>3 DEF SStep

LEMMA PWakes ==
  ASSUME pcS \in [S -> SPc], RequestPart, Running,
         NEW p \in P, PStep(p), ~P_Park(p)
  PROVE  (EveryoneAwake \/ NobodyDisturbed) /\ Running'
<1>0. pcP \in [P -> PPc] /\ q_inflight \in Nat
  BY DEF RequestPart
<1>1. CASE \E to \in PPc \ {"parked"} : GateWakesP(p, to) /\ Running'
  BY <1>0, <1>1, AwakeAfterNotify
<1>2. CASE P_Admitted(p)
  BY <1>1, <1>2 DEF P_Admitted, PPc, Running, runVars
<1>3. CASE P_EmailFailed(p)
  <2>1. PICK r \in batch[p] : GateWakesP(p, AfterEmail(p, r, "free"))
    BY <1>3 DEF P_EmailFailed
  <2>2. AfterEmail(p, r, "free") \in PPc \ {"parked"}
    BY DEF AfterEmail, PPc
  <2>3. Running'
    BY <1>3 DEF P_EmailFailed, Running, runVars
  <2> QED
    BY <1>1, <2>1, <2>2, <2>3
<1>4. CASE P_Sent(p)
  <2>1. PICK sent \in SUBSET batch[p] :
          LET unsent == batch[p] \ sent
              to == IF sent = {} THEN "top" ELSE "settling"
          IN  /\ release_q(Cardinality(unsent))
              /\ IF unsent # {} THEN GateWakesP(p, to)
                 ELSE pcP' = [pcP EXCEPT ![p] = to] /\ UNCHANGED pcS
    BY <1>4 DEF P_Sent
  <2>2. UNCHANGED stockVars /\ Running'
    BY <1>4 DEF P_Sent, Running, runVars
  <2>3. CASE batch[p] \ sent # {}
    <3>1. (IF sent = {} THEN "top" ELSE "settling") \in PPc \ {"parked"}
      BY DEF PPc
    <3> QED
      BY <1>1, <2>1, <2>2, <2>3, <3>1
  <2>4. CASE batch[p] \ sent = {}
    <3>1. Cardinality(batch[p] \ sent) = 0
      BY <2>4, FS_EmptySet
    <3>2. UNCHANGED gateVars
      BY <1>0, <2>1, <3>1 DEF release_q, gateVars
    <3>3. /\ UNCHANGED pcS
          /\ pcP' = [pcP EXCEPT ![p] = IF sent = {} THEN "top" ELSE "settling"]
      BY <2>1, <2>4
    <3> QED
      BY <1>0, <2>2, <3>2, <3>3 DEF NobodyDisturbed, stockVars
  <2> QED
    BY <2>3, <2>4
<1>5. CASE \/ P_AcquirePending(p) \/ P_EmailCreated(p) \/ P_AcquireSend(p)
           \/ P_Physical(p) \/ P_Settled(p) \/ P_Stop(p)
  <2>1. UNCHANGED <<stockVars, gateVars, pcS, runVars>>
    BY <1>5
    DEF P_AcquirePending, P_EmailCreated, P_AcquireSend, P_Physical,
        P_Settled, P_Stop, permitVars
  <2>2. \E to \in PPc \ {"parked"} : pcP' = [pcP EXCEPT ![p] = to]
    BY <1>5
    DEF P_AcquirePending, P_EmailCreated, P_AcquireSend, P_Physical,
        P_Settled, P_Stop, AfterEmail, PPc
  <2> QED
    BY <1>0, <2>1, <2>2 DEF NobodyDisturbed, stockVars, runVars, Running
<1>6. ~(P_CancelAcquiring(p) \/ P_CancelOwning(p) \/ P_CancelIdle(p))
  BY DEF P_CancelAcquiring, P_CancelOwning, P_CancelIdle, Running
<1> QED
  BY <1>2, <1>3, <1>4, <1>5, <1>6 DEF PStep

LEMMA RWakes ==
  ASSUME pcS \in [S -> SPc], pcP \in [P -> PPc], Running,
         NEW r \in Req, RStep(r)
  PROVE  (EveryoneAwake \/ NobodyDisturbed) /\ Running'
<1>1. CASE R_NoCode(r) \/ R_Stock(r)
  BY <1>1, AwakeAfterNotify
  DEF R_NoCode, R_Stock, EveryoneAwake, Running, runVars
<1>2. CASE R_PollRaised(r)
  <2>1. /\ pcS' = Woken(pcS)
        /\ \A p \in P : pcP'[p] \in {"top", Woken(pcP)[p]}
    BY <1>2 DEF R_PollRaised
  <2> QED
    BY <1>2, <2>1, AwakeAfterNotify
    DEF R_PollRaised, EveryoneAwake, Running, runVars
<1>3. CASE R_CancelReturned(r)
  BY <1>3
  DEF R_CancelReturned, WorkersGone, EveryoneAwake, workerVars, Running,
      runVars
<1>4. CASE \/ R_Resend(r) \/ R_AcquireSend(r) \/ R_Physical(r)
           \/ R_Resent(r) \/ R_CodeReturned(r) \/ R_CancelPoll(r)
  BY <1>4
  DEF R_Resend, R_AcquireSend, R_Physical, R_Resent, R_CodeReturned,
      R_CancelPoll, NobodyDisturbed, workerVars, stockVars, Running, runVars
<1> QED
  BY <1>1, <1>2, <1>3, <1>4 DEF RStep

LEMMA CWakes ==
  ASSUME pcS \in [S -> SPc], pcP \in [P -> PPc], Running, expired = {},
         NEW c \in C, CStep(c)
  PROVE  (EveryoneAwake \/ NobodyDisturbed) /\ Running'
<1>1. CASE C_Claim(c)
  BY <1>1, AwakeAfterNotify DEF C_Claim, EveryoneAwake, Running, runVars
<1>2. CASE C_Park(c)
  BY <1>2
  DEF C_Park, claim_nothing, FreshT, FreshQ, NobodyDisturbed, Running, runVars
<1>3. CASE \/ C_Thawed(c) \/ C_Physical(c) \/ C_Submit(c)
           \/ C_Registered(c) \/ C_Failed(c) \/ C_Stop(c)
  BY <1>3
  DEF C_Thawed, C_Physical, C_Submit, C_Registered, C_Failed, C_Stop,
      ExitPair, settle, NobodyDisturbed, stockVars, Running, runVars
<1>4. ~C_Cancel(c)
  BY DEF C_Cancel, Running
<1> QED
  BY <1>1, <1>2, <1>3, <1>4 DEF CStep

LEMMA NothingStale ==
  ASSUME expired = {}, Running, [Work]_vars
  PROVE  expired' = {}
<1>1. ASSUME NEW s \in S, SStep(s)
      PROVE  expired' = {}
  BY <1>1
  DEF SStep, S_Admitted, S_Park, S_Physical, S_Solved, S_NoToken, S_Stock,
      S_Stop, S_Cancel, put_t, stockVars
<1>2. ASSUME NEW p \in P, PStep(p)
      PROVE  expired' = {}
  BY <1>2
  DEF PStep, P_Admitted, P_Park, P_AcquirePending, P_EmailCreated,
      P_EmailFailed, P_AcquireSend, P_Physical, P_Sent, P_Settled, P_Stop,
      P_CancelAcquiring, P_CancelOwning, P_CancelIdle, stockVars
<1>3. ASSUME NEW r \in Req, RStep(r)
      PROVE  expired' = {}
  BY <1>3
  DEF RStep, R_NoCode, R_PollRaised, R_Resend, R_AcquireSend, R_Physical,
      R_Resent, R_CodeReturned, R_Stock, R_CancelPoll, R_CancelReturned,
      put_q, stockVars
<1>4. ASSUME NEW c \in C, CStep(c)
      PROVE  expired' = {}
  BY <1>4
  DEF CStep, C_Claim, C_Park, C_Thawed, C_Physical, C_Submit, C_Registered,
      C_Failed, C_Stop, C_Cancel, ExitPair, settle, claim_pair, claim_nothing,
      stockVars
<1>5. CASE ReachTarget \/ Terminated \/ UNCHANGED vars
  BY <1>5 DEF ReachTarget, Terminated, vars, stockVars
<1> QED
  BY <1>1, <1>2, <1>3, <1>4, <1>5 DEF Work

LEMMA TimelessNext ==
  ASSUME TypeOK, RequestPart, StockPart, TimelessInv, [Work]_vars
  PROVE  TimelessInv'
<1>0. /\ pcS \in [S -> SPc] /\ pcP \in [P -> PPc]
      /\ Running /\ expired = {} /\ NoAdmissionMissed
  BY DEF TypeOK, TimelessInv
<1>1. expired' = {}
  BY <1>0, NothingStale
<1>2. ASSUME EveryoneAwake \/ NobodyDisturbed, Running'
      PROVE  TimelessInv'
  <2>1. CASE EveryoneAwake
    BY <1>1, <1>2, <2>1 DEF TimelessInv, EveryoneAwake, NoAdmissionMissed
  <2>2. CASE NobodyDisturbed
    <3>1. /\ TAdmits(t_depth)' = TAdmits(t_depth)
          /\ QAdmits(q_depth)' = QAdmits(q_depth)
      BY <2>2, DepthKept DEF NobodyDisturbed
    <3>2. NoAdmissionMissed'
      BY <1>0, <2>2, <3>1 DEF NobodyDisturbed, NoAdmissionMissed
    <3> QED
      BY <1>1, <1>2, <3>2 DEF TimelessInv
  <2> QED
    BY <1>2, <2>1, <2>2
<1>3. /\ t_in_progress \in Nat /\ q_inflight \in Nat
      /\ t_paused \in BOOLEAN /\ q_paused \in BOOLEAN
      /\ t_depth \in Nat /\ q_depth \in Nat
  <2>1. t_depth \in Nat /\ q_depth \in Nat
    BY DepthsNat DEF StockPart
  <2> QED
    BY <2>1 DEF TypeOK
<1>4. ASSUME NEW s \in S, S_Park(s)
      PROVE  TimelessInv'
  <2>1. /\ RefuseT(t_depth) /\ UNCHANGED <<stockVars, pcP, runVars>>
    BY <1>4 DEF S_Park
  <2>2. /\ ~TAdmits(t_depth)'
        /\ QAdmits(q_depth)' = QAdmits(q_depth)
    BY <1>3, <2>1, RefusalStands DEF stockVars
  <2>3. NoAdmissionMissed'
    BY <1>0, <2>1, <2>2 DEF NoAdmissionMissed
  <2> QED
    BY <1>0, <1>1, <2>1, <2>3 DEF TimelessInv, Running, runVars
<1>5. ASSUME NEW p \in P, P_Park(p)
      PROVE  TimelessInv'
  <2>1. /\ RefuseQ(q_depth) /\ UNCHANGED <<stockVars, pcS, runVars>>
    BY <1>5 DEF P_Park
  <2>2. /\ ~QAdmits(q_depth)'
        /\ TAdmits(t_depth)' = TAdmits(t_depth)
    BY <1>3, <2>1, RefusalStands DEF stockVars
  <2>3. NoAdmissionMissed'
    BY <1>0, <2>1, <2>2 DEF NoAdmissionMissed
  <2> QED
    BY <1>0, <1>1, <2>1, <2>3 DEF TimelessInv, Running, runVars
<1>6. CASE ReachTarget \/ Terminated \/ UNCHANGED vars
  BY <1>0, <1>2, <1>6
  DEF ReachTarget, Terminated, vars, NobodyDisturbed, workerVars, stockVars,
      Running, runVars
<1> QED
  BY <1>0, <1>2, <1>4, <1>5, <1>6, SWakes, PWakes, RWakes, CWakes DEF Work

\* AdmissionGate.notify_changed reaches every waiter in time: as long as
\* nothing expires, no producer sleeps while the gate would let it in, for
\* any number of producers.  (With expiry the sweep of a claim that finds no
\* pair lowers the depths in silence: the run CspStall.)
THEOREM AdmissionsNotMissed == TimelessSpec => []NoAdmissionMissed
<1>1. TimelessSpec => Spec
  <2>1. [Work]_vars => [Next]_vars
    BY DEF Next
  <2> QED
    BY <2>1, PTL DEF TimelessSpec, Spec
<1>2. Init => TimelessInv
  BY DEF Init, InventoryInit, Running, TimelessInv, NoAdmissionMissed
<1>3. /\ TypeOK /\ RequestPart /\ StockPart /\ TimelessInv /\ [Work]_vars
      => TimelessInv'
  BY TimelessNext
<1>4. TimelessInv => NoAdmissionMissed
  BY DEF TimelessInv
<1> QED
  BY <1>1, <1>2, <1>3, <1>4, TypeCorrect, PipelineAlways, PTL
  DEF TimelessSpec
=============================================================================
