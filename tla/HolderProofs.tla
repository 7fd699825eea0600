----------------------------- MODULE HolderProofs -----------------------------
(***************************************************************************)
(* The authentication service, for any accounts, capacities and faults:    *)
(* an account in work is in one place, a pending job of the ledger belongs *)
(* to an attempt, an account that was imported is not imported again, and  *)
(* the queues and retries keep their bounds.                               *)
(***************************************************************************)
EXTENDS AuthProofs, FiniteSetTheorems, SequenceTheorems

\* How often an account is in a queue.
Spots(s, q) == {i \in 1 .. Len(q) : q[i] = s}

LEMMA SpotsFinite ==
  ASSUME NEW s, NEW D, NEW q \in Seq(D)
  PROVE  /\ IsFiniteSet(Spots(s, q)) /\ Occurs(s, q) = Cardinality(Spots(s, q))
         /\ Occurs(s, q) \in Nat
<1>1. IsFiniteSet(1 .. Len(q))
  BY FS_Interval
<1>2. IsFiniteSet(Spots(s, q))
  BY <1>1, FS_Subset DEF Spots
<1> QED
  BY <1>2, FS_CardinalityType DEF Occurs, Spots

LEMMA OccursEmpty == \A s : Occurs(s, <<>>) = 0
<1> TAKE s
<1>1. {i \in 1 .. Len(<<>>) : <<>>[i] = s} = {}
  OBVIOUS
<1> QED
  BY <1>1, FS_EmptySet DEF Occurs

LEMMA SpotsShift ==
  ASSUME NEW S \in SUBSET Int, IsFiniteSet(S), NEW k \in Int
  PROVE  /\ IsFiniteSet({i + k : i \in S})
         /\ Cardinality({i + k : i \in S}) = Cardinality(S)
<1> DEFINE T == {i + k : i \in S}
           f == [i \in S |-> i + k]
<1>1. f \in Bijection(S, T)
  <2>1. f \in [S -> T]
    OBVIOUS
  <2>2. \A i, j \in S : f[i] = f[j] => i = j
    OBVIOUS
  <2>3. \A t \in T : \E i \in S : f[i] = t
    OBVIOUS
  <2> QED
    BY <2>1, <2>2, <2>3
    DEF Bijection, Injection, Surjection, IsInjective
<1>2. ExistsBijection(S, T)
  BY <1>1 DEF ExistsBijection
<1> HIDE DEF T
<1>3. IsFiniteSet(T) /\ Cardinality(T) = Cardinality(S)
  BY <1>2, FS_Bijection
<1> QED
  BY <1>3 DEF T

LEMMA OccursConcat ==
  ASSUME NEW s, NEW D, NEW p \in Seq(D), NEW q \in Seq(D)
  PROVE  Occurs(s, p \o q) = Occurs(s, p) + Occurs(s, q)
<1> DEFINE T == {i + Len(p) : i \in Spots(s, q)}
<1>1. /\ p \o q \in Seq(D) /\ Len(p \o q) = Len(p) + Len(q)
      /\ Len(p) \in Nat /\ Len(q) \in Nat
      /\ \A i \in 1 .. Len(p) : (p \o q)[i] = p[i]
      /\ \A i \in 1 .. Len(q) : (p \o q)[i + Len(p)] = q[i]
  OBVIOUS
<1>2. Spots(s, p \o q) = Spots(s, p) \cup T
  <2>1. ASSUME NEW i \in Spots(s, p \o q) PROVE i \in Spots(s, p) \cup T
    <3>1. i \in 1 .. Len(p) + Len(q) /\ (p \o q)[i] = s
      BY <1>1 DEF Spots
    <3>2. CASE i =< Len(p)
      BY <1>1, <3>1, <3>2 DEF Spots
    <3>3. CASE i > Len(p)
      <4>1. i - Len(p) \in 1 .. Len(q) /\ i = (i - Len(p)) + Len(p)
        BY <1>1, <3>1, <3>3
      <4>2. q[i - Len(p)] = s
        BY <1>1, <3>1, <4>1
      <4>3. i - Len(p) \in Spots(s, q)
        BY <4>1, <4>2 DEF Spots
      <4> QED
        BY <4>1, <4>3
    <3> QED
      BY <1>1, <3>1, <3>2, <3>3
  <2>2. ASSUME NEW i \in Spots(s, p) PROVE i \in Spots(s, p \o q)
    BY <1>1 DEF Spots
  <2>3. ASSUME NEW i \in Spots(s, q) PROVE i + Len(p) \in Spots(s, p \o q)
    BY <1>1 DEF Spots
  <2> QED
    BY <2>1, <2>2, <2>3
<1>3. Spots(s, p) \cap T = {}
  BY <1>1 DEF Spots
<1>4. Spots(s, q) \in SUBSET Int
  BY <1>1 DEF Spots
<1>5. IsFiniteSet(T) /\ Cardinality(T) = Cardinality(Spots(s, q))
  <2>1. IsFiniteSet(Spots(s, q))
    BY SpotsFinite
  <2>2. Len(p) \in Int
    BY <1>1
  <2> QED
    BY <1>4, <2>1, <2>2, SpotsShift, Zenon
<1> HIDE DEF T
<1>6. IsFiniteSet(Spots(s, p))
  BY SpotsFinite
<1>7. Cardinality(Spots(s, p) \cup T) =
        Cardinality(Spots(s, p)) + Cardinality(T) - Cardinality({})
  BY <1>3, <1>5, <1>6, FS_Union
<1>8. /\ Occurs(s, p \o q) = Cardinality(Spots(s, p \o q))
      /\ Occurs(s, p) = Cardinality(Spots(s, p)) /\ Occurs(s, p) \in Nat
      /\ Occurs(s, q) = Cardinality(Spots(s, q)) /\ Occurs(s, q) \in Nat
  BY <1>1, SpotsFinite
<1> QED
  BY <1>2, <1>5, <1>7, <1>8, FS_EmptySet

LEMMA OccursOne ==
  ASSUME NEW s, NEW D, NEW x \in D
  PROVE  Occurs(s, <<x>>) = Holds(s, x)
<1>1. Spots(s, <<x>>) = IF x = s THEN {1} ELSE {}
  BY DEF Spots
<1>2. Cardinality(Spots(s, <<x>>)) = IF x = s THEN 1 ELSE 0
  BY <1>1, FS_EmptySet, FS_Singleton
<1>3. Occurs(s, <<x>>) = Cardinality(Spots(s, <<x>>))
  BY DEF Occurs, Spots
<1> QED
  BY <1>2, <1>3 DEF Holds

LEMMA OccursAppend ==
  ASSUME NEW s, NEW D, NEW q \in Seq(D), NEW x \in D
  PROVE  Occurs(s, Append(q, x)) = Occurs(s, q) + Holds(s, x)
<1>1. <<x>> \in Seq(D)
  OBVIOUS
<1>2. Append(q, x) = q \o <<x>>
  BY <1>1, AppendIsConcat
<1>3. Occurs(s, <<x>>) = Holds(s, x)
  BY OccursOne
<1> QED
  BY <1>1, <1>2, <1>3, OccursConcat

LEMMA OccursTail ==
  ASSUME NEW s, NEW D, NEW q \in Seq(D), q # <<>>
  PROVE  Occurs(s, q) = Holds(s, Head(q)) + Occurs(s, Tail(q))
<1>1. /\ Head(q) \in D /\ Tail(q) \in Seq(D)
      /\ <<Head(q)>> \in Seq(D) /\ q = <<Head(q)>> \o Tail(q)
  OBVIOUS
<1> QED
  BY <1>1, OccursConcat, OccursOne

----------------------------------------------------------------------------
\* The inductive invariant: who is where.

HolderTypes ==
  /\ states \in [Accounts -> AccountState]
  /\ retry_heap \in [Accounts -> Nat] /\ pending \in [Accounts -> Nat]
  /\ crashes \in Nat

\* A task that is nowhere has nobody, and only a running pipeline prepares and
\* authorizes.
Vacant ==
  /\ preparer.at # "flow" => preparer.who = NoOne
  /\ authorizer.at = "idle" => authorizer.who = NoOne
  /\ completer.at = "idle" => completer.who = NoOne
  /\ phase = "stopping" => preparer.who = NoOne /\ authorizer.at = "idle"
  /\ phase = "off" => completer.at = "idle"

\* An entry of the retry heap is that of an account that waits for it: the
\* retry task never drops one.
RetryWaits ==
  Running => \A s \in Accounts : retry_heap[s] > 0 => states[s] = "retry"

HolderInv == HolderTypes /\ Vacant /\ RetryWaits /\ OneHolder /\ PendingOwned

LEMMA NobodyHolds ==
  /\ NoOne \notin Accounts
  /\ \A s \in Accounts : Holds(s, NoOne) = 0 /\ Holds(s, s) = 1
  /\ \A s, x : Holds(s, x) \in {0, 1}
BY NoOneAssumption DEF Holds, Accounts

LEMMA CountTypes ==
  ASSUME PipeTypes, HolderTypes, NEW s \in Accounts
  PROVE  /\ Occurs(s, source_queue) \in Nat
         /\ Occurs(s, prepared_queue) \in Nat
         /\ Occurs(s, completion_queue) \in Nat
         /\ Attempts(s) \in Nat /\ Waits(s) \in Nat
<1>1. /\ Occurs(s, source_queue) \in Nat /\ Occurs(s, prepared_queue) \in Nat
      /\ Occurs(s, completion_queue) \in Nat
  BY SpotsFinite DEF PipeTypes
<1> QED
  BY <1>1, NobodyHolds DEF Attempts, Waits, HolderTypes

LEMMA CountsNext ==
  ASSUME NEW s \in Accounts
  PROVE  /\ Attempts(s)' = Holds(s, preparer'.who) + Holds(s, authorizer'.who)
              + Holds(s, completer'.who) + Occurs(s, prepared_queue')
              + Occurs(s, completion_queue')
         /\ Waits(s)' = Holds(s, feeding') + Holds(s, retrying')
              + Occurs(s, source_queue') + retry_heap'[s]
BY DEF Attempts, Waits

\* An account changes hands: its job goes on.
LEMMA AttemptMoves ==
  ASSUME PipeInv, HolderInv, Running, HolderTypes', Vacant',
         UNCHANGED <<phase, pending, retry_heap>>,
         \A s \in Accounts : Attempts(s)' = Attempts(s) /\ Waits(s)' = Waits(s),
         \/ UNCHANGED states
         \/ \E s \in Accounts, a \in {"prepared", "active"} :
              Attempts(s) > 0 /\ states' = [states EXCEPT ![s] = a]
  PROVE  HolderInv'
<1>1. \A s \in Accounts : Attempts(s) \in Nat /\ Waits(s) \in Nat
  BY CountTypes DEF PipeInv, HolderInv
<1>2. \A s \in Accounts : states[s] \in Live <=> states'[s] \in Live
  BY <1>1 DEF HolderInv, OneHolder, HolderTypes, Live
<1>3. \A s \in Accounts : retry_heap[s] > 0 => states'[s] = "retry"
  <2>1. ASSUME NEW s \in Accounts, retry_heap[s] > 0 PROVE ~(Attempts(s) > 0)
    <3>1. Waits(s) >= retry_heap[s]
      BY NobodyHolds, CountTypes DEF Waits, HolderInv, HolderTypes, PipeInv
    <3> QED
      BY <1>1, <2>1, <3>1 DEF HolderInv, OneHolder, HolderTypes
  <2> QED
    BY <2>1 DEF HolderInv, RetryWaits, HolderTypes
<1>4. OneHolder'
  BY <1>2 DEF HolderInv, OneHolder, Running
<1>5. PendingOwned'
  BY DEF HolderInv, PendingOwned, Running
<1> QED
  BY <1>3, <1>4, <1>5 DEF HolderInv, RetryWaits, Running

\* An attempt ends, with its job: the account waits for a retry or is done.
EndsHere(s) ==
  /\ JobEnds(s)
  /\ \/ /\ UNCHANGED retry_heap
        /\ \E a \in {"terminal", "imported"} : states' = [states EXCEPT ![s] = a]
     \/ /\ retry_heap' = [retry_heap EXCEPT ![s] = @ + 1]
        /\ states' = [states EXCEPT ![s] = "retry"]

LEMMA AttemptEnds ==
  ASSUME PipeInv, HolderInv, phase # "off", Vacant', NEW s \in Accounts,
         UNCHANGED <<phase, feeding, retrying, source_queue, crashes>>,
         \A d \in Accounts : Attempts(d) = Attempts(d)' + Holds(d, s),
         \A d \in Accounts : Attempts(d)' \in Nat,
         EndsHere(s)
  PROVE  HolderInv'
<1>1. \A d \in Accounts : Attempts(d) \in Nat /\ Waits(d) \in Nat
  BY CountTypes DEF PipeInv, HolderInv
<1>2. Attempts(s) > 0
  BY NobodyHolds
<1>3. pending' = [pending EXCEPT ![s] = @ - 1] /\ pending[s] > 0
  BY <1>2 DEF EndsHere, JobEnds, HolderInv, PendingOwned
<1>4. HolderTypes'
  BY <1>3 DEF EndsHere, HolderInv, HolderTypes, AccountState
<1>5. PendingOwned'
  BY <1>3, <1>4 DEF PendingOwned, HolderInv, HolderTypes, Holds
<1>6. ASSUME Running PROVE RetryWaits' /\ OneHolder'
  <2>1. \A d \in Accounts :
          Waits(d)' = Waits(d) - retry_heap[d] + retry_heap'[d]
    <3> TAKE d \in Accounts
    <3>1. /\ Occurs(d, source_queue) \in Nat
          /\ Holds(d, feeding) \in Nat /\ Holds(d, retrying) \in Nat
          /\ retry_heap[d] \in Nat /\ retry_heap'[d] \in Nat
      BY <1>4, CountTypes, NobodyHolds DEF HolderInv, HolderTypes, PipeInv
    <3>2. /\ Occurs(d, source_queue)' = Occurs(d, source_queue)
          /\ Holds(d, feeding)' = Holds(d, feeding)
          /\ Holds(d, retrying)' = Holds(d, retrying)
      OBVIOUS
    <3> QED
      BY <3>1, <3>2 DEF Waits
  <2>2. Attempts(s) = 1 /\ Waits(s) = 0 /\ Attempts(s)' = 0
    BY <1>1, <1>2, <1>6, NobodyHolds DEF HolderInv, OneHolder
  <2>3. retry_heap[s] = 0
    BY <2>2, NobodyHolds, CountTypes
    DEF Waits, HolderInv, HolderTypes, PipeInv
  <2>4. ASSUME NEW d \in Accounts
        PROVE  Attempts(d)' + Waits(d)' = IF states'[d] \in Live THEN 1 ELSE 0
    <3>1. CASE d = s
      BY <2>1, <2>2, <2>3, <3>1 DEF EndsHere, HolderInv, HolderTypes, Live
    <3>2. CASE d # s
      <4>1. Attempts(d)' = Attempts(d) /\ Waits(d)' = Waits(d)
        BY <1>1, <2>1, <3>2 DEF EndsHere, Holds, HolderInv, HolderTypes
      <4> QED
        BY <1>6, <3>2, <4>1 DEF EndsHere, HolderInv, HolderTypes, OneHolder
    <3> QED
      BY <3>1, <3>2
  <2> QED
    BY <1>6, <2>3, <2>4
    DEF EndsHere, HolderInv, HolderTypes, OneHolder, RetryWaits, Running
<1> QED
  BY <1>4, <1>5, <1>6 DEF HolderInv, RetryWaits, OneHolder, Running

\* The three ways in which an attempt ends without an import.
LEMMA EndShape ==
  ASSUME NEW s \in Accounts, Terminal(s) \/ Transient(s) \/ ScheduleRetry(s)
  PROVE  EndsHere(s)
BY DEF EndsHere, Terminal, Transient, ScheduleRetry

\* What a step must leave alone for the accounts to stay where they are.
placeVars == <<phase, states, queueVars, preparer, authorizer, completer,
               pending, crashes>>

LEMMA PlacesKept ==
  ASSUME HolderInv, UNCHANGED placeVars
  PROVE  HolderInv'
<1>1. \A d \in Accounts : Attempts(d)' = Attempts(d) /\ Waits(d)' = Waits(d)
  BY CountsNext DEF Attempts, Waits, placeVars, queueVars
<1> QED
  BY <1>1 DEF HolderInv, HolderTypes, Vacant, RetryWaits, OneHolder,
              PendingOwned, Running, placeVars, queueVars

LEMMA WaitsKept ==
  ASSUME UNCHANGED <<feeding, retrying, source_queue, retry_heap>>
  PROVE  \A d \in Accounts : Waits(d)' = Waits(d)
BY DEF Waits

\* The account of one of the three workers leaves it and nothing else moves.
LEMMA WorkerEnds ==
  ASSUME PipeInv, HolderInv, NEW s \in Accounts,
         UNCHANGED <<prepared_queue, completion_queue>>,
         \/ /\ s = preparer.who /\ preparer'.who = NoOne
            /\ UNCHANGED <<authorizer, completer>>
         \/ /\ s = authorizer.who /\ authorizer'.who = NoOne
            /\ UNCHANGED <<preparer, completer>>
         \/ /\ s = completer.who /\ completer'.who = NoOne
            /\ UNCHANGED <<preparer, authorizer>>
  PROVE  \A d \in Accounts :
           /\ Attempts(d) = Attempts(d)' + Holds(d, s)
           /\ Attempts(d)' \in Nat
<1> TAKE d \in Accounts
<1>1. /\ Occurs(d, prepared_queue) \in Nat /\ Occurs(d, completion_queue) \in Nat
      /\ Occurs(d, prepared_queue)' = Occurs(d, prepared_queue)
      /\ Occurs(d, completion_queue)' = Occurs(d, completion_queue)
  BY CountTypes DEF PipeInv, HolderInv
<1>2. /\ Holds(d, preparer.who) \in Nat /\ Holds(d, authorizer.who) \in Nat
      /\ Holds(d, completer.who) \in Nat /\ Holds(d, NoOne) = 0
  BY NobodyHolds
<1>3. /\ Holds(d, preparer.who)' = Holds(d, preparer'.who)
      /\ Holds(d, authorizer.who)' = Holds(d, authorizer'.who)
      /\ Holds(d, completer.who)' = Holds(d, completer'.who)
  OBVIOUS
<1> QED
  BY <1>1, <1>2, <1>3 DEF Attempts

LEMMA PrepareHolds ==
  ASSUME PipeInv, HolderInv, Prepare
  PROVE  HolderInv'
<1>1. /\ UNCHANGED <<phase, feeding, retrying, completion_queue, authorizer,
                     completer, crashes>>
      /\ Running
  BY DEF Prepare, PrepareSlot, PrepareGet, FlowStarted, FlowFailed,
         prepareUnchanged, boundVars
<1>2. CASE PrepareSlot
  <2>1. /\ preparer.who = NoOne /\ preparer'.who = NoOne /\ preparer'.at = "source"
        /\ UNCHANGED <<states, retry_heap, source_queue, prepared_queue, pending>>
    BY <1>2 DEF PrepareSlot, At, HolderInv, Vacant
  <2>2. \A d \in Accounts : Attempts(d)' = Attempts(d) /\ Waits(d)' = Waits(d)
    BY <1>1, <2>1, WaitsKept DEF Attempts
  <2>3. HolderTypes' /\ Vacant'
    BY <1>1, <2>1 DEF HolderInv, HolderTypes, Vacant, Running
  <2> QED
    BY <1>1, <2>1, <2>2, <2>3, AttemptMoves
<1>3. CASE PrepareGet
  <2> DEFINE h == Head(source_queue)
  <2>1. /\ h \in Accounts /\ source_queue \in Seq(Accounts) /\ source_queue # <<>>
        /\ source_queue' = Tail(source_queue)
        /\ preparer.who = NoOne /\ preparer' = [at |-> "flow", who |-> h]
        /\ pending' = [pending EXCEPT ![h] = @ + 1]
        /\ UNCHANGED <<states, retry_heap, prepared_queue>>
    BY <1>3 DEF PrepareGet, At, PipeInv, PipeTypes, HolderInv, Vacant
  <2> HIDE DEF h
  <2>2. ASSUME NEW d \in Accounts
        PROVE  /\ Attempts(d) \in Nat /\ Waits(d) \in Nat
               /\ Attempts(d)' = Attempts(d) + Holds(d, h)
               /\ Waits(d)' = Waits(d) - Holds(d, h)
    <3>1. Occurs(d, source_queue) = Holds(d, h) + Occurs(d, source_queue')
      BY <2>1, OccursTail DEF h
    <3>2. /\ Attempts(d) \in Nat /\ Waits(d) \in Nat /\ retry_heap[d] \in Nat
          /\ Occurs(d, source_queue) \in Nat /\ Occurs(d, prepared_queue) \in Nat
          /\ Occurs(d, completion_queue) \in Nat
      BY CountTypes DEF HolderInv, PipeInv, HolderTypes
    <3>3. Occurs(d, source_queue') \in Nat
      <4>1. source_queue' \in Seq(Accounts)
        BY <2>1
      <4> QED
        BY <4>1, SpotsFinite
    <3>4. \A x : Holds(d, x) \in Nat
      BY NobodyHolds
    <3>5. Attempts(d)' = Attempts(d) + Holds(d, h)
      <4>1. Holds(d, preparer.who) = 0 /\ Holds(d, preparer'.who) = Holds(d, h)
        BY <2>1, NobodyHolds
      <4>2. /\ authorizer' = authorizer /\ completer' = completer
            /\ prepared_queue' = prepared_queue
            /\ completion_queue' = completion_queue
        BY <1>1, <2>1
      <4>3. Attempts(d)' = Holds(d, h) + Holds(d, authorizer.who)
              + Holds(d, completer.who) + Occurs(d, prepared_queue)
              + Occurs(d, completion_queue)
        BY <4>1, <4>2, CountsNext
      <4> QED
        BY <3>2, <3>4, <4>1, <4>3 DEF Attempts
    <3>6. Waits(d)' = Waits(d) - Holds(d, h)
      <4>1. Waits(d)' = Holds(d, feeding) + Holds(d, retrying)
              + Occurs(d, source_queue') + retry_heap[d]
        BY <1>1, <2>1, CountsNext
      <4> QED
        BY <3>1, <3>2, <3>3, <3>4, <4>1 DEF Waits
    <3> QED
      BY <3>2, <3>5, <3>6
  <2>3. HolderTypes'
    BY <1>1, <2>1 DEF HolderInv, HolderTypes
  <2>4. Vacant' /\ RetryWaits'
    BY <1>1, <2>1 DEF HolderInv, Vacant, Running, RetryWaits
  <2>5. \A d \in Accounts : Attempts(d)' + Waits(d)' = Attempts(d) + Waits(d)
    BY <2>2, NobodyHolds
  <2>6. OneHolder'
    BY <1>1, <2>1, <2>5 DEF HolderInv, OneHolder, Running
  <2>7. PendingOwned'
    BY <1>1, <2>1, <2>2 DEF HolderInv, PendingOwned, Running, HolderTypes, Holds
  <2> QED
    BY <2>3, <2>4, <2>6, <2>7 DEF HolderInv
<1>4. CASE FlowStarted
  <2> DEFINE s == preparer.who
  <2>1. /\ s \in Accounts /\ prepared_queue \in Seq(Accounts)
        /\ prepared_queue' = Append(prepared_queue, s)
        /\ preparer'.who = NoOne /\ preparer'.at = "slot"
        /\ states' = [states EXCEPT ![s] = "prepared"]
        /\ UNCHANGED <<retry_heap, source_queue, pending>>
    BY <1>4 DEF FlowStarted, At, PipeInv, PipeTypes
  <2>2. ASSUME NEW d \in Accounts PROVE Attempts(d)' = Attempts(d)
    <3>1. Occurs(d, prepared_queue') = Occurs(d, prepared_queue) + Holds(d, s)
      BY <2>1, OccursAppend
    <3>2. /\ Occurs(d, prepared_queue) \in Nat /\ Occurs(d, completion_queue) \in Nat
      BY CountTypes DEF HolderInv, PipeInv
    <3>3. \A x : Holds(d, x) \in Nat
      BY NobodyHolds
    <3> QED
      BY <1>1, <2>1, <3>1, <3>2, <3>3, NobodyHolds DEF Attempts
  <2>3. HolderTypes' /\ Vacant'
    BY <1>1, <2>1 DEF HolderInv, HolderTypes, Vacant, Running, AccountState
  <2>4. Attempts(s) > 0
    <3>1. /\ Occurs(s, prepared_queue) \in Nat /\ Occurs(s, completion_queue) \in Nat
      BY <2>1, CountTypes DEF HolderInv, PipeInv
    <3> QED
      BY <2>1, <3>1, NobodyHolds DEF Attempts
  <2> HIDE DEF s
  <2> QED
    BY <1>1, <2>1, <2>2, <2>3, <2>4, AttemptMoves, WaitsKept
<1>5. CASE FlowFailed
  <2> DEFINE s == preparer.who
  <2>1. /\ s \in Accounts /\ (Terminal(s) \/ Transient(s))
        /\ preparer'.who = NoOne /\ preparer'.at = "slot"
        /\ UNCHANGED <<source_queue, prepared_queue>>
    BY <1>5 DEF FlowFailed, At, PipeInv, PipeTypes
  <2>2. Vacant'
    BY <1>1, <2>1 DEF HolderInv, Vacant, Running
  <2>3. phase # "off"
    BY <1>1 DEF Running
  <2> HIDE DEF s
  <2>4. \A d \in Accounts : /\ Attempts(d) = Attempts(d)' + Holds(d, s)
                            /\ Attempts(d)' \in Nat
    BY <1>1, <2>1, WorkerEnds DEF s
  <2> QED
    BY <1>1, <2>1, <2>2, <2>3, <2>4, EndShape, AttemptEnds
<1> QED
  BY <1>2, <1>3, <1>4, <1>5 DEF Prepare

LEMMA EnqueueCounts ==
  ASSUME PipeTypes, NEW s \in Accounts, NEW d \in Accounts
  PROVE  /\ Enqueue(s, feeding) /\ feeding = NoOne =>
              /\ Occurs(d, source_queue') \in Nat
              /\ Occurs(d, source_queue') + Holds(d, feeding')
                   = Occurs(d, source_queue) + Holds(d, s)
         /\ Enqueue(s, retrying) /\ retrying = NoOne =>
              /\ Occurs(d, source_queue') \in Nat
              /\ Occurs(d, source_queue') + Holds(d, retrying')
                   = Occurs(d, source_queue) + Holds(d, s)
<1>1. source_queue \in Seq(Accounts)
  BY DEF PipeTypes
<1>2. /\ Occurs(d, Append(source_queue, s))
           = Occurs(d, source_queue) + Holds(d, s)
      /\ Occurs(d, source_queue) \in Nat
  BY <1>1, OccursAppend, SpotsFinite
<1>3. Holds(d, s) \in Nat /\ Holds(d, NoOne) = 0
  BY NobodyHolds
<1>4. ASSUME Enqueue(s, feeding), feeding = NoOne
      PROVE  /\ Occurs(d, source_queue') \in Nat
             /\ Occurs(d, source_queue') + Holds(d, feeding')
                  = Occurs(d, source_queue) + Holds(d, s)
  <2>1. \/ source_queue' = Append(source_queue, s) /\ feeding' = NoOne
        \/ source_queue' = source_queue /\ feeding' = s
    BY <1>4, Zenon DEF Enqueue
  <2>2. CASE source_queue' = Append(source_queue, s) /\ feeding' = NoOne
    BY <1>2, <1>3, <2>2
  <2>3. CASE source_queue' = source_queue /\ feeding' = s
    BY <1>2, <1>3, <2>3
  <2> QED
    BY <2>1, <2>2, <2>3
<1>5. ASSUME Enqueue(s, retrying), retrying = NoOne
      PROVE  /\ Occurs(d, source_queue') \in Nat
             /\ Occurs(d, source_queue') + Holds(d, retrying')
                  = Occurs(d, source_queue) + Holds(d, s)
  <2>1. \/ source_queue' = Append(source_queue, s) /\ retrying' = NoOne
        \/ source_queue' = source_queue /\ retrying' = s
    BY <1>5, Zenon DEF Enqueue
  <2>2. CASE source_queue' = Append(source_queue, s) /\ retrying' = NoOne
    BY <1>2, <1>3, <2>2
  <2>3. CASE source_queue' = source_queue /\ retrying' = s
    BY <1>2, <1>3, <2>3
  <2> QED
    BY <2>1, <2>2, <2>3
<1> QED
  BY <1>4, <1>5

\* A step of the source or the retry task in which nothing but the queue of
\* waiting accounts moves.
LEMMA FeedLeaves ==
  ASSUME Feed \/ (\E s \in Accounts : admit(s))
  PROVE  /\ Running
         /\ UNCHANGED <<phase, preparer, authorizer, completer, prepared_queue,
                        completion_queue, pending, crashes>>
         /\ \A d \in Accounts : Attempts(d)' = Attempts(d)
<1>1. /\ Running
      /\ UNCHANGED <<phase, preparer, authorizer, completer, prepared_queue,
                     completion_queue, pending, crashes>>
  BY DEF Feed, FeedPut, RetryPut, RetryDue, admit, boundVars
<1> QED
  BY <1>1, CountsNext DEF Attempts

LEMMA FeedHolds ==
  ASSUME PipeInv, HolderInv, Feed \/ (\E s \in Accounts : admit(s))
  PROVE  HolderInv'
<1>1. /\ Running
      /\ UNCHANGED <<phase, preparer, authorizer, completer, prepared_queue,
                     completion_queue, pending, crashes>>
      /\ \A d \in Accounts : Attempts(d)' = Attempts(d)
  BY FeedLeaves
<1>2. PipeTypes /\ HolderTypes
  BY DEF PipeInv, HolderInv
<1>3. Vacant'
  BY <1>1 DEF HolderInv, Vacant
<1>4. PendingOwned'
  BY <1>1 DEF HolderInv, PendingOwned
<1>5. \A d \in Accounts :
        /\ Attempts(d) \in Nat /\ retry_heap[d] \in Nat
        /\ Occurs(d, source_queue) \in Nat
        /\ Holds(d, feeding) \in Nat /\ Holds(d, retrying) \in Nat
        /\ Holds(d, NoOne) = 0
  BY <1>2, CountTypes, NobodyHolds DEF HolderTypes
<1>6. \A d, x \in Accounts : Holds(d, x) = IF d = x THEN 1 ELSE 0
  BY DEF Holds
<1>7. CASE FeedPut \/ RetryPut
  <2>1. ASSUME NEW d \in Accounts PROVE Waits(d)' = Waits(d)
    <3>1. CASE FeedPut
      <4>1. /\ feeding \in Accounts /\ source_queue' = Append(source_queue, feeding)
            /\ feeding' = NoOne /\ UNCHANGED <<retrying, retry_heap>>
            /\ source_queue \in Seq(Accounts)
        BY <1>2, <3>1 DEF FeedPut, PipeTypes, Somebody
      <4>2. Occurs(d, source_queue') = Occurs(d, source_queue) + Holds(d, feeding)
        BY <4>1, OccursAppend
      <4>3. Waits(d)' = Holds(d, NoOne) + Holds(d, retrying)
                          + Occurs(d, source_queue') + retry_heap[d]
        BY <4>1, CountsNext
      <4> QED
        BY <1>5, <4>2, <4>3 DEF Waits
    <3>2. CASE RetryPut
      <4>1. /\ retrying \in Accounts /\ source_queue' = Append(source_queue, retrying)
            /\ retrying' = NoOne /\ UNCHANGED <<feeding, retry_heap>>
            /\ source_queue \in Seq(Accounts)
        BY <1>2, <3>2 DEF RetryPut, PipeTypes, Somebody
      <4>2. Occurs(d, source_queue') = Occurs(d, source_queue) + Holds(d, retrying)
        BY <4>1, OccursAppend
      <4>3. Waits(d)' = Holds(d, feeding) + Holds(d, NoOne)
                          + Occurs(d, source_queue') + retry_heap[d]
        BY <4>1, CountsNext
      <4> QED
        BY <1>5, <4>2, <4>3 DEF Waits
    <3> QED
      BY <1>7, <3>1, <3>2
  <2>2. UNCHANGED <<states, retry_heap>>
    BY <1>7 DEF FeedPut, RetryPut
  <2>3. HolderTypes'
    BY <1>1, <1>2, <2>2 DEF HolderTypes
  <2> QED
    BY <1>1, <1>3, <2>1, <2>2, <2>3, AttemptMoves
<1>8. ASSUME NEW s \in Accounts, admit(s) PROVE HolderInv'
  <2>1. /\ feeding = NoOne /\ Enqueue(s, feeding) /\ states[s] = "new"
        /\ states' = [states EXCEPT ![s] = "queued"]
        /\ UNCHANGED <<retrying, retry_heap>>
    BY <1>8 DEF admit
  <2>2. \A d \in Accounts : Waits(d)' = Waits(d) + Holds(d, s)
    <3> TAKE d \in Accounts
    <3>1. /\ Occurs(d, source_queue') \in Nat
          /\ Occurs(d, source_queue') + Holds(d, feeding')
               = Occurs(d, source_queue) + Holds(d, s)
      BY <1>2, <2>1, EnqueueCounts
    <3>2. Waits(d)' = Holds(d, feeding') + Holds(d, retrying)
                        + Occurs(d, source_queue') + retry_heap[d]
      BY <2>1, CountsNext
    <3>3. Holds(d, feeding') \in Nat /\ Holds(d, s) \in Nat /\ Holds(d, feeding) = 0
      BY <2>1, NobodyHolds
    <3> QED
      BY <1>5, <3>1, <3>2, <3>3 DEF Waits
  <2>3. HolderTypes' /\ RetryWaits'
    BY <1>1, <1>2, <2>1
    DEF HolderInv, HolderTypes, AccountState, RetryWaits, Running
  <2>4. OneHolder'
    <3>1. \A d \in Accounts : Waits(d) \in Nat
      BY <1>2, CountTypes
    <3> QED
      BY <1>1, <1>2, <1>5, <1>6, <2>1, <2>2, <3>1
      DEF HolderInv, HolderTypes, OneHolder, Running, Live
  <2> QED
    BY <1>3, <1>4, <2>3, <2>4 DEF HolderInv
<1>9. ASSUME NEW s \in Accounts, RetryDue(s) PROVE HolderInv'
  <2>1. /\ retrying = NoOne /\ Enqueue(s, retrying) /\ states[s] = "retry"
        /\ states' = [states EXCEPT ![s] = "queued"]
        /\ retry_heap[s] > 0 /\ retry_heap' = [retry_heap EXCEPT ![s] = @ - 1]
        /\ UNCHANGED feeding
    BY <1>1, <1>9 DEF RetryDue, HolderInv, RetryWaits
  <2>2. \A d \in Accounts : Waits(d)' = Waits(d)
    <3> TAKE d \in Accounts
    <3>1. /\ Occurs(d, source_queue') \in Nat
          /\ Occurs(d, source_queue') + Holds(d, retrying')
               = Occurs(d, source_queue) + Holds(d, s)
      BY <1>2, <2>1, EnqueueCounts
    <3>2. Waits(d)' = Holds(d, feeding) + Holds(d, retrying')
                        + Occurs(d, source_queue') + retry_heap'[d]
      BY <2>1, CountsNext
    <3>3. /\ Holds(d, retrying') \in Nat /\ Holds(d, s) \in Nat
          /\ Holds(d, retrying) = 0
      BY <2>1, NobodyHolds
    <3>4. retry_heap'[d] = retry_heap[d] - Holds(d, s)
      BY <1>2, <1>6, <2>1 DEF HolderTypes
    <3> QED
      BY <1>5, <3>1, <3>2, <3>3, <3>4 DEF Waits
  <2>3. HolderTypes'
    BY <1>1, <1>2, <2>1 DEF HolderTypes, AccountState
  <2>4. OneHolder'
    BY <1>1, <1>2, <2>1, <2>2 DEF HolderInv, HolderTypes, OneHolder, Running, Live
  <2>5. RetryWaits'
    <3>1. Attempts(s) + Waits(s) = 1
      BY <1>1, <2>1 DEF HolderInv, OneHolder, Live
    <3>2. retry_heap[s] = 1
      BY <1>5, <2>1, <3>1 DEF Waits
    <3>3. retry_heap'[s] = 0
      BY <1>2, <2>1, <3>2 DEF HolderTypes
    <3>4. \A d \in Accounts : d # s =>
            retry_heap'[d] = retry_heap[d] /\ states'[d] = states[d]
      BY <1>2, <2>1 DEF HolderTypes
    <3> QED
      BY <1>1, <3>3, <3>4 DEF HolderInv, RetryWaits
  <2> QED
    BY <1>3, <1>4, <2>3, <2>4, <2>5 DEF HolderInv
<1> QED
  BY <1>7, <1>8, <1>9 DEF Feed

\* What no step of the authorizer touches but its get and its put.
besideAuthorizer == <<phase, feeding, retrying, source_queue, preparer,
                      completer, prepared_queue, completion_queue, crashes>>

LEMMA AuthorizerEnds ==
  ASSUME PipeInv, HolderInv, Running, authorizer.at # "idle",
         authorizer' = Nowhere, UNCHANGED besideAuthorizer,
         EndsHere(authorizer.who)
  PROVE  HolderInv'
<1> DEFINE s == authorizer.who
<1>1. s \in Accounts /\ authorizer'.who = NoOne /\ authorizer'.at = "idle"
  BY DEF PipeInv, PipeTypes, Nowhere, At
<1>2. Vacant'
  BY <1>1 DEF HolderInv, Vacant, Running, besideAuthorizer
<1>3. \A d \in Accounts : /\ Attempts(d) = Attempts(d)' + Holds(d, s)
                          /\ Attempts(d)' \in Nat
  BY <1>1, WorkerEnds DEF besideAuthorizer
<1>4. phase # "off"
  BY DEF Running
<1> HIDE DEF s
<1>5. EndsHere(s)
  BY DEF s
<1> QED
  BY <1>1, <1>2, <1>3, <1>4, <1>5, AttemptEnds DEF besideAuthorizer

LEMMA AuthorizerKeeps ==
  ASSUME PipeInv, HolderInv, Running, authorizer.at # "idle",
         NEW place, place # "idle", authorizer' = At(place, authorizer.who),
         UNCHANGED besideAuthorizer, UNCHANGED <<retry_heap, pending>>,
         \/ UNCHANGED states
         \/ states' = [states EXCEPT ![authorizer.who] = "active"]
  PROVE  HolderInv'
<1> DEFINE s == authorizer.who
<1>1. s \in Accounts /\ authorizer'.who = s /\ authorizer'.at = place
  BY DEF PipeInv, PipeTypes, At
<1>2. Vacant'
  BY <1>1 DEF HolderInv, Vacant, Running, besideAuthorizer
<1>3. HolderTypes'
  BY <1>1 DEF HolderInv, HolderTypes, AccountState, besideAuthorizer
<1>4. \A d \in Accounts : Attempts(d)' = Attempts(d) /\ Waits(d)' = Waits(d)
  BY <1>1, WaitsKept, CountsNext DEF Attempts, besideAuthorizer
<1>5. Attempts(s) > 0
  BY <1>1, NobodyHolds, CountTypes DEF Attempts, HolderInv, PipeInv
<1> HIDE DEF s
<1>6. UNCHANGED states \/ states' = [states EXCEPT ![s] = "active"]
  BY DEF s
<1> QED
  BY <1>1, <1>2, <1>3, <1>4, <1>5, <1>6, AttemptMoves DEF besideAuthorizer

LEMMA AlreadyImportedEnds ==
  ASSUME NEW s, AlreadyImported(s)
  PROVE  EndsHere(s) /\ authorizer' = Nowhere
BY DEF AlreadyImported, EndsHere

LEMMA AuthorizerStarts ==
  ASSUME PipeInv, HolderInv, Running, authorizer.at # "idle",
         Start(authorizer.who), UNCHANGED besideAuthorizer
  PROVE  HolderInv'
<1>1. CASE AlreadyImported(authorizer.who)
  BY <1>1, AlreadyImportedEnds, AuthorizerEnds
<1>2. CASE ~AlreadyImported(authorizer.who)
  <2>1. /\ states' = [states EXCEPT ![authorizer.who] = "active"]
        /\ authorizer' = At("confirm", authorizer.who)
        /\ UNCHANGED <<retry_heap, pending>>
    BY <1>2 DEF Start
  <2> QED
    BY <2>1, AuthorizerKeeps
<1> QED
  BY <1>1, <1>2

\* A confirmed account goes on to the completion queue.
LEMMA ConfirmedPut ==
  ASSUME PipeInv, HolderInv, Running, authorizer.at # "idle",
         authorizer' = Nowhere,
         completion_queue' = Append(completion_queue, authorizer.who),
         UNCHANGED <<phase, feeding, retrying, source_queue, preparer, completer,
                     prepared_queue, crashes>>,
         UNCHANGED <<states, retry_heap, pending>>
  PROVE  HolderInv'
<1> DEFINE s == authorizer.who
<1>1. /\ s \in Accounts /\ authorizer'.who = NoOne /\ authorizer'.at = "idle"
      /\ completion_queue \in Seq(Accounts)
  BY DEF PipeInv, PipeTypes, Nowhere, At
<1>2. Vacant' /\ HolderTypes'
  BY <1>1 DEF HolderInv, HolderTypes, Vacant, Running
<1>3. ASSUME NEW d \in Accounts PROVE Attempts(d)' = Attempts(d)
  <2>1. Occurs(d, completion_queue') = Occurs(d, completion_queue) + Holds(d, s)
    BY <1>1, OccursAppend
  <2>2. /\ Occurs(d, prepared_queue) \in Nat /\ Occurs(d, completion_queue) \in Nat
        /\ Holds(d, authorizer'.who) = 0
    BY <1>1, CountTypes, NobodyHolds DEF HolderInv, PipeInv
  <2>3. \A x : Holds(d, x) \in Nat
    BY NobodyHolds
  <2>4. Attempts(d)' = Holds(d, preparer.who) + 0 + Holds(d, completer.who)
                         + Occurs(d, prepared_queue) + Occurs(d, completion_queue')
    BY <2>2, CountsNext
  <2> QED
    BY <2>1, <2>2, <2>3, <2>4 DEF Attempts
<1> HIDE DEF s
<1> QED
  BY <1>1, <1>2, <1>3, WaitsKept, AttemptMoves

LEMMA AuthorizeHolds ==
  ASSUME PipeInv, HolderInv, Authorize
  PROVE  HolderInv'
<1>1. /\ Running
      /\ UNCHANGED <<phase, feeding, retrying, source_queue, preparer, completer,
                     crashes>>
  BY DEF Authorize, AuthorizeGet, Paced, wait_for_permission, FlowFresh,
         FlowStale, Refreshed, RefreshFailed, Confirmed, PutCompletion,
         ConfirmLimited, ConfirmFailed, AuthorizerAt, Running,
         authorizeUnchanged, boundVars
<1>2. CASE AuthorizeGet
  <2> DEFINE h == Head(prepared_queue)
  <2>1. /\ h \in Accounts /\ prepared_queue \in Seq(Accounts)
        /\ prepared_queue # <<>> /\ prepared_queue' = Tail(prepared_queue)
        /\ Tail(prepared_queue) \in Seq(Accounts)
        /\ authorizer.who = NoOne
        /\ authorizer'.who = h /\ authorizer'.at = "pace"
        /\ UNCHANGED <<states, retry_heap, completion_queue, pending>>
    BY <1>2 DEF AuthorizeGet, At, PipeInv, PipeTypes, HolderInv, Vacant
  <2> HIDE DEF h
  <2>2. ASSUME NEW d \in Accounts PROVE Attempts(d)' = Attempts(d)
    <3>1. Occurs(d, prepared_queue) = Holds(d, h) + Occurs(d, prepared_queue')
      BY <2>1, OccursTail DEF h
    <3>2. /\ Occurs(d, completion_queue) \in Nat
          /\ Occurs(d, prepared_queue') \in Nat
      BY <2>1, SpotsFinite, CountTypes DEF HolderInv, PipeInv
    <3>3. (\A x : Holds(d, x) \in Nat) /\ Holds(d, NoOne) = 0
      BY NobodyHolds
    <3>4. Attempts(d)' = Holds(d, preparer.who) + Holds(d, h)
            + Holds(d, completer.who) + Occurs(d, prepared_queue')
            + Occurs(d, completion_queue)
      BY <1>1, <2>1, CountsNext
    <3> QED
      BY <2>1, <3>1, <3>2, <3>3, <3>4 DEF Attempts
  <2>3. HolderTypes' /\ Vacant'
    BY <1>1, <2>1 DEF HolderInv, HolderTypes, Vacant, Running
  <2> QED
    BY <1>1, <2>1, <2>2, <2>3, WaitsKept, AttemptMoves
<1>3. CASE Paced
  <2>1. /\ authorizer.at # "idle" /\ UNCHANGED besideAuthorizer
    BY <1>1, <1>3 DEF Paced, AuthorizerAt, besideAuthorizer
  <2>2. CASE AlreadyImported(authorizer.who)
    BY <1>1, <2>1, <2>2, AlreadyImportedEnds, AuthorizerEnds
  <2>3. CASE ~AlreadyImported(authorizer.who)
    BY <1>1, <1>3, <2>1, <2>3, AuthorizerKeeps DEF Paced
  <2> QED
    BY <2>2, <2>3
<1>4. CASE wait_for_permission
  BY <1>1, <1>4, AuthorizerKeeps
  DEF wait_for_permission, AuthorizerAt, besideAuthorizer
<1>5. CASE FlowFresh
  BY <1>1, <1>5, AuthorizerStarts DEF FlowFresh, AuthorizerAt, besideAuthorizer
<1>6. CASE FlowStale
  BY <1>1, <1>6, AuthorizerKeeps DEF FlowStale, AuthorizerAt, besideAuthorizer
<1>7. CASE Refreshed
  BY <1>1, <1>7, AuthorizerStarts, AuthorizerKeeps
  DEF Refreshed, AuthorizerAt, besideAuthorizer
<1>8. CASE RefreshFailed \/ ConfirmFailed \/ ConfirmLimited
  <2> DEFINE s == authorizer.who
  <2>1. /\ authorizer.at # "idle" /\ UNCHANGED besideAuthorizer
        /\ authorizer' = Nowhere /\ s \in Accounts
        /\ Terminal(s) \/ Transient(s) \/ ScheduleRetry(s)
    BY <1>1, <1>8
    DEF RefreshFailed, ConfirmFailed, ConfirmLimited, AuthorizerAt,
        besideAuthorizer, PipeInv, PipeTypes
  <2>2. EndsHere(s)
    BY <2>1, EndShape
  <2> QED
    BY <1>1, <2>1, <2>2, AuthorizerEnds
<1>9. CASE Confirmed
  <2>1. CASE Len(completion_queue) < CompletionCap
    BY <1>1, <1>9, <2>1, ConfirmedPut DEF Confirmed, AuthorizerAt
  <2>2. CASE ~(Len(completion_queue) < CompletionCap)
    BY <1>1, <1>9, <2>2, AuthorizerKeeps
    DEF Confirmed, AuthorizerAt, besideAuthorizer
  <2> QED
    BY <2>1, <2>2
<1>10. CASE PutCompletion
  BY <1>1, <1>10, ConfirmedPut DEF PutCompletion, AuthorizerAt
<1> QED
  BY <1>2, <1>3, <1>4, <1>5, <1>6, <1>7, <1>8, <1>9, <1>10 DEF Authorize

LEMMA CompleterEnds ==
  ASSUME PipeInv, HolderInv, completer.at # "idle", completer' = Nowhere,
         UNCHANGED <<phase, feeding, retrying, source_queue, preparer,
                     authorizer, prepared_queue, completion_queue, crashes>>,
         EndsHere(completer.who)
  PROVE  HolderInv'
<1> DEFINE s == completer.who
<1>1. s \in Accounts /\ completer'.who = NoOne /\ completer'.at = "idle"
  BY DEF PipeInv, PipeTypes, Nowhere, At
<1>2. Vacant'
  BY <1>1 DEF HolderInv, Vacant
<1>3. \A d \in Accounts : /\ Attempts(d) = Attempts(d)' + Holds(d, s)
                          /\ Attempts(d)' \in Nat
  BY <1>1, WorkerEnds
<1>4. phase # "off"
  BY DEF HolderInv, Vacant
<1> HIDE DEF s
<1>5. EndsHere(s)
  BY DEF s
<1> QED
  BY <1>1, <1>2, <1>3, <1>4, <1>5, AttemptEnds

LEMMA CompleteHolds ==
  ASSUME PipeInv, HolderInv, Complete
  PROVE  HolderInv'
<1>1. UNCHANGED <<phase, feeding, retrying, source_queue, preparer, authorizer,
                  prepared_queue, crashes>>
  BY DEF Complete, CompleteGet, PollFailed, Polled, Stored, StoreFailed,
         Imported, completeUnchanged, boundVars
<1>2. CASE CompleteGet
  <2> DEFINE h == Head(completion_queue)
  <2>1. /\ h \in Accounts /\ completion_queue \in Seq(Accounts)
        /\ completion_queue # <<>> /\ completion_queue' = Tail(completion_queue)
        /\ Tail(completion_queue) \in Seq(Accounts)
        /\ completer.who = NoOne /\ Running
        /\ completer'.who = h /\ completer'.at = "poll"
        /\ UNCHANGED <<states, retry_heap, pending>>
    BY <1>2 DEF CompleteGet, At, PipeInv, PipeTypes, HolderInv, Vacant
  <2> HIDE DEF h
  <2>2. ASSUME NEW d \in Accounts PROVE Attempts(d)' = Attempts(d)
    <3>1. Occurs(d, completion_queue) = Holds(d, h) + Occurs(d, completion_queue')
      BY <2>1, OccursTail DEF h
    <3>2. /\ Occurs(d, prepared_queue) \in Nat
          /\ Occurs(d, completion_queue') \in Nat
      BY <2>1, SpotsFinite, CountTypes DEF HolderInv, PipeInv
    <3>3. (\A x : Holds(d, x) \in Nat) /\ Holds(d, NoOne) = 0
      BY NobodyHolds
    <3>4. Attempts(d)' = Holds(d, preparer.who) + Holds(d, authorizer.who)
            + Holds(d, h) + Occurs(d, prepared_queue)
            + Occurs(d, completion_queue')
      BY <1>1, <2>1, CountsNext
    <3> QED
      BY <2>1, <3>1, <3>2, <3>3, <3>4 DEF Attempts
  <2>3. HolderTypes' /\ Vacant'
    BY <1>1, <2>1 DEF HolderInv, HolderTypes, Vacant, Running
  <2> QED
    BY <1>1, <2>1, <2>2, <2>3, WaitsKept, AttemptMoves
<1>3. CASE PollFailed \/ StoreFailed \/ Imported
  <2> DEFINE s == completer.who
  <2>1. /\ completer.at # "idle" /\ completer' = Nowhere /\ s \in Accounts
        /\ UNCHANGED completion_queue
    BY <1>3 DEF PollFailed, StoreFailed, Imported, PipeInv, PipeTypes
  <2>2. EndsHere(s)
    BY <1>3, <2>1, EndShape DEF PollFailed, StoreFailed, Imported, EndsHere
  <2> QED
    BY <1>1, <2>1, <2>2, CompleterEnds
<1>4. CASE Polled
  <2>1. /\ completer'.who = completer.who /\ completer'.at = "store" /\ Running
        /\ UNCHANGED <<completion_queue, states, retry_heap, pending>>
    BY <1>4 DEF Polled, At
  <2>2. \A d \in Accounts : Attempts(d)' = Attempts(d)
    BY <1>1, <2>1, CountsNext DEF Attempts
  <2>3. HolderTypes' /\ Vacant'
    BY <1>1, <2>1 DEF HolderInv, HolderTypes, Vacant, Running
  <2> QED
    BY <1>1, <2>1, <2>2, <2>3, WaitsKept, AttemptMoves
<1>5. CASE Stored
  BY <1>1, <1>5, PlacesKept DEF Stored, placeVars, queueVars
<1> QED
  BY <1>2, <1>3, <1>4, <1>5 DEF Complete

\* The jobs of three workers, or of two queues, end at once.
LEMMA OccursTriple ==
  ASSUME NEW s, NEW a \in Somebody, NEW b \in Somebody, NEW c \in Somebody
  PROVE  Occurs(s, <<a, b, c>>) = Holds(s, a) + Holds(s, b) + Holds(s, c)
<1>1. /\ <<a>> \in Seq(Somebody) /\ <<a, b>> \in Seq(Somebody)
      /\ <<a, b>> = Append(<<a>>, b) /\ <<a, b, c>> = Append(<<a, b>>, c)
  OBVIOUS
<1>2. Occurs(s, <<a>>) = Holds(s, a)
  BY OccursOne
<1>3. Occurs(s, <<a, b>>) = Occurs(s, <<a>>) + Holds(s, b)
  BY <1>1, OccursAppend
<1>4. Occurs(s, <<a, b, c>>) = Occurs(s, <<a, b>>) + Holds(s, c)
  BY <1>1, OccursAppend
<1> QED
  BY <1>2, <1>3, <1>4

LEMMA JobsEndCounts ==
  ASSUME NEW workers, JobsEnd(workers)
  PROVE  /\ pending' = [s \in Accounts |-> pending[s] - Occurs(s, workers)]
         /\ \A s \in Accounts : pending'[s] = pending[s] - Occurs(s, workers)
BY DEF JobsEnd, Occurs

LEMMA ShutdownHolds ==
  ASSUME PipeInv, HolderInv, shutdown
  PROVE  HolderInv'
<1> DEFINE polled == IF completer.at = "poll" THEN completer.who ELSE NoOne
<1>1. /\ Running /\ phase' = "stopping"
      /\ JobsEnd(<<preparer.who, authorizer.who, polled>>)
      /\ preparer' = Nowhere /\ authorizer' = Nowhere
      /\ completer' = IF completer.at = "poll" THEN Nowhere ELSE completer
      /\ UNCHANGED <<retry_heap, prepared_queue, completion_queue, crashes>>
  BY DEF shutdown, boundVars
<1>2. /\ preparer.who \in Somebody /\ authorizer.who \in Somebody
      /\ polled \in Somebody
  BY DEF PipeInv, PipeTypes, Somebody
<1>3. /\ preparer'.who = NoOne /\ authorizer'.who = NoOne
      /\ preparer'.at = "idle" /\ authorizer'.at = "idle"
      /\ completer'.who = IF completer.at = "poll" THEN NoOne ELSE completer.who
      /\ completer'.at = "idle" => completer'.who = NoOne
  BY <1>1 DEF Nowhere, At, HolderInv, Vacant
<1> HIDE DEF polled
<1>4. ASSUME NEW d \in Accounts
      PROVE  /\ pending'[d] = Attempts(d)' /\ Attempts(d)' \in Nat
  <2>1. /\ Occurs(d, prepared_queue) \in Nat /\ Occurs(d, completion_queue) \in Nat
        /\ \A x : Holds(d, x) \in Nat
        /\ Holds(d, NoOne) = 0
    BY CountTypes, NobodyHolds DEF HolderInv, PipeInv
  <2>2. Attempts(d)' = Holds(d, completer'.who) + Occurs(d, prepared_queue)
                        + Occurs(d, completion_queue)
    BY <1>1, <1>3, <2>1, CountsNext
  <2>3. Holds(d, completer.who) = Holds(d, polled) + Holds(d, completer'.who)
    BY <1>3, <2>1 DEF polled
  <2>4. pending'[d] = pending[d]
          - (Holds(d, preparer.who) + Holds(d, authorizer.who) + Holds(d, polled))
    BY <1>1, <1>2, JobsEndCounts, OccursTriple
  <2>5. pending[d] = Attempts(d)
    BY <1>1 DEF HolderInv, PendingOwned, Running
  <2> QED
    BY <2>1, <2>2, <2>3, <2>4, <2>5 DEF Attempts
<1>5. HolderTypes'
  <2>1. pending' \in [Accounts -> Nat]
    BY <1>1, <1>4, JobsEndCounts
  <2>2. states' \in [Accounts -> AccountState]
    BY DEF shutdown, HolderInv, HolderTypes, AccountState
  <2> QED
    BY <1>1, <2>1, <2>2 DEF HolderInv, HolderTypes
<1> QED
  BY <1>1, <1>3, <1>4, <1>5
  DEF HolderInv, Vacant, RetryWaits, OneHolder, PendingOwned, Running

LEMMA CommandHolds ==
  ASSUME PipeInv, HolderInv, Command
  PROVE  HolderInv'
<1>1. CASE Pause \/ Resume
  BY <1>1, PlacesKept DEF Pause, Resume, placeVars, queueVars, boundVars
<1>2. CASE cancel_active
  <2>1. CASE Cancellable
    <3>1. /\ Running /\ authorizer.at # "idle" /\ authorizer' = Nowhere
          /\ UNCHANGED besideAuthorizer /\ ScheduleRetry(authorizer.who)
          /\ authorizer.who \in Accounts
      BY <1>2, <2>1
      DEF cancel_active, Cancellable, besideAuthorizer, boundVars, PipeInv,
          PipeTypes
    <3> QED
      BY <3>1, EndShape, AuthorizerEnds
  <2>2. CASE ~Cancellable
    <3>1. /\ completer.at # "idle" /\ completer' = Nowhere
          /\ UNCHANGED <<phase, feeding, retrying, source_queue, preparer,
                         authorizer, prepared_queue, completion_queue, crashes>>
          /\ ScheduleRetry(completer.who) /\ completer.who \in Accounts
      BY <1>2, <2>2 DEF cancel_active, boundVars, PipeInv, PipeTypes
    <3> QED
      BY <3>1, EndShape, CompleterEnds
  <2> QED
    BY <2>1, <2>2
<1>3. CASE shutdown
  BY <1>3, ShutdownHolds
<1> QED
  BY <1>1, <1>2, <1>3 DEF Command

\* A pipeline that has just been constructed holds nobody.
LEMMA FreshHolds ==
  ASSUME NEW known, Fresh(known), phase' \in {"off", "running"},
         pending' \in [Accounts -> Nat], crashes' \in Nat
  PROVE  /\ HolderTypes' /\ Vacant' /\ RetryWaits' /\ OneHolder'
         /\ \A d \in Accounts : Attempts(d)' = 0
<1>1. /\ source_queue' = <<>> /\ prepared_queue' = <<>>
      /\ completion_queue' = <<>>
      /\ feeding' = NoOne /\ retrying' = NoOne
      /\ preparer'.who = NoOne /\ preparer'.at = "slot"
      /\ authorizer'.who = NoOne /\ authorizer'.at = "idle"
      /\ completer'.who = NoOne /\ completer'.at = "idle"
      /\ retry_heap' = [s \in Accounts |-> 0]
      /\ states' = [s \in Accounts |-> IF s \in known THEN "imported" ELSE "new"]
  BY DEF Fresh, At, Nowhere
<1>2. ASSUME NEW d \in Accounts PROVE Attempts(d)' = 0 /\ Waits(d)' = 0
  <2>1. /\ Occurs(d, source_queue') = 0 /\ Occurs(d, prepared_queue') = 0
        /\ Occurs(d, completion_queue') = 0 /\ Holds(d, NoOne) = 0
        /\ retry_heap'[d] = 0
    BY <1>1, OccursEmpty, NobodyHolds
  <2> QED
    BY <1>1, <2>1, CountsNext
<1>3. HolderTypes' /\ Vacant' /\ RetryWaits'
  BY <1>1 DEF HolderTypes, AccountState, Vacant, RetryWaits
<1>4. OneHolder'
  BY <1>1, <1>2 DEF OneHolder, Live
<1> QED
  BY <1>2, <1>3, <1>4

LEMMA SettleHolds ==
  ASSUME PipeInv, HolderInv, settle
  PROVE  HolderInv'
<1>1. /\ phase = "stopping" /\ completer.at = "idle" /\ phase' = "off"
      /\ JobsEnd(prepared_queue \o completion_queue)
      /\ Fresh({}) /\ UNCHANGED crashes
  BY DEF settle, boundVars
<1>2. ASSUME NEW d \in Accounts PROVE pending'[d] = 0
  <2>1. /\ Occurs(d, prepared_queue) \in Nat /\ Occurs(d, completion_queue) \in Nat
        /\ Holds(d, preparer.who) = 0 /\ Holds(d, authorizer.who) = 0
        /\ Holds(d, completer.who) = 0
    BY <1>1, CountTypes, NobodyHolds DEF HolderInv, PipeInv, Vacant
  <2>2. Occurs(d, prepared_queue \o completion_queue)
          = Occurs(d, prepared_queue) + Occurs(d, completion_queue)
    BY OccursConcat DEF PipeInv, PipeTypes
  <2>3. pending[d] = Attempts(d)
    BY <1>1 DEF HolderInv, PendingOwned
  <2> QED
    BY <1>1, <2>1, <2>2, <2>3, JobsEndCounts DEF Attempts
<1>3. pending' \in [Accounts -> Nat]
  BY <1>1, <1>2, JobsEndCounts
<1>4. crashes' \in Nat
  BY <1>1 DEF HolderInv, HolderTypes
<1> QED
  BY <1>1, <1>2, <1>3, <1>4, FreshHolds DEF HolderInv, PendingOwned

LEMMA ProcessHolds ==
  ASSUME PipeInv, HolderInv,
         Process \/ Crash \/ Cooled
           \/ \E s \in Accounts : ImportedElsewhere(s) \/ TakenByHand(s)
  PROVE  HolderInv'
<1>1. CASE settle
  BY <1>1, SettleHolds
<1>2. CASE Crash
  <2>1. /\ Fresh({}) /\ phase' = "off" /\ pending' = pending
        /\ crashes' = crashes + 1
    BY <1>2 DEF Crash
  <2>2. crashes' \in Nat \ {0} /\ pending' \in [Accounts -> Nat]
    BY <2>1 DEF HolderInv, HolderTypes
  <2> QED
    BY <2>1, <2>2, FreshHolds DEF HolderInv, PendingOwned
<1>3. CASE AuthPipelineInit
  <2>1. /\ Fresh({s \in Accounts : has_imported(s)}) /\ phase' = "running"
        /\ pending' = [s \in Accounts |-> 0] /\ UNCHANGED crashes
    BY <1>3 DEF AuthPipelineInit, boundVars
  <2>2. crashes' \in Nat /\ pending' \in [Accounts -> Nat]
    BY <2>1 DEF HolderInv, HolderTypes
  <2> QED
    BY <2>1, <2>2, FreshHolds DEF HolderInv, PendingOwned
<1>4. CASE Restart \/ Inventory \/ Cooled
           \/ \E s \in Accounts : ImportedElsewhere(s) \/ TakenByHand(s)
  BY <1>4, PlacesKept
  DEF Restart, Inventory, Cooled, ImportedElsewhere, TakenByHand, restVars,
      placeVars, queueVars, boundVars
<1> QED
  BY <1>1, <1>2, <1>3, <1>4 DEF Process

LEMMA HolderInitInv == Init => HolderInv
<1> SUFFICES ASSUME Init PROVE HolderInv
  OBVIOUS
<1>1. /\ phase = "off" /\ crashes = 0 /\ pending = [s \in Accounts |-> 0]
      /\ preparer.who = NoOne /\ preparer.at = "slot"
      /\ authorizer.who = NoOne /\ authorizer.at = "idle"
      /\ completer.who = NoOne /\ completer.at = "idle"
      /\ retry_heap = [s \in Accounts |-> 0]
      /\ states = [s \in Accounts |-> "new"]
  BY DEF Init, At, Nowhere
<1> QED
  BY <1>1 DEF HolderInv, HolderTypes, AccountState, Vacant, RetryWaits,
              OneHolder, PendingOwned, Running

LEMMA HolderStepInv == PipeInv /\ HolderInv /\ [Next]_vars => HolderInv'
<1> SUFFICES ASSUME PipeInv, HolderInv, [Next]_vars PROVE HolderInv'
  OBVIOUS
<1>1. CASE UNCHANGED vars
  BY <1>1, PlacesKept DEF vars, placeVars, queueVars, boundVars
<1> QED
  BY <1>1, FeedHolds, PrepareHolds, AuthorizeHolds, CompleteHolds, CommandHolds,
     ProcessHolds DEF Next

LEMMA HolderAlways == Spec => []HolderInv
BY HolderInitInv, HolderStepInv, AuthInvariant, PTL DEF Spec, AuthInv

\* An account in work is in exactly one place of the running pipeline: none is
\* lost between two tasks, none is worked twice, whatever fails, is retried,
\* cancelled or restarted.
THEOREM HeldOnce == Spec => []OneHolder
<1>1. HolderInv => OneHolder
  BY DEF HolderInv
<1> QED
  BY <1>1, HolderAlways, PTL

\* A pending job of the ledger is that of an attempt in some stage, and an
\* orderly stop leaves none.
THEOREM PendingIsOwned == Spec => []PendingOwned
<1>1. HolderInv => PendingOwned
  BY DEF HolderInv
<1> QED
  BY <1>1, HolderAlways, PTL

----------------------------------------------------------------------------
\* Whoever is on the way to an import has none of this service on record: the
\* ledger was asked when the confirmation began, and nobody else has had the
\* account since.

ImportsJustified ==
  /\ foreign \in Nat
  /\ completer.at # "idle" => imports[completer.who] =< foreign
  /\ Running /\ authorizer.at \in {"confirm", "put"} =>
       imports[authorizer.who] =< foreign
  /\ Running => \A s \in Accounts :
       Occurs(s, completion_queue) > 0 => imports[s] =< foreign

ImportInv == ImportsJustified /\ NoSecondImport

LEMMA ImportInitInv == Init => ImportInv
<1> SUFFICES ASSUME Init PROVE ImportInv
  OBVIOUS
<1>1. /\ phase = "off" /\ foreign = 0 /\ completer.at = "idle"
      /\ imports = [s \in Accounts |-> IF s \in imported THEN 1 ELSE 0]
  BY DEF Init, At, Nowhere
<1> QED
  BY <1>1 DEF ImportInv, ImportsJustified, NoSecondImport, Running

LEMMA ImportKept ==
  ASSUME ImportInv, UNCHANGED <<phase, authorizer, completer, completion_queue,
                                imports, foreign>>
  PROVE  ImportInv'
BY DEF ImportInv, ImportsJustified, NoSecondImport, Running

\* The authorizer takes its account, or another, somewhere: on the last way
\* only after the look at the ledger, or from the place before.
LEMMA ImportAuthorizer ==
  ASSUME PipeInv, ImportInv, Running,
         UNCHANGED <<phase, completer, imports, foreign>>,
         \/ authorizer'.at \notin {"confirm", "put"}
         \/ imports[authorizer'.who] =< foreign,
         \/ UNCHANGED completion_queue
         \/ /\ authorizer.at \in {"confirm", "put"}
            /\ completion_queue' = Append(completion_queue, authorizer.who)
  PROVE  ImportInv'
<1>1. ASSUME NEW s \in Accounts, Occurs(s, completion_queue') > 0
      PROVE  imports[s] =< foreign
  <2>1. CASE UNCHANGED completion_queue
    BY <1>1, <2>1 DEF ImportInv, ImportsJustified
  <2>2. CASE /\ authorizer.at \in {"confirm", "put"}
             /\ completion_queue' = Append(completion_queue, authorizer.who)
    <3>1. authorizer.who \in Accounts /\ completion_queue \in Seq(Accounts)
      BY <2>2 DEF PipeInv, PipeTypes
    <3>2. Occurs(s, completion_queue')
            = Occurs(s, completion_queue) + Holds(s, authorizer.who)
      BY <2>2, <3>1, OccursAppend
    <3>3. CASE s = authorizer.who
      BY <2>2, <3>3 DEF ImportInv, ImportsJustified
    <3>4. CASE s # authorizer.who
      <4>1. Occurs(s, completion_queue) > 0
        <5>1. Holds(s, authorizer.who) = 0
          BY <3>4 DEF Holds
        <5>2. Occurs(s, completion_queue) \in Nat
          BY <3>1, SpotsFinite
        <5> QED
          BY <1>1, <3>2, <5>1, <5>2
      <4> QED
        BY <4>1 DEF ImportInv, ImportsJustified
    <3> QED
      BY <3>3, <3>4
  <2> QED
    BY <2>1, <2>2
<1> QED
  BY <1>1 DEF ImportInv, ImportsJustified, NoSecondImport, Running

LEMMA ImportStarts ==
  ASSUME PipeInv, ImportInv, Running, authorizer.at # "idle",
         Start(authorizer.who),
         UNCHANGED <<phase, completer, completion_queue, imports, foreign>>
  PROVE  ImportInv'
<1>1. CASE AlreadyImported(authorizer.who)
  BY <1>1, ImportAuthorizer DEF AlreadyImported, Nowhere, At
<1>2. CASE ~AlreadyImported(authorizer.who)
  <2>1. /\ ~has_imported(authorizer.who)
        /\ authorizer' = At("confirm", authorizer.who)
    BY <1>2 DEF Start
  <2>2. imports[authorizer.who] = 0
    BY <2>1 DEF has_imported, PipeInv, PipeTypes
  <2>3. imports[authorizer'.who] =< foreign
    BY <2>1, <2>2 DEF At, ImportInv, ImportsJustified
  <2> QED
    BY <2>3, ImportAuthorizer
<1> QED
  BY <1>1, <1>2

LEMMA ImportAuthorize ==
  ASSUME PipeInv, ImportInv, Authorize
  PROVE  ImportInv'
<1>1. /\ Running /\ UNCHANGED <<phase, completer, imports, foreign>>
  BY DEF Authorize, AuthorizeGet, Paced, wait_for_permission, FlowFresh,
         FlowStale, Refreshed, RefreshFailed, Confirmed, PutCompletion,
         ConfirmLimited, ConfirmFailed, AuthorizerAt, Running,
         authorizeUnchanged, boundVars
<1>2. CASE \/ AuthorizeGet \/ Paced \/ wait_for_permission \/ FlowStale
           \/ RefreshFailed \/ ConfirmLimited \/ ConfirmFailed
  BY <1>1, <1>2, ImportAuthorizer
  DEF AuthorizeGet, Paced, AlreadyImported, wait_for_permission, FlowStale,
      RefreshFailed, ConfirmLimited, ConfirmFailed, Nowhere, At
<1>3. CASE FlowFresh
  BY <1>1, <1>3, ImportStarts DEF FlowFresh, AuthorizerAt
<1>4. CASE Refreshed
  <2>1. /\ authorizer.at = "refresh" /\ UNCHANGED completion_queue
        /\ Start(authorizer.who) \/ authorizer' = At("loop", authorizer.who)
    BY <1>4 DEF Refreshed, AuthorizerAt
  <2>2. CASE Start(authorizer.who)
    BY <1>1, <2>1, <2>2, ImportStarts
  <2>3. CASE authorizer' = At("loop", authorizer.who)
    BY <1>1, <2>1, <2>3, ImportAuthorizer DEF At
  <2> QED
    BY <2>1, <2>2, <2>3
<1>5. CASE Confirmed
  <2>1. authorizer.at = "confirm"
    BY <1>5 DEF Confirmed, AuthorizerAt
  <2>2. imports[authorizer.who] =< foreign
    BY <1>1, <2>1 DEF ImportInv, ImportsJustified
  <2> QED
    BY <1>1, <1>5, <2>1, <2>2, ImportAuthorizer DEF Confirmed, Nowhere, At
<1>6. CASE PutCompletion
  BY <1>1, <1>6, ImportAuthorizer DEF PutCompletion, AuthorizerAt, Nowhere, At
<1> QED
  BY <1>2, <1>3, <1>4, <1>5, <1>6 DEF Authorize

LEMMA ImportComplete ==
  ASSUME PipeInv, HolderInv, ImportInv, Complete
  PROVE  ImportInv'
<1>1. UNCHANGED <<phase, authorizer, foreign>>
  BY DEF Complete, CompleteGet, PollFailed, Polled, Stored, StoreFailed,
         Imported, completeUnchanged, boundVars
<1>2. CASE CompleteGet
  <2>1. /\ Running /\ completion_queue \in Seq(Accounts) /\ completion_queue # <<>>
        /\ Head(completion_queue) \in Accounts
        /\ Tail(completion_queue) \in Seq(Accounts)
        /\ completion_queue' = Tail(completion_queue)
        /\ completer'.who = Head(completion_queue) /\ UNCHANGED imports
    BY <1>2 DEF CompleteGet, At, PipeInv, PipeTypes
  <2>2. \A s \in Accounts :
          /\ Occurs(s, completion_queue)
               = Holds(s, Head(completion_queue)) + Occurs(s, completion_queue')
          /\ Occurs(s, completion_queue') \in Nat
    BY <2>1, OccursTail, SpotsFinite
  <2>3. \A s \in Accounts :
          s = Head(completion_queue) \/ Occurs(s, completion_queue') > 0
            => Occurs(s, completion_queue) > 0
    BY <2>1, <2>2, NobodyHolds DEF Holds
  <2> QED
    BY <1>1, <2>1, <2>3 DEF ImportInv, ImportsJustified, NoSecondImport, Running
<1>3. CASE PollFailed \/ StoreFailed \/ Polled \/ Stored
  <2>1. /\ UNCHANGED <<imports, completion_queue>> /\ completer.at # "idle"
        /\ completer'.at = "idle" \/ completer'.who = completer.who
    BY <1>3 DEF PollFailed, StoreFailed, Polled, Stored, Nowhere, At
  <2> QED
    BY <1>1, <2>1 DEF ImportInv, ImportsJustified, NoSecondImport, Running
<1>4. CASE Imported
  <2> DEFINE s == completer.who
  <2>1. /\ s \in Accounts /\ imports' = [imports EXCEPT ![s] = @ + 1]
        /\ completer'.at = "idle" /\ UNCHANGED completion_queue
        /\ imports[s] =< foreign /\ foreign \in Nat
    BY <1>4 DEF Imported, Nowhere, At, PipeInv, PipeTypes, ImportInv, ImportsJustified
  <2>2. imports \in [Accounts -> Nat]
    BY DEF PipeInv, PipeTypes
  <2>3. NoSecondImport'
    BY <1>1, <2>1, <2>2 DEF ImportInv, NoSecondImport
  <2>4. Running => authorizer.who # s /\ Occurs(s, completion_queue) = 0
    <3>1. Running => Attempts(s) =< 1
      BY <2>1, CountTypes DEF HolderInv, OneHolder, PipeInv
    <3>2. /\ Occurs(s, prepared_queue) \in Nat /\ Occurs(s, completion_queue) \in Nat
          /\ (\A x : Holds(s, x) \in Nat) /\ Holds(s, s) = 1
      BY <2>1, CountTypes, NobodyHolds DEF HolderInv, PipeInv
    <3> QED
      BY <2>1, <3>1, <3>2 DEF Attempts
  <2> HIDE DEF s
  <2>5. ImportsJustified'
    BY <1>1, <2>1, <2>2, <2>4 DEF ImportInv, ImportsJustified, Running
  <2> QED
    BY <2>3, <2>5 DEF ImportInv
<1> QED
  BY <1>2, <1>3, <1>4 DEF Complete

LEMMA ImportRest ==
  ASSUME PipeInv, ImportInv,
         Command \/ Process \/ Crash
           \/ \E s \in Accounts : ImportedElsewhere(s)
  PROVE  ImportInv'
<1>1. CASE Pause \/ Resume \/ Restart \/ Inventory
  BY <1>1, ImportKept
  DEF Pause, Resume, Restart, Inventory, restVars, queueVars, boundVars
<1>2. CASE cancel_active
  <2>1. /\ UNCHANGED <<phase, completion_queue, imports, foreign>>
        /\ authorizer'.at = "idle" \/ UNCHANGED authorizer
        /\ completer'.at = "idle" \/ UNCHANGED completer
    BY <1>2 DEF cancel_active, boundVars, Nowhere, At
  <2> QED
    BY <2>1 DEF ImportInv, ImportsJustified, NoSecondImport, Running
<1>3. CASE shutdown
  <2>1. /\ UNCHANGED <<imports, foreign>> /\ phase' = "stopping"
        /\ completer'.at = "idle" \/ UNCHANGED completer
    BY <1>3 DEF shutdown, boundVars, Nowhere, At
  <2> QED
    BY <2>1 DEF ImportInv, ImportsJustified, NoSecondImport, Running
<1>4. CASE settle \/ Crash \/ AuthPipelineInit
  <2>1. /\ UNCHANGED <<imports, foreign>>
        /\ completer'.at = "idle" /\ authorizer'.at = "idle"
        /\ completion_queue' = <<>>
    BY <1>4 DEF settle, Crash, AuthPipelineInit, Fresh, boundVars, Nowhere, At
  <2>2. \A s \in Accounts : Occurs(s, completion_queue') = 0
    BY <2>1, OccursEmpty
  <2> QED
    BY <2>1, <2>2 DEF ImportInv, ImportsJustified, NoSecondImport, Running
<1>5. ASSUME NEW s \in Accounts, ImportedElsewhere(s) PROVE ImportInv'
  <2>1. /\ UNCHANGED <<phase, authorizer, completer, completion_queue>>
        /\ foreign' = foreign + 1
        /\ imports' = [imports EXCEPT ![s] = @ + 1]
        /\ imports \in [Accounts -> Nat] /\ foreign \in Nat
    BY <1>5 DEF ImportedElsewhere, queueVars, PipeInv, PipeTypes, ImportInv,
                ImportsJustified
  <2>2. \A d \in Accounts :
          /\ imports[d] =< foreign => imports'[d] =< foreign'
          /\ imports[d] =< 1 + foreign => imports'[d] =< 1 + foreign'
    BY <2>1
  <2>3. /\ completer.at # "idle" => completer.who \in Accounts
        /\ authorizer.at \in {"confirm", "put"} => authorizer.who \in Accounts
    BY DEF PipeInv, PipeTypes
  <2> QED
    BY <2>1, <2>2, <2>3 DEF ImportInv, ImportsJustified, NoSecondImport, Running
<1> QED
  BY <1>1, <1>2, <1>3, <1>4, <1>5 DEF Command, Process

LEMMA ImportStepInv == PipeInv /\ HolderInv /\ ImportInv /\ [Next]_vars => ImportInv'
<1> SUFFICES ASSUME PipeInv, HolderInv, ImportInv, [Next]_vars PROVE ImportInv'
  OBVIOUS
<1>1. CASE Feed \/ Prepare \/ Cooled
           \/ (\E s \in Accounts : admit(s) \/ TakenByHand(s)) \/ UNCHANGED vars
  BY <1>1, ImportKept
  DEF Feed, FeedPut, RetryPut, RetryDue, admit, Prepare, PrepareSlot, PrepareGet,
      FlowStarted, FlowFailed, prepareUnchanged, Cooled, TakenByHand, restVars,
      queueVars, boundVars, vars
<1> QED
  BY <1>1, ImportAuthorize, ImportComplete, ImportRest DEF Next

\* An account that this service has imported is not imported by it again: more
\* than one import has only an account that another client imported, too.
THEOREM ImportsOnce == Spec => []NoSecondImport
<1>1. ImportInv => NoSecondImport
  BY DEF ImportInv
<1> QED
  BY <1>1, ImportInitInv, ImportStepInv, HolderAlways, AuthInvariant, PTL
  DEF Spec, AuthInv

----------------------------------------------------------------------------
\* The bounds of the queues and of the retries, and the service of the tasks.

BoundInv ==
  /\ retries \in [Accounts -> 0 .. MaxRetries]
  /\ Len(source_queue) =< SourceCap /\ Len(completion_queue) =< CompletionCap
  /\ phase # "off" => service = "up"

LEMMA BoundInitInv == Init => BoundInv
BY CapacityAssumption DEF Init, BoundInv

\* However an attempt ends, the budget it may have used was left.
LEMMA RetriesBounded ==
  ASSUME BoundInv, NEW s \in Accounts,
         \/ Terminal(s) \/ Transient(s) \/ ScheduleRetry(s) \/ AlreadyImported(s)
  PROVE  retries' \in [Accounts -> 0 .. MaxRetries]
<1>1. CASE UNCHANGED retries
  BY <1>1 DEF BoundInv
<1>2. CASE retries[s] < MaxRetries /\ retries' = [retries EXCEPT ![s] = @ + 1]
  <2>1. retries[s] + 1 \in 0 .. MaxRetries
    BY <1>2, CapacityAssumption DEF BoundInv
  <2> QED
    BY <1>2, <2>1 DEF BoundInv
<1>3. CASE retries' = [retries EXCEPT ![s] = 0]
  BY <1>3, CapacityAssumption DEF BoundInv
<1> QED
  BY <1>1, <1>2, <1>3 DEF Terminal, Transient, ScheduleRetry, AlreadyImported

\* A put is made only into a queue that has room, and a get makes room.
LEMMA QueueLengths ==
  ASSUME PipeTypes, BoundInv
  PROVE  /\ \A s \in Accounts : Enqueue(s, feeding) \/ Enqueue(s, retrying)
              => Len(source_queue') =< SourceCap
         /\ \A s \in Accounts : Len(source_queue) < SourceCap
              => Len(Append(source_queue, s)) =< SourceCap
         /\ \A s \in Accounts : Len(completion_queue) < CompletionCap
              => Len(Append(completion_queue, s)) =< CompletionCap
         /\ source_queue # <<>> => Len(Tail(source_queue)) =< SourceCap
         /\ completion_queue # <<>>
              => Len(Tail(completion_queue)) =< CompletionCap
BY CapacityAssumption DEF PipeTypes, BoundInv, Enqueue

\* A step of the tasks: only the source and the retry task put into the
\* first queue, only the authorizer into the last one.
LEMMA FeedBounds ==
  ASSUME PipeTypes, BoundInv, Feed \/ \E s \in Accounts : admit(s)
  PROVE  BoundInv'
<1>1. UNCHANGED <<phase, service, retries, completion_queue>>
  BY DEF Feed, FeedPut, RetryPut, RetryDue, admit, storeVars
<1>2. Len(source_queue') =< SourceCap
  <2>1. CASE FeedPut
    BY <2>1, QueueLengths DEF FeedPut, PipeTypes, Somebody
  <2>2. CASE RetryPut
    BY <2>2, QueueLengths DEF RetryPut, PipeTypes, Somebody
  <2>3. ASSUME NEW s \in Accounts, RetryDue(s) PROVE Len(source_queue') =< SourceCap
    BY <2>3, QueueLengths DEF RetryDue, BoundInv
  <2>4. ASSUME NEW s \in Accounts, admit(s) PROVE Len(source_queue') =< SourceCap
    BY <2>4, QueueLengths DEF admit
  <2> QED
    BY <2>1, <2>2, <2>3, <2>4 DEF Feed
<1> QED
  BY <1>1, <1>2 DEF BoundInv

LEMMA PrepareBounds ==
  ASSUME PipeTypes, BoundInv, Prepare
  PROVE  BoundInv'
<1>1. UNCHANGED <<phase, service, completion_queue>>
  BY DEF Prepare, PrepareSlot, PrepareGet, FlowStarted, FlowFailed,
         prepareUnchanged, storeVars
<1>2. CASE PrepareSlot \/ FlowStarted
  BY <1>1, <1>2 DEF PrepareSlot, FlowStarted, BoundInv
<1>3. CASE PrepareGet
  BY <1>1, <1>3, QueueLengths DEF PrepareGet, BoundInv
<1>4. CASE FlowFailed
  <2>1. /\ preparer.who \in Accounts /\ UNCHANGED source_queue
        /\ Terminal(preparer.who) \/ Transient(preparer.who)
    BY <1>4 DEF FlowFailed, PipeTypes
  <2> QED
    BY <1>1, <2>1, RetriesBounded DEF BoundInv
<1> QED
  BY <1>2, <1>3, <1>4 DEF Prepare

LEMMA AuthorizeBounds ==
  ASSUME PipeTypes, BoundInv, Authorize
  PROVE  BoundInv'
<1>1. UNCHANGED <<phase, service, source_queue>>
  BY DEF Authorize, AuthorizeGet, Paced, wait_for_permission, FlowFresh,
         FlowStale, Refreshed, RefreshFailed, Confirmed, PutCompletion,
         ConfirmLimited, ConfirmFailed, authorizeUnchanged, storeVars
<1>2. authorizer.at # "idle" => authorizer.who \in Accounts
  BY DEF PipeTypes
<1>3. CASE AuthorizeGet \/ wait_for_permission \/ FlowStale
  BY <1>1, <1>3 DEF AuthorizeGet, wait_for_permission, FlowStale, BoundInv
<1>4. CASE Paced \/ FlowFresh \/ Refreshed
  <2>1. authorizer.who \in Accounts /\ UNCHANGED completion_queue
    BY <1>2, <1>4 DEF Paced, FlowFresh, Refreshed, AuthorizerAt
  <2>2. UNCHANGED retries \/ AlreadyImported(authorizer.who)
    BY <1>4 DEF Paced, FlowFresh, Refreshed, Start
  <2> QED
    BY <1>1, <2>1, <2>2, RetriesBounded DEF BoundInv
<1>5. CASE RefreshFailed \/ ConfirmLimited \/ ConfirmFailed
  <2>1. authorizer.who \in Accounts /\ UNCHANGED completion_queue
    BY <1>2, <1>5 DEF RefreshFailed, ConfirmLimited, ConfirmFailed, AuthorizerAt
  <2>2. Terminal(authorizer.who) \/ Transient(authorizer.who)
          \/ ScheduleRetry(authorizer.who)
    BY <1>5 DEF RefreshFailed, ConfirmLimited, ConfirmFailed
  <2> QED
    BY <1>1, <2>1, <2>2, RetriesBounded DEF BoundInv
<1>6. CASE Confirmed \/ PutCompletion
  <2>1. authorizer.who \in Accounts /\ UNCHANGED retries
    BY <1>2, <1>6 DEF Confirmed, PutCompletion, AuthorizerAt
  <2>2. Len(completion_queue') =< CompletionCap
    BY <1>6, <2>1, QueueLengths DEF Confirmed, PutCompletion, BoundInv
  <2> QED
    BY <1>1, <2>1, <2>2 DEF BoundInv
<1> QED
  BY <1>3, <1>4, <1>5, <1>6 DEF Authorize

LEMMA CompleteBounds ==
  ASSUME PipeTypes, BoundInv, Complete
  PROVE  BoundInv'
<1>1. UNCHANGED <<phase, service, source_queue>>
  BY DEF Complete, CompleteGet, PollFailed, Polled, Stored, StoreFailed,
         Imported, completeUnchanged, storeVars, store, store_failed, finish
<1>2. completer.at # "idle" => completer.who \in Accounts
  BY DEF PipeTypes
<1>3. CASE CompleteGet
  BY <1>1, <1>3, QueueLengths DEF CompleteGet, BoundInv
<1>4. CASE Polled \/ Stored
  BY <1>1, <1>4 DEF Polled, Stored, BoundInv
<1>5. CASE PollFailed \/ StoreFailed
  <2>1. /\ completer.who \in Accounts /\ UNCHANGED completion_queue
        /\ Terminal(completer.who) \/ Transient(completer.who)
    BY <1>2, <1>5 DEF PollFailed, StoreFailed
  <2> QED
    BY <1>1, <2>1, RetriesBounded DEF BoundInv
<1>6. CASE Imported
  <2>1. /\ UNCHANGED completion_queue
        /\ retries' = [retries EXCEPT ![completer.who] = 0]
    BY <1>6 DEF Imported
  <2>2. 0 \in 0 .. MaxRetries
    BY CapacityAssumption
  <2>3. retries' \in [Accounts -> 0 .. MaxRetries]
    BY <2>1, <2>2 DEF BoundInv
  <2> QED
    BY <1>1, <2>1, <2>3 DEF BoundInv
<1> QED
  BY <1>3, <1>4, <1>5, <1>6 DEF Complete

LEMMA CommandBounds ==
  ASSUME PipeTypes, BoundInv, Command \/ Cooled
  PROVE  BoundInv'
<1>1. service' = service /\ UNCHANGED <<source_queue, completion_queue>>
  BY DEF Command, Cooled, Pause, Resume, cancel_active, shutdown, storeVars,
         queueVars
<1>2. CASE Pause \/ Resume \/ Cooled
  BY <1>1, <1>2 DEF Pause, Resume, Cooled, BoundInv
<1>3. CASE cancel_active
  <2>1. PICK s \in Accounts : ScheduleRetry(s)
    BY <1>3 DEF cancel_active, Cancellable, PipeTypes
  <2> QED
    BY <1>1, <1>3, <2>1, RetriesBounded DEF cancel_active, BoundInv
<1>4. CASE shutdown
  BY <1>1, <1>4 DEF shutdown, Running, BoundInv
<1> QED
  BY <1>2, <1>3, <1>4 DEF Command

\* The service that a pipeline runs in is up: a recovery that fails, and a
\* stop, are before and after every pipeline.
LEMMA ProcessBounds ==
  ASSUME BoundInv, Process \/ Crash
           \/ \E s \in Accounts : ImportedElsewhere(s) \/ TakenByHand(s)
  PROVE  BoundInv'
<1>1. CASE settle \/ Crash \/ AuthPipelineInit
  <2>1. phase' = "off" \/ service' = "up"
    BY <1>1 DEF settle, Crash, AuthPipelineInit, recovered
  <2>2. /\ retries' = [s \in Accounts |-> 0]
        /\ source_queue' = <<>> /\ completion_queue' = <<>>
    BY <1>1 DEF settle, Crash, AuthPipelineInit, Fresh
  <2> QED
    BY <2>1, <2>2, CapacityAssumption DEF BoundInv
<1>2. CASE \/ Restart \/ Inventory
           \/ \E s \in Accounts : ImportedElsewhere(s) \/ TakenByHand(s)
  <2>1. UNCHANGED <<phase, retries, source_queue, completion_queue>>
    BY <1>2 DEF Restart, Inventory, ImportedElsewhere, TakenByHand, restVars,
                queueVars
  <2>2. service = "up" => service' = "up"
    BY <1>2 DEF Restart, Ledger_init, Inventory, Mover, recover,
       claim_available, move, move_error, mark_claimed, LeaveBatch,
       ImportedElsewhere, StoreElsewhere, TakenByHand, RemoveByHand
  <2> QED
    BY <2>1, <2>2 DEF BoundInv
<1> QED
  BY <1>1, <1>2 DEF Process

\* The authentication service keeps its types and its bounds: no queue holds
\* more than its capacity, although a put waits with the account in hand; no
\* account has more retries than the table has delays, whatever ends its
\* attempts; and while there is a pipeline, its service is up.
THEOREM ServiceTypeCorrect == Spec => []TypeOK
<1>1. PipeTypes /\ BoundInv /\ [Next]_vars => BoundInv'
  <2> SUFFICES ASSUME PipeTypes, BoundInv, [Next]_vars PROVE BoundInv'
    OBVIOUS
  <2>1. CASE UNCHANGED vars
    BY <2>1 DEF vars, storeVars, queueVars, BoundInv
  <2> QED
    BY <2>1, FeedBounds, PrepareBounds, AuthorizeBounds, CompleteBounds,
       CommandBounds, ProcessBounds DEF Next
<1>2. AuthInv /\ HolderInv /\ BoundInv => TypeOK
  BY DEF AuthInv, StoreInv, PipeInv, PipeTypes, HolderInv, HolderTypes,
         BoundInv, TypeOK
<1> QED
  BY <1>1, <1>2, BoundInitInv, HolderAlways, AuthInvariant, PTL
  DEF Spec, AuthInv, PipeInv
=============================================================================
