------------------------------ MODULE AuthProofs ------------------------------
(***************************************************************************)
(* The authentication service, for any accounts, batches, capacities and   *)
(* faults: the store hands each credential out once and loses none, the    *)
(* pipeline is one of the store's clients, one flow is ahead, the probe    *)
(* is carried and a confirmation starts justified.                         *)
(***************************************************************************)
EXTENDS AuthPipeline, TLAPS

\* A row belongs to an import on record and, once claimed, to a batch.  What
\* has been imported, or is about to be, and has no row yet lies in
\* authenticated/: NothingLost needs it when the row is made.
RowsFiled ==
  \A r \in Receipts :
    /\ state[r] # "none" => r \in imported
    /\ state[r] \in {"claiming", "claimed"} => batch_id[r] \in Batches
    /\ state[r] = "none" /\ r \in imported \cup committing
         => r \in available \cup removed

StoreInv ==
  StoreTypeOK /\ RowsFiled /\ HandedOutOnce /\ NothingLost /\ BatchAgrees

LEMMA StoreInitInv == StoreInit => StoreInv
BY BatchAssumption
DEF StoreInit, StoreInv, StoreTypeOK, RowState, RowsFiled, HandedOutOnce,
    NothingLost, BatchAgrees, Idle, Claiming

\* Making rows for imports that have a file disturbs no row there is.
LEMMA RowsMade ==
  ASSUME StoreTypeOK, NEW R \in SUBSET Receipts
  PROVE  /\ WithRows(R) \in [Receipts -> RowState]
         /\ \A r \in Receipts :
              WithRows(R)[r] = IF r \in R /\ state[r] = "none"
                               THEN "available" ELSE state[r]
BY DEF WithRows, StoreTypeOK, RowState

\* The sink, the ledger and the operator: what happens beside take and recover.
LEMMA SinkInv ==
  ASSUME StoreInv, NEW r \in Receipts,
         store(r) \/ store_failed(r) \/ RemoveByHand(r)
  PROVE  StoreInv'
BY DEF StoreInv, store, store_failed, RemoveByHand, StoreTypeOK, RowState,
       RowsFiled, HandedOutOnce, NothingLost, BatchAgrees, Idle, Claiming,
       ledgerVars, moverVars

LEMMA RecordInv ==
  ASSUME StoreInv, NEW r \in Receipts, finish(r) \/ StoreElsewhere(r)
  PROVE  StoreInv'
<1>1. /\ state' \in [Receipts -> RowState]
      /\ \A q \in Receipts :
           state'[q] = IF q = r /\ state[q] = "none" THEN "available" ELSE state[q]
  BY RowsMade DEF StoreInv, finish, StoreElsewhere
<1>2. StoreTypeOK'
  BY <1>1 DEF StoreInv, StoreTypeOK, finish, StoreElsewhere, fileVars, moverVars
<1>3. RowsFiled'
  BY <1>1 DEF StoreInv, RowsFiled, finish, StoreElsewhere, fileVars
<1>4. HandedOutOnce'
  BY <1>1 DEF StoreInv, StoreTypeOK, HandedOutOnce, finish, StoreElsewhere, fileVars
<1>5. NothingLost'
  BY <1>1 DEF StoreInv, NothingLost, RowsFiled, finish, StoreElsewhere, fileVars
<1>6. BatchAgrees'
  BY <1>1 DEF StoreInv, BatchAgrees, Idle, Claiming, finish, StoreElsewhere,
              fileVars, moverVars
<1> QED
  BY <1>2, <1>3, <1>4, <1>5, <1>6 DEF StoreInv

LEMMA LedgerInitInv ==
  ASSUME StoreInv, Ledger_init
  PROVE  StoreInv'
<1>1. /\ state' \in [Receipts -> RowState]
      /\ \A q \in Receipts :
           state'[q] = IF q \in imported /\ state[q] = "none"
                       THEN "available" ELSE state[q]
  BY RowsMade DEF StoreInv, Ledger_init, StoreTypeOK
<1> QED
  BY <1>1 DEF StoreInv, Ledger_init, StoreTypeOK, RowsFiled, HandedOutOnce,
              NothingLost, BatchAgrees, Idle, Claiming, fileVars, moverVars

\* take: the claim, the moves, the mark.
LEMMA ClaimInv ==
  ASSUME StoreInv, NEW b \in Batches, NEW R \in SUBSET Receipts,
         claim_available(b, R)
  PROVE  StoreInv'
<1>1. StoreTypeOK'
  BY DEF StoreInv, StoreTypeOK, claim_available, RowState, fileVars
<1>2. RowsFiled'
  BY DEF StoreInv, StoreTypeOK, RowsFiled, claim_available, fileVars
<1>3. HandedOutOnce'
  BY DEF StoreInv, StoreTypeOK, HandedOutOnce, claim_available, fileVars
<1>4. NothingLost'
  BY DEF StoreInv, StoreTypeOK, NothingLost, claim_available, fileVars
<1>5. BatchAgrees'
  BY DEF StoreInv, StoreTypeOK, BatchAgrees, Claiming, Idle, claim_available, fileVars
<1> QED
  BY <1>1, <1>2, <1>3, <1>4, <1>5 DEF StoreInv

LEMMA MoveInv ==
  ASSUME StoreInv, NEW r \in Receipts, move(r)
  PROVE  StoreInv'
<1>1. /\ batch \in Batches /\ r \in Claiming(batch)
      /\ \A b \in Batches :
           claimed'[b] = IF b = batch THEN claimed[b] \cup {r} ELSE claimed[b]
  BY DEF StoreInv, StoreTypeOK, BatchAgrees, Idle, move
<1>2. StoreTypeOK'
  BY <1>1 DEF StoreInv, StoreTypeOK, move, ledgerVars
<1>3. RowsFiled'
  BY <1>1 DEF StoreInv, RowsFiled, Claiming, move, ledgerVars
<1>4. HandedOutOnce'
  BY <1>1 DEF StoreInv, HandedOutOnce, Claiming, move, ledgerVars
<1>5. NothingLost'
  BY <1>1 DEF StoreInv, NothingLost, RowsFiled, Claiming, move, ledgerVars
<1>6. BatchAgrees'
  BY <1>1 DEF StoreInv, BatchAgrees, Idle, Claiming, move, ledgerVars
<1> QED
  BY <1>2, <1>3, <1>4, <1>5, <1>6 DEF StoreInv

LEMMA MarkInv ==
  ASSUME StoreInv, mark_claimed
  PROVE  StoreInv'
<1>1. /\ batch \in Batches /\ receipts = Claiming(batch)
      /\ receipts \subseteq claimed[batch]
  BY DEF StoreInv, StoreTypeOK, BatchAgrees, Idle, mark_claimed
<1>2. StoreTypeOK'
  BY DEF StoreInv, StoreTypeOK, RowState, mark_claimed, LeaveBatch, fileVars
<1>3. RowsFiled'
  BY <1>1 DEF StoreInv, StoreTypeOK, RowsFiled, Claiming, mark_claimed, LeaveBatch, fileVars
<1>4. HandedOutOnce'
  BY <1>1 DEF StoreInv, StoreTypeOK, HandedOutOnce, Claiming, mark_claimed, fileVars
<1>5. NothingLost'
  BY <1>1 DEF StoreInv, StoreTypeOK, NothingLost, Claiming, mark_claimed, fileVars
<1>6. BatchAgrees'
  BY DEF BatchAgrees, Idle, mark_claimed, LeaveBatch
<1> QED
  BY <1>2, <1>3, <1>4, <1>5, <1>6 DEF StoreInv

\* What begins or ends a batch, and what starts or ends the process.
LEMMA BatchEdgeInv ==
  ASSUME StoreInv,
         \/ \E b \in Batches : recover(b)
         \/ \E r \in Receipts : move_error(r)
         \/ recovered \/ StoreStop \/ StoreCrash
  PROVE  StoreInv'
BY DEF StoreInv, recover, move_error, LeaveBatch, recovered, StoreStop,
       StoreCrash, StoreTypeOK, RowState, RowsFiled, HandedOutOnce,
       NothingLost, BatchAgrees, Idle, Claiming, ledgerVars, fileVars, moverVars

LEMMA StoreStepInv == StoreInv /\ [StoreNext]_storeVars => StoreInv'
<1> SUFFICES ASSUME StoreInv, [StoreNext]_storeVars PROVE StoreInv'
  OBVIOUS
<1>1. CASE Mover
  BY <1>1, ClaimInv, MoveInv, MarkInv, BatchEdgeInv DEF Mover
<1>2. CASE Ledger_init
  BY <1>2, LedgerInitInv
<1>3. CASE recovered \/ StoreStop \/ StoreCrash
  BY <1>3, BatchEdgeInv
<1>4. CASE \E r \in Receipts : \/ store(r) \/ store_failed(r) \/ finish(r)
                               \/ StoreElsewhere(r) \/ RemoveByHand(r)
  BY <1>4, SinkInv, RecordInv
<1>5. CASE UNCHANGED storeVars
  BY <1>5 DEF storeVars, ledgerVars, fileVars, moverVars, StoreInv, StoreTypeOK,
              RowsFiled, HandedOutOnce, NothingLost, BatchAgrees, Idle, Claiming
<1> QED
  BY <1>1, <1>2, <1>3, <1>4, <1>5 DEF StoreNext

----------------------------------------------------------------------------
\* The store implements the abstract handout: only a move hands something out.
LEMMA HandoutInit == StoreInit => Handout!Init
BY DEF StoreInit, Handout!Init, HandedOut

LEMMA HandoutUnchanged ==
  ASSUME UNCHANGED <<imported, claimed>>
  PROVE  UNCHANGED <<imported, HandedOut>>
BY DEF HandedOut

LEMMA HandoutMove ==
  ASSUME StoreInv, NEW r \in Receipts, move(r)
  PROVE  [Handout!Next]_<<imported, HandedOut>>
<1>1. /\ batch \in Batches /\ r \in Claiming(batch) /\ r \in imported
      /\ \A b \in Batches :
           claimed'[b] = IF b = batch THEN claimed[b] \cup {r} ELSE claimed[b]
  BY DEF StoreInv, StoreTypeOK, BatchAgrees, RowsFiled, Claiming, Idle, move
<1>2. HandedOut' = HandedOut \cup {<<r, batch>>}
  <2>1. \A q \in Receipts, b \in Batches :
          q \in claimed'[b] <=> q \in claimed[b] \/ <<q, b>> = <<r, batch>>
    BY <1>1
  <2> QED
    BY <1>1, <2>1 DEF HandedOut
<1>3. UNCHANGED imported
  BY DEF move, ledgerVars
<1>4. CASE r \in claimed[batch]
  BY <1>1, <1>2, <1>3, <1>4 DEF HandedOut
<1>5. CASE r \notin claimed[batch]
  <2>1. \A c \in Batches : <<r, c>> \notin HandedOut
    BY <1>1, <1>5 DEF HandedOut, StoreInv, HandedOutOnce, Claiming
  <2>2. Handout!HandOut(r, batch)
    BY <1>1, <1>2, <1>3, <2>1 DEF Handout!HandOut, HandedOut
  <2> QED
    BY <1>1, <2>2 DEF Handout!Next
<1> QED
  BY <1>4, <1>5

LEMMA HandoutStep ==
  StoreInv /\ [StoreNext]_storeVars
    => [Handout!Next]_<<imported, HandedOut>>
<1> SUFFICES ASSUME StoreInv, [StoreNext]_storeVars
             PROVE  [Handout!Next]_<<imported, HandedOut>>
  OBVIOUS
<1>1. ASSUME NEW r \in Receipts, finish(r) \/ StoreElsewhere(r)
      PROVE  [Handout!Next]_<<imported, HandedOut>>
  <2>1. imported' = imported \cup {r} /\ UNCHANGED HandedOut
    BY <1>1 DEF finish, StoreElsewhere, fileVars, HandedOut
  <2>2. Handout!Import(r)
    BY <2>1 DEF Handout!Import, HandedOut
  <2> QED
    BY <2>2 DEF Handout!Next
<1>2. CASE \E r \in Receipts : move(r)
  BY <1>2, HandoutMove
<1>3. CASE UNCHANGED <<imported, claimed>>
  BY <1>3, HandoutUnchanged
<1> QED
  BY <1>1, <1>2, <1>3
  DEF StoreNext, Mover, recover, claim_available, move_error, LeaveBatch,
      mark_claimed, Ledger_init, recovered, StoreStop, StoreCrash, store,
      store_failed, RemoveByHand, storeVars, ledgerVars, fileVars

----------------------------------------------------------------------------
\* The pipeline is a client of the store: each of its steps is one of the
\* store's or leaves the store alone.

LEMMA PipelineInit == Init => StoreInit
BY DEF Init

LEMMA PipelineFeed ==
  ASSUME Feed \/ Prepare \/ Cooled \/ Authorize \/ (\E s \in Accounts : admit(s))
  PROVE  UNCHANGED storeVars
BY DEF Feed, FeedPut, RetryPut, RetryDue, Prepare, PrepareSlot, PrepareGet,
       FlowStarted, FlowFailed, prepareUnchanged, Cooled, Authorize,
       AuthorizeGet, Paced, wait_for_permission, FlowFresh, FlowStale,
       Refreshed, RefreshFailed, Confirmed, PutCompletion, ConfirmLimited,
       ConfirmFailed, authorizeUnchanged, admit

----------------------------------------------------------------------------
\* The inductive invariant of the pipeline: who is where, the slot, the probe.

Somebody == Accounts \cup {NoOne}

\* The types that the other parts need; a worker in a place has an account.
PipeTypes ==
  /\ phase \in {"off", "running", "stopping"}
  /\ source_queue \in Seq(Accounts)
  /\ prepared_queue \in Seq(Accounts)
  /\ completion_queue \in Seq(Accounts)
  /\ feeding \in Somebody /\ retrying \in Somebody
  /\ preparer \in [at : {"idle", "slot", "source", "flow"}, who : Somebody]
  /\ preparer.at = "flow" => preparer.who \in Accounts
  /\ authorizer \in [at : {"idle", "pace", "permit", "loop", "refresh",
                           "confirm", "put"}, who : Somebody]
  /\ authorizer.at # "idle" => authorizer.who \in Accounts
  /\ completer \in [at : {"idle", "poll", "store"}, who : Somebody]
  /\ completer.at # "idle" => completer.who \in Accounts
  /\ imports \in [Accounts -> Nat]

PipeInv == PipeTypes /\ OneFlowAhead /\ ProbeCarried

LEMMA PipeInitInv == Init => PipeInv
<1> SUFFICES ASSUME Init PROVE PipeInv
  OBVIOUS
<1>1. /\ source_queue = <<>> /\ prepared_queue = <<>> /\ completion_queue = <<>>
      /\ feeding = NoOne /\ retrying = NoOne
      /\ preparer = [at |-> "slot", who |-> NoOne]
      /\ authorizer = [at |-> "idle", who |-> NoOne]
      /\ completer = [at |-> "idle", who |-> NoOne]
      /\ phase = "off" /\ imports = [s \in Accounts |-> IF s \in imported THEN 1 ELSE 0]
  BY DEF Init, At, Nowhere
<1>2. PipeTypes
  BY <1>1 DEF PipeTypes, Somebody
<1> QED
  BY <1>1, <1>2 DEF PipeInv, OneFlowAhead, ProbeCarried, Running

\* A put into source_queue, done or left waiting.
LEMMA EnqueueTypes ==
  ASSUME PipeTypes, NEW s \in Accounts
  PROVE  /\ Enqueue(s, feeding) =>
              source_queue' \in Seq(Accounts) /\ feeding' \in Somebody
         /\ Enqueue(s, retrying) =>
              source_queue' \in Seq(Accounts) /\ retrying' \in Somebody
<1>1. /\ source_queue \in Seq(Accounts) /\ Append(source_queue, s) \in Seq(Accounts)
      /\ feeding \in Somebody /\ retrying \in Somebody /\ s \in Somebody
  BY DEF PipeTypes, Somebody
<1> QED
  BY <1>1, Zenon DEF Enqueue

LEMMA PipeFeedInv ==
  ASSUME PipeInv, Feed \/ (\E s \in Accounts : admit(s))
  PROVE  PipeInv'
<1>1. UNCHANGED <<phase, slot, preparer, prepared_queue, completion_queue,
                  authorizer, completer, tripped, probe, imports>>
  BY DEF Feed, FeedPut, RetryPut, RetryDue, admit, gateVars
<1> DEFINE Goal == /\ source_queue' \in Seq(Accounts)
                   /\ feeding' \in Somebody /\ retrying' \in Somebody
<1>2. Goal
  <2>1. CASE FeedPut
    <3>1. feeding \in Accounts /\ feeding' = NoOne /\ UNCHANGED retrying
      BY <2>1 DEF PipeInv, PipeTypes, FeedPut, Somebody
    <3> QED
      BY <2>1, <3>1 DEF PipeInv, PipeTypes, FeedPut, Somebody
  <2>2. CASE RetryPut
    <3>1. retrying \in Accounts /\ retrying' = NoOne /\ UNCHANGED feeding
      BY <2>2 DEF PipeInv, PipeTypes, RetryPut, Somebody
    <3> QED
      BY <2>2, <3>1 DEF PipeInv, PipeTypes, RetryPut, Somebody
  <2>3. ASSUME NEW s \in Accounts, RetryDue(s)
        PROVE  Goal
    BY <2>3, EnqueueTypes DEF PipeInv, PipeTypes, RetryDue
  <2>4. ASSUME NEW s \in Accounts, admit(s)
        PROVE  Goal
    BY <2>4, EnqueueTypes DEF PipeInv, PipeTypes, admit
  <2> HIDE DEF Goal
  <2> QED
    BY <2>1, <2>2, <2>3, <2>4 DEF Feed
<1>3. PipeTypes'
  BY <1>1, <1>2 DEF PipeInv, PipeTypes
<1> QED
  BY <1>1, <1>3 DEF PipeInv, OneFlowAhead, ProbeCarried, Running

LEMMA PipePrepareInv ==
  ASSUME PipeInv, Prepare
  PROVE  PipeInv'
<1>1. UNCHANGED <<phase, feeding, retrying, completion_queue, authorizer,
                  completer, tripped, probe, imports>>
  BY DEF Prepare, PrepareSlot, PrepareGet, FlowStarted, FlowFailed,
         prepareUnchanged, gateVars
<1>2. CASE PrepareSlot
  BY <1>1, <1>2 DEF PipeInv, PipeTypes, OneFlowAhead, ProbeCarried, Running,
                    PrepareSlot, At, Somebody
<1>3. CASE PrepareGet
  <2>1. Head(source_queue) \in Accounts /\ Tail(source_queue) \in Seq(Accounts)
    BY <1>3 DEF PrepareGet, PipeInv, PipeTypes
  <2> QED
    BY <1>1, <1>3, <2>1 DEF PipeInv, PipeTypes, OneFlowAhead, ProbeCarried,
                            Running, PrepareGet, At, Somebody
<1>4. CASE FlowStarted
  <2>1. /\ prepared_queue' \in Seq(Accounts)
        /\ Len(prepared_queue') = Len(prepared_queue) + 1
    BY <1>4 DEF FlowStarted, PipeInv, PipeTypes
  <2> QED
    BY <1>1, <1>4, <2>1 DEF PipeInv, PipeTypes, OneFlowAhead, ProbeCarried,
                            Running, FlowStarted, At, Somebody
<1>5. CASE FlowFailed
  <2>1. /\ UNCHANGED <<source_queue, prepared_queue>> /\ slot'
        /\ preparer.at = "flow" /\ preparer' = At("slot", NoOne) /\ Running
    BY <1>5 DEF FlowFailed
  <2> QED
    BY <1>1, <2>1 DEF PipeInv, PipeTypes, OneFlowAhead, ProbeCarried,
                      Running, At, Somebody
<1> QED
  BY <1>2, <1>3, <1>4, <1>5 DEF Prepare

\* What the authorizer leaves alone at every step but its get.
othersUnchanged == <<phase, source_queue, feeding, retrying, preparer,
                     completer, imports, prepared_queue, slot>>

ProbePlaces == {"loop", "refresh", "confirm"}

\* What an attempt does to the gate when it ends: no probe is left behind.
LEMMA ProbeGivenBack ==
  ASSUME ProbeCarried, Running,
         \/ inconclusive /\ authorizer.at \in {"pace"} \cup ProbePlaces
         \/ (rate_limited \/ authorized) /\ authorizer.at = "confirm"
  PROVE  ~probe'
BY DEF ProbeCarried, inconclusive, rate_limited, authorized, gateVars, ProbePlaces

\* The authorizer is done with its account.
LEMMA AuthorizerLeaves ==
  ASSUME PipeInv, Running, authorizer' = Nowhere, ~probe',
         UNCHANGED othersUnchanged, completion_queue' \in Seq(Accounts)
  PROVE  PipeInv'
<1>1. PipeTypes'
  BY DEF PipeInv, PipeTypes, Nowhere, At, Somebody, othersUnchanged
<1> QED
  BY <1>1 DEF PipeInv, OneFlowAhead, ProbeCarried, Nowhere, At, Running,
              othersUnchanged

\* The authorizer takes its account to another place.
LEMMA AuthorizerMoves ==
  ASSUME PipeInv, Running, authorizer.at # "idle",
         NEW place \in {"permit", "put"} \cup ProbePlaces,
         authorizer' = At(place, authorizer.who),
         probe' => tripped' /\ place \in ProbePlaces,
         tripped' /\ place \in ProbePlaces => probe',
         UNCHANGED othersUnchanged, UNCHANGED completion_queue
  PROVE  PipeInv'
<1>1. PipeTypes'
  BY DEF PipeInv, PipeTypes, At, Somebody, othersUnchanged, ProbePlaces
<1> QED
  BY <1>1 DEF PipeInv, OneFlowAhead, ProbeCarried, At, Running, othersUnchanged,
              ProbePlaces

\* A confirmation starts, or the account turns out to be imported.
LEMMA StartInv ==
  ASSUME PipeInv, Running, authorizer.at \in {"loop", "refresh"},
         Start(authorizer.who), UNCHANGED othersUnchanged,
         UNCHANGED completion_queue
  PROVE  PipeInv'
<1>1. CASE AlreadyImported(authorizer.who)
  BY <1>1, ProbeGivenBack, AuthorizerLeaves
  DEF AlreadyImported, PipeInv, PipeTypes, ProbePlaces
<1>2. CASE authorizer' = At("confirm", authorizer.who) /\ UNCHANGED gateVars
  BY <1>2, AuthorizerMoves DEF PipeInv, ProbeCarried, ProbePlaces, gateVars
<1> QED
  BY <1>1, <1>2 DEF Start

LEMMA PipeAuthorizeInv ==
  ASSUME PipeInv, Authorize
  PROVE  PipeInv'
<1>0. Running
  BY DEF Authorize, AuthorizeGet, Paced, wait_for_permission, FlowFresh,
         FlowStale, Refreshed, RefreshFailed, Confirmed, PutCompletion,
         ConfirmLimited, ConfirmFailed, AuthorizerAt, Running
<1>1. CASE AuthorizeGet
  <2>1. /\ Head(prepared_queue) \in Accounts /\ Tail(prepared_queue) \in Seq(Accounts)
        /\ Len(Tail(prepared_queue)) = Len(prepared_queue) - 1
        /\ Len(prepared_queue) \in Nat \ {0}
    BY <1>1 DEF AuthorizeGet, PipeInv, PipeTypes
  <2>2. PipeTypes'
    BY <1>1, <2>1 DEF AuthorizeGet, authorizeUnchanged, PipeInv, PipeTypes, At, Somebody
  <2>3. OneFlowAhead'
    BY <1>1, <2>1 DEF AuthorizeGet, authorizeUnchanged, PipeInv, OneFlowAhead, Running
  <2>4. ProbeCarried'
    BY <1>1 DEF AuthorizeGet, authorizeUnchanged, gateVars, PipeInv, ProbeCarried,
                At, Running
  <2> QED
    BY <2>2, <2>3, <2>4 DEF PipeInv
<1>2. CASE Paced
  <2>1. CASE AlreadyImported(authorizer.who)
    BY <1>0, <1>2, <2>1, ProbeGivenBack, AuthorizerLeaves
    DEF Paced, AlreadyImported, AuthorizerAt, authorizeUnchanged, othersUnchanged,
        PipeInv, PipeTypes
  <2>2. CASE authorizer' = At("permit", authorizer.who) /\ UNCHANGED gateVars
    BY <1>0, <1>2, <2>2, AuthorizerMoves
    DEF Paced, AuthorizerAt, authorizeUnchanged, othersUnchanged, gateVars,
        PipeInv, ProbeCarried, ProbePlaces
  <2> QED
    BY <1>2, <2>1, <2>2 DEF Paced
<1>3. CASE wait_for_permission
  BY <1>0, <1>3, AuthorizerMoves
  DEF wait_for_permission, AuthorizerAt, authorizeUnchanged, othersUnchanged,
      PipeInv, ProbeCarried, ProbePlaces
<1>4. CASE FlowFresh
  BY <1>0, <1>4, StartInv
  DEF FlowFresh, AuthorizerAt, authorizeUnchanged, othersUnchanged
<1>5. CASE FlowStale
  BY <1>0, <1>5, AuthorizerMoves
  DEF FlowStale, AuthorizerAt, authorizeUnchanged, othersUnchanged, gateVars,
      PipeInv, ProbeCarried, ProbePlaces
<1>6. CASE Refreshed
  <2>1. CASE Start(authorizer.who)
    BY <1>0, <1>6, <2>1, StartInv
    DEF Refreshed, AuthorizerAt, authorizeUnchanged, othersUnchanged
  <2>2. CASE authorizer' = At("loop", authorizer.who) /\ UNCHANGED gateVars
    BY <1>0, <1>6, <2>2, AuthorizerMoves
    DEF Refreshed, AuthorizerAt, authorizeUnchanged, othersUnchanged, gateVars,
        PipeInv, ProbeCarried, ProbePlaces
  <2> QED
    BY <1>6, <2>1, <2>2 DEF Refreshed
<1>7. CASE RefreshFailed \/ ConfirmFailed \/ ConfirmLimited
  <2>1. ~probe' /\ authorizer' = Nowhere
    BY <1>0, <1>7, ProbeGivenBack
    DEF RefreshFailed, ConfirmFailed, ConfirmLimited, AuthorizerAt, PipeInv, ProbePlaces
  <2>2. UNCHANGED othersUnchanged /\ completion_queue' \in Seq(Accounts)
    BY <1>7 DEF RefreshFailed, ConfirmFailed, ConfirmLimited, authorizeUnchanged,
                othersUnchanged, PipeInv, PipeTypes
  <2> QED
    BY <1>0, <2>1, <2>2, AuthorizerLeaves
<1>8. CASE Confirmed
  <2>1. ~probe'
    BY <1>0, <1>8, ProbeGivenBack DEF Confirmed, AuthorizerAt, PipeInv
  <2>2. UNCHANGED othersUnchanged /\ authorizer.at # "idle"
    BY <1>8 DEF Confirmed, AuthorizerAt, authorizeUnchanged, othersUnchanged
  <2>3. CASE Len(completion_queue) < CompletionCap
    <3>1. /\ authorizer' = Nowhere
          /\ completion_queue' = Append(completion_queue, authorizer.who)
      BY <1>8, <2>3 DEF Confirmed
    <3>2. completion_queue' \in Seq(Accounts)
      BY <2>2, <3>1 DEF PipeInv, PipeTypes
    <3> QED
      BY <1>0, <2>1, <2>2, <3>1, <3>2, AuthorizerLeaves
  <2>4. CASE ~(Len(completion_queue) < CompletionCap)
    <3>1. authorizer' = At("put", authorizer.who) /\ UNCHANGED completion_queue
      BY <1>8, <2>4 DEF Confirmed
    <3> QED
      BY <1>0, <2>1, <2>2, <3>1, AuthorizerMoves DEF ProbePlaces
  <2> QED
    BY <2>3, <2>4
<1>9. CASE PutCompletion
  <2>1. /\ completion_queue' \in Seq(Accounts) /\ authorizer' = Nowhere
        /\ UNCHANGED othersUnchanged
    BY <1>9 DEF PutCompletion, AuthorizerAt, authorizeUnchanged, othersUnchanged,
                PipeInv, PipeTypes
  <2>2. ~probe'
    BY <1>0, <1>9 DEF PutCompletion, AuthorizerAt, gateVars, PipeInv, ProbeCarried
  <2> QED
    BY <1>0, <2>1, <2>2, AuthorizerLeaves
<1> QED
  BY <1>1, <1>2, <1>3, <1>4, <1>5, <1>6, <1>7, <1>8, <1>9 DEF Authorize

LEMMA PipeCompleteInv ==
  ASSUME PipeInv, Complete
  PROVE  PipeInv'
<1>1. UNCHANGED completeUnchanged
  BY DEF Complete, CompleteGet, PollFailed, Polled, Stored, StoreFailed, Imported
<1>2. /\ completion_queue' \in Seq(Accounts)
      /\ completer' \in [at : {"idle", "poll", "store"}, who : Somebody]
      /\ completer'.at # "idle" => completer'.who \in Accounts
      /\ imports' \in [Accounts -> Nat]
  <2>1. CASE CompleteGet
    <3>1. /\ Head(completion_queue) \in Accounts
          /\ Tail(completion_queue) \in Seq(Accounts)
      BY <2>1 DEF CompleteGet, PipeInv, PipeTypes
    <3> QED
      BY <2>1, <3>1 DEF CompleteGet, PipeInv, PipeTypes, At, Somebody
  <2>2. CASE PollFailed \/ Polled \/ Stored \/ StoreFailed
    BY <2>2 DEF PollFailed, Polled, Stored, StoreFailed, PipeInv, PipeTypes, At,
                Nowhere, Somebody
  <2>3. CASE Imported
    BY <2>3 DEF Imported, PipeInv, PipeTypes, At, Nowhere, Somebody
  <2> QED
    BY <2>1, <2>2, <2>3 DEF Complete
<1>3. PipeTypes'
  BY <1>1, <1>2 DEF completeUnchanged, PipeInv, PipeTypes
<1> QED
  BY <1>1, <1>3 DEF completeUnchanged, gateVars, PipeInv, OneFlowAhead,
                    ProbeCarried, Running

LEMMA PipeCommandInv ==
  ASSUME PipeInv, Command
  PROVE  PipeInv'
<1>1. CASE Pause \/ Resume
  BY <1>1 DEF Pause, Resume, queueVars, gateVars, PipeInv, PipeTypes,
              OneFlowAhead, ProbeCarried, Running
<1>2. CASE cancel_active
  <2>1. CASE Cancellable
    <3>1. CASE authorizer.at \in {"pace"} \cup ProbePlaces
      BY <1>2, <2>1, <3>1, ProbeGivenBack, AuthorizerLeaves
      DEF cancel_active, othersUnchanged, PipeInv, PipeTypes
    <3>2. CASE authorizer.at = "permit"
      <4>1. ~probe'
        BY <1>2, <2>1, <3>2
        DEF cancel_active, inconclusive, gateVars, PipeInv, ProbeCarried
      <4> QED
        BY <1>2, <2>1, <4>1, AuthorizerLeaves
        DEF cancel_active, othersUnchanged, PipeInv, PipeTypes
    <3> QED
      BY <2>1, <3>1, <3>2 DEF Cancellable, ProbePlaces
  <2>2. CASE ~Cancellable
    BY <1>2, <2>2
    DEF cancel_active, gateVars, PipeInv, PipeTypes, OneFlowAhead, ProbeCarried,
        Running, Nowhere, At, Somebody
  <2> QED
    BY <2>1, <2>2
<1>3. CASE shutdown
  <2>1. PipeTypes'
    BY <1>3 DEF shutdown, PipeInv, PipeTypes, Nowhere, At, Somebody
  <2> QED
    BY <1>3, <2>1 DEF shutdown, PipeInv, OneFlowAhead, ProbeCarried, Running
<1> QED
  BY <1>1, <1>2, <1>3 DEF Command

\* A pipeline that has just been constructed satisfies the invariant.
LEMMA FreshInv ==
  ASSUME NEW known, Fresh(known), phase' \in {"off", "running"},
         imports' \in [Accounts -> Nat]
  PROVE  PipeInv'
<1>1. /\ source_queue' = <<>> /\ prepared_queue' = <<>> /\ completion_queue' = <<>>
      /\ feeding' = NoOne /\ retrying' = NoOne
      /\ preparer' = [at |-> "slot", who |-> NoOne]
      /\ authorizer' = [at |-> "idle", who |-> NoOne]
      /\ completer' = [at |-> "idle", who |-> NoOne]
      /\ slot' = TRUE /\ tripped' = FALSE /\ probe' = FALSE
  BY DEF Fresh, At, Nowhere
<1>2. PipeTypes'
  BY <1>1 DEF PipeTypes, Somebody
<1> QED
  BY <1>1, <1>2 DEF PipeInv, OneFlowAhead, ProbeCarried

LEMMA PipeProcessInv ==
  ASSUME PipeInv,
         Process \/ Crash \/ Cooled
           \/ \E s \in Accounts : ImportedElsewhere(s) \/ TakenByHand(s)
  PROVE  PipeInv'
<1>1. CASE settle \/ Crash \/ AuthPipelineInit
  BY <1>1, FreshInv DEF settle, Crash, AuthPipelineInit, PipeInv, PipeTypes
<1>2. CASE Restart \/ Inventory \/ \E s \in Accounts : TakenByHand(s)
  BY <1>2 DEF Restart, Inventory, TakenByHand, restVars, queueVars, gateVars,
              PipeInv, PipeTypes, OneFlowAhead, ProbeCarried, Running
<1>3. CASE Cooled
  BY <1>3 DEF Cooled, queueVars, PipeInv, PipeTypes, OneFlowAhead, ProbeCarried,
              Running
<1>4. ASSUME NEW s \in Accounts, ImportedElsewhere(s)
      PROVE  PipeInv'
  BY <1>4 DEF ImportedElsewhere, queueVars, gateVars, PipeInv, PipeTypes,
              OneFlowAhead, ProbeCarried, Running
<1> QED
  BY <1>1, <1>2, <1>3, <1>4 DEF Process

LEMMA PipeStepInv == PipeInv /\ [Next]_vars => PipeInv'
<1> SUFFICES ASSUME PipeInv, [Next]_vars PROVE PipeInv'
  OBVIOUS
<1>1. CASE UNCHANGED vars
  BY <1>1 DEF vars, queueVars, gateVars, PipeInv, PipeTypes, OneFlowAhead,
              ProbeCarried, Running
<1> QED
  BY <1>1, PipeFeedInv, PipePrepareInv, PipeAuthorizeInv, PipeCompleteInv,
     PipeCommandInv, PipeProcessInv DEF Next

----------------------------------------------------------------------------
\* The pipeline is a client of the store: each of its steps is one of the
\* store's or leaves the store alone.

LEMMA StoreSteps ==
  ASSUME PipeTypes, [Next]_vars
  PROVE  [StoreNext]_storeVars
<1>1. CASE \/ Feed \/ Prepare \/ Cooled \/ Authorize
           \/ \E s \in Accounts : admit(s)
  BY <1>1, PipelineFeed
<1>2. CASE Complete
  BY <1>2 DEF Complete, CompleteGet, PollFailed, Polled, Stored, StoreFailed,
              Imported, PipeTypes, Accounts, StoreNext
<1>3. CASE Command
  BY <1>3 DEF Command, Pause, Resume, cancel_active, shutdown
<1>4. CASE Process \/ Crash
  BY <1>4 DEF Process, settle, Restart, AuthPipelineInit, Inventory, Crash, StoreNext
<1>5. CASE \E s \in Accounts : ImportedElsewhere(s) \/ TakenByHand(s)
  BY <1>5 DEF ImportedElsewhere, TakenByHand, Accounts, StoreNext
<1>6. CASE UNCHANGED vars
  BY <1>6 DEF vars
<1> QED
  BY <1>1, <1>2, <1>3, <1>4, <1>5, <1>6 DEF Next

AuthInv == PipeInv /\ StoreInv

LEMMA AuthInvariant == Spec => []AuthInv
<1>1. Init => AuthInv
  BY PipeInitInv, PipelineInit, StoreInitInv DEF AuthInv
<1>2. AuthInv /\ [Next]_vars => AuthInv'
  BY PipeStepInv, StoreStepInv, StoreSteps DEF AuthInv, PipeInv
<1> QED
  BY <1>1, <1>2, PTL DEF Spec

\* No credential is handed out to two batches, or offered again, by the whole
\* service under any crashes, repeated imports and removals by hand.
THEOREM HandsOutOnce == Spec => []HandedOutOnce
BY AuthInvariant, PTL DEF AuthInv, StoreInv

\* No row of the ledger is without its file.
THEOREM LosesNothing == Spec => []NothingLost
BY AuthInvariant, PTL DEF AuthInv, StoreInv

\* The batch in hand is what the ledger claims for it: the count at the end of
\* _complete_batch agrees, after a recovery, too.
THEOREM BatchesAgree == Spec => []BatchAgrees
BY AuthInvariant, PTL DEF AuthInv, StoreInv

\* The slot lets one device flow be ahead of the authorizer, never two.
THEOREM FlowAheadOnce == Spec => []OneFlowAhead
BY AuthInvariant, PTL DEF AuthInv, PipeInv

\* The probe of a tripped gate is never lost and never doubled.
THEOREM ProbeIsCarried == Spec => []ProbeCarried
BY AuthInvariant, PTL DEF AuthInv, PipeInv

\* With its store the service implements the abstract handout.
THEOREM ServiceHandsOut == Spec => ImplementsHandout
<1>1. Init => Handout!Init
  BY PipelineInit, HandoutInit
<1>2. AuthInv /\ [Next]_vars => [Handout!Next]_<<imported, HandedOut>>
  BY StoreSteps, HandoutStep DEF AuthInv, PipeInv
<1> QED
  BY <1>1, <1>2, AuthInvariant, PTL DEF Spec, ImplementsHandout, Handout!Spec

\* Only these two steps start a confirmation.
LEMMA ConfirmationStarts ==
  ASSUME Next, authorizer'.at = "confirm", authorizer.at # "confirm"
  PROVE  FlowFresh \/ Refreshed
<1>1. CASE Feed \/ Prepare \/ Complete \/ Cooled \/ \E s \in Accounts : admit(s)
  BY <1>1 DEF Feed, FeedPut, RetryPut, RetryDue, Prepare, PrepareSlot,
              PrepareGet, FlowStarted, FlowFailed, prepareUnchanged, Complete,
              CompleteGet, PollFailed, Polled, Stored, StoreFailed, Imported,
              completeUnchanged, Cooled, admit
<1>2. CASE Authorize
  BY <1>2 DEF Authorize, AuthorizeGet, Paced, AlreadyImported,
              wait_for_permission, FlowStale, RefreshFailed, Confirmed,
              PutCompletion, ConfirmLimited, ConfirmFailed, AuthorizerAt, At,
              Nowhere
<1>3. CASE Command
  BY <1>3 DEF Command, Pause, Resume, cancel_active, shutdown, At, Nowhere
<1>4. CASE Process \/ Crash
  BY <1>4 DEF Process, settle, Restart, AuthPipelineInit, Inventory, Crash,
              Fresh, restVars, At, Nowhere
<1>5. CASE \E s \in Accounts : ImportedElsewhere(s) \/ TakenByHand(s)
  BY <1>5 DEF ImportedElsewhere, TakenByHand, restVars
<1> QED
  BY <1>1, <1>2, <1>3, <1>4, <1>5 DEF Next

LEMMA StartJustified ==
  ASSUME PipeInv, Next, authorizer'.at = "confirm", authorizer.at # "confirm"
  PROVE  /\ resume
         /\ imports[authorizer'.who] = 0
         /\ tripped => probe
<1>1. FlowFresh \/ Refreshed
  BY ConfirmationStarts
<1>2. /\ Running /\ authorizer.at \in {"loop", "refresh"} /\ resume
      /\ Start(authorizer.who)
  BY <1>1 DEF FlowFresh, Refreshed, AuthorizerAt, Running, At
<1>3. /\ ~has_imported(authorizer.who)
      /\ authorizer'.who = authorizer.who
  BY <1>2 DEF Start, AlreadyImported, Nowhere, At
<1>4. imports[authorizer'.who] = 0
  BY <1>2, <1>3 DEF has_imported, PipeInv, PipeTypes
<1> QED
  BY <1>2, <1>4 DEF PipeInv, ProbeCarried

\* A confirmation starts unpaused, without an import on record, and in a
\* cooldown with the probe: what was looked at before the awaits still holds.
THEOREM StartsAreJustified == Spec => StartsJustified
<1>1. AuthInv /\ [Next]_vars =>
        [authorizer'.at = "confirm" /\ authorizer.at # "confirm" =>
           /\ resume
           /\ imports[authorizer'.who] = 0
           /\ tripped => probe]_vars
  BY StartJustified DEF AuthInv
<1> QED
  BY <1>1, AuthInvariant, PTL DEF Spec, StartsJustified
=============================================================================
