---------------------------- MODULE AuthPipeline ----------------------------
(***************************************************************************)
(* The authentication service: xai_enroller/auth_pipeline.py and the       *)
(* commands of service.py, over the store of CredentialStore.              *)
(*                                                                         *)
(* Five tasks pass an account along: source -> source_queue -> prepare ->  *)
(* prepared_queue -> authorize -> completion_queue -> complete, and a      *)
(* retry task feeds failures back.  An action is what a task does between  *)
(* two suspensions.  The locks of the pipeline are never held across one,  *)
(* so only events, queues, sleeps and the outside world suspend.           *)
(*                                                                         *)
(* Time is left to choice: a cooldown, a retry delay and the pace may have *)
(* passed or not, and a device flow may be too old when it is looked at.   *)
(* An account and the receipt of its credential have one identity, since   *)
(* sinks.credential_filename names the file after the token's subject.     *)
(***************************************************************************)
EXTENDS CredentialStore, Sequences

CONSTANTS
  SourceCap,      \* SOURCE_QUEUE_CAPACITY
  CompletionCap,  \* COMPLETION_QUEUE_CAPACITY
  MaxRetries,     \* the length of TRANSIENT_RETRY_DELAYS
  NoOne,          \* no account
  Cancels,        \* TRUE: there are commands `c`
  FaultKinds,     \* which faults there are, a subset of Fault
  MaxFaults       \* bound: faults

Fault == {"crash",    \* the process ends without a shutdown
          "foreign",  \* another client of the ledger imports an account
          "removed"}  \* a file is taken out of authenticated/ by hand

ASSUME FaultAssumption == FaultKinds \subseteq Fault /\ Cancels \in BOOLEAN
ASSUME CapacityAssumption ==
  SourceCap \in Nat /\ CompletionCap \in Nat /\ MaxRetries \in Nat
ASSUME NoOneAssumption == NoOne \notin Receipts

Accounts == Receipts

VARIABLES
  phase,            \* "off", "running", "stopping" (after _shutdown's cancels)
  states,           \* _states, "new" where there is no entry
  retries,          \* _transient_retries
  retry_heap,       \* entries of an account in _retry_heap
  source_queue, prepared_queue, completion_queue,
  feeding,          \* the account the source task waits to put
  retrying,         \* the account the retry task waits to put
  slot,             \* _prepare_slot_available
  preparer,         \* [at, who] of _prepare_worker
  authorizer,       \* [at, who] of _authorize
  completer,        \* [at, who] of _complete
  resume,           \* the _resume event
  tripped, probe, cooled,  \* rate_gate: _tripped_at, _probe_token, its time
  pending,          \* jobs of an account with status pending
  imports,          \* jobs of an account with status imported
  crashes, foreign  \* faults so far

queueVars == <<source_queue, prepared_queue, completion_queue, feeding,
               retrying, retry_heap>>
gateVars == <<tripped, probe, cooled>>
boundVars == <<crashes, foreign>>
vars == <<storeVars, phase, states, retries, queueVars, slot, preparer,
          authorizer, completer, resume, gateVars, pending, imports, boundVars>>

AccountState == {"new", "queued", "prepared", "active", "retry", "imported",
                 "terminal"}

At(place, s) == [at |-> place, who |-> s]
Nowhere == At("idle", NoOne)

\* A pipeline that has just been constructed, or none.
Fresh(known) ==
  /\ states' = [s \in Accounts |-> IF s \in known THEN "imported" ELSE "new"]
  /\ retries' = [s \in Accounts |-> 0] /\ retry_heap' = [s \in Accounts |-> 0]
  /\ source_queue' = <<>> /\ prepared_queue' = <<>> /\ completion_queue' = <<>>
  /\ feeding' = NoOne /\ retrying' = NoOne
  /\ slot' = TRUE /\ preparer' = At("slot", NoOne)
  /\ authorizer' = Nowhere /\ completer' = Nowhere
  /\ resume' = TRUE /\ tripped' = FALSE /\ probe' = FALSE /\ cooled' = FALSE

Init ==
  /\ StoreInit
  /\ phase = "off"
  /\ states = [s \in Accounts |-> "new"]
  /\ retries = [s \in Accounts |-> 0] /\ retry_heap = [s \in Accounts |-> 0]
  /\ source_queue = <<>> /\ prepared_queue = <<>> /\ completion_queue = <<>>
  /\ feeding = NoOne /\ retrying = NoOne
  /\ slot = TRUE /\ preparer = At("slot", NoOne)
  /\ authorizer = Nowhere /\ completer = Nowhere
  /\ resume = TRUE /\ tripped = FALSE /\ probe = FALSE /\ cooled = FALSE
  /\ pending = [s \in Accounts |-> 0]
  /\ imports = [s \in Accounts |-> IF s \in imported THEN 1 ELSE 0]
  /\ crashes = 0 /\ foreign = 0

----------------------------------------------------------------------------
\* The source and the retry task.

Running == phase = "running"

\* Defect: only the imports of this process count.
has_imported_Here(s) == states[s] = "imported"

\* Ledger.has_imported, and membership in imported_fingerprints.
has_imported(s) == imports[s] > 0

\* Put s into source_queue, or let the task (its variable: mine) wait for room.
Enqueue(s, mine) ==
  IF Len(source_queue) < SourceCap
  THEN source_queue' = Append(source_queue, s) /\ UNCHANGED mine
  ELSE mine' = s /\ UNCHANGED source_queue

\* Defect: an account already known is queued again.
admit_Again(s) ==
  /\ Running /\ feeding = NoOne
  /\ states[s] \in {"new", "retry"}
  /\ states' = [states EXCEPT ![s] = "queued"]
  /\ Enqueue(s, feeding)
  /\ UNCHANGED <<storeVars, phase, retries, retry_heap, prepared_queue,
                 completion_queue, retrying, slot, preparer, authorizer,
                 completer, resume, gateVars, pending, imports, boundVars>>

\* A record of a snapshot.  Snapshots repeat; a known account is passed over.
admit(s) ==
  /\ Running /\ feeding = NoOne
  /\ states[s] = "new"
  /\ states' = [states EXCEPT ![s] = "queued"]
  /\ Enqueue(s, feeding)
  /\ UNCHANGED <<storeVars, phase, retries, retry_heap, prepared_queue,
                 completion_queue, retrying, slot, preparer, authorizer,
                 completer, resume, gateVars, pending, imports, boundVars>>

\* A put of the source task, and one of the retry task, that waited for room.
FeedPut ==
  /\ Running /\ feeding # NoOne /\ Len(source_queue) < SourceCap
  /\ source_queue' = Append(source_queue, feeding)
  /\ feeding' = NoOne
  /\ UNCHANGED <<storeVars, phase, states, retries, retry_heap, retrying,
                 prepared_queue, completion_queue, slot, preparer, authorizer,
                 completer, resume, gateVars, pending, imports, boundVars>>

RetryPut ==
  /\ Running /\ retrying # NoOne /\ Len(source_queue) < SourceCap
  /\ source_queue' = Append(source_queue, retrying)
  /\ retrying' = NoOne
  /\ UNCHANGED <<storeVars, phase, states, retries, retry_heap, feeding,
                 prepared_queue, completion_queue, slot, preparer, authorizer,
                 completer, resume, gateVars, pending, imports, boundVars>>

\* _retry_worker pops an entry that is due; delays differ, so any entry.
RetryDue(s) ==
  /\ Running /\ retrying = NoOne
  /\ retry_heap[s] > 0
  /\ retry_heap' = [retry_heap EXCEPT ![s] = @ - 1]
  /\ IF states[s] = "retry"
     THEN /\ states' = [states EXCEPT ![s] = "queued"]
          /\ Enqueue(s, retrying)
     ELSE UNCHANGED <<states, source_queue, retrying>>
  /\ UNCHANGED <<storeVars, phase, retries, prepared_queue, completion_queue,
                 feeding, slot, preparer, authorizer, completer, resume,
                 gateVars, pending, imports, boundVars>>

----------------------------------------------------------------------------
\* How an attempt ends.  The job is finished in the ledger in the same segment.

\* Ledger.finish with a status other than imported: only a pending job changes.
JobEnds(s) == pending' = [pending EXCEPT ![s] = IF @ > 0 THEN @ - 1 ELSE @]

\* retry="rate_limited", and a cancelled attempt: no budget is used.
ScheduleRetry(s) ==
  /\ JobEnds(s)
  /\ states' = [states EXCEPT ![s] = "retry"]
  /\ retry_heap' = [retry_heap EXCEPT ![s] = @ + 1]
  /\ UNCHANGED retries

Terminal(s) ==
  /\ JobEnds(s)
  /\ states' = [states EXCEPT ![s] = "terminal"]
  /\ UNCHANGED <<retries, retry_heap>>

\* retry=True: another attempt while the budget lasts.
Transient(s) ==
  IF retries[s] < MaxRetries
  THEN /\ JobEnds(s)
       /\ retries' = [retries EXCEPT ![s] = @ + 1]
       /\ states' = [states EXCEPT ![s] = "retry"]
       /\ retry_heap' = [retry_heap EXCEPT ![s] = @ + 1]
  ELSE Terminal(s)

----------------------------------------------------------------------------
\* The prepare task: one device flow ahead of the authorizer, for which the
\* slot is a token.  Its put never waits (see OneFlowAhead).

prepareUnchanged == <<storeVars, phase, feeding, retrying, completion_queue,
                      authorizer, completer, resume, gateVars, imports,
                      boundVars>>

\* Defect: the event is not cleared.
PrepareSlot_NotCleared ==
  /\ Running /\ preparer.at = "slot" /\ slot
  /\ preparer' = At("source", NoOne)
  /\ UNCHANGED <<slot, prepareUnchanged, states, retries, retry_heap,
                 source_queue, prepared_queue, pending>>

PrepareSlot ==
  /\ Running /\ preparer.at = "slot" /\ slot
  /\ slot' = FALSE
  /\ preparer' = At("source", NoOne)
  /\ UNCHANGED <<prepareUnchanged, states, retries, retry_heap, source_queue,
                 prepared_queue, pending>>

\* source_queue.get, Ledger.start_fingerprint, and the request for a flow.
PrepareGet ==
  /\ Running /\ preparer.at = "source" /\ source_queue # <<>>
  /\ preparer' = At("flow", Head(source_queue))
  /\ source_queue' = Tail(source_queue)
  /\ pending' = [pending EXCEPT ![Head(source_queue)] = @ + 1]
  /\ UNCHANGED <<prepareUnchanged, states, retries, retry_heap, slot,
                 prepared_queue>>

FlowStarted ==
  /\ Running /\ preparer.at = "flow"
  /\ states' = [states EXCEPT ![preparer.who] = "prepared"]
  /\ prepared_queue' = Append(prepared_queue, preparer.who)
  /\ preparer' = At("slot", NoOne)
  /\ UNCHANGED <<prepareUnchanged, retries, retry_heap, source_queue, slot,
                 pending>>

\* Defect: the slot stays taken.
FlowFailed_KeepsSlot ==
  /\ Running /\ preparer.at = "flow"
  /\ Terminal(preparer.who) \/ Transient(preparer.who)
  /\ preparer' = At("slot", NoOne)
  /\ UNCHANGED <<slot, prepareUnchanged, source_queue, prepared_queue>>

\* A ValueError ends the account, any other failure (a timeout, too) retries.
FlowFailed ==
  /\ Running /\ preparer.at = "flow"
  /\ Terminal(preparer.who) \/ Transient(preparer.who)
  /\ slot' = TRUE
  /\ preparer' = At("slot", NoOne)
  /\ UNCHANGED <<prepareUnchanged, source_queue, prepared_queue>>

----------------------------------------------------------------------------
\* The global rate limit gate.

GateOpenFor == ~tripped \/ (~probe /\ cooled)

\* The cooldown passes.
Cooled ==
  /\ Running /\ tripped /\ ~cooled
  /\ cooled' = TRUE
  /\ UNCHANGED <<storeVars, phase, states, retries, queueVars, slot, preparer,
                 authorizer, completer, resume, tripped, probe, pending,
                 imports, boundVars>>

\* rate_limited: the first trips, the probe starts the cooldown again.
rate_limited ==
  IF ~tripped \/ probe
  THEN tripped' = TRUE /\ cooled' = FALSE /\ probe' = FALSE
  ELSE UNCHANGED gateVars

authorized ==
  IF tripped /\ probe
  THEN tripped' = FALSE /\ cooled' = FALSE /\ probe' = FALSE
  ELSE UNCHANGED gateVars

\* inconclusive: the probe is given back, and cools down once more.
inconclusive ==
  IF tripped /\ probe
  THEN cooled' = FALSE /\ probe' = FALSE /\ UNCHANGED tripped
  ELSE UNCHANGED gateVars

----------------------------------------------------------------------------
\* _authorization_worker and _authorize.

AuthorizerAt(place) == phase = "running" /\ authorizer.at = place

authorizeUnchanged == <<storeVars, phase, source_queue, feeding, retrying,
                        preparer, completer, resume, imports, boundVars>>

AuthorizeGet ==
  /\ Running /\ authorizer.at = "idle" /\ prepared_queue # <<>>
  /\ authorizer' = At("pace", Head(prepared_queue))
  /\ prepared_queue' = Tail(prepared_queue)
  /\ slot' = TRUE
  /\ UNCHANGED <<authorizeUnchanged, states, retries, retry_heap,
                 completion_queue, gateVars, pending>>

\* _finish_if_already_imported, when another client of the ledger was faster.
AlreadyImported(s) ==
  /\ JobEnds(s)
  /\ states' = [states EXCEPT ![s] = "imported"]
  /\ retries' = [retries EXCEPT ![s] = 0]
  /\ inconclusive
  /\ authorizer' = Nowhere
  /\ UNCHANGED retry_heap

\* The minimum interval has passed, and nobody has paused.
Paced ==
  /\ AuthorizerAt("pace") /\ resume
  /\ IF has_imported(authorizer.who)
     THEN AlreadyImported(authorizer.who)
     ELSE /\ authorizer' = At("permit", authorizer.who)
          /\ UNCHANGED <<states, retries, retry_heap, gateVars, pending>>
  /\ UNCHANGED <<authorizeUnchanged, prepared_queue, completion_queue, slot>>

wait_for_permission ==
  /\ AuthorizerAt("permit") /\ resume /\ GateOpenFor
  /\ probe' = tripped
  /\ authorizer' = At("loop", authorizer.who)
  /\ UNCHANGED <<authorizeUnchanged, states, retries, retry_heap, tripped,
                 cooled, prepared_queue, completion_queue, slot, pending>>

\* The flow is fresh: one more look at the ledger, then the confirmation.
Start(s) ==
  IF has_imported(s)
  THEN AlreadyImported(s)
  ELSE /\ states' = [states EXCEPT ![s] = "active"]
       /\ authorizer' = At("confirm", s)
       /\ UNCHANGED <<retries, retry_heap, gateVars, pending>>

FlowFresh ==
  /\ AuthorizerAt("loop") /\ resume
  /\ Start(authorizer.who)
  /\ UNCHANGED <<authorizeUnchanged, prepared_queue, completion_queue, slot>>

\* The flow is too old: _refresh_flow_if_needed asks for another.
FlowStale ==
  /\ AuthorizerAt("loop") /\ resume
  /\ authorizer' = At("refresh", authorizer.who)
  /\ UNCHANGED <<authorizeUnchanged, states, retries, retry_heap, gateVars,
                 prepared_queue, completion_queue, slot, pending>>

\* Defect: a pause during the request is not noticed.
Refreshed_Blind ==
  /\ AuthorizerAt("refresh")
  /\ Start(authorizer.who)
  /\ UNCHANGED <<authorizeUnchanged, prepared_queue, completion_queue, slot>>

\* After the request the loop looks at the pause again.
Refreshed ==
  /\ AuthorizerAt("refresh")
  /\ IF resume
     THEN Start(authorizer.who)
     ELSE /\ authorizer' = At("loop", authorizer.who)
          /\ UNCHANGED <<states, retries, retry_heap, gateVars, pending>>
  /\ UNCHANGED <<authorizeUnchanged, prepared_queue, completion_queue, slot>>

\* Defect: the probe is kept.
RefreshFailed_KeepsProbe ==
  /\ AuthorizerAt("refresh")
  /\ UNCHANGED gateVars
  /\ Terminal(authorizer.who) \/ Transient(authorizer.who)
  /\ authorizer' = Nowhere
  /\ UNCHANGED <<authorizeUnchanged, prepared_queue, completion_queue, slot>>

RefreshFailed ==
  /\ AuthorizerAt("refresh")
  /\ inconclusive
  /\ Terminal(authorizer.who) \/ Transient(authorizer.who)
  /\ authorizer' = Nowhere
  /\ UNCHANGED <<authorizeUnchanged, prepared_queue, completion_queue, slot>>

\* AUTHORIZED: the job goes on to completion_queue as soon as there is room.
Confirmed ==
  /\ AuthorizerAt("confirm")
  /\ authorized
  /\ IF Len(completion_queue) < CompletionCap
     THEN /\ completion_queue' = Append(completion_queue, authorizer.who)
          /\ authorizer' = Nowhere
     ELSE /\ authorizer' = At("put", authorizer.who)
          /\ UNCHANGED completion_queue
  /\ UNCHANGED <<authorizeUnchanged, states, retries, retry_heap,
                 prepared_queue, slot, pending>>

PutCompletion ==
  /\ AuthorizerAt("put") /\ Len(completion_queue) < CompletionCap
  /\ completion_queue' = Append(completion_queue, authorizer.who)
  /\ authorizer' = Nowhere
  /\ UNCHANGED <<authorizeUnchanged, states, retries, retry_heap, gateVars,
                 prepared_queue, slot, pending>>

ConfirmLimited ==
  /\ AuthorizerAt("confirm")
  /\ rate_limited
  /\ ScheduleRetry(authorizer.who)
  /\ authorizer' = Nowhere
  /\ UNCHANGED <<authorizeUnchanged, prepared_queue, completion_queue, slot>>

\* Any other answer ends the account or not; exceptions and timeouts do not.
ConfirmFailed ==
  /\ AuthorizerAt("confirm")
  /\ inconclusive
  /\ Terminal(authorizer.who) \/ Transient(authorizer.who)
  /\ authorizer' = Nowhere
  /\ UNCHANGED <<authorizeUnchanged, prepared_queue, completion_queue, slot>>

----------------------------------------------------------------------------
\* _completion_worker and _complete.

completeUnchanged == <<phase, source_queue, prepared_queue, feeding, retrying,
                       slot, preparer, authorizer, resume, gateVars, boundVars>>

CompleteGet ==
  /\ Running /\ completer.at = "idle" /\ completion_queue # <<>>
  /\ completer' = At("poll", Head(completion_queue))
  /\ completion_queue' = Tail(completion_queue)
  /\ UNCHANGED <<completeUnchanged, storeVars, states, retries, retry_heap,
                 pending, imports>>

\* denied, expired or rejected is final; the transport's failures are not.
PollFailed ==
  /\ Running /\ completer.at = "poll"
  /\ Terminal(completer.who) \/ Transient(completer.who)
  /\ completer' = Nowhere
  /\ UNCHANGED <<completeUnchanged, storeVars, completion_queue, imports>>

\* The token is there; from now on the attempt cannot be cancelled.
Polled ==
  /\ Running /\ completer.at = "poll"
  /\ completer' = At("store", completer.who)
  /\ UNCHANGED <<completeUnchanged, storeVars, completion_queue, states,
                 retries, retry_heap, pending, imports>>

\* The sink's thread puts the file in place.
Stored ==
  /\ completer.at = "store" /\ completer.who \notin committing
  /\ store(completer.who)
  /\ UNCHANGED <<completeUnchanged, completer, completion_queue, states,
                 retries, retry_heap, pending, imports>>

StoreFailed ==
  /\ completer.at = "store"
  /\ store_failed(completer.who)
  /\ Transient(completer.who)
  /\ completer' = Nowhere
  /\ UNCHANGED <<completeUnchanged, completion_queue, imports>>

Imported ==
  /\ completer.at = "store" /\ completer.who \in committing
  /\ finish(completer.who)
  /\ JobEnds(completer.who)
  /\ imports' = [imports EXCEPT ![completer.who] = @ + 1]
  /\ states' = [states EXCEPT ![completer.who] = "imported"]
  /\ retries' = [retries EXCEPT ![completer.who] = 0]
  /\ completer' = Nowhere
  /\ UNCHANGED <<completeUnchanged, completion_queue, retry_heap>>

----------------------------------------------------------------------------
\* Commands, the shutdown, crashes and restarts.

Pause ==
  /\ Running /\ resume
  /\ resume' = FALSE
  /\ UNCHANGED <<storeVars, phase, states, retries, queueVars, slot, preparer,
                 authorizer, completer, gateVars, pending, imports, boundVars>>

Resume ==
  /\ Running /\ ~resume
  /\ resume' = TRUE
  /\ UNCHANGED <<storeVars, phase, states, retries, queueVars, slot, preparer,
                 authorizer, completer, gateVars, pending, imports, boundVars>>

Cancellable ==
  authorizer.at \in {"pace", "permit", "loop", "refresh", "confirm"}

\* cancel_active: the authorization if it may be cancelled, else the poll.
cancel_active ==
  /\ Running /\ Cancels
  /\ IF Cancellable
     THEN /\ inconclusive
          /\ ScheduleRetry(authorizer.who)
          /\ authorizer' = Nowhere /\ UNCHANGED completer
     ELSE /\ completer.at = "poll"
          /\ ScheduleRetry(completer.who)
          /\ completer' = Nowhere /\ UNCHANGED <<authorizer, gateVars>>
  /\ UNCHANGED <<storeVars, phase, source_queue, prepared_queue, feeding,
                 retrying, completion_queue, slot, preparer, resume, imports,
                 boundVars>>

\* The jobs of these workers end as "shutdown_cancelled".
JobsEnd(workers) ==
  pending' = [s \in Accounts |->
    pending[s] - Cardinality({w \in 1 .. Len(workers) : workers[w] = s})]

\* Defect: the poll is left alone.
shutdown_LeavesPoll ==
  /\ Running
  /\ phase' = "stopping" /\ resume' = TRUE
  /\ IF feeding # NoOne
     THEN states' = [states EXCEPT ![feeding] = "new"] ELSE UNCHANGED states
  /\ feeding' = NoOne /\ retrying' = NoOne
  /\ JobsEnd(<<preparer.who, authorizer.who>>)
  /\ preparer' = Nowhere /\ authorizer' = Nowhere
  /\ probe' = FALSE
  /\ UNCHANGED <<storeVars, completer, retries, retry_heap, source_queue,
                 prepared_queue, completion_queue, slot, tripped, cooled,
                 imports, boundVars>>

\* _shutdown, on `q`, at the end of the input or after an error of a task:
\* the tasks are cancelled, only a commit in progress goes on.
shutdown ==
  /\ Running
  /\ phase' = "stopping" /\ resume' = TRUE
  /\ IF feeding # NoOne
     THEN states' = [states EXCEPT ![feeding] = "new"] ELSE UNCHANGED states
  /\ feeding' = NoOne /\ retrying' = NoOne
  /\ JobsEnd(<<preparer.who, authorizer.who,
               IF completer.at = "poll" THEN completer.who ELSE NoOne>>)
  /\ preparer' = Nowhere /\ authorizer' = Nowhere
  /\ completer' = IF completer.at = "poll" THEN Nowhere ELSE completer
  /\ probe' = FALSE
  /\ UNCHANGED <<storeVars, retries, retry_heap, source_queue, prepared_queue,
                 completion_queue, slot, tripped, cooled, imports, boundVars>>

\* Defect: the jobs of completion_queue are dropped with the queue.
settle_Half ==
  /\ phase = "stopping" /\ completer.at = "idle"
  /\ StoreStop
  /\ JobsEnd(prepared_queue)
  /\ phase' = "off" /\ Fresh({})
  /\ UNCHANGED <<imports, boundVars>>

\* After the gather: _settle_buffered_attempts.  The process ends when the
\* thread of a `take` has ended, too.
settle ==
  /\ phase = "stopping" /\ completer.at = "idle"
  /\ StoreStop
  /\ JobsEnd(prepared_queue \o completion_queue)
  /\ phase' = "off" /\ Fresh({})
  /\ UNCHANGED <<imports, boundVars>>

FaultAllowed(kind) ==
  /\ kind \in FaultKinds
  /\ crashes + foreign + Cardinality(removed) < MaxFaults

\* The process is killed, or the machine stops.
Crash ==
  /\ FaultAllowed("crash") /\ crashes' = crashes + 1
  /\ StoreCrash
  /\ phase' = "off" /\ Fresh({})
  /\ UNCHANGED <<pending, imports, foreign>>

restVars == <<phase, states, retries, queueVars, slot, preparer, authorizer,
              completer, resume, gateVars, pending, imports, boundVars>>

\* The service is started; the claims of an earlier process are completed.
Restart == Ledger_init /\ UNCHANGED restVars

\* AuthPipeline.__init__ (recover_pending, imported_fingerprints) and run.
AuthPipelineInit ==
  /\ recovered
  /\ phase' = "running" /\ Fresh({s \in Accounts : has_imported(s)})
  /\ pending' = [s \in Accounts |-> 0]
  /\ UNCHANGED <<imports, boundVars>>

\* `take`, and the recovery: threads next to the pipeline.  The command loop
\* waits for a `take`, and takes no command after `q`.
Inventory ==
  /\ Mover
  /\ Idle => phase # "stopping"
  /\ UNCHANGED restVars

\* Another client of the same ledger and directory imports the account.
ImportedElsewhere(s) ==
  /\ FaultAllowed("foreign") /\ foreign' = foreign + 1
  /\ StoreElsewhere(s)
  /\ imports' = [imports EXCEPT ![s] = @ + 1]
  /\ UNCHANGED <<phase, states, retries, queueVars, slot, preparer, authorizer,
                 completer, resume, gateVars, pending, crashes>>

TakenByHand(r) ==
  /\ FaultAllowed("removed")
  /\ RemoveByHand(r)
  /\ UNCHANGED restVars

----------------------------------------------------------------------------

Feed == FeedPut \/ RetryPut \/ \E s \in Accounts : RetryDue(s)
Prepare == PrepareSlot \/ PrepareGet \/ FlowStarted \/ FlowFailed
Authorize ==
  \/ AuthorizeGet \/ Paced \/ wait_for_permission \/ FlowFresh \/ FlowStale
  \/ Refreshed \/ RefreshFailed \/ Confirmed \/ PutCompletion
  \/ ConfirmLimited \/ ConfirmFailed
Complete ==
  \/ CompleteGet \/ PollFailed \/ Polled \/ Stored \/ StoreFailed \/ Imported
Command == Pause \/ Resume \/ cancel_active \/ shutdown
Process == settle \/ Restart \/ AuthPipelineInit \/ Inventory

Next ==
  \/ \E s \in Accounts : admit(s) \/ ImportedElsewhere(s) \/ TakenByHand(s)
  \/ Feed \/ Prepare \/ Cooled \/ Authorize \/ Complete
  \/ Command \/ Process \/ Crash

Spec == Init /\ [][Next]_vars
----------------------------------------------------------------------------

Live == {"queued", "prepared", "active", "retry"}

Occurs(s, queue) == Cardinality({i \in 1 .. Len(queue) : queue[i] = s})
Holds(s, who) == IF who = s THEN 1 ELSE 0

\* The places of the pipeline where an attempt of s has a pending job ...
Attempts(s) ==
  Holds(s, preparer.who) + Holds(s, authorizer.who) + Holds(s, completer.who)
    + Occurs(s, prepared_queue) + Occurs(s, completion_queue)

\* ... and where it waits for one.
Waits(s) ==
  Holds(s, feeding) + Holds(s, retrying) + Occurs(s, source_queue)
    + retry_heap[s]

TypeOK ==
  /\ StoreTypeOK
  /\ phase \in {"off", "running", "stopping"}
  /\ states \in [Accounts -> AccountState]
  /\ retries \in [Accounts -> 0 .. MaxRetries]
  /\ pending \in [Accounts -> Nat] /\ imports \in [Accounts -> Nat]
  /\ Len(source_queue) =< SourceCap /\ Len(completion_queue) =< CompletionCap
  /\ (phase # "off") => service = "up"

\* An account in work is in exactly one place of the running pipeline, and one
\* that is not is in none: nothing is lost between two tasks or worked twice.
OneHolder ==
  Running => \A s \in Accounts :
    Attempts(s) + Waits(s) = IF states[s] \in Live THEN 1 ELSE 0

\* A pending row of the ledger belongs to an attempt in some stage, and a
\* process that stops in order leaves none.
PendingOwned ==
  \A s \in Accounts :
    /\ phase # "off" => pending[s] = Attempts(s)
    /\ phase = "off" /\ crashes = 0 => pending[s] = 0

\* One flow is prepared ahead of the authorizer, never two: the slot, an
\* attempt in preparation and a prepared job exclude each other, and one of
\* the three is always there.  So the put into prepared_queue never waits.
OneFlowAhead ==
  Running =>
    (IF slot THEN 1 ELSE 0) + (IF preparer.at # "slot" THEN 1 ELSE 0)
      + Len(prepared_queue) = 1

\* While the gate is tripped there is one probe at most, the authorizer has
\* it, and nothing is confirmed without it.
ProbeCarried ==
  Running =>
    /\ probe => tripped /\ authorizer.at \in {"loop", "refresh", "confirm"}
    /\ tripped /\ authorizer.at \in {"loop", "refresh", "confirm"} => probe

\* An account that this service has imported is not imported by it again,
\* whatever was retried, cancelled or killed.
NoSecondImport == \A s \in Accounts : imports[s] =< 1 + foreign

\* A confirmation starts only while nobody has paused the service, for an
\* account without an import on record, and in a cooldown only with the
\* probe, although each was looked at several awaits before.
StartsJustified ==
  [][authorizer'.at = "confirm" /\ authorizer.at # "confirm" =>
       /\ resume
       /\ imports[authorizer'.who] = 0
       /\ tripped => probe]_vars

----------------------------------------------------------------------------
\* Tasks run, requests and threads end (all have a timeout), the operator
\* resumes and restarts the service, and the rate limit does not hit the same
\* account for ever.
Fairness ==
  /\ SF_vars(FeedPut) /\ SF_vars(RetryPut)
  /\ \A s \in Accounts : SF_vars(RetryDue(s))
  /\ WF_vars(Prepare) /\ WF_vars(Cooled) /\ WF_vars(Authorize)
  /\ \A s \in Accounts :
       SF_vars(authorizer.who = s /\ (Confirmed \/ ConfirmFailed))
  /\ WF_vars(Complete)
  /\ WF_vars(settle \/ Restart \/ AuthPipelineInit)
  /\ WF_vars(Inventory /\ (~Idle \/ service = "recovering"))

LiveSpec == Spec /\ Fairness

\* An account that was admitted ends imported or given up, unless the service
\* is paused, stopped or killed on the way.
AdmittedEnds ==
  \A s \in Accounts :
    Running /\ states[s] \in Live ~>
      states[s] \in {"imported", "terminal"} \/ ~resume \/ phase # "running"

\* A shutdown ends, also in the middle of a commit or of a `take`.
ShutdownCompletes == phase = "stopping" ~> phase = "off"

\* A claim is completed, if need be by a later process: unless its file was
\* taken away, or another client put a second one beside it.
ClaimsComplete ==
  \A r \in Receipts :
    state[r] = "claiming" ~>
      state[r] = "claimed" \/ removed # {} \/ foreign > 0
=============================================================================
