-------------------------- MODULE CredentialStore --------------------------
(***************************************************************************)
(* Where the authentication service keeps its credentials: the ledger      *)
(* (xai_enroller/ledger.py), the directories authenticated/ and            *)
(* claimed/<batch>/ (inventory.py) and the sink that fills the first one   *)
(* (sinks.py).  A file and its row are two stores that change one after    *)
(* the other; a process that ends in between leaves them apart, and the    *)
(* next start brings them together.                                        *)
(*                                                                         *)
(* An action is one transaction of the ledger or one os.replace.  `take`   *)
(* and `recover` run in a thread, next to the sink's thread and the event  *)
(* loop.  A receipt names the file of one credential.                      *)
(***************************************************************************)
EXTENDS Naturals, FiniteSets

CONSTANTS Receipts, Batches,
          NoBatch      \* the empty batch_id

ASSUME BatchAssumption == NoBatch \notin Batches

ASSUME ReceiptsFinite == IsFiniteSet(Receipts)

VARIABLES
  imported,    \* receipts of the jobs with status imported
  state,       \* credential_inventory.state, "none" where there is no row
  batch_id,    \* credential_inventory.batch_id
  available,   \* files in authenticated/
  claimed,     \* claimed[b]: files in claimed/<b>/
  committing,  \* stored by the sink, not yet finished in the ledger
  batch,       \* the batch _complete_batch works on, NoBatch: none
  receipts,    \* the receipts of that batch
  todo,        \* those of them it has not reached
  removed,     \* files somebody took out of authenticated/ by hand
  service      \* "down", "recovering" (before the pipeline), "up"

ledgerVars == <<imported, state, batch_id>>
fileVars == <<available, claimed, removed>>
moverVars == <<batch, receipts, todo>>
storeVars == <<ledgerVars, fileVars, committing, moverVars, service>>

RowState == {"none", "available", "claiming", "claimed"}

\* The ledger may be older than its inventory table: imports without a row.
StoreInit ==
  /\ imported \in SUBSET Receipts
  /\ state = [r \in Receipts |-> "none"]
  /\ batch_id = [r \in Receipts |-> NoBatch]
  /\ available = imported
  /\ claimed = [b \in Batches |-> {}]
  /\ committing = {} /\ removed = {}
  /\ batch = NoBatch /\ receipts = {} /\ todo = {}
  /\ service = "down"

----------------------------------------------------------------------------

\* The rows that still claim for batch b.
Claiming(b) == {r \in Receipts : state[r] = "claiming" /\ batch_id[r] = b}

\* Defect: INSERT OR REPLACE.
WithRows_Replace(R) ==
  [r \in Receipts |-> IF r \in R THEN "available" ELSE state[r]]

\* INSERT OR IGNORE INTO credential_inventory ... 'available', for all of R.
WithRows(R) ==
  [r \in Receipts |->
     IF r \in R /\ state[r] = "none" THEN "available" ELSE state[r]]

\* LocalAuthFileSink._store_sync: the file is replaced, whatever was there.
store(r) ==
  /\ service = "up"
  /\ available' = available \cup {r}
  /\ committing' = committing \cup {r}
  /\ UNCHANGED <<ledgerVars, claimed, removed, moverVars, service>>

\* An exception of the sink, before the file is in place or after it.
store_failed(r) ==
  /\ service = "up"
  /\ available' \in {available, available \cup {r}}
  /\ committing' = committing \ {r}
  /\ UNCHANGED <<ledgerVars, claimed, removed, moverVars, service>>

\* Ledger.finish(IMPORTED): the job and its row in one transaction.
finish(r) ==
  /\ r \in committing
  /\ committing' = committing \ {r}
  /\ imported' = imported \cup {r}
  /\ state' = WithRows({r})
  /\ UNCHANGED <<batch_id, fileVars, moverVars, service>>

----------------------------------------------------------------------------

\* The thread of take or recover has nothing in hand.
Idle == batch = NoBatch

\* Defect: what lies in the directory is claimed, recorded or not.
claim_available_Files(b, R) ==
  /\ service = "up" /\ Idle
  /\ \A r \in Receipts : batch_id[r] # b
  /\ R # {} /\ R \subseteq {r \in available : state[r] \in {"none", "available"}}
  /\ state' = [r \in Receipts |-> IF r \in R THEN "claiming" ELSE state[r]]
  /\ batch_id' = [r \in Receipts |-> IF r \in R THEN b ELSE batch_id[r]]
  /\ batch' = b /\ receipts' = R /\ todo' = R
  /\ UNCHANGED <<imported, fileVars, committing, service>>

\* Defect: the limit holds for the update, not for the answer.
claim_available_AnswersAll(b, R) ==
  /\ service = "up" /\ Idle
  /\ \A r \in Receipts : batch_id[r] # b
  /\ R # {} /\ R \subseteq {r \in imported : state[r] = "available"}
  /\ state' = [r \in Receipts |-> IF r \in R THEN "claiming" ELSE state[r]]
  /\ batch_id' = [r \in Receipts |-> IF r \in R THEN b ELSE batch_id[r]]
  /\ batch' = b
  /\ receipts' = {r \in imported : state[r] = "available"}
  /\ todo' = {r \in imported : state[r] = "available"}
  /\ UNCHANGED <<imported, fileVars, committing, service>>

\* Ledger.claim_available: any rows, since the limit and the finishing times,
\* by which it orders, are free.  The batch_id is fresh.
claim_available(b, R) ==
  /\ service = "up" /\ Idle
  /\ \A r \in Receipts : batch_id[r] # b
  /\ R # {} /\ R \subseteq {r \in imported : state[r] = "available"}
  /\ state' = [r \in Receipts |-> IF r \in R THEN "claiming" ELSE state[r]]
  /\ batch_id' = [r \in Receipts |-> IF r \in R THEN b ELSE batch_id[r]]
  /\ batch' = b /\ receipts' = R /\ todo' = R
  /\ UNCHANGED <<imported, fileVars, committing, service>>

\* _complete_batch is left; out of recover an InventoryError ends the start.
LeaveBatch(failed) ==
  /\ batch' = NoBatch /\ receipts' = {} /\ todo' = {}
  /\ service' = IF failed /\ service = "recovering" THEN "down" ELSE service

\* One receipt of _complete_batch: moved now, or found moved.
move(r) ==
  /\ ~Idle /\ r \in todo
  /\ (r \in available) # (r \in claimed[batch])
  /\ available' = available \ {r}
  /\ claimed' = [claimed EXCEPT ![batch] = @ \cup {r}]
  /\ todo' = todo \ {r}
  /\ UNCHANGED <<ledgerVars, removed, committing, batch, receipts, service>>

\* "credential file is missing", or it "exists in both inventory locations".
move_error(r) ==
  /\ ~Idle /\ r \in todo
  /\ (r \in available) = (r \in claimed[batch])
  /\ LeaveBatch(TRUE)
  /\ UNCHANGED <<ledgerVars, fileVars, committing>>

\* All files are in place: Ledger.mark_claimed, and the count it is held to.
mark_claimed ==
  /\ ~Idle /\ todo = {}
  /\ state' = [r \in Receipts |->
                 IF r \in Claiming(batch) THEN "claimed" ELSE state[r]]
  /\ LeaveBatch(Cardinality(Claiming(batch)) # Cardinality(receipts))
  /\ UNCHANGED <<imported, batch_id, fileVars, committing>>

----------------------------------------------------------------------------

\* main_async opens the ledger; Ledger._init gives every import its row.
Ledger_init ==
  /\ service = "down"
  /\ service' = "recovering"
  /\ state' = WithRows(imported)
  /\ UNCHANGED <<imported, batch_id, fileVars, committing, moverVars>>

\* Defect: as Ledger.recover_claiming would have it, back to available.
recover_Reopens(b) ==
  /\ service = "recovering" /\ Idle /\ Claiming(b) # {}
  /\ state' = [r \in Receipts |->
                 IF r \in Claiming(b) THEN "available" ELSE state[r]]
  /\ UNCHANGED <<imported, batch_id, fileVars, committing, moverVars, service>>

\* CredentialInventory.recover: one unfinished batch after the other.
recover(b) ==
  /\ service = "recovering" /\ Idle
  /\ Claiming(b) # {}
  /\ batch' = b /\ receipts' = Claiming(b) /\ todo' = Claiming(b)
  /\ UNCHANGED <<ledgerVars, fileVars, committing, service>>

\* Defect: the service starts with batches left to complete.
recovered_Unfinished ==
  /\ service = "recovering" /\ Idle
  /\ service' = "up"
  /\ UNCHANGED <<ledgerVars, fileVars, committing, moverVars>>

\* Every unfinished batch is complete: main_async goes on.
recovered ==
  /\ service = "recovering" /\ Idle
  /\ \A b \in Batches : Claiming(b) = {}
  /\ service' = "up"
  /\ UNCHANGED <<ledgerVars, fileVars, committing, moverVars>>

\* The process ends in order: nothing is being stored, no batch is in hand.
StoreStop ==
  /\ service = "up" /\ Idle
  /\ service' = "down"
  /\ UNCHANGED <<ledgerVars, fileVars, committing, moverVars>>

\* The process ends, at any point: rows and files are what is left.
StoreCrash ==
  /\ service # "down"
  /\ committing' = {}
  /\ batch' = NoBatch /\ receipts' = {} /\ todo' = {}
  /\ service' = "down"
  /\ UNCHANGED <<ledgerVars, fileVars>>

\* Another client of the same ledger and directory imports r.
StoreElsewhere(r) ==
  /\ imported' = imported \cup {r} /\ available' = available \cup {r}
  /\ state' = WithRows({r})
  /\ UNCHANGED <<batch_id, claimed, removed, committing, moverVars, service>>

\* The operator takes a file out of authenticated/ without `take`.
RemoveByHand(r) ==
  /\ r \in available
  /\ available' = available \ {r}
  /\ removed' = removed \cup {r}
  /\ UNCHANGED <<ledgerVars, claimed, committing, moverVars, service>>

\* The steps of take and recover.
Mover ==
  \/ \E b \in Batches : \/ recover(b)
                        \/ \E R \in SUBSET Receipts : claim_available(b, R)
  \/ \E r \in Receipts : move(r) \/ move_error(r)
  \/ mark_claimed

StoreNext ==
  \/ Mover \/ Ledger_init \/ recovered \/ StoreStop \/ StoreCrash
  \/ \E r \in Receipts : \/ store(r) \/ store_failed(r) \/ finish(r)
                         \/ StoreElsewhere(r) \/ RemoveByHand(r)

StoreSpec == StoreInit /\ [][StoreNext]_storeVars

----------------------------------------------------------------------------

StoreTypeOK ==
  /\ imported \subseteq Receipts
  /\ state \in [Receipts -> RowState]
  /\ batch_id \in [Receipts -> Batches \cup {NoBatch}]
  /\ available \subseteq Receipts /\ removed \subseteq Receipts
  /\ claimed \in [Batches -> SUBSET Receipts]
  /\ committing \subseteq Receipts
  /\ batch \in Batches \cup {NoBatch}
  /\ receipts \subseteq Receipts /\ todo \subseteq receipts
  /\ service \in {"down", "recovering", "up"}

\* A file that has been handed out belongs to the batch its row names, and
\* the row will never be offered again.  So no credential is in two batches,
\* whatever crashes and repeated imports there were.
HandedOutOnce ==
  \A b \in Batches : \A r \in claimed[b] :
    /\ batch_id[r] = b
    /\ state[r] \in {"claiming", "claimed"}

\* No row without its file: what is on offer lies in authenticated/, what is
\* claimed in its batch, and what is between them in one of the two (unless
\* somebody removed it by hand).
NothingLost ==
  \A r \in Receipts :
    /\ state[r] = "available" => r \in available \cup removed
    /\ state[r] = "claiming" =>
         r \in available \cup removed \cup claimed[batch_id[r]]
    /\ state[r] = "claimed" => r \in claimed[batch_id[r]]

\* The batch in hand is exactly what the ledger still claims for it, so the
\* count at the end of _complete_batch always agrees.
BatchAgrees ==
  ~Idle => /\ receipts = Claiming(batch)
           /\ receipts \ todo \subseteq claimed[batch]

\* What has been handed out: the files of the batch directories.
HandedOut == {rb \in Receipts \X Batches : rb[1] \in claimed[rb[2]]}

Handout == INSTANCE CredentialHandout WITH
  recorded <- imported, handed <- HandedOut

\* The two stores together hand each credential out once and for good.
ImplementsHandout == Handout!Spec
=============================================================================
