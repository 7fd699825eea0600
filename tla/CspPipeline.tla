---------------------------- MODULE CspPipeline ----------------------------
(***************************************************************************)
(* The S, P and C workers of grok_register/register.py over one event      *)
(* loop, composed with the inventory and the admission gate.               *)
(*                                                                         *)
(* An action is what a task does between two suspensions: a task yields    *)
(* when it parks on a condition, waits for a permit, for the outside world *)
(* or in a sleep.  Taking one of the locks is no suspension, since nobody  *)
(* holds one across a suspension, so a put, the notifications after it and *)
(* the release of the lease are one action, as they are in the program.    *)
(***************************************************************************)
EXTENDS AdmissionGate, Inventory

CONSTANTS S, P,            \* the S and the P workers
          Req,             \* identities of pending Q requests
          MaxBatch,        \* p_batch_max
          PhysicalCap, PSendCap, QPendingCap,  \* semaphores
          ApiSolver,       \* TRUE: an HTTP solver, S takes no Physical_Sem
          Target           \* --target: successes after which to stop; 0: never

ASSUME PipelineAssumption ==
  /\ IsFiniteSet(S) /\ IsFiniteSet(P) /\ IsFiniteSet(Req)
  /\ MaxBatch \in Nat \ {0}
  /\ PhysicalCap \in Nat \ {0} /\ PSendCap \in Nat \ {0}
  /\ QPendingCap \in Nat \ {0}
  /\ ApiSolver \in BOOLEAN
  /\ Target \in Nat

\* How main() derives its capacities from one another (see Capacity).
ASSUME DerivedAssumption ==
  /\ THigh =< TSlotCap
  /\ QHigh =< QPendingCap
  /\ MaxBatch =< PhysicalCap

VARIABLES
  pcS, pcP, pcC,           \* where each worker is suspended
  st,                      \* st[r]: how far request r has got
  batch,                   \* batch[p]: the requests p reserved and waits for
  physical_sem, p_send_sem, q_pending_sem,
  stop,                    \* the STOP event
  success_count,           \* counted up to Target
  shutdown                 \* main has cancelled every worker

workerVars == <<pcS, pcP, pcC>>
requestVars == <<st, batch>>
permitVars == <<physical_sem, p_send_sem, q_pending_sem>>
runVars == <<stop, success_count, shutdown>>
vars == <<stockVars, gateVars, workerVars, requestVars, permitVars, runVars>>

\* "top": before the test of STOP; "parked"/"woken": in a condition's wait()
\* before/after a notify; the others are named for what is awaited.
SPc == {"top", "parked", "woken", "physical", "solving", "slot", "done"}
PPc == {"top", "parked", "woken", "pending", "email", "p_send", "physical",
        "sending", "settling", "done"}
CPc == {"top", "parked", "woken", "cooldown", "physical", "verifying",
        "submitting", "done"}

\* "reserved" .. "created" are driven by the P worker, "polling" .. "returned"
\* by the request's own task; "abandoned" and "leaked" are final.
ReqState == {"free", "reserved", "pending", "created",
             "polling", "resend", "resendPhysical", "resending", "returned",
             "abandoned", "leaked"}

Init ==
  /\ GateInit
  /\ InventoryInit
  /\ pcS = [s \in S |-> "top"] /\ pcP = [p \in P |-> "top"]
  /\ pcC = [c \in C |-> "top"]
  /\ st = [r \in Req |-> "free"] /\ batch = [p \in P |-> {}]
  /\ physical_sem = PhysicalCap /\ p_send_sem = PSendCap
  /\ q_pending_sem = QPendingCap
  /\ stop = FALSE /\ success_count = 0 /\ shutdown = FALSE

----------------------------------------------------------------------------

\* notify_all on a condition: everyone parked on it will run again.
Woken(pc) == [w \in DOMAIN pc |-> IF pc[w] = "parked" THEN "woken" ELSE pc[w]]

\* Notify the gate, and let s (p) go to the given place in the same segment.
GateWakesS(s, to) == pcS' = [Woken(pcS) EXCEPT ![s] = to] /\ pcP' = Woken(pcP)
GateWakesP(p, to) == pcP' = [Woken(pcP) EXCEPT ![p] = to] /\ pcS' = Woken(pcS)

In(states) == {r \in Req : st[r] \in states}
Owned == {"pending", "created"}
OnTask == {"polling", "resend", "resendPhysical", "resending", "returned"}

Running == ~shutdown

\* At a worker's loop head with STOP clear, or back from a notified wait().
MayEnter(pc) == pc = "woken" \/ (pc = "top" /\ ~stop)

----------------------------------------------------------------------------
(* S: reserve, take a physical permit, solve, take a slot, stock the T.     *)

S_Admitted(s) ==
  /\ Running /\ MayEnter(pcS[s])
  /\ acquire_t_production(t_depth)
  /\ GateWakesS(s, IF ApiSolver THEN "solving" ELSE "physical")
  /\ UNCHANGED <<stockVars, pcC, requestVars, permitVars, runVars>>

S_Park(s) ==
  /\ Running /\ MayEnter(pcS[s])
  /\ RefuseT(t_depth)
  /\ pcS' = [pcS EXCEPT ![s] = "parked"]
  /\ UNCHANGED <<stockVars, pcP, pcC, requestVars, permitVars, runVars>>

S_Physical(s) ==
  /\ Running /\ pcS[s] = "physical" /\ physical_sem > 0
  /\ physical_sem' = physical_sem - 1
  /\ pcS' = [pcS EXCEPT ![s] = "solving"]
  /\ UNCHANGED <<stockVars, gateVars, pcP, pcC, requestVars, p_send_sem,
                 q_pending_sem, runVars>>

\* What the finally of the solve gives back.
SolverPermit == IF ApiSolver THEN 0 ELSE 1

S_Solved(s) ==
  /\ Running /\ pcS[s] = "solving"
  /\ physical_sem' = physical_sem + SolverPermit
  /\ pcS' = [pcS EXCEPT ![s] = "slot"]
  /\ UNCHANGED <<stockVars, gateVars, pcP, pcC, requestVars, p_send_sem,
                 q_pending_sem, runVars>>

\* Defect: a failed solve leaves the production lease behind.
S_NoToken_KeepsLease(s) ==
  /\ Running /\ pcS[s] = "solving"
  /\ physical_sem' = physical_sem + SolverPermit
  /\ GateWakesS(s, "top")
  /\ UNCHANGED <<stockVars, gateVars, pcC, requestVars, p_send_sem,
                 q_pending_sem, runVars>>

\* The solver timed out, raised or found no token.
S_NoToken(s) ==
  /\ Running /\ pcS[s] = "solving"
  /\ physical_sem' = physical_sem + SolverPermit
  /\ release_t
  /\ GateWakesS(s, "top")
  /\ UNCHANGED <<stockVars, pcC, requestVars, p_send_sem, q_pending_sem,
                 runVars>>

\* Defect: put_t does not notify the consumers.
S_Stock_Silent(s) ==
  /\ Running /\ pcS[s] = "slot"
  /\ \E t \in TEnv : put_t(t)
  /\ release_t
  /\ GateWakesS(s, "top")
  /\ UNCHANGED <<pcC, requestVars, permitVars, runVars>>

\* The T enters the stock: consumers and gate are notified, the lease ends.
S_Stock(s) ==
  /\ Running /\ pcS[s] = "slot"
  /\ \E t \in TEnv : put_t(t)
  /\ pcC' = Woken(pcC)
  /\ release_t
  /\ GateWakesS(s, "top")
  /\ UNCHANGED <<requestVars, permitVars, runVars>>

\* The wait for the slot took longer than T_MAX_AGE.
S_StockExpired(s) ==
  /\ Running /\ pcS[s] = "slot"
  /\ put_t_expired
  /\ release_t
  /\ GateWakesS(s, "top")
  /\ UNCHANGED <<pcC, requestVars, permitVars, runVars>>

S_Stop(s) ==
  /\ Running /\ pcS[s] = "top" /\ stop
  /\ pcS' = [pcS EXCEPT ![s] = "done"]
  /\ UNCHANGED <<stockVars, gateVars, pcP, pcC, requestVars, permitVars,
                 runVars>>

\* Defect: the finally releases the lease whether or not there is one.
S_Cancel_ReleasesAlways(s) ==
  /\ shutdown /\ pcS[s] # "done"
  /\ physical_sem' = IF pcS[s] = "solving" THEN physical_sem + SolverPermit
                     ELSE physical_sem
  /\ release_t /\ GateWakesS(s, "done")
  /\ UNCHANGED <<stockVars, pcC, requestVars, p_send_sem, q_pending_sem,
                 runVars>>

\* CancelledError at whatever s is awaiting.
S_Cancel(s) ==
  /\ shutdown /\ pcS[s] # "done"
  /\ physical_sem' = IF pcS[s] = "solving" THEN physical_sem + SolverPermit
                     ELSE physical_sem
  /\ IF pcS[s] \in {"physical", "solving", "slot"}
     THEN release_t /\ GateWakesS(s, "done")
     ELSE /\ pcS' = [pcS EXCEPT ![s] = "done"]
          /\ UNCHANGED <<gateVars, pcP>>
  /\ UNCHANGED <<stockVars, pcC, requestVars, p_send_sem, q_pending_sem,
                 runVars>>

SStep(s) == \/ S_Admitted(s) \/ S_Park(s) \/ S_Physical(s) \/ S_Solved(s)
            \/ S_NoToken(s) \/ S_Stock(s) \/ S_Stop(s) \/ S_Cancel(s)

----------------------------------------------------------------------------
(* P: reserve a batch, take its pending permits, create the mailboxes, send *)
(* under the send and a physical permit, leave each sent request to a task. *)

P_Admitted(p) ==
  /\ Running /\ MayEnter(pcP[p])
  /\ acquire_q_batch(q_depth, MaxBatch)
  /\ \E R \in SUBSET In({"free"}) :
       /\ Cardinality(R) = QGrant(q_depth, MaxBatch)
       /\ st' = [r \in Req |-> IF r \in R THEN "reserved" ELSE st[r]]
       /\ batch' = [batch EXCEPT ![p] = R]
  /\ GateWakesP(p, "pending")
  /\ UNCHANGED <<stockVars, pcC, permitVars, runVars>>

P_Park(p) ==
  /\ Running /\ MayEnter(pcP[p])
  /\ RefuseQ(q_depth)
  /\ pcP' = [pcP EXCEPT ![p] = "parked"]
  /\ UNCHANGED <<stockVars, pcS, pcC, requestVars, permitVars, runVars>>

\* One turn of _acquire_many.
P_AcquirePending(p) ==
  /\ Running /\ pcP[p] = "pending" /\ q_pending_sem > 0
  /\ \E r \in batch[p] :
       /\ st[r] = "reserved"
       /\ st' = [st EXCEPT ![r] = "pending"]
       /\ pcP' = [pcP EXCEPT ![p] =
                    IF \E x \in batch[p] \ {r} : st[x] = "reserved"
                    THEN "pending" ELSE "email"]
  /\ q_pending_sem' = q_pending_sem - 1
  /\ UNCHANGED <<stockVars, gateVars, pcS, pcC, batch, physical_sem,
                 p_send_sem, runVars>>

\* Where p goes when request r was the next mailbox and ended as "to".
AfterEmail(p, r, to) ==
  LET rest == batch[p] \ {r}
  IN  IF \E x \in rest : st[x] = "pending" THEN "email"
      ELSE IF to = "created" \/ \E x \in rest : st[x] = "created" THEN "p_send"
      ELSE "top"

P_EmailCreated(p) ==
  /\ Running /\ pcP[p] = "email"
  /\ \E r \in batch[p] :
       /\ st[r] = "pending"
       /\ st' = [st EXCEPT ![r] = "created"]
       /\ pcP' = [pcP EXCEPT ![p] = AfterEmail(p, r, "created")]
  /\ UNCHANGED <<stockVars, gateVars, pcS, pcC, batch, permitVars, runVars>>

\* Defect: a mailbox that fails gives back its reservation but no permit.
P_EmailFailed_KeepsPermit(p) ==
  /\ Running /\ pcP[p] = "email"
  /\ \E r \in batch[p] :
       /\ st[r] = "pending"
       /\ st' = [st EXCEPT ![r] = "free"]
       /\ batch' = [batch EXCEPT ![p] = batch[p] \ {r}]
       /\ GateWakesP(p, AfterEmail(p, r, "free"))
  /\ release_q(1)
  /\ UNCHANGED <<stockVars, pcC, physical_sem, p_send_sem, q_pending_sem,
                 runVars>>

P_EmailFailed(p) ==
  /\ Running /\ pcP[p] = "email"
  /\ \E r \in batch[p] :
       /\ st[r] = "pending"
       /\ st' = [st EXCEPT ![r] = "free"]
       /\ batch' = [batch EXCEPT ![p] = batch[p] \ {r}]
       /\ GateWakesP(p, AfterEmail(p, r, "free"))
  /\ q_pending_sem' = q_pending_sem + 1
  /\ release_q(1)
  /\ UNCHANGED <<stockVars, pcC, physical_sem, p_send_sem, runVars>>

\* _send_q_request_batch takes P_Send_Sem first and Physical_Sem under it.
P_AcquireSend(p) ==
  /\ Running /\ pcP[p] = "p_send" /\ p_send_sem > 0
  /\ p_send_sem' = p_send_sem - 1
  /\ pcP' = [pcP EXCEPT ![p] = "physical"]
  /\ UNCHANGED <<stockVars, gateVars, pcS, pcC, requestVars, physical_sem,
                 q_pending_sem, runVars>>

P_Physical(p) ==
  /\ Running /\ pcP[p] = "physical" /\ physical_sem > 0
  /\ physical_sem' = physical_sem - 1
  /\ pcP' = [pcP EXCEPT ![p] = "sending"]
  /\ UNCHANGED <<stockVars, gateVars, pcS, pcC, requestVars, p_send_sem,
                 q_pending_sem, runVars>>

\* Both permits go back; a task takes over each sent request and the others
\* end here.  A send that raises is the case in which none was sent.
P_Sent(p) ==
  /\ Running /\ pcP[p] = "sending"
  /\ \E sent \in SUBSET batch[p] :
       LET unsent == batch[p] \ sent
       IN  /\ st' = [r \in Req |-> IF r \in sent THEN "polling"
                                   ELSE IF r \in unsent THEN "free" ELSE st[r]]
           /\ batch' = [batch EXCEPT ![p] = sent]
           /\ q_pending_sem' = q_pending_sem + Cardinality(unsent)
           /\ release_q(Cardinality(unsent))
           /\ LET to == IF sent = {} THEN "top" ELSE "settling"
              IN  IF unsent # {} THEN GateWakesP(p, to)
                  ELSE pcP' = [pcP EXCEPT ![p] = to] /\ UNCHANGED pcS
  /\ physical_sem' = physical_sem + 1
  /\ p_send_sem' = p_send_sem + 1
  /\ UNCHANGED <<stockVars, pcC, runVars>>

\* Defect: the worker goes on without waiting for its tasks.
P_Settled_Early(p) ==
  /\ Running /\ pcP[p] = "settling"
  /\ pcP' = [pcP EXCEPT ![p] = "top"]
  /\ UNCHANGED <<stockVars, gateVars, pcS, pcC, requestVars, permitVars,
                 runVars>>

\* gather() over the tasks returns.
P_Settled(p) ==
  /\ Running /\ pcP[p] = "settling"
  /\ batch[p] = {}
  /\ pcP' = [pcP EXCEPT ![p] = "top"]
  /\ UNCHANGED <<stockVars, gateVars, pcS, pcC, requestVars, permitVars,
                 runVars>>

P_Stop(p) ==
  /\ Running /\ pcP[p] = "top" /\ stop
  /\ pcP' = [pcP EXCEPT ![p] = "done"]
  /\ UNCHANGED <<stockVars, gateVars, pcS, pcC, requestVars, permitVars,
                 runVars>>

\* CancelledError inside _acquire_many: the permits are rolled back, but
\* pending_owned is still 0 and nothing releases the reservation.
P_CancelAcquiring(p) ==
  /\ shutdown /\ pcP[p] = "pending"
  /\ st' = [r \in Req |-> IF r \in batch[p] THEN "leaked" ELSE st[r]]
  /\ q_pending_sem' = q_pending_sem
                      + Cardinality({r \in batch[p] : st[r] = "pending"})
  /\ batch' = [batch EXCEPT ![p] = {}]
  /\ pcP' = [pcP EXCEPT ![p] = "done"]
  /\ UNCHANGED <<stockVars, gateVars, pcS, pcC, physical_sem, p_send_sem,
                 runVars>>

\* Defect: a cancelled send gives back no P_Send_Sem.
P_CancelOwning_KeepsSend(p) ==
  /\ shutdown /\ pcP[p] \in {"email", "p_send", "physical", "sending"}
  /\ st' = [r \in Req |-> IF r \in batch[p] THEN "free" ELSE st[r]]
  /\ q_pending_sem' = q_pending_sem + Cardinality(batch[p])
  /\ release_q(Cardinality(batch[p]))
  /\ batch' = [batch EXCEPT ![p] = {}]
  /\ physical_sem' = IF pcP[p] = "sending" THEN physical_sem + 1
                     ELSE physical_sem
  /\ GateWakesP(p, "done")
  /\ UNCHANGED <<stockVars, pcC, p_send_sem, runVars>>

\* CancelledError while pending_owned requests are p's own.
P_CancelOwning(p) ==
  /\ shutdown /\ pcP[p] \in {"email", "p_send", "physical", "sending"}
  /\ st' = [r \in Req |-> IF r \in batch[p] THEN "free" ELSE st[r]]
  /\ q_pending_sem' = q_pending_sem + Cardinality(batch[p])
  /\ release_q(Cardinality(batch[p]))
  /\ batch' = [batch EXCEPT ![p] = {}]
  /\ p_send_sem' = IF pcP[p] \in {"physical", "sending"} THEN p_send_sem + 1
                   ELSE p_send_sem
  /\ physical_sem' = IF pcP[p] = "sending" THEN physical_sem + 1
                     ELSE physical_sem
  /\ GateWakesP(p, "done")
  /\ UNCHANGED <<stockVars, pcC, runVars>>

\* Elsewhere p owns nothing: its tasks are shielded and live on.
P_CancelIdle(p) ==
  /\ shutdown /\ pcP[p] \in {"top", "parked", "woken", "settling"}
  /\ batch' = [batch EXCEPT ![p] = {}]
  /\ pcP' = [pcP EXCEPT ![p] = "done"]
  /\ UNCHANGED <<stockVars, gateVars, pcS, pcC, st, permitVars, runVars>>

PStep(p) == \/ P_Admitted(p) \/ P_Park(p) \/ P_AcquirePending(p)
            \/ P_EmailCreated(p) \/ P_EmailFailed(p) \/ P_AcquireSend(p)
            \/ P_Physical(p) \/ P_Sent(p) \/ P_Settled(p) \/ P_Stop(p)
            \/ P_CancelAcquiring(p) \/ P_CancelOwning(p) \/ P_CancelIdle(p)

----------------------------------------------------------------------------
(* The task of one sent request: _poll_and_admit_q.                         *)

\* Its finally: the permit and the reservation go back, the gate is notified,
\* and the gather that waits for the task sees it finished.
Terminal(r) ==
  /\ st' = [st EXCEPT ![r] = "free"]
  /\ batch' = [p \in P |-> batch[p] \ {r}]
  /\ q_pending_sem' = q_pending_sem + 1
  /\ release_q(1)

\* The code never came, or the deadline passed.
R_NoCode(r) ==
  /\ st[r] = "polling"
  /\ Terminal(r)
  /\ pcS' = Woken(pcS) /\ pcP' = Woken(pcP)
  /\ UNCHANGED <<stockVars, pcC, physical_sem, p_send_sem, runVars>>

\* Defect: both the task and the worker whose gather raised give back.
R_PollRaised_Twice(r) ==
  /\ st[r] = "polling"
  /\ st' = [st EXCEPT ![r] = "free"]
  /\ q_pending_sem' = q_pending_sem + 2
  /\ release_q(2)
  /\ pcS' = Woken(pcS)
  /\ LET waits(p) == pcP[p] = "settling" /\ r \in batch[p]
     IN  /\ pcP' = [p \in P |-> IF waits(p) THEN "top" ELSE Woken(pcP)[p]]
         /\ batch' = [p \in P |-> IF waits(p) THEN {} ELSE batch[p]]
  /\ UNCHANGED <<stockVars, pcC, physical_sem, p_send_sem, runVars>>

\* Polling raised: gather passes the exception on at once and the P worker
\* starts over while the other tasks of its batch go on.
R_PollRaised(r) ==
  /\ st[r] = "polling"
  /\ st' = [st EXCEPT ![r] = "free"]
  /\ q_pending_sem' = q_pending_sem + 1
  /\ release_q(1)
  /\ pcS' = Woken(pcS)
  /\ LET waits(p) == pcP[p] = "settling" /\ r \in batch[p]
     IN  /\ pcP' = [p \in P |-> IF waits(p) THEN "top" ELSE Woken(pcP)[p]]
         /\ batch' = [p \in P |-> IF waits(p) THEN {} ELSE batch[p]]
  /\ UNCHANGED <<stockVars, pcC, physical_sem, p_send_sem, runVars>>

\* No code within EMAIL_CODE_RESEND_AFTER_SEC: send again, like the first time.
R_Resend(r) ==
  /\ st[r] = "polling"
  /\ st' = [st EXCEPT ![r] = "resend"]
  /\ UNCHANGED <<stockVars, gateVars, workerVars, batch, permitVars, runVars>>

R_AcquireSend(r) ==
  /\ st[r] = "resend" /\ p_send_sem > 0
  /\ p_send_sem' = p_send_sem - 1
  /\ st' = [st EXCEPT ![r] = "resendPhysical"]
  /\ UNCHANGED <<stockVars, gateVars, workerVars, batch, physical_sem,
                 q_pending_sem, runVars>>

R_Physical(r) ==
  /\ st[r] = "resendPhysical" /\ physical_sem > 0
  /\ physical_sem' = physical_sem - 1
  /\ st' = [st EXCEPT ![r] = "resending"]
  /\ UNCHANGED <<stockVars, gateVars, workerVars, batch, p_send_sem,
                 q_pending_sem, runVars>>

\* Defect: a resend gives back only the physical permit.
R_Resent_KeepsSend(r) ==
  /\ st[r] = "resending"
  /\ physical_sem' = physical_sem + 1
  /\ st' = [st EXCEPT ![r] = "polling"]
  /\ UNCHANGED <<stockVars, gateVars, workerVars, batch, p_send_sem,
                 q_pending_sem, runVars>>

R_Resent(r) ==
  /\ st[r] = "resending"
  /\ physical_sem' = physical_sem + 1
  /\ p_send_sem' = p_send_sem + 1
  /\ st' = [st EXCEPT ![r] = "polling"]
  /\ UNCHANGED <<stockVars, gateVars, workerVars, batch, q_pending_sem,
                 runVars>>

R_CodeReturned(r) ==
  /\ st[r] = "polling"
  /\ st' = [st EXCEPT ![r] = "returned"]
  /\ UNCHANGED <<stockVars, gateVars, workerVars, batch, permitVars, runVars>>

R_Stock(r) ==
  /\ st[r] = "returned"
  /\ \E q \in QEnv : put_q(q)
  /\ pcC' = Woken(pcC)
  /\ Terminal(r)
  /\ pcS' = Woken(pcS) /\ pcP' = Woken(pcP)
  /\ UNCHANGED <<physical_sem, p_send_sem, runVars>>

\* The wait for the slot took longer than Q_MAX_AGE.
R_StockExpired(r) ==
  /\ st[r] = "returned"
  /\ put_q_expired
  /\ Terminal(r)
  /\ pcS' = Woken(pcS) /\ pcP' = Woken(pcP)
  /\ UNCHANGED <<pcC, physical_sem, p_send_sem, runVars>>

WorkersGone ==
  /\ \A s \in S : pcS[s] = "done"
  /\ \A p \in P : pcP[p] = "done"
  /\ \A c \in C : pcC[c] = "done"

\* The loop is closing.  A poll cut short gives back what it holds for a
\* resend, but neither its pending permit nor its reservation.
R_CancelPoll(r) ==
  /\ WorkersGone
  /\ st[r] \in OnTask \ {"returned"}
  /\ st' = [st EXCEPT ![r] = "abandoned"]
  /\ p_send_sem' = IF st[r] \in {"resendPhysical", "resending"}
                   THEN p_send_sem + 1 ELSE p_send_sem
  /\ physical_sem' = IF st[r] = "resending" THEN physical_sem + 1
                     ELSE physical_sem
  /\ batch' = [p \in P |-> batch[p] \ {r}]
  /\ UNCHANGED <<stockVars, gateVars, workerVars, q_pending_sem, runVars>>

R_CancelReturned(r) ==
  /\ WorkersGone
  /\ st[r] = "returned"
  /\ Terminal(r)
  /\ UNCHANGED <<stockVars, workerVars, physical_sem, p_send_sem, runVars>>

RStep(r) == \/ R_NoCode(r) \/ R_PollRaised(r) \/ R_Resend(r)
            \/ R_AcquireSend(r) \/ R_Physical(r) \/ R_Resent(r)
            \/ R_CodeReturned(r) \/ R_Stock(r) \/ R_CancelPoll(r)
            \/ R_CancelReturned(r)

----------------------------------------------------------------------------
(* C: claim a pair, wait out the rate limit circuit with it, register.      *)

\* Defect: claiming a pair does not notify the gate.
C_Claim_Silent(c) ==
  /\ Running /\ MayEnter(pcC[c])
  /\ claim_pair(c)
  /\ pcC' = [pcC EXCEPT ![c] = "cooldown"]
  /\ UNCHANGED <<gateVars, pcS, pcP, requestVars, permitVars, runVars>>

C_Claim(c) ==
  /\ Running /\ MayEnter(pcC[c])
  /\ claim_pair(c)
  /\ pcC' = [pcC EXCEPT ![c] = "cooldown"]
  /\ pcS' = Woken(pcS) /\ pcP' = Woken(pcP)
  /\ UNCHANGED <<gateVars, requestVars, permitVars, runVars>>

\* The cleanup may have lowered both depths, and nobody is told.
C_Park(c) ==
  /\ Running /\ MayEnter(pcC[c])
  /\ claim_nothing
  /\ pcC' = [pcC EXCEPT ![c] = "parked"]
  /\ UNCHANGED <<gateVars, pcS, pcP, requestVars, permitVars, runVars>>

\* Leave the pair's context: the slots go back, the other consumers wake.
ExitPair(c, to) == settle(c) /\ pcC' = [Woken(pcC) EXCEPT ![c] = to]

\* The circuit lets c through; the pair may have expired meanwhile.
C_Thawed(c) ==
  /\ Running /\ pcC[c] = "cooldown"
  /\ IF pair_is_expired(c) THEN ExitPair(c, "top")
     ELSE pcC' = [pcC EXCEPT ![c] = "physical"] /\ UNCHANGED stockVars
  /\ UNCHANGED <<gateVars, pcS, pcP, requestVars, permitVars, runVars>>

C_Physical(c) ==
  /\ Running /\ pcC[c] = "physical" /\ physical_sem > 0
  /\ physical_sem' = physical_sem - 1
  /\ pcC' = [pcC EXCEPT ![c] = "verifying"]
  /\ UNCHANGED <<stockVars, gateVars, pcS, pcP, requestVars, p_send_sem,
                 q_pending_sem, runVars>>

\* The code is verified, the circuit still allows it, the pair is still valid.
C_Submit(c) ==
  /\ Running /\ pcC[c] = "verifying"
  /\ ~pair_is_expired(c)
  /\ pcC' = [pcC EXCEPT ![c] = "submitting"]
  /\ UNCHANGED <<stockVars, gateVars, pcS, pcP, requestVars, permitVars,
                 runVars>>

C_Registered(c) ==
  /\ Running /\ pcC[c] = "submitting"
  /\ ExitPair(c, "top")
  /\ physical_sem' = physical_sem + 1
  /\ success_count' = IF success_count < Target THEN success_count + 1
                      ELSE success_count
  /\ UNCHANGED <<gateVars, pcS, pcP, requestVars, p_send_sem, q_pending_sem,
                 stop, shutdown>>

\* Defect: a failure gives back a physical permit even if none was taken yet.
C_Failed_GivesAlways(c) ==
  /\ Running /\ pcC[c] \in {"physical", "verifying", "submitting"}
  /\ ExitPair(c, "top")
  /\ physical_sem' = physical_sem + 1
  /\ UNCHANGED <<gateVars, pcS, pcP, requestVars, p_send_sem, q_pending_sem,
                 runVars>>

\* No account came of it: refused, rate limited, raised, or C_CONSUME_TIMEOUT.
C_Failed(c) ==
  /\ Running /\ pcC[c] \in {"physical", "verifying", "submitting"}
  /\ ExitPair(c, "top")
  /\ physical_sem' = IF pcC[c] = "physical" THEN physical_sem
                     ELSE physical_sem + 1
  /\ UNCHANGED <<gateVars, pcS, pcP, requestVars, p_send_sem, q_pending_sem,
                 runVars>>

C_Stop(c) ==
  /\ Running /\ pcC[c] = "top" /\ stop
  /\ pcC' = [pcC EXCEPT ![c] = "done"]
  /\ UNCHANGED <<stockVars, gateVars, pcS, pcP, requestVars, permitVars,
                 runVars>>

\* CancelledError: in the wait nothing is taken, in the pair it is settled.
C_Cancel(c) ==
  /\ shutdown /\ pcC[c] # "done"
  /\ IF pcC[c] \in {"top", "parked", "woken"}
     THEN pcC' = [pcC EXCEPT ![c] = "done"] /\ UNCHANGED stockVars
     ELSE ExitPair(c, "done")
  /\ physical_sem' = IF pcC[c] \in {"verifying", "submitting"}
                     THEN physical_sem + 1 ELSE physical_sem
  /\ UNCHANGED <<gateVars, pcS, pcP, requestVars, p_send_sem, q_pending_sem,
                 runVars>>

CStep(c) == \/ C_Claim(c) \/ C_Park(c) \/ C_Thawed(c) \/ C_Physical(c)
            \/ C_Submit(c) \/ C_Registered(c) \/ C_Failed(c) \/ C_Stop(c)
            \/ C_Cancel(c)

----------------------------------------------------------------------------
(* The monitor, the clock, main.                                            *)

\* monitor: the target is reached.
ReachTarget ==
  /\ Running /\ ~stop /\ Target > 0 /\ success_count >= Target
  /\ stop' = TRUE
  /\ UNCHANGED <<stockVars, gateVars, workerVars, requestVars, permitVars,
                 success_count, shutdown>>

\* An interrupt ends main's gather, which cancels all the workers.
Interrupt ==
  /\ Running
  /\ shutdown' = TRUE
  /\ UNCHANGED <<stockVars, gateVars, workerVars, requestVars, permitVars,
                 stop, success_count>>

Expire ==
  /\ \E e \in TEnv \cup QEnv : Age(e)
  /\ UNCHANGED <<gateVars, workerVars, requestVars, permitVars, runVars>>

Terminated ==
  /\ WorkersGone
  /\ In(OnTask) = {}
  /\ UNCHANGED vars

\* What needs time to pass.
Aging == \/ Expire
         \/ \E s \in S : S_StockExpired(s)
         \/ \E r \in Req : R_StockExpired(r)

\* What happens without the passing of time and without an interrupt.
Work == \/ \E s \in S : SStep(s)
        \/ \E p \in P : PStep(p)
        \/ \E r \in Req : RStep(r)
        \/ \E c \in C : CStep(c)
        \/ ReachTarget
        \/ Terminated

Next == Work \/ Aging \/ Interrupt

Spec == Init /\ [][Next]_vars

\* Nothing expires and nobody interrupts.
TimelessSpec == Init /\ [][Work]_vars

----------------------------------------------------------------------------
(* Invariants.                                                              *)

\* Who holds a permit, as the places the workers and tasks are in say.
SHolding == IF ApiSolver THEN {} ELSE {s \in S : pcS[s] = "solving"}
PHolding == {p \in P : pcP[p] = "sending"}
CHolding == {c \in C : pcC[c] \in {"verifying", "submitting"}}
PSending == {p \in P : pcP[p] \in {"physical", "sending"}}
TLeases == {s \in S : pcS[s] \in {"physical", "solving", "slot"}}
PendingRequests == Owned \cup OnTask \cup {"abandoned"}
HoldsPair == {"cooldown", "physical", "verifying", "submitting"}

TypeOK ==
  /\ StockTypeOK
  /\ t_in_progress \in Nat /\ q_inflight \in Nat
  /\ t_paused \in BOOLEAN /\ q_paused \in BOOLEAN
  /\ pcS \in [S -> SPc] /\ pcP \in [P -> PPc] /\ pcC \in [C -> CPc]
  /\ st \in [Req -> ReqState]
  /\ batch \in [P -> SUBSET Req]
  /\ physical_sem \in Nat /\ p_send_sem \in Nat /\ q_pending_sem \in Nat
  /\ stop \in BOOLEAN /\ success_count \in 0..Target /\ shutdown \in BOOLEAN

\* No consumer shares, loses or keeps an envelope: an envelope has one owner,
\* and a consumer's lease is a whole pair exactly from claim to settlement.
PairOwnership ==
  /\ SingleOwner
  /\ \A c \in C : pcC[c] \in HoldsPair <=> lease[c] # {}

\* A P worker's batch is exactly what the place it is in says: a request is
\* never sent before its permit and its mailbox exist, never driven by two
\* workers, and a worker that starts over has left nothing behind.
BatchState(pc) ==
  CASE pc = "pending" -> {"reserved", "pending"}
    [] pc = "email" -> {"pending", "created"}
    [] pc \in {"p_send", "physical", "sending"} -> {"created"}
    [] pc = "settling" -> OnTask
    [] OTHER -> {}
BatchInStep ==
  /\ \A p \in P : batch[p] \subseteq In(BatchState(pcP[p]))
  /\ \A p, x \in P : p # x => batch[p] \cap batch[x] = {}

\* Physical_Sem is what S, P, C and the resending tasks do not hold.  In
\* particular nobody holds it while waiting for a code or for the circuit.
PhysicalConservation ==
  physical_sem + Cardinality(SHolding) + Cardinality(PHolding)
    + Cardinality(CHolding) + Cardinality(In({"resending"})) = PhysicalCap

SendConservation ==
  p_send_sem + Cardinality(PSending)
    + Cardinality(In({"resendPhysical", "resending"})) = PSendCap

\* Neither permit of a send is lost or given back twice, whichever of its
\* holders fails, times out or is cancelled, waiting for it or holding it.
PermitsConserved == PhysicalConservation /\ SendConservation

\* Each pending request holds one permit of Q_Pending_Sem and each admitted
\* one a unit of q_inflight, from its reservation to its terminal state,
\* whichever of the worker and the task ends it.
PendingConservation ==
  /\ q_pending_sem + Cardinality(In(PendingRequests)) = QPendingCap
  /\ q_inflight = Cardinality(Req \ In({"free"}))

\* A reservation is also a promise of a permit: a worker never waits in
\* _acquire_many, so no two workers wait for each other with half a batch.
PermitForReservation ==
  \A p \in P : pcP[p] = "pending" => q_pending_sem > 0

\* A production lease outlives exactly one attempt.
TLeaseConservation == t_in_progress = Cardinality(TLeases)

\* The gate is a bound, not a hint: stock and production under way together
\* never exceed the high watermarks, for any interleaving of the producers.
WithinWatermarks ==
  /\ t_depth + t_in_progress =< THigh
  /\ q_depth + q_inflight =< QHigh

\* No lost wake-up in the inventory: a consumer is parked only while there is
\* no pair to claim.
NoPairMissed ==
  (\E c \in C : pcC[c] = "parked") => t_buf = {} \/ q_buf = {}

\* No lost wake-up in the gate: a producer is parked only while the gate
\* would turn it away if it looked again.
NoAdmissionMissed ==
  /\ (\E s \in S : pcS[s] = "parked") => ~TAdmits(t_depth)
  /\ (\E p \in P : pcP[p] = "parked") => ~QAdmits(q_depth)

\* The pipeline as a whole is never asleep while the gate would let a
\* producer in: that depths changed reaches the waiters (notify_changed).
NoSilentStall ==
  (/\ Running
   /\ \A s \in S : pcS[s] = "parked"
   /\ \A p \in P : pcP[p] = "parked"
   /\ \A c \in C : pcC[c] = "parked"
   /\ In(OnTask) = {})
  => ~TAdmits(t_depth) /\ ~QAdmits(q_depth)

----------------------------------------------------------------------------
(* Liveness.                                                                *)

\* The event loop runs every task that can run; semaphores serve in order of
\* arrival; attempts are bounded by their timeouts.
Fairness ==
  /\ \A s \in S : WF_vars(SStep(s)) /\ SF_vars(S_Physical(s))
                  /\ SF_vars(S_Stock(s))
  /\ \A p \in P : WF_vars(PStep(p)) /\ SF_vars(P_AcquireSend(p))
                  /\ SF_vars(P_Physical(p))
  /\ \A r \in Req : WF_vars(RStep(r)) /\ SF_vars(R_AcquireSend(r))
                    /\ SF_vars(R_Physical(r)) /\ SF_vars(R_Stock(r))
                    /\ SF_vars(R_NoCode(r) \/ R_CodeReturned(r))
  /\ \A c \in C : WF_vars(CStep(c)) /\ SF_vars(C_Physical(c))
  /\ WF_vars(ReachTarget)

\* The outside world does not fail for ever: a solver asked again and again
\* answers, a mailbox is created, a code is sent and arrives.
WorldAnswers ==
  /\ \A s \in S : SF_vars(S_Solved(s))
  /\ \A p \in P : /\ SF_vars(P_EmailCreated(p))
                  /\ SF_vars(P_Sent(p) /\ batch'[p] # {})
  /\ \A r \in Req : SF_vars(R_CodeReturned(r))

\* Time stands still (no expiry) and nobody interrupts.
LiveSpec == Init /\ [][Work]_vars /\ Fairness /\ WorldAnswers
StopSpec == Init /\ [][Work]_vars /\ Fairness

\* The pipeline keeps delivering: again and again a consumer claims a pair.
PairsKeepComing == []<>(\E c \in C : pcC[c] \in HoldsPair)

\* Every request a task polls for reaches its terminal state.
RequestsEnd == \A r \in Req : st[r] = "polling" ~> st[r] = "free"

\* Reaching the target ends the run.
TargetStops == stop ~> WorkersGone

----------------------------------------------------------------------------
(* Refinement.                                                              *)

Exchange == INSTANCE PairExchange WITH
              T <- TEnv, Q <- QEnv, TCap <- TSlotCap, QCap <- QSlotCap,
              stock <- t_buf \cup q_buf, held <- lease, stale <- expired

\* The workers, semaphores and buffers implement the exchange: in particular
\* the two slot semaphores enforce the bounds, and a claim takes a whole
\* fresh pair that is exclusively its own until settled.
ImplementsExchange == Exchange!PairSpec
=============================================================================
