------------------------------ MODULE JobRunner -----------------------------
(***************************************************************************)
(* The background jobs of the control panel: the conversion of accounts    *)
(* (inventory/convert.py), SSO to CPA (sso/export.py) and, without the Go  *)
(* worker, the batch test of proxies (proxy/batch_test.py).  All three     *)
(* keep one job record under a lock of their own, start a thread unless    *)
(* the record says one is running, and give the record to whoever asks.    *)
(*                                                                         *)
(* The lock is a threading.Lock: its holder waits for itself as well.      *)
(***************************************************************************)
CONSTANTS
  Handlers,    \* request handlers, each in a thread of its own
  Threads,     \* job threads that can be started (a bound)
  Free         \* the lock has no holder

VARIABLES
  lock,        \* _job_lock
  running,     \* the record says that a job is running
  handler,     \* where each request is
  job          \* where each job thread is

jobVars == <<lock, running, handler, job>>

JobRunnerTypeOK ==
  /\ lock \in Handlers \cup {Free} /\ running \in BOOLEAN
  /\ handler \in [Handlers -> {"idle", "test", "refused", "spawn", "status"}]
  /\ job \in [Threads -> {"new", "begin", "work", "end", "over"}]

JobRunnerInit ==
  /\ lock = Free /\ running = FALSE
  /\ handler = [h \in Handlers |-> "idle"]
  /\ job = [t \in Threads |-> "new"]

HandlerTo(h, place) == handler' = [handler EXCEPT ![h] = place]
JobTo(t, place) == job' = [job EXCEPT ![t] = place]

----------------------------------------------------------------------------
\* A request to start a job, or for the panel's status, which shows the
\* records of all jobs.
Request(h) ==
  /\ handler[h] = "idle"
  /\ \E ask \in {"test", "status"} : HandlerTo(h, ask)
  /\ UNCHANGED <<lock, running, job>>

\* Under the lock; a refusal is made up before the lock is given back.
start_job(h) ==
  /\ handler[h] = "test" /\ lock = Free
  /\ IF running
       THEN lock' = h /\ HandlerTo(h, "refused")
       ELSE HandlerTo(h, "spawn") /\ UNCHANGED lock
  /\ UNCHANGED <<running, job>>

\* It contains job_status(), which takes the lock.
Refuse(h) ==
  /\ handler[h] = "refused" /\ lock = Free
  /\ HandlerTo(h, "idle")
  /\ UNCHANGED <<lock, running, job>>

\* The record is left to the thread; the answer contains job_status() here
\* too.
Spawn(h) ==
  /\ handler[h] = "spawn"
  /\ \E t \in Threads : job[t] = "new" /\ JobTo(t, "begin")
  /\ HandlerTo(h, "status")
  /\ UNCHANGED <<lock, running>>

\* What is on disk may be newer, and is taken over, if no job is running
\* here: the record of this process then stays as it is.
job_status(h) ==
  /\ handler[h] = "status" /\ lock = Free
  /\ HandlerTo(h, "idle")
  /\ UNCHANGED <<lock, running, job>>

----------------------------------------------------------------------------
\* The job's thread: _set_job at its beginning and at its end
Begin(t) ==
  /\ job[t] = "begin" /\ lock = Free
  /\ running' = TRUE
  /\ JobTo(t, "work")
  /\ UNCHANGED <<lock, handler>>

\* Progress is reported while it works.
Report(t) ==
  /\ job[t] = "work" /\ lock = Free
  /\ \E place \in {"work", "end"} : JobTo(t, place)
  /\ UNCHANGED <<lock, running, handler>>

Finish(t) ==
  /\ job[t] = "end" /\ lock = Free
  /\ running' = FALSE
  /\ JobTo(t, "over")
  /\ UNCHANGED <<lock, handler>>

JobRunnerNext ==
  \/ \E h \in Handlers :
       Request(h) \/ start_job(h) \/ Refuse(h) \/ Spawn(h) \/ job_status(h)
  \/ \E t \in Threads : Begin(t) \/ Report(t) \/ Finish(t)

\* Every thread that can go on goes on, unless others take the lock again
\* and again, and not even then for ever.
JobRunnerFairness ==
  /\ \A h \in Handlers : /\ SF_jobVars(start_job(h)) /\ SF_jobVars(Refuse(h))
                         /\ WF_jobVars(Spawn(h)) /\ SF_jobVars(job_status(h))
  /\ \A t \in Threads : SF_jobVars(Begin(t)) /\ SF_jobVars(Finish(t))

JobRunnerSpec == JobRunnerInit /\ [][JobRunnerNext]_jobVars /\ JobRunnerFairness

----------------------------------------------------------------------------
\* Whoever asks for a job while one is running gets an answer, and so does
\* whoever asks for the status, as long as a thread can be started.
RequestsAnswered ==
  \A h \in Handlers :
    handler[h] \in {"test", "status"} ~>
      handler[h] = "idle" \/ \A t \in Threads : job[t] # "new"
=============================================================================
