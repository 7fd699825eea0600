---------------------------- MODULE SolverGateway ---------------------------
(***************************************************************************)
(* The Turnstile solver gateway (native/solver-gateway/main.go): HTTP      *)
(* handlers put jobs into a bounded queue and a pending result into a      *)
(* table, worker loops take them out and have a browser process solve      *)
(* them over its pipes, one request at a time (browser_worker.py).         *)
(*                                                                         *)
(* A browser's pipes are used by its loop's solve goroutine, by the warm-up*)
(* started with it and by stopWorker, each under the process's mutex.  A   *)
(* process answers its requests in order; it may die, or never answer.     *)
(* Process exit is left out: main returns as soon as the server is told to *)
(* shut down, and nothing is kept.                                         *)
(***************************************************************************)
EXTENDS Naturals, Sequences, FiniteSets

CONSTANTS
  Jobs,        \* the tasks posted, each with an id of its own
  NoJob,       \* no job
  Loops,       \* the worker loops
  QueueCap     \* the capacity of the queue

ASSUME GatewayAssumption ==
  /\ {NoJob, "nothing", "failed"} \cap Jobs = {}
  /\ QueueCap \in Nat \ {0}

VARIABLES
  results,     \* the result table
  pending,     \* the counter of pending jobs
  sending,     \* jobs whose handler is in enqueue
  queue,       \* the channel of jobs
  loop,        \* where each loop is and which job it has in hand
  browser      \* each loop's process, its mutex and its users

gatewayVars == <<results, pending, sending, queue, loop, browser>>

NoValue == [status |-> "none", value |-> NoJob]
Gone == [process |-> "none", alive |-> FALSE, mu |-> "free", pipe |-> <<>>,
         warmup |-> "over", solve |-> "over"]
Started == [Gone EXCEPT !.process = "up", !.alive = TRUE, !.warmup = "lock"]

SolverGatewayTypeOK ==
  /\ results \in [Jobs -> [status : {"none", "pending", "success", "fail",
                                     "error", "purged"},
                           value : Jobs \cup {NoJob}]]
  /\ pending \in 0 .. Cardinality(Jobs) /\ sending \subseteq Jobs
  /\ queue \in Seq(Jobs) /\ Len(queue) <= QueueCap
  /\ \A w \in Loops :
       /\ loop[w].at \in {"select", "ensure", "check", "stop", "renew",
                          "solving"}
       /\ loop[w].job \in Jobs \cup {NoJob}
       /\ browser[w].mu \in {"free", "warmup", "solve"}
       /\ browser[w].process \in {"none", "up", "dead"}

Waiting == [at |-> "select", job |-> NoJob, got |-> "nothing", next |-> "select"]

SolverGatewayInit ==
  /\ results = [j \in Jobs |-> NoValue] /\ pending = 0
  /\ sending = {} /\ queue = <<>>
  /\ loop = [w \in Loops |-> Waiting]
  /\ browser = [w \in Loops |-> Gone]

PutResult(j, st, val) ==
  results' = [results EXCEPT ![j] = [status |-> st, value |-> val]]
LoopTo(w, place) == loop' = [loop EXCEPT ![w].at = place]

----------------------------------------------------------------------------
\* HTTP

\* The first half of enqueue: counted and pending before it is sent.
handleTurnstile(j) ==
  /\ results[j].status = "none"
  /\ pending' = pending + 1
  /\ PutResult(j, "pending", NoJob)
  /\ sending' = sending \cup {j}
  /\ UNCHANGED <<queue, loop, browser>>

Enqueued(j) ==
  /\ j \in sending /\ Len(queue) < QueueCap
  /\ sending' = sending \ {j}
  /\ queue' = Append(queue, j)
  /\ UNCHANGED <<results, pending, loop, browser>>

\* The queue stayed full for two seconds.
QueueFull_Counted(j) ==
  \* Defect: the job stays counted.
  /\ j \in sending /\ Len(queue) = QueueCap
  /\ sending' = sending \ {j}
  /\ PutResult(j, "error", NoJob)
  /\ UNCHANGED <<pending, queue, loop, browser>>

QueueFull(j) ==
  /\ j \in sending /\ Len(queue) = QueueCap
  /\ sending' = sending \ {j}
  /\ pending' = pending - 1
  /\ PutResult(j, "error", NoJob)
  /\ UNCHANGED <<queue, loop, browser>>

\* Fifteen minutes after its last change; a pending result is kept.
purgeExpired ==
  \E j \in Jobs :
    /\ results[j].status \in {"success", "fail", "error"}
    /\ PutResult(j, "purged", NoJob)
    /\ UNCHANGED <<pending, sending, queue, loop, browser>>

----------------------------------------------------------------------------
\* workerLoop

Receive(w) ==
  /\ loop[w].at = "select" /\ queue # <<>>
  /\ queue' = Tail(queue)
  /\ loop' = [loop EXCEPT ![w] = [Waiting EXCEPT !.at = "ensure",
                                                 !.job = Head(queue)]]
  /\ UNCHANGED <<results, pending, sending, browser>>

\* A process that is flagged alive and not yet waited for is kept: one that
\* has died takes signal 0 like a living one.
ProcessKept(w) ==
  /\ loop[w].at = "ensure" /\ browser[w].alive
  /\ LoopTo(w, "check")
  /\ UNCHANGED <<results, pending, sending, queue, browser>>

\* Any other is left, stopWorker returning at once, and one is started.
startWorker(w) ==
  /\ \/ loop[w].at = "ensure" /\ ~browser[w].alive /\ LoopTo(w, "check")
     \/ loop[w].at = "renew" /\ LoopTo(w, "solving")
  /\ browser' = [browser EXCEPT ![w] =
       [Started EXCEPT !.solve = IF loop[w].at = "renew" THEN "lock" ELSE "over"]]
  /\ UNCHANGED <<results, pending, sending, queue>>

StartFails(w) ==
  /\ \/ loop[w].at = "ensure" /\ ~browser[w].alive
     \/ loop[w].at = "renew"
  /\ pending' = pending - 1
  /\ PutResult(loop[w].job, "error", NoJob)
  /\ loop' = [loop EXCEPT ![w] = Waiting]
  /\ browser' = [browser EXCEPT ![w] = Gone]
  /\ UNCHANGED <<sending, queue>>

\* Its memory, its solves or its failures ask for a new one.
Recycle(w) ==
  /\ loop[w].at = "check"
  /\ loop' = [loop EXCEPT ![w].at = "stop", ![w].next = "renew"]
  /\ UNCHANGED <<results, pending, sending, queue, browser>>

\* The goroutine that will solve on the process is started.
GoSolve(w) ==
  /\ loop[w].at = "check"
  /\ LoopTo(w, "solving")
  /\ browser' = [browser EXCEPT ![w].solve = "lock"]
  /\ UNCHANGED <<results, pending, sending, queue>>

\* The goroutine's answer: a token, whichever job's it is, or a failure.
Success(w) ==
  /\ loop[w].at = "solving" /\ loop[w].got \in Jobs
  /\ pending' = pending - 1
  /\ PutResult(loop[w].job, "success", loop[w].got)
  /\ \E recycled \in BOOLEAN :
       loop' = [loop EXCEPT ![w] = [Waiting EXCEPT
                  !.at = IF recycled THEN "stop" ELSE "select"]]
  /\ UNCHANGED <<sending, queue, browser>>

Failure(w) ==
  /\ loop[w].at = "solving" /\ loop[w].got = "failed"
  /\ pending' = pending - 1
  /\ PutResult(loop[w].job, "fail", NoJob)
  /\ loop' = [loop EXCEPT ![w] = [Waiting EXCEPT !.at = "stop"]]
  /\ UNCHANGED <<sending, queue, browser>>

\* Taken also when the answer is ready at the same moment.
Timeout_AnswersToo(w) ==
  \* Defect: the job is put back into the queue before the process stops.
  /\ loop[w].at = "solving" /\ Len(queue) < QueueCap
  /\ queue' = Append(queue, loop[w].job)
  /\ loop' = [loop EXCEPT ![w].at = "stop", ![w].next = "timeout"]
  /\ UNCHANGED <<results, pending, sending, browser>>

Timeout(w) ==
  /\ loop[w].at = "solving"
  /\ loop' = [loop EXCEPT ![w].at = "stop", ![w].next = "timeout"]
  /\ UNCHANGED <<results, pending, sending, queue, browser>>

\* Behind the mutex: a process flagged alive is asked to end, killed if it
\* does not, and waited for.  Whoever still waits for the mutex then finds
\* a process that is not alive, or closed pipes, and has no effect.
stopWorker(w) ==
  /\ loop[w].at = "stop" /\ browser[w].mu = "free"
  /\ browser' = [browser EXCEPT ![w] = Gone]
  /\ IF loop[w].next = "timeout"
       THEN /\ pending' = pending - 1
            /\ PutResult(loop[w].job, "fail", NoJob)
            /\ loop' = [loop EXCEPT ![w] = Waiting]
       ELSE /\ LoopTo(w, loop[w].next)
            /\ UNCHANGED <<results, pending>>
  /\ UNCHANGED <<sending, queue>>

----------------------------------------------------------------------------
\* The goroutines on a process

\* A request that cannot be written ends the warm-up without a trace.
WarmupLock(w) ==
  /\ browser[w].warmup = "lock" /\ browser[w].mu = "free"
  /\ \/ /\ browser[w].alive /\ browser[w].process = "up"
        /\ browser' = [browser EXCEPT ![w].warmup = "read",
                         ![w].mu = "warmup", ![w].pipe = Append(@, NoJob)]
     \/ /\ ~browser[w].alive \/ browser[w].process # "up"
        /\ browser' = [browser EXCEPT ![w].warmup = "over"]
  /\ UNCHANGED <<results, pending, sending, queue, loop>>

\* The process answers, or its end is read.
WarmupRead(w) ==
  /\ browser[w].warmup = "read"
  /\ \/ browser[w].process = "up" /\ browser[w].pipe # <<>>
     \/ browser[w].process = "dead"
  /\ browser' = [browser EXCEPT ![w].warmup = "over", ![w].mu = "free",
                    ![w].pipe = IF @ = <<>> THEN @ ELSE Tail(@)]
  /\ UNCHANGED <<results, pending, sending, queue, loop>>

SolveLock(w) ==
  /\ browser[w].solve = "lock" /\ browser[w].mu = "free"
  /\ \/ /\ browser' = [browser EXCEPT ![w].solve = "read", ![w].mu = "solve",
                                      ![w].pipe = Append(@, loop[w].job)]
        /\ UNCHANGED loop
     \/ /\ browser[w].process = "dead"
        /\ browser' = [browser EXCEPT ![w].solve = "over"]
        /\ loop' = [loop EXCEPT ![w].got = "failed"]
  /\ UNCHANGED <<results, pending, sending, queue>>

\* Whatever comes first out of the pipe is the answer; the end of the output
\* clears the flag.
SolveRead(w) ==
  /\ browser[w].solve = "read"
  /\ \/ /\ browser[w].process = "up" /\ browser[w].pipe # <<>>
        /\ \E got \in {"failed", Head(browser[w].pipe)} \ {NoJob} :
             loop' = [loop EXCEPT ![w].got = got]
        /\ browser' = [browser EXCEPT ![w].solve = "over", ![w].mu = "free",
                         ![w].pipe = Tail(@)]
     \/ /\ browser[w].process = "dead"
        /\ loop' = [loop EXCEPT ![w].got = "failed"]
        /\ browser' = [browser EXCEPT ![w].solve = "over", ![w].mu = "free",
                         ![w].alive = FALSE]
  /\ UNCHANGED <<results, pending, sending, queue>>

ProcessDies(w) ==
  /\ browser[w].process = "up"
  /\ browser' = [browser EXCEPT ![w].process = "dead"]
  /\ UNCHANGED <<results, pending, sending, queue, loop>>

----------------------------------------------------------------------------
SolverGatewayNext ==
  \/ \E j \in Jobs : handleTurnstile(j) \/ Enqueued(j) \/ QueueFull(j)
  \/ purgeExpired
  \/ \E w \in Loops :
       \/ Receive(w) \/ ProcessKept(w) \/ startWorker(w) \/ StartFails(w)
       \/ Recycle(w) \/ GoSolve(w) \/ Success(w) \/ Failure(w) \/ Timeout(w)
       \/ stopWorker(w) \/ WarmupLock(w) \/ WarmupRead(w)
       \/ SolveLock(w) \/ SolveRead(w) \/ ProcessDies(w)

SolverGatewaySpec == SolverGatewayInit /\ [][SolverGatewayNext]_gatewayVars

----------------------------------------------------------------------------
\* A job is pending exactly while one handler, one place of the queue or one
\* loop has it, and is counted exactly then; a token goes to the job it was
\* solved for.  So a timeout racing an answer, a warm-up on the same pipes
\* or a process that dies neither loses a job nor answers it twice.
JobsAccounted ==
  /\ pending = Cardinality({j \in Jobs : results[j].status = "pending"})
  /\ \A j \in Jobs :
       LET holders == Cardinality({i \in DOMAIN queue : queue[i] = j})
                        + Cardinality({w \in Loops : loop[w].job = j})
                        + (IF j \in sending THEN 1 ELSE 0)
       IN holders = IF results[j].status = "pending" THEN 1 ELSE 0
  /\ \A j \in Jobs : results[j].status = "success" => results[j].value = j
=============================================================================
