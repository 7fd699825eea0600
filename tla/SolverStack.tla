----------------------------- MODULE SolverStack -----------------------------
(***************************************************************************)
(* The clients of the Turnstile solver and the gateway processes they      *)
(* start on demand (turnstile_solver.py, with the callers in register.py   *)
(* and protocol_register.py).  Threads of several registration processes   *)
(* look for a gateway at the one address, start one when none answers,     *)
(* wait until one answers, and post and poll a task.  No lock is held over *)
(* looking and starting, _managed_proc remembers the last start only, and  *)
(* browsers run in process groups of their own and outlive their gateway.  *)
(*                                                                         *)
(* Starts come from worker threads, where signal.signal raises ValueError  *)
(* (swallowed, turnstile_solver.py:539-543): SIGTERM ends a process with   *)
(* no handler of the stack installed.                                      *)
(***************************************************************************)
EXTENDS Naturals, FiniteSets

CONSTANTS
  Procs,       \* processes that solve, each with its _managed_proc
  Async,       \* those whose callers share _turnstile_api_inflight
  Threads,     \* the threads of a process
  Inflight,    \* the permits of _turnstile_api_inflight
  Gateways,    \* gateway processes that can be started (a bound)
  NoGateway    \* no process

ASSUME StackAssumption ==
  /\ NoGateway \notin Gateways /\ Async \subseteq Procs
  /\ Inflight \in Nat \ {0}

VARIABLES
  process,     \* "up", "stopping", "ended" or "killed"
  managed,     \* _managed_proc of each process
  starter,     \* who started a gateway; none for one not started
  gateway,     \* "none", "up" or "dead"
  serving,     \* the gateway that has the port
  browsers,    \* the gateways whose browser workers run
  caller       \* where each thread is, and the gateway it waits for or uses

stackVars == <<process, managed, starter, gateway, serving, browsers, caller>>

Callers == Procs \X Threads
Home(c) == c[1]
Away == [at |-> "away", gateway |-> NoGateway]

SolverStackTypeOK ==
  /\ process \in [Procs -> {"up", "stopping", "ended", "killed"}]
  /\ managed \in [Procs -> Gateways \cup {NoGateway}]
  /\ starter \in [Gateways -> SUBSET Procs]
  /\ gateway \in [Gateways -> {"none", "up", "dead"}]
  /\ serving \in Gateways \cup {NoGateway} /\ browsers \subseteq Gateways
  /\ caller \in [Callers ->
       [at : {"away", "starting", "waiting", "sweeping", "served", "polling"},
        gateway : Gateways \cup {NoGateway}]]

SolverStackInit ==
  /\ process = [p \in Procs |-> "up"]
  /\ managed = [p \in Procs |-> NoGateway]
  /\ starter = [g \in Gateways |-> {}] /\ gateway = [g \in Gateways |-> "none"]
  /\ serving = NoGateway /\ browsers = {}
  /\ caller = [c \in Callers |-> Away]

Goes(c, at, g) == caller' = [caller EXCEPT ![c] = [at |-> at, gateway |-> g]]
CallerAt(c, at) == process[Home(c)] = "up" /\ caller[c].at = at

health_check == serving # NoGateway

-----------------------------------------------------------------------------
(* Looking and starting. *)

ensure_solver_for_register(c) ==
  /\ CallerAt(c, "away")
  /\ \/ health_check /\ Goes(c, "served", NoGateway)
     \/ ~health_check /\ Goes(c, "starting", NoGateway)
  /\ UNCHANGED <<process, managed, starter, gateway, serving, browsers>>

(* start_managed_solver looks once more before it checks the runtime. *)
Reuse(c) ==
  /\ CallerAt(c, "starting") /\ health_check /\ Goes(c, "served", NoGateway)
  /\ UNCHANGED <<process, managed, starter, gateway, serving, browsers>>

(* A missing binary or module, or an install that fails, raises.  Whatever  *)
(* goes wrong, the asynchronous callers go on and try to post their task.   *)
AfterFailure(c) ==
  Goes(c, IF Home(c) \in Async THEN "served" ELSE "away", NoGateway)

RuntimeMissing(c) ==
  /\ CallerAt(c, "starting") /\ AfterFailure(c)
  /\ UNCHANGED <<process, managed, starter, gateway, serving, browsers>>

(* Between the look and Popen another thread may have started one. *)
start_managed_solver(c) ==
  /\ CallerAt(c, "starting")
  /\ \E g \in Gateways :
       /\ gateway[g] = "none"
       /\ gateway' = [gateway EXCEPT ![g] = "up"]
       /\ starter' = [starter EXCEPT ![g] = {Home(c)}]
       /\ managed' = [managed EXCEPT ![Home(c)] = g]
       /\ Goes(c, "waiting", g)
  /\ UNCHANGED <<process, serving, browsers>>

Ready(c) ==
  /\ CallerAt(c, "waiting") /\ gateway[caller[c].gateway] = "up" /\ health_check
  /\ Goes(c, "served", NoGateway)
  /\ UNCHANGED <<process, managed, starter, gateway, serving, browsers>>

-----------------------------------------------------------------------------
(* Stopping: the process in _managed_proc is killed and waited for, then    *)
(* every process whose command line is the stack's.                         *)

Vacated(dead) == IF serving \in dead THEN NoGateway ELSE serving
Buried(dead) ==
  [g \in Gateways |-> IF g \in dead /\ gateway[g] = "up" THEN "dead"
                      ELSE gateway[g]]

KillManaged(p) ==
  LET dead == {managed[p]} IN
  /\ managed' = [managed EXCEPT ![p] = NoGateway]
  /\ gateway' = Buried(dead) /\ serving' = Vacated(dead)
  /\ browsers' \in {browsers, browsers \ dead}
  /\ UNCHANGED starter

(* Defect: only the group of the managed process is stopped. *)
kill_orphan_solvers_Nothing ==
  UNCHANGED <<gateway, serving, browsers, managed, starter>>

kill_orphan_solvers ==
  /\ gateway' = Buried(Gateways) /\ serving' = NoGateway /\ browsers' = {}
  /\ UNCHANGED <<managed, starter>>

(* The start failed: its process exited, or nothing answered in time. *)
StartFailed(c) ==
  /\ CallerAt(c, "waiting")
  /\ gateway[caller[c].gateway] = "dead" \/ ~health_check
  /\ KillManaged(Home(c)) /\ Goes(c, "sweeping", NoGateway)
  /\ UNCHANGED process

FailureSwept(c) ==
  /\ CallerAt(c, "sweeping") /\ kill_orphan_solvers /\ AfterFailure(c)
  /\ UNCHANGED process

-----------------------------------------------------------------------------
(* Solving: a task is known only to the gateway that took it. *)

Permit(p) ==
  p \in Async =>
    Cardinality({c \in Callers : Home(c) = p /\ caller[c].at = "polling"})
      < Inflight

Create(c) ==
  /\ CallerAt(c, "served") /\ Permit(Home(c))
  /\ \/ health_check /\ Goes(c, "polling", serving)
     \/ Goes(c, "away", NoGateway)
  /\ UNCHANGED <<process, managed, starter, gateway, serving, browsers>>

(* A token, a failure, or the deadline; other answers are polled on.  A     *)
(* gateway that does not know the task does not answer with a token.        *)
Poll(c) ==
  /\ CallerAt(c, "polling") /\ Goes(c, "away", NoGateway)
  /\ UNCHANGED <<process, managed, starter, gateway, serving, browsers>>

-----------------------------------------------------------------------------
(* The gateways: browsers are started before the port is taken; a second    *)
(* gateway exits with its browsers running.                                 *)

Launch(g) ==
  /\ gateway[g] = "up" /\ g \notin browsers /\ browsers' = browsers \cup {g}
  /\ UNCHANGED <<process, managed, starter, gateway, serving, caller>>

Listen(g) ==
  /\ gateway[g] = "up" /\ serving # g
  /\ \/ serving = NoGateway /\ serving' = g /\ UNCHANGED gateway
     \/ serving # NoGateway /\ UNCHANGED serving
        /\ gateway' = [gateway EXCEPT ![g] = "dead"]
  /\ UNCHANGED <<process, managed, starter, browsers, caller>>

Crash(g) ==
  /\ gateway[g] = "up" /\ gateway' = Buried({g}) /\ serving' = Vacated({g})
  /\ UNCHANGED <<process, managed, starter, browsers, caller>>

-----------------------------------------------------------------------------
(* The end of a process: its threads are joined, then atexit stops the      *)
(* stack, if this process has ever started one.                             *)

EverStarted(p) == \E g \in Gateways : p \in starter[g]

stop_managed_solver(p) ==
  /\ process[p] = "up" /\ \A t \in Threads : caller[<<p, t>>] = Away
  /\ \/ EverStarted(p) /\ process' = [process EXCEPT ![p] = "stopping"]
        /\ KillManaged(p)
     \/ ~EverStarted(p) /\ process' = [process EXCEPT ![p] = "ended"]
        /\ UNCHANGED <<managed, starter, gateway, serving, browsers>>
  /\ UNCHANGED caller

ExitSwept(p) ==
  /\ process[p] = "stopping" /\ process' = [process EXCEPT ![p] = "ended"]
  /\ kill_orphan_solvers /\ UNCHANGED caller

Signalled(p) ==
  /\ process[p] \in {"up", "stopping"}
  /\ process' = [process EXCEPT ![p] = "killed"]
  /\ caller' = [c \in Callers |-> IF Home(c) = p THEN Away ELSE caller[c]]
  /\ UNCHANGED <<managed, starter, gateway, serving, browsers>>

SolverStackNext ==
  \/ \E c \in Callers :
       \/ ensure_solver_for_register(c) \/ Reuse(c) \/ RuntimeMissing(c)
       \/ start_managed_solver(c) \/ Ready(c) \/ StartFailed(c)
       \/ FailureSwept(c) \/ Create(c) \/ Poll(c)
  \/ \E g \in Gateways : Launch(g) \/ Listen(g) \/ Crash(g)
  \/ \E p \in Procs : stop_managed_solver(p) \/ ExitSwept(p) \/ Signalled(p)

SolverStackSpec == SolverStackInit /\ [][SolverStackNext]_stackVars

-----------------------------------------------------------------------------
(* A process that ended by itself leaves nothing of the stack behind: every *)
(* gateway it ever started and the browsers of each are gone, whatever      *)
(* starts overlapped, lost the port or were forgotten by _managed_proc      *)
(* (stop_managed_solver, "Called on register exit ... so browsers do not    *)
(* leak").                                                                  *)
SolversSwept ==
  \A p \in Procs, g \in Gateways :
    process[p] = "ended" /\ p \in starter[g]
      => gateway[g] = "dead" /\ g \notin browsers
=============================================================================
