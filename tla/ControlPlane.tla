---------------------------- MODULE ControlPlane ----------------------------
(***************************************************************************)
(* The control panel and the registration engines it starts and stops      *)
(* (dashboard.py, runtime_status.py, the ends of register.py and           *)
(* go_register.py).  The panel knows an engine only by the pid in          *)
(* register.pid, which the panel, the engine and its cleanup all write,    *)
(* and asks the system whether that pid exists.  A child that has ended    *)
(* keeps its pid until the panel reaps it, which Python does when the      *)
(* panel next starts any process.                                          *)
(*                                                                         *)
(* A spawner is the panel's request handler, one at a time under           *)
(* _action_lock, or the supervisor thread, which does not take that lock.  *)
(* Pids are not used twice.                                                *)
(*                                                                         *)
(* The pid file does not keep the engines apart, whatever start.sh, which  *)
(* takes a lock, promises: OneEngine fails.  What the protocol of looking, *)
(* starting and recording does give is OneOnRecord, for which the history  *)
(* variable astray remembers the engines the panel has lost sight of.      *)
(***************************************************************************)
EXTENDS Naturals, FiniteSets

CONSTANTS
  Pid,         \* the pids the system hands out
  NoPid,       \* no pid file, no pid on record
  Engines,     \* the engines configured: "protocol", "python", "go"
  Supervised   \* AUTO_START_REGISTER or AUTO_RESTART_REGISTER is on

ASSUME PanelAssumption ==
  /\ NoPid \notin Pid
  /\ Engines \subseteq {"protocol", "python", "go"}
  /\ Supervised \in BOOLEAN

VARIABLES
  pid_file,    \* logs/register.pid
  job_pid,     \* the pid in logs/register-job.json
  proc,        \* what each process is doing
  engine,      \* the engine each process was started with
  spawner,     \* where the panel and the supervisor are, and with which child
  astray       \* history: the engines whose record or start was overtaken

panelVars == <<pid_file, job_pid, proc, engine, spawner, astray>>

Spawners == {"panel", "supervisor"}
Lives == {"unused", "born", "working", "closing", "leaving", "dying",
          "zombie", "gone"}

ControlPlaneTypeOK ==
  /\ pid_file \in Pid \cup {NoPid} /\ job_pid \in Pid \cup {NoPid}
  /\ proc \in [Pid -> Lives] /\ engine \in [Pid -> Engines \cup {"none"}]
  /\ spawner \in [Spawners -> [at : {"idle", "restart", "popen", "look", "record"},
                               child : Pid \cup {NoPid}]]
  /\ astray \subseteq Pid

ControlPlaneInit ==
  /\ pid_file = NoPid /\ job_pid = NoPid
  /\ proc = [p \in Pid |-> "unused"]
  /\ engine = [p \in Pid |-> "none"]
  /\ spawner = [a \in Spawners |-> [at |-> "idle", child |-> NoPid]]
  /\ astray = {}

\* os.kill(pid, 0) succeeds for every pid not yet reaped, a zombie's too.
pid_alive(p) == p # NoPid /\ proc[p] \notin {"unused", "gone"}
process_alive == pid_alive(pid_file)

Moves(a, place, p) ==
  spawner' = [spawner EXCEPT ![a] = [at |-> place, child |-> p]]
InHand(p) == \E a \in Spawners : spawner[a].child = p

\* The engines that may still write the accounts and the logs.
Engaged == {p \in Pid : proc[p] \in {"born", "working", "dying"}}

\* The pid file is written or removed: an engine at work whose pid stood in
\* it is lost from sight.
Records(p) ==
  /\ pid_file' = p
  /\ astray' = astray \cup {q \in Engaged' : q = pid_file /\ q # p}

\* What any Popen does first: the ended children nobody holds are reaped.
Reaped(pr) ==
  [p \in Pid |-> IF pr[p] = "zombie" /\ ~InHand(p) THEN "gone" ELSE pr[p]]

----------------------------------------------------------------------------
\* Starting

\* A start is refused while the pid on file exists.  The supervisor's tick
\* asks the same question, and does nothing if the answer is yes.
MaySpawn_AsksJob(a) ==
  \* Defect: it is the pid on the job that is asked about.
  /\ spawner[a].at \in {"idle", "restart"}
  /\ a = "supervisor" => Supervised
  /\ ~pid_alive(job_pid)
  /\ Moves(a, "popen", NoPid)
  /\ UNCHANGED <<pid_file, job_pid, proc, engine, astray>>

MaySpawn(a) ==
  /\ spawner[a].at \in {"idle", "restart"}
  /\ a = "supervisor" => Supervised
  /\ ~process_alive
  /\ Moves(a, "popen", NoPid)
  /\ UNCHANGED <<pid_file, job_pid, proc, engine, astray>>

\* The start that ends a restart is refused like any other.
RestartRefused ==
  /\ spawner["panel"].at = "restart" /\ process_alive
  /\ Moves("panel", "idle", NoPid)
  /\ UNCHANGED <<pid_file, job_pid, proc, engine, astray>>

\* An engine started while the other spawner holds one that works is astray.
Start(a, e, place) ==
  /\ spawner[a].at = "popen"
  /\ \E p \in Pid :
       /\ proc[p] = "unused"
       /\ proc' = [Reaped(proc) EXCEPT ![p] = "born"]
       /\ engine' = [engine EXCEPT ![p] = e]
       /\ Moves(a, place, p)
       /\ astray' = astray \cup
            {q \in {p} : \E b \in Spawners \ {a} : spawner[b].child \in Engaged}
  /\ UNCHANGED <<pid_file, job_pid>>

\* The Python entry is looked at after a second; the Go worker is not.
_spawn_register(a) == \E e \in Engines \ {"go"} : Start(a, e, "look")
_spawn_go_register(a) == "go" \in Engines /\ Start(a, "go", "record")

\* The child ended within the second: poll() reaps it and the start failed.
EarlyExit(a) ==
  LET p == spawner[a].child IN
  /\ spawner[a].at = "look" /\ proc[p] = "zombie"
  /\ proc' = [proc EXCEPT ![p] = "gone"]
  /\ job_pid' = p
  /\ Moves(a, "idle", NoPid)
  /\ UNCHANGED <<pid_file, engine, astray>>

Alive(a) ==
  /\ spawner[a].at = "look" /\ proc[spawner[a].child] # "zombie"
  /\ Moves(a, "record", spawner[a].child)
  /\ UNCHANGED <<pid_file, job_pid, proc, engine, astray>>

\* _spawn_go_register writes no job; the Python entry's pid goes there too.
\* A spawner that has looked already does not see the record: the engine is
\* astray as well.
PutOnRecord(a) ==
  LET p == spawner[a].child
      overtaken == {b \in Spawners \ {a} : spawner[b].at = "popen"} IN
  /\ spawner[a].at = "record"
  /\ pid_file' = p
  /\ astray' = astray \cup (Engaged \cap ({pid_file} \ {p}))
                     \cup (IF overtaken # {} THEN {p} ELSE {})
  /\ job_pid' = IF engine[p] = "go" THEN job_pid ELSE p
  /\ Moves(a, "idle", NoPid)
  /\ UNCHANGED <<proc, engine>>

----------------------------------------------------------------------------
\* Stopping

\* SIGTERM: an engine that has its solver stack up stops that first; none
\* reaches its own cleanup, and the pid file stays.
Terminated(life) ==
  CASE life \in {"born", "working"}   -> "dying"
    [] life \in {"closing", "leaving"} -> "zombie"
    [] OTHER                           -> life

\* The pid on file and the pid on the job are both signalled.  A restart
\* (save_config_restart, apply_preset_restart) is a stop and, in the same
\* request, a start.
Stops(place) ==
  /\ spawner["panel"].at = "idle"
  /\ \E p \in {pid_file, job_pid} : pid_alive(p)
  /\ proc' = [p \in Pid |-> IF p \in {pid_file, job_pid}
                              THEN Terminated(proc[p]) ELSE proc[p]]
  /\ Moves("panel", place, NoPid)
  /\ UNCHANGED <<pid_file, job_pid, engine, astray>>

stop_register == Stops("idle")
save_config_restart == Stops("restart")

\* Another action of the panel starts a process (a scrape, a native helper).
run_scrape ==
  /\ Reaped(proc) # proc
  /\ proc' = Reaped(proc)
  /\ UNCHANGED <<pid_file, job_pid, engine, spawner, astray>>

----------------------------------------------------------------------------
\* The engine's process

\* The Python entry writes its own pid; the Go worker writes none.
Boot(p) ==
  /\ proc[p] = "born"
  /\ proc' = [proc EXCEPT ![p] = "working"]
  /\ Records(IF engine[p] = "go" THEN pid_file ELSE p)
  /\ UNCHANGED <<job_pid, engine, spawner>>

\* The work ends.  main() of the browser engine removes the pid file in its
\* own finally; the protocol engine returns from inside main() before that.
WorkDone(p) ==
  /\ proc[p] = "working" /\ engine[p] # "go"
  /\ proc' = [proc EXCEPT ![p] = "closing"]
  /\ Records(IF engine[p] = "python" THEN NoPid ELSE pid_file)
  /\ UNCHANGED <<job_pid, engine, spawner>>

\* The module's last finally: the solver stack has been stopped, the pid
\* file is removed whatever pid it holds.
clear_pid(p) ==
  /\ proc[p] = "closing"
  /\ proc' = [proc EXCEPT ![p] = "leaving"]
  /\ Records(NoPid)
  /\ UNCHANGED <<job_pid, engine, spawner>>

\* The process ends: on its own, from a signal, or killed at any point.
Exit(p) ==
  /\ proc[p] \in {"born", "working", "closing", "leaving", "dying"}
  /\ proc' = [proc EXCEPT ![p] = "zombie"]
  /\ UNCHANGED <<pid_file, job_pid, engine, spawner, astray>>

----------------------------------------------------------------------------
ControlPlaneNext ==
  \/ \E a \in Spawners :
       \/ MaySpawn(a) \/ _spawn_register(a) \/ _spawn_go_register(a)
       \/ EarlyExit(a) \/ Alive(a) \/ PutOnRecord(a)
  \/ stop_register \/ save_config_restart \/ RestartRefused \/ run_scrape
  \/ \E p \in Pid : Boot(p) \/ WorkDone(p) \/ clear_pid(p) \/ Exit(p)

ControlPlaneSpec == ControlPlaneInit /\ [][ControlPlaneNext]_panelVars

----------------------------------------------------------------------------
\* Two engines work at once only if one of them is astray: another's
\* clean-up, boot or record has put its pid out of register.pid while it
\* worked, or the panel and the supervisor were starting engines at the same
\* time.  Otherwise looking at the pid file, starting and recording keep the
\* engines apart over early exits, zombies, stops and restarts, with each of
\* the three engines.
OneOnRecord == Cardinality(Engaged \ astray) <= 1

\* What start.sh promises, and takes a lock for: at most one registration
\* engine works in the directory, so that no two write the accounts and the
\* logs at the same time.  The panel's pid file does not keep it.
OneEngine == Cardinality(Engaged) <= 1
=============================================================================
