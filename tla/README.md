# A TLA+ model of grok_register

The program registers accounts in bulk, logs them in, and keeps the OAuth
credentials that come out of it usable. What makes it hard is not the HTTP it
speaks but what stands around the HTTP: a pipeline in which tokens (`T`) and
e-mail codes (`Q`) grow stale within minutes and must meet in pairs under
semaphores that whoever holds them must give back; a second pipeline that turns
sessions into credentials and must not lose or double one over a crash; and a
ring of processes that share files, pids, ports and browsers. This directory
models these, checks them with TLC on small instances, and proves the safety of
the two pipelines and of nine services around them with TLAPS, for any number of
workers, accounts, files and batches and any capacities.

Contents

1. [Inventory of the system](#1-inventory-of-the-system)
2. [Modules](#2-modules)
3. [How the registration pipeline is modelled](#3-how-the-registration-pipeline-is-modelled)
4. [How the circuit is modelled](#4-how-the-circuit-is-modelled)
5. [How the authentication service is modelled](#5-how-the-authentication-service-is-modelled)
6. [How the services around them are modelled](#6-how-the-services-around-them-are-modelled)
7. [Runs](#7-runs)
8. [Fairness](#8-fairness)
9. [Proofs](#9-proofs)
10. [Where the code and its documents disagree](#10-where-the-code-and-its-documents-disagree)
11. [Not modelled](#11-not-modelled)
12. [Plan](#12-plan)

## 1. Inventory of the system

### Parts that carry the core logic

| part | source | state | operations | what makes it correct |
|---|---|---|---|---|
| Inventory | `grok_register/core/inventory.py`, `envelope.py` | two deques of envelopes, one lock, one condition, `T_Slot_Sem`, `Q_Slot_Sem`, the leases of pairs | `put_t`, `put_q`, `claim_pair` (a context manager), lazy clean-up of expired envelopes in each | each slot is held by one existing envelope and released once; an envelope has one owner; a pair leaves whole and fresh; no consumer sleeps on a pair |
| Admission gate | `grok_register/core/admission.py` | `t_in_progress`, `q_inflight`, the two hysteresis flags, one condition | `acquire_t_production`, `acquire_q_batch`, the releases of the leases, `notify_changed` | stock + production under way stays below the high watermarks; leases are counted exactly; no producer sleeps while it would be admitted |
| S, P, C workers | `grok_register/register.py` (`s_worker`, `p_worker`, `_poll_and_admit_q`, `c_worker`, `_consume_pair`, `monitor`, `main`) | per-task control state, `Physical_Sem`, `P_Send_Sem`, `Q_Pending_Sem`, `STOP`, the success count | one attempt per loop iteration | every permit goes back exactly once on every way out; no deadlock among permits; the pipeline keeps delivering; reaching the target ends the run |
| Rate limit circuit | `register.py` (`RegistrationRateLimitCircuit`) | cooldowns, the probe token, the recovery window | `wait`, `can_submit`, `trip`, `consume_recovery_seconds`, `release_probe`, `defer_probe` | one submission at a time while recovering; a cooldown is never shortened; the circuit never wedges |
| Capacity | `register.py` (`derive_*`) | none | arithmetic on environment variables and the machine | at least one permit and one worker; watermarks that the semaphores can carry |
| Hot page pool | `register.py` (`_c_hot_page_pool`) | the pool, the pages with what is left in them | lease, warm, clean, give back, reset | a pooled page is open and clean, and with nobody; the pool keeps to its size |
| Protocol engine | `protocol_register.py`, `native/register-worker` | threads or goroutines, the success count, the stop event, five files in `keys/` | whole attempts in a pool until the target; `append_account` | a session line has its password and its tokens; a counted account is on file |
| Turnstile client | `turnstile_solver.py` | `_managed_proc`, the in-flight semaphores, processes | find, start, adopt, sweep a gateway; create and poll a task | a process that ends leaves no gateway and no browser behind |
| Solver gateway | `native/solver-gateway/main.go` | job queue, result table, worker loops with browser processes | create task, solve with timeout, restart, stop | each task is answered once, with its own token |
| Credential store | `xai_enroller/ledger.py`, `inventory.py`, `sinks.py` | SQLite ledger, two directories of files | record an import, `take`, `recover`, the sink | a credential is handed out once, and none is lost by a crash |
| Authentication pipeline | `xai_enroller/auth_pipeline.py`, `service.py`, `remote_stream.py` | five tasks, three queues, a retry heap, a rate limit gate, the snapshot of the sessions | admit, prepare, authorize, complete, retry, pause, cancel, shut down | an account in work is in one place; it ends; a shutdown ends; a snapshot is one moment |
| SSO files and conversion | `sso/store.py`, `sso/export.py`, `sso/auth_service.py`, `sso/relogin.py`, `inventory/`, `native/inventory-worker` | text files, credential files and their temporaries, background jobs | count what is pending, convert it, log in again | the service sees all the work; a readable credential stays so; the pool ends |
| Credential cycles | `cliproxyapi.py` | refresh tokens in files, a worker thread, copies | refresh, rewrite, import, start, stop | the file holds the token the provider honours |
| Proxy pool | `proxy/auto.py`, `proxy/relay.py`, `register.py` | nodes on ports, the link cache, the active list, the pool's cache | refresh, test, convert a link, prune, pick | what is handed out is listened on, by its own link |
| Panel | `dashboard.py`, `job_store.py` | `register.pid`, the job record, child processes, threads | start, stop, supervise, background jobs | engines that the panel's own look, start and record know of never work side by side (more than that fails, section 10); every request is answered |

`PROJECT.json` lists all the components, including those left out, and the
hazards of each with the line where it bites.

Which engine runs is chosen by `REGISTER_ENGINE`. The default is `protocol`
(`register.py:4343`); `CspPipeline` is the browser engine that
`REGISTER_ENGINE=python` starts. It holds by far the most of the program's own
concurrency, and `docs/architecture.md` states invariants for it.

### How the parts interact

    S workers --T--> +-----------+ --pair--> C workers --> xAI    protocol engine
    P workers --+    | Inventory |              |  ^                     |
                |    +-----------+              v  |                     |
       tasks <--+ --Q-->   ^  depths       rate limit circuit            |
                           |                                             v
                      AdmissionGate                   accounts.txt, sso.txt, auth-sessions.jsonl
                                                         |                     |
       panel: pid file, jobs                    conversion, re-login     export -> snapshot
       solver gateway, browsers                         |                     |
       proxy relay -> active list                       v                     v
                                                CPA / sub2api files    AuthPipeline -> ledger,
                                                        |              authenticated/, claimed/
                                                  refresh cycles

* *Shared state.* The S, P and C workers run on one asyncio event loop and share
  the inventory, the gate, five semaphores, the circuit and `STOP`. The tasks of
  the authentication pipeline share its queues, its gate and the ledger, beside
  two threads that move files.
* *Notifications.* A `put` wakes the consumers and the gate; a claim wakes the
  gate; the end of a pair's lease wakes the consumers; the end of a reservation
  wakes the gate.
* *Hand-over.* A P worker creates one task per request it has sent; from then
  on the task owns the request's permit and its reservation.
* *Files.* Registration, conversion, export and re-login know each other only by
  the files in `keys/`; the panel and its engines only by a pid file; the relay and
  the registration only by the list of active proxies; the solver's clients only by
  a port.
* *Failure.* Every `await` may be where a worker is cancelled (an interrupt,
  `C_CONSUME_TIMEOUT`, the solver's timeout), and every step where a process is
  killed.

### Hard behaviours

Interleavings of producers and consumers between two suspensions; wake-ups that
come before the waiter parks; envelopes that expire in the stock, in a lease or
on their way into the stock; batches of which a part fails; requests that
change owner in the middle of a batch; resends that compete with first sends
for two nested semaphores; cancellation at each suspension; an old answer that
arrives at the circuit after a newer one; `STOP` against parked workers; a crash
between a row and its file; an answer that races its timeout on one pipe; two
processes that write one file under one temporary name; a cached port that
another link has taken since; two exchanges of one refresh token.

## 2. Modules

| module | what it is | code it stands for |
|---|---|---|
| `AdmissionGate` | the gate: its counters and one action per operation | `core/admission.py` |
| `Inventory` | the stock, the leases, the slots, and expiry | `core/inventory.py`, `core/envelope.py` |
| `CspPipeline` | the S, P, C workers and the polling tasks over both | `register.py`, workers, `_poll_and_admit_q`, `monitor`, the end of `main` |
| `PairExchange` | abstract specification: what the pipeline promises about its resources, with no workers, permits or buffers in it | – |
| `RateCircuit` | the circuit: one action or predicate per method | `register.py:357-588` |
| `Registration` | the consumers of the circuit, from a claimed pair to the end of its attempt | `c_worker`, `_consume_pair`, the pick of the proxy |
| `Capacity` | the arithmetic of the start-up, and theorems about it | `derive_capacity`, `derive_p_batch_max`, `derive_admission_watermarks` |
| `CredentialHandout` | abstract specification: a credential is handed out after its import, once, and for good; no files, no crashes | – |
| `CredentialStore` | ledger, directories and sink, one transaction or rename per action | `xai_enroller/ledger.py`, `inventory.py`, `sinks.py` |
| `AuthPipeline` | the tasks and commands of the service over that store | `xai_enroller/auth_pipeline.py`, `service.py`, `executors.py` |
| `SessionSnapshot` | how a registered session reaches the pipeline | `xai_enroller/remote_stream.py`, `scripts/export_registered_sessions.py` |
| `KeyFiles` | the protocol engine's threads and the five files they share | `protocol_register.py`, `sso/store.py`, `sso/export.py` |
| `Conversion` | conversions by the service and by a job of the panel, registration and re-login beside them | `sso/*`, `inventory/*`, `native/inventory-worker/main.go` |
| `CredentialSync` | the cycles that refresh CPA files | `cliproxyapi.py` |
| `HotPages` | the pool of prepared pages | `register.py`, `_c_hot_page_pool` |
| `SolverStack` | who starts, uses and sweeps the gateway | `turnstile_solver.py` and its callers |
| `SolverGateway` | the gateway itself | `native/solver-gateway/main.go` |
| `ProxyRelay` | refreshes, the relay's nodes and cache, the pool's pick | `proxy/auto.py`, `proxy/relay.py`, `register.py` |
| `ControlPlane` | the panel, its supervisor and its engines | `dashboard.py`, `runtime_status.py` |
| `JobRunner` | background jobs and their lock | `inventory/convert.py`, `sso/export.py`, `proxy/batch_test.py` |
| `MCCspPipeline`, `MCRegistration`, `MCAuthPipeline` | symmetry sets, for TLC | – |
| `MCCspTimeless` | the pipeline with time and interrupts, or without, as chosen at the start | – |
| `MCServices` | nine of the services in one instance | – |
| `CspStockProofs`, `CspPermitProofs` | theorems about `CspPipeline`: the stock, the requests, the permits, the wake-ups | – |
| `RegistrationProofs` | theorems about `Registration` and its circuit | – |
| `AuthProofs`, `HolderProofs` | theorems about `CredentialStore` and `AuthPipeline` | – |
| `ServiceProofs` | theorems about `CredentialSync`, `HotPages`, `KeyFiles`, `SolverGateway` and `ProxyRelay` | – |
| `SupportProofs` | theorems about `SolverStack`, `SessionSnapshot`, `ControlPlane` and `Conversion` | – |

`CspPipeline` EXTENDS `AdmissionGate` and `Inventory`, `Registration` EXTENDS
`RateCircuit`, and `AuthPipeline` EXTENDS `CredentialStore`: the operations of the
lower module are conjuncts of the upper one's actions.
`CspPipeline` and `Registration` describe the same consumer from two sides: the
first knows pairs, slots and permits and treats the circuit as a wait of unknown
length; the second knows the circuit and the exits and treats the pair as
something that may have expired when it is looked at. Neither restricts the
other: everything the circuit may do to a consumer is in `CspPipeline`
(`C_Thawed` at any time, `C_Failed` from everywhere), and everything a pair may
do is in `Registration` (`PassExpired`, `StartExpired`, `Abort`). In the same way
`HotPages` knows the page of a consumer and nothing of its pair.

Some operators are named after an action with a suffix (`C_Claim_Silent`) and
begin with the comment *Defect*. They are slips the code does not make; nothing
uses them. `PROJECT.json` pairs each with the property that notices when it
takes the place of the correct definition.

## 3. How the registration pipeline is modelled

**Steps.** One event loop runs all the tasks, so what a task does between two
suspensions is one atomic action. A task suspends in the wait of a condition, in
the acquisition of a semaphore, in I/O, and in `sleep`. Taking one of the
`asyncio.Lock`s is no suspension: an uncontended acquisition does not yield, and
no task holds the inventory's or the gate's lock across a suspension (the
condition's `wait` releases it), so they are never contended. Hence a `put`, the
`notify_all` after it, `notify_changed` and the release of the lease are one
action (`S_Stock`, `R_Stock`), and so is the whole of a claim. Where the code
can be cancelled, the cancellation is an action of its own.

**Control.** `pcS`, `pcP`, `pcC` say where each worker is suspended; `st[r]`
says how far request `r` has got and who drives it; `batch[p]` is what the P
worker owns or, while `"settling"`, gathers. The names are those of what is
awaited:

| worker | places |
|---|---|
| S | `top`, `parked`/`woken` (the gate), `physical`, `solving`, `slot`, `done` |
| P | `top`, `parked`/`woken`, `pending` (`_acquire_many`), `email`, `p_send`, `physical`, `sending`, `settling` (the gather), `done` |
| C | `top`, `parked`/`woken` (the inventory), `cooldown` (the circuit), `physical`, `verifying`, `submitting`, `done` |
| task | `polling`, `resend` (waits for `P_Send_Sem`), `resendPhysical`, `resending`, `returned` (waits for `Q_Slot_Sem`) |

A notified waiter is not yet running: `Woken` moves the parked to `"woken"`,
from where they look again, and a woken worker does not test `STOP` first,
because the loops inside `acquire_*` and `claim_pair` do not.

**Abstractions**

* An envelope is an identity, live while its slot is held; identities are used
  again. A request likewise is free again when its reservation ended.
  `leaked` and `abandoned` requests are final: they are the ones whose
  reservation is never released.
* The deques are sets. The code pops the oldest; the model pops any unexpired
  one, which includes the oldest. Expiry is `Age(e)`, at any time for any
  envelope; the clean-up drops all that have expired. The code's clean-up
  removes every expired envelope of both deques too, and not only from the
  front.
* I/O is a wait with a chosen outcome. The solver answers, or fails; a mailbox
  exists, or does not; a batch of sends succeeds for any subset (an exception is
  the empty subset); a code comes, or does not, or polling raises.
* The `wait_for` around an attempt and the task it starts are one worker.
* `P_SEND_CAP=0` switches `P_Send_Sem` off. That is the model with a `PSendCap`
  no smaller than the number of requests.
* The success count saturates at `Target`, since nothing asks for more than
  whether it is reached.
* Shutdown: an interrupt cancels main's `gather`, which cancels all workers
  (`Interrupt`, then the `*_Cancel*` actions in any order). The polling tasks
  are shielded from that and are cancelled by `asyncio.run` once main is gone,
  hence `WorkersGone` in `R_CancelPoll`.
* The hot page pool is off by default and is passed over by every account with a
  fingerprint id; it has a module of its own. Logging and metrics are left out.

**Constants.** `DerivedAssumption` (`THigh <= TSlotCap`, `QHigh <= QPendingCap`,
`MaxBatch <= PhysicalCap`) is not a wish: `main` derives the three values from
each other, and `Capacity` proves the three facts for every machine and every
setting with positive slot and pending capacities.

## 4. How the circuit is modelled

Points in time are kept as the number of ticks left (`cool`, `recovering`,
`next_submit`, `proxy_cool[x]`), so that time needs no bound. `recovering` is
`-1` when `_recovering_until` is not set and `0` when it has passed and nobody
has noticed yet: the code clears it lazily, in `wait`. A token is a fresh
`object()` that one consumer holds for one attempt, so its holder's identity
stands for it; `mine = probe_token` is then the code's `is` test. `scope` is
chosen by `Init` from `Scopes`, so one run covers both.

`since` and `rest` are history variables. `since` is the set of submissions that
began after the last trip was handled; `rest[x]` counts down the cooldown that
exit `x` has earned by a rate-limited answer. They never influence a step; the
properties compare what the code does with them.

A rate-limited answer is noticed in `Limited` and handled in `Trip`, two steps,
because the page is closed in between over an `await`. The same holds for
`Registered` and `Persist`. `Abort` may strike anywhere in an attempt.

## 5. How the authentication service is modelled

**The store.** A file and its row change one after the other. One action is one
transaction of SQLite or one `os.replace`; between any two of them the process
may end (`StoreCrash`), and the next start makes rows for imports without one
(`Ledger_init`) and completes what `take` had begun (`recover`). `take` and
`recover` run in a thread beside the sink's. `removed` are files that somebody
took out of `authenticated/` by hand; `inventory.py` has an error for a file that
is not there.

**The pipeline.** Five tasks hand accounts along over three queues. An action is
what a task does between two suspensions; the locks are never held across one.
`preparer`, `authorizer` and `completer` say where a task is and with which
account. Time is choice: a cooldown, a retry delay or the pace may have passed or
not (`Cooled`, `RetryDue`, `Paced`), and a device flow may be too old when it is
looked at (`FlowStale`). `shutdown` cancels three of the tasks, while a commit that
has begun is shielded and goes on (`phase = "stopping"`); `settle` is the end of
`run` and gives back what is left. `Restart` makes a new process over the same
ledger. Faults are a crash, an import by another client of the same ledger (the
one-shot coordinator), and a removal by hand; `FaultKinds` chooses among them and
`MaxFaults` bounds them.

An account and the receipt of its credential have one identity, since
`sinks.credential_filename` names the file after the token's subject.

## 6. How the services around them are modelled

`ControlPlane`. A process is known by its pid; a child that has ended keeps it as
a zombie, for which `os.kill(pid, 0)` succeeds, until the panel starts another
process. The panel starts in three steps (`Popen`, a look after a moment, the
record), the engine writes and removes the pid file on its own, and anything may
end at any point. A restart is a stop and, in the same request, a start. The
supervisor starts engines in the same steps without the panel's lock, and all three
engines are there; the `python` one removes the pid file twice. `astray` is a history
variable: the engines whose pid was taken out of the pid file while they worked, and
those started while the other spawner was between its look and its record.

`KeyFiles`. Threads with a target and a stop event; `append_account` takes
`_write_lock` and then changes sso.txt, accounts.txt, grok.txt and
auth-sessions.jsonl, each of which may raise, whereupon the fallback line with the
token in it is written. A rewrite is two steps, reading and replacing, since that is
where an unlocked writer would come between.

`SessionSnapshot`. The script reads two files one after the other while both are
appended to and replaced; the synchronizer compares generations before and after
and puts the result in place; `DiskSnapshotSource` hands it over record by record,
starts over on a new generation, and starts from the beginning in a new service.
`moments` is the history of all pairs of contents.

`Conversion`. A text file is the set of accounts it has lines for. A credential
file is absent, torn or whole, and so is its temporary. A Go worker writes in
three steps, opening (which truncates), filling, renaming; two workers that meet
share the fixed temporary name, so that the slower one may be writing into the
product, or into a file that has no name any more. `met` records where that
happened. A pool of goroutines takes accounts from a channel, puts failed ones
back after a delay, and counts what it owes. A worker may be killed at any step.
Re-login keeps the new tokens in memory until `write_back`.

`CredentialSync`. A cycle reads a file, exchanges its token, writes it, and copies
it; each is a step. The provider honours one token at a time; an answer may be the
same token, the next, a refusal, or may not arrive. Stopping waits five seconds
and then forgets the thread, which may go on beside the next one.

`HotPages`. A page has cookies and storage, each cleaned over an `await` of its own;
a consumer may be cancelled at each; the pool is closed at the end while cancelled
consumers are still on their way.

`SolverStack`. Threads of two processes look for a gateway at the one port, start
one, adopt one, wait, and post and poll a task. A gateway that loses the port ends
and its browsers do not. Sweeping kills whatever looks like the stack.

`SolverGateway`. A loop and a browser share pipes, on which answers come in the
order of the requests. Solve, warm-up and stop take the process's mutex; a solve
that timed out is still reading when the loop goes on.

`ProxyRelay`. A link is served by a process that listens on a port; the cache of
conversions lies outside of the relay's lock. The tests of a refresh run in threads
in any order, or in the Go worker, which rejects all share links. A refresh leaves
two files, the active proxies (`active`) and the candidates they came from
(`listed`, in the state file). Its candidates are the links the sources list, the
last candidates or, if there are none, the last active proxies, and with bootstrap
candidates (the default) those too. `Init` takes any two files, since an earlier run
may have ended between them or the state file may be gone; nothing listens yet. The
active list and the pool's cached copy of it are what a registration picks from.

`JobRunner`. One job record under a lock which is not reentrant; three files of the
repository have the same form.

## 7. Runs

Each ends within about four minutes with two TLC workers.

### Registration pipeline

`CspRequests` – *the life of a request.* Three requests, two P workers with
batches of up to two, one worker of the other kinds, one slot each, two physical
permits, one send permit, target 1. Two P workers with a batch of two against
three pending permits is the smallest setting in which two half batches can meet
in `_acquire_many`; one send permit against two physical ones makes first sends,
resends, S and C compete; `QHigh = 3` with `QLow = 1` makes the hysteresis
differ from the bound and the last batch smaller than its maximum. Expiry, an
interrupt and the target are included. About 1.5 million states up to symmetry.

`CspConsumers` – *the stock and its consumers.* Two workers of each kind, two
envelopes of each kind in two slots, and an HTTP solver, which takes no physical
permit. Two of each is what one needs for two claims to compete, for one pair to
be settled while another is claimed, and for an expired envelope to be swept next
to a fresh one. While time passes one P worker stays at its loop head (`OneAtHead` of
`MCCspTimeless`), since batches against batches are the matter of `CspRequests`. It
also has, chosen at the start, the behaviours in which nothing expires and nobody
interrupts, without that bound. In these a producer is parked only while the gate
would refuse it (`TimelessAdmissions`), whichever of the six workers and two tasks
puts, claims or gives back. With expiry this is false, which is the subject of
`CspStall`. About 700 000 states.

`CspProgress` – *liveness.* `PairsKeepComing` and `RequestsEnd` under `LiveSpec`, with one worker of each kind and batches of one. Small, since
liveness checking forbids symmetry; it still has one permit of each kind for
which four parties compete. Deadlock is checked.

`CspStall`, `CspTarget` – see section 10.

The runs of `Spec` switch deadlock checking off for two reasons. An interrupted
system ends, and its last states may leave tasks with nothing to wait for
(`Terminated` covers the regular end); and with expiry the pipeline can fall
asleep as a whole, which `docs/architecture.md:142` accepts and `CspStall`
examines. `CspTarget` ends by design.

### Circuit

`RateLimit` – three consumers, two exits, both scopes, cooldown and recovery of
two ticks, an interval of one. Three consumers are needed for a late answer of
an old submission to arrive while a probe is out and a third consumer waits. Two
ticks make "in the middle of a cooldown" different from both of its ends. About
105 000 states. Deadlock is checked. `RateDirect` – see section 10.

### Authentication service

`AuthService` – *the pipeline.* Two accounts, a source queue and a completion
queue of one, one retry, pauses, cancellations, and up to two imports by another
client. Queues of one make every put wait; two accounts make one wait behind the
other and let the rate limit hit one while the other is confirmed. Deadlock is
checked: the service can always be started again.

`AuthProgress` – *the store, crashes, and liveness.* Two accounts, two batches,
one fault, which is a crash or a removal by hand at any point. Two batches are
needed for a receipt to be claimed by the one while the other recovers; one crash
is enough to part a row and its file at every point, and recovery is idempotent:
`recover` runs at each start, with or without a crash before it. It has no symmetry
and no cancel command, as it checks liveness.

### Services

`Services` – *nine services, one at a time.* They share no state, so `MCServices`
chooses a part at the start and lets the others rest: a behaviour of the run is a
behaviour of one service, and none is lost by it. Conversion is three parts: two
converters, by Go and by Python, over one account whose token is in sso.txt and in
accounts.txt; the panel's pool alone over all accounts, so that goroutines requeue
past each other; and the text files, changed by registration, migration and
re-login under any credential files there may be. About 1.6 million states in all.
Things nothing tells apart are taken in order: pids, accounts, gateway processes.
The parts and what makes their bounds enough:

| part | instance | why it is enough |
|---|---|---|
| panel | three starts of the `python` engine or two of any engines, with the supervisor | one engine that works or closes, one that the panel starts, one that the supervisor starts meanwhile, over restarts, early exits and zombies; two engines of different kinds side by side |
| keys | three accounts, two threads, target 1 | two threads between the same reading and replacing; one more account than the target asks for |
| snapshot | two e-mails, two snapshots, two starts | a half-old export needs one account in each file; a new start meets an old snapshot |
| relay | two links, two nodes and so three ports, three refreshes, any files of an earlier run with at most one local proxy, with and without bootstrap candidates | a port is freed, taken by the other link, and the first is converted again in a third refresh; a local proxy of an earlier list is served by nobody, or by another link |
| gateway | three jobs at one loop or two jobs at two, a queue of one | a timeout on one loop while the other answers; at one loop one job is solved, one waits and one is refused, and a late token meets the next job |
| pages | two consumers, three pages, a pool of one | two give back into the last place, the third is being opened |
| solvers | two processes, two threads each, two gateways | a start within a process and one across processes overlap, and one loses the port |
| conversion | two accounts, two kinds of file, one goroutine, one retry | two workers at one file; a requeue behind another account |
| sync | one file, two tokens, three cycles | files do not interact, each is exchanged on its own; two tokens tell old from new |

`PanelCleanup`, `JobRequests` – see section 10.

The service modules have a type invariant each (`ControlPlaneTypeOK`, …), which
documents their variables. It is not among the invariants of the runs; all of them
hold in all states of `Services`.

Deadlock checking is off: each service may stop, by reaching its bound (pids,
refreshes, jobs) or because nobody uses it.

**What the settings leave out.** Several properties hold in the
configuration checked and fail in another that the code also has; these failures
are described in section 10 or are recorded with the hazard they belong to.

* `ReadsFail = FALSE`: `upsert_*` takes a file it cannot read for an empty one and
  replaces it by the new line alone; then `KeysAgree` fails.
* `Local = TRUE`: the synchronizer over SSH has no generation check, and
  `SourceFaithful` fails with it.
* `MaxActive = 0`, the default of the code: with a limit `LinksServed` fails. It says of every listed share link that its exit works, and of a
  listed local proxy only that it was tested as a candidate of its own; such a proxy
  may be dead when the refresh ends. During a refresh a hand-out may
  be dead, and the property does not speak of it. The pool holds tested proxies alone
  and no share links put there by hand.
* `OneOnRecord` excepts the engines that are `astray`; that two engines then do work
  side by side is shown by `PanelCleanup`.
* `ReadyStays` excepts files that two Go workers wrote at once (`met`): these can
  end torn.
* `TokenKept` excepts a file that two cycles had in hands at once (`both`) and one
  whose new token did not arrive in it (`unheard`); both can lose an account. After
  either the run does not follow that file any further. The copies in the CLIProxyAPI
  are taken to be passive.
* `WatchSees` compares the two scans by what both count as pending. Whether the Go
  worker and Python read a line or a file by the same rules is not in the model.
* Conversion: initial text files are not in the oldest layout (a token without a
  password line beside other accounts' tokens is), and re-login is run while nothing
  registers.

### Properties

| property | says | would fail if |
|---|---|---|
| `SlotConservation` | free slots + live envelopes = capacity | an envelope were dropped without `discard`, or settled twice |
| `PairOwnership` | one owner per envelope, leases are whole pairs, a lease exists exactly from claim to settlement | a claim peeked, or a failed attempt kept its pair |
| `NoPairMissed` | consumers are parked only while there is no pair | a `put` did not notify |
| `TimelessAdmissions` | as long as nothing expires, producers are parked only while the gate would refuse them | a claim or a lease's end did not notify |
| `TLeaseConservation` | `t_in_progress` counts the S workers between admission and the end of their attempt | the way out without a token ended no lease, or the `finally` ended it again |
| `WithinWatermarks` | depth + under way <= high watermark | a batch were not clipped |
| `PermitForReservation` | nobody waits in `_acquire_many` | the gate let in more than `Q_Pending_Sem` carries; then two half batches could deadlock |
| `PendingConservation` | `Q_Pending_Sem` and `q_inflight` count the requests in the states that hold them | a way out forgot or repeated a release |
| `BatchInStep` | the owner of a request is who the control state says | a worker went on without its tasks, or two workers drove a request |
| `PermitsConserved` | the semaphores equal their holders | a `finally` released what was not taken, or missed one |
| `ImplementsExchange` | the pipeline refines `PairExchange` | a stale or shared envelope reached a consumer, or the stock outgrew its bound |
| `PairsKeepComing`, `RequestsEnd` | pairs are delivered for ever; every polled request ends | a permit or a production lease leaked, a wake-up were lost, the nested semaphores deadlocked |
| `ProbeCarried` (both gates) | the probe token is carried by an attempt in progress | one of the ways out kept it |
| `OneRecoverySubmission` | after a trip, until recovery ends, at most one submission that began since then | a revoked token still let its holder submit |
| `CooldownKept` | only the clock shortens a cooldown | the late success of a revoked probe ended it |
| `LimitedExitRests` | no new submission through an exit that has to rest | a trip were booked on the wrong exit, or the second check before the submission were missing |
| `GateReopens` | consumers held back are not held back for ever | the token were lost, or a deadline never passed |
| `OneHolder` | an account in work is in exactly one task or queue | a retry or a repeated snapshot doubled it, a cancellation dropped it |
| `StartsJustified` | a confirmation starts unpaused, with no import on record, and in a cooldown with the probe | one of the looks were not repeated after the refresh |
| `PendingOwned` | a pending row belongs to an attempt | a shutdown left rows, an attempt made two |
| `NoSecondImport` | this service imports an account once | a restart forgot the ledger |
| `NothingLost`, `BatchAgrees` | each row has its file where its state says; the batch in hand is what the ledger still claims | recovery reopened a claim, or `take` answered for more than it claimed |
| `ImplementsHandout` | the service refines `CredentialHandout` | files without a record were handed out, or one twice |
| `AdmittedEnds`, `ShutdownCompletes`, `ClaimsComplete` | accounts, shutdowns and claims come to an end | a slot, a poll or a batch were kept |
| `OneOnRecord` | engines work side by side only if one was put off the record or both spawners were starting | the look before a start asked about another pid than the one on file |
| `KeysAgree` | a session line has its password and tokens; a counted account its password | two threads interleaved a rewrite, or a failure left a line too early |
| `SourceFaithful` | what was handed over is what the two files held at one moment | a snapshot were put in place unchecked |
| `LinksServed` | after a refresh a listed link is on a node of its own, on the listed port, and in the cache | a failed link kept its cached port |
| `JobsAccounted` | a task is pending exactly while somebody has it, and gets its own token | a refused task were counted, or a late answer taken for the next task's |
| `PoolClean` | a pooled page is clean, open, and with nobody | a page were shared, or put back half cleaned |
| `SolversSwept` | a process that ended leaves no gateway and no browser | the sweep at exit went by `_managed_proc` only |
| `WatchSees` | when the service counts nothing, its worker would find nothing | a session line were written before its token |
| `PoolAccounted` | what the pool owes is what is queued, in hand or being put back | a requeue counted as settled: a send into a closed channel |
| `ReadyStays` | a readable credential stays so | it were written in place |
| `TokenKept` | the file holds the token the provider honours | the old token won over the answered one |

## 8. Fairness

`Fairness` in `CspPipeline`: weak fairness for every worker and task, because the
event loop runs whatever can run, and strong fairness for each acquisition of a
semaphore, because `asyncio.Semaphore` serves its waiters in the order of their
arrival. The attempts that can only fail by a timeout end because the code bounds
each of them with one.

`WorldAnswers` is about the outside world, and `PairsKeepComing` is meaningless
without it: a solver asked again and again answers once, some mailbox is created,
some send succeeds, some code arrives. `LiveSpec` leaves out expiry and
interrupts: if every token expired before a code arrived, no pair would ever form,
and that is no fault of the code.

`StopSpec` is `Fairness` without `WorldAnswers`: whether the target ends the run
must not depend on how kind the world is.

`FairSpec` in `Registration`: weak fairness of the clock and of each consumer.
`wait` polls the circuit every few seconds, so nobody has to be notified and weak
fairness is enough.

`LiveSpec` in `AuthPipeline`: weak fairness of the tasks, since each of their
requests and threads ends (all have a timeout), and of the shutdown, the restart and
the recovery, which are what an operator or a process supervisor does. Strong
fairness of a put that waits for room, as `asyncio.Queue` serves its putters in
order, and of a retry that is due. For each account strong fairness of an answer
that is not "rate limited": if the rate limit hit the same account for ever, it
would be tried for ever, and no code could help. `AdmittedEnds` excepts a paused,
stopped or killed service, `ClaimsComplete` a claim whose file was taken away.

`JobRunnerFairness`: each thread that can go on goes on, and one that waits for a
lock again and again free gets it at last. The counterexample of `JobRequests` does
not depend on it: the handler waits for itself.

The services have safety properties only and no fairness.

## 9. Proofs

### Registration pipeline

All theorems but `AdmissionsNotMissed` are about `Spec`, with expiry, interrupts and
cancellation, for any finite sets of workers, requests and envelopes and any capacities
with the assumptions `WatermarkAssumption`, `InventoryAssumption`, `PipelineAssumption`
and `DerivedAssumption`. TLC evaluates these assumptions in each run.

The inductive invariant is built in layers, each a conjunction of named parts,
and each layer is proved with the ones below it:

1. `StockPart` (`CspStockProofs`): types of the stock, `SlotConservation`,
   `PairOwnership`, `NoPairMissed`. There is one lemma for each operation of the
   inventory; the workers only add that a worker's place changes along.
   Slot conservation is not inductive without single ownership: only if no envelope is in two places does removing it change the
   cardinality of the live ones by one.
   Result: `SlotsConserved`, `PairsOwned`, `PairsNotMissed`.
2. The same module shows with layer 1 that each step maps to a step of
   `PairExchange` or to a stutter. The two bounds of the exchange are stated as the
   existence of an injection (`Fits`), and follow from slot conservation and a free
   slot. Result: `PipelineImplementsExchange`.
3. `RequestPart` (`CspPermitProofs`): types, `BatchInStep` and
   `PendingConservation`. The counting needs the batch invariant, which says in
   which states the requests are that a worker gives back all at once.
   Result: `PendingConserved`, `BatchesInStep`.
4. `PermitPart` (`CspPermitProofs`): the balances of `Physical_Sem`, `P_Send_Sem`
   and `t_in_progress`. Their counting sets range over four kinds of holders, so
   the proof has one lemma per kind that says that a step of it keeps the balance,
   and one that it leaves the other sets alone.
   Result: `PermitsKept`, `TLeasesConserved`.
5. On top, in the same module: `WithinWatermarks` (a grant is clipped by the
   demand, `put` moves a unit from "under way" to the stock) and from it
   `PermitForReservation`: while a batch is being acquired some request of it is
   still only reserved, `q_inflight =< QHigh =< QPendingCap`, and the reserved one
   holds no permit, so one is left. This is the deadlock argument for
   `_acquire_many`, and it is where `DerivedAssumption` is used. Finally the types
   of the rest give `TypeCorrect`.
   Result: `WatermarksHold`, `ReservationsCovered`, `TypeCorrect`.
6. `AdmissionsNotMissed` is about `TimelessSpec`, in which nothing expires and nobody
   is interrupted; with expiry it is false, as `CspStall` shows. Its invariant adds
   to `NoAdmissionMissed` only that nothing is expired and the process is up. The work
   is in the steps: each of them wakes everybody (`EveryoneAwake`), or leaves alone
   what the gate looks at and parks nobody (`NobodyDisturbed`), or is a refusal, which
   leaves the other refusals standing (`RefusalStands`).

The circuit (`RegistrationProofs`, about the `Spec` of `Registration`, for any
consumers, exits, scopes and durations). `CircuitInv` is the types, `ProbeCarried`, and three parts that
`OneRecoverySubmission` needs: a token is held by the consumer it was made for, in the
attempt it was made for (`TokensOwned`); while the circuit is not closed every
submission since the trip is the probe's (`SubmissionsProbe`); and a probe exists only
after the cooldown (`ProbeAfterCooldown`). Results:
`CircuitTypeCorrect`, `ProbesCarried`, `OneSubmissionInRecovery`, `CooldownsKept`.
`LimitedExitsRest` has an invariant of its own, `RestKnown` (no exit has to rest longer
than the circuit's cooldown for it, and with a pool every page has an exit of it),
and the hypothesis `Exit # {} \/ "proxy" \notin Scopes`:
without it the theorem is false, and `RateDirect` is the counterexample.

`Capacity` proves `PhysicalDerived`, `WatermarksDerived` and `WorkersDerived`
about the start-up arithmetic, for all integers that the environment can supply
and with the overrides set or not.

### Authentication service

`AuthProofs` proves, for any finite set of accounts and any batches, capacities and
faults:

1. `StoreInv`, over `StoreNext`: types, `NothingLost`, `BatchAgrees`,
   `HandedOutOnce`, and `RowsFiled`, which strengthens them: a row belongs to an
   import on record, a claimed row to a batch, and what is imported or about to be
   and has no row yet has its file. `NothingLost` is not inductive without the last
   part, which says that a row can be made (`Ledger_init`, `finish`) only over a
   file that is there.
2. `StoreSteps`: every step of the pipeline is a step of the store or leaves it
   alone. So the store's invariant is one of the service.
   Result: `HandsOutOnce`, `LosesNothing`, `BatchesAgree`.
3. `HandoutStep`: under `StoreInv` each step of the store maps to a step of
   `CredentialHandout` or to a stutter; a move of a file is the hand-out.
   Result: `ServiceHandsOut`.
4. `PipeInv`: the types the argument needs, `OneFlowAhead` and `ProbeCarried`, with
   a lemma for each task.
   Result: `FlowAheadOnce`, `ProbeIsCarried`.
5. `StartsAreJustified`, an action property: only two actions lead to
   `confirm`, and each of them looks at all three conditions; in a cooldown the
   probe is given by `ProbeCarried`.

`HolderProofs` adds, on the invariant of the store:

6. `HolderInv`: `OneHolder` and `PendingOwned` with what they need, that an idle task
   holds nobody and that an entry of the retry heap is an account that waits for it.
   `OneHolder` sums how often an account occurs in the queues and the hands of the
   tasks. That a concatenation has the sum of the occurrences of its parts
   (`OccursConcat`) follows from a bijection between positions and the cardinality of
   a disjoint union, without induction; appending and taking the head follow from it.
   `NoOneAssumption` says that the value for "nobody" is not an account.
   Result: `HeldOnce`, `PendingIsOwned`.
7. `ImportInv`: whoever is on the way from the start of a confirmation to its import
   has none of this service on record, since the account is nowhere else meanwhile;
   so it rests on `OneHolder`. Result: `ImportsOnce`.
8. `BoundInv`: the queues keep to their capacities and the retries to the table of
   delays (`CapacityAssumption`: these are natural numbers), and a pipeline runs only
   in a service that is up, so that no recovery fails beneath it. With the parts
   above, the types of the whole service. Result: `ServiceTypeCorrect`.

### Services

`ServiceProofs` and `SupportProofs` prove a property of each of nine services, for
any threads, files, pages, jobs, bounds and interleaving. Each is made inductive by what
an actor knows of the shared state while it is between two of its steps:

1. `TokenInv` for `TokenKept`: a file that no two cycles had in hands and whose new
   tokens all arrived is in the hands of at most one cycle, and what that cycle has
   read, or been answered, is the token the provider honours. `FileStepInv` does
   this once for a cycle that moves on with or without its file, and the lemmas for
   the single steps instantiate it. Result: `TokensKept`.
2. `PageInv` for `PoolClean`: a worker has a page exactly where the code has one
   open, and at each step of the cleaning the page is as clean as the steps before
   have made it. That the pool keeps to its size needs that it is finite.
   Result: `PoolsClean`.
3. `KeyInv` for `KeysAgree`: at most one worker is in `_write_lock`; what it has
   read is what the file still holds, and the lines it has written are there
   (`Relies`). The theorem assumes `ReadsFail = FALSE`: an upsert takes a read that
   fails for an empty file and drops the other accounts, so that without the
   assumption the property is false. Result: `KeysKept`.

4. `GatewayInv` for `JobsAccounted`: a job is with its handler, in the queue or with
   one loop, never in two of them, and pending exactly while it is in one; `pending`
   is the cardinality of the pending ones; and of each loop and its process, what the
   loop's place says about the goroutine that solves, the pipe, and whose the answer
   in hand is. The pipe holds the request of whoever has the process's lock, which is
   why a warm-up cannot take a job's token. Steps of one loop keep the rest by
   `LoopKeepsTheRest`. Result: `JobsAnsweredOnce`.
5. `RelayInv` for `LinksServed`: a converted link is its own node's port but for the
   moment between the two halves of a clean-up; a test that can still pass is on the
   link's own node, or on the local proxy as it stands; and every node at the end of
   the first refresh is in its list, so that the prune stops none. `Init` may have any
   files of an earlier run. The free port exists because one node fewer than ports is
   in use; that a set of numbers has a least element is `LeastNatural`, by counting its
   lower bounds. The theorem has the hypothesis `MaxActive = 0`, the default of
   `PROXY_AUTO_MAX_ACTIVE`; with a limit it is false (section 10, *Proxies*).
   Bootstrap candidates may be on or off. Result: `ListedLinksServed`.
6. `SweptInv` for `SolversSwept`: with the types, that a gateway with a starter was
   started. A sweep takes all of those, and nobody who has ended starts another.
   Result: `StacksSwept`.
7. `SnapshotInv` for `SourceFaithful`: if the inputs have not changed since an export
   looked at their generations, it holds what they hold (`ExportCurrent`), so what is
   put in place is of one moment; and if the file was not replaced since the source
   opened it, what is handed over and what is left are its records (`ReadingKnown`).
   The hypothesis `Local` is the mode that compares generations; over SSH the
   property does not hold. Result: `SnapshotsFaithful`.
8. `PanelInv` for `OneOnRecord`: of the engines at work that nobody has lost sight of
   there is at most one (`OneTraced`), and it is on file or in the hands of who started
   it (`TracedFound`), so that a look finds it; and after a spawner's look no such
   engine comes on file but one that the other spawner holds (`LookStands`). There are
   no hypotheses: any pids, any of the three engines, with the supervisor or without.
   Result: `EnginesKnown`.
9. For `Conversion`: `LoggedInv` for `WatchSees` (a logged session has its token on
   file, and the sessions a re-login is about to append have theirs there or in the
   batch being written back); `PoolInv` for `PoolAccounted` (what is owed is the number
   of accounts queued or in work, and a conversion not in its pool owes nothing);
   `WritersInv` for `ReadyStays` (a file that two workers never had open is open in one,
   under the temporary name, and whole before its rename). Result: `WatchComplete`,
   `ConversionTypeCorrect`, `PoolsAccounted`, `ProductsStay`.

Assumptions on constants that only the proofs need: the accounts of a conversion are
finitely many, the values that stand for "nobody", "nothing" and "failed" are not
jobs or accounts (`NoOneAssumption`, `GatewayAssumption`), and a link is not a port
(`RelayAssumption`). TLC evaluates them in the runs.

Only model-checked: the liveness properties (`PairsKeepComing`, `RequestsEnd`,
`GateReopens`, `AdmittedEnds`, `ShutdownCompletes`, `ClaimsComplete`), which are out of
the prover's reach. Every invariant and every action property of a passing run is a
theorem, under the hypotheses named above (`ReadsFail = FALSE`, `Local`,
`MaxActive = 0`, and that of `LimitedExitsRest`); the run checks the same case.

## 10. Where the code and its documents disagree

Each of these is a run that ends with a counterexample.

* `CspStall` / `NoSilentStall`. The clean-up inside a claim that finds no pair
  lowers the depths, and nobody calls `notify_changed` after it
  (`inventory.py:106`), although that is what `notify_changed` is for
  (`admission.py:127`). All workers can end up parked in front of a gate that
  would admit them. `docs/architecture.md:139-142` accepts that a silent system
  does not sweep its stock; here the stock has been swept.
* `CspTarget` / `TargetStops`. `README.md:60` says that `--target 100` stops after
  100 successes. `STOP` is tested at loop heads only; workers parked on a condition
  do not see it, and those who could wake them have left. `main` waits for them for
  ever.
* `RateDirect` / `LimitedExitRests`. In the scope `proxy` with no proxy pool, the
  page's exit is `None`; `trip(None)` takes the branch of the scope `global`
  (`register.py:463`), whose state that scope never reads. A direct connection gets
  no cooldown at all.
* `JobRequests` / `RequestsAnswered`. A second start of a background job while one
  runs is answered inside `with _job_lock:` by a call that takes the same lock
  (`inventory/convert.py:978`, `sso/export.py:660`, `proxy/batch_test.py:816`). The
  handler waits for itself with the lock in hand, and every request for the panel's
  status behind it.
* `PanelCleanup` / `OneEngine`. `start.sh:69` promises one registration process per
  directory ("同一工作目录只允许一个注册进程") and takes a lock for it; the panel has the pid
  file. The `python` engine clears that file twice (`register.py:4525`, `4620`), the
  second time perhaps another's, and the next start runs beside the one it hides.

Found while reading and modelling, without a run of their own:

* `docs/architecture.md:160` gives `P_WORKERS = Q_Pending_Sem + 2`; `register.py:714`
  takes the minimum of that and `max(2, 2 * physical)`. `Capacity` models the code.
* `docs/architecture.md:186` says that every admitted pending request releases
  `Q_Pending_Sem` once. A poll that is cancelled keeps it on purpose, with a comment
  and a test that say so. It happens only at the end of the process, and
  `PendingConservation` counts it.
* *Panel.* The supervisor does not take `_action_lock` (`dashboard.py:3385`), so a start
  by hand and one of its own can overlap and two engines run, which `start.sh:69`
  excludes; the model has it, as `astray`. "保存并重启" stops the old process and starts it
  again (`dashboard.py:1276`), but `_stop_register` does not wait, and the start behind it
  finds the pid still there and is refused (`RestartRefused`): none is started.
  `AUTO_RESTART_REGISTER` starts a dead engine again (`config_catalog.py:1212`), but one
  that was killed stays a zombie of the panel, whose pid exists (`runtime_status.py:85`),
  until the panel starts some other process.
* *Solver.* `turnstile_solver.py:521` says "Ensure SIGTERM/SIGINT stop the hybrid stack
  (not only atexit on clean exit)"; starts come from worker threads, where
  `signal.signal` raises and the error is swallowed. The sweep of a start that lost the
  port also kills the gateway that another thread or process uses.
* *Key files.* `upsert_account_password` drops the token that a fallback line kept
  beside the password. Re-login rewrites the files from another process, with a
  shared temporary name and no lock between processes, and has all new tokens in
  memory until the end. A crash in the migration of accounts.txt leaves tokens in
  neither file.
* *Snapshot.* The script takes the first session line of an account, not the last;
  `email:password` lines make the export over SSH fail for ever with code 4
  (`export_registered_sessions.py:171`, against `README.md:600-602`).
* *Conversion.* `--convert` is always `only_pending`, so an account with an old CPA file
  is never enrolled again; `run_watch` does not mirror when nothing is pending; with a
  limit no larger than the number of dead sessions the service never reaches the
  accounts after them; a bundle rebuilt by two processes may lack the newest file.
* *Credential cycles.* `cliproxyapi.py:8` calls the files the source of truth. Nothing
  locks a file over `refresh_document_file`: of two cycles that overlap the second is
  refused, and writes the document it had read (`443`) over the new token. Stopping and
  starting the worker during a cycle leaves two. "Copy if newer" copies an older file
  over a newer copy.
* *Proxies.* The Go proxy-worker knows no share links, so with
  `PROXY_WORKER_ENGINE=auto` each fails its test. `README.md:116` keeps only proxies that
  reach the test URLs, but with bootstrap candidates, the default, a local port of the
  last list passes through the node of a link which fails its own test and is stopped
  afterwards (`auto.py:243`, `register.py:2250`): it is listed and nobody listens. With
  `PROXY_AUTO_MAX_ACTIVE` (`start.sh:184` sets 3) the prune at the startup leaves the
  cache (`relay.py:125`), the port is used again, and a later list names a dead one. Links in the pool's own file lose
  their nodes to the prune.
* *Batch test.* A failed `Popen` leaves the record at "running"; a preparation of more
  than 180 s lets a second batch start; relay nodes of the panel's test are never
  released.
* *Hot pages.* A preparation that raises or is cancelled leaks the page
  (`register.py:3584`, `3615`).

## 11. Not modelled

* Pages, gRPC-web, mail polling, fingerprints, OAuth, the page loop of
  `executors.confirm`: I/O whose outcomes are choices in the models.
* The Go registration worker: the same attempts as the Python engine's in
  goroutines. The panel's model has its process.
* The C++ gateway (a second implementation of the Go one's protocol), the process
  helpers in C++ and Rust, and the scaling of the gateway's worker count.
* The one-shot coordinator of `xai_enroller`, but for its imports; the upload sink.
* The proxy scraper and the tests of proxies by hand; bundles, the mirror and the
  views of the account inventory; the panel's pages, the settings catalogue, logs and
  status files; scripts; the stateless mail forwarder: little state of their own, or
  pure I/O.
* `vendor/`: third-party code.
* `_QBatchLease.release_all` has no caller outside the tests.
* The order of the deques and of the queues where no property depends on it.

## 12. Plan

Done, in this order: the registration pipeline with its proofs, since it is the heart
of the program and its invariants are the documented ones; the circuit; the
authentication service with its store and their proofs; the services around them;
proofs of all the safety properties.

Next:

1. Abstract specifications of the services, with step simulations on the invariants
   proved: the gateway as a set of jobs each answered once, the pool of pages as a
   set of clean ones.
2. The Go registration worker as an implementation of the abstract pool in `KeyFiles`.
3. The order of the deques, as a refinement of `Inventory` by one with sequences.
