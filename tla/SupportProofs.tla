---------------------------- MODULE SupportProofs ----------------------------
(***************************************************************************)
(* Theorems about what runs beside the registration, for any instance: the *)
(* solver stack, the session snapshot, the panel, the conversion.          *)
(***************************************************************************)
EXTENDS SolverStack, SessionSnapshot, ControlPlane, Conversion,
        FiniteSetTheorems, TLAPS

----------------------------------------------------------------------------
\* The gateways of the solver stack

\* A gateway has a starter only once it was started.  SolversSwept is
\* inductive with this: a sweep takes every gateway that anybody started,
\* and nobody who has ended starts one.
StartersStarted == \A g \in Gateways : starter[g] # {} => gateway[g] # "none"

SweptInv == SolverStackTypeOK /\ StartersStarted /\ SolversSwept

\* Where a thread of a process that solves may be.
CallerState ==
  [at : {"away", "starting", "waiting", "sweeping", "served", "polling"},
   gateway : Gateways \cup {NoGateway}]

LEMMA StackTypes ==
  SolverStackTypeOK <=>
    /\ process \in [Procs -> {"up", "stopping", "ended", "killed"}]
    /\ managed \in [Procs -> Gateways \cup {NoGateway}]
    /\ starter \in [Gateways -> SUBSET Procs]
    /\ gateway \in [Gateways -> {"none", "up", "dead"}]
    /\ serving \in Gateways \cup {NoGateway} /\ browsers \subseteq Gateways
    /\ caller \in [Callers -> CallerState]
BY DEF SolverStackTypeOK, CallerState

LEMMA HomeIsProcess == \A c \in Callers : Home(c) \in Procs
BY DEF Callers, Home

LEMMA SweptInit == SolverStackInit => SweptInv
<1> SUFFICES ASSUME SolverStackInit PROVE SweptInv
  OBVIOUS
<1>1. Away \in CallerState
  BY DEF Away, CallerState
<1>2. SolverStackTypeOK
  BY <1>1, StackTypes DEF SolverStackInit
<1> QED
  BY <1>2 DEF SolverStackInit, SweptInv, StartersStarted, SolversSwept

\* A thread that goes somewhere keeps the type of the callers.
LEMMA GoesTyped ==
  ASSUME SolverStackTypeOK, NEW c \in Callers, NEW g \in Gateways \cup {NoGateway},
         NEW at \in {"away", "starting", "waiting", "sweeping", "served", "polling"},
         Goes(c, at, g)
  PROVE  caller' \in [Callers -> CallerState]
BY StackTypes DEF Goes, CallerState

LEMMA FailureTyped ==
  ASSUME SolverStackTypeOK, NEW c \in Callers, AfterFailure(c)
  PROVE  caller' \in [Callers -> CallerState]
<1>1. \E at \in {"served", "away"} : Goes(c, at, NoGateway)
  BY DEF AfterFailure
<1> QED
  BY <1>1, GoesTyped

\* What moves threads only: nobody's gateways change.
LEMMA ThreadsMove ==
  ASSUME SweptInv, caller' \in [Callers -> CallerState],
         UNCHANGED <<process, managed, starter, gateway, serving, browsers>>
  PROVE  SweptInv'
<1>1. SolverStackTypeOK'
  BY StackTypes DEF SweptInv, SolverStackTypeOK, CallerState
<1> QED
  BY <1>1 DEF SweptInv, StartersStarted, SolversSwept

\* Gateways only die and browsers only stop when a process kills some.
LEMMA Killed ==
  ASSUME SolverStackTypeOK, NEW dead
  PROVE  /\ Buried(dead) \in [Gateways -> {"none", "up", "dead"}]
         /\ Vacated(dead) \in Gateways \cup {NoGateway}
         /\ \A g \in Gateways : /\ gateway[g] = "none" <=> Buried(dead)[g] = "none"
                                /\ gateway[g] = "dead" => Buried(dead)[g] = "dead"
BY DEF SolverStackTypeOK, Buried, Vacated

LEMMA KillKeeps ==
  ASSUME SweptInv, NEW p \in Procs, KillManaged(p)
  PROVE  /\ managed' \in [Procs -> Gateways \cup {NoGateway}]
         /\ starter' = starter
         /\ gateway' \in [Gateways -> {"none", "up", "dead"}]
         /\ serving' \in Gateways \cup {NoGateway} /\ browsers' \subseteq browsers
         /\ \A g \in Gateways : /\ gateway[g] = "none" <=> gateway'[g] = "none"
                                /\ gateway[g] = "dead" => gateway'[g] = "dead"
BY Killed DEF KillManaged, SweptInv, SolverStackTypeOK

\* After a sweep everything that was started is dead, without browsers.
LEMMA SweepKeeps ==
  ASSUME SweptInv, kill_orphan_solvers
  PROVE  /\ UNCHANGED <<managed, starter>>
         /\ gateway' \in [Gateways -> {"none", "up", "dead"}]
         /\ serving' \in Gateways \cup {NoGateway} /\ browsers' = {}
         /\ \A g \in Gateways : /\ gateway[g] = "none" <=> gateway'[g] = "none"
                                /\ gateway[g] # "none" => gateway'[g] = "dead"
BY Killed DEF kill_orphan_solvers, SweptInv, SolverStackTypeOK, Buried

LEMMA CallerStepSwept ==
  ASSUME SweptInv, NEW c \in Callers,
         \/ ensure_solver_for_register(c) \/ Reuse(c) \/ RuntimeMissing(c)
         \/ start_managed_solver(c) \/ Ready(c) \/ StartFailed(c)
         \/ FailureSwept(c) \/ Create(c) \/ Poll(c)
  PROVE  SweptInv'
<1> USE DEF SweptInv
<1>1. CASE ensure_solver_for_register(c) \/ Reuse(c) \/ Ready(c) \/ Create(c) \/ Poll(c)
  <2>1. PICK at \in {"away", "starting", "served", "polling"},
             g \in Gateways \cup {NoGateway} : Goes(c, at, g)
    BY <1>1, StackTypes
    DEF ensure_solver_for_register, Reuse, Ready, Create, Poll
  <2>2. caller' \in [Callers -> CallerState]
    BY <2>1, GoesTyped
  <2> QED
    BY <1>1, <2>2, ThreadsMove
    DEF ensure_solver_for_register, Reuse, Ready, Create, Poll
<1>2. CASE RuntimeMissing(c)
  BY <1>2, FailureTyped, ThreadsMove DEF RuntimeMissing
<1>3. CASE start_managed_solver(c)
  <2>1. PICK g \in Gateways :
          /\ gateway[g] = "none"
          /\ gateway' = [gateway EXCEPT ![g] = "up"]
          /\ starter' = [starter EXCEPT ![g] = {Home(c)}]
          /\ managed' = [managed EXCEPT ![Home(c)] = g]
          /\ Goes(c, "waiting", g)
    BY <1>3 DEF start_managed_solver
  <2>2. caller' \in [Callers -> CallerState]
    BY <2>1, GoesTyped
  <2>3. /\ process[Home(c)] = "up" /\ Home(c) \in Procs
        /\ UNCHANGED <<process, serving, browsers>>
    BY <1>3, HomeIsProcess DEF start_managed_solver, CallerAt
  <2>4. SolverStackTypeOK'
    BY <2>1, <2>2, <2>3, StackTypes DEF SolverStackTypeOK, CallerState
  <2>5. StartersStarted'
    BY <2>1, StackTypes DEF StartersStarted
  <2>6. SolversSwept'
    BY <2>1, <2>3, StackTypes DEF StartersStarted, SolversSwept
  <2> QED
    BY <2>4, <2>5, <2>6
<1>4. CASE StartFailed(c)
  <2>1. KillManaged(Home(c)) /\ Home(c) \in Procs /\ process' = process
    BY <1>4, HomeIsProcess DEF StartFailed
  <2>2. caller' \in [Callers -> CallerState]
    BY <1>4, GoesTyped DEF StartFailed
  <2>3. SolverStackTypeOK'
    BY <2>1, <2>2, KillKeeps, StackTypes DEF SolverStackTypeOK, CallerState
  <2> QED
    BY <2>1, <2>3, KillKeeps, StackTypes DEF StartersStarted, SolversSwept
<1>5. CASE FailureSwept(c)
  <2>1. kill_orphan_solvers /\ process' = process
    BY <1>5 DEF FailureSwept
  <2>2. caller' \in [Callers -> CallerState]
    BY <1>5, FailureTyped DEF FailureSwept
  <2>3. SolverStackTypeOK'
    BY <2>1, <2>2, SweepKeeps, StackTypes DEF SolverStackTypeOK, CallerState
  <2> QED
    BY <2>1, <2>3, SweepKeeps, StackTypes DEF StartersStarted, SolversSwept
<1> QED
  BY <1>1, <1>2, <1>3, <1>4, <1>5

LEMMA GatewayStepSwept ==
  ASSUME SweptInv, NEW g \in Gateways, Launch(g) \/ Listen(g) \/ Crash(g)
  PROVE  SweptInv'
<1> USE DEF SweptInv
<1>1. /\ UNCHANGED <<process, managed, starter, caller>>
      /\ gateway[g] = "up" /\ browsers' \in {browsers, browsers \cup {g}}
      /\ gateway' \in [Gateways -> {"none", "up", "dead"}]
      /\ serving' \in Gateways \cup {NoGateway}
      /\ \A h \in Gateways : /\ gateway[h] = "none" <=> gateway'[h] = "none"
                             /\ gateway[h] = "dead" => gateway'[h] = "dead"
  <2>1. CASE Launch(g)
    BY <2>1, StackTypes DEF Launch
  <2>2. CASE Listen(g)
    BY <2>2, StackTypes DEF Listen
  <2>3. CASE Crash(g)
    BY <2>3, StackTypes, Killed DEF Crash
  <2> QED
    BY <2>1, <2>2, <2>3
<1>2. SolverStackTypeOK'
  BY <1>1 DEF SolverStackTypeOK
<1> QED
  BY <1>1, <1>2 DEF StartersStarted, SolversSwept

LEMMA ProcessStepSwept ==
  ASSUME SweptInv, NEW p \in Procs,
         stop_managed_solver(p) \/ ExitSwept(p) \/ Signalled(p)
  PROVE  SweptInv'
<1> USE DEF SweptInv
<1>1. CASE stop_managed_solver(p)
  <2>1. caller' = caller
    BY <1>1 DEF stop_managed_solver
  <2>2. CASE EverStarted(p) /\ process' = [process EXCEPT ![p] = "stopping"]
             /\ KillManaged(p)
    <3>1. SolverStackTypeOK'
      BY <2>1, <2>2, KillKeeps, StackTypes DEF SolverStackTypeOK
    <3> QED
      BY <2>2, <3>1, KillKeeps, StackTypes DEF StartersStarted, SolversSwept
  <2>3. CASE ~EverStarted(p) /\ process' = [process EXCEPT ![p] = "ended"]
             /\ UNCHANGED <<managed, starter, gateway, serving, browsers>>
    <3>1. SolverStackTypeOK'
      BY <2>1, <2>3, StackTypes DEF SolverStackTypeOK
    <3> QED
      BY <2>3, <3>1, StackTypes DEF StartersStarted, SolversSwept, EverStarted
  <2> QED
    BY <1>1, <2>2, <2>3 DEF stop_managed_solver
<1>2. CASE ExitSwept(p)
  <2>1. /\ kill_orphan_solvers /\ caller' = caller
        /\ process' = [process EXCEPT ![p] = "ended"]
    BY <1>2 DEF ExitSwept
  <2>2. SolverStackTypeOK'
    BY <2>1, SweepKeeps, StackTypes DEF SolverStackTypeOK
  <2> QED
    BY <2>1, <2>2, SweepKeeps, StackTypes DEF StartersStarted, SolversSwept
<1>3. CASE Signalled(p)
  <2>1. caller' \in [Callers -> CallerState]
    BY <1>3, StackTypes DEF Signalled, Away, CallerState
  <2>2. SolverStackTypeOK'
    BY <1>3, <2>1, StackTypes DEF Signalled, SolverStackTypeOK, CallerState
  <2> QED
    BY <1>3, <2>2, StackTypes DEF Signalled, StartersStarted, SolversSwept
<1> QED
  BY <1>1, <1>2, <1>3

LEMMA SweptStep == SweptInv /\ [SolverStackNext]_stackVars => SweptInv'
<1> SUFFICES ASSUME SweptInv, [SolverStackNext]_stackVars PROVE SweptInv'
  OBVIOUS
<1>1. CASE UNCHANGED stackVars
  BY <1>1 DEF stackVars, SweptInv, SolverStackTypeOK, StartersStarted, SolversSwept
<1>2. CASE SolverStackNext
  BY <1>2, CallerStepSwept, GatewayStepSwept, ProcessStepSwept DEF SolverStackNext
<1> QED
  BY <1>1, <1>2

\* turnstile_solver.py: a process that ended by itself leaves none of the
\* gateways it started and none of their browsers, for any number of
\* processes, threads and gateways and any overlap of their starts.
THEOREM StacksSwept == SolverStackSpec => []SolversSwept
<1>1. SweptInv => SolversSwept
  BY DEF SweptInv
<1> QED
  BY <1>1, SweptInit, SweptStep, PTL DEF SolverStackSpec

----------------------------------------------------------------------------
\* The session snapshot

SnapshotTypes ==
  /\ inputs \in [sess : SUBSET Emails, accts : SUBSET Line]
  /\ changes \in Nat
  /\ sync \in [at : {"idle", "sessions", "accounts", "exported"}, since : Nat,
               sess : SUBSET Emails, accts : SUBSET Line]
  /\ disk \in [gen : 0 .. MaxSyncs, records : SUBSET Record]
  /\ source \in [at : {"poll", "open", "read", "closed"}, gen : 0 .. MaxSyncs,
                 consumed : 0 .. MaxSyncs, left : SUBSET Record]
  /\ handed \in SUBSET Record

\* A script whose inputs did not change has read what they hold now; while
\* one runs, the bound leaves room for its snapshot.
ExportCurrent ==
  /\ sync.at # "idle" => disk.gen < MaxSyncs
  /\ sync.since =< changes
  /\ sync.since = changes =>
       /\ sync.at \in {"accounts", "exported"} => sync.sess = inputs.sess
       /\ sync.at = "exported" => sync.accts = inputs.accts

\* The snapshot on disk is what the inputs held at one moment.
DiskOfMoment ==
  /\ inputs \in moments
  /\ disk.gen # 0 =>
       \E m \in moments : disk.records = export_sessions(m.sess, m.accts)

\* The file that is being read, or was read to its end, may have been
\* replaced: while it was not, what is handed over and what is left are its
\* records.
ReadingKnown ==
  /\ source.gen =< disk.gen /\ source.consumed =< disk.gen
  /\ source.at = "read" /\ source.gen = disk.gen
       => handed \cup source.left = disk.records
  /\ source.at = "poll" /\ source.consumed # 0 /\ source.consumed = disk.gen
       => handed = disk.records

\* SourceFaithful follows from this, which is inductive.
SnapshotInv == SnapshotTypes /\ ExportCurrent /\ DiskOfMoment /\ ReadingKnown

LEMMA ExportTyped ==
  \A sess \in SUBSET Emails, accts \in SUBSET Line :
    export_sessions(sess, accts) \in SUBSET Record
BY DEF export_sessions, Line, Record

LEMMA SnapshotInit == SessionSnapshotInit => SnapshotInv
BY SnapshotAssumption
DEF SessionSnapshotInit, SnapshotInv, SnapshotTypes, ExportCurrent,
    DiskOfMoment, ReadingKnown, NoSync, NewSource

\* The registration changes its files: no export that runs is current then.
LEMMA ChangeSnapshot ==
  ASSUME SnapshotInv, Change(inputs'),
         inputs' \in [sess : SUBSET Emails, accts : SUBSET Line]
  PROVE  SnapshotInv'
<1> USE DEF SnapshotInv, Change
<1>1. SnapshotTypes'
  BY DEF SnapshotTypes
<1>2. sync.since \in Nat /\ changes \in Nat
  BY DEF SnapshotTypes
<1>3. ExportCurrent'
  BY <1>2 DEF ExportCurrent
<1>4. DiskOfMoment' /\ ReadingKnown'
  BY DEF DiskOfMoment, ReadingKnown
<1> QED
  BY <1>1, <1>3, <1>4

LEMMA RegistrationSnapshot ==
  ASSUME SnapshotInv, NEW e \in Emails,
         UpsertPassword(e) \/ AppendSession(e) \/ AppendLegacy(e)
  PROVE  SnapshotInv'
<1>1. inputs \in [sess : SUBSET Emails, accts : SUBSET Line]
  BY DEF SnapshotInv, SnapshotTypes
<1>2. Filed \subseteq Emails
  BY <1>1 DEF Filed, Line
<1>3. /\ [email : Filed \cup {e}, form : {"pair"}] \subseteq Line
      /\ [email |-> e, form |-> "triple"] \in Line
  BY <1>2 DEF Line
<1>4. \A acc \in SUBSET Line, em \in SUBSET Emails :
        /\ [inputs EXCEPT !.accts = acc] \in [sess : SUBSET Emails, accts : SUBSET Line]
        /\ [inputs EXCEPT !.sess = em] \in [sess : SUBSET Emails, accts : SUBSET Line]
  BY <1>1
<1>5. PICK new \in [sess : SUBSET Emails, accts : SUBSET Line] : Change(new)
  <2>1. CASE UpsertPassword(e)
    BY <1>3, <1>4, <2>1 DEF UpsertPassword
  <2>2. CASE AppendSession(e)
    <3>1. inputs.sess \cup {e} \in SUBSET Emails
      BY <1>1
    <3> QED
      BY <1>4, <2>2, <3>1 DEF AppendSession
  <2>3. CASE AppendLegacy(e)
    <3>1. inputs.accts \cup {[email |-> e, form |-> "triple"]} \in SUBSET Line
      BY <1>1, <1>3
    <3> QED
      BY <1>4, <2>3, <3>1 DEF AppendLegacy
  <2> QED
    BY <2>1, <2>2, <2>3
<1>6. inputs' = new
  BY <1>5 DEF Change
<1> QED
  BY <1>5, <1>6, ChangeSnapshot

\* A step of the synchronizer that leaves the snapshot alone.
LEMMA SyncSnapshot ==
  ASSUME SnapshotInv,
         StartExport \/ ReadSessions \/ ReadAccounts \/ Reject \/ SyncFails
  PROVE  SnapshotInv'
<1> USE DEF SnapshotInv
<1>1. UNCHANGED <<inputs, changes, moments, disk, source, handed>>
  BY DEF StartExport, ReadSessions, ReadAccounts, Reject, SyncFails
<1>2. sync' \in [at : {"idle", "sessions", "accounts", "exported"}, since : Nat,
                sess : SUBSET Emails, accts : SUBSET Line]
      /\ ExportCurrent'
  <2>1. CASE StartExport
    <3>1. /\ sync' = [at |-> "sessions", since |-> changes, sess |-> {}, accts |-> {}]
          /\ disk.gen < MaxSyncs /\ changes \in Nat
      BY <2>1 DEF StartExport, NoSync, SnapshotTypes
    <3> QED
      BY <1>1, <3>1 DEF ExportCurrent
  <2>2. CASE ReadSessions
    BY <1>1, <2>2 DEF ReadSessions, SnapshotTypes, ExportCurrent
  <2>3. CASE ReadAccounts
    BY <1>1, <2>3 DEF ReadAccounts, SnapshotTypes, ExportCurrent
  <2>4. CASE Reject \/ SyncFails
    <3>1. sync' = NoSync
      BY <2>4 DEF Reject, SyncFails
    <3> QED
      BY <1>1, <3>1 DEF NoSync, SnapshotTypes, ExportCurrent
  <2> QED
    BY <2>1, <2>2, <2>3, <2>4
<1>3. SnapshotTypes'
  BY <1>1, <1>2 DEF SnapshotTypes
<1>4. DiskOfMoment' /\ ReadingKnown'
  BY <1>1 DEF DiskOfMoment, ReadingKnown
<1> QED
  BY <1>2, <1>3, <1>4

\* A snapshot is put in place: the generation of the disk is new to the
\* source, and the inputs did not change while the script read them.
LEMMA PublishSnapshot ==
  ASSUME Local, SnapshotInv, Publish
  PROVE  SnapshotInv'
<1> USE DEF SnapshotInv
<1>1. /\ UNCHANGED <<inputs, changes, moments, source, handed>>
      /\ disk' = [gen |-> disk.gen + 1, records |-> Exported]
      /\ sync' = NoSync
  BY DEF Publish
<1>2. sync.sess = inputs.sess /\ sync.accts = inputs.accts
  BY DEF Publish, Accepted, ExportCurrent
<1>3. Exported \in SUBSET Record
  BY ExportTyped DEF Exported, SnapshotTypes
<1>4. /\ disk.gen \in Nat /\ disk.gen + 1 \in 0 .. MaxSyncs
      /\ disk'.gen = disk.gen + 1 /\ disk'.records = Exported
  BY <1>1, SnapshotAssumption DEF SnapshotTypes, ExportCurrent, Publish
<1>5. SnapshotTypes'
  BY <1>1, <1>3, <1>4 DEF SnapshotTypes, NoSync
<1>6. ExportCurrent'
  BY <1>1 DEF ExportCurrent, SnapshotTypes, NoSync
<1>7. DiskOfMoment'
  BY <1>1, <1>2, <1>4 DEF DiskOfMoment, Exported
<1>8. ReadingKnown'
  <2>1. /\ source.gen \in Nat /\ source.consumed \in Nat
        /\ source.gen # disk.gen + 1 /\ source.consumed # disk.gen + 1
        /\ source.gen =< disk.gen + 1 /\ source.consumed =< disk.gen + 1
    BY <1>4 DEF ReadingKnown, SnapshotTypes
  <2> QED
    BY <1>1, <1>4, <2>1 DEF ReadingKnown
<1> QED
  BY <1>5, <1>6, <1>7, <1>8

LEMMA SourceSnapshot ==
  ASSUME SnapshotInv, SourceStep
  PROVE  SnapshotInv'
<1> USE DEF SnapshotInv
<1>1. UNCHANGED <<inputs, changes, moments, sync, disk>>
  BY DEF SourceStep, Stat, Open, HandOver, Consumed
<1>2. ExportCurrent' /\ DiskOfMoment'
  BY <1>1 DEF ExportCurrent, DiskOfMoment
<1>3. SnapshotTypes' /\ ReadingKnown'
  <2>1. CASE Stat
    BY <1>1, <2>1 DEF Stat, SnapshotTypes, ReadingKnown
  <2>2. CASE Open
    <3>1. /\ source' = [at |-> "read", gen |-> disk.gen,
                        consumed |-> source.consumed, left |-> disk.records]
          /\ handed' = {}
          /\ disk.gen \in 0 .. MaxSyncs /\ disk.records \in SUBSET Record
      BY <2>2 DEF Open, SnapshotTypes
    <3>2. SnapshotTypes'
      BY <1>1, <3>1 DEF SnapshotTypes
    <3> QED
      BY <1>1, <3>1, <3>2 DEF ReadingKnown
  <2>3. CASE HandOver
    <3>1. PICK r \in source.left :
            /\ source' = [source EXCEPT !.left = @ \ {r}]
            /\ handed' = handed \cup {r}
      BY <2>3 DEF HandOver
    <3>2. /\ handed' \cup source'.left = handed \cup source.left
          /\ source'.at = "read" /\ source'.gen = source.gen
          /\ source'.consumed = source.consumed
      BY <2>3, <3>1 DEF HandOver, SnapshotTypes
    <3>3. SnapshotTypes'
      BY <1>1, <3>1 DEF SnapshotTypes
    <3> QED
      BY <1>1, <2>3, <3>2, <3>3 DEF ReadingKnown, HandOver
  <2>4. CASE Consumed
    BY <1>1, <2>4 DEF Consumed, SnapshotTypes, ReadingKnown
  <2> QED
    BY <2>1, <2>2, <2>3, <2>4 DEF SourceStep
<1> QED
  BY <1>2, <1>3

LEMMA ServiceSnapshot ==
  ASSUME SnapshotInv, Close \/ StartService
  PROVE  SnapshotInv'
BY SnapshotAssumption
DEF SnapshotInv, Close, StartService, SnapshotTypes, ExportCurrent,
    DiskOfMoment, ReadingKnown, NoSync, NewSource

LEMMA SnapshotStep ==
  ASSUME Local
  PROVE  SnapshotInv /\ [SessionSnapshotNext]_snapshotVars => SnapshotInv'
<1> SUFFICES ASSUME SnapshotInv, [SessionSnapshotNext]_snapshotVars
             PROVE  SnapshotInv'
  OBVIOUS
<1>1. CASE UNCHANGED snapshotVars
  BY <1>1 DEF snapshotVars, SnapshotInv, SnapshotTypes, ExportCurrent,
              DiskOfMoment, ReadingKnown
<1>2. CASE SessionSnapshotNext
  BY <1>2, RegistrationSnapshot, SyncSnapshot, PublishSnapshot, SourceSnapshot,
     ServiceSnapshot
  DEF SessionSnapshotNext, SyncStep
<1> QED
  BY <1>1, <1>2

\* LocalSnapshotSynchronizer and DiskSnapshotSource: what the authorization
\* service was given when the source is at rest is what the registration's
\* two files held at one moment, for any accounts and however appends,
\* exports, replacements and readings interleave.  The synchronizer over SSH
\* compares no generations, and for it this does not hold.
THEOREM SnapshotsFaithful ==
  ASSUME Local PROVE SessionSnapshotSpec => []SourceFaithful
<1>1. SnapshotInv => SourceFaithful
  <2> SUFFICES ASSUME SnapshotInv, source.at = "poll", source.consumed # 0,
                      source.consumed = disk.gen
               PROVE  /\ handed = disk.records
                      /\ \E m \in moments : handed = export_sessions(m.sess, m.accts)
    BY DEF SourceFaithful
  <2>1. handed = disk.records
    BY DEF SnapshotInv, ReadingKnown
  <2> QED
    BY <2>1 DEF SnapshotInv, DiskOfMoment
<1> QED
  BY <1>1, SnapshotInit, SnapshotStep, PTL DEF SessionSnapshotSpec

----------------------------------------------------------------------------
\* The panel and the engines

\* The engines at work that nobody has lost sight of.
Traced == Engaged \ astray

\* A spawner holds an engine from its start until it is done with it.
HandsHold ==
  \A a \in Spawners :
    spawner[a].at \in {"idle", "restart", "popen"} <=> spawner[a].child = NoPid

\* A known engine is found: on file, or in the hands of who started it.
TracedFound == \A p \in Traced : p = pid_file \/ InHand(p)

\* After a spawner has looked, no known engine comes on file but one that
\* the other spawner still holds.
LookStands ==
  \A a \in Spawners :
    spawner[a].at = "popen" /\ pid_file \in Traced => InHand(pid_file)

OneTraced == \A p, q \in Traced : p = q

\* OneOnRecord is inductive with this.
PanelInv ==
  ControlPlaneTypeOK /\ HandsHold /\ TracedFound /\ LookStands /\ OneTraced

LEMMA PanelInit == ControlPlaneInit => PanelInv
BY DEF ControlPlaneInit, PanelInv, ControlPlaneTypeOK, HandsHold, TracedFound,
       LookStands, OneTraced, Traced, Engaged, Spawners, Lives

LEMMA ReapedKeeps ==
  ASSUME ControlPlaneTypeOK
  PROVE  /\ Reaped(proc) \in [Pid -> Lives]
         /\ \A p \in Pid : proc[p] # "zombie" => Reaped(proc)[p] = proc[p]
         /\ \A p \in Pid : proc[p] = "zombie" => Reaped(proc)[p] \in {"zombie", "gone"}
BY DEF ControlPlaneTypeOK, Reaped, Lives

Places == {"idle", "restart", "popen", "look", "record"}

\* A spawner goes from one place to the next, the other stays.
LEMMA SpawnerMoves ==
  ASSUME ControlPlaneTypeOK, NEW a \in Spawners, NEW p \in Pid \cup {NoPid},
         NEW place \in Places, Moves(a, place, p)
  PROVE  /\ spawner' \in [Spawners -> [at : Places, child : Pid \cup {NoPid}]]
         /\ spawner'[a] = [at |-> place, child |-> p]
         /\ \A b \in Spawners \ {a} : spawner'[b] = spawner[b]
BY DEF ControlPlaneTypeOK, Moves, Places

\* Steps that start no engine and hand none over: the known engines become
\* fewer, and one that leaves the pid file is known no more.
LEMMA NobodyStarted ==
  ASSUME PanelInv, ControlPlaneTypeOK', HandsHold', Traced' \subseteq Traced,
         \A p \in Traced' : p = pid_file => p = pid_file',
         \A a \in Spawners : /\ spawner'[a].child = spawner[a].child
                             /\ spawner'[a].at = "popen" => spawner[a].at = "popen"
  PROVE  PanelInv'
<1>1. \A p : InHand(p) => InHand(p)'
  BY DEF InHand
<1>2. TracedFound' /\ OneTraced'
  BY <1>1 DEF PanelInv, TracedFound, OneTraced
<1>3. LookStands'
  <2> SUFFICES ASSUME NEW a \in Spawners, spawner'[a].at = "popen", pid_file' \in Traced'
               PROVE  InHand(pid_file')
    BY <1>1 DEF LookStands, InHand
  <2> QED
    BY DEF PanelInv, TracedFound, LookStands
<1> QED
  BY <1>2, <1>3 DEF PanelInv

LEMMA StartPanel ==
  ASSUME PanelInv, NEW a \in Spawners, _spawn_register(a) \/ _spawn_go_register(a)
  PROVE  PanelInv'
<1>1. PICK e \in Engines, place \in {"look", "record"} : Start(a, e, place)
  BY DEF _spawn_register, _spawn_go_register
<1>2. PICK p \in Pid :
        /\ proc[p] = "unused"
        /\ proc' = [Reaped(proc) EXCEPT ![p] = "born"]
        /\ engine' = [engine EXCEPT ![p] = e]
        /\ Moves(a, place, p)
        /\ astray' = astray \cup
             {q \in {p} : \E b \in Spawners \ {a} : spawner[b].child \in Engaged}
  BY <1>1 DEF Start
<1>3. UNCHANGED <<pid_file, job_pid>> /\ spawner[a].at = "popen"
  BY <1>1 DEF Start
<1>4. ControlPlaneTypeOK
  BY DEF PanelInv
<1>5. /\ spawner' \in [Spawners -> [at : Places, child : Pid \cup {NoPid}]]
      /\ spawner'[a] = [at |-> place, child |-> p]
      /\ \A b \in Spawners \ {a} : spawner'[b] = spawner[b]
  <2>1. place \in Places /\ p \in Pid \cup {NoPid} /\ Moves(a, place, p)
    BY <1>2 DEF Places
  <2> QED
    BY <1>4, <2>1, SpawnerMoves
<1>6. ControlPlaneTypeOK'
  <2>1. proc' \in [Pid -> Lives] /\ engine' \in [Pid -> Engines \cup {"none"}]
    BY <1>2, <1>4, ReapedKeeps DEF ControlPlaneTypeOK, Lives
  <2>2. astray' \subseteq Pid
    BY <1>2, <1>4 DEF ControlPlaneTypeOK
  <2> QED
    BY <1>3, <1>4, <1>5, <2>1, <2>2 DEF ControlPlaneTypeOK, Places
<1>7. Engaged' = Engaged \cup {p} /\ p \notin Engaged
  BY <1>2, <1>4, ReapedKeeps DEF Engaged, ControlPlaneTypeOK
<1>8. HandsHold'
  <2>1. \A b \in Spawners \ {a} :
          spawner'[b].at \in {"idle", "restart", "popen"} <=> spawner'[b].child = NoPid
    BY <1>5 DEF PanelInv, HandsHold
  <2>2. place \notin {"idle", "restart", "popen"} /\ p # NoPid
    BY PanelAssumption
  <2> QED
    BY <1>5, <2>1, <2>2 DEF HandsHold
<1>9. \A q : InHand(q) /\ q # NoPid => InHand(q)'
  BY <1>3, <1>5 DEF PanelInv, HandsHold, InHand
<1>10. \A q \in Traced : q # NoPid
  BY PanelAssumption DEF Traced, Engaged
<1>11. InHand(p)'
  BY <1>5 DEF InHand
<1>12. Traced' \subseteq Traced \cup {p}
  BY <1>2, <1>7 DEF Traced
<1>13. TracedFound'
  BY <1>3, <1>9, <1>10, <1>11, <1>12 DEF PanelInv, TracedFound
<1>14. LookStands'
  BY <1>3, <1>5, <1>9, <1>10, <1>11, <1>12 DEF PanelInv, LookStands
<1>15. CASE \E b \in Spawners \ {a} : spawner[b].child \in Engaged
  <2>1. Traced' \subseteq Traced
    BY <1>2, <1>7, <1>15 DEF Traced
  <2> QED
    BY <1>6, <1>8, <1>13, <1>14, <2>1 DEF PanelInv, OneTraced
<1>16. CASE ~ \E b \in Spawners \ {a} : spawner[b].child \in Engaged
  <2>1. \A q \in Traced : ~InHand(q)
    BY <1>3, <1>10, <1>16 DEF PanelInv, HandsHold, InHand, Traced
  <2>2. Traced = {}
    BY <1>3, <2>1 DEF PanelInv, TracedFound, LookStands
  <2> QED
    BY <1>6, <1>8, <1>12, <1>13, <1>14, <2>2 DEF PanelInv, OneTraced
<1> QED
  BY <1>15, <1>16

LEMMA RecordPanel ==
  ASSUME PanelInv, NEW a \in Spawners, PutOnRecord(a)
  PROVE  PanelInv'
<1> DEFINE p == spawner[a].child
           overtaken == {b \in Spawners \ {a} : spawner[b].at = "popen"}
<1>1. /\ spawner[a].at = "record" /\ pid_file' = p
      /\ astray' = astray \cup (Engaged \cap ({pid_file} \ {p}))
                          \cup (IF overtaken # {} THEN {p} ELSE {})
      /\ job_pid' \in {job_pid, p} /\ Moves(a, "idle", NoPid)
      /\ UNCHANGED <<proc, engine>>
  BY DEF PutOnRecord
<1>2. ControlPlaneTypeOK /\ p \in Pid \cup {NoPid}
  BY DEF PanelInv, ControlPlaneTypeOK
<1>3. /\ spawner' \in [Spawners -> [at : Places, child : Pid \cup {NoPid}]]
      /\ spawner'[a] = [at |-> "idle", child |-> NoPid]
      /\ \A b \in Spawners \ {a} : spawner'[b] = spawner[b]
  BY <1>1, <1>2, SpawnerMoves DEF Places
<1>4. Engaged' = Engaged /\ Traced' \subseteq Traced
  BY <1>1 DEF Traced, Engaged
<1>5. HandsHold' /\ OneTraced'
  BY <1>3, <1>4 DEF PanelInv, HandsHold, OneTraced
<1>6. \A q \in Traced' : q = p \/ (q # pid_file /\ InHand(q)')
  <2> SUFFICES ASSUME NEW q \in Traced', q # p PROVE q # pid_file /\ InHand(q)'
    OBVIOUS
  <2>1. q \in Traced /\ q # pid_file
    BY <1>1, <1>4 DEF Traced
  <2>2. PICK b \in Spawners : spawner[b].child = q
    BY <2>1 DEF PanelInv, TracedFound, InHand
  <2> QED
    BY <1>3, <2>1, <2>2 DEF InHand
<1>7. TracedFound'
  BY <1>1, <1>6 DEF TracedFound
<1>8. LookStands'
  <2> SUFFICES ASSUME NEW b \in Spawners, spawner'[b].at = "popen", p \in Traced'
               PROVE  FALSE
    BY <1>1 DEF LookStands
  <2>1. b \in overtaken
    BY <1>3
  <2> QED
    BY <1>1, <2>1 DEF Traced
<1>9. ControlPlaneTypeOK'
  <2>1. p \in Pid
    BY <1>1, <1>2 DEF PanelInv, HandsHold
  <2>2. astray' \subseteq Pid
    BY <1>1, <1>2, <2>1 DEF Engaged, ControlPlaneTypeOK
  <2> QED
    BY <1>1, <1>2, <1>3, <2>2 DEF ControlPlaneTypeOK, Places
<1> QED
  BY <1>5, <1>7, <1>8, <1>9 DEF PanelInv

LEMMA SpawnerStepPanel ==
  ASSUME PanelInv, NEW a \in Spawners, MaySpawn(a) \/ EarlyExit(a) \/ Alive(a)
  PROVE  PanelInv'
<1> DEFINE p == spawner[a].child
<1>1. ControlPlaneTypeOK /\ p \in Pid \cup {NoPid}
  BY DEF PanelInv, ControlPlaneTypeOK
<1>2. CASE MaySpawn(a)
  <2>1. /\ spawner[a].at \in {"idle", "restart"} /\ ~process_alive
        /\ Moves(a, "popen", NoPid)
        /\ UNCHANGED <<pid_file, job_pid, proc, engine, astray>>
    BY <1>2 DEF MaySpawn
  <2>2. /\ spawner' \in [Spawners -> [at : Places, child : Pid \cup {NoPid}]]
        /\ spawner'[a] = [at |-> "popen", child |-> NoPid]
        /\ \A b \in Spawners \ {a} : spawner'[b] = spawner[b]
    BY <1>1, <2>1, SpawnerMoves DEF Places
  <2>3. Traced' = Traced /\ pid_file \notin Traced
    BY <2>1, PanelAssumption DEF Traced, Engaged, process_alive, pid_alive
  <2>4. \A q : InHand(q) => InHand(q)'
    BY <2>1, <2>2 DEF PanelInv, HandsHold, InHand
  <2>5. ControlPlaneTypeOK' /\ HandsHold'
    BY <1>1, <2>1, <2>2 DEF ControlPlaneTypeOK, Places, PanelInv, HandsHold
  <2> QED
    BY <2>1, <2>3, <2>4, <2>5 DEF PanelInv, TracedFound, LookStands, OneTraced
<1>3. CASE EarlyExit(a)
  <2>1. /\ spawner[a].at = "look" /\ proc[p] = "zombie"
        /\ proc' = [proc EXCEPT ![p] = "gone"] /\ job_pid' = p
        /\ Moves(a, "idle", NoPid) /\ UNCHANGED <<pid_file, engine, astray>>
    BY <1>3 DEF EarlyExit
  <2>2. /\ spawner' \in [Spawners -> [at : Places, child : Pid \cup {NoPid}]]
        /\ spawner'[a] = [at |-> "idle", child |-> NoPid]
        /\ \A b \in Spawners \ {a} : spawner'[b] = spawner[b]
    BY <1>1, <2>1, SpawnerMoves DEF Places
  <2>3. p \in Pid
    BY <1>1, <2>1 DEF PanelInv, HandsHold
  <2>4. Traced' = Traced /\ p \notin Traced
    BY <1>1, <2>1, <2>3 DEF Traced, Engaged, ControlPlaneTypeOK
  <2>5. \A q \in Traced : InHand(q) => InHand(q)'
    BY <2>2, <2>4 DEF InHand
  <2>6. ControlPlaneTypeOK'
    BY <1>1, <2>1, <2>2 DEF ControlPlaneTypeOK, Places, Lives
  <2>7. HandsHold' /\ \A b \in Spawners : spawner'[b].at = "popen" => spawner[b].at = "popen"
    BY <2>2 DEF PanelInv, HandsHold
  <2> QED
    BY <2>1, <2>4, <2>5, <2>6, <2>7 DEF PanelInv, TracedFound, LookStands, OneTraced
<1>4. CASE Alive(a)
  <2>1. /\ spawner[a].at = "look" /\ Moves(a, "record", p)
        /\ UNCHANGED <<pid_file, job_pid, proc, engine, astray>>
    BY <1>4 DEF Alive
  <2>2. /\ spawner' \in [Spawners -> [at : Places, child : Pid \cup {NoPid}]]
        /\ spawner'[a] = [at |-> "record", child |-> p]
        /\ \A b \in Spawners \ {a} : spawner'[b] = spawner[b]
    BY <1>1, <2>1, SpawnerMoves DEF Places
  <2>3. ControlPlaneTypeOK' /\ HandsHold' /\ Traced' = Traced
    BY <1>1, <2>1, <2>2
    DEF ControlPlaneTypeOK, Places, PanelInv, HandsHold, Traced, Engaged
  <2>4. \A b \in Spawners : /\ spawner'[b].child = spawner[b].child
                            /\ spawner'[b].at = "popen" => spawner[b].at = "popen"
    BY <2>2
  <2> QED
    BY <2>1, <2>3, <2>4, NobodyStarted
<1> QED
  BY <1>2, <1>3, <1>4

LEMMA ActionStepPanel ==
  ASSUME PanelInv,
         stop_register \/ save_config_restart \/ RestartRefused \/ run_scrape
  PROVE  PanelInv'
<1>1. ControlPlaneTypeOK /\ "panel" \in Spawners
  BY DEF PanelInv, Spawners
<1>2. CASE stop_register \/ save_config_restart
  <2>1. PICK place \in {"idle", "restart"} : Stops(place)
    BY <1>2 DEF stop_register, save_config_restart
  <2>2. /\ spawner["panel"].at = "idle" /\ Moves("panel", place, NoPid)
        /\ proc' = [p \in Pid |-> IF p \in {pid_file, job_pid}
                                    THEN Terminated(proc[p]) ELSE proc[p]]
        /\ UNCHANGED <<pid_file, job_pid, engine, astray>>
    BY <2>1 DEF Stops
  <2>3. /\ spawner' \in [Spawners -> [at : Places, child : Pid \cup {NoPid}]]
        /\ spawner'["panel"] = [at |-> place, child |-> NoPid]
        /\ \A b \in Spawners \ {"panel"} : spawner'[b] = spawner[b]
    <3>1. place \in Places
      BY DEF Places
    <3> QED
      BY <1>1, <2>2, <3>1, SpawnerMoves
  <2>4. \A l \in Lives :
          /\ Terminated(l) \in Lives
          /\ Terminated(l) = "dying" => l \in {"born", "working", "dying"}
          /\ Terminated(l) \notin {"born", "working"}
    BY DEF Terminated, Lives
  <2>5. proc' \in [Pid -> Lives] /\ Traced' \subseteq Traced
    BY <1>1, <2>2, <2>4 DEF ControlPlaneTypeOK, Traced, Engaged
  <2>6. ControlPlaneTypeOK' /\ HandsHold'
    BY <1>1, <2>2, <2>3, <2>5
    DEF ControlPlaneTypeOK, Places, PanelInv, HandsHold
  <2>7. \A b \in Spawners : /\ spawner'[b].child = spawner[b].child
                            /\ spawner'[b].at = "popen" => spawner[b].at = "popen"
    BY <1>1, <2>2, <2>3 DEF PanelInv, HandsHold
  <2> QED
    BY <2>2, <2>5, <2>6, <2>7, NobodyStarted
<1>3. CASE RestartRefused
  <2>1. /\ spawner["panel"].at = "restart" /\ Moves("panel", "idle", NoPid)
        /\ UNCHANGED <<pid_file, job_pid, proc, engine, astray>>
    BY <1>3 DEF RestartRefused
  <2>2. /\ spawner' \in [Spawners -> [at : Places, child : Pid \cup {NoPid}]]
        /\ spawner'["panel"] = [at |-> "idle", child |-> NoPid]
        /\ \A b \in Spawners \ {"panel"} : spawner'[b] = spawner[b]
    BY <1>1, <2>1, SpawnerMoves DEF Places
  <2>3. ControlPlaneTypeOK' /\ HandsHold' /\ Traced' = Traced
    BY <1>1, <2>1, <2>2
    DEF ControlPlaneTypeOK, Places, PanelInv, HandsHold, Traced, Engaged
  <2>4. \A b \in Spawners : /\ spawner'[b].child = spawner[b].child
                            /\ spawner'[b].at = "popen" => spawner[b].at = "popen"
    BY <1>1, <2>1, <2>2 DEF PanelInv, HandsHold
  <2> QED
    BY <2>1, <2>3, <2>4, NobodyStarted
<1>4. CASE run_scrape
  <2>1. proc' = Reaped(proc) /\ UNCHANGED <<pid_file, job_pid, engine, spawner, astray>>
    BY <1>4 DEF run_scrape
  <2>2. proc' \in [Pid -> Lives] /\ Traced' \subseteq Traced
    BY <1>1, <2>1, ReapedKeeps DEF Traced, Engaged, ControlPlaneTypeOK
  <2>3. ControlPlaneTypeOK' /\ HandsHold'
    BY <1>1, <2>1, <2>2 DEF ControlPlaneTypeOK, PanelInv, HandsHold
  <2> QED
    BY <2>1, <2>2, <2>3, NobodyStarted
<1> QED
  BY <1>2, <1>3, <1>4

LEMMA EngineStepPanel ==
  ASSUME PanelInv, NEW p \in Pid,
         Boot(p) \/ WorkDone(p) \/ clear_pid(p) \/ Exit(p)
  PROVE  PanelInv'
<1>1. ControlPlaneTypeOK
  BY DEF PanelInv
<1>2. /\ UNCHANGED <<job_pid, engine, spawner>>
      /\ proc' \in [Pid -> Lives] /\ Engaged' \subseteq Engaged
  BY <1>1 DEF Boot, WorkDone, clear_pid, Exit, ControlPlaneTypeOK, Lives, Engaged
<1>3. PICK f \in {pid_file, p, NoPid} :
        /\ pid_file' = f
        /\ \/ astray' = astray \cup {q \in Engaged' : q = pid_file /\ q # f}
           \/ f = pid_file /\ astray' = astray
  BY DEF Boot, WorkDone, clear_pid, Exit, Records
<1>4. Traced' \subseteq Traced /\ \A q \in Traced' : q = pid_file => q = pid_file'
  BY <1>2, <1>3 DEF Traced
<1>5. ControlPlaneTypeOK'
  <2>1. pid_file' \in Pid \cup {NoPid} /\ astray' \subseteq Pid
    BY <1>1, <1>2, <1>3 DEF ControlPlaneTypeOK, Engaged
  <2> QED
    BY <1>1, <1>2, <2>1 DEF ControlPlaneTypeOK
<1>6. HandsHold'
  BY <1>2 DEF PanelInv, HandsHold
<1> QED
  BY <1>2, <1>4, <1>5, <1>6, NobodyStarted

LEMMA PanelStep == PanelInv /\ [ControlPlaneNext]_panelVars => PanelInv'
<1> SUFFICES ASSUME PanelInv, [ControlPlaneNext]_panelVars PROVE PanelInv'
  OBVIOUS
<1>1. CASE UNCHANGED panelVars
  BY <1>1 DEF panelVars, PanelInv, ControlPlaneTypeOK, HandsHold, TracedFound,
     LookStands, OneTraced, Traced, Engaged, InHand
<1>2. CASE ControlPlaneNext
  BY <1>2, StartPanel, RecordPanel, SpawnerStepPanel, ActionStepPanel, EngineStepPanel
  DEF ControlPlaneNext
<1> QED
  BY <1>1, <1>2

\* dashboard.py with any engines, with the supervisor or without it, for any
\* number of starts, stops, restarts and deaths: of two engines at work one
\* is astray, that is, another process has taken its pid off the record or
\* two spawners were starting engines at once.
THEOREM EnginesKnown == ControlPlaneSpec => []OneOnRecord
<1>1. PanelInv => OneOnRecord
  <2> SUFFICES ASSUME PanelInv PROVE Cardinality(Traced) <= 1
    BY DEF OneOnRecord, Traced
  <2>1. CASE Traced = {}
    BY <2>1, FS_EmptySet
  <2>2. CASE Traced # {}
    <3>1. PICK x \in Traced : TRUE
      BY <2>2
    <3>2. Traced = {x}
      BY <3>1 DEF PanelInv, OneTraced
    <3>3. Cardinality({x}) = 1
      BY FS_Singleton
    <3> QED
      BY <3>2, <3>3
  <2> QED
    BY <2>1, <2>2
<1> QED
  BY <1>1, PanelInit, PanelStep, PTL DEF ControlPlaneSpec

----------------------------------------------------------------------------
\* What the conversion counts

\* A session that is logged has its token in sso.txt: the registration saves
\* the token first, and the re-login writes its tokens back before it
\* appends its sessions.
LoggedInv ==
  /\ logged \subseteq tokens
  /\ relogin \in [at : {"rest", "migrate", "login", "passwords", "tokens", "sessions"},
                  batch : SUBSET Users, got : SUBSET Users, move : SUBSET Users]
  /\ relogin.at = "tokens" => relogin.got \subseteq tokens \cup relogin.move

LEMMA LoggedInit == ConversionInit => LoggedInv
BY DEF ConversionInit, LoggedInv

\* A conversion leaves sessions and re-login alone, and takes no token away.
LEMMA ConvertsLogged ==
  ASSUME Converts
  PROVE  /\ UNCHANGED <<logged, relogin>>
         /\ tokens \subseteq tokens'
<1>1. CASE run_watch \/ convert_sso_to_product \/ convert_accounts
  BY <1>1 DEF run_watch, convert_sso_to_product, convert_accounts, textFiles
<1>2. ASSUME NEW c \in Converters,
             \/ migrate_from_accounts_txt(c) \/ Index(c) \/ EnterPool(c)
             \/ Report(c) \/ Die(c)
      PROVE  UNCHANGED <<logged, relogin>> /\ tokens \subseteq tokens'
  BY <1>2 DEF migrate_from_accounts_txt, MoveToken, Index, EnterPool, Report, Die,
              textFiles
<1>3. ASSUME NEW c \in Converters, NEW u \in Users, ConverterStep(c, u)
      PROVE  UNCHANGED <<logged, relogin>> /\ tokens \subseteq tokens'
  BY <1>3 DEF ConverterStep, convert_oauth_copy, TakeUp, Enroll, Requeue, OpenSpare,
              Fill, Rename, WriteFails, _atomic_write_private_json, textFiles
<1> QED
  BY <1>1, <1>2, <1>3 DEF Converts

LEMMA RegistersLogged ==
  ASSUME LoggedInv, RegistersOrLogsIn
  PROVE  LoggedInv'
<1> USE DEF LoggedInv
<1>1. ASSUME NEW u \in Users,
             SaveToken(u) \/ SavePassword(u) \/ SaveSession(u) \/ SaveRawLine(u)
      PROVE  LoggedInv'
  BY <1>1 DEF SaveToken, SavePassword, SaveSession, SaveRawLine
<1>2. ASSUME NEW u \in Users, login_once(u) PROVE LoggedInv'
  <2>1. PICK got \in {relogin.got, relogin.got \cup {u}},
             place \in {"passwords", "login"} :
          relogin' = [relogin EXCEPT !.batch = @ \ {u}, !.got = got, !.at = place]
    BY <1>2 DEF login_once
  <2> QED
    BY <1>2, <2>1 DEF login_once, textFiles
<1>3. CASE relogin_batch
  BY <1>3 DEF relogin_batch, textFiles, ToMigrate
<1>4. CASE load_accounts
  BY <1>4 DEF load_accounts, MoveToken
<1>5. CASE write_back
  <2>1. CASE /\ relogin.at = "passwords"
             /\ relogin' = [relogin EXCEPT !.at = "tokens", !.move = relogin.got]
             /\ UNCHANGED <<tokens, logged>>
    BY <2>1
  <2>2. ASSUME NEW u \in relogin.move, relogin.at = "tokens",
               tokens' = tokens \cup {u},
               relogin' = [relogin EXCEPT !.move = @ \ {u}], UNCHANGED logged
        PROVE  LoggedInv'
    BY <2>2
  <2>3. CASE /\ relogin.at = "tokens" /\ relogin.move = {}
             /\ logged' = logged \cup relogin.got
             /\ relogin' = [relogin EXCEPT !.at = "rest", !.got = {}]
             /\ UNCHANGED tokens
    BY <2>3
  <2> QED
    BY <1>5, <2>1, <2>2, <2>3 DEF write_back
<1>6. CASE ReloginDies
  BY <1>6 DEF ReloginDies, textFiles
<1> QED
  BY <1>1, <1>2, <1>3, <1>4, <1>5, <1>6 DEF RegistersOrLogsIn

LEMMA LoggedStep == LoggedInv /\ [ConversionNext]_conversionVars => LoggedInv'
<1> SUFFICES ASSUME LoggedInv, [ConversionNext]_conversionVars PROVE LoggedInv'
  OBVIOUS
<1>1. CASE UNCHANGED conversionVars
  BY <1>1 DEF conversionVars, LoggedInv
<1>2. CASE Converts
  BY <1>2, ConvertsLogged DEF LoggedInv
<1>3. CASE RegistersOrLogsIn
  BY <1>3, RegistersLogged
<1> QED
  BY <1>1, <1>2, <1>3 DEF ConversionNext

\* sso/auth_service.py against the Go worker: when run_watch counts no
\* pending account the worker would find none either, for any accounts and
\* whatever conversions, registrations, re-logins and deaths overlapped.
THEOREM WatchComplete == ConversionSpec => []WatchSees
<1>1. LoggedInv => WatchSees
  <2> SUFFICES ASSUME LoggedInv, list_pending_sso = {} PROVE PendingTargets = {}
    BY DEF WatchSees
  <2>1. WithoutCpa = {} /\ scan_pending = {}
    BY DEF list_pending_sso
  <2>2. \A u \in tokens : HasProduct(u)
    BY <2>1 DEF WithoutCpa, HasProduct, Kinds
  <2>3. \A u \in WithToken : u \in tokens \/ (u \in Users /\ vault[u] = "token")
    BY DEF WithToken, LoggedInv
  <2>4. {u \in WithToken : ~HasProduct(u)} = {}
    BY <2>1, <2>2, <2>3 DEF scan_pending
  <2> QED
    BY <2>1, <2>4 DEF PendingTargets
<1> QED
  BY <1>1, LoggedInit, LoggedStep, PTL DEF ConversionSpec

----------------------------------------------------------------------------
\* The pool of the conversion

\* An account in a conversion: it has a file open, under some name, just
\* while it fills and renames one, and it is put back only with a try left.
TaskState ==
  {t \in [at : {"none", "todo", "queued", "request", "open", "fill", "rename",
                "requeue", "done"},
          left : SUBSET Kinds, where : {"none", "spare", "product", "lost"},
          wrote : BOOLEAN, tries : 0 .. Retry] :
     /\ t.at \in {"fill", "rename"} <=> t.where # "none"
     /\ t.at \in {"open", "fill", "rename"} => t.left # {}
     /\ t.at = "requeue" => t.tries < Retry}

JobState ==
  [at : {"rest", "migrate", "index", "copy", "pool", "report"},
   engine : {"go", "python"}, want : (SUBSET Kinds) \ {{}}, enroll : BOOLEAN,
   pending : BOOLEAN, cpa : SUBSET Users, sub2api : SUBSET Users,
   token : SUBSET Users, owed : 0 .. Cardinality(Users), move : SUBSET Users]

FileState == [Files -> {"none", "torn", "whole"}]

ConverterTypes ==
  /\ job \in [Converters -> JobState]
  /\ task \in [Converters -> [Users -> TaskState]]
  /\ product \in FileState /\ spare \in FileState

\* The accounts that a conversion has to settle.
InPool(c) == {u \in Users : task[c][u].at \in Working \cup {"queued"}}

\* PoolAccounted is inductive with this.
PoolKnown(c) ==
  /\ job[c].at = "pool" => /\ job[c].owed = Cardinality(InPool(c))
                           /\ Cardinality(AtWork(c)) <= Enrollers
  /\ job[c].at # "pool" => job[c].owed = 0
  /\ job[c].at \notin {"copy", "pool"} => InPool(c) = {}

PoolInv == ConverterTypes /\ \A c \in Converters : PoolKnown(c)

LEMMA TaskInit == NoTask \in TaskState /\ AtRest \in JobState
<1>1. 0 \in 0 .. Retry /\ 0 \in 0 .. Cardinality(Users)
  BY ConversionAssumption, FS_CardinalityType
<1>2. NoTask \in TaskState
  <2>1. /\ NoTask.at = "none" /\ NoTask.where = "none"
        /\ NoTask \in [at : {"none"}, left : SUBSET Kinds, where : {"none"},
                       wrote : BOOLEAN, tries : 0 .. Retry]
    BY <1>1 DEF NoTask
  <2> QED
    BY <2>1 DEF TaskState
<1>3. {"cpa"} \in (SUBSET Kinds) \ {{}}
  BY DEF Kinds
<1>4. AtRest \in JobState
  BY <1>1, <1>3 DEF AtRest, JobState
<1> QED
  BY <1>2, <1>4

LEMMA PoolFinite ==
  ASSUME NEW c
  PROVE  /\ IsFiniteSet(InPool(c)) /\ IsFiniteSet(AtWork(c))
         /\ Cardinality(InPool(c)) \in 0 .. Cardinality(Users)
         /\ Cardinality(AtWork(c)) \in Nat
         /\ InPool(c) = AtWork(c) \cup Tasks(c, "queued")
         /\ Cardinality(Users) \in Nat
<1>1. InPool(c) \subseteq Users /\ AtWork(c) \subseteq Users
  BY DEF InPool, AtWork
<1>2. InPool(c) = AtWork(c) \cup Tasks(c, "queued")
  BY DEF InPool, AtWork, Tasks
<1>3. /\ IsFiniteSet(InPool(c)) /\ IsFiniteSet(AtWork(c))
      /\ Cardinality(InPool(c)) =< Cardinality(Users)
  BY <1>1, FS_Subset, ConversionAssumption
<1> QED
  BY <1>2, <1>3, FS_CardinalityType, ConversionAssumption

LEMMA PoolInit == ConversionInit => PoolInv
<1> SUFFICES ASSUME ConversionInit PROVE PoolInv
  OBVIOUS
<1>1. ConverterTypes
  BY TaskInit DEF ConversionInit, ConverterTypes, FileState
<1>2. ASSUME NEW c \in Converters PROVE PoolKnown(c)
  <2>1. job[c].at = "rest" /\ job[c].owed = 0
    BY DEF ConversionInit, AtRest
  <2>2. InPool(c) = {}
    BY DEF ConversionInit, InPool, NoTask, Working
  <2> QED
    BY <2>1, <2>2 DEF PoolKnown
<1> QED
  BY <1>1, <1>2 DEF PoolInv

\* A conversion whose own state stays has the same accounts to settle.
LEMMA PoolStays ==
  ASSUME NEW c \in Converters, PoolKnown(c), job'[c] = job[c],
         \A u \in Users : task'[c][u].at = task[c][u].at
  PROVE  PoolKnown(c)'
<1>1. InPool(c)' = InPool(c) /\ AtWork(c)' = AtWork(c)
  BY DEF InPool, AtWork
<1> QED
  BY <1>1 DEF PoolKnown

\* What a step of one conversion with one account does to the two.
SameElsewhere(c, u) ==
  /\ \A d \in Converters, v \in Users :
       d # c \/ v # u => task'[d][v].at = task[d][v].at
  /\ \A d \in Converters : d # c => job'[d] = job[d]
  /\ job'[c].at = job[c].at

Settled(c, u) ==
  \/ /\ job[c].at = "copy" /\ job'[c].owed = job[c].owed
  \/ /\ job[c].at = "pool" /\ task[c][u].at = "queued"
     /\ Cardinality(AtWork(c)) < Enrollers
     /\ task'[c][u].at \in Working /\ job'[c].owed = job[c].owed
  \/ /\ task[c][u].at \in Working
     /\ task'[c][u].at \in Working \cup {"queued"} /\ job'[c].owed = job[c].owed
  \/ /\ task[c][u].at \in Working
     /\ task'[c][u].at = "done" /\ job'[c].owed = job[c].owed - Owes(c)

LEMMA SettledKnown ==
  ASSUME PoolInv, NEW c \in Converters, NEW u \in Users,
         SameElsewhere(c, u), Settled(c, u)
  PROVE  \A d \in Converters : PoolKnown(d)'
<1>1. ASSUME NEW d \in Converters, d # c PROVE PoolKnown(d)'
  BY <1>1, PoolStays DEF PoolInv, SameElsewhere
<1>2. PoolKnown(c)'
  <2> USE DEF PoolInv
  <2>1. /\ job'[c].at = job[c].at /\ PoolKnown(c)
        /\ \A v \in Users \ {u} : task'[c][v].at = task[c][v].at
    BY DEF SameElsewhere
  <2>2. job[c].owed \in Nat
    BY FS_CardinalityType, ConversionAssumption DEF ConverterTypes, JobState
  <2>3. CASE job[c].at = "copy" /\ job'[c].owed = job[c].owed
    BY <2>1, <2>3 DEF PoolKnown
  <2>4. CASE /\ job[c].at = "pool" /\ task[c][u].at = "queued"
             /\ Cardinality(AtWork(c)) < Enrollers
             /\ task'[c][u].at \in Working /\ job'[c].owed = job[c].owed
    <3>1. InPool(c)' = InPool(c) /\ AtWork(c)' = AtWork(c) \cup {u} /\ u \notin AtWork(c)
      BY <2>1, <2>4 DEF InPool, AtWork, Working
    <3>2. Cardinality(AtWork(c)') = Cardinality(AtWork(c)) + 1
      BY <3>1, PoolFinite, FS_AddElement
    <3>3. Cardinality(AtWork(c)') <= Enrollers
      BY <2>4, <3>2, PoolFinite, ConversionAssumption
    <3> QED
      BY <2>1, <2>4, <3>1, <3>3 DEF PoolKnown
  <2>5. CASE /\ task[c][u].at \in Working
             /\ task'[c][u].at \in Working \cup {"queued"} /\ job'[c].owed = job[c].owed
    <3>1. InPool(c)' = InPool(c) /\ AtWork(c)' \subseteq AtWork(c)
      BY <2>1, <2>5 DEF InPool, AtWork, Working
    <3>2. Cardinality(AtWork(c)') \in Nat /\ Cardinality(AtWork(c)') =< Cardinality(AtWork(c))
      BY <3>1, PoolFinite, FS_Subset, FS_CardinalityType
    <3>3. Cardinality(AtWork(c)) <= Enrollers => Cardinality(AtWork(c)') <= Enrollers
      BY <3>2, PoolFinite, ConversionAssumption
    <3> QED
      BY <2>1, <2>5, <3>1, <3>3 DEF PoolKnown
  <2>6. CASE /\ task[c][u].at \in Working
             /\ task'[c][u].at = "done" /\ job'[c].owed = job[c].owed - Owes(c)
    <3>1. /\ u \in InPool(c) /\ InPool(c)' = InPool(c) \ {u}
          /\ AtWork(c)' \subseteq AtWork(c)
      BY <2>1, <2>6 DEF InPool, AtWork, Working
    <3>2. Cardinality(InPool(c)') = Cardinality(InPool(c)) - 1
      BY <3>1, PoolFinite, FS_RemoveElement
    <3>3. Cardinality(AtWork(c)') \in Nat /\ Cardinality(AtWork(c)') =< Cardinality(AtWork(c))
      BY <3>1, PoolFinite, FS_Subset, FS_CardinalityType
    <3>4. Cardinality(AtWork(c)) <= Enrollers => Cardinality(AtWork(c)') <= Enrollers
      BY <3>3, PoolFinite, ConversionAssumption
    <3>5. CASE job[c].at = "pool"
      BY <2>1, <2>6, <3>2, <3>4, <3>5 DEF PoolKnown, Owes
    <3>6. CASE job[c].at # "pool"
      <4>1. job'[c].owed = job[c].owed - 0
        BY <2>6, <3>6 DEF Owes
      <4>2. InPool(c) # {}
        BY <3>1
      <4> QED
        BY <2>1, <2>2, <3>6, <4>1, <4>2 DEF PoolKnown
    <3> QED
      BY <3>5, <3>6
  <2> QED
    BY <2>3, <2>4, <2>5, <2>6 DEF Settled
<1> QED
  BY <1>1, <1>2

\* A step of one conversion with one account, once its kind is known.
LEMMA AccountStep ==
  ASSUME PoolInv, NEW c \in Converters, NEW u \in Users,
         SameElsewhere(c, u), Settled(c, u), ConverterTypes'
  PROVE  PoolInv'
BY SettledKnown DEF PoolInv

\* Putting one account somewhere else.
LEMMA PutsElsewhere ==
  ASSUME ConverterTypes, NEW c \in Converters, NEW u \in Users,
         NEW t \in TaskState, task' = [task EXCEPT ![c][u] = t], job' = job
  PROVE  /\ task' \in [Converters -> [Users -> TaskState]]
         /\ task'[c][u] = t /\ SameElsewhere(c, u)
BY DEF ConverterTypes, SameElsewhere

\* What is owed goes down by one where an account of the pool ends.
LEMMA OwedLess ==
  ASSUME PoolInv, NEW c \in Converters, NEW u \in Users,
         task[c][u].at \in Working,
         job' = [job EXCEPT ![c].owed = @ - Owes(c)]
  PROVE  /\ job' \in [Converters -> JobState]
         /\ job'[c].at = job[c].at /\ job'[c].owed = job[c].owed - Owes(c)
         /\ \A d \in Converters : d # c => job'[d] = job[d]
<1>1. job[c].owed - Owes(c) \in 0 .. Cardinality(Users)
  <2>1. u \in InPool(c)
    BY DEF InPool
  <2>2. Cardinality(InPool(c)) # 0
    BY <2>1, PoolFinite, FS_EmptySet
  <2>3. job[c].owed \in 0 .. Cardinality(Users)
    BY DEF PoolInv, ConverterTypes, JobState
  <2>4. job[c].at = "pool" => job[c].owed # 0
    BY <2>2 DEF PoolInv, PoolKnown
  <2>5. Owes(c) = IF job[c].at = "pool" THEN 1 ELSE 0
    BY DEF Owes
  <2> QED
    BY <2>3, <2>4, <2>5, PoolFinite
<1>2. job \in [Converters -> JobState]
  BY DEF PoolInv, ConverterTypes
<1> DEFINE o == job[c].owed - Owes(c)
<1>3. job' = [job EXCEPT ![c].owed = o] /\ o \in 0 .. Cardinality(Users)
  BY <1>1
<1> HIDE DEF o
<1>4. [job[c] EXCEPT !.owed = o] \in JobState
  BY <1>2, <1>3 DEF JobState
<1>5. job[c] \in JobState
  BY <1>2
<1>6. /\ [job[c] EXCEPT !.owed = o].at = job[c].at
      /\ [job[c] EXCEPT !.owed = o].owed = o
  BY <1>5 DEF JobState
<1>7. job' = [job EXCEPT ![c] = [job[c] EXCEPT !.owed = o]]
  BY <1>2, <1>3
<1> QED
  BY <1>2, <1>4, <1>6, <1>7 DEF o

LEMMA EndsKind ==
  ASSUME PoolInv, NEW c \in Converters, NEW u \in Users, Ends(c, u),
         task[c][u].at \in Working
  PROVE  /\ task' \in [Converters -> [Users -> TaskState]]
         /\ job' \in [Converters -> JobState]
         /\ SameElsewhere(c, u) /\ Settled(c, u)
<1>1. /\ task' = [task EXCEPT ![c][u] = [NoTask EXCEPT !.at = "done"]]
      /\ job' = [job EXCEPT ![c].owed = @ - Owes(c)]
  BY DEF Ends
<1>2. [NoTask EXCEPT !.at = "done"] \in TaskState
      /\ [NoTask EXCEPT !.at = "done"].at = "done"
  BY TaskInit DEF NoTask, TaskState
<1>3. /\ task' \in [Converters -> [Users -> TaskState]]
      /\ task'[c][u].at = "done"
      /\ \A d \in Converters, v \in Users :
           d # c \/ v # u => task'[d][v].at = task[d][v].at
  BY <1>1, <1>2 DEF PoolInv, ConverterTypes
<1> QED
  BY <1>1, <1>3, OwedLess DEF SameElsewhere, Settled

LEMMA FailsKind ==
  ASSUME PoolInv, NEW c \in Converters, NEW u \in Users, NEW passing,
         Fails(c, u, passing), task[c][u].at \in Working
  PROVE  /\ task' \in [Converters -> [Users -> TaskState]]
         /\ job' \in [Converters -> JobState]
         /\ SameElsewhere(c, u) /\ Settled(c, u)
<1>1. CASE passing /\ job[c].at = "pool" /\ task[c][u].tries < Retry
  <2> DEFINE t == [NoTask EXCEPT !.at = "requeue", !.tries = task[c][u].tries]
  <2>1. task' = [task EXCEPT ![c][u] = t] /\ job' = job
    BY <1>1 DEF Fails
  <2>2. task[c][u].tries \in 0 .. Retry
    BY DEF TaskState, PoolInv, ConverterTypes
  <2>3. /\ t.at = "requeue" /\ t.where = "none" /\ t.tries < Retry
        /\ t \in [at : {"requeue"}, left : SUBSET Kinds, where : {"none"},
                  wrote : BOOLEAN, tries : 0 .. Retry]
    BY <1>1, <2>2 DEF NoTask
  <2>4. t \in TaskState /\ t.at = "requeue"
    BY <2>3 DEF TaskState
  <2> QED
    BY <2>1, <2>4, PutsElsewhere DEF PoolInv, ConverterTypes, Settled, Working
<1>2. CASE ~(passing /\ job[c].at = "pool" /\ task[c][u].tries < Retry)
  BY <1>2, EndsKind DEF Fails
<1> QED
  BY <1>1, <1>2

\* A rename changes under which name others have the file open, no more.
LEMMA MovedShape ==
  ASSUME ConverterTypes, NEW f, NEW renamed \in BOOLEAN
  PROVE  /\ Moved(f, renamed) \in [Converters -> [Users -> TaskState]]
         /\ \A d \in Converters, v \in Users :
              /\ Moved(f, renamed)[d][v].at = task[d][v].at
              /\ Moved(f, renamed)[d][v].left = task[d][v].left
<1>1. ASSUME NEW d \in Converters, NEW v \in Users
      PROVE  /\ Moved(f, renamed)[d][v] \in TaskState
             /\ Moved(f, renamed)[d][v].at = task[d][v].at
             /\ Moved(f, renamed)[d][v].left = task[d][v].left
  <2> DEFINE t == task[d][v]
  <2>1. t \in TaskState
    BY DEF ConverterTypes
  <2>2. \/ Moved(f, renamed)[d][v] = t
        \/ /\ t.where = "product"
           /\ Moved(f, renamed)[d][v] = [t EXCEPT !.where = "lost"]
        \/ /\ t.where = "spare"
           /\ Moved(f, renamed)[d][v] = [t EXCEPT !.where = "product"]
    <3>1. Moved(f, renamed)[d][v] =
            IF task[d][v].left = {} \/ Current(d, v) # f THEN task[d][v]
            ELSE CASE task[d][v].where = "product" ->
                        [task[d][v] EXCEPT !.where = "lost"]
                   [] task[d][v].where = "spare" /\ renamed ->
                        [task[d][v] EXCEPT !.where = "product"]
                   [] OTHER -> task[d][v]
      BY DEF Moved
    <3> QED
      BY <3>1
  <2>3. \A w \in {"product", "lost"} : t.where # "none" =>
          /\ [t EXCEPT !.where = w] \in TaskState
          /\ [t EXCEPT !.where = w].at = t.at
          /\ [t EXCEPT !.where = w].left = t.left
    BY <2>1 DEF TaskState
  <2> QED
    BY <2>1, <2>2, <2>3
<1>2. Moved(f, renamed) = [d \in Converters |-> [v \in Users |-> Moved(f, renamed)[d][v]]]
  BY DEF Moved
<1> QED
  BY <1>1, <1>2

\* The account goes on to its next file.
Onward(t, left, wrote) ==
  [t EXCEPT !.at = "open", !.left = left, !.where = "none", !.wrote = wrote]

LEMMA OnwardTyped ==
  ASSUME NEW t \in TaskState, NEW left \in SUBSET Kinds, left # {},
         NEW wrote \in BOOLEAN
  PROVE  /\ Onward(t, left, wrote) \in TaskState
         /\ Onward(t, left, wrote).at = "open"
         /\ Onward(t, left, wrote).where = "none"
         /\ Onward(t, left, wrote).left = left
BY DEF TaskState, Onward

\* After a file the account goes on, ends, or is put back.
LEMMA NextKindKind ==
  ASSUME PoolInv, NEW c \in Converters, NEW u \in Users, NEW written \in BOOLEAN,
         NEW moved \in [Converters -> [Users -> TaskState]],
         \A d \in Converters, v \in Users : moved[d][v].at = task[d][v].at,
         task[c][u].at \in {"open", "fill", "rename"},
         NextKind(c, u, written, moved)
  PROVE  /\ task' \in [Converters -> [Users -> TaskState]]
         /\ job' \in [Converters -> JobState]
         /\ SameElsewhere(c, u) /\ Settled(c, u)
<1> DEFINE t == moved[c][u]
           left == t.left \ {Current(c, u)[2]}
           wrote == t.wrote \/ written
           on == written \/ job[c].at = "pool"
           next == Onward(t, left, wrote)
           done == [NoTask EXCEPT !.at = "done"]
<1>1. t \in TaskState /\ job \in [Converters -> JobState]
  BY DEF PoolInv, ConverterTypes
<1>2. CASE on /\ left # {} /\ task' = [moved EXCEPT ![c][u] = next] /\ job' = job
  <2>1. /\ left \in SUBSET Kinds /\ left # {} /\ wrote \in BOOLEAN
        /\ t \in TaskState
    BY <1>1, <1>2 DEF TaskState
  <2>2. next \in TaskState /\ next.at = "open"
    BY <2>1, OnwardTyped
  <2> HIDE DEF next
  <2> QED
    BY <1>1, <1>2, <2>2 DEF SameElsewhere, Settled, Working
<1>3. CASE /\ task' = [moved EXCEPT ![c][u] = done]
           /\ job' = [job EXCEPT ![c].owed = @ - Owes(c)]
  <2>1. task[c][u].at \in Working
    BY DEF Working
  <2>2. /\ done \in TaskState /\ done.at = "done"
    BY TaskInit DEF NoTask, TaskState
  <2> HIDE DEF done
  <2>3. /\ task' \in [Converters -> [Users -> TaskState]] /\ task'[c][u].at = "done"
        /\ \A d \in Converters, v \in Users :
             d # c \/ v # u => task'[d][v].at = task[d][v].at
    BY <1>3, <2>2
  <2>4. /\ job' \in [Converters -> JobState]
        /\ job'[c].at = job[c].at /\ job'[c].owed = job[c].owed - Owes(c)
        /\ \A d \in Converters : d # c => job'[d] = job[d]
    BY <1>3, <2>1, OwedLess
  <2> QED
    BY <2>1, <2>3, <2>4 DEF SameElsewhere, Settled
<1>4. CASE Fails(c, u, TRUE)
  BY <1>4, FailsKind DEF Working
<1> QED
  BY <1>2, <1>3, <1>4 DEF NextKind, Onward

\* In the pool or before it only does a conversion have accounts in hand.
LEMMA ConverterStepPool ==
  ASSUME PoolInv, NEW c \in Converters, NEW u \in Users, ConverterStep(c, u)
  PROVE  PoolInv'
<1> DEFINE t == task[c][u]
<1>1. /\ t \in TaskState /\ job \in [Converters -> JobState]
      /\ product \in FileState /\ spare \in FileState
      /\ task \in [Converters -> [Users -> TaskState]]
  BY DEF PoolInv, ConverterTypes
<1>0. ConverterTypes
  BY DEF PoolInv
<1>2. Current(c, u) \in Files /\ job[c].want \in SUBSET Kinds /\ job[c].want # {}
  BY <1>1 DEF Current, Files, Kinds, JobState
<1>3. CASE convert_oauth_copy(c, u)
  <2>1. PICK s \in TaskState : task' = [task EXCEPT ![c][u] = s]
    <3>1. CASE \E at \in {"done", "queued", "request"} : Puts(c, u, at)
      <4>1. PICK at \in {"done", "queued", "request"} : Puts(c, u, at)
        BY <3>1
      <4>2. [t EXCEPT !.at = at] \in TaskState
        BY <1>1, <1>3 DEF TaskState, convert_oauth_copy
      <4> QED
        BY <4>1, <4>2, <1>1 DEF Puts
    <3>2. CASE /\ Missing(c, u) # {}
               /\ task' = [task EXCEPT ![c][u].at = "open", ![c][u].left = Missing(c, u)]
      <4>1. Missing(c, u) \in SUBSET Kinds
        BY <1>2 DEF Missing
      <4>2. [t EXCEPT !.at = "open", !.left = Missing(c, u)] \in TaskState
        BY <1>1, <1>3, <3>2, <4>1 DEF TaskState, convert_oauth_copy
      <4>3. task' = [task EXCEPT ![c][u] = [t EXCEPT !.at = "open", !.left = Missing(c, u)]]
        BY <1>1, <3>2
      <4> QED
        BY <4>2, <4>3
    <3> QED
      BY <1>3, <3>1, <3>2 DEF convert_oauth_copy
  <2>2. job' = job /\ job[c].at = "copy" /\ UNCHANGED <<product, spare>>
    BY <1>3 DEF convert_oauth_copy
  <2>3. SameElsewhere(c, u) /\ Settled(c, u) /\ ConverterTypes'
    BY <1>1, <2>1, <2>2, PutsElsewhere DEF Settled, ConverterTypes
  <2> QED
    BY <2>3, AccountStep
<1>4. CASE TakeUp(c, u)
  <2>1. /\ job[c].at = "pool" /\ t.at = "queued" /\ Cardinality(AtWork(c)) < Enrollers
        /\ job' = job /\ UNCHANGED <<product, spare>>
        /\ task' = [task EXCEPT ![c][u].at = "request"]
    BY <1>4 DEF TakeUp, Puts
  <2>2. [t EXCEPT !.at = "request"] \in TaskState /\ [t EXCEPT !.at = "request"].at = "request"
    BY <1>1, <2>1 DEF TaskState
  <2>3. task' = [task EXCEPT ![c][u] = [t EXCEPT !.at = "request"]] /\ job' = job
    BY <1>1, <2>1
  <2>5. /\ task' \in [Converters -> [Users -> TaskState]]
        /\ task'[c][u].at = "request" /\ SameElsewhere(c, u)
    BY <1>0, <2>2, <2>3, PutsElsewhere
  <2>4. /\ SameElsewhere(c, u) /\ ConverterTypes'
        /\ task'[c][u].at = "request"
    BY <1>1, <2>1, <2>5 DEF ConverterTypes
  <2> QED
    BY <2>1, <2>4, AccountStep DEF Settled, Working
<1>5. CASE Enroll(c, u)
  <2>1. /\ t.at = "request" /\ t.at \in Working /\ UNCHANGED <<product, spare>>
    BY <1>5 DEF Enroll, Working
  <2>2. CASE /\ task' = [task EXCEPT ![c][u].at = "open", ![c][u].left = job[c].want]
             /\ UNCHANGED job
    <3>1. /\ [t EXCEPT !.at = "open", !.left = job[c].want] \in TaskState
          /\ [t EXCEPT !.at = "open", !.left = job[c].want].at = "open"
      BY <1>1, <1>2, <2>1 DEF TaskState
    <3>2. /\ task' = [task EXCEPT ![c][u] = [t EXCEPT !.at = "open", !.left = job[c].want]]
          /\ job' = job
      BY <1>1, <2>2
    <3>4. /\ task' \in [Converters -> [Users -> TaskState]]
          /\ task'[c][u].at = "open" /\ SameElsewhere(c, u)
      BY <1>0, <3>1, <3>2, PutsElsewhere
    <3>3. /\ SameElsewhere(c, u) /\ ConverterTypes' /\ task'[c][u].at = "open"
      BY <1>1, <2>1, <3>2, <3>4 DEF ConverterTypes
    <3> QED
      BY <2>1, <2>2, <3>3, AccountStep DEF Settled, Working
  <2>3. CASE Fails(c, u, TRUE) \/ Fails(c, u, FALSE)
    BY <1>1, <2>1, <2>3, FailsKind, AccountStep DEF ConverterTypes
  <2> QED
    BY <1>5, <2>2, <2>3 DEF Enroll
<1>6. CASE Requeue(c, u)
  <2> DEFINE s == [NoTask EXCEPT !.at = "queued", !.tries = task[c][u].tries + 1]
  <2>1. /\ t.at = "requeue" /\ job' = job /\ UNCHANGED <<product, spare>>
        /\ task' = [task EXCEPT ![c][u] = s]
    BY <1>6 DEF Requeue
  <2>2. t.tries + 1 \in 0 .. Retry
    BY <1>1, <2>1, ConversionAssumption DEF TaskState
  <2>3. /\ s.at = "queued" /\ s.where = "none"
        /\ s \in [at : {"queued"}, left : SUBSET Kinds, where : {"none"},
                  wrote : BOOLEAN, tries : 0 .. Retry]
    BY <2>2 DEF NoTask
  <2>4. s \in TaskState
    BY <2>3 DEF TaskState
  <2> HIDE DEF s
  <2>5. SameElsewhere(c, u) /\ ConverterTypes' /\ task'[c][u].at = "queued"
    BY <1>1, <2>1, <2>3, <2>4, PutsElsewhere DEF ConverterTypes
  <2> QED
    BY <2>1, <2>5, AccountStep DEF Settled, Working
<1>7. CASE OpenSpare(c, u)
  <2> DEFINE s == [t EXCEPT !.at = "fill", !.where = "spare"]
  <2>1. /\ t.at = "open" /\ job' = job /\ product' = product
        /\ task' = [task EXCEPT ![c][u].at = "fill", ![c][u].where = "spare"]
        /\ spare' = [spare EXCEPT ![Current(c, u)] = "torn"]
    BY <1>7 DEF OpenSpare
  <2>2. s \in TaskState /\ s.at = "fill"
    BY <1>1, <2>1 DEF TaskState
  <2>3. task' = [task EXCEPT ![c][u] = s] /\ job' = job
    BY <1>1, <2>1
  <2>5. spare' \in FileState
    BY <1>1, <1>2, <2>1 DEF FileState
  <2> HIDE DEF s
  <2>6. /\ task' \in [Converters -> [Users -> TaskState]]
        /\ task'[c][u].at = "fill" /\ SameElsewhere(c, u)
    BY <1>0, <2>2, <2>3, PutsElsewhere
  <2>4. SameElsewhere(c, u) /\ ConverterTypes' /\ task'[c][u].at = "fill"
    BY <1>1, <2>1, <2>5, <2>6 DEF ConverterTypes
  <2> QED
    BY <2>1, <2>4, AccountStep DEF Settled, Working
<1>8. CASE Fill(c, u)
  <2> DEFINE s == [t EXCEPT !.at = "rename"]
  <2>1. /\ t.at = "fill" /\ job' = job
        /\ task' = [task EXCEPT ![c][u].at = "rename"]
    BY <1>8 DEF Fill, Puts
  <2>2. s \in TaskState /\ s.at = "rename"
    BY <1>1, <2>1 DEF TaskState
  <2>3. task' = [task EXCEPT ![c][u] = s] /\ job' = job
    BY <1>1, <2>1
  <2>4. product' \in FileState /\ spare' \in FileState
    BY <1>1, <1>2, <1>8 DEF Fill, Filled, FileState
  <2> HIDE DEF s
  <2>6. /\ task' \in [Converters -> [Users -> TaskState]]
        /\ task'[c][u].at = "rename" /\ SameElsewhere(c, u)
    BY <1>0, <2>2, <2>3, PutsElsewhere
  <2>5. SameElsewhere(c, u) /\ ConverterTypes' /\ task'[c][u].at = "rename"
    BY <1>1, <2>1, <2>4, <2>6 DEF ConverterTypes
  <2> QED
    BY <2>1, <2>5, AccountStep DEF Settled, Working
<1>9. CASE Rename(c, u) \/ _atomic_write_private_json(c, u)
  <2>1. /\ t.at \in {"open", "rename"}
        /\ \E renamed \in BOOLEAN : NextKind(c, u, TRUE, Moved(Current(c, u), renamed))
    BY <1>9 DEF Rename, _atomic_write_private_json
  <2>2. product' \in FileState /\ spare' \in FileState
    BY <1>1, <1>2, <1>9 DEF Rename, _atomic_write_private_json, FileState
  <2>3. PICK renamed \in BOOLEAN : NextKind(c, u, TRUE, Moved(Current(c, u), renamed))
    BY <2>1
  <2>4. /\ task' \in [Converters -> [Users -> TaskState]]
        /\ job' \in [Converters -> JobState]
        /\ SameElsewhere(c, u) /\ Settled(c, u)
    <3>1. /\ Moved(Current(c, u), renamed) \in [Converters -> [Users -> TaskState]]
          /\ \A d \in Converters, v \in Users :
               Moved(Current(c, u), renamed)[d][v].at = task[d][v].at
      BY <1>0, MovedShape
    <3>2. TRUE \in BOOLEAN /\ task[c][u].at \in {"open", "fill", "rename"}
      BY <2>1
    <3> QED
      BY <2>3, <3>1, <3>2, NextKindKind
  <2> QED
    BY <2>2, <2>4, AccountStep DEF ConverterTypes
<1>10. CASE WriteFails(c, u)
  <2>1. /\ t.at \in {"open", "fill", "rename"} /\ UNCHANGED <<product, spare>>
        /\ NextKind(c, u, FALSE, task)
    BY <1>10 DEF WriteFails
  <2>2. /\ task' \in [Converters -> [Users -> TaskState]]
        /\ job' \in [Converters -> JobState]
        /\ SameElsewhere(c, u) /\ Settled(c, u)
    BY <1>1, <2>1, NextKindKind
  <2> QED
    BY <1>1, <2>1, <2>2, AccountStep DEF ConverterTypes
<1> QED
  BY <1>3, <1>4, <1>5, <1>6, <1>7, <1>8, <1>9, <1>10 DEF ConverterStep

TextTypes ==
  /\ tokens \subseteq Users /\ logged \subseteq Users
  /\ vault \in [Users -> {"none", "password", "token"}]

ConversionInv == TextTypes /\ LoggedInv /\ PoolInv

LEMMA TextStep ==
  ASSUME ConversionInv, ConversionNext
  PROVE  TextTypes'
<1> USE DEF TextTypes, LoggedInv
<1>1. TextTypes /\ LoggedInv /\ Cut \in [Users -> {"none", "password", "token"}]
  BY DEF ConversionInv, Cut
<1>2. CASE run_watch \/ convert_sso_to_product \/ convert_accounts
  BY <1>1, <1>2 DEF run_watch, convert_sso_to_product, convert_accounts, textFiles
<1>3. ASSUME NEW c \in Converters, migrate_from_accounts_txt(c) PROVE TextTypes'
  <2>1. job[c].move \subseteq Users
    BY DEF ConversionInv, PoolInv, ConverterTypes, JobState
  <2> QED
    BY <1>1, <1>3, <2>1 DEF migrate_from_accounts_txt, MoveToken
<1>4. ASSUME NEW c \in Converters, Index(c) \/ EnterPool(c) \/ Report(c) \/ Die(c)
      PROVE  TextTypes'
  BY <1>1, <1>4 DEF Index, EnterPool, Report, Die, textFiles
<1>5. ASSUME NEW c \in Converters, NEW u \in Users, ConverterStep(c, u)
      PROVE  TextTypes'
  BY <1>1, <1>5 DEF ConverterStep, convert_oauth_copy, TakeUp, Enroll, Requeue,
     OpenSpare, Fill, Rename, WriteFails, _atomic_write_private_json, textFiles
<1>6. ASSUME NEW u \in Users,
             \/ SaveToken(u) \/ SavePassword(u) \/ SaveSession(u)
             \/ SaveRawLine(u) \/ login_once(u)
      PROVE  TextTypes'
  BY <1>1, <1>6 DEF SaveToken, SavePassword, SaveSession, SaveRawLine, login_once,
     textFiles
<1>7. CASE relogin_batch \/ load_accounts \/ write_back \/ ReloginDies
  <2>1. relogin.move \subseteq Users /\ relogin.got \subseteq Users
    BY <1>1
  <2>2. CASE load_accounts
    BY <1>1, <2>1, <2>2 DEF load_accounts, MoveToken
  <2>3. CASE write_back
    BY <1>1, <2>1, <2>3 DEF write_back
  <2>4. CASE relogin_batch \/ ReloginDies
    BY <1>1, <2>4 DEF relogin_batch, ReloginDies, textFiles
  <2> QED
    BY <1>7, <2>2, <2>3, <2>4
<1> QED
  BY <1>2, <1>3, <1>4, <1>5, <1>6, <1>7
  DEF ConversionNext, Converts, RegistersOrLogsIn

\* One conversion begins, enters its pool or ends; the other goes on.
LEMMA ConversionMoves ==
  ASSUME PoolInv, NEW c \in Converters, NEW j \in JobState,
         NEW k \in [Users -> TaskState],
         job' = [job EXCEPT ![c] = j], task' = [task EXCEPT ![c] = k],
         UNCHANGED <<product, spare>>, PoolKnown(c)'
  PROVE  PoolInv'
<1>1. ConverterTypes'
  BY DEF PoolInv, ConverterTypes
<1>2. ASSUME NEW d \in Converters, d # c PROVE PoolKnown(d)'
  BY <1>2, PoolStays DEF PoolInv, ConverterTypes
<1> QED
  BY <1>1, <1>2 DEF PoolInv

\* A conversion at rest, or not yet with its accounts, owes nothing.
LEMMA Unburdened ==
  ASSUME NEW c \in Converters, job'[c].at \in {"rest", "migrate", "index"},
         job'[c].owed = 0, \A u \in Users : task'[c][u].at \notin Working \cup {"queued"}
  PROVE  PoolKnown(c)'
<1>1. InPool(c)' = {}
  BY DEF InPool
<1> QED
  BY <1>1 DEF PoolKnown

LEMMA BeginsPool ==
  ASSUME ConversionInv,
         \/ run_watch \/ convert_sso_to_product \/ convert_accounts
         \/ \E c \in Converters : migrate_from_accounts_txt(c)
  PROVE  PoolInv'
<1>1. job \in [Converters -> JobState] /\ task \in [Converters -> [Users -> TaskState]]
  BY DEF ConversionInv, PoolInv, ConverterTypes
<1>2. ToMigrate \subseteq Users
  BY DEF ToMigrate
<1>3. /\ UNCHANGED <<task, product, spare>>
      /\ \E c \in Converters, j \in JobState :
           /\ job' = [job EXCEPT ![c] = j] /\ j.at \in {"rest", "migrate", "index"}
           /\ job[c].at \in {"rest", "migrate"} /\ (j.owed = 0 \/ j.owed = job[c].owed)
  <2>1. CASE run_watch
    <3>1. [AtRest EXCEPT !.at = "migrate", !.move = ToMigrate] \in JobState
          /\ [AtRest EXCEPT !.at = "index"] \in JobState
      BY <1>2, TaskInit DEF AtRest, JobState
    <3> QED
      BY <2>1, <3>1 DEF run_watch, AtRest, Converters
  <2>2. CASE convert_sso_to_product
    <3>1. PICK want \in (SUBSET Kinds) \ {{}}, enroll \in BOOLEAN :
            job' = [job EXCEPT !["job"] = [AtRest EXCEPT
              !.at = "migrate", !.want = want, !.enroll = enroll, !.move = ToMigrate]]
      BY <2>2 DEF convert_sso_to_product
    <3>2. [AtRest EXCEPT !.at = "migrate", !.want = want, !.enroll = enroll,
                         !.move = ToMigrate] \in JobState
      BY <1>2, TaskInit DEF AtRest, JobState
    <3> QED
      BY <2>2, <3>1, <3>2 DEF convert_sso_to_product, AtRest, Converters
  <2>3. CASE convert_accounts
    <3>1. PICK want \in (SUBSET Kinds) \ {{}}, e \in {"go", "python"},
               enroll \in BOOLEAN, pending \in BOOLEAN :
            job' = [job EXCEPT !["job"] = [AtRest EXCEPT
              !.at = "index", !.want = want, !.engine = e,
              !.enroll = enroll, !.pending = pending]]
      BY <2>3 DEF convert_accounts
    <3>2. [AtRest EXCEPT !.at = "index", !.want = want, !.engine = e,
                         !.enroll = enroll, !.pending = pending] \in JobState
      BY TaskInit DEF AtRest, JobState
    <3> QED
      BY <2>3, <3>1, <3>2 DEF convert_accounts, AtRest, Converters
  <2>4. ASSUME NEW c \in Converters, migrate_from_accounts_txt(c)
        PROVE  /\ UNCHANGED <<task, product, spare>>
               /\ \E j \in JobState :
                    /\ job' = [job EXCEPT ![c] = j] /\ j.at \in {"rest", "migrate", "index"}
                    /\ job[c].at = "migrate" /\ j.owed = job[c].owed
    <3>1. job[c] \in JobState /\ UNCHANGED <<task, product, spare>> /\ job[c].at = "migrate"
      BY <1>1, <2>4 DEF migrate_from_accounts_txt
    <3>2. CASE job' = [job EXCEPT ![c].at = IF c = "service" THEN "rest" ELSE "index"]
      <4> DEFINE at == IF c = "service" THEN "rest" ELSE "index"
                 j == [job[c] EXCEPT !.at = at]
      <4>1. at \in {"rest", "index"}
        OBVIOUS
      <4>2. job' = [job EXCEPT ![c] = j]
        BY <1>1, <3>2
      <4> HIDE DEF at
      <4>3. j \in JobState /\ j.at = at /\ j.owed = job[c].owed
        BY <3>1, <4>1 DEF JobState
      <4> QED
        BY <3>1, <4>1, <4>2, <4>3
    <3>3. ASSUME NEW u \in job[c].move, job' = [job EXCEPT ![c].move = @ \ {u}]
          PROVE  \E j \in JobState :
                   /\ job' = [job EXCEPT ![c] = j] /\ j.at = "migrate"
                   /\ j.owed = job[c].owed
      <4> DEFINE j == [job[c] EXCEPT !.move = @ \ {u}]
      <4>1. job' = [job EXCEPT ![c] = j]
        BY <1>1, <3>3
      <4>2. j \in JobState /\ j.at = "migrate" /\ j.owed = job[c].owed
        BY <3>1 DEF JobState
      <4> QED
        BY <4>1, <4>2
    <3> QED
      BY <2>4, <3>1, <3>2, <3>3 DEF migrate_from_accounts_txt
  <2> QED
    BY <2>1, <2>2, <2>3, <2>4
<1>4. PICK c \in Converters, j \in JobState :
        /\ job' = [job EXCEPT ![c] = j] /\ j.at \in {"rest", "migrate", "index"}
        /\ job[c].at \in {"rest", "migrate"} /\ (j.owed = 0 \/ j.owed = job[c].owed)
  BY <1>3
<1>5. /\ PoolInv /\ PoolKnown(c) /\ InPool(c) = {} /\ job[c].owed = 0
  BY <1>4 DEF ConversionInv, PoolInv, PoolKnown
<1>6. \A u \in Users : task'[c][u].at \notin Working \cup {"queued"}
  BY <1>3, <1>5 DEF InPool
<1>7. PoolKnown(c)'
  BY <1>1, <1>4, <1>5, <1>6, Unburdened
<1>8. task[c] \in [Users -> TaskState] /\ task' = [task EXCEPT ![c] = task[c]]
  BY <1>1, <1>3
<1> QED
  BY <1>3, <1>4, <1>5, <1>7, <1>8, ConversionMoves

LEMMA IndexPool ==
  ASSUME ConversionInv, NEW c \in Converters, Index(c)
  PROVE  PoolInv'
<1>1. job \in [Converters -> JobState] /\ task \in [Converters -> [Users -> TaskState]]
  BY DEF ConversionInv, PoolInv, ConverterTypes
<1>2. PICK chosen \in SUBSET Targets(c) :
        /\ job' = [job EXCEPT ![c].at = "copy", ![c].pending = TRUE,
             ![c].token = chosen \cap Tokens(c),
             ![c].cpa = {u \in chosen : Usable(u, "cpa")},
             ![c].sub2api = {u \in chosen : Usable(u, "sub2api")}]
        /\ task' = [task EXCEPT ![c] = [u \in Users |->
             IF u \in chosen THEN [NoTask EXCEPT !.at = "todo"] ELSE NoTask]]
  BY DEF Index
<1>3. chosen \subseteq Users
  BY DEF Targets, Known, PendingTargets, WithoutCpa, WithToken, scan_pending,
         ConversionInv, TextTypes
<1> DEFINE token == chosen \cap Tokens(c)
           cpa == {u \in chosen : Usable(u, "cpa")}
           sub2api == {u \in chosen : Usable(u, "sub2api")}
           j == [job[c] EXCEPT !.at = "copy", !.pending = TRUE, !.token = token,
                               !.cpa = cpa, !.sub2api = sub2api]
           k == [u \in Users |-> IF u \in chosen THEN [NoTask EXCEPT !.at = "todo"]
                                 ELSE NoTask]
<1>4. token \in SUBSET Users /\ cpa \in SUBSET Users /\ sub2api \in SUBSET Users
  BY <1>3
<1>5. job' = [job EXCEPT ![c] = j] /\ task' = [task EXCEPT ![c] = k]
  BY <1>1, <1>2
<1>6. [NoTask EXCEPT !.at = "todo"] \in TaskState
  BY TaskInit DEF NoTask, TaskState
<1>7. k \in [Users -> TaskState]
  BY <1>6, TaskInit
<1> HIDE DEF token, cpa, sub2api, k
<1>8. j \in JobState /\ j.at = "copy" /\ j.owed = job[c].owed
  BY <1>1, <1>4 DEF JobState
<1>9. job[c].at = "index" /\ UNCHANGED <<product, spare>> /\ PoolInv /\ PoolKnown(c)
  BY DEF Index, ConversionInv, PoolInv
<1> HIDE DEF j
<1>10. PoolKnown(c)'
  <2>1. job'[c] = j
    BY <1>1, <1>5
  <2> QED
    BY <1>8, <1>9, <2>1 DEF PoolKnown
<1> QED
  BY <1>5, <1>7, <1>8, <1>9, <1>10, ConversionMoves

LEMMA EnterPoolPool ==
  ASSUME ConversionInv, NEW c \in Converters, EnterPool(c)
  PROVE  PoolInv'
<1> DEFINE queued == Tasks(c, "queued")
           owed == Cardinality(queued)
           at == IF queued = {} THEN "report" ELSE "pool"
           j == [job[c] EXCEPT !.owed = owed, !.cpa = {}, !.sub2api = {}, !.at = at]
<1>1. /\ job \in [Converters -> JobState] /\ task \in [Converters -> [Users -> TaskState]]
      /\ PoolInv
  BY DEF ConversionInv, PoolInv, ConverterTypes
<1>2. /\ job' = [job EXCEPT ![c].owed = owed, ![c].cpa = {}, ![c].sub2api = {},
                            ![c].at = at]
      /\ AtWork(c) = {} /\ UNCHANGED <<task, product, spare>>
  BY DEF EnterPool
<1>3. InPool(c) = queued /\ owed \in 0 .. Cardinality(Users)
  BY <1>2, PoolFinite
<1>4. queued = {} => owed = 0
  BY FS_EmptySet
<1>5. at \in {"report", "pool"} /\ (at = "report" => queued = {})
  OBVIOUS
<1>6. job' = [job EXCEPT ![c] = j]
  BY <1>1, <1>2
<1> HIDE DEF queued, owed, at
<1>7. j \in JobState /\ j.at = at /\ j.owed = owed
  BY <1>1, <1>3, <1>5 DEF JobState
<1> HIDE DEF j
<1>8. job'[c] = j
  BY <1>1, <1>6
<1>9. InPool(c)' = InPool(c) /\ AtWork(c)' = AtWork(c)
  BY <1>2 DEF InPool, AtWork
<1>10. owed = Cardinality(InPool(c)) /\ Cardinality(AtWork(c)) = 0
  BY <1>2, <1>3, FS_EmptySet DEF owed
<1>11. PoolKnown(c)'
  BY <1>3, <1>4, <1>5, <1>7, <1>8, <1>9, <1>10, ConversionAssumption DEF PoolKnown
<1>12. task[c] \in [Users -> TaskState] /\ task' = [task EXCEPT ![c] = task[c]]
  BY <1>1, <1>2
<1> QED
  BY <1>1, <1>2, <1>6, <1>7, <1>11, <1>12, ConversionMoves

LEMMA EndsPool ==
  ASSUME ConversionInv, NEW c \in Converters, Report(c) \/ Die(c)
  PROVE  PoolInv'
<1> DEFINE k == [u \in Users |-> NoTask]
<1>1. /\ job \in [Converters -> JobState] /\ task \in [Converters -> [Users -> TaskState]]
      /\ PoolInv
  BY DEF ConversionInv, PoolInv, ConverterTypes
<1>2. /\ job' = [job EXCEPT ![c] = AtRest] /\ task' = [task EXCEPT ![c] = k]
      /\ UNCHANGED <<product, spare>>
  BY DEF Report, Die
<1>3. k \in [Users -> TaskState] /\ AtRest \in JobState
  BY TaskInit
<1>4. job'[c] = AtRest /\ task'[c] = k
  BY <1>1, <1>2
<1>5. PoolKnown(c)'
  BY <1>4, Unburdened DEF AtRest, NoTask, Working
<1> QED
  BY <1>1, <1>2, <1>3, <1>5, ConversionMoves

LEMMA ConversionStep ==
  ConversionInv /\ [ConversionNext]_conversionVars => ConversionInv'
<1> SUFFICES ASSUME ConversionInv, [ConversionNext]_conversionVars
             PROVE  ConversionInv'
  OBVIOUS
<1>1. LoggedInv'
  BY LoggedStep DEF ConversionInv
<1>2. CASE UNCHANGED conversionVars
  BY <1>1, <1>2 DEF conversionVars, ConversionInv, TextTypes, PoolInv,
                    ConverterTypes, PoolKnown, InPool, AtWork
<1>3. CASE ConversionNext
  <2>1. TextTypes'
    BY <1>3, TextStep
  <2>2. PoolInv'
    <3>1. CASE Converts
      <4>1. PoolInv
        BY DEF ConversionInv
      <4> QED
        BY <3>1, <4>1, BeginsPool, IndexPool, EnterPoolPool, EndsPool, ConverterStepPool
        DEF Converts
    <3>2. CASE RegistersOrLogsIn
      <4>1. UNCHANGED <<job, task, product, spare>>
        BY <3>2 DEF RegistersOrLogsIn, SaveToken, SavePassword, SaveSession,
           SaveRawLine, login_once, relogin_batch, load_accounts, write_back,
           ReloginDies, textFiles
      <4> QED
        BY <4>1 DEF ConversionInv, PoolInv, ConverterTypes, PoolKnown, InPool, AtWork
    <3> QED
      BY <1>3, <3>1, <3>2 DEF ConversionNext
  <2> QED
    BY <1>1, <2>1, <2>2 DEF ConversionInv
<1> QED
  BY <1>2, <1>3

LEMMA ConversionInit0 == ConversionInit => ConversionInv
<1>1. ConversionInit => TextTypes
  BY DEF ConversionInit, TextTypes
<1> QED
  BY <1>1, LoggedInit, PoolInit DEF ConversionInv

\* The text files, the products and the conversions keep their types.
THEOREM ConversionTypeCorrect == ConversionSpec => []ConversionTypeOK
<1>1. ConversionInv => ConversionTypeOK
  <2> SUFFICES ASSUME ConversionInv PROVE ConversionTypeOK
    OBVIOUS
  <2>1. /\ job \in [Converters -> JobState]
        /\ task \in [Converters -> [Users -> TaskState]]
        /\ product \in FileState /\ spare \in FileState
    BY DEF ConversionInv, PoolInv, ConverterTypes
  <2>2. ASSUME NEW c \in Converters
        PROVE  /\ job[c].at \in {"rest", "migrate", "index", "copy", "pool", "report"}
               /\ job[c].owed \in 0 .. Cardinality(Users)
    BY <2>1 DEF JobState
  <2>3. ASSUME NEW c \in Converters, NEW u \in Users
        PROVE  /\ task[c][u].at \in {"none", "todo", "queued", "request", "open",
                                     "fill", "rename", "requeue", "done"}
               /\ task[c][u].left \subseteq Kinds /\ task[c][u].tries \in 0 .. Retry
               /\ task[c][u].where \in {"none", "spare", "product", "lost"}
    BY <2>1 DEF TaskState
  <2> QED
    BY <2>1, <2>2, <2>3
    DEF ConversionInv, TextTypes, LoggedInv, ConversionTypeOK, FileState
<1> QED
  BY <1>1, ConversionInit0, ConversionStep, PTL DEF ConversionSpec

\* The enroll pool of the Go worker: what it owes is exactly what is queued,
\* in hand or being put back, for any number of accounts, goroutines and
\* tries, so that its channel is closed after the last account and not
\* before, and no conversion has accounts in hand outside its pool.
THEOREM PoolsAccounted == ConversionSpec => []PoolAccounted
<1>1. ConversionInv => PoolAccounted
  <2> SUFFICES ASSUME ConversionInv, NEW c \in Converters
               PROVE  /\ job[c].at = "pool" =>
                           /\ job[c].owed = Cardinality(AtWork(c) \cup Tasks(c, "queued"))
                           /\ Cardinality(AtWork(c)) <= Enrollers
                      /\ job[c].at \notin {"copy", "pool"} =>
                           AtWork(c) = {} /\ Tasks(c, "queued") = {}
    BY DEF PoolAccounted
  <2>1. PoolKnown(c)
    BY DEF ConversionInv, PoolInv
  <2>2. InPool(c) = AtWork(c) \cup Tasks(c, "queued")
    BY PoolFinite
  <2> QED
    BY <2>1, <2>2 DEF PoolKnown
<1> QED
  BY <1>1, ConversionInit0, ConversionStep, PTL DEF ConversionSpec

----------------------------------------------------------------------------
\* The products of the conversion

Holds(c, u, f) == task[c][u].where # "none" /\ Current(c, u) = f

\* A file that no two workers had open has one worker at most, which has it
\* open under its temporary name; it is empty until it is filled.
WriterKnown(f, c, u) ==
  Holds(c, u, f) =>
    /\ task[c][u].where = "spare"
    /\ task[c][u].at = "fill" => spare[f] = "torn"
    /\ task[c][u].at = "rename" => spare[f] = "whole"
    /\ \A d \in Converters \ {c} : ~Holds(d, u, f)

WritersKnown ==
  \A f \in Files \ met, c \in Converters, u \in Users : WriterKnown(f, c, u)

LEMMA HolderPlace ==
  ASSUME ConverterTypes, NEW c \in Converters, NEW u \in Users
  PROVE  /\ task[c][u].where # "none" <=> task[c][u].at \in {"fill", "rename"}
         /\ task[c][u].where # "none" => task[c][u].left # {}
         /\ task[c][u].where \in {"none", "spare", "product", "lost"}
         /\ Current(c, u) \in Files /\ Current(c, u)[1] = u
<1>1. task[c][u] \in TaskState
  BY DEF ConverterTypes
<1> QED
  BY <1>1 DEF TaskState, Current, Files, Kinds

\* A step after which everybody who has a file open had it open before, in
\* the same place, and no temporary file changed.
LEMMA WritersLess ==
  ASSUME WritersKnown, met \subseteq met', spare' = spare,
         \A d \in Converters, v \in Users :
           task'[d][v].where # "none" =>
             /\ task[d][v].where # "none" /\ task'[d][v].left = task[d][v].left
             /\ task'[d][v].at = task[d][v].at
             /\ \/ task'[d][v].where = task[d][v].where
                \/ task[d][v].where = "product"
  PROVE  WritersKnown'
<1>1. \A d \in Converters, v \in Users : \A f : Holds(d, v, f)' => Holds(d, v, f)
  BY DEF Holds, Current
<1> SUFFICES ASSUME NEW f \in Files \ met', NEW c \in Converters, NEW u \in Users,
                    Holds(c, u, f)'
             PROVE  /\ task'[c][u].where = "spare"
                    /\ task'[c][u].at = "fill" => spare'[f] = "torn"
                    /\ task'[c][u].at = "rename" => spare'[f] = "whole"
                    /\ \A d \in Converters \ {c} : ~Holds(d, u, f)'
  BY DEF WritersKnown, WriterKnown
<1>2. Holds(c, u, f) /\ f \in Files \ met
  BY <1>1
<1>3. /\ task[c][u].where = "spare"
      /\ task[c][u].at = "fill" => spare[f] = "torn"
      /\ task[c][u].at = "rename" => spare[f] = "whole"
      /\ \A d \in Converters \ {c} : ~Holds(d, u, f)
  BY <1>2 DEF WritersKnown, WriterKnown
<1>4. task'[c][u].where # "none"
  BY DEF Holds
<1> QED
  BY <1>1, <1>3, <1>4

\* A step with one file: about the others everything is as it was.
LEMMA OneFileStep ==
  ASSUME WritersKnown, met \subseteq met', NEW g,
         \A f \in Files \ {g} : spare'[f] = spare[f],
         \A d \in Converters, v \in Users :
           task'[d][v].where # "none" /\ Current(d, v)' # g =>
             task'[d][v] = task[d][v],
         g \in Files \ met' =>
           \A c \in Converters, u \in Users : WriterKnown(g, c, u)'
  PROVE  WritersKnown'
<1>1. ASSUME NEW f \in Files \ met', f # g, NEW d \in Converters, NEW v \in Users,
             Holds(d, v, f)'
      PROVE  Holds(d, v, f) /\ task'[d][v] = task[d][v]
  BY <1>1 DEF Holds, Current
<1>2. ASSUME NEW f \in Files \ met', f # g, NEW c \in Converters, NEW u \in Users
      PROVE  WriterKnown(f, c, u)'
  <2> SUFFICES ASSUME Holds(c, u, f)'
               PROVE  /\ task'[c][u].where = "spare"
                      /\ task'[c][u].at = "fill" => spare'[f] = "torn"
                      /\ task'[c][u].at = "rename" => spare'[f] = "whole"
                      /\ \A d \in Converters \ {c} : ~Holds(d, u, f)'
    BY DEF WriterKnown
  <2>1. Holds(c, u, f) /\ task'[c][u] = task[c][u] /\ spare'[f] = spare[f]
    BY <1>1, <1>2
  <2>2. WriterKnown(f, c, u)
    BY <1>2 DEF WritersKnown
  <2>3. \A d \in Converters : Holds(d, u, f)' => Holds(d, u, f)
    BY <1>1, <1>2
  <2> QED
    BY <2>1, <2>2, <2>3 DEF WriterKnown
<1> QED
  BY <1>2 DEF WritersKnown

\* After a file the account has none open; the others keep theirs.
LEMMA FailsWhere ==
  ASSUME PoolInv, NEW c \in Converters, NEW u \in Users, NEW passing,
         Fails(c, u, passing)
  PROVE  /\ task'[c][u].where = "none"
         /\ \A d \in Converters, v \in Users :
              d # c \/ v # u => task'[d][v] = task[d][v]
<1>1. task \in [Converters -> [Users -> TaskState]]
  BY DEF PoolInv, ConverterTypes
<1>2. \E s : s.where = "none" /\ task' = [task EXCEPT ![c][u] = s]
  <2>1. CASE passing /\ job[c].at = "pool" /\ task[c][u].tries < Retry
    <3> DEFINE s == [NoTask EXCEPT !.at = "requeue", !.tries = task[c][u].tries]
    <3>1. task' = [task EXCEPT ![c][u] = s]
      BY <2>1 DEF Fails
    <3>2. s.where = "none"
      BY DEF NoTask
    <3> QED
      BY <3>1, <3>2
  <2>2. CASE ~(passing /\ job[c].at = "pool" /\ task[c][u].tries < Retry)
    <3> DEFINE s == [NoTask EXCEPT !.at = "done"]
    <3>1. task' = [task EXCEPT ![c][u] = s]
      BY <2>2 DEF Fails, Ends
    <3>2. s.where = "none"
      BY DEF NoTask
    <3> QED
      BY <3>1, <3>2
  <2> QED
    BY <2>1, <2>2
<1> QED
  BY <1>1, <1>2

LEMMA NextKindWhere ==
  ASSUME PoolInv, NEW c \in Converters, NEW u \in Users, NEW written \in BOOLEAN,
         NEW moved \in [Converters -> [Users -> TaskState]],
         written \/ moved = task, NextKind(c, u, written, moved)
  PROVE  /\ task'[c][u].where = "none"
         /\ \A d \in Converters, v \in Users :
              d # c \/ v # u => task'[d][v] = moved[d][v]
<1> DEFINE t == moved[c][u]
           left == t.left \ {Current(c, u)[2]}
           wrote == t.wrote \/ written
           on == written \/ job[c].at = "pool"
           next == Onward(t, left, wrote)
           done == [NoTask EXCEPT !.at = "done"]
<1>1. t \in TaskState
  OBVIOUS
<1>2. CASE on /\ left # {} /\ task' = [moved EXCEPT ![c][u] = next]
  <2>1. left \in SUBSET Kinds /\ left # {} /\ wrote \in BOOLEAN /\ t \in TaskState
    BY <1>1, <1>2 DEF TaskState
  <2>2. next.where = "none"
    BY <2>1, OnwardTyped
  <2> HIDE DEF next
  <2> QED
    BY <1>2, <2>2
<1>3. CASE task' = [moved EXCEPT ![c][u] = done]
  <2>1. done.where = "none"
    BY DEF NoTask
  <2> HIDE DEF done
  <2> QED
    BY <1>3, <2>1
<1>4. CASE ~(on /\ left # {}) /\ ~(on /\ left = {} /\ wrote) /\ Fails(c, u, TRUE)
  <2>1. moved = task
    BY <1>4
  <2>2. /\ task'[c][u].where = "none"
        /\ \A d \in Converters, v \in Users :
             d # c \/ v # u => task'[d][v] = task[d][v]
    BY <1>4, FailsWhere
  <2> QED
    BY <2>1, <2>2
<1> QED
  BY <1>2, <1>3, <1>4 DEF NextKind, Onward

\* A step that has one account without an open file, and the rest as it was.
LEMMA NoneOpened ==
  ASSUME WritersKnown, NEW c \in Converters, NEW u \in Users,
         task'[c][u].where = "none", UNCHANGED <<spare, met>>,
         \A d \in Converters, v \in Users :
           d # c \/ v # u => task'[d][v] = task[d][v]
  PROVE  WritersKnown'
<1>1. \A d \in Converters, v \in Users :
        task'[d][v].where # "none" => task'[d][v] = task[d][v]
  OBVIOUS
<1> QED
  BY <1>1, WritersLess

LEMMA AccountStepWriters ==
  ASSUME PoolInv, WritersKnown, NEW c \in Converters, NEW u \in Users,
         \/ convert_oauth_copy(c, u) \/ TakeUp(c, u) \/ Enroll(c, u)
         \/ Requeue(c, u) \/ WriteFails(c, u)
  PROVE  WritersKnown'
<1> DEFINE t == task[c][u]
<1>1. task \in [Converters -> [Users -> TaskState]] /\ t \in TaskState /\ ConverterTypes
  BY DEF PoolInv, ConverterTypes
<1>2. UNCHANGED <<spare, met>>
  BY DEF convert_oauth_copy, TakeUp, Enroll, Requeue, WriteFails
<1>3. CASE convert_oauth_copy(c, u) \/ TakeUp(c, u)
  <2>1. t.where = "none"
    BY <1>1, <1>3, HolderPlace DEF convert_oauth_copy, TakeUp
  <2>2. PICK s : s.where = "none" /\ task' = [task EXCEPT ![c][u] = s]
    <3>1. CASE \E at \in {"done", "queued", "request"} : Puts(c, u, at)
      <4>1. PICK at \in {"done", "queued", "request"} : Puts(c, u, at)
        BY <3>1
      <4>2. task' = [task EXCEPT ![c][u] = [t EXCEPT !.at = at]]
        BY <1>1, <4>1 DEF Puts
      <4>3. [t EXCEPT !.at = at].where = "none"
        BY <1>1, <2>1 DEF TaskState
      <4> QED
        BY <4>2, <4>3
    <3>2. CASE task' = [task EXCEPT ![c][u].at = "open", ![c][u].left = Missing(c, u)]
      <4>1. task' = [task EXCEPT ![c][u] = [t EXCEPT !.at = "open", !.left = Missing(c, u)]]
        BY <1>1, <3>2
      <4>2. [t EXCEPT !.at = "open", !.left = Missing(c, u)].where = "none"
        BY <1>1, <2>1 DEF TaskState
      <4> QED
        BY <4>1, <4>2
    <3> QED
      BY <1>3, <3>1, <3>2 DEF convert_oauth_copy, TakeUp
  <2>3. /\ task'[c][u].where = "none"
        /\ \A d \in Converters, v \in Users :
             d # c \/ v # u => task'[d][v] = task[d][v]
    BY <1>1, <2>2
  <2> QED
    BY <1>2, <2>3, NoneOpened
<1>4. CASE Enroll(c, u)
  <2>1. t.where = "none"
    BY <1>1, <1>4, HolderPlace DEF Enroll
  <2>2. CASE task' = [task EXCEPT ![c][u].at = "open", ![c][u].left = job[c].want]
    <3>1. task' = [task EXCEPT ![c][u] = [t EXCEPT !.at = "open", !.left = job[c].want]]
      BY <1>1, <2>2
    <3>2. [t EXCEPT !.at = "open", !.left = job[c].want].where = "none"
      BY <1>1, <2>1 DEF TaskState
    <3>3. /\ task'[c][u].where = "none"
          /\ \A d \in Converters, v \in Users :
               d # c \/ v # u => task'[d][v] = task[d][v]
      BY <1>1, <3>1, <3>2
    <3> QED
      BY <1>2, <3>3, NoneOpened
  <2>3. CASE Fails(c, u, TRUE) \/ Fails(c, u, FALSE)
    BY <1>2, <2>3, FailsWhere, NoneOpened
  <2> QED
    BY <1>4, <2>2, <2>3 DEF Enroll
<1>5. CASE Requeue(c, u)
  <2> DEFINE s == [NoTask EXCEPT !.at = "queued", !.tries = task[c][u].tries + 1]
  <2>1. task' = [task EXCEPT ![c][u] = s]
    BY <1>5 DEF Requeue
  <2>2. s.where = "none"
    BY DEF NoTask
  <2> HIDE DEF s
  <2>3. /\ task'[c][u].where = "none"
        /\ \A d \in Converters, v \in Users :
             d # c \/ v # u => task'[d][v] = task[d][v]
    BY <1>1, <2>1, <2>2
  <2> QED
    BY <1>2, <2>3, NoneOpened
<1>6. CASE WriteFails(c, u)
  <2>1. NextKind(c, u, FALSE, task)
    BY <1>6 DEF WriteFails
  <2>2. /\ task'[c][u].where = "none"
        /\ \A d \in Converters, v \in Users :
             d # c \/ v # u => task'[d][v] = task[d][v]
    BY <1>1, <2>1, NextKindWhere
  <2> QED
    BY <1>2, <2>2, NoneOpened
<1> QED
  BY <1>3, <1>4, <1>5, <1>6

\* How a rename moves the open files of the others.
LEMMA MovedWhere ==
  ASSUME ConverterTypes, NEW f, NEW renamed \in BOOLEAN,
         NEW d \in Converters, NEW v \in Users
  PROVE  /\ Current(d, v) # f \/ task[d][v].where = "none" =>
              Moved(f, renamed)[d][v] = task[d][v]
         /\ \/ Moved(f, renamed)[d][v] = task[d][v]
            \/ task[d][v].where = "product"
            \/ renamed /\ task[d][v].where = "spare"
<1>1. Moved(f, renamed)[d][v] =
        IF task[d][v].left = {} \/ Current(d, v) # f THEN task[d][v]
        ELSE CASE task[d][v].where = "product" ->
                    [task[d][v] EXCEPT !.where = "lost"]
               [] task[d][v].where = "spare" /\ renamed ->
                    [task[d][v] EXCEPT !.where = "product"]
               [] OTHER -> task[d][v]
  BY DEF Moved
<1> QED
  BY <1>1

LEMMA PythonWriters ==
  ASSUME PoolInv, WritersKnown, NEW c \in Converters, NEW u \in Users,
         _atomic_write_private_json(c, u)
  PROVE  WritersKnown'
<1> DEFINE f == Current(c, u)
<1>1. /\ NextKind(c, u, TRUE, Moved(f, FALSE)) /\ UNCHANGED <<spare, met>>
      /\ ConverterTypes
  BY DEF _atomic_write_private_json, PoolInv
<1>2. /\ task'[c][u].where = "none"
      /\ \A d \in Converters, v \in Users :
           d # c \/ v # u => task'[d][v] = Moved(f, FALSE)[d][v]
  <2>1. /\ Moved(f, FALSE) \in [Converters -> [Users -> TaskState]]
        /\ TRUE \in BOOLEAN
    BY <1>1, MovedShape
  <2>2. NextKind(c, u, TRUE, Moved(f, FALSE)) /\ PoolInv
    BY <1>1
  <2> HIDE DEF f
  <2> QED
    BY <2>1, <2>2, NextKindWhere
<1>3. ASSUME NEW d \in Converters, NEW v \in Users, task'[d][v].where # "none"
      PROVE  /\ task[d][v].where # "none" /\ task'[d][v].left = task[d][v].left
             /\ task'[d][v].at = task[d][v].at
             /\ \/ task'[d][v].where = task[d][v].where
                \/ task[d][v].where = "product"
  <2>1. task'[d][v] = Moved(f, FALSE)[d][v]
    BY <1>2, <1>3
  <2>2. /\ Moved(f, FALSE)[d][v].at = task[d][v].at
        /\ Moved(f, FALSE)[d][v].left = task[d][v].left
    BY <1>1, MovedShape
  <2>3. /\ task[d][v].where = "none" => Moved(f, FALSE)[d][v] = task[d][v]
        /\ \/ Moved(f, FALSE)[d][v] = task[d][v]
           \/ task[d][v].where = "product"
    BY <1>1, MovedWhere
  <2> QED
    BY <1>3, <2>1, <2>2, <2>3
<1> QED
  BY <1>1, <1>3, WritersLess

LEMMA OpenWriters ==
  ASSUME PoolInv, WritersKnown, NEW c \in Converters, NEW u \in Users,
         OpenSpare(c, u)
  PROVE  WritersKnown'
<1>0. PICK g : g = Current(c, u)
  OBVIOUS
<1> DEFINE t == task[c][u]
           s == [t EXCEPT !.at = "fill", !.where = "spare"]
<1>1. /\ task \in [Converters -> [Users -> TaskState]] /\ t \in TaskState
      /\ ConverterTypes /\ spare \in FileState
  BY DEF PoolInv, ConverterTypes
<1>2. /\ t.at = "open" /\ spare' = [spare EXCEPT ![g] = "torn"]
      /\ met' = met \cup {f \in {g} : IsOpen(f, "spare")}
      /\ task' = [task EXCEPT ![c][u].at = "fill", ![c][u].where = "spare"]
  BY <1>0 DEF OpenSpare
<1>3. g \in Files /\ t.where = "none"
  BY <1>0, <1>1, <1>2, HolderPlace
<1>4. /\ s.at = "fill" /\ s.where = "spare" /\ s.left = t.left
  BY <1>1 DEF TaskState
<1>5. task' = [task EXCEPT ![c][u] = s]
  BY <1>1, <1>2
<1>6. /\ task'[c][u].at = "fill" /\ task'[c][u].where = "spare"
      /\ task'[c][u].left = t.left
      /\ \A d \in Converters, v \in Users :
           d # c \/ v # u => task'[d][v] = task[d][v]
  BY <1>1, <1>4, <1>5
<1>7. \A d \in Converters, v \in Users : Current(d, v)' = Current(d, v)
  BY <1>6 DEF Current
<1>8. /\ spare'[g] = "torn" /\ \A f \in Files \ {g} : spare'[f] = spare[f]
  BY <1>1, <1>2, <1>3 DEF FileState
<1> HIDE DEF s
<1>9. ASSUME g \notin met', NEW d \in Converters, NEW v \in Users
      PROVE  ~Holds(d, v, g)
  <2> SUFFICES ASSUME Holds(d, v, g) PROVE FALSE
    OBVIOUS
  <2>1. g \in Files \ met /\ ~IsOpen(g, "spare")
    BY <1>2, <1>3, <1>9
  <2>2. task[d][v].where = "spare"
    BY <2>1 DEF WritersKnown, WriterKnown
  <2>3. task[d][v].left # {} /\ Current(d, v) = g
    BY <1>1, <2>2, HolderPlace DEF Holds
  <2> QED
    BY <2>1, <2>2, <2>3 DEF IsOpen
<1>10. ASSUME g \in Files \ met', NEW d \in Converters, NEW v \in Users
       PROVE  WriterKnown(g, d, v)'
  <2> SUFFICES ASSUME Holds(d, v, g)'
               PROVE  /\ task'[d][v].where = "spare"
                      /\ task'[d][v].at = "fill" => spare'[g] = "torn"
                      /\ task'[d][v].at = "rename" => spare'[g] = "whole"
                      /\ \A e \in Converters \ {d} : ~Holds(e, v, g)'
    BY DEF WriterKnown
  <2>1. \A e \in Converters, w \in Users :
          (e # c \/ w # u) => ~Holds(e, w, g)'
    BY <1>6, <1>7, <1>9, <1>10 DEF Holds
  <2>2. d = c /\ v = u
    BY <2>1
  <2> QED
    BY <1>6, <1>8, <2>1, <2>2
<1>11. ASSUME NEW d \in Converters, NEW v \in Users, Current(d, v)' # g
       PROVE  task'[d][v] = task[d][v]
  BY <1>0, <1>6, <1>7, <1>11
<1>12. /\ met \subseteq met'
       /\ \A d \in Converters, v \in Users :
            task'[d][v].where # "none" /\ Current(d, v)' # g => task'[d][v] = task[d][v]
       /\ g \in Files \ met' =>
            \A d \in Converters, v \in Users : WriterKnown(g, d, v)'
  BY <1>2, <1>10, <1>11
<1> QED
  BY <1>8, <1>12, OneFileStep

LEMMA FillWriters ==
  ASSUME PoolInv, WritersKnown, NEW c \in Converters, NEW u \in Users, Fill(c, u)
  PROVE  WritersKnown'
<1>0. PICK g : g = Current(c, u)
  OBVIOUS
<1> DEFINE t == task[c][u]
           s == [t EXCEPT !.at = "rename"]
<1>1. /\ task \in [Converters -> [Users -> TaskState]] /\ t \in TaskState
      /\ ConverterTypes /\ spare \in FileState
  BY DEF PoolInv, ConverterTypes
<1>2. /\ t.at = "fill" /\ met' = met
      /\ task' = [task EXCEPT ![c][u].at = "rename"]
      /\ \/ /\ t.where = "spare"
            /\ \E text \in Filled(spare[g]) : spare' = [spare EXCEPT ![g] = text]
         \/ t.where # "spare" /\ spare' = spare
  BY <1>0 DEF Fill, Puts
<1>3. g \in Files /\ t.where # "none"
  BY <1>0, <1>1, <1>2, HolderPlace
<1>4. s.at = "rename" /\ s.where = t.where /\ s.left = t.left
  BY <1>1 DEF TaskState
<1>5. task' = [task EXCEPT ![c][u] = s]
  BY <1>1, <1>2
<1>6. /\ task'[c][u].at = "rename" /\ task'[c][u].where = t.where
      /\ task'[c][u].left = t.left
      /\ \A d \in Converters, v \in Users :
           d # c \/ v # u => task'[d][v] = task[d][v]
  BY <1>1, <1>4, <1>5
<1>7. \A d \in Converters, v \in Users : Current(d, v)' = Current(d, v)
  BY <1>6 DEF Current
<1>8. \A d \in Converters, v \in Users : Holds(d, v, g)' => Holds(d, v, g)
  BY <1>3, <1>6, <1>7 DEF Holds
<1>9. \A f \in Files \ {g} : spare'[f] = spare[f]
  BY <1>1, <1>2, <1>3 DEF FileState
<1>10. ASSUME g \notin met
       PROVE  /\ t.where = "spare" /\ spare'[g] = "whole"
              /\ \A d \in Converters \ {c} : ~Holds(d, u, g)
  <2>1. Holds(c, u, g)
    BY <1>0, <1>3 DEF Holds
  <2>2. /\ t.where = "spare" /\ spare[g] = "torn"
        /\ \A d \in Converters \ {c} : ~Holds(d, u, g)
    BY <1>2, <1>3, <1>10, <2>1 DEF WritersKnown, WriterKnown
  <2>3. Filled(spare[g]) = {"whole"}
    BY <2>2 DEF Filled
  <2> QED
    BY <1>1, <1>2, <1>3, <2>2, <2>3 DEF FileState
<1> HIDE DEF s
<1>11. ASSUME g \in Files \ met', NEW d \in Converters, NEW v \in Users
       PROVE  WriterKnown(g, d, v)'
  <2> SUFFICES ASSUME Holds(d, v, g)'
               PROVE  /\ task'[d][v].where = "spare"
                      /\ task'[d][v].at = "fill" => spare'[g] = "torn"
                      /\ task'[d][v].at = "rename" => spare'[g] = "whole"
                      /\ \A e \in Converters \ {d} : ~Holds(e, v, g)'
    BY DEF WriterKnown
  <2>1. v = u
    <3>1. Current(d, v) = g
      BY <1>8 DEF Holds
    <3> QED
      BY <1>0, <1>1, <3>1, HolderPlace
  <2>2. d = c
    BY <1>2, <1>8, <1>10, <1>11, <2>1
  <2> QED
    BY <1>2, <1>6, <1>8, <1>10, <1>11, <2>1, <2>2
<1>12. ASSUME NEW d \in Converters, NEW v \in Users, Current(d, v)' # g
       PROVE  task'[d][v] = task[d][v]
  BY <1>0, <1>6, <1>7, <1>12
<1>13. /\ met \subseteq met'
       /\ \A d \in Converters, v \in Users :
            task'[d][v].where # "none" /\ Current(d, v)' # g => task'[d][v] = task[d][v]
       /\ g \in Files \ met' =>
            \A d \in Converters, v \in Users : WriterKnown(g, d, v)'
  BY <1>2, <1>11, <1>12
<1> QED
  BY <1>9, <1>13, OneFileStep

LEMMA RenameWriters ==
  ASSUME PoolInv, WritersKnown, NEW c \in Converters, NEW u \in Users, Rename(c, u)
  PROVE  WritersKnown'
<1>0. PICK g : g = Current(c, u)
  OBVIOUS
<1> DEFINE moved == Moved(g, TRUE)
<1>1. /\ ConverterTypes /\ spare \in FileState
      /\ task[c][u].at = "rename" /\ met' = met
      /\ spare' = [spare EXCEPT ![g] = "none"]
      /\ NextKind(c, u, TRUE, moved)
  BY <1>0 DEF Rename, PoolInv, ConverterTypes
<1>2. g \in Files /\ task[c][u].where # "none"
  BY <1>0, <1>1, HolderPlace
<1>3. /\ moved \in [Converters -> [Users -> TaskState]]
      /\ \A d \in Converters, v \in Users : /\ moved[d][v].at = task[d][v].at
                                            /\ moved[d][v].left = task[d][v].left
  BY <1>1, MovedShape
<1>4. ASSUME NEW d \in Converters, NEW v \in Users,
             Current(d, v) # g \/ task[d][v].where = "none"
      PROVE  moved[d][v] = task[d][v]
  BY <1>1, <1>4, MovedWhere
<1>5. \A f \in Files \ {g} : spare'[f] = spare[f]
  BY <1>1, <1>2 DEF FileState
<1>6. g \notin met => \A d \in Converters \ {c} : ~Holds(d, u, g)
  BY <1>0, <1>2 DEF WritersKnown, WriterKnown, Holds
<1>7. \A d \in Converters, v \in Users : Current(d, v) = g => v = u
  BY <1>0, <1>1, HolderPlace
<1> HIDE DEF moved
<1>8. /\ task'[c][u].where = "none"
      /\ \A d \in Converters, v \in Users :
           d # c \/ v # u => task'[d][v] = moved[d][v]
  BY <1>1, <1>3, NextKindWhere
<1>9. ASSUME NEW d \in Converters, NEW v \in Users, task'[d][v].where # "none"
      PROVE  /\ d # c \/ v # u
             /\ Current(d, v)' = Current(d, v)
             /\ Current(d, v) # g => task'[d][v] = task[d][v]
             /\ task[d][v].where # "none"
  <2>1. d # c \/ v # u
    BY <1>8, <1>9
  <2>2. task'[d][v] = moved[d][v] /\ task'[d][v].left = task[d][v].left
    BY <1>3, <1>8, <2>1
  <2>3. Current(d, v)' = Current(d, v)
    BY <2>2 DEF Current
  <2> QED
    BY <1>4, <1>9, <2>1, <2>2, <2>3
<1>10. ASSUME g \in Files \ met', NEW d \in Converters, NEW v \in Users
       PROVE  WriterKnown(g, d, v)'
  <2> SUFFICES ASSUME Holds(d, v, g)' PROVE FALSE
    BY DEF WriterKnown
  <2>1. task'[d][v].where # "none" /\ Current(d, v)' = g
    BY DEF Holds
  <2>2. Holds(d, v, g)
    BY <1>9, <2>1 DEF Holds
  <2>3. v = u /\ d # c
    BY <1>7, <1>8, <2>1, <2>2 DEF Holds
  <2> QED
    BY <1>1, <1>6, <1>10, <2>2, <2>3
<1>11. /\ met \subseteq met'
       /\ \A d \in Converters, v \in Users :
            task'[d][v].where # "none" /\ Current(d, v)' # g => task'[d][v] = task[d][v]
       /\ g \in Files \ met' =>
            \A d \in Converters, v \in Users : WriterKnown(g, d, v)'
  BY <1>1, <1>9, <1>10
<1> QED
  BY <1>5, <1>11, OneFileStep

LEMMA WholeStepWriters ==
  ASSUME PoolInv, WritersKnown,
         \/ run_watch \/ convert_sso_to_product \/ convert_accounts
         \/ \E c \in Converters :
              \/ migrate_from_accounts_txt(c) \/ Index(c) \/ EnterPool(c)
              \/ Report(c) \/ Die(c)
         \/ RegistersOrLogsIn
  PROVE  WritersKnown'
<1>1. task \in [Converters -> [Users -> TaskState]]
  BY DEF PoolInv, ConverterTypes
<1>2. UNCHANGED <<spare, met>>
  BY DEF run_watch, convert_sso_to_product, convert_accounts,
     migrate_from_accounts_txt, Index, EnterPool, Report, Die, RegistersOrLogsIn,
     SaveToken, SavePassword, SaveSession, SaveRawLine, login_once, relogin_batch,
     load_accounts, write_back, ReloginDies, textFiles
<1>3. \A d \in Converters, v \in Users :
        task'[d][v].where # "none" => task'[d][v] = task[d][v]
  <2>1. CASE task' = task
    BY <2>1
  <2>2. ASSUME NEW c \in Converters, NEW k \in [Users -> TaskState],
               \A v \in Users : k[v].where = "none",
               task' = [task EXCEPT ![c] = k]
        PROVE  \A d \in Converters, v \in Users :
                 task'[d][v].where # "none" => task'[d][v] = task[d][v]
    BY <1>1, <2>2
  <2>3. ASSUME NEW c \in Converters, Index(c)
        PROVE  \E k \in [Users -> TaskState] :
                 /\ \A v \in Users : k[v].where = "none"
                 /\ task' = [task EXCEPT ![c] = k]
    <3>1. PICK chosen : task' = [task EXCEPT ![c] = [u \in Users |->
                 IF u \in chosen THEN [NoTask EXCEPT !.at = "todo"] ELSE NoTask]]
      BY <2>3 DEF Index
    <3> DEFINE k == [u \in Users |->
                 IF u \in chosen THEN [NoTask EXCEPT !.at = "todo"] ELSE NoTask]
    <3>2. [NoTask EXCEPT !.at = "todo"] \in TaskState
      BY TaskInit DEF NoTask, TaskState
    <3>3. k \in [Users -> TaskState]
      BY <3>2, TaskInit
    <3>4. \A v \in Users : k[v].where = "none"
      BY DEF NoTask
    <3> QED
      BY <3>1, <3>3, <3>4
  <2>4. ASSUME NEW c \in Converters, Report(c) \/ Die(c)
        PROVE  \E k \in [Users -> TaskState] :
                 /\ \A v \in Users : k[v].where = "none"
                 /\ task' = [task EXCEPT ![c] = k]
    <3> DEFINE k == [u \in Users |-> NoTask]
    <3>1. task' = [task EXCEPT ![c] = k]
      BY <2>4 DEF Report, Die
    <3>2. k \in [Users -> TaskState]
      BY TaskInit
    <3>3. \A v \in Users : k[v].where = "none"
      BY DEF NoTask
    <3> QED
      BY <3>1, <3>2, <3>3
  <2>5. CASE \/ run_watch \/ convert_sso_to_product \/ convert_accounts
             \/ RegistersOrLogsIn
    <3>1. task' = task
      BY <2>5 DEF run_watch, convert_sso_to_product, convert_accounts,
         RegistersOrLogsIn, SaveToken, SavePassword, SaveSession, SaveRawLine,
         login_once, relogin_batch, load_accounts, write_back, ReloginDies
    <3> QED
      BY <2>1, <3>1
  <2>6. ASSUME NEW c \in Converters, migrate_from_accounts_txt(c) \/ EnterPool(c)
        PROVE  task' = task
    BY <2>6 DEF migrate_from_accounts_txt, EnterPool
  <2> QED
    BY <2>1, <2>2, <2>3, <2>4, <2>5, <2>6
<1> QED
  BY <1>2, <1>3, WritersLess

WritersInv == ConversionInv /\ WritersKnown

LEMMA WritersInit == ConversionInit => WritersInv
<1> SUFFICES ASSUME ConversionInit PROVE WritersInv
  OBVIOUS
<1>1. \A c \in Converters, u \in Users : task[c][u].where = "none"
  BY DEF ConversionInit, NoTask
<1>2. WritersKnown
  BY <1>1 DEF WritersKnown, WriterKnown, Holds
<1> QED
  BY <1>2, ConversionInit0 DEF WritersInv

LEMMA WritersStep == WritersInv /\ [ConversionNext]_conversionVars => WritersInv'
<1> SUFFICES ASSUME WritersInv, [ConversionNext]_conversionVars PROVE WritersInv'
  OBVIOUS
<1>1. ConversionInv' /\ PoolInv /\ WritersKnown
  BY ConversionStep DEF WritersInv, ConversionInv
<1>2. CASE UNCHANGED conversionVars
  BY <1>1, <1>2 DEF conversionVars, WritersInv, WritersKnown, WriterKnown, Holds, Current
<1>3. ASSUME NEW c \in Converters, NEW u \in Users, ConverterStep(c, u)
      PROVE  WritersKnown'
  BY <1>1, <1>3, AccountStepWriters, OpenWriters, FillWriters, RenameWriters,
     PythonWriters DEF ConverterStep
<1>4. CASE ConversionNext
  BY <1>1, <1>3, <1>4, WholeStepWriters
  DEF ConversionNext, Converts, WritersInv
<1> QED
  BY <1>2, <1>4

\* A step with a file writes what is whole, unless two workers met at it.
LEMMA ProductStep ==
  ASSUME WritersInv, [ConversionNext]_conversionVars, NEW f \in Files \ met,
         product[f] = "whole"
  PROVE  product'[f] = "whole"
<1>1. PoolInv /\ WritersKnown /\ ConverterTypes /\ product \in FileState
  BY DEF WritersInv, ConversionInv, PoolInv, ConverterTypes
<1>2. CASE UNCHANGED product
  BY <1>2
<1>3. ASSUME NEW c \in Converters, NEW u \in Users, Fill(c, u)
      PROVE  product'[f] = "whole"
  <2>1. task[c][u].where # "none" /\ Current(c, u) \in Files
    BY <1>1, <1>3, HolderPlace DEF Fill
  <2>2. CASE Current(c, u) = f
    <3>1. task[c][u].where = "spare"
      BY <1>1, <2>1, <2>2 DEF WritersKnown, WriterKnown, Holds
    <3> QED
      BY <1>3, <3>1 DEF Fill
  <2>3. CASE Current(c, u) # f
    BY <1>1, <1>3, <2>1, <2>3 DEF Fill, FileState
  <2> QED
    BY <2>2, <2>3
<1>4. ASSUME NEW c \in Converters, NEW u \in Users, Rename(c, u)
      PROVE  product'[f] = "whole"
  <2>1. /\ task[c][u].where # "none" /\ Current(c, u) \in Files
        /\ task[c][u].at = "rename"
        /\ product' = [product EXCEPT ![Current(c, u)] = spare[Current(c, u)]]
    BY <1>1, <1>4, HolderPlace DEF Rename
  <2>2. Current(c, u) = f => spare[f] = "whole"
    BY <1>1, <2>1 DEF WritersKnown, WriterKnown, Holds
  <2> QED
    BY <1>1, <2>1, <2>2 DEF FileState
<1>5. ASSUME NEW c \in Converters, NEW u \in Users, _atomic_write_private_json(c, u)
      PROVE  product'[f] = "whole"
  BY <1>1, <1>5 DEF _atomic_write_private_json, FileState
<1>6. CASE Converts
  <2>1. ASSUME NEW c \in Converters, NEW u \in Users, ConverterStep(c, u)
        PROVE  product'[f] = "whole"
    <3>1. CASE \/ convert_oauth_copy(c, u) \/ TakeUp(c, u) \/ Enroll(c, u)
               \/ Requeue(c, u) \/ OpenSpare(c, u) \/ WriteFails(c, u)
      <4>1. product' = product
        BY <3>1 DEF convert_oauth_copy, TakeUp, Enroll, Requeue, OpenSpare, WriteFails
      <4> QED
        BY <1>2, <4>1
    <3> QED
      BY <1>3, <1>4, <1>5, <2>1, <3>1 DEF ConverterStep
  <2>2. CASE \/ run_watch \/ convert_sso_to_product \/ convert_accounts
             \/ \E c \in Converters :
                  \/ migrate_from_accounts_txt(c) \/ Index(c) \/ EnterPool(c)
                  \/ Report(c) \/ Die(c)
    <3>1. product' = product
      BY <2>2 DEF run_watch, convert_sso_to_product, convert_accounts,
         migrate_from_accounts_txt, Index, EnterPool, Report, Die
    <3> QED
      BY <1>2, <3>1
  <2> QED
    BY <1>6, <2>1, <2>2 DEF Converts
<1>7. CASE RegistersOrLogsIn
  <2>1. product' = product
    BY <1>7 DEF RegistersOrLogsIn, SaveToken, SavePassword, SaveSession, SaveRawLine,
       login_once, relogin_batch, load_accounts, write_back, ReloginDies
  <2> QED
    BY <1>2, <2>1
<1> QED
  BY <1>2, <1>6, <1>7 DEF ConversionNext, conversionVars

\* The writers of cpa/ and sub2api/: a credential that can be read stays so
\* in every step, for any accounts, goroutines and deaths; excepted are the
\* files that two Go workers had open at once, whose temporary name they
\* share.
THEOREM ProductsStay == ConversionSpec => ReadyStays
<1>1. WritersInv /\ [ConversionNext]_conversionVars
        => [\A f \in Files \ met :
              product[f] = "whole" => product'[f] = "whole"]_conversionVars
  BY ProductStep
<1> QED
  BY <1>1, WritersInit, WritersStep, PTL DEF ConversionSpec, ReadyStays
=============================================================================
