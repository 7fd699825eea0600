--------------------------- MODULE SessionSnapshot --------------------------
(***************************************************************************)
(* How a registered session reaches the authorization service: the export  *)
(* script (export_registered_sessions.py), the synchronizer that runs it   *)
(* and puts its output in place as one snapshot file, and DiskSnapshotSource*)
(* (remote_stream.py), which hands the records of each snapshot over, one  *)
(* at a time.                                                              *)
(*                                                                         *)
(* The registration appends to auth-sessions.jsonl and rewrites or appends *)
(* to accounts.txt while the script reads first the one, then the other.   *)
(* A record says which file it came from: the session's own cookies, or    *)
(* a token under the legacy cookie scope.  A generation stands for what    *)
(* stat gives of a file: it is new whenever the file is replaced.          *)
(***************************************************************************)
EXTENDS Naturals, FiniteSets

CONSTANTS
  Emails,      \* the accounts
  Local,       \* LocalSnapshotSynchronizer; FALSE: the one over SSH
  MaxSyncs,    \* how many snapshots are put in place (a bound)
  MaxStarts    \* how often the service is started (a bound)

ASSUME SnapshotAssumption ==
  Local \in BOOLEAN /\ MaxSyncs \in Nat /\ MaxStarts \in Nat

VARIABLES
  inputs,      \* [sess, accts]: the two files the script reads
  changes,     \* the generation of the two files together
  moments,     \* every pair of contents there has been (history)
  sync,        \* the synchronizer and the script it runs
  disk,        \* the snapshot file: its generation, 0 if none, and records
  source,      \* DiskSnapshotSource.records()
  handed,      \* what it handed over of the generation it has open
  starts       \* how often the service was started

snapshotVars ==
  <<inputs, changes, moments, sync, disk, source, handed, starts>>

\* accounts.txt has email:password:sso ("triple") or email:password ("pair").
Line == [email : Emails, form : {"pair", "triple"}]
Record == [email : Emails, from : {"session", "account"}]

SessionSnapshotTypeOK ==
  /\ inputs \in [sess : SUBSET Emails, accts : SUBSET Line]
  /\ changes \in Nat
  /\ sync.at \in {"idle", "sessions", "accounts", "exported"}
  /\ disk \in [gen : 0 .. MaxSyncs, records : SUBSET Record]
  /\ source.at \in {"poll", "open", "read", "closed"}
  /\ source.gen \in 0 .. MaxSyncs /\ source.consumed \in 0 .. MaxSyncs
  /\ handed \subseteq Record /\ source.left \subseteq Record
  /\ starts \in 0 .. MaxStarts

NoSync == [at |-> "idle", since |-> 0, sess |-> {}, accts |-> {}]
NewSource == [at |-> "poll", gen |-> 0, consumed |-> 0, left |-> {}]

SessionSnapshotInit ==
  /\ inputs = [sess |-> {}, accts |-> {}] /\ changes = 0
  /\ moments = {inputs}
  /\ sync = NoSync
  /\ disk = [gen |-> 0, records |-> {}]
  /\ source = NewSource /\ handed = {} /\ starts = 1

\* What the script prints for two contents: every session, and every token
\* of accounts.txt whose account has none.  A line of two fields does not
\* split in three: the script ends with code 4.
Readable(accts) == \A l \in accts : l.form = "triple"
export_sessions(sess, accts) ==
  [email : sess, from : {"session"}]
    \cup [email : {l.email : l \in accts} \ sess, from : {"account"}]

----------------------------------------------------------------------------
\* The registration

Change(new) ==
  /\ inputs' = new /\ changes' = changes + 1
  /\ moments' = moments \cup {new}
  /\ UNCHANGED <<sync, disk, source, handed, starts>>

Filed == {l.email : l \in inputs.accts}

\* upsert_account_password: every line is cut down to email:password.
UpsertPassword(e) ==
  /\ e \notin Filed /\ e \notin inputs.sess
  /\ Change([inputs EXCEPT
       !.accts = [email : Filed \cup {e}, form : {"pair"}]])

AppendSession(e) ==
  /\ e \notin inputs.sess
  /\ [email |-> e, form |-> "triple"] \notin inputs.accts
  /\ Change([inputs EXCEPT !.sess = @ \cup {e}])

\* The fallback appends the old form, after the session if it has cookies.
AppendLegacy(e) ==
  /\ [email |-> e, form |-> "triple"] \notin inputs.accts
  /\ Change([inputs EXCEPT
       !.accts = @ \cup {[email |-> e, form |-> "triple"]}])

----------------------------------------------------------------------------
\* sync_once: the script runs, its output is checked and renamed into place

StartExport ==
  /\ source.at # "closed" /\ sync.at = "idle" /\ disk.gen < MaxSyncs
  /\ sync' = [NoSync EXCEPT !.at = "sessions", !.since = changes]
  /\ UNCHANGED <<inputs, changes, moments, disk, source, handed, starts>>

ReadSessions ==
  /\ sync.at = "sessions"
  /\ sync' = [sync EXCEPT !.at = "accounts", !.sess = inputs.sess]
  /\ UNCHANGED <<inputs, changes, moments, disk, source, handed, starts>>

ReadAccounts ==
  /\ sync.at = "accounts"
  /\ sync' = [sync EXCEPT !.at = "exported", !.accts = inputs.accts]
  /\ UNCHANGED <<inputs, changes, moments, disk, source, handed, starts>>

Exported == export_sessions(sync.sess, sync.accts)

\* Only a readable export, of inputs that did not change while it ran, and
\* over SSH only one that is not empty, replaces the snapshot.
Accepted_Unchecked ==
  \* Defect: the generation of the inputs is not compared.
  Readable(sync.accts)

Accepted ==
  /\ Readable(sync.accts)
  /\ IF Local THEN sync.since = changes ELSE Exported # {}

Publish ==
  /\ sync.at = "exported" /\ Accepted
  /\ disk' = [gen |-> disk.gen + 1, records |-> Exported]
  /\ sync' = NoSync
  /\ UNCHANGED <<inputs, changes, moments, source, handed, starts>>

\* Anything else leaves the snapshot as it was until the next round.
Reject ==
  /\ sync.at = "exported" /\ ~Accepted
  /\ sync' = NoSync
  /\ UNCHANGED <<inputs, changes, moments, disk, source, handed, starts>>

\* So does an error, or a script that is killed, at any point.
SyncFails ==
  /\ sync.at # "idle"
  /\ sync' = NoSync
  /\ UNCHANGED <<inputs, changes, moments, disk, source, handed, starts>>

----------------------------------------------------------------------------
\* DiskSnapshotSource.records

\* The file has another generation than the one consumed last.
Stat ==
  /\ source.at = "poll" /\ disk.gen # 0 /\ disk.gen # source.consumed
  /\ source' = [source EXCEPT !.at = "open"]
  /\ UNCHANGED <<inputs, changes, moments, sync, disk, handed, starts>>

\* It may have been replaced since: what counts is the file that was opened.
Open ==
  /\ source.at = "open"
  /\ source' = [source EXCEPT !.at = "read", !.gen = disk.gen,
                              !.left = disk.records]
  /\ handed' = {}
  /\ UNCHANGED <<inputs, changes, moments, sync, disk, starts>>

\* One record, when the consumer asks for one: the open file stays what it
\* is while the snapshot is replaced.
HandOver ==
  /\ source.at = "read"
  /\ \E r \in source.left :
       /\ source' = [source EXCEPT !.left = @ \ {r}]
       /\ handed' = handed \cup {r}
  /\ UNCHANGED <<inputs, changes, moments, sync, disk, starts>>

Consumed_Latest ==
  \* Defect: the file's generation is taken again at its end.
  /\ source.at = "read" /\ source.left = {}
  /\ source' = [source EXCEPT !.at = "poll", !.consumed = disk.gen]
  /\ UNCHANGED <<inputs, changes, moments, sync, disk, handed, starts>>

Consumed ==
  /\ source.at = "read" /\ source.left = {}
  /\ source' = [source EXCEPT !.at = "poll", !.consumed = source.gen]
  /\ UNCHANGED <<inputs, changes, moments, sync, disk, handed, starts>>

\* The sync task is cancelled, its script terminated; reading ends early.
Close ==
  /\ source.at # "closed"
  /\ source' = [NewSource EXCEPT !.at = "closed"]
  /\ sync' = NoSync /\ handed' = {}
  /\ UNCHANGED <<inputs, changes, moments, disk, starts>>

\* A new service consumes whatever snapshot is on disk from its beginning.
StartService ==
  /\ source.at = "closed" /\ starts < MaxStarts
  /\ source' = NewSource /\ starts' = starts + 1
  /\ UNCHANGED <<inputs, changes, moments, sync, disk, handed>>

----------------------------------------------------------------------------
SyncStep ==
  StartExport \/ ReadSessions \/ ReadAccounts \/ Publish \/ Reject
SourceStep == Stat \/ Open \/ HandOver \/ Consumed

SessionSnapshotNext ==
  \/ \E e \in Emails : UpsertPassword(e) \/ AppendSession(e) \/ AppendLegacy(e)
  \/ SyncStep \/ SyncFails \/ SourceStep \/ Close \/ StartService

SessionSnapshotSpec ==
  SessionSnapshotInit /\ [][SessionSnapshotNext]_snapshotVars

----------------------------------------------------------------------------
\* What the pipeline was given when the source is at rest, having consumed
\* the snapshot on disk, is exactly what the registration's two files held
\* at one moment: nothing of it missed by a replacement during the reading,
\* no token taken for a session that was being appended.
SourceFaithful ==
  source.at = "poll" /\ source.consumed # 0 /\ source.consumed = disk.gen
    => /\ handed = disk.records
       /\ \E m \in moments : handed = export_sessions(m.sess, m.accts)
=============================================================================
