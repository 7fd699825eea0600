------------------------------ MODULE KeyFiles ------------------------------
(***************************************************************************)
(* The protocol registration engine (protocol_register.py) and the files   *)
(* in keys/ its workers share: sso.txt, accounts.txt, grok.txt,            *)
(* auth-sessions.jsonl (sso/store.py, sso/export.py).                      *)
(*                                                                         *)
(* A file is the set of accounts it has a line for; accounts.txt holds a   *)
(* password, and beside it, in the line the fallback writes, a token.  An  *)
(* account is registered once, under a mailbox made for it.  Three of the  *)
(* files are rewritten whole: read, written beside, put in place by a      *)
(* rename, so that a failed write leaves the old file.  All steps of one   *)
(* account run under _write_lock; _lock inside it is never contended.      *)
(***************************************************************************)
EXTENDS Naturals, FiniteSets

CONSTANTS
  Accounts,    \* the accounts that can be created (a bound)
  NoAccount,   \* a worker before its first
  Workers,     \* the threads of the pool
  Target,      \* TARGET; 0 is none
  ReadsFail    \* may reading a file that exists fail?  upsert ignores it

ASSUME KeysAssumption ==
  NoAccount \notin Accounts /\ Target \in Nat /\ ReadsFail \in BOOLEAN

VARIABLES
  sso,         \* accounts with a line in sso.txt
  passwords,   \* accounts with a password in accounts.txt
  raw,         \* those whose line there also has the token
  grok,        \* accounts whose token is in grok.txt
  sessions,    \* accounts with a line in auth-sessions.jsonl
  write_lock,  \* does a worker hold _write_lock?
  stop,        \* the stop event
  counted,     \* accounts counted by bump_ok; success is their number
  worker       \* where each worker is, with which account, and what it read

keyVars == <<sso, passwords, raw, grok, sessions, write_lock, stop, counted,
             worker>>
files == <<sso, passwords, raw, grok, sessions>>

Places == {"top", "register", "persist", "upsert", "replace", "vault",
           "revault", "grok", "regrok", "session", "fallback", "log",
           "count", "failed", "done"}

KeyFilesTypeOK ==
  /\ raw \subseteq passwords
  /\ \A f \in {sso, passwords, grok, sessions, counted} : f \subseteq Accounts
  /\ write_lock \in BOOLEAN /\ stop \in BOOLEAN
  /\ worker \in [Workers -> [at : Places, acc : Accounts \cup {NoAccount},
                             seen : SUBSET Accounts]]

KeyFilesInit ==
  /\ sso = {} /\ passwords = {} /\ raw = {} /\ grok = {} /\ sessions = {}
  /\ write_lock = FALSE /\ stop = FALSE /\ counted = {}
  /\ worker = [w \in Workers |-> [at |-> "top", acc |-> NoAccount, seen |-> {}]]

success == Cardinality(counted)
Reached == Target # 0 /\ success >= Target
At(w, place) == worker[w].at = place
Acc(w) == worker[w].acc
To(w, place) == worker' = [worker EXCEPT ![w].at = place, ![w].seen = {}]
Again(w, over) ==
  worker' = [worker EXCEPT ![w] = [at |-> IF over THEN "done" ELSE "top",
                                   acc |-> NoAccount, seen |-> {}]]
Read(w, place, lines) ==
  worker' = [worker EXCEPT ![w].at = place, ![w].seen = lines]

\* What an upsert reads: the file, or nothing if the read fails.
Lines(file) == {file} \cup (IF ReadsFail THEN {{}} ELSE {})
Taken == {worker[w].acc : w \in Workers} \cup counted
         \cup sso \cup passwords \cup sessions

----------------------------------------------------------------------------
\* The loop of a worker

\* The target is looked at before the attempt, and not again until it ends.
NextAttempt(w) ==
  /\ At(w, "top") /\ ~stop /\ ~Reached
  /\ \E e \in Accounts \ Taken :
       worker' = [worker EXCEPT ![w].at = "register", ![w].acc = e]
  /\ UNCHANGED <<files, write_lock, stop, counted>>

Leave(w) ==
  /\ At(w, "top") /\ (stop \/ Reached)
  /\ To(w, "done")
  /\ UNCHANGED <<files, write_lock, stop, counted>>

\* The mailbox, the code, the Turnstile token and the sign-up either all
\* succeed or the attempt raises; without a session cookie the account is
\* saved with a placeholder.
register_once(w) ==
  /\ At(w, "register")
  /\ \E outcome \in {"persist", "failed"} : To(w, outcome)
  /\ UNCHANGED <<files, write_lock, stop, counted>>

bump_ok(w) ==
  /\ At(w, "count")
  /\ counted' = counted \cup {Acc(w)}
  /\ stop' = (stop \/ (Target # 0 /\ Cardinality(counted') >= Target))
  /\ Again(w, Target # 0 /\ Cardinality(counted') >= Target)
  /\ UNCHANGED <<files, write_lock>>

\* bump_fail, and a second and a half's wait that the stop event ends.
bump_fail(w) ==
  /\ At(w, "failed")
  /\ Again(w, stop)
  /\ UNCHANGED <<files, write_lock, stop, counted>>

\* The first worker to end after the target is met, or Ctrl-C, stops all.
as_completed ==
  /\ ~stop
  /\ stop' = TRUE
  /\ UNCHANGED <<files, write_lock, counted, worker>>

----------------------------------------------------------------------------
\* append_account, under the lock

\* The lock taken, upsert_sso reads sso.txt.
append_account_Unlocked(w) ==
  \* Defect: the files are written without the lock.
  /\ At(w, "persist")
  /\ \E lines \in Lines(sso) : Read(w, "upsert", lines)
  /\ UNCHANGED <<files, write_lock, stop, counted>>

append_account(w) ==
  /\ At(w, "persist") /\ ~write_lock
  /\ write_lock' = TRUE
  /\ \E lines \in Lines(sso) : Read(w, "upsert", lines)
  /\ UNCHANGED <<files, stop, counted>>

upsert_sso(w) ==
  /\ At(w, "upsert")
  /\ sso' = worker[w].seen \cup {Acc(w)}
  /\ To(w, "vault")
  /\ UNCHANGED <<passwords, raw, grok, sessions, write_lock, stop, counted>>

ReadPasswords(w) ==
  /\ At(w, "vault")
  /\ \E lines \in Lines(passwords) : Read(w, "revault", lines)
  /\ UNCHANGED <<files, write_lock, stop, counted>>

\* The lines kept are cut down to email:password, the token of a line the
\* fallback wrote is lost.
upsert_account_password(w) ==
  /\ At(w, "revault")
  /\ passwords' = worker[w].seen \cup {Acc(w)}
  /\ raw' = {}
  /\ To(w, "grok")
  /\ UNCHANGED <<sso, grok, sessions, write_lock, stop, counted>>

\* load_sso_list; a read that fails gives no lines here too.
ReadSso(w) ==
  /\ At(w, "grok")
  /\ \E lines \in Lines(sso) : Read(w, "regrok", lines)
  /\ UNCHANGED <<files, write_lock, stop, counted>>

rewrite_grok_from_sso(w) ==
  /\ At(w, "regrok")
  /\ grok' = worker[w].seen
  /\ To(w, "session")
  /\ UNCHANGED <<sso, passwords, raw, sessions, write_lock, stop, counted>>

append_sso_artifacts(w) ==
  /\ At(w, "session")
  /\ sessions' = sessions \cup {Acc(w)}
  /\ To(w, "log")
  /\ UNCHANGED <<sso, passwords, raw, grok, write_lock, stop, counted>>

\* Any of these may raise instead: the fallback appends one raw line.
ArtifactsRaise(w) ==
  /\ worker[w].at \in {"upsert", "vault", "revault", "grok", "regrok",
                        "session"}
  /\ To(w, "fallback")
  /\ UNCHANGED <<files, write_lock, stop, counted>>

Fallback(w) ==
  /\ At(w, "fallback")
  /\ passwords' = passwords \cup {Acc(w)}
  /\ raw' = raw \cup {Acc(w)}
  /\ To(w, "log")
  /\ UNCHANGED <<sso, grok, sessions, write_lock, stop, counted>>

\* The line in accounts.protocol.log, and the lock is given back.
Log(w) ==
  /\ At(w, "log")
  /\ write_lock' = FALSE
  /\ To(w, "count")
  /\ UNCHANGED <<files, stop, counted>>

\* The fallback or the log may raise: a failure, of an account on file too.
AppendRaises(w) ==
  /\ worker[w].at \in {"fallback", "log"}
  /\ write_lock' = FALSE
  /\ To(w, "failed")
  /\ UNCHANGED <<files, stop, counted>>

----------------------------------------------------------------------------
KeyFilesNext ==
  \/ as_completed
  \/ \E w \in Workers :
       \/ NextAttempt(w) \/ Leave(w) \/ register_once(w)
       \/ bump_ok(w) \/ bump_fail(w)
       \/ append_account(w) \/ upsert_sso(w) \/ ReadPasswords(w)
       \/ upsert_account_password(w) \/ ReadSso(w)
       \/ rewrite_grok_from_sso(w) \/ append_sso_artifacts(w)
       \/ ArtifactsRaise(w) \/ Fallback(w) \/ Log(w) \/ AppendRaises(w)

KeyFilesSpec == KeyFilesInit /\ [][KeyFilesNext]_keyVars

----------------------------------------------------------------------------
\* An account with a session line has its password, and its token in sso.txt
\* and grok.txt, as long as the files are there; every account counted has
\* its password on file, however its last step failed.
KeysAgree ==
  /\ sessions \subseteq sso \cap grok \cap passwords
  /\ counted \subseteq passwords
=============================================================================
