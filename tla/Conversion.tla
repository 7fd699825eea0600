------------------------------ MODULE Conversion ----------------------------
(***************************************************************************)
(* From registered sessions to OAuth credentials: the files in keys/, the  *)
(* conversion that the authentication service repeats (sso/auth_service.py)*)
(* and that the panel or the command line starts beside it (sso/export.py, *)
(* inventory/convert.py), the Go worker that does the work, and the        *)
(* re-login that refreshes tokens (sso/relogin.py).                        *)
(*                                                                         *)
(* An account has one file of each kind, cpa/ and sub2api/.  Go writes a   *)
(* file under a fixed temporary name and renames it; two workers that      *)
(* write the same file share that name, and the open file of the slower    *)
(* one may be the product itself by then.  Python writes under a name of   *)
(* its own, which is one step here, as is a rewrite of a text file: how    *)
(* those interleave is the matter of KeyFiles.  The worker's reading of    *)
(* the directories is one step too.  The bundle and the mirror, which no   *)
(* conversion reads, are left out.                                         *)
(***************************************************************************)
EXTENDS Naturals, FiniteSets

CONSTANTS
  Users,       \* the accounts
  Enrollers,   \* goroutines of the enroll pool
  Retry        \* how often an account is queued again

ASSUME ConversionAssumption ==
  IsFiniteSet(Users) /\ Enrollers \in Nat \ {0} /\ Retry \in Nat

Kinds == {"cpa", "sub2api"}
Files == Users \X Kinds
Converters == {"service", "job"}

VARIABLES
  tokens,      \* accounts with a line in sso.txt; empty: there is no file
  vault,       \* accounts.txt: nothing, a password, or a token as well
  logged,      \* accounts with a line in auth-sessions.jsonl
  product,     \* what is in each file
  spare,       \* what is in each file's temporary one
  job,         \* each conversion
  task,        \* where it is with each account
  met,         \* files whose temporary one was opened by two workers
  relogin      \* the re-login script

conversionVars ==
  <<tokens, vault, logged, product, spare, job, task, met, relogin>>
textFiles == <<tokens, vault, logged>>

NoTask == [at |-> "none", left |-> {}, where |-> "none", wrote |-> FALSE,
           tries |-> 0]
AtRest == [at |-> "rest", engine |-> "go", want |-> {"cpa"}, enroll |-> TRUE,
           pending |-> TRUE, cpa |-> {}, sub2api |-> {}, token |-> {},
           owed |-> 0, move |-> {}]

ConversionTypeOK ==
  /\ tokens \subseteq Users /\ logged \subseteq Users
  /\ vault \in [Users -> {"none", "password", "token"}]
  /\ product \in [Files -> {"none", "torn", "whole"}]
  /\ spare \in [Files -> {"none", "torn", "whole"}]
  /\ \A c \in Converters :
       /\ job[c].at \in {"rest", "migrate", "index", "copy", "pool", "report"}
       /\ job[c].owed \in 0 .. Cardinality(Users)
       /\ \A u \in Users :
            /\ task[c][u].at \in {"none", "todo", "queued", "request", "open",
                                  "fill", "rename", "requeue", "done"}
            /\ task[c][u].left \subseteq Kinds /\ task[c][u].tries \in 0 .. Retry
            /\ task[c][u].where \in {"none", "spare", "product", "lost"}
  /\ relogin.at \in {"rest", "migrate", "login", "passwords", "tokens",
                     "sessions"}

ConversionInit ==
  /\ tokens \in SUBSET Users /\ logged \in SUBSET tokens
  /\ vault \in [Users -> {"none", "password", "token"}]
  /\ \A u \in Users : /\ u \in logged => vault[u] # "none"
                      /\ vault[u] = "password" => u \in tokens
  /\ product \in [Files -> {"none", "torn", "whole"}]
  /\ spare = [f \in Files |-> "none"]
  /\ job = [c \in Converters |-> AtRest]
  /\ task = [c \in Converters |-> [u \in Users |-> NoTask]]
  /\ met = {} /\ relogin = [at |-> "rest", batch |-> {}, got |-> {}, move |-> {}]

Usable(u, kind) == product[u, kind] = "whole"
Current(c, u) ==
  <<u, IF "cpa" \in task[c][u].left THEN "cpa" ELSE "sub2api">>
Working == {"request", "open", "fill", "rename", "requeue"}
AtWork(c) == {u \in Users : task[c][u].at \in Working}
Tasks(c, at) == {u \in Users : task[c][u].at = at}

----------------------------------------------------------------------------
\* What is still to be converted

HasProduct(u) == \E kind \in Kinds : Usable(u, kind)

\* scan_accounts: sso.txt and accounts.txt give tokens, readable files give
\* products; a file that does not parse is passed over.
scan_pending == {u \in Users : (u \in tokens \/ vault[u] = "token") /\ ~HasProduct(u)}

WithoutCpa == {u \in tokens : ~Usable(u, "cpa")}

\* The accounts the service counts: those of sso.txt without a cpa file;
\* only if there are none, those of the inventory.
list_pending_sso ==
  IF WithoutCpa # {} THEN WithoutCpa ELSE scan_pending

\* The accounts the worker takes up, whose own scan reads the sessions too.
Known == {u \in Users : vault[u] # "none" \/ HasProduct(u)} \cup tokens \cup logged
WithToken == tokens \cup logged \cup {u \in Users : vault[u] = "token"}
PendingTargets == WithoutCpa \cup {u \in WithToken : ~HasProduct(u)}

----------------------------------------------------------------------------
\* The registration, and the migration of tokens out of accounts.txt.
\* Re-login is run while nothing registers: the two rewrite the same files.

Registers == relogin.at = "rest"
Cut == [u \in Users |-> IF vault[u] = "none" THEN "none" ELSE "password"]

SaveToken(u) ==
  /\ Registers /\ u \notin Known
  /\ tokens' = tokens \cup {u}
  /\ UNCHANGED <<vault, logged, product, spare, job, task, met, relogin>>

SavePassword(u) ==
  /\ Registers /\ u \in tokens /\ vault[u] = "none"
  /\ vault' = [Cut EXCEPT ![u] = "password"]
  /\ UNCHANGED <<tokens, logged, product, spare, job, task, met, relogin>>

SaveSession(u) ==
  /\ Registers /\ u \in tokens \ logged /\ vault[u] = "password"
  /\ logged' = logged \cup {u}
  /\ UNCHANGED <<tokens, vault, product, spare, job, task, met, relogin>>

\* One of the three failed.
SaveRawLine(u) ==
  /\ Registers /\ u \notin logged /\ vault[u] # "token"
  /\ u \in tokens \/ u \notin Known
  /\ vault' = [vault EXCEPT ![u] = "token"]
  /\ UNCHANGED <<tokens, logged, product, spare, job, task, met, relogin>>

\* Where sso.txt is missing it is made of the tokens in accounts.txt, line
\* by line; the first password put back there cuts the tokens of all.
ToMigrate == IF tokens = {} THEN {u \in Users : vault[u] = "token"} ELSE {}

MoveToken(u) == tokens' = tokens \cup {u} /\ vault' = Cut

migrate_from_accounts_txt(c) ==
  /\ job[c].at = "migrate"
  /\ \/ /\ job[c].move = {}
        /\ job' = [job EXCEPT ![c].at = IF c = "service" THEN "rest" ELSE "index"]
        /\ UNCHANGED <<tokens, vault>>
     \/ \E u \in job[c].move :
          /\ MoveToken(u)
          /\ job' = [job EXCEPT ![c].move = @ \ {u}]
  /\ UNCHANGED <<logged, product, spare, task, met, relogin>>

----------------------------------------------------------------------------
\* Who starts a conversion

\* A round of the service: it counts, and converts if there is anything;
\* otherwise it sleeps and counts again.
run_watch ==
  /\ job["service"].at = "rest"
  /\ job' = [job EXCEPT !["service"] =
       IF ToMigrate # {} THEN [AtRest EXCEPT !.at = "migrate", !.move = ToMigrate]
       ELSE [AtRest EXCEPT !.at = "index"]]
  /\ ToMigrate # {} \/ list_pending_sso # {}
  /\ UNCHANGED <<textFiles, product, spare, task, met, relogin>>

\* Pending accounts with enrolment go through convert_sso_to_product, which
\* knows only the Go worker.
convert_sso_to_product ==
  /\ job["job"].at = "rest"
  /\ \E want \in (SUBSET Kinds) \ {{}}, enroll \in BOOLEAN :
       job' = [job EXCEPT !["job"] = [AtRest EXCEPT
         !.at = "migrate", !.want = want, !.enroll = enroll, !.move = ToMigrate]]
  /\ UNCHANGED <<textFiles, product, spare, task, met, relogin>>

\* Files into each other, and enrolment of chosen accounts: by Go, or in
\* this process if there is no worker, or it failed, or several are chosen.
convert_accounts ==
  /\ job["job"].at = "rest"
  /\ \E want \in (SUBSET Kinds) \ {{}}, engine \in {"go", "python"},
        enroll, pending \in BOOLEAN :
       /\ ~(enroll /\ pending)
       /\ job' = [job EXCEPT !["job"] = [AtRest EXCEPT
            !.at = "index", !.want = want, !.engine = engine,
            !.enroll = enroll, !.pending = pending]]
  /\ UNCHANGED <<textFiles, product, spare, task, met, relogin>>

\* The indexes of both kinds, the tokens, and the accounts to convert, of
\* which the limit and the choice of e-mails leave some.
Targets(c) ==
  IF ~job[c].pending THEN Known
  ELSE IF job[c].engine = "go" THEN PendingTargets ELSE scan_pending
Tokens(c) ==
  IF job[c].engine = "go" THEN WithToken ELSE WithToken \ (tokens \ logged)

Index(c) ==
  /\ job[c].at = "index"
  /\ \E chosen \in SUBSET Targets(c) :
       /\ chosen # {} \/ Targets(c) = {}
       /\ job' = [job EXCEPT ![c].at = "copy", ![c].pending = TRUE,
            ![c].token = chosen \cap Tokens(c),
            ![c].cpa = {u \in chosen : Usable(u, "cpa")},
            ![c].sub2api = {u \in chosen : Usable(u, "sub2api")}]
       /\ task' = [task EXCEPT ![c] = [u \in Users |->
            IF u \in chosen THEN [NoTask EXCEPT !.at = "todo"] ELSE NoTask]]
  /\ UNCHANGED <<textFiles, product, spare, met, relogin>>

----------------------------------------------------------------------------
\* One account after another: what one file has is written to the other

Indexed(c, u) == {kind \in Kinds : u \in job[c][kind]}
Missing(c, u) == job[c].want \ Indexed(c, u)
Puts(c, u, at) == task' = [task EXCEPT ![c][u].at = at]

\* A goroutine that enrolls is not yet there; Python enrolls here and now.
convert_oauth_copy(c, u) ==
  /\ job[c].at = "copy" /\ task[c][u].at = "todo" /\ AtWork(c) = {}
  /\ \/ Missing(c, u) = {} /\ Puts(c, u, "done")
     \/ /\ Missing(c, u) # {} /\ Indexed(c, u) # {}
        /\ task' = [task EXCEPT ![c][u].at = "open", ![c][u].left = Missing(c, u)]
     \/ /\ Indexed(c, u) = {} /\ ~job[c].enroll
        /\ Puts(c, u, "done")
     \/ /\ Indexed(c, u) = {} /\ job[c].enroll
        /\ Puts(c, u, IF job[c].engine = "go" THEN "queued" ELSE "request")
  /\ UNCHANGED <<textFiles, product, spare, job, met, relogin>>

----------------------------------------------------------------------------
\* The pool.  owed counts the accounts that are queued or in hand; the
\* channel is closed when it comes down to zero.

EnterPool(c) ==
  /\ job[c].at = "copy" /\ Tasks(c, "todo") = {} /\ AtWork(c) = {}
  /\ job' = [job EXCEPT ![c].owed = Cardinality(Tasks(c, "queued")),
       ![c].cpa = {}, ![c].sub2api = {},
       ![c].at = IF Tasks(c, "queued") = {} THEN "report" ELSE "pool"]
  /\ UNCHANGED <<textFiles, product, spare, task, met, relogin>>

TakeUp(c, u) ==
  /\ job[c].at = "pool" /\ task[c][u].at = "queued"
  /\ Cardinality(AtWork(c)) < Enrollers
  /\ Puts(c, u, "request")
  /\ UNCHANGED <<textFiles, product, spare, job, met, relogin>>

Owes(c) == IF job[c].at = "pool" THEN 1 ELSE 0
Ends(c, u) ==
  /\ task' = [task EXCEPT ![c][u] = [NoTask EXCEPT !.at = "done"]]
  /\ job' = [job EXCEPT ![c].owed = @ - Owes(c)]

\* An error that may pass puts the account back if it has a try left.
Fails(c, u, passing) ==
  IF passing /\ job[c].at = "pool" /\ task[c][u].tries < Retry
    THEN /\ task' = [task EXCEPT ![c][u] =
              [NoTask EXCEPT !.at = "requeue", !.tries = task[c][u].tries]]
         /\ UNCHANGED job
    ELSE Ends(c, u)

Requeue_Settles(c, u) ==
  \* Defect: the account put back is counted as settled.
  /\ task[c][u].at = "requeue"
  /\ task' = [task EXCEPT ![c][u] =
       [NoTask EXCEPT !.at = "queued", !.tries = task[c][u].tries + 1]]
  /\ job' = [job EXCEPT ![c].owed = @ - 1]
  /\ UNCHANGED <<textFiles, product, spare, met, relogin>>

\* After the delay, at the end of the queue, which has room for all tries.
Requeue(c, u) ==
  /\ task[c][u].at = "requeue"
  /\ task' = [task EXCEPT ![c][u] =
       [NoTask EXCEPT !.at = "queued", !.tries = task[c][u].tries + 1]]
  /\ UNCHANGED <<textFiles, product, spare, job, met, relogin>>

\* The device flow for one account, all of it: credentials, an error that
\* may pass, or a token that is missing or dead.
Enroll(c, u) ==
  /\ task[c][u].at = "request"
  /\ \/ /\ u \in job[c].token
        /\ task' = [task EXCEPT ![c][u].at = "open",
                                ![c][u].left = job[c].want]
        /\ UNCHANGED job
     \/ u \in job[c].token /\ Fails(c, u, TRUE)
     \/ Fails(c, u, FALSE)
  /\ UNCHANGED <<textFiles, product, spare, met, relogin>>

----------------------------------------------------------------------------
\* Writing one file

\* When a kind is done the next one follows.  A copy that fails ends the
\* account; an enrolment has failed when nothing was written.
NextKind(c, u, written, moved) ==
  LET t == moved[c][u]
      left == t.left \ {Current(c, u)[2]}
      wrote == t.wrote \/ written
      on == written \/ job[c].at = "pool" IN
  CASE on /\ left # {} ->
         /\ task' = [moved EXCEPT ![c][u] = [t EXCEPT
              !.at = "open", !.left = left, !.where = "none", !.wrote = wrote]]
         /\ UNCHANGED job
    [] on /\ left = {} /\ wrote ->
         /\ task' = [moved EXCEPT ![c][u] = [NoTask EXCEPT !.at = "done"]]
         /\ job' = [job EXCEPT ![c].owed = @ - Owes(c)]
    [] OTHER -> Fails(c, u, TRUE)

OpenSpare_InPlace(c, u) ==
  \* Defect: the file is written where it is.
  /\ task[c][u].at = "open" /\ job[c].engine = "go"
  /\ product' = [product EXCEPT ![Current(c, u)] = "torn"]
  /\ task' = [task EXCEPT ![c][u].at = "fill", ![c][u].where = "product"]
  /\ UNCHANGED <<textFiles, spare, job, met, relogin>>

\* The conversions that have the file open under either name.
IsOpen(f, where) ==
  \E c \in Converters, u \in Users :
    /\ task[c][u].left # {} /\ Current(c, u) = f /\ task[c][u].where = where

\* os.WriteFile empties the temporary file, if there is one, or makes it.
OpenSpare(c, u) ==
  /\ task[c][u].at = "open" /\ job[c].engine = "go"
  /\ spare' = [spare EXCEPT ![Current(c, u)] = "torn"]
  /\ task' = [task EXCEPT ![c][u].at = "fill", ![c][u].where = "spare"]
  /\ met' = met \cup {f \in {Current(c, u)} : IsOpen(f, "spare")}
  /\ UNCHANGED <<textFiles, product, job, relogin>>

\* Over what another worker wrote a shorter text leaves the longer one's end.
Filled(content) == IF content = "torn" THEN {"whole"} ELSE {"whole", "torn"}

Fill(c, u) ==
  LET f == Current(c, u) IN
  /\ task[c][u].at = "fill"
  /\ CASE task[c][u].where = "spare" ->
            /\ \E text \in Filled(spare[f]) : spare' = [spare EXCEPT ![f] = text]
            /\ UNCHANGED product
       [] task[c][u].where = "product" ->
            /\ \E text \in Filled(product[f]) : product' = [product EXCEPT ![f] = text]
            /\ UNCHANGED spare
       [] OTHER -> UNCHANGED <<product, spare>>
  /\ Puts(c, u, "rename")
  /\ UNCHANGED <<textFiles, job, met, relogin>>

\* Whoever has the temporary file open has the product open now, and who
\* had the product open writes to a file without a name.
Moved(f, renamed) ==
  [c \in Converters |-> [u \in Users |->
    IF task[c][u].left = {} \/ Current(c, u) # f THEN task[c][u]
    ELSE CASE task[c][u].where = "product" ->
                [task[c][u] EXCEPT !.where = "lost"]
           [] task[c][u].where = "spare" /\ renamed ->
                [task[c][u] EXCEPT !.where = "product"]
           [] OTHER -> task[c][u]]]

Rename(c, u) ==
  LET f == Current(c, u) IN
  /\ task[c][u].at = "rename" /\ spare[f] # "none"
  /\ product' = [product EXCEPT ![f] = spare[f]]
  /\ spare' = [spare EXCEPT ![f] = "none"]
  /\ NextKind(c, u, TRUE, Moved(f, TRUE))
  /\ UNCHANGED <<textFiles, met, relogin>>

_atomic_write_private_json(c, u) ==
  LET f == Current(c, u) IN
  /\ task[c][u].at = "open" /\ job[c].engine = "python"
  /\ product' = [product EXCEPT ![f] = "whole"]
  /\ NextKind(c, u, TRUE, Moved(f, FALSE))
  /\ UNCHANGED <<textFiles, spare, met, relogin>>

\* The name is gone, or any of the calls failed.
WriteFails(c, u) ==
  /\ \/ task[c][u].at \in {"open", "fill"}
     \/ task[c][u].at = "rename" /\ spare[Current(c, u)] = "none"
  /\ job[c].engine = "go"
  /\ NextKind(c, u, FALSE, task)
  /\ UNCHANGED <<textFiles, product, spare, met, relogin>>

----------------------------------------------------------------------------
\* The end of a conversion: its workers gone, or, at any point, killed; in
\* Python an error in writing a copy ends it too.

Report(c) ==
  /\ \/ job[c].at = "pool" /\ job[c].owed = 0
     \/ job[c].at = "report"
  /\ job' = [job EXCEPT ![c] = AtRest]
  /\ task' = [task EXCEPT ![c] = [u \in Users |-> NoTask]]
  /\ UNCHANGED <<textFiles, product, spare, met, relogin>>

Die(c) ==
  /\ job[c].at # "rest"
  /\ job' = [job EXCEPT ![c] = AtRest]
  /\ task' = [task EXCEPT ![c] = [u \in Users |-> NoTask]]
  /\ UNCHANGED <<textFiles, product, spare, met, relogin>>

----------------------------------------------------------------------------
\* Re-login: new tokens for accounts with a password, kept in memory until
\* all are asked for, and then written

relogin_batch ==
  /\ relogin.at = "rest"
  /\ relogin' = [relogin EXCEPT !.at = "migrate", !.move = ToMigrate]
  /\ UNCHANGED <<textFiles, product, spare, job, task, met>>

load_accounts ==
  /\ relogin.at = "migrate"
  /\ \/ /\ relogin.move = {}
        /\ \E batch \in SUBSET {u \in Users : vault[u] # "none"} :
             relogin' = [relogin EXCEPT !.batch = batch,
               !.at = IF batch = {} THEN "rest" ELSE "login"]
        /\ UNCHANGED <<tokens, vault>>
     \/ \E u \in relogin.move :
          /\ MoveToken(u)
          /\ relogin' = [relogin EXCEPT !.move = @ \ {u}]
  /\ UNCHANGED <<logged, product, spare, job, task, met>>

login_once(u) ==
  /\ relogin.at = "login" /\ u \in relogin.batch
  /\ \E got \in {relogin.got, relogin.got \cup {u}} :
       relogin' = [relogin EXCEPT !.batch = @ \ {u}, !.got = got,
         !.at = IF relogin.batch = {u} THEN "passwords" ELSE "login"]
  /\ UNCHANGED <<textFiles, product, spare, job, task, met>>

write_back_SessionsFirst ==
  \* Defect: the sessions are written before the tokens.
  /\ \/ /\ relogin.at = "passwords" /\ vault' = Cut
        /\ relogin' = [relogin EXCEPT !.at = "sessions"]
        /\ UNCHANGED <<tokens, logged>>
     \/ /\ relogin.at = "sessions" /\ logged' = logged \cup relogin.got
        /\ relogin' = [relogin EXCEPT !.at = "tokens", !.move = relogin.got]
        /\ UNCHANGED <<tokens, vault>>
     \/ \E u \in relogin.move :
          /\ relogin.at = "tokens" /\ tokens' = tokens \cup {u}
          /\ relogin' = [relogin EXCEPT !.move = @ \ {u}]
          /\ UNCHANGED <<vault, logged>>
  /\ UNCHANGED <<product, spare, job, task, met>>

write_back ==
  /\ \/ /\ relogin.at = "passwords" /\ vault' = Cut
        /\ relogin' = [relogin EXCEPT !.at = "tokens", !.move = relogin.got]
        /\ UNCHANGED <<tokens, logged>>
     \/ \E u \in relogin.move :
          /\ relogin.at = "tokens" /\ tokens' = tokens \cup {u}
          /\ relogin' = [relogin EXCEPT !.move = @ \ {u}]
          /\ UNCHANGED <<vault, logged>>
     \/ /\ relogin.at = "tokens" /\ relogin.move = {}
        /\ logged' = logged \cup relogin.got
        /\ relogin' = [relogin EXCEPT !.at = "rest", !.got = {}]
        /\ UNCHANGED <<tokens, vault>>
  /\ UNCHANGED <<product, spare, job, task, met>>

ReloginDies ==
  /\ relogin.at # "rest"
  /\ relogin' = [at |-> "rest", batch |-> {}, got |-> {}, move |-> {}]
  /\ UNCHANGED <<textFiles, product, spare, job, task, met>>

----------------------------------------------------------------------------
ConverterStep(c, u) ==
  \/ convert_oauth_copy(c, u) \/ TakeUp(c, u) \/ Enroll(c, u) \/ Requeue(c, u)
  \/ OpenSpare(c, u) \/ Fill(c, u) \/ Rename(c, u) \/ WriteFails(c, u)
  \/ _atomic_write_private_json(c, u)

Converts ==
  \/ run_watch \/ convert_sso_to_product \/ convert_accounts
  \/ \E c \in Converters :
       \/ migrate_from_accounts_txt(c) \/ Index(c) \/ EnterPool(c)
       \/ Report(c) \/ Die(c)
       \/ \E u \in Users : ConverterStep(c, u)

RegistersOrLogsIn ==
  \/ \E u \in Users : \/ SaveToken(u) \/ SavePassword(u) \/ SaveSession(u)
                      \/ SaveRawLine(u) \/ login_once(u)
  \/ relogin_batch \/ load_accounts \/ write_back \/ ReloginDies

ConversionNext == Converts \/ RegistersOrLogsIn

ConversionSpec == ConversionInit /\ [][ConversionNext]_conversionVars

----------------------------------------------------------------------------
\* The service never sleeps on work: when it counts nothing, its worker,
\* which reads the files with a code of its own, would find nothing either,
\* also among files left torn by workers that met or were killed.
WatchSees == list_pending_sso = {} => PendingTargets = {}

\* The pool is closed when the last account is settled and not before, so
\* that nothing is sent into a closed channel and no goroutine waits for
\* ever: what is owed is what is queued, in hand, or being put back.
PoolAccounted ==
  \A c \in Converters :
    /\ job[c].at = "pool" =>
         /\ job[c].owed = Cardinality(AtWork(c) \cup Tasks(c, "queued"))
         /\ Cardinality(AtWork(c)) <= Enrollers
    /\ job[c].at \notin {"copy", "pool"} =>
         AtWork(c) = {} /\ Tasks(c, "queued") = {}

\* A credential that can be read stays so, whoever converts or is killed
\* beside it; the exception is a file that two Go workers wrote at once.
ReadyStays ==
  [][\A f \in Files \ met :
       product[f] = "whole" => product'[f] = "whole"]_conversionVars
=============================================================================
