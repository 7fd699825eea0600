--------------------------- MODULE CredentialSync ---------------------------
(***************************************************************************)
(* Keeping the CPA files usable (cliproxyapi.py): a cycle goes through the *)
(* single-account files, exchanges the refresh token of those that are     *)
(* due, rewrites the file and copies it to the CLIProxyAPI.  A worker      *)
(* thread of the panel runs cycles for ever; a request to the panel, or    *)
(* the command line, runs one of its own, and no lock keeps two cycles off *)
(* the same file.                                                          *)
(*                                                                         *)
(* The provider honours one refresh token of an account at a time and may  *)
(* answer an exchange with the next one.  A file is read and replaced      *)
(* whole.  Nothing else writes an existing file, and the CLIProxyAPI does  *)
(* not exchange the tokens of the copies it is given.                      *)
(***************************************************************************)
EXTENDS Naturals

CONSTANTS
  Auths,       \* the single-account files that may come to be
  NoAuth,
  MaxRotations \* how many tokens of an account are looked at (a bound)

ASSUME SyncAssumption == NoAuth \notin Auths /\ MaxRotations \in Nat \ {0}

\* Two threads the worker has had, and the panel's request or a command.
Threadlike == {"first", "second"}
Syncers == Threadlike \cup {"request"}
NoThread == "none"

VARIABLES
  document,    \* keys/cpa/xai-*.json: the refresh token, and if it is due
  imported,    \* the token in the CLIProxyAPI's copy of each file
  honoured,    \* the refresh token the provider takes; 0 if it takes none
  syncer,      \* where each cycle is, the file in its hands and its answer
  current,     \* _worker_thread
  stopped,     \* _worker_stop is set
  stopping,    \* stop_worker waits for the thread
  both,        \* ghost: the files two cycles had in hands at once
  unheard      \* ghost: the files whose new token never reached them

syncVars == <<document, imported, honoured, syncer, current, stopped,
              stopping, both, unheard>>

NoDocument == [token |-> 0, due |-> FALSE]
Document == [token : 0 .. MaxRotations, due : BOOLEAN]
Off == [at |-> "off", left |-> {}, auth |-> NoAuth, held |-> NoDocument,
        answer |-> 0, refused |-> FALSE, force |-> FALSE, imports |-> TRUE]

CredentialSyncTypeOK ==
  /\ document \in [Auths -> Document] /\ imported \in [Auths -> 0 .. MaxRotations]
  /\ honoured \in [Auths -> 0 .. MaxRotations]
  /\ syncer \in [Syncers ->
       [at : {"off", "loops", "next", "exchanges", "writes", "imports"},
        left : SUBSET Auths, auth : Auths \cup {NoAuth}, held : Document,
        answer : 0 .. MaxRotations, refused : BOOLEAN, force : BOOLEAN,
        imports : BOOLEAN]]
  /\ current \in Threadlike \cup {NoThread}
  /\ stopped \in BOOLEAN /\ stopping \in BOOLEAN
  /\ both \subseteq Auths /\ unheard \subseteq Auths

CredentialSyncInit ==
  /\ document = [p \in Auths |-> NoDocument]
  /\ imported = [p \in Auths |-> 0]
  /\ honoured = [p \in Auths |-> 0]
  /\ syncer = [a \in Syncers |-> Off]
  /\ current = NoThread /\ stopped = FALSE /\ stopping = FALSE
  /\ both = {} /\ unheard = {}

list_cpa_singles == {p \in Auths : document[p] # NoDocument}
InHands(a) == syncer[a].auth
StandsAt(a, place) == syncer[a].at = place
GoesTo(a, place) == syncer' = [syncer EXCEPT ![a].at = place]
\* The cycle is done with its file and takes the next one.
LetsGo(a) ==
  syncer' = [syncer EXCEPT ![a].at = "next", ![a].auth = NoAuth,
                           ![a].held = NoDocument, ![a].answer = 0,
                           ![a].refused = FALSE]

----------------------------------------------------------------------------
\* Around the cycles

\* An account is enrolled: its file appears, with a token fresh or old.
Enrol(p) ==
  /\ document[p] = NoDocument
  /\ document' = [document EXCEPT ![p] = [token |-> 1, due |-> FALSE]]
  /\ honoured' = [honoured EXCEPT ![p] = 1]
  /\ UNCHANGED <<imported, syncer, current, stopped, stopping, both, unheard>>

\* Time passes: less than refresh_lead_sec is left.
FallsDue(p) ==
  /\ p \in list_cpa_singles /\ ~document[p].due
  /\ document' = [document EXCEPT ![p].due = TRUE]
  /\ UNCHANGED <<imported, honoured, syncer, current, stopped, stopping, both,
                 unheard>>

\* The provider withdraws an account.
Revoke(p) ==
  /\ honoured[p] # 0
  /\ honoured' = [honoured EXCEPT ![p] = 0]
  /\ UNCHANGED <<document, imported, syncer, current, stopped, stopping, both,
                 unheard>>

----------------------------------------------------------------------------
\* One cycle: run_once

\* The worker's exchanges what is due and imports all; the panel's may be
\* told to exchange all, to leave the copies, or to stop after a few files.
run_once(a) ==
  /\ syncer' = [syncer EXCEPT ![a].at = "next", ![a].left = list_cpa_singles]
  /\ UNCHANGED <<document, imported, honoured, current, stopped, stopping,
                 both, unheard>>

do_POST ==
  /\ StandsAt("request", "off")
  /\ \E chosen \in SUBSET list_cpa_singles, force, imports \in BOOLEAN :
       /\ chosen # {}
       /\ syncer' = [syncer EXCEPT !["request"] =
            [Off EXCEPT !.at = "next", !.left = chosen, !.force = force,
                        !.imports = imports]]
  /\ UNCHANGED <<document, imported, honoured, current, stopped, stopping,
                 both, unheard>>

Ended(a) == IF a \in Threadlike THEN "loops" ELSE "off"
EndCycle(a) ==
  /\ StandsAt(a, "next") /\ syncer[a].left = {}
  /\ syncer' = [syncer EXCEPT ![a] = [Off EXCEPT !.at = Ended(a)]]
  /\ UNCHANGED <<document, imported, honoured, current, stopped, stopping,
                 both, unheard>>

\* The file is read here, and what is written later is made from this.
needs_refresh(a, p) == document[p].due \/ syncer[a].force

refresh_document_file(a, p) ==
  /\ StandsAt(a, "next") /\ p \in syncer[a].left
  /\ syncer' = [syncer EXCEPT
       ![a].at = IF needs_refresh(a, p) THEN "exchanges" ELSE "imports",
       ![a].left = @ \ {p}, ![a].auth = p, ![a].held = document[p]]
  /\ both' = IF \E b \in Syncers \ {a} : InHands(b) = p
               THEN both \cup {p} ELSE both
  /\ UNCHANGED <<document, imported, honoured, current, stopped, stopping,
                 unheard>>

\* The provider answers with the same token or the next, and refuses one it
\* does not honour; the answer may not arrive, or the question may not.
refresh_access_token(a) ==
  LET p == InHands(a) IN
  /\ StandsAt(a, "exchanges")
  /\ \/ /\ syncer[a].held.token = honoured[p]
        /\ \E token \in {honoured[p], honoured[p] + 1} :
             /\ token <= MaxRotations
             /\ honoured' = [honoured EXCEPT ![p] = token]
             /\ \/ /\ syncer' = [syncer EXCEPT ![a].at = "writes",
                                               ![a].answer = token]
                   /\ UNCHANGED unheard
                \/ /\ token # honoured[p]
                   /\ unheard' = unheard \cup {p}
                   /\ GoesTo(a, "writes")
     \/ /\ syncer[a].held.token # honoured[p]
        /\ syncer' = [syncer EXCEPT ![a].at = "writes", ![a].refused = TRUE]
        /\ UNCHANGED <<honoured, unheard>>
     \/ GoesTo(a, "writes") /\ UNCHANGED <<honoured, unheard>>
  /\ UNCHANGED <<document, imported, current, stopped, stopping, both>>

apply_token_to_document_Keeps(held, token) ==
  \* Defect: the refresh token the file has wins over the one answered.
  [token |-> held.token, due |-> FALSE]

apply_token_to_document(held, token) == [token |-> token, due |-> FALSE]

\* Asked to, the cycle imports the file next, unless it was refused.
GoesOn(a) ==
  IF syncer[a].imports /\ ~syncer[a].refused
    THEN GoesTo(a, "imports") ELSE LetsGo(a)

\* The answer goes into the file.  Without one the document read before is
\* written back with a note.
_atomic_write_json(a) ==
  LET s == syncer[a] IN
  /\ StandsAt(a, "writes")
  /\ document' = [document EXCEPT ![s.auth] =
       IF s.answer = 0 THEN s.held ELSE apply_token_to_document(s.held, s.answer)]
  /\ GoesOn(a)
  /\ UNCHANGED <<imported, honoured, current, stopped, stopping, both, unheard>>

\* The write fails: a note is given up, a new token with the whole cycle.
RewriteFails(a) ==
  LET s == syncer[a] IN
  /\ StandsAt(a, "writes")
  /\ IF s.answer = 0
       THEN GoesOn(a) /\ UNCHANGED unheard
       ELSE /\ syncer' = [syncer EXCEPT ![a] = [Off EXCEPT !.at = Ended(a)]]
            /\ unheard' = unheard \cup {s.auth}
  /\ UNCHANGED <<document, imported, honoured, current, stopped, stopping, both>>

\* By file or through the management API the CLIProxyAPI gets the document
\* as it is now; a copy that is the same is left alone, and a copy may fail.
import_file_copy(p) == [imported EXCEPT ![p] = document[p].token]

import_one(a) ==
  LET p == InHands(a) IN
  /\ StandsAt(a, "imports")
  /\ imported' \in {imported, IF syncer[a].imports
                                THEN import_file_copy(p) ELSE imported}
  /\ LetsGo(a)
  /\ UNCHANGED <<document, honoured, current, stopped, stopping, both, unheard>>

----------------------------------------------------------------------------
\* The worker

Runs(t) == t # NoThread /\ ~StandsAt(t, "off")

start_worker ==
  /\ ~Runs(current)
  /\ stopped' = FALSE
  /\ \E t \in Threadlike :
       /\ StandsAt(t, "off")
       /\ current' = t
       /\ GoesTo(t, "loops")
  /\ UNCHANGED <<document, imported, honoured, stopping, both, unheard>>

\* The loop looks at the event before a cycle and while it waits for one.
_loop(t) ==
  /\ StandsAt(t, "loops")
  /\ IF stopped
       THEN /\ syncer' = [syncer EXCEPT ![t] = Off]
            /\ UNCHANGED <<document, imported, honoured, current, stopped,
                           stopping, both, unheard>>
       ELSE run_once(t)

stop_worker ==
  /\ ~stopping
  /\ stopped' = TRUE /\ stopping' = TRUE
  /\ UNCHANGED <<document, imported, honoured, syncer, current, both, unheard>>

\* The thread has ended or five seconds have passed: it is forgotten.
Forget ==
  /\ stopping
  /\ current' = NoThread /\ stopping' = FALSE
  /\ UNCHANGED <<document, imported, honoured, syncer, stopped, both, unheard>>

\* The panel ends at any point, and a new one starts with no worker.
PanelDies ==
  /\ syncer' = [a \in Syncers |-> Off]
  /\ unheard' = unheard \cup
       {p \in Auths : \E a \in Syncers :
          InHands(a) = p /\ StandsAt(a, "writes") /\ syncer[a].answer # 0}
  /\ current' = NoThread /\ stopped' = FALSE /\ stopping' = FALSE
  /\ UNCHANGED <<document, imported, honoured, both>>

----------------------------------------------------------------------------
CredentialSyncNext ==
  \/ \E p \in Auths : Enrol(p) \/ FallsDue(p) \/ Revoke(p)
  \/ do_POST \/ start_worker \/ stop_worker \/ Forget \/ PanelDies
  \/ \E t \in Threadlike : _loop(t)
  \/ \E a \in Syncers :
       \/ EndCycle(a) \/ refresh_access_token(a) \/ _atomic_write_json(a)
       \/ RewriteFails(a) \/ import_one(a)
       \/ \E p \in Auths : refresh_document_file(a, p)

CredentialSyncSpec ==
  CredentialSyncInit /\ [][CredentialSyncNext]_syncVars

----------------------------------------------------------------------------
\* However cycles of the worker, of a worker thread that was forgotten and
\* of the panel's requests interleave, a file none of them has in hands
\* holds the token the provider honours: no failed exchange, and no document
\* read too early, brings an old one back.  Excepted are a file that two
\* cycles had in hands at once and one whose new token did not get there.
TokenKept ==
  \A p \in list_cpa_singles :
    \/ p \in both \cup unheard
    \/ \E a \in Syncers : InHands(a) = p
    \/ honoured[p] \in {0, document[p].token}
=============================================================================
