---------------------------- MODULE ServiceProofs ----------------------------
(***************************************************************************)
(* Theorems about the services around the registration, for any instance:  *)
(* the cycles over the CPA files, the pool of hot pages, the key files,    *)
(* the gateway's jobs and the exits of the proxy relay.                    *)
(***************************************************************************)
EXTENDS CredentialSync, HotPages, KeyFiles, SolverGateway, ProxyRelay,
  FiniteSetTheorems, TLAPS

----------------------------------------------------------------------------
\* The cycles over the CPA files

\* A file that no two cycles had in hands and whose tokens all arrived.
Clean(p) == p \notin both \cup unheard

\* What a cycle knows of the file in its hands: before it has an answer, the
\* file's own token, which is honoured if any is; then the answer is.
Knows(a, p) ==
  LET s == syncer[a] IN
  IF s.at = "writes" /\ s.answer # 0
  THEN honoured[p] \in {0, s.answer}
  ELSE /\ honoured[p] \in {0, document[p].token}
       /\ s.at # "imports" => s.held.token = document[p].token /\ s.answer = 0

\* Where a cycle has a file in hands; without one it has no answer.
HandsAgree ==
  \A a \in Syncers :
    /\ syncer[a].at \in {"off", "loops", "next"} <=> InHands(a) = NoAuth
    /\ InHands(a) = NoAuth => syncer[a].answer = 0

\* A clean file is in one cycle's hands at most, and that cycle knows its
\* token; a file that is not there has no token, and nobody knows of it.
FileKnown(p) ==
  /\ document[p].token = 0 =>
       /\ document[p] = NoDocument /\ honoured[p] = 0
       /\ \A a \in Syncers : InHands(a) # p /\ p \notin syncer[a].left
  /\ \A a, b \in Syncers : InHands(a) = p /\ InHands(b) = p => a = b
  /\ \A a \in Syncers : InHands(a) = p => Knows(a, p)
  /\ (\A a \in Syncers : InHands(a) # p)
       => honoured[p] \in {0, document[p].token}

FilesKnown == \A p \in Auths : Clean(p) => FileKnown(p)

\* TokenKept is inductive with this.
TokenInv == CredentialSyncTypeOK /\ HandsAgree /\ FilesKnown

\* The type of a cycle.
Cycle ==
  [at : {"off", "loops", "next", "exchanges", "writes", "imports"},
   left : SUBSET Auths, auth : Auths \cup {NoAuth}, held : Document,
   answer : 0 .. MaxRotations, refused : BOOLEAN, force : BOOLEAN,
   imports : BOOLEAN]

LEMMA OffIsCycle == NoDocument \in Document /\ Off \in Cycle
<1>1. 0 \in 0 .. MaxRotations
  BY SyncAssumption
<1>2. NoDocument \in Document
  BY <1>1 DEF NoDocument, Document
<1> QED
  BY <1>1, <1>2 DEF Off, Cycle

LEMMA TokenInitInv == CredentialSyncInit => TokenInv
<1> SUFFICES ASSUME CredentialSyncInit PROVE TokenInv
  OBVIOUS
<1>1. /\ syncer \in [Syncers -> Cycle] /\ document \in [Auths -> Document]
      /\ imported \in [Auths -> 0 .. MaxRotations]
      /\ honoured \in [Auths -> 0 .. MaxRotations]
  BY OffIsCycle, SyncAssumption DEF CredentialSyncInit
<1>2. CredentialSyncTypeOK
  BY <1>1 DEF CredentialSyncInit, CredentialSyncTypeOK, Cycle
<1>3. HandsAgree /\ FilesKnown
  BY SyncAssumption
  DEF CredentialSyncInit, HandsAgree, FilesKnown, FileKnown, Off, InHands, NoDocument
<1> QED
  BY <1>2, <1>3 DEF TokenInv

LEMMA OutsideInv ==
  ASSUME TokenInv, NEW p \in Auths, Enrol(p) \/ FallsDue(p) \/ Revoke(p)
  PROVE  TokenInv'
<1>1. CredentialSyncTypeOK'
  <2>1. CASE Enrol(p)
    <3>1. 1 \in 0 .. MaxRotations
      BY SyncAssumption
    <3>2. document' \in [Auths -> Document] /\ honoured' \in [Auths -> 0 .. MaxRotations]
      BY <2>1, <3>1 DEF TokenInv, CredentialSyncTypeOK, Document, Enrol
    <3> QED
      BY <2>1, <3>2 DEF TokenInv, CredentialSyncTypeOK, Enrol
  <2>2. CASE FallsDue(p)
    <3>1. document' \in [Auths -> Document]
      BY <2>2 DEF TokenInv, CredentialSyncTypeOK, Document, FallsDue
    <3> QED
      BY <2>2, <3>1 DEF TokenInv, CredentialSyncTypeOK, FallsDue
  <2>3. CASE Revoke(p)
    <3>1. honoured' \in [Auths -> 0 .. MaxRotations]
      BY <2>3, SyncAssumption DEF TokenInv, CredentialSyncTypeOK, Revoke
    <3> QED
      BY <2>3, <3>1 DEF TokenInv, CredentialSyncTypeOK, Revoke
  <2> QED
    BY <2>1, <2>2, <2>3
<1>2. HandsAgree'
  BY DEF TokenInv, HandsAgree, InHands, Enrol, FallsDue, Revoke
<1>3. ASSUME NEW q \in Auths, Clean(q)' PROVE FileKnown(q)'
  <2>1. Clean(q) /\ FileKnown(q)
    BY <1>3 DEF TokenInv, FilesKnown, Clean, Enrol, FallsDue, Revoke
  <2>2. CASE Enrol(p)
    BY <2>1, <2>2 DEF TokenInv, CredentialSyncTypeOK, Document, NoDocument,
       FileKnown, Knows, InHands, Enrol
  <2>3. CASE FallsDue(p)
    <3>1. /\ document'[q].token = document[q].token
          /\ document[q].token = 0 => document'[q] = document[q]
      BY <2>1, <2>3 DEF TokenInv, CredentialSyncTypeOK, Document, NoDocument,
         FileKnown, FallsDue, list_cpa_singles
    <3> QED
      BY <2>1, <2>3, <3>1 DEF FileKnown, Knows, InHands, FallsDue
  <2>4. CASE Revoke(p)
    BY <2>1, <2>4 DEF TokenInv, CredentialSyncTypeOK, FileKnown, Knows,
       InHands, Revoke
  <2> QED
    BY <2>2, <2>3, <2>4
<1> QED
  BY <1>1, <1>2, <1>3 DEF TokenInv, FilesKnown

\* A cycle that begins, goes on to its next file, ends or is given up knows
\* of nothing in hands, and what it lists has a token.
LEMMA IdleStepInv ==
  ASSUME TokenInv, NEW a \in Syncers, NEW c \in Cycle,
         c.at \in {"off", "loops", "next"}, c.auth = NoAuth, c.answer = 0,
         InHands(a) = NoAuth, c.left \subseteq syncer[a].left \cup list_cpa_singles,
         syncer' = [syncer EXCEPT ![a] = c],
         UNCHANGED <<document, imported, honoured, both, unheard>>,
         current' \in Threadlike \cup {NoThread}, stopped' \in BOOLEAN,
         stopping' \in BOOLEAN
  PROVE  TokenInv'
<1>1. CredentialSyncTypeOK'
  BY DEF TokenInv, CredentialSyncTypeOK, Cycle
<1>2. HandsAgree'
  BY DEF TokenInv, CredentialSyncTypeOK, HandsAgree, InHands
<1>3. ASSUME NEW q \in Auths, Clean(q)' PROVE FileKnown(q)'
  <2>1. Clean(q) /\ FileKnown(q)
    BY <1>3 DEF TokenInv, FilesKnown, Clean
  <2>2. q # NoAuth
    BY SyncAssumption
  <2>3. \A b \in Syncers : b # a => syncer'[b] = syncer[b]
    BY DEF TokenInv, CredentialSyncTypeOK
  <2>4. syncer'[a] = c
    BY DEF TokenInv, CredentialSyncTypeOK
  <2>5. \A b \in Syncers : (InHands(b) = q)' <=> InHands(b) = q
    BY <2>2, <2>3, <2>4 DEF InHands
  <2>6. document[q].token = 0 => q \notin c.left
    BY <2>1 DEF FileKnown, list_cpa_singles
  <2>7. ASSUME NEW b \in Syncers, InHands(b)' = q PROVE Knows(b, q)'
    BY <2>1, <2>2, <2>3, <2>4, <2>5, <2>7 DEF FileKnown, Knows, InHands
  <2> QED
    BY <2>1, <2>3, <2>4, <2>5, <2>6, <2>7 DEF FileKnown
<1> QED
  BY <1>1, <1>2, <1>3 DEF TokenInv, FilesKnown

\* A step of the cycle that has file p in hands leaves the others alone; it
\* is enough to look at p.
LEMMA FileStepKnown ==
  ASSUME TokenInv, NEW a \in Syncers, NEW p \in Auths, InHands(a) = p,
         \A b \in Syncers : b # a => syncer'[b] = syncer[b],
         syncer'[a].left \subseteq syncer[a].left,
         syncer'[a].auth \in {p, NoAuth},
         \A q \in Auths : q # p =>
           document'[q] = document[q] /\ honoured'[q] = honoured[q],
         both \subseteq both', unheard \subseteq unheard',
         Clean(p)' => document'[p].token # 0,
         Clean(p)' /\ syncer'[a].auth = p => Knows(a, p)',
         Clean(p)' /\ syncer'[a].auth = NoAuth
           => honoured'[p] \in {0, document'[p].token}
  PROVE  FilesKnown'
<1> SUFFICES ASSUME NEW q \in Auths, Clean(q)' PROVE FileKnown(q)'
  BY DEF FilesKnown
<1>1. Clean(q) /\ FileKnown(q)
  BY DEF TokenInv, FilesKnown, Clean
<1>2. q # NoAuth /\ p # NoAuth
  BY SyncAssumption
<1>3. CASE q # p
  <2>1. \A b \in Syncers : (InHands(b) = q)' <=> InHands(b) = q
    BY <1>2, <1>3 DEF InHands
  <2>2. ASSUME NEW b \in Syncers, InHands(b)' = q PROVE Knows(b, q)'
    <3>1. syncer'[b] = syncer[b]
      BY <1>2, <1>3, <2>2 DEF InHands
    <3>2. Knows(b, q)
      BY <1>1, <2>1, <2>2 DEF FileKnown
    <3> QED
      BY <1>3, <3>1, <3>2 DEF Knows
  <2> QED
    BY <1>1, <1>3, <2>1, <2>2 DEF FileKnown
<1>4. CASE q = p
  <2>1. \A b \in Syncers : InHands(b)' = p => b = a
    BY <1>1, <1>4 DEF FileKnown, InHands
  <2>2. InHands(a)' = syncer'[a].auth
    BY DEF InHands
  <2>3. Clean(p)' /\ document'[p].token # 0
    BY <1>4
  <2>4. ASSUME NEW b \in Syncers, InHands(b)' = p PROVE Knows(b, p)'
    BY <2>1, <2>2, <2>3, <2>4
  <2>5. (\A b \in Syncers : InHands(b)' # p) => honoured'[p] \in {0, document'[p].token}
    BY <2>2, <2>3
  <2> QED
    BY <1>4, <2>1, <2>3, <2>4, <2>5 DEF FileKnown
<1> QED
  BY <1>3, <1>4

\* Where a clean file is in hands, it has a token and the cycle knows it.
LEMMA InHandsKnown ==
  ASSUME TokenInv, NEW a \in Syncers, NEW p \in Auths, InHands(a) = p, Clean(p)
  PROVE  document[p].token # 0 /\ Knows(a, p)
BY DEF TokenInv, FilesKnown, FileKnown

LEMMA ReadInv ==
  ASSUME TokenInv, NEW a \in Syncers, NEW p \in Auths, refresh_document_file(a, p)
  PROVE  TokenInv'
<1>1. /\ p \in syncer[a].left /\ InHands(a) = NoAuth
      /\ p # NoAuth
  BY SyncAssumption DEF TokenInv, HandsAgree, refresh_document_file, StandsAt
<1>2. PICK at \in {"exchanges", "imports"} :
        syncer' = [syncer EXCEPT ![a].at = at, ![a].left = @ \ {p},
                                 ![a].auth = p, ![a].held = document[p]]
  BY DEF refresh_document_file
<1>3. /\ syncer'[a].at = at /\ syncer'[a].left = syncer[a].left \ {p}
      /\ syncer'[a].auth = p /\ syncer'[a].held = document[p]
      /\ syncer'[a].answer = syncer[a].answer
      /\ \A b \in Syncers : b # a => syncer'[b] = syncer[b]
  BY <1>2 DEF TokenInv, CredentialSyncTypeOK
<1>4. CredentialSyncTypeOK'
  <2>1. document[p] \in Document
    BY DEF TokenInv, CredentialSyncTypeOK
  <2>2. syncer' \in [Syncers -> Cycle]
    <3> DEFINE c == [syncer[a] EXCEPT !.at = at, !.left = @ \ {p}, !.auth = p,
                                      !.held = document[p]]
    <3>1. syncer \in [Syncers -> Cycle]
      BY DEF TokenInv, CredentialSyncTypeOK, Cycle
    <3>2. c \in Cycle
      BY <2>1, <3>1 DEF Cycle
    <3>3. syncer' = [syncer EXCEPT ![a] = c]
      BY <1>2, <3>1
    <3> QED
      BY <3>1, <3>2, <3>3
  <2>3. both' \subseteq Auths
    BY DEF TokenInv, CredentialSyncTypeOK, refresh_document_file
  <2> QED
    BY <2>2, <2>3 DEF TokenInv, CredentialSyncTypeOK, refresh_document_file, Cycle
<1>5. HandsAgree'
  BY <1>1, <1>3 DEF TokenInv, HandsAgree, InHands
<1>6. ASSUME NEW q \in Auths, Clean(q)' PROVE FileKnown(q)'
  <2>1. Clean(q) /\ FileKnown(q)
    BY <1>6 DEF TokenInv, FilesKnown, Clean, refresh_document_file
  <2>2. UNCHANGED <<document, honoured>>
    BY DEF refresh_document_file
  <2>3. CASE q # p
    <3>1. \A b \in Syncers : (InHands(b) = q)' <=> InHands(b) = q
      BY <1>1, <1>3, <2>3, SyncAssumption DEF InHands
    <3>2. ASSUME NEW b \in Syncers, InHands(b)' = q PROVE Knows(b, q)'
      <4>1. syncer'[b] = syncer[b]
        BY <1>3, <2>3, <3>2 DEF InHands
      <4>2. Knows(b, q)
        BY <2>1, <3>1, <3>2 DEF FileKnown
      <4> QED
        BY <2>2, <4>1, <4>2 DEF Knows
    <3>3. \A b \in Syncers : syncer'[b].left \subseteq syncer[b].left
      BY <1>3
    <3> QED
      BY <2>1, <2>2, <3>1, <3>2, <3>3 DEF FileKnown
  <2>4. CASE q = p
    <3>1. \A b \in Syncers : b # a => InHands(b) # p
      BY <1>6, <2>4 DEF Clean, refresh_document_file
    <3>2. document[p].token # 0 /\ honoured[p] \in {0, document[p].token}
      BY <1>1, <2>1, <2>4, <3>1 DEF FileKnown
    <3>3. InHands(a)' = p /\ \A b \in Syncers : b # a => InHands(b)' # p
      BY <1>3, <3>1 DEF InHands
    <3>4. syncer[a].answer = 0
      BY <1>1 DEF TokenInv, HandsAgree
    <3>5. Knows(a, p)'
      BY <1>3, <2>2, <3>2, <3>4 DEF Knows
    <3> QED
      BY <2>2, <2>4, <3>2, <3>3, <3>5 DEF FileKnown
  <2> QED
    BY <2>3, <2>4
<1> QED
  BY <1>4, <1>5, <1>6 DEF TokenInv, FilesKnown

LEMMA CycleTypes ==
  ASSUME TokenInv
  PROVE  syncer \in [Syncers -> Cycle]
BY DEF TokenInv, CredentialSyncTypeOK, Cycle

LEMMA CycleEndsInv ==
  ASSUME TokenInv, NEW a \in Syncers, EndCycle(a)
  PROVE  TokenInv'
<1> DEFINE c == [Off EXCEPT !.at = Ended(a)]
<1>1. c \in Cycle /\ c.at \in {"off", "loops"} /\ c.auth = NoAuth /\ c.answer = 0
      /\ c.left = {}
  BY OffIsCycle DEF Off, Cycle, Ended
<1>2. InHands(a) = NoAuth
  BY DEF TokenInv, HandsAgree, EndCycle, StandsAt
<1>3. syncer' = [syncer EXCEPT ![a] = c]
  BY DEF EndCycle
<1> QED
  BY <1>1, <1>2, <1>3, IdleStepInv DEF EndCycle, TokenInv, CredentialSyncTypeOK

LEMMA RequestInv ==
  ASSUME TokenInv, do_POST
  PROVE  TokenInv'
<1>1. PICK chosen \in SUBSET list_cpa_singles, force, imports \in BOOLEAN :
        syncer' = [syncer EXCEPT !["request"] =
          [Off EXCEPT !.at = "next", !.left = chosen, !.force = force,
                      !.imports = imports]]
  BY DEF do_POST
<1> DEFINE c == [Off EXCEPT !.at = "next", !.left = chosen, !.force = force,
                            !.imports = imports]
<1>2. chosen \subseteq Auths
  BY DEF list_cpa_singles
<1>3. c \in Cycle /\ c.at = "next" /\ c.auth = NoAuth /\ c.answer = 0
      /\ c.left = chosen
  BY <1>2, OffIsCycle DEF Off, Cycle
<1>4. "request" \in Syncers /\ InHands("request") = NoAuth
  BY DEF TokenInv, HandsAgree, do_POST, StandsAt, Syncers
<1>5. syncer' = [syncer EXCEPT !["request"] = c]
  BY <1>1
<1> QED
  BY <1>3, <1>4, <1>5, IdleStepInv DEF do_POST, TokenInv, CredentialSyncTypeOK

LEMMA WorkerInv ==
  ASSUME TokenInv, start_worker \/ \E t \in Threadlike : _loop(t)
  PROVE  TokenInv'
<1>1. CASE start_worker
  <2>1. PICK t \in Threadlike :
          StandsAt(t, "off") /\ current' = t /\ GoesTo(t, "loops")
    BY <1>1 DEF start_worker
  <2> DEFINE c == [syncer[t] EXCEPT !.at = "loops"]
  <2>2. t \in Syncers /\ syncer[t] \in Cycle /\ syncer[t].at = "off"
    BY <2>1, CycleTypes DEF Syncers, StandsAt
  <2>3. InHands(t) = NoAuth /\ syncer[t].answer = 0
    BY <2>2 DEF TokenInv, HandsAgree
  <2>4. c \in Cycle /\ c.at = "loops" /\ c.auth = NoAuth /\ c.answer = 0
        /\ c.left = syncer[t].left
    BY <2>2, <2>3 DEF Cycle, InHands
  <2>5. syncer' = [syncer EXCEPT ![t] = c]
    BY <2>1, CycleTypes DEF GoesTo
  <2> QED
    BY <1>1, <2>1, <2>2, <2>3, <2>4, <2>5, IdleStepInv
    DEF start_worker, TokenInv, CredentialSyncTypeOK
<1>2. ASSUME NEW t \in Threadlike, _loop(t) PROVE TokenInv'
  <2>1. t \in Syncers /\ syncer[t] \in Cycle /\ syncer[t].at = "loops"
    BY <1>2, CycleTypes DEF Syncers, _loop, StandsAt
  <2>2. InHands(t) = NoAuth /\ syncer[t].answer = 0
    BY <2>1 DEF TokenInv, HandsAgree
  <2>3. CASE stopped
    <3>1. Off \in Cycle /\ Off.at = "off" /\ Off.auth = NoAuth /\ Off.answer = 0
          /\ Off.left = {}
      BY OffIsCycle DEF Off
    <3>2. syncer' = [syncer EXCEPT ![t] = Off]
      BY <1>2, <2>3 DEF _loop
    <3> QED
      BY <1>2, <2>1, <2>2, <2>3, <3>1, <3>2, IdleStepInv
      DEF _loop, TokenInv, CredentialSyncTypeOK
  <2>4. CASE ~stopped
    <3> DEFINE c == [syncer[t] EXCEPT !.at = "next", !.left = list_cpa_singles]
    <3>1. list_cpa_singles \subseteq Auths
      BY DEF list_cpa_singles
    <3>2. c \in Cycle /\ c.at = "next" /\ c.auth = NoAuth /\ c.answer = 0
          /\ c.left = list_cpa_singles
      BY <2>1, <2>2, <3>1 DEF Cycle, InHands
    <3>3. syncer' = [syncer EXCEPT ![t] = c]
      BY <1>2, <2>4, CycleTypes DEF _loop, run_once
    <3>4. /\ UNCHANGED <<document, imported, honoured, both, unheard>>
          /\ UNCHANGED <<current, stopped, stopping>>
      BY <1>2, <2>4 DEF _loop, run_once
    <3>5. current' \in Threadlike \cup {NoThread} /\ stopped' \in BOOLEAN
          /\ stopping' \in BOOLEAN
      BY <3>4 DEF TokenInv, CredentialSyncTypeOK
    <3>6. c.left \subseteq syncer[t].left \cup list_cpa_singles
      BY <3>2
    <3> HIDE DEF c
    <3> QED
      BY <2>1, <2>2, <3>2, <3>3, <3>4, <3>5, <3>6, IdleStepInv
  <2> QED
    BY <2>3, <2>4
<1> QED
  BY <1>1, <1>2

LEMMA StopInv ==
  ASSUME TokenInv, stop_worker \/ Forget
  PROVE  TokenInv'
<1>1. UNCHANGED <<document, imported, honoured, syncer, both, unheard>>
  BY DEF stop_worker, Forget
<1>2. CredentialSyncTypeOK'
  BY <1>1 DEF TokenInv, CredentialSyncTypeOK, stop_worker, Forget
<1>3. HandsAgree' /\ FilesKnown'
  BY <1>1
  DEF TokenInv, HandsAgree, FilesKnown, FileKnown, Knows, InHands, Clean
<1> QED
  BY <1>2, <1>3 DEF TokenInv

\* An answer that dies with the panel was not heard; where there was none the
\* file has the honoured token.
LEMMA PanelDiesInv ==
  ASSUME TokenInv, PanelDies
  PROVE  TokenInv'
<1>1. syncer' \in [Syncers -> Cycle]
  BY OffIsCycle DEF PanelDies
<1>2. CredentialSyncTypeOK'
  BY <1>1 DEF TokenInv, CredentialSyncTypeOK, PanelDies, Cycle
<1>3. \A a \in Syncers : /\ syncer'[a].at = "off" /\ syncer'[a].auth = NoAuth
                          /\ syncer'[a].answer = 0 /\ syncer'[a].left = {}
  BY DEF PanelDies, Off
<1>4. HandsAgree'
  BY <1>3 DEF HandsAgree, InHands
<1>5. ASSUME NEW q \in Auths, Clean(q)' PROVE FileKnown(q)'
  <2>1. Clean(q) /\ FileKnown(q)
    BY <1>5 DEF TokenInv, FilesKnown, Clean, PanelDies
  <2>2. honoured[q] \in {0, document[q].token}
    <3>1. CASE \E a \in Syncers : InHands(a) = q
      <4>1. PICK a \in Syncers : InHands(a) = q
        BY <3>1
      <4>2. ~(syncer[a].at = "writes" /\ syncer[a].answer # 0)
        BY <1>5, <4>1 DEF Clean, PanelDies, StandsAt
      <4> QED
        BY <2>1, <4>1, <4>2 DEF FileKnown, Knows
    <3> QED
      BY <2>1, <3>1 DEF FileKnown
  <2>3. \A a \in Syncers : InHands(a)' # q
    BY <1>3, SyncAssumption DEF InHands
  <2>4. UNCHANGED <<document, honoured>>
    BY DEF PanelDies
  <2> QED
    BY <1>3, <2>1, <2>2, <2>3, <2>4 DEF FileKnown
<1> QED
  BY <1>2, <1>4, <1>5 DEF TokenInv, FilesKnown

\* The record of a cycle that is done with its file.
Done(a) == [syncer[a] EXCEPT !.at = "next", !.auth = NoAuth, !.held = NoDocument,
                             !.answer = 0, !.refused = FALSE]

\* What is the same of every step of a cycle with its file: with the types
\* of the new record, only the file is left to be looked at.
LEMMA FileStepInv ==
  ASSUME TokenInv, NEW a \in Syncers, NEW p \in Auths, InHands(a) = p,
         NEW c \in Cycle, syncer' = [syncer EXCEPT ![a] = c],
         c.left \subseteq syncer[a].left,
         \/ c.auth = p /\ c.at \in {"exchanges", "writes", "imports"}
         \/ c.auth = NoAuth /\ c.at \in {"off", "loops", "next"} /\ c.answer = 0,
         document' \in [Auths -> Document],
         imported' \in [Auths -> 0 .. MaxRotations],
         honoured' \in [Auths -> 0 .. MaxRotations],
         \A q \in Auths : q # p =>
           document'[q] = document[q] /\ honoured'[q] = honoured[q],
         UNCHANGED <<current, stopped, stopping, both>>,
         unheard \subseteq unheard', unheard' \subseteq Auths,
         Clean(p)' => document'[p].token # 0,
         Clean(p)' /\ c.auth = p => Knows(a, p)',
         Clean(p)' /\ c.auth = NoAuth => honoured'[p] \in {0, document'[p].token}
  PROVE  TokenInv'
<1>1. syncer \in [Syncers -> Cycle]
  BY CycleTypes
<1>2. syncer'[a] = c /\ \A b \in Syncers : b # a => syncer'[b] = syncer[b]
  BY <1>1
<1>3. syncer' \in [Syncers -> Cycle]
  BY <1>1
<1>4. CredentialSyncTypeOK'
  BY <1>3 DEF TokenInv, CredentialSyncTypeOK, Cycle
<1>5. HandsAgree'
  <2> SUFFICES ASSUME NEW b \in Syncers
      PROVE /\ (syncer'[b].at \in {"off", "loops", "next"} <=> InHands(b)' = NoAuth)
            /\ (InHands(b)' = NoAuth => syncer'[b].answer = 0)
    BY DEF HandsAgree
  <2>1. CASE b = a
    BY <1>2, <2>1, SyncAssumption DEF InHands
  <2>2. CASE b # a
    BY <1>2, <2>2 DEF TokenInv, HandsAgree, InHands
  <2> QED
    BY <2>1, <2>2
<1>6. FilesKnown'
  BY <1>2, FileStepKnown
<1> QED
  BY <1>4, <1>5, <1>6 DEF TokenInv

LEMMA DoneIsCycle ==
  ASSUME NEW a \in Syncers, syncer[a] \in Cycle
  PROVE  /\ Done(a) \in Cycle /\ Done(a).at = "next" /\ Done(a).auth = NoAuth
         /\ Done(a).answer = 0 /\ Done(a).left = syncer[a].left
<1>1. 0 \in 0 .. MaxRotations
  BY SyncAssumption
<1> QED
  BY <1>1, OffIsCycle DEF Done, Cycle

\* Whoever has left "next" has a file in hands.
LEMMA HoldsFile ==
  ASSUME TokenInv, NEW a \in Syncers,
         syncer[a].at \in {"exchanges", "writes", "imports"}
  PROVE  /\ syncer[a] \in Cycle
         /\ \E p \in Auths : InHands(a) = p /\ syncer[a].auth = p
         /\ NoAuth \notin Auths
<1>1. syncer[a] \in Cycle
  BY CycleTypes
<1>2. syncer[a].auth \in Auths \cup {NoAuth} /\ syncer[a].auth # NoAuth
  BY <1>1 DEF TokenInv, HandsAgree, Cycle, InHands
<1> QED
  BY <1>1, <1>2, SyncAssumption DEF InHands

LEMMA ImportInv ==
  ASSUME TokenInv, NEW a \in Syncers, import_one(a)
  PROVE  TokenInv'
<1>1. syncer[a].at = "imports"
  BY DEF import_one, StandsAt
<1>2. PICK p \in Auths : InHands(a) = p
  BY <1>1, HoldsFile
<1> DEFINE c == Done(a)
<1>3. c \in Cycle /\ c.at = "next" /\ c.auth = NoAuth /\ c.answer = 0
      /\ c.left = syncer[a].left
  BY <1>1, HoldsFile, DoneIsCycle
<1>4. syncer' = [syncer EXCEPT ![a] = c]
  BY CycleTypes DEF import_one, LetsGo, Done
<1>5. imported' \in [Auths -> 0 .. MaxRotations]
  <2>1. document[p].token \in 0 .. MaxRotations
    BY <1>2 DEF TokenInv, CredentialSyncTypeOK, Document
  <2> QED
    BY <1>2, <2>1 DEF TokenInv, CredentialSyncTypeOK, import_one, import_file_copy
<1>6. UNCHANGED <<document, honoured, both, unheard>>
      /\ UNCHANGED <<current, stopped, stopping>>
  BY DEF import_one
<1>7. Clean(p)' => document'[p].token # 0 /\ honoured'[p] \in {0, document'[p].token}
  <2>1. SUFFICES ASSUME Clean(p)
        PROVE  document[p].token # 0 /\ honoured[p] \in {0, document[p].token}
    BY <1>6 DEF Clean
  <2>2. document[p].token # 0 /\ Knows(a, p)
    BY <1>2, <2>1, InHandsKnown
  <2> QED
    BY <1>1, <2>2 DEF Knows
<1>8. /\ document' \in [Auths -> Document] /\ honoured' \in [Auths -> 0 .. MaxRotations]
      /\ unheard' \subseteq Auths
  BY <1>6 DEF TokenInv, CredentialSyncTypeOK
<1>9. p # NoAuth
  BY SyncAssumption
<1> HIDE DEF c
<1>10. \A q \in Auths : q # p =>
         document'[q] = document[q] /\ honoured'[q] = honoured[q]
  BY <1>6
<1>11. unheard \subseteq unheard'
  BY <1>6
<1> QED
  BY <1>2, <1>3, <1>4, <1>5, <1>6, <1>7, <1>8, <1>9, <1>10, <1>11, FileStepInv

\* After the write the cycle imports the file or lets it go.
LEMMA GoesOnMoves ==
  ASSUME TokenInv, NEW a \in Syncers, syncer[a].at = "writes", GoesOn(a)
  PROVE  \E c \in Cycle :
           /\ syncer' = [syncer EXCEPT ![a] = c]
           /\ c.left = syncer[a].left
           /\ \/ c.auth = syncer[a].auth /\ c.at = "imports"
              \/ c.auth = NoAuth /\ c.at = "next" /\ c.answer = 0
<1>1. syncer[a] \in Cycle
  BY CycleTypes
<1>2. CASE GoesTo(a, "imports")
  <2> DEFINE c == [syncer[a] EXCEPT !.at = "imports"]
  <2>1. c \in Cycle /\ c.left = syncer[a].left /\ c.auth = syncer[a].auth
        /\ c.at = "imports"
    BY <1>1 DEF Cycle
  <2>2. syncer' = [syncer EXCEPT ![a] = c]
    BY <1>2, CycleTypes DEF GoesTo
  <2> QED
    BY <2>1, <2>2
<1>3. CASE LetsGo(a)
  <2>1. syncer' = [syncer EXCEPT ![a] = Done(a)]
    BY <1>3, CycleTypes DEF LetsGo, Done
  <2> QED
    BY <1>1, <2>1, DoneIsCycle
<1> QED
  BY <1>2, <1>3 DEF GoesOn

LEMMA WriteInv ==
  ASSUME TokenInv, NEW a \in Syncers, _atomic_write_json(a)
  PROVE  TokenInv'
<1>1. syncer[a].at = "writes" /\ GoesOn(a)
  BY DEF _atomic_write_json, StandsAt
<1>2. PICK p \in Auths : InHands(a) = p /\ syncer[a].auth = p
  BY <1>1, HoldsFile
<1>3. PICK c \in Cycle :
        /\ syncer' = [syncer EXCEPT ![a] = c]
        /\ c.left = syncer[a].left
        /\ \/ c.auth = p /\ c.at = "imports"
           \/ c.auth = NoAuth /\ c.at = "next" /\ c.answer = 0
  BY <1>1, <1>2, GoesOnMoves
<1> DEFINE written == IF syncer[a].answer = 0 THEN syncer[a].held
                      ELSE [token |-> syncer[a].answer, due |-> FALSE]
<1>4. written \in Document
  BY <1>1, HoldsFile DEF Cycle, Document
<1>5. document' = [document EXCEPT ![p] = written]
  BY <1>2 DEF _atomic_write_json, apply_token_to_document
<1>6. UNCHANGED <<imported, honoured, both, unheard>>
      /\ UNCHANGED <<current, stopped, stopping>>
  BY DEF _atomic_write_json
<1>7. /\ document' \in [Auths -> Document] /\ document'[p] = written
      /\ \A q \in Auths : q # p => document'[q] = document[q]
  BY <1>4, <1>5 DEF TokenInv, CredentialSyncTypeOK
<1>8. /\ imported' \in [Auths -> 0 .. MaxRotations]
      /\ honoured' \in [Auths -> 0 .. MaxRotations] /\ unheard' \subseteq Auths
  BY <1>6 DEF TokenInv, CredentialSyncTypeOK
<1>9. Clean(p)' => document'[p].token # 0 /\ honoured'[p] \in {0, document'[p].token}
  <2>1. SUFFICES ASSUME Clean(p)
        PROVE  written.token # 0 /\ honoured[p] \in {0, written.token}
    BY <1>6, <1>7 DEF Clean
  <2>2. document[p].token # 0 /\ Knows(a, p)
    BY <1>2, <2>1, InHandsKnown
  <2> QED
    BY <1>1, <2>2 DEF Knows
<1>10. syncer'[a] = c
  BY <1>3, CycleTypes
<1>11. Clean(p)' /\ c.auth = p => Knows(a, p)'
  BY <1>3, <1>9, <1>10, SyncAssumption DEF Knows
<1>12. /\ \A q \in Auths : q # p =>
             document'[q] = document[q] /\ honoured'[q] = honoured[q]
       /\ unheard \subseteq unheard'
  BY <1>6, <1>7
<1> QED
  BY <1>2, <1>3, <1>6, <1>7, <1>8, <1>9, <1>11, <1>12, FileStepInv

LEMMA WriteFailsInv ==
  ASSUME TokenInv, NEW a \in Syncers, RewriteFails(a)
  PROVE  TokenInv'
<1>1. syncer[a].at = "writes"
  BY DEF RewriteFails, StandsAt
<1>2. PICK p \in Auths : InHands(a) = p /\ syncer[a].auth = p
  BY <1>1, HoldsFile
<1>3. UNCHANGED <<document, imported, honoured, both>>
      /\ UNCHANGED <<current, stopped, stopping>>
  BY DEF RewriteFails
<1>4. /\ document' \in [Auths -> Document]
      /\ imported' \in [Auths -> 0 .. MaxRotations]
      /\ honoured' \in [Auths -> 0 .. MaxRotations]
  BY <1>3 DEF TokenInv, CredentialSyncTypeOK
<1>5. \A q \in Auths : q # p =>
        document'[q] = document[q] /\ honoured'[q] = honoured[q]
  BY <1>3
<1>6. CASE syncer[a].answer = 0
  <2>1. GoesOn(a) /\ unheard' = unheard
    BY <1>6 DEF RewriteFails
  <2>2. PICK c \in Cycle :
          /\ syncer' = [syncer EXCEPT ![a] = c]
          /\ c.left = syncer[a].left
          /\ \/ c.auth = p /\ c.at = "imports"
             \/ c.auth = NoAuth /\ c.at = "next" /\ c.answer = 0
    BY <1>1, <1>2, <2>1, GoesOnMoves
  <2>3. Clean(p)' => document'[p].token # 0 /\ honoured'[p] \in {0, document'[p].token}
    <3>1. SUFFICES ASSUME Clean(p)
          PROVE  document[p].token # 0 /\ honoured[p] \in {0, document[p].token}
      BY <1>3, <2>1 DEF Clean
    <3>2. document[p].token # 0 /\ Knows(a, p)
      BY <1>2, <3>1, InHandsKnown
    <3> QED
      BY <1>1, <1>6, <3>2 DEF Knows
  <2>4. syncer'[a] = c
    BY <2>2, CycleTypes
  <2>5. Clean(p)' /\ c.auth = p => Knows(a, p)'
    BY <2>2, <2>3, <2>4, SyncAssumption DEF Knows
  <2>6. unheard \subseteq unheard' /\ unheard' \subseteq Auths
    BY <2>1 DEF TokenInv, CredentialSyncTypeOK
  <2> QED
    BY <1>2, <1>3, <1>4, <1>5, <2>2, <2>3, <2>5, <2>6, FileStepInv
<1>7. CASE syncer[a].answer # 0
  <2> DEFINE c == [Off EXCEPT !.at = Ended(a)]
  <2>1. /\ c \in Cycle /\ c.at \in {"off", "loops"} /\ c.auth = NoAuth
        /\ c.answer = 0 /\ c.left = {}
    BY OffIsCycle DEF Off, Cycle, Ended
  <2>2. syncer' = [syncer EXCEPT ![a] = c] /\ unheard' = unheard \cup {p}
    BY <1>2, <1>7 DEF RewriteFails
  <2>3. ~Clean(p)' /\ unheard \subseteq unheard' /\ unheard' \subseteq Auths
    BY <2>2 DEF Clean, TokenInv, CredentialSyncTypeOK
  <2> HIDE DEF c
  <2> QED
    BY <1>2, <1>3, <1>4, <1>5, <2>1, <2>2, <2>3, FileStepInv
<1> QED
  BY <1>6, <1>7 DEF RewriteFails

\* The answer heard is the token honoured from now on; one that is not heard
\* takes the file out of consideration; a refusal changes nothing.
LEMMA ExchangeInv ==
  ASSUME TokenInv, NEW a \in Syncers, refresh_access_token(a)
  PROVE  TokenInv'
<1>1. syncer[a].at = "exchanges" /\ syncer[a] \in Cycle
  BY CycleTypes DEF refresh_access_token, StandsAt
<1>2. PICK p \in Auths : InHands(a) = p /\ syncer[a].auth = p
  BY <1>1, HoldsFile
<1>3. UNCHANGED <<document, imported, both>>
      /\ UNCHANGED <<current, stopped, stopping>>
  BY DEF refresh_access_token
<1>4. /\ document' \in [Auths -> Document]
      /\ imported' \in [Auths -> 0 .. MaxRotations]
  BY <1>3 DEF TokenInv, CredentialSyncTypeOK
<1>5. p # NoAuth
  BY SyncAssumption
<1>6. Clean(p) => /\ document[p].token # 0 /\ syncer[a].answer = 0
                  /\ honoured[p] \in {0, document[p].token}
                  /\ syncer[a].held.token = document[p].token
  BY <1>1, <1>2, InHandsKnown DEF Knows
<1>7. ASSUME NEW token \in 0 .. MaxRotations, token \in {honoured[p], honoured[p] + 1},
             syncer[a].held.token = honoured[p],
             honoured' = [honoured EXCEPT ![p] = token],
             syncer' = [syncer EXCEPT ![a].at = "writes", ![a].answer = token],
             UNCHANGED unheard
      PROVE  TokenInv'
  <2> DEFINE c == [syncer[a] EXCEPT !.at = "writes", !.answer = token]
  <2>1. /\ c \in Cycle /\ c.at = "writes" /\ c.auth = p /\ c.answer = token
        /\ c.left = syncer[a].left
    BY <1>1, <1>2 DEF Cycle
  <2>2. syncer' = [syncer EXCEPT ![a] = c]
    BY <1>7, CycleTypes
  <2>3. /\ honoured' \in [Auths -> 0 .. MaxRotations] /\ honoured'[p] = token
        /\ \A q \in Auths : q # p => honoured'[q] = honoured[q]
    BY <1>7 DEF TokenInv, CredentialSyncTypeOK
  <2>4. Clean(p)' => Clean(p)
    BY <1>3, <1>7 DEF Clean
  <2>5. Clean(p)' => token # 0
    <3>1. honoured[p] \in Nat
      BY DEF TokenInv, CredentialSyncTypeOK
    <3> QED
      BY <1>6, <1>7, <2>4, <3>1
  <2>6. syncer'[a] = c
    BY <2>2, CycleTypes
  <2>7. Clean(p)' => Knows(a, p)'
    BY <2>1, <2>3, <2>5, <2>6 DEF Knows
  <2>8. unheard \subseteq unheard' /\ unheard' \subseteq Auths
    BY <1>7 DEF TokenInv, CredentialSyncTypeOK
  <2>9. Clean(p)' => document'[p].token # 0
    BY <1>3, <1>6, <2>4
  <2>10. \A q \in Auths : q # p =>
           document'[q] = document[q] /\ honoured'[q] = honoured[q]
    BY <1>3, <2>3
  <2> HIDE DEF c
  <2> QED
    BY <1>2, <1>3, <1>4, <1>5, <2>1, <2>2, <2>3, <2>7, <2>8, <2>9, <2>10, FileStepInv
<1>8. ASSUME NEW token \in 0 .. MaxRotations,
             honoured' = [honoured EXCEPT ![p] = token],
             unheard' = unheard \cup {p}, GoesTo(a, "writes")
      PROVE  TokenInv'
  <2> DEFINE c == [syncer[a] EXCEPT !.at = "writes"]
  <2>1. /\ c \in Cycle /\ c.at = "writes" /\ c.auth = p
        /\ c.left = syncer[a].left
    BY <1>1, <1>2 DEF Cycle
  <2>2. syncer' = [syncer EXCEPT ![a] = c]
    BY <1>8, CycleTypes DEF GoesTo
  <2>3. /\ honoured' \in [Auths -> 0 .. MaxRotations]
        /\ \A q \in Auths : q # p => honoured'[q] = honoured[q]
    BY <1>8 DEF TokenInv, CredentialSyncTypeOK
  <2>4. ~Clean(p)' /\ unheard \subseteq unheard' /\ unheard' \subseteq Auths
    BY <1>8 DEF Clean, TokenInv, CredentialSyncTypeOK
  <2>5. \A q \in Auths : q # p =>
           document'[q] = document[q] /\ honoured'[q] = honoured[q]
    BY <1>3, <2>3
  <2> HIDE DEF c
  <2> QED
    BY <1>2, <1>3, <1>4, <1>5, <2>1, <2>2, <2>3, <2>4, <2>5, FileStepInv
<1>9. ASSUME NEW refused \in BOOLEAN, UNCHANGED <<honoured, unheard>>,
             syncer' = [syncer EXCEPT ![a].at = "writes", ![a].refused = refused]
      PROVE  TokenInv'
  <2> DEFINE c == [syncer[a] EXCEPT !.at = "writes", !.refused = refused]
  <2>1. /\ c \in Cycle /\ c.at = "writes" /\ c.auth = p
        /\ c.left = syncer[a].left /\ c.answer = syncer[a].answer
        /\ c.held = syncer[a].held
    BY <1>1, <1>2 DEF Cycle
  <2>2. syncer' = [syncer EXCEPT ![a] = c]
    BY <1>9, CycleTypes
  <2>3. /\ honoured' \in [Auths -> 0 .. MaxRotations]
        /\ unheard \subseteq unheard' /\ unheard' \subseteq Auths
    BY <1>9 DEF TokenInv, CredentialSyncTypeOK
  <2>4. syncer'[a] = c
    BY <2>2, CycleTypes
  <2>5. Clean(p)' => Knows(a, p)' /\ document'[p].token # 0
    <3>1. Clean(p)' => Clean(p)
      BY <1>3, <1>9 DEF Clean
    <3> QED
      BY <1>3, <1>6, <1>9, <2>1, <2>4, <3>1 DEF Knows
  <2>6. \A q \in Auths : q # p =>
           document'[q] = document[q] /\ honoured'[q] = honoured[q]
    BY <1>3, <1>9
  <2> HIDE DEF c
  <2> QED
    BY <1>2, <1>3, <1>4, <1>5, <2>1, <2>2, <2>3, <2>5, <2>6, FileStepInv
<1>10. CASE GoesTo(a, "writes") /\ UNCHANGED <<honoured, unheard>>
  <2>1. syncer' = [syncer EXCEPT ![a].at = "writes", ![a].refused = syncer[a].refused]
    BY <1>10, CycleTypes DEF GoesTo, Cycle
  <2>2. syncer[a].refused \in BOOLEAN
    BY <1>1 DEF Cycle
  <2> QED
    BY <1>9, <1>10, <2>1, <2>2
<1>11. CASE /\ syncer' = [syncer EXCEPT ![a].at = "writes", ![a].refused = TRUE]
            /\ UNCHANGED <<honoured, unheard>>
  BY <1>9, <1>11
<1>12. CASE /\ syncer[a].held.token = honoured[p]
            /\ \E token \in {honoured[p], honoured[p] + 1} :
                 /\ token <= MaxRotations
                 /\ honoured' = [honoured EXCEPT ![p] = token]
                 /\ \/ /\ syncer' = [syncer EXCEPT ![a].at = "writes",
                                                   ![a].answer = token]
                       /\ UNCHANGED unheard
                    \/ /\ token # honoured[p]
                       /\ unheard' = unheard \cup {p}
                       /\ GoesTo(a, "writes")
  <2>1. PICK token \in {honoured[p], honoured[p] + 1} :
          /\ token <= MaxRotations
          /\ honoured' = [honoured EXCEPT ![p] = token]
          /\ \/ /\ syncer' = [syncer EXCEPT ![a].at = "writes",
                                            ![a].answer = token]
                /\ UNCHANGED unheard
             \/ /\ unheard' = unheard \cup {p}
                /\ GoesTo(a, "writes")
    BY <1>12
  <2>2. honoured[p] \in 0 .. MaxRotations
    BY DEF TokenInv, CredentialSyncTypeOK
  <2>3. token \in 0 .. MaxRotations
    BY <2>1, <2>2, SyncAssumption
  <2> QED
    BY <1>7, <1>8, <1>12, <2>1, <2>3
<1> QED
  BY <1>2, <1>10, <1>11, <1>12 DEF refresh_access_token

LEMMA TokenStepInv == TokenInv /\ [CredentialSyncNext]_syncVars => TokenInv'
<1> SUFFICES ASSUME TokenInv, [CredentialSyncNext]_syncVars PROVE TokenInv'
  OBVIOUS
<1>1. CASE UNCHANGED syncVars
  BY <1>1 DEF syncVars, TokenInv, CredentialSyncTypeOK, HandsAgree, FilesKnown,
     FileKnown, Knows, InHands, Clean
<1>2. ASSUME NEW p \in Auths, Enrol(p) \/ FallsDue(p) \/ Revoke(p) PROVE TokenInv'
  BY <1>2, OutsideInv
<1>3. CASE do_POST
  BY <1>3, RequestInv
<1>4. CASE start_worker \/ \E t \in Threadlike : _loop(t)
  BY <1>4, WorkerInv
<1>5. CASE stop_worker \/ Forget
  BY <1>5, StopInv
<1>6. CASE PanelDies
  BY <1>6, PanelDiesInv
<1>7. ASSUME NEW a \in Syncers, EndCycle(a) PROVE TokenInv'
  BY <1>7, CycleEndsInv
<1>8. ASSUME NEW a \in Syncers, refresh_access_token(a) PROVE TokenInv'
  BY <1>8, ExchangeInv
<1>9. ASSUME NEW a \in Syncers, _atomic_write_json(a) PROVE TokenInv'
  BY <1>9, WriteInv
<1>10. ASSUME NEW a \in Syncers, RewriteFails(a) PROVE TokenInv'
  BY <1>10, WriteFailsInv
<1>11. ASSUME NEW a \in Syncers, import_one(a) PROVE TokenInv'
  BY <1>11, ImportInv
<1>12. ASSUME NEW a \in Syncers, NEW p \in Auths, refresh_document_file(a, p)
       PROVE  TokenInv'
  BY <1>12, ReadInv
<1> QED
  BY <1>1, <1>2, <1>3, <1>4, <1>5, <1>6, <1>7, <1>8, <1>9, <1>10, <1>11, <1>12
  DEF CredentialSyncNext

\* For any files, tokens and interleaving of the cycles, a file that nobody
\* has in hands holds the token the provider honours, unless two cycles had
\* it at once or its new token did not arrive.
THEOREM TokensKept == CredentialSyncSpec => []TokenKept
<1>1. TokenInv => TokenKept
  BY DEF TokenInv, FilesKnown, FileKnown, Clean, TokenKept, list_cpa_singles
<1> QED
  BY <1>1, TokenInitInv, TokenStepInv, PTL DEF CredentialSyncSpec

----------------------------------------------------------------------------
\* The pool of hot pages

Pooled == [Fresh EXCEPT !.open = "yes"]

\* A page in hands is open, and what its cleaning has got to is gone.
LeaseKnown(c) ==
  /\ Held(c) = NoPage <=> consumer[c].at \in {"idle", "open"}
  /\ Held(c) # NoPage => page[Held(c)].open = "yes"
  /\ Is(c, "storage") => ~page[Held(c)].cookies
  /\ Is(c, "return") => page[Held(c)] = Pooled

\* PoolClean is inductive with this.
PageInv ==
  /\ HotPagesTypeOK /\ IsFiniteSet(pool) /\ PoolClean
  /\ \A c \in Consumers : LeaseKnown(c)

LEMMA PageInitInv == HotPagesInit => PageInv
<1> SUFFICES ASSUME HotPagesInit PROVE PageInv
  OBVIOUS
<1>1. HotPagesTypeOK
  BY DEF HotPagesInit, HotPagesTypeOK, Fresh, Idle
<1>2. IsFiniteSet(pool) /\ Cardinality(pool) = 0
  BY FS_EmptySet DEF HotPagesInit
<1>3. PoolClean
  BY <1>2, HotPagesAssumption DEF HotPagesInit, PoolClean, Held, Idle
<1>4. \A c \in Consumers : LeaseKnown(c)
  BY DEF HotPagesInit, LeaseKnown, Held, Is, Idle
<1> QED
  BY <1>1, <1>2, <1>3, <1>4 DEF PageInv

Lease ==
  [at : {"idle", "open", "prepare", "leased", "cookies", "storage", "return",
         "close"},
   page : Pages \cup {NoPage}, own : BOOLEAN]
Contents == [open : {"no", "yes", "closed"}, cookies : BOOLEAN, storage : BOOLEAN]

LEMMA LeaseTypes ==
  ASSUME PageInv, NEW c \in Consumers
  PROVE  /\ consumer[c] \in Lease /\ Held(c) \in Pages \cup {NoPage}
         /\ \A p \in Pages : page[p] \in Contents
         /\ NoPage \notin Pages
BY HotPagesAssumption DEF PageInv, HotPagesTypeOK, Lease, Contents, Held

\* A consumer goes on with the page it has, or without it; it may touch that
\* page.  What it then knows is all there is to look at.
LEMMA LeaseStepInv ==
  ASSUME PageInv, NEW c \in Consumers, NEW r \in Lease, NEW g \in Contents,
         pool' = pool, consumer' = [consumer EXCEPT ![c] = r],
         \/ page' = page /\ (Held(c) # NoPage => g = page[Held(c)])
         \/ Held(c) # NoPage /\ page' = [page EXCEPT ![Held(c)] = g],
         r.page \in {Held(c), NoPage},
         r.page = NoPage <=> r.at \in {"idle", "open"},
         r.page # NoPage => g.open = "yes",
         r.at = "storage" => ~g.cookies,
         r.at = "return" => g = Pooled
  PROVE  PageInv'
<1>1. /\ consumer'[c] = r
      /\ \A d \in Consumers : d # c => consumer'[d] = consumer[d]
      /\ consumer' \in [Consumers -> Lease]
  BY DEF PageInv, HotPagesTypeOK, Lease
<1>2. /\ Held(c) # NoPage => page'[Held(c)] = g
      /\ \A p \in Pages : p # Held(c) => page'[p] = page[p]
      /\ page' \in [Pages -> Contents]
  BY LeaseTypes DEF PageInv, HotPagesTypeOK, Contents
<1>3. HotPagesTypeOK'
  BY <1>1, <1>2 DEF PageInv, HotPagesTypeOK, Lease, Contents
<1>4. PoolClean'
  <2>1. Held(c)' = r.page /\ \A d \in Consumers : d # c => Held(d)' = Held(d)
    BY <1>1 DEF Held
  <2>2. \A p \in pool : page'[p] = page[p]
    BY <1>2 DEF PageInv, HotPagesTypeOK, PoolClean
  <2>3. NoPage \notin pool
    BY LeaseTypes DEF PageInv, HotPagesTypeOK
  <2> QED
    BY <2>1, <2>2, <2>3 DEF PageInv, PoolClean
<1>5. ASSUME NEW d \in Consumers, d # c PROVE LeaseKnown(d)'
  <2>1. LeaseKnown(d) /\ consumer'[d] = consumer[d]
    BY <1>1, <1>5 DEF PageInv
  <2>2. Held(d) # NoPage => Held(d) \in Pages /\ Held(d) # Held(c)
    BY <1>5, LeaseTypes DEF PageInv, PoolClean
  <2>3. Held(d) # NoPage => page'[Held(d)] = page[Held(d)]
    BY <1>2, <2>2
  <2> QED
    BY <2>1, <2>3 DEF LeaseKnown, Held, Is
<1>6. LeaseKnown(c)'
  BY <1>1, <1>2 DEF LeaseKnown, Held, Is
<1> QED
  BY <1>3, <1>4, <1>5, <1>6 DEF PageInv

LEMMA LeaseBeginsInv ==
  ASSUME PageInv, NEW c \in Consumers,
         MissPage(c) \/ _prepare_signup_page(c) \/ OpenFails(c)
  PROVE  PageInv'
<1>1. LeaseKnown(c) /\ consumer[c] \in Lease
  BY LeaseTypes DEF PageInv
<1>2. pool' = pool /\ page' = page
  BY DEF MissPage, _prepare_signup_page, OpenFails
<1>3. PICK g \in Contents : Held(c) # NoPage => g = page[Held(c)]
  <2>1. [open |-> "no", cookies |-> TRUE, storage |-> TRUE] \in Contents
    BY DEF Contents
  <2> QED
    BY <2>1, LeaseTypes
<1>4. CASE MissPage(c)
  <2>1. PICK own \in BOOLEAN :
          consumer' = [consumer EXCEPT ![c] = [Idle EXCEPT !.at = "open", !.own = own]]
    BY <1>4 DEF MissPage
  <2>2. [Idle EXCEPT !.at = "open", !.own = own] \in Lease
    BY DEF Idle, Lease
  <2> QED
    BY <1>2, <1>3, <2>1, <2>2, LeaseStepInv DEF Idle
<1>5. CASE _prepare_signup_page(c)
  <2>1. consumer' = [consumer EXCEPT ![c] = [consumer[c] EXCEPT !.at = "leased"]]
    BY <1>5 DEF _prepare_signup_page, MovesTo, PageInv, HotPagesTypeOK
  <2>2. [consumer[c] EXCEPT !.at = "leased"] \in Lease
    BY <1>1 DEF Lease
  <2>3. consumer[c].page = Held(c) /\ Held(c) # NoPage /\ page[Held(c)].open = "yes"
    BY <1>1, <1>5 DEF _prepare_signup_page, LeaseKnown, Is, Held
  <2> QED
    BY <1>1, <1>2, <1>3, <2>1, <2>2, <2>3, LeaseStepInv DEF Lease
<1>6. CASE OpenFails(c)
  <2>1. Idle \in Lease
    BY DEF Idle, Lease
  <2> QED
    BY <1>2, <1>3, <1>6, <2>1, LeaseStepInv DEF OpenFails, Idle
<1> QED
  BY <1>4, <1>5, <1>6

\* The record of a consumer that has moved on with its page.
Moved(c, place) == [consumer[c] EXCEPT !.at = place]

LEMMA MovedIsLease ==
  ASSUME PageInv, NEW c \in Consumers, Held(c) # NoPage,
         NEW place \in {"leased", "cookies", "storage", "return", "close"}
  PROVE  /\ Moved(c, place) \in Lease /\ Moved(c, place).at = place
         /\ Moved(c, place).page = Held(c)
         /\ MovesTo(c, place) => consumer' = [consumer EXCEPT ![c] = Moved(c, place)]
         /\ Held(c) \in Pages /\ page[Held(c)] \in Contents
         /\ page[Held(c)].open = "yes"
<1>1. consumer[c] \in Lease /\ consumer \in [Consumers -> Lease]
  BY LeaseTypes DEF PageInv, HotPagesTypeOK, Lease
<1> QED
  BY <1>1, LeaseTypes DEF Moved, MovesTo, Lease, Held, PageInv, LeaseKnown

LEMMA LeaseUsedInv ==
  ASSUME PageInv, NEW c \in Consumers,
         Register(c) \/ Unhealthy(c) \/ Healthy(c) \/ CleaningFails(c)
  PROVE  PageInv'
<1>1. pool' = pool /\ Held(c) # NoPage
  BY DEF Register, Unhealthy, Healthy, CleaningFails, PageInv, LeaseKnown, Is
<1>2. CASE Register(c)
  <2>1. PICK k, s \in BOOLEAN :
          page' = [page EXCEPT ![Held(c)].cookies = @ \/ k,
                               ![Held(c)].storage = @ \/ s]
    BY <1>2 DEF Register
  <2> DEFINE g == [page[Held(c)] EXCEPT !.cookies = @ \/ k, !.storage = @ \/ s]
  <2>2. /\ page' = [page EXCEPT ![Held(c)] = g] /\ g \in Contents /\ g.open = "yes"
    BY <1>1, <2>1, MovedIsLease DEF PageInv, HotPagesTypeOK, Contents
  <2>3. consumer[c].at = "leased" /\ consumer' = [consumer EXCEPT ![c] = consumer[c]]
    BY <1>2 DEF Register, Is, PageInv, HotPagesTypeOK
  <2>4. consumer[c] \in Lease /\ consumer[c].page = Held(c)
    BY LeaseTypes DEF Held
  <2> HIDE DEF g
  <2> QED
    BY <1>1, <2>2, <2>3, <2>4, LeaseStepInv
<1>3. ASSUME NEW place \in {"cookies", "close"}, MovesTo(c, place), page' = page
      PROVE  PageInv'
  BY <1>1, <1>3, MovedIsLease, LeaseStepInv
<1> QED
  BY <1>2, <1>3 DEF Unhealthy, Healthy, CleaningFails

LEMMA CleaningInv ==
  ASSUME PageInv, NEW c \in Consumers, clear_cookies(c) \/ clear_storage(c)
  PROVE  PageInv'
<1>1. pool' = pool /\ Held(c) # NoPage
  BY DEF clear_cookies, clear_storage, PageInv, LeaseKnown, Is
<1>2. /\ Held(c) \in Pages /\ page[Held(c)] \in Contents
      /\ page[Held(c)].open = "yes"
  BY <1>1, MovedIsLease
<1>3. CASE clear_cookies(c)
  <2> DEFINE g == [page[Held(c)] EXCEPT !.cookies = FALSE]
  <2>1. page' = [page EXCEPT ![Held(c)] = g] /\ MovesTo(c, "storage")
    BY <1>3 DEF clear_cookies
  <2>2. g \in Contents /\ g.open = "yes" /\ ~g.cookies
    BY <1>2 DEF Contents
  <2> HIDE DEF g
  <2> QED
    BY <1>1, <2>1, <2>2, MovedIsLease, LeaseStepInv
<1>4. CASE clear_storage(c)
  <2> DEFINE g == [page[Held(c)] EXCEPT !.storage = FALSE]
  <2>1. page' = [page EXCEPT ![Held(c)] = g] /\ MovesTo(c, "return")
    BY <1>4 DEF clear_storage
  <2>2. ~page[Held(c)].cookies
    BY <1>4 DEF clear_storage, PageInv, LeaseKnown
  <2>3. g \in Contents /\ g.open = "yes" /\ ~g.cookies /\ ~g.storage
    BY <1>2, <2>2 DEF Contents
  <2> HIDE DEF g
  <2>4. g = Pooled
    <3>1. g.open = "yes" /\ g.cookies = FALSE /\ g.storage = FALSE
      BY <2>3 DEF Contents
    <3>2. /\ Pooled \in Contents /\ Pooled.open = "yes"
          /\ Pooled.cookies = FALSE /\ Pooled.storage = FALSE
      BY DEF Pooled, Fresh, Contents
    <3> QED
      BY <2>3, <3>1, <3>2 DEF Contents
  <2> QED
    BY <1>1, <2>1, <2>3, <2>4, MovedIsLease, LeaseStepInv
<1> QED
  BY <1>3, <1>4

LEMMA LeaseClosesInv ==
  ASSUME PageInv, NEW c \in Consumers, _close_grok_page(c)
  PROVE  PageInv'
<1>1. pool' = pool /\ Held(c) # NoPage
  BY DEF _close_grok_page, PageInv, LeaseKnown, Is
<1>2. PICK open \in {"closed", "yes"} : page' = [page EXCEPT ![Held(c)].open = open]
  BY DEF _close_grok_page
<1> DEFINE g == [page[Held(c)] EXCEPT !.open = open]
<1>3. page' = [page EXCEPT ![Held(c)] = g] /\ g \in Contents
  BY <1>1, <1>2, MovedIsLease DEF Contents
<1>4. consumer' = [consumer EXCEPT ![c] = Idle]
  BY DEF _close_grok_page
<1>5. Idle \in Lease /\ Idle.page = NoPage /\ Idle.at = "idle"
  BY DEF Idle, Lease
<1> HIDE DEF g
<1> QED
  BY <1>1, <1>3, <1>4, <1>5, LeaseStepInv

\* A page that has been in the pool, or was never opened, is with nobody else.
LEMMA PageTakenInv ==
  ASSUME PageInv, NEW c \in Consumers, HitPage(c) \/ _new_c_hot_page(c)
  PROVE  PageInv'
<1>1. PICK p \in Pages, r \in Lease :
        /\ consumer' = [consumer EXCEPT ![c] = r]
        /\ r.page = p /\ r.at \in {"leased", "prepare"}
        /\ pool' = pool \ {p}
        /\ page' \in [Pages -> Contents] /\ page'[p].open = "yes"
        /\ \A q \in Pages : q # p => page'[q] = page[q]
        /\ \A d \in Consumers : Held(d) # p
  <2>1. CASE HitPage(c)
    <3>1. PICK p \in pool :
            /\ pool' = pool \ {p}
            /\ consumer' = [consumer EXCEPT ![c] = [Idle EXCEPT !.at = "leased",
                                                               !.page = p]]
      BY <2>1 DEF HitPage
    <3> DEFINE r == [Idle EXCEPT !.at = "leased", !.page = p]
    <3>2. p \in Pages /\ page[p].open = "yes" /\ page' = page
      BY <2>1 DEF HitPage, PageInv, HotPagesTypeOK, PoolClean, Fresh
    <3>3. r \in Lease /\ r.page = p /\ r.at = "leased"
      BY <3>2 DEF Idle, Lease
    <3>4. \A d \in Consumers : Held(d) # p
      BY DEF PageInv, PoolClean
    <3>5. page' \in [Pages -> Contents]
      BY <3>2 DEF PageInv, HotPagesTypeOK, Contents
    <3> QED
      BY <3>1, <3>2, <3>3, <3>4, <3>5
  <2>2. CASE _new_c_hot_page(c)
    <3>1. PICK p \in Pages :
            /\ page[p].open = "no"
            /\ page' = [page EXCEPT ![p].open = "yes"]
            /\ consumer' = [consumer EXCEPT ![c].at = "prepare", ![c].page = p]
      BY <2>2 DEF _new_c_hot_page
    <3> DEFINE r == [consumer[c] EXCEPT !.at = "prepare", !.page = p]
    <3>2. r \in Lease /\ r.page = p /\ r.at = "prepare"
      BY LeaseTypes DEF Lease
    <3>3. consumer' = [consumer EXCEPT ![c] = r]
      BY <3>1 DEF PageInv, HotPagesTypeOK
    <3>4. \A d \in Consumers : Held(d) # p
      BY <3>1, LeaseTypes DEF PageInv, LeaseKnown
    <3>5. pool' = pool \ {p}
      BY <2>2, <3>1 DEF _new_c_hot_page, PageInv, PoolClean, Fresh
    <3>6. /\ page' \in [Pages -> Contents] /\ page'[p].open = "yes"
          /\ \A q \in Pages : q # p => page'[q] = page[q]
      BY <3>1 DEF PageInv, HotPagesTypeOK, Contents
    <3> QED
      BY <3>2, <3>3, <3>4, <3>5, <3>6
  <2> QED
    BY <2>1, <2>2
<1>2. /\ consumer'[c] = r
      /\ \A d \in Consumers : d # c => consumer'[d] = consumer[d]
      /\ consumer' \in [Consumers -> Lease]
  BY <1>1 DEF PageInv, HotPagesTypeOK, Lease
<1>3. HotPagesTypeOK' /\ NoPage \notin Pages
  BY <1>1, <1>2, HotPagesAssumption DEF PageInv, HotPagesTypeOK, Lease, Contents
<1>4. IsFiniteSet(pool') /\ Cardinality(pool') <= PoolSize
  <2>1. IsFiniteSet(pool') /\ Cardinality(pool') <= Cardinality(pool)
    BY <1>1, FS_Subset DEF PageInv
  <2>2. Cardinality(pool') \in Nat /\ Cardinality(pool) \in Nat
        /\ Cardinality(pool) <= PoolSize
    BY <2>1, FS_CardinalityType DEF PageInv, PoolClean
  <2> QED
    BY <2>1, <2>2, HotPagesAssumption
<1>5. PoolClean'
  BY <1>1, <1>2, <1>3, <1>4 DEF PageInv, HotPagesTypeOK, PoolClean, Held
<1>6. \A d \in Consumers : LeaseKnown(d)'
  BY <1>1, <1>2, <1>3, LeaseTypes DEF PageInv, LeaseKnown, Held, Is
<1> QED
  BY <1>3, <1>4, <1>5, <1>6 DEF PageInv

\* A page that is put back is clean, and with nobody from then on; there is
\* room for it, or it is on its way to be closed.
LEMMA ReturnInv ==
  ASSUME PageInv, NEW c \in Consumers, ReturnPage(c)
  PROVE  PageInv'
<1>1. /\ Held(c) # NoPage /\ page[Held(c)] = Pooled /\ page' = page
      /\ Held(c) \in Pages
  BY LeaseTypes DEF ReturnPage, PageInv, LeaseKnown, Is
<1>2. CASE Cardinality(pool) < PoolSize
  <2>1. pool' = pool \cup {Held(c)} /\ consumer' = [consumer EXCEPT ![c] = Idle]
    BY <1>2 DEF ReturnPage
  <2>2. /\ consumer'[c] = Idle /\ consumer' \in [Consumers -> Lease]
        /\ \A d \in Consumers : d # c => consumer'[d] = consumer[d]
    BY <2>1 DEF PageInv, HotPagesTypeOK, Idle, Lease
  <2>3. HotPagesTypeOK'
    BY <1>1, <2>1, <2>2 DEF PageInv, HotPagesTypeOK, Lease
  <2>4. IsFiniteSet(pool') /\ Cardinality(pool') <= PoolSize
    <3>1. /\ IsFiniteSet(pool') /\ Cardinality(pool) \in Nat
          /\ Cardinality(pool') \in {Cardinality(pool), Cardinality(pool) + 1}
      BY <2>1, FS_AddElement, FS_CardinalityType DEF PageInv
    <3> QED
      BY <1>2, <3>1, HotPagesAssumption
  <2>5. /\ Held(c)' = NoPage
        /\ \A d \in Consumers : d # c => Held(d)' = Held(d) /\ Held(d) # Held(c)
    BY <1>1, <2>2 DEF Held, Idle, PageInv, PoolClean
  <2>6. \A p \in pool' : page'[p] = Pooled
    BY <1>1, <2>1 DEF PageInv, PoolClean, Pooled
  <2>7. PoolClean'
    <3>1. \A d \in Consumers : Held(d)' \notin pool'
      BY <2>1, <2>3, <2>5, HotPagesAssumption
      DEF PageInv, PoolClean, HotPagesTypeOK
    <3>2. \A d, e \in Consumers :
            d # e /\ Held(d)' = Held(e)' => Held(d)' = NoPage
      BY <2>5 DEF PageInv, PoolClean
    <3> QED
      BY <2>4, <2>6, <3>1, <3>2 DEF PoolClean, Pooled
  <2>8. ASSUME NEW d \in Consumers PROVE LeaseKnown(d)'
    BY <1>1, <2>2, <2>5 DEF PageInv, LeaseKnown, Held, Is, Idle
  <2> QED
    BY <2>3, <2>4, <2>7, <2>8 DEF PageInv
<1>3. CASE ~(Cardinality(pool) < PoolSize)
  <2>1. MovesTo(c, "close") /\ pool' = pool
    BY <1>3 DEF ReturnPage
  <2> QED
    BY <1>1, <2>1, MovedIsLease, LeaseStepInv
<1> QED
  BY <1>2, <1>3

\* Only pages nobody has are closed with the pool.
LEMMA PoolClosesInv ==
  ASSUME PageInv, _close_c_hot_page_pool
  PROVE  PageInv'
<1>1. /\ pool' = {} /\ consumer' = consumer
      /\ page' = [p \in Pages |-> IF p \in pool
                    THEN [page[p] EXCEPT !.open = "closed"] ELSE page[p]]
  BY DEF _close_c_hot_page_pool
<1>2. page' \in [Pages -> Contents]
  <2>1. \A p \in Pages : [page[p] EXCEPT !.open = "closed"] \in Contents
    BY DEF PageInv, HotPagesTypeOK, Contents
  <2> QED
    BY <1>1, <2>1, LeaseTypes DEF PageInv, HotPagesTypeOK, Contents
<1>3. HotPagesTypeOK'
  BY <1>1, <1>2 DEF PageInv, HotPagesTypeOK, Contents
<1>4. IsFiniteSet(pool') /\ Cardinality(pool') <= PoolSize
  BY <1>1, FS_EmptySet, HotPagesAssumption
<1>5. PoolClean'
  BY <1>1, <1>4 DEF PageInv, PoolClean, Held
<1>6. ASSUME NEW d \in Consumers PROVE LeaseKnown(d)'
  <2>1. Held(d)' = Held(d) /\ consumer'[d] = consumer[d] /\ LeaseKnown(d)
    BY <1>1 DEF Held, PageInv
  <2>2. Held(d) # NoPage => page'[Held(d)] = page[Held(d)]
    BY <1>1, LeaseTypes DEF PageInv, PoolClean
  <2> QED
    BY <2>1, <2>2 DEF LeaseKnown, Is
<1> QED
  BY <1>3, <1>4, <1>5, <1>6 DEF PageInv

LEMMA PageStepInv == PageInv /\ [HotPagesNext]_pageVars => PageInv'
<1> SUFFICES ASSUME PageInv, [HotPagesNext]_pageVars PROVE PageInv'
  OBVIOUS
<1>1. CASE UNCHANGED pageVars
  BY <1>1 DEF pageVars, PageInv, HotPagesTypeOK, PoolClean, LeaseKnown, Held, Is
<1>2. ASSUME NEW c \in Consumers,
             MissPage(c) \/ _prepare_signup_page(c) \/ OpenFails(c)
      PROVE  PageInv'
  BY <1>2, LeaseBeginsInv
<1>3. ASSUME NEW c \in Consumers, HitPage(c) \/ _new_c_hot_page(c) PROVE PageInv'
  BY <1>3, PageTakenInv
<1>4. ASSUME NEW c \in Consumers,
             Register(c) \/ Unhealthy(c) \/ Healthy(c) \/ CleaningFails(c)
      PROVE  PageInv'
  BY <1>4, LeaseUsedInv
<1>5. ASSUME NEW c \in Consumers, clear_cookies(c) \/ clear_storage(c)
      PROVE  PageInv'
  BY <1>5, CleaningInv
<1>6. ASSUME NEW c \in Consumers, ReturnPage(c) PROVE PageInv'
  BY <1>6, ReturnInv
<1>7. ASSUME NEW c \in Consumers, _close_grok_page(c) PROVE PageInv'
  BY <1>7, LeaseClosesInv
<1>8. CASE _close_c_hot_page_pool
  BY <1>8, PoolClosesInv
<1> QED
  BY <1>1, <1>2, <1>3, <1>4, <1>5, <1>6, <1>7, <1>8 DEF HotPagesNext

\* For any workers, pages and size of the pool, wherever a cleaning or an
\* opening is interrupted, a page in the pool is open and clean, no two
\* workers have a page at once, and the pool keeps to its size.
THEOREM PoolsClean == HotPagesSpec => []PoolClean
<1>1. PageInv => PoolClean
  BY DEF PageInv
<1> QED
  BY <1>1, PageInitInv, PageStepInv, PTL DEF HotPagesSpec

----------------------------------------------------------------------------
\* The key files

Job == [at : Places, acc : Accounts \cup {NoAccount}, seen : SUBSET Accounts]
Locked == {"upsert", "vault", "revault", "grok", "regrok", "session",
           "fallback", "log"}

\* What a worker may rely on, given the lines of the files: what it has read
\* is still there, and so is what it has written.
Relies(j, s, p, g) ==
  /\ j.at \in Locked \cup {"register", "persist", "count"} => j.acc \in Accounts
  /\ j.at \in {"upsert", "regrok"} => j.seen = s
  /\ j.at = "revault" => j.seen = p
  /\ j.at \in {"vault", "revault", "grok", "regrok", "session"} => j.acc \in s
  /\ j.at \in {"grok", "regrok", "session", "log", "count"} => j.acc \in p
  /\ j.at = "session" => j.acc \in g

\* KeysAgree is inductive with this: one worker at a time is in the lock.
KeyInv ==
  /\ KeyFilesTypeOK /\ KeysAgree
  /\ \A w \in Workers : Relies(worker[w], sso, passwords, grok)
  /\ \A w \in Workers : worker[w].at \in Locked => write_lock
  /\ \A v, w \in Workers :
       v # w => ~(worker[v].at \in Locked /\ worker[w].at \in Locked)

LEMMA KeyInitInv == KeyFilesInit => KeyInv
<1> SUFFICES ASSUME KeyFilesInit PROVE KeyInv
  OBVIOUS
<1>1. KeyFilesTypeOK /\ KeysAgree
  BY DEF KeyFilesInit, KeyFilesTypeOK, KeysAgree, Places
<1>2. \A w \in Workers : worker[w].at = "top"
  BY DEF KeyFilesInit
<1>3. \A w \in Workers : worker[w].at \notin Locked
  BY <1>2 DEF Locked
<1>4. \A w \in Workers : Relies(worker[w], sso, passwords, grok)
  BY <1>2, <1>3 DEF Relies
<1> QED
  BY <1>1, <1>3, <1>4 DEF KeyInv

LEMMA JobTypes ==
  ASSUME KeyInv, NEW w \in Workers
  PROVE  /\ worker[w] \in Job /\ worker \in [Workers -> Job]
         /\ Relies(worker[w], sso, passwords, grok)
         /\ sso \subseteq Accounts /\ passwords \subseteq Accounts
         /\ grok \subseteq Accounts /\ sessions \subseteq Accounts
         /\ counted \subseteq Accounts /\ raw \subseteq passwords
BY DEF KeyInv, KeyFilesTypeOK, Job

\* A worker writes files only in the lock, and keeps what others rely on.
LEMMA JobStepInv ==
  ASSUME KeyInv, NEW w \in Workers, NEW j \in Job,
         worker' = [worker EXCEPT ![w] = j],
         worker[w].at \in Locked \/ UNCHANGED files,
         /\ passwords \subseteq passwords' /\ raw' \subseteq passwords'
         /\ sso' \subseteq Accounts /\ passwords' \subseteq Accounts
         /\ grok' \subseteq Accounts /\ sessions' \subseteq Accounts
         /\ counted' \subseteq Accounts
         /\ write_lock' \in BOOLEAN /\ stop' \in BOOLEAN,
         KeysAgree', Relies(j, sso', passwords', grok'),
         IF j.at \in Locked
           THEN write_lock' /\ (worker[w].at \in Locked \/ ~write_lock)
           ELSE worker[w].at \in Locked \/ write_lock' = write_lock
  PROVE  KeyInv'
<1>1. /\ worker'[w] = j /\ worker' \in [Workers -> Job]
      /\ \A v \in Workers : v # w => worker'[v] = worker[v]
  BY JobTypes
<1>2. KeyFilesTypeOK'
  BY <1>1 DEF KeyFilesTypeOK, Job
<1>3. ASSUME NEW v \in Workers, v # w
      PROVE  Relies(worker[v], sso', passwords', grok')
  <2>1. CASE UNCHANGED files
    BY <2>1, JobTypes DEF files
  <2>2. CASE worker[w].at \in Locked
    <3>1. worker[v].at \notin Locked
      BY <1>3, <2>2 DEF KeyInv
    <3> QED
      BY <3>1, JobTypes DEF Relies, Locked
  <2> QED
    BY <2>1, <2>2
<1>4. \A v \in Workers : Relies(worker'[v], sso', passwords', grok')
  BY <1>1, <1>3
<1>5. \A v \in Workers : worker'[v].at \in Locked => write_lock'
  BY <1>1 DEF KeyInv
<1>6. \A u, v \in Workers :
        u # v => ~(worker'[u].at \in Locked /\ worker'[v].at \in Locked)
  BY <1>1 DEF KeyInv
<1> QED
  BY <1>2, <1>4, <1>5, <1>6 DEF KeyInv

\* The loop, outside the lock.
LEMMA LoopInv ==
  ASSUME KeyInv, NEW w \in Workers,
         NextAttempt(w) \/ Leave(w) \/ register_once(w) \/ bump_fail(w)
  PROVE  KeyInv'
<1>1. UNCHANGED <<files, write_lock, stop, counted>>
  BY DEF NextAttempt, Leave, register_once, bump_fail
<1>2. PICK j \in Job :
        /\ worker' = [worker EXCEPT ![w] = j]
        /\ j.at \in Places \ (Locked \cup {"count"})
        /\ j.at \in {"register", "persist"} => j.acc \in Accounts
  <2>1. CASE NextAttempt(w)
    <3>1. PICK e \in Accounts :
            worker' = [worker EXCEPT ![w] = [worker[w] EXCEPT !.at = "register",
                                                              !.acc = e]]
      BY <2>1, JobTypes DEF NextAttempt
    <3> DEFINE j == [worker[w] EXCEPT !.at = "register", !.acc = e]
    <3>2. j \in Job /\ j.at = "register" /\ j.acc \in Accounts
      BY JobTypes DEF Job, Places
    <3> QED
      BY <3>1, <3>2 DEF Locked, Places
  <2>2. ASSUME NEW place \in {"done", "persist", "failed"}, To(w, place),
               place = "persist" => worker[w].at = "register"
        PROVE  \E j \in Job :
                 /\ worker' = [worker EXCEPT ![w] = j]
                 /\ j.at \in Places \ (Locked \cup {"count"})
                 /\ j.at \in {"register", "persist"} => j.acc \in Accounts
    <3> DEFINE j == [worker[w] EXCEPT !.at = place, !.seen = {}]
    <3>1. j \in Job /\ j.at = place /\ j.acc = worker[w].acc
      BY JobTypes DEF Job, Places
    <3>2. worker' = [worker EXCEPT ![w] = j]
      BY <2>2, JobTypes DEF To
    <3>3. place = "persist" => worker[w].acc \in Accounts
      BY <2>2, JobTypes DEF Relies
    <3> QED
      BY <2>2, <3>1, <3>2, <3>3 DEF Locked, Places
  <2>3. CASE bump_fail(w)
    <3> DEFINE j == [at |-> IF stop THEN "done" ELSE "top", acc |-> NoAccount,
                     seen |-> {}]
    <3>1. worker' = [worker EXCEPT ![w] = j]
      BY <2>3 DEF bump_fail, Again
    <3>2. j \in Job /\ j.at \in {"done", "top"}
      BY DEF Job, Places
    <3> QED
      BY <3>1, <3>2 DEF Locked, Places
  <2> QED
    BY <2>1, <2>2, <2>3 DEF Leave, register_once, At
<1>3. Relies(j, sso', passwords', grok')
  BY <1>1, <1>2 DEF Relies, Locked, files
<1>4. KeysAgree' /\ UNCHANGED files /\ j.at \notin Locked
  BY <1>1, <1>2 DEF KeyInv, KeysAgree, files
<1>5. CASE worker[w].at \in Locked
  BY <1>5 DEF NextAttempt, Leave, register_once, bump_fail, At, Locked
<1>6. CASE worker[w].at \notin Locked
  <2>1. write_lock \in BOOLEAN /\ stop \in BOOLEAN
    BY DEF KeyInv, KeyFilesTypeOK
  <2> QED
    BY <1>1, <1>2, <1>3, <1>4, <1>6, <2>1, JobTypes, JobStepInv DEF files
<1> QED
  BY <1>5, <1>6

\* A worker in the lock goes to another place in it with its account.
Goes(w, place, lines) == [worker[w] EXCEPT !.at = place, !.seen = lines]

LEMMA GoesIsJob ==
  ASSUME KeyInv, NEW w \in Workers, NEW place \in Places,
         NEW lines \in SUBSET Accounts
  PROVE  /\ Goes(w, place, lines) \in Job /\ Goes(w, place, lines).at = place
         /\ Goes(w, place, lines).acc = Acc(w)
         /\ Goes(w, place, lines).seen = lines
         /\ Read(w, place, lines) => worker' = [worker EXCEPT ![w] = Goes(w, place, lines)]
<1>1. worker[w] \in Job /\ worker \in [Workers -> Job]
  BY JobTypes
<1> QED
  BY <1>1 DEF Goes, Job, Read, Acc

LEMMA ReadInLockInv ==
  ASSUME KeyInv, ReadsFail = FALSE, NEW w \in Workers,
         append_account(w) \/ ReadPasswords(w) \/ ReadSso(w)
  PROVE  KeyInv'
<1>1. UNCHANGED <<files, stop, counted>>
  BY DEF append_account, ReadPasswords, ReadSso
<1>2. PICK place \in {"upsert", "revault", "regrok"}, lines \in SUBSET Accounts :
        /\ Read(w, place, lines) /\ write_lock'
        /\ worker[w].at \in Locked \/ ~write_lock
        /\ place = "upsert" => worker[w].at = "persist" /\ lines = sso
        /\ place = "revault" => worker[w].at = "vault" /\ lines = passwords
        /\ place = "regrok" => worker[w].at = "grok" /\ lines = sso
  BY JobTypes DEF append_account, ReadPasswords, ReadSso, Lines, At, Locked,
     KeyInv
<1> DEFINE j == Goes(w, place, lines)
<1>3. place \in Places /\ place \in Locked
  BY DEF Places, Locked
<1>4. /\ j \in Job /\ j.at = place /\ j.acc = worker[w].acc /\ j.seen = lines
      /\ worker' = [worker EXCEPT ![w] = j]
  BY <1>2, <1>3, GoesIsJob DEF Acc
<1> HIDE DEF j
<1>5. Relies(j, sso, passwords, grok)
  BY <1>2, <1>4, JobTypes DEF Relies, Locked
<1>6. write_lock' \in BOOLEAN /\ stop' \in BOOLEAN
  BY <1>1, <1>2 DEF append_account, ReadPasswords, ReadSso, KeyInv, KeyFilesTypeOK
<1>7. KeysAgree'
  BY <1>1 DEF KeyInv, KeysAgree, files
<1> QED
  BY <1>1, <1>2, <1>3, <1>4, <1>5, <1>6, <1>7, JobTypes, JobStepInv DEF files

\* What was read is still the file: a rewrite adds the worker's line.
LEMMA WriteInLockInv ==
  ASSUME KeyInv, NEW w \in Workers,
         \/ upsert_sso(w) \/ upsert_account_password(w)
         \/ rewrite_grok_from_sso(w) \/ append_sso_artifacts(w)
         \/ ArtifactsRaise(w) \/ Fallback(w)
  PROVE  KeyInv'
<1>1. /\ UNCHANGED <<write_lock, stop, counted>> /\ worker[w].at \in Locked
      /\ write_lock /\ write_lock' \in BOOLEAN /\ stop' \in BOOLEAN
  BY DEF upsert_sso, upsert_account_password, rewrite_grok_from_sso, At, Locked,
     append_sso_artifacts, ArtifactsRaise, Fallback, KeyInv, KeyFilesTypeOK
<1>2. worker[w].acc \in Accounts /\ Relies(worker[w], sso, passwords, grok)
      /\ Acc(w) = worker[w].acc
  BY <1>1, JobTypes DEF Relies, Acc
<1>3. ASSUME NEW place \in {"vault", "grok", "session", "log", "fallback"},
             To(w, place)
      PROVE  \E j \in Job :
               /\ worker' = [worker EXCEPT ![w] = j]
               /\ j.at = place /\ j.acc = worker[w].acc /\ j.at \in Locked
  <2> DEFINE j == Goes(w, place, {})
  <2>1. j \in Job /\ j.at = place /\ j.acc = worker[w].acc
    BY GoesIsJob DEF Places, Acc
  <2>2. worker' = [worker EXCEPT ![w] = j]
    BY <1>3, JobTypes DEF To, Goes
  <2>3. j.at \in Locked
    BY <2>1 DEF Locked
  <2> HIDE DEF j
  <2> QED
    BY <2>1, <2>2, <2>3
<1>4. CASE upsert_sso(w)
  <2>1. sso' = sso \cup {worker[w].acc} /\ UNCHANGED <<passwords, raw, grok, sessions>>
    BY <1>2, <1>4 DEF upsert_sso, Relies, At
  <2>2. PICK j \in Job :
          /\ worker' = [worker EXCEPT ![w] = j]
          /\ j.at = "vault" /\ j.acc = worker[w].acc /\ j.at \in Locked
    BY <1>3, <1>4 DEF upsert_sso
  <2>3. Relies(j, sso', passwords', grok') /\ KeysAgree'
    BY <1>1, <1>2, <2>1, <2>2 DEF Relies, KeyInv, KeysAgree
  <2> QED
    BY <1>1, <1>2, <2>1, <2>2, <2>3, JobTypes, JobStepInv
<1>5. CASE upsert_account_password(w)
  <2>1. /\ passwords' = passwords \cup {worker[w].acc} /\ raw' = {}
        /\ UNCHANGED <<sso, grok, sessions>> /\ worker[w].acc \in sso
    BY <1>2, <1>5 DEF upsert_account_password, Relies, At
  <2>2. PICK j \in Job :
          /\ worker' = [worker EXCEPT ![w] = j]
          /\ j.at = "grok" /\ j.acc = worker[w].acc /\ j.at \in Locked
    BY <1>3, <1>5 DEF upsert_account_password
  <2>3. Relies(j, sso', passwords', grok') /\ KeysAgree'
    BY <1>1, <1>2, <2>1, <2>2 DEF Relies, KeyInv, KeysAgree
  <2> QED
    BY <1>1, <1>2, <2>1, <2>2, <2>3, JobTypes, JobStepInv
<1>6. CASE rewrite_grok_from_sso(w)
  <2>1. /\ grok' = sso /\ UNCHANGED <<sso, passwords, raw, sessions>>
        /\ worker[w].acc \in sso \cap passwords
    BY <1>2, <1>6 DEF rewrite_grok_from_sso, Relies, At
  <2>2. PICK j \in Job :
          /\ worker' = [worker EXCEPT ![w] = j]
          /\ j.at = "session" /\ j.acc = worker[w].acc /\ j.at \in Locked
    BY <1>3, <1>6 DEF rewrite_grok_from_sso
  <2>3. Relies(j, sso', passwords', grok') /\ KeysAgree'
    BY <1>1, <1>2, <2>1, <2>2 DEF Relies, KeyInv, KeysAgree
  <2> QED
    BY <1>1, <1>2, <2>1, <2>2, <2>3, JobTypes, JobStepInv
<1>7. CASE append_sso_artifacts(w)
  <2>1. /\ sessions' = sessions \cup {worker[w].acc}
        /\ UNCHANGED <<sso, passwords, raw, grok>>
        /\ worker[w].acc \in sso \cap passwords \cap grok
    BY <1>2, <1>7 DEF append_sso_artifacts, Relies, At
  <2>2. PICK j \in Job :
          /\ worker' = [worker EXCEPT ![w] = j]
          /\ j.at = "log" /\ j.acc = worker[w].acc /\ j.at \in Locked
    BY <1>3, <1>7 DEF append_sso_artifacts
  <2>3. Relies(j, sso', passwords', grok') /\ KeysAgree'
    BY <1>1, <1>2, <2>1, <2>2 DEF Relies, KeyInv, KeysAgree
  <2> QED
    BY <1>1, <1>2, <2>1, <2>2, <2>3, JobTypes, JobStepInv
<1>8. CASE ArtifactsRaise(w)
  <2>1. UNCHANGED files
    BY <1>8 DEF ArtifactsRaise
  <2>2. PICK j \in Job :
          /\ worker' = [worker EXCEPT ![w] = j]
          /\ j.at = "fallback" /\ j.acc = worker[w].acc /\ j.at \in Locked
    BY <1>3, <1>8 DEF ArtifactsRaise
  <2>3. Relies(j, sso', passwords', grok') /\ KeysAgree'
    BY <1>1, <1>2, <2>1, <2>2 DEF Relies, KeyInv, KeysAgree, files
  <2> QED
    BY <1>1, <1>2, <2>1, <2>2, <2>3, JobTypes, JobStepInv DEF files
<1>9. CASE Fallback(w)
  <2>1. /\ passwords' = passwords \cup {worker[w].acc}
        /\ raw' = raw \cup {worker[w].acc} /\ UNCHANGED <<sso, grok, sessions>>
    BY <1>2, <1>9 DEF Fallback
  <2>2. PICK j \in Job :
          /\ worker' = [worker EXCEPT ![w] = j]
          /\ j.at = "log" /\ j.acc = worker[w].acc /\ j.at \in Locked
    BY <1>3, <1>9 DEF Fallback
  <2>3. Relies(j, sso', passwords', grok') /\ KeysAgree'
    BY <1>1, <1>2, <2>1, <2>2 DEF Relies, KeyInv, KeysAgree
  <2> QED
    BY <1>1, <1>2, <2>1, <2>2, <2>3, JobTypes, JobStepInv
<1> QED
  BY <1>4, <1>5, <1>6, <1>7, <1>8, <1>9

\* The lock is given back; what is counted has its password by then.
LEMMA UnlockInv ==
  ASSUME KeyInv, NEW w \in Workers, Log(w) \/ AppendRaises(w) \/ bump_ok(w)
  PROVE  KeyInv'
<1>1. /\ UNCHANGED files /\ write_lock' \in BOOLEAN /\ stop' \in BOOLEAN
      /\ worker[w].at \in Locked \/ write_lock' = write_lock
  BY DEF Log, AppendRaises, bump_ok, At, Locked, KeyInv, KeyFilesTypeOK
<1>2. PICK j \in Job :
        /\ worker' = [worker EXCEPT ![w] = j]
        /\ j.at \in {"count", "failed", "done", "top"}
        /\ j.at = "count" => j.acc = worker[w].acc /\ worker[w].at = "log"
  <2>1. ASSUME NEW place \in {"count", "failed"}, To(w, place),
               place = "count" => worker[w].at = "log"
        PROVE  \E j \in Job :
                 /\ worker' = [worker EXCEPT ![w] = j]
                 /\ j.at \in {"count", "failed", "done", "top"}
                 /\ j.at = "count" => j.acc = worker[w].acc /\ worker[w].at = "log"
    <3> DEFINE j == Goes(w, place, {})
    <3>1. j \in Job /\ j.at = place /\ j.acc = worker[w].acc
      BY GoesIsJob DEF Places, Acc
    <3>2. worker' = [worker EXCEPT ![w] = j]
      BY <2>1, JobTypes DEF To, Goes
    <3> HIDE DEF j
    <3> QED
      BY <2>1, <3>1, <3>2
  <2>2. ASSUME NEW over \in BOOLEAN, Again(w, over)
        PROVE  \E j \in Job : /\ worker' = [worker EXCEPT ![w] = j]
                             /\ j.at \in {"done", "top"}
    <3> DEFINE j == [at |-> IF over THEN "done" ELSE "top", acc |-> NoAccount,
                     seen |-> {}]
    <3>1. worker' = [worker EXCEPT ![w] = j]
      BY <2>2 DEF Again
    <3>2. j \in Job /\ j.at \in {"done", "top"}
      BY DEF Job, Places
    <3> QED
      BY <3>1, <3>2
  <2>3. CASE bump_ok(w)
    <3>1. PICK over \in BOOLEAN : Again(w, over)
      BY <2>3 DEF bump_ok
    <3> QED
      BY <2>2, <3>1
  <2> QED
    BY <2>1, <2>3 DEF Log, AppendRaises, At
<1>3. j.at \notin Locked
  BY <1>2 DEF Locked
<1>4. Relies(j, sso', passwords', grok')
  BY <1>1, <1>2, JobTypes DEF Relies, Locked, files
<1>5. KeysAgree' /\ counted' \subseteq Accounts
  <2>1. CASE bump_ok(w)
    <3>1. counted' = counted \cup {worker[w].acc} /\ worker[w].acc \in passwords
      BY <2>1, JobTypes DEF bump_ok, Acc, At, Relies
    <3> QED
      BY <1>1, <3>1, JobTypes DEF KeyInv, KeysAgree, files
  <2>2. CASE Log(w) \/ AppendRaises(w)
    BY <1>1, <2>2, JobTypes DEF Log, AppendRaises, KeyInv, KeysAgree, files
  <2> QED
    BY <2>1, <2>2
<1> QED
  BY <1>1, <1>2, <1>3, <1>4, <1>5, JobTypes, JobStepInv DEF files

LEMMA KeyStepInv ==
  ASSUME ReadsFail = FALSE PROVE KeyInv /\ [KeyFilesNext]_keyVars => KeyInv'
<1> SUFFICES ASSUME KeyInv, [KeyFilesNext]_keyVars PROVE KeyInv'
  OBVIOUS
<1>1. CASE UNCHANGED keyVars
  BY <1>1 DEF keyVars, files, KeyInv, KeyFilesTypeOK, KeysAgree
<1>2. CASE as_completed
  BY <1>2 DEF as_completed, files, KeyInv, KeyFilesTypeOK, KeysAgree
<1>3. ASSUME NEW w \in Workers,
             NextAttempt(w) \/ Leave(w) \/ register_once(w) \/ bump_fail(w)
      PROVE  KeyInv'
  BY <1>3, LoopInv
<1>4. ASSUME NEW w \in Workers,
             append_account(w) \/ ReadPasswords(w) \/ ReadSso(w)
      PROVE  KeyInv'
  BY <1>4, ReadInLockInv
<1>5. ASSUME NEW w \in Workers,
             \/ upsert_sso(w) \/ upsert_account_password(w)
             \/ rewrite_grok_from_sso(w) \/ append_sso_artifacts(w)
             \/ ArtifactsRaise(w) \/ Fallback(w)
      PROVE  KeyInv'
  BY <1>5, WriteInLockInv
<1>6. ASSUME NEW w \in Workers, Log(w) \/ AppendRaises(w) \/ bump_ok(w)
      PROVE  KeyInv'
  BY <1>6, UnlockInv
<1> QED
  BY <1>1, <1>2, <1>3, <1>4, <1>5, <1>6 DEF KeyFilesNext

\* For any threads, accounts and target, wherever a step on the files raises,
\* an account with a session line has its password and its token on file, and
\* an account counted has its password - as long as reading a file that
\* exists does not fail, which the upserts take for an empty file.
THEOREM KeysKept == ASSUME ReadsFail = FALSE PROVE KeyFilesSpec => []KeysAgree
<1>1. KeyInv => KeysAgree
  BY DEF KeyInv
<1> QED
  BY <1>1, KeyInitInv, KeyStepInv, PTL DEF KeyFilesSpec
----------------------------------------------------------------------------
\* The jobs of the solver gateway

PendingJobs == {j \in Jobs : results[j].status = "pending"}
Queued(j) == \E i \in DOMAIN queue : queue[i] = j
InHand(j) == \E w \in Loops : loop[w].job = j

LoopState ==
  [at : {"select", "ensure", "check", "stop", "renew", "solving"},
   job : Jobs \cup {NoJob}, got : Jobs \cup {"nothing", "failed"},
   next : {"select", "renew", "timeout"}]
BrowserState ==
  [process : {"none", "up", "dead"}, alive : BOOLEAN,
   mu : {"free", "warmup", "solve"}, pipe : Seq(Jobs \cup {NoJob}),
   warmup : {"over", "lock", "read"}, solve : {"over", "lock", "read"}]
ResultState ==
  [status : {"none", "pending", "success", "fail", "error", "purged"},
   value : Jobs \cup {NoJob}]

GatewayTypes ==
  /\ results \in [Jobs -> ResultState]
  /\ sending \subseteq Jobs /\ queue \in Seq(Jobs)
  /\ loop \in [Loops -> LoopState] /\ browser \in [Loops -> BrowserState]

\* A job is in one place at a time: with its handler, in the queue or with
\* one loop; and it is pending while it is in one.
OnePlace ==
  /\ \A i, k \in DOMAIN queue : queue[i] = queue[k] => i = k
  /\ \A w, v \in Loops : loop[w].job = loop[v].job /\ loop[w].job \in Jobs
                         => w = v
  /\ \A j \in Jobs : /\ ~(Queued(j) /\ InHand(j))
                     /\ ~(Queued(j) /\ j \in sending)
                     /\ ~(InHand(j) /\ j \in sending)
PendingHeld ==
  \A j \in Jobs : results[j].status = "pending"
                    <=> Queued(j) \/ InHand(j) \/ j \in sending
Counted == IsFiniteSet(PendingJobs) /\ pending = Cardinality(PendingJobs)

\* Of a loop l and its process b: a loop has a job from the queue's head to
\* its result;
HasJob(l) ==
  l.job \in Jobs
    <=> \/ l.at \in {"ensure", "check", "renew", "solving"}
        \/ l.at = "stop" /\ l.next \in {"renew", "timeout"}

\* the goroutine that solves is at work only while its loop waits for it or
\* stops its process, on a process flagged alive, and answers once;
SolveInStep(l, b) ==
  /\ b.solve \in {"lock", "read"}
       => /\ \/ l.at = "solving"
             \/ l.at = "stop" /\ l.next = "timeout"
          /\ l.got = "nothing" /\ b.alive
  /\ l.at = "check" => b.alive
  /\ l.at \in {"ensure", "check", "renew"} => l.got = "nothing"
  /\ l.at = "stop" /\ l.next = "renew" => l.got = "nothing"

\* the pipe of a process in use holds one request, that of whoever has the
\* mutex, and so what is read from it is the answer to it.
PipeInStep(l, b) ==
  /\ b.mu = "free" /\ b.alive => b.pipe = <<>>
  /\ b.mu = "warmup" => b.pipe = <<NoJob>>
  /\ b.mu = "solve" => b.solve = "read" /\ b.pipe = <<l.job>>
  /\ b.solve = "read" => b.mu = "solve"
  /\ b.warmup = "read" => b.mu = "warmup"

OwnToken(l) == l.got \in Jobs => l.got = l.job

InStep(l, b) ==
  HasJob(l) /\ SolveInStep(l, b) /\ PipeInStep(l, b) /\ OwnToken(l)

OwnAnswer == \A j \in Jobs : results[j].status = "success" => results[j].value = j

GatewayInv ==
  /\ GatewayTypes /\ OnePlace /\ PendingHeld /\ Counted /\ OwnAnswer
  /\ \A w \in Loops : InStep(loop[w], browser[w])

----------------------------------------------------------------------------
\* Which fields a step changes.

LoopAt(l, p) == [l EXCEPT !.at = p]
LoopStops(l, n) == [l EXCEPT !.at = "stop", !.next = n]
LoopGets(l, g) == [l EXCEPT !.got = g]
LoopTakes(j) == [Waiting EXCEPT !.at = "ensure", !.job = j]
LoopEmpty(p) == [Waiting EXCEPT !.at = p]

LEMMA LoopChanges ==
  ASSUME NEW l \in LoopState
  PROVE  /\ \A p \in {"select", "ensure", "check", "stop", "renew", "solving"} :
              /\ LoopAt(l, p) \in LoopState
              /\ LoopAt(l, p).at = p /\ LoopAt(l, p).job = l.job
              /\ LoopAt(l, p).got = l.got /\ LoopAt(l, p).next = l.next
         /\ \A n \in {"renew", "timeout"} :
              /\ LoopStops(l, n) \in LoopState
              /\ LoopStops(l, n).at = "stop" /\ LoopStops(l, n).job = l.job
              /\ LoopStops(l, n).got = l.got /\ LoopStops(l, n).next = n
         /\ \A g \in Jobs \cup {"failed"} :
              /\ LoopGets(l, g) \in LoopState
              /\ LoopGets(l, g).at = l.at /\ LoopGets(l, g).job = l.job
              /\ LoopGets(l, g).got = g /\ LoopGets(l, g).next = l.next
BY DEF LoopState, LoopAt, LoopStops, LoopGets

LEMMA LoopStarts ==
  /\ \A p \in {"select", "stop"} :
       /\ LoopEmpty(p) \in LoopState
       /\ LoopEmpty(p).at = p /\ LoopEmpty(p).job = NoJob
       /\ LoopEmpty(p).got = "nothing" /\ LoopEmpty(p).next = "select"
  /\ Waiting \in LoopState
  /\ Waiting.at = "select" /\ Waiting.job = NoJob
  /\ Waiting.got = "nothing" /\ Waiting.next = "select"
  /\ \A j \in Jobs :
       /\ LoopTakes(j) \in LoopState
       /\ LoopTakes(j).at = "ensure" /\ LoopTakes(j).job = j
       /\ LoopTakes(j).got = "nothing" /\ LoopTakes(j).next = "select"
<1>1. /\ Waiting \in LoopState
      /\ Waiting.at = "select" /\ Waiting.job = NoJob
      /\ Waiting.got = "nothing" /\ Waiting.next = "select"
  BY DEF Waiting, LoopState
<1> QED
  BY <1>1 DEF LoopState, LoopEmpty, LoopTakes

StartedWith(x) == [Started EXCEPT !.solve = x]

LEMMA BrowserStarts ==
  /\ Gone \in BrowserState
  /\ Gone.mu = "free" /\ ~Gone.alive /\ Gone.pipe = <<>>
  /\ Gone.warmup = "over" /\ Gone.solve = "over"
  /\ \A x \in {"lock", "over"} :
       /\ StartedWith(x) \in BrowserState
       /\ StartedWith(x).mu = "free" /\ StartedWith(x).alive
       /\ StartedWith(x).pipe = <<>>
       /\ StartedWith(x).warmup = "lock" /\ StartedWith(x).solve = x
<1>1. <<>> \in Seq(Jobs \cup {NoJob})
  OBVIOUS
<1>2. Gone \in BrowserState /\ Started \in BrowserState
  BY <1>1 DEF BrowserState, Gone, Started
<1>3. /\ Started.mu = "free" /\ Started.alive /\ Started.pipe = <<>>
      /\ Started.warmup = "lock"
  BY DEF Started, Gone
<1>4. /\ Gone.mu = "free" /\ ~Gone.alive /\ Gone.pipe = <<>>
      /\ Gone.warmup = "over" /\ Gone.solve = "over"
  BY DEF Gone
<1>5. ASSUME NEW x \in {"lock", "over"}
      PROVE  /\ StartedWith(x) \in BrowserState
             /\ StartedWith(x).mu = "free" /\ StartedWith(x).alive
             /\ StartedWith(x).pipe = <<>>
             /\ StartedWith(x).warmup = "lock" /\ StartedWith(x).solve = x
  BY <1>2, <1>3 DEF BrowserState, StartedWith
<1> QED
  BY <1>2, <1>4, <1>5

SolveAt(b, x) == [b EXCEPT !.solve = x]
WarmupOver(b) == [b EXCEPT !.warmup = "over"]
BrowserDead(b) == [b EXCEPT !.process = "dead"]
SolveFails(b) == [b EXCEPT !.solve = "over", !.mu = "free", !.alive = FALSE]
WarmupWrites(b) ==
  [b EXCEPT !.warmup = "read", !.mu = "warmup", !.pipe = Append(@, NoJob)]
SolveWrites(b, j) ==
  [b EXCEPT !.solve = "read", !.mu = "solve", !.pipe = Append(@, j)]
WarmupReads(b) ==
  [b EXCEPT !.warmup = "over", !.mu = "free",
            !.pipe = IF @ = <<>> THEN @ ELSE Tail(@)]
SolveReads(b) ==
  [b EXCEPT !.solve = "over", !.mu = "free", !.pipe = Tail(@)]

LEMMA BrowserChanges ==
  ASSUME NEW b \in BrowserState
  PROVE  /\ \A x \in {"lock", "over"} :
              /\ SolveAt(b, x) \in BrowserState
              /\ SolveAt(b, x).mu = b.mu /\ SolveAt(b, x).alive = b.alive
              /\ SolveAt(b, x).pipe = b.pipe
              /\ SolveAt(b, x).warmup = b.warmup /\ SolveAt(b, x).solve = x
         /\ WarmupOver(b) \in BrowserState
         /\ WarmupOver(b).mu = b.mu /\ WarmupOver(b).alive = b.alive
         /\ WarmupOver(b).pipe = b.pipe /\ WarmupOver(b).solve = b.solve
         /\ WarmupOver(b).warmup = "over"
         /\ BrowserDead(b) \in BrowserState
         /\ BrowserDead(b).mu = b.mu /\ BrowserDead(b).alive = b.alive
         /\ BrowserDead(b).pipe = b.pipe /\ BrowserDead(b).solve = b.solve
         /\ BrowserDead(b).warmup = b.warmup
         /\ SolveFails(b) \in BrowserState
         /\ SolveFails(b).mu = "free" /\ ~SolveFails(b).alive
         /\ SolveFails(b).warmup = b.warmup /\ SolveFails(b).solve = "over"
<1>1. /\ b.process \in {"none", "up", "dead"} /\ b.alive \in BOOLEAN
      /\ b.mu \in {"free", "warmup", "solve"}
      /\ b.pipe \in Seq(Jobs \cup {NoJob})
      /\ b.warmup \in {"over", "lock", "read"}
      /\ b.solve \in {"over", "lock", "read"}
  BY DEF BrowserState
<1> QED
  BY <1>1 DEF BrowserState, SolveAt, WarmupOver, BrowserDead, SolveFails

\* The lock is taken and a request is written.
LEMMA BrowserWrites ==
  ASSUME NEW b \in BrowserState, NEW j \in Jobs \cup {NoJob}
  PROVE  /\ WarmupWrites(b) \in BrowserState
         /\ WarmupWrites(b).mu = "warmup" /\ WarmupWrites(b).alive = b.alive
         /\ WarmupWrites(b).pipe = Append(b.pipe, NoJob)
         /\ WarmupWrites(b).warmup = "read" /\ WarmupWrites(b).solve = b.solve
         /\ SolveWrites(b, j) \in BrowserState
         /\ SolveWrites(b, j).mu = "solve" /\ SolveWrites(b, j).alive = b.alive
         /\ SolveWrites(b, j).pipe = Append(b.pipe, j)
         /\ SolveWrites(b, j).warmup = b.warmup
         /\ SolveWrites(b, j).solve = "read"
<1>1. /\ Append(b.pipe, NoJob) \in Seq(Jobs \cup {NoJob})
      /\ Append(b.pipe, j) \in Seq(Jobs \cup {NoJob})
  BY DEF BrowserState
<1> QED
  BY <1>1 DEF BrowserState, WarmupWrites, SolveWrites

\* An answer is read and the lock given back.
LEMMA BrowserReads ==
  ASSUME NEW b \in BrowserState
  PROVE  /\ WarmupReads(b) \in BrowserState
         /\ WarmupReads(b).mu = "free" /\ WarmupReads(b).alive = b.alive
         /\ WarmupReads(b).pipe
              = (IF b.pipe = <<>> THEN b.pipe ELSE Tail(b.pipe))
         /\ WarmupReads(b).warmup = "over" /\ WarmupReads(b).solve = b.solve
         /\ b.pipe # <<>> =>
              /\ SolveReads(b) \in BrowserState
              /\ SolveReads(b).mu = "free" /\ SolveReads(b).alive = b.alive
              /\ SolveReads(b).pipe = Tail(b.pipe)
              /\ SolveReads(b).warmup = b.warmup /\ SolveReads(b).solve = "over"
<1>1. b.pipe \in Seq(Jobs \cup {NoJob})
  BY DEF BrowserState
<1>2. /\ (IF b.pipe = <<>> THEN b.pipe ELSE Tail(b.pipe))
           \in Seq(Jobs \cup {NoJob})
      /\ b.pipe # <<>> => Tail(b.pipe) \in Seq(Jobs \cup {NoJob})
  BY <1>1
<1> QED
  BY <1>2 DEF BrowserState, WarmupReads, SolveReads

----------------------------------------------------------------------------
\* Loops and processes in step

GatewayFrame(w, l, b) ==
  /\ l \in LoopState /\ b \in BrowserState
  /\ loop' = [loop EXCEPT ![w] = l] /\ browser' = [browser EXCEPT ![w] = b]

LEMMA FrameKept ==
  ASSUME GatewayTypes, NEW w \in Loops, NEW l, NEW b, GatewayFrame(w, l, b)
  PROVE  /\ loop' \in [Loops -> LoopState] /\ browser' \in [Loops -> BrowserState]
         /\ loop'[w] = l /\ browser'[w] = b
         /\ \A v \in Loops \ {w} : loop'[v] = loop[v] /\ browser'[v] = browser[v]
BY DEF GatewayFrame, GatewayTypes

LEMMA FrameLoop ==
  ASSUME GatewayTypes, NEW w \in Loops, NEW l \in LoopState,
         loop' = [loop EXCEPT ![w] = l], UNCHANGED browser
  PROVE  GatewayFrame(w, l, browser[w])
BY DEF GatewayFrame, GatewayTypes

LEMMA FrameBrowser ==
  ASSUME GatewayTypes, NEW w \in Loops, NEW b \in BrowserState,
         browser' = [browser EXCEPT ![w] = b], UNCHANGED loop
  PROVE  GatewayFrame(w, loop[w], b)
BY DEF GatewayFrame, GatewayTypes

\* What a step of loop w and its goroutines makes of them: a frame, in step,
\* and the loop keeps its job unless it is given one or ends it.
LoopMoves(w) ==
  Receive(w) \/ ProcessKept(w) \/ Recycle(w) \/ GoSolve(w) \/ Timeout(w)
LoopEnds(w) == StartFails(w) \/ Success(w) \/ Failure(w)
PipeMoves(w) ==
  WarmupLock(w) \/ WarmupRead(w) \/ SolveLock(w) \/ SolveRead(w) \/ ProcessDies(w)
LoopStep(w) == LoopMoves(w) \/ LoopEnds(w) \/ startWorker(w) \/ stopWorker(w)
               \/ PipeMoves(w)

LEMMA LoopMovesInStep ==
  ASSUME GatewayTypes, NEW w \in Loops, InStep(loop[w], browser[w]),
         LoopMoves(w)
  PROVE  \E l, b : /\ GatewayFrame(w, l, b) /\ InStep(l, b)
                   /\ ~Receive(w) => l.job = loop[w].job
<1> USE GatewayAssumption
<1>1. loop[w] \in LoopState /\ browser[w] \in BrowserState
  BY DEF GatewayTypes
<1>2. CASE Receive(w)
  <2>1. /\ Head(queue) \in Jobs /\ loop[w].at = "select"
        /\ loop' = [loop EXCEPT ![w] = LoopTakes(Head(queue))]
        /\ UNCHANGED browser
    BY <1>2 DEF Receive, GatewayTypes, LoopTakes
  <2>2. PICK l : l = LoopTakes(Head(queue))
    OBVIOUS
  <2>3. /\ l \in LoopState /\ l.at = "ensure" /\ l.job \in Jobs
        /\ l.got = "nothing"
    BY <2>1, <2>2, LoopStarts
  <2>4. browser[w].solve = "over"
    BY <1>1, <2>1 DEF InStep, SolveInStep, BrowserState
  <2>5. InStep(l, browser[w])
    BY <2>3, <2>4 DEF InStep, HasJob, SolveInStep, PipeInStep, OwnToken
  <2> QED
    BY <1>2, <2>1, <2>2, <2>3, <2>5, FrameLoop
<1>3. CASE ProcessKept(w)
  <2>1. /\ loop[w].at = "ensure" /\ browser[w].alive
        /\ loop' = [loop EXCEPT ![w] = LoopAt(@, "check")] /\ UNCHANGED browser
    BY <1>3 DEF ProcessKept, LoopTo, LoopAt
  <2>2. PICK l : l = LoopAt(loop[w], "check")
    OBVIOUS
  <2>3. /\ l \in LoopState /\ l.at = "check" /\ l.job = loop[w].job
        /\ l.got = loop[w].got
    BY <1>1, <2>2, LoopChanges
  <2>4. InStep(l, browser[w])
    BY <1>1, <2>1, <2>3 DEF InStep, HasJob, SolveInStep, PipeInStep, OwnToken
  <2> QED
    BY <2>1, <2>2, <2>3, <2>4, FrameLoop
<1>4. CASE Recycle(w)
  <2>1. /\ loop[w].at = "check"
        /\ loop' = [loop EXCEPT ![w] = LoopStops(@, "renew")]
        /\ UNCHANGED browser
    BY <1>4 DEF Recycle, LoopStops
  <2>2. PICK l : l = LoopStops(loop[w], "renew")
    OBVIOUS
  <2>3. /\ l \in LoopState /\ l.at = "stop" /\ l.job = loop[w].job
        /\ l.got = loop[w].got /\ l.next = "renew"
    BY <1>1, <2>2, LoopChanges
  <2>4. InStep(l, browser[w])
    BY <1>1, <2>1, <2>3 DEF InStep, HasJob, SolveInStep, PipeInStep, OwnToken
  <2> QED
    BY <2>1, <2>2, <2>3, <2>4, FrameLoop
<1>5. CASE GoSolve(w)
  <2>1. /\ loop[w].at = "check"
        /\ loop' = [loop EXCEPT ![w] = LoopAt(@, "solving")]
        /\ browser' = [browser EXCEPT ![w] = SolveAt(@, "lock")]
    BY <1>5 DEF GoSolve, LoopTo, LoopAt, SolveAt
  <2>2. PICK l, b : l = LoopAt(loop[w], "solving") /\ b = SolveAt(browser[w], "lock")
    OBVIOUS
  <2>3. /\ l \in LoopState /\ l.at = "solving" /\ l.job = loop[w].job
        /\ l.got = loop[w].got
    BY <1>1, <2>2, LoopChanges
  <2>4. /\ b \in BrowserState /\ b.mu = browser[w].mu /\ b.solve = "lock"
        /\ b.alive = browser[w].alive /\ b.pipe = browser[w].pipe
        /\ b.warmup = browser[w].warmup
    BY <1>1, <2>2, BrowserChanges
  <2>5. InStep(l, b)
    BY <1>1, <2>1, <2>3, <2>4
    DEF InStep, HasJob, SolveInStep, PipeInStep, OwnToken
  <2> QED
    BY <2>1, <2>2, <2>3, <2>4, <2>5 DEF GatewayFrame
<1>6. CASE Timeout(w)
  <2>1. /\ loop[w].at = "solving"
        /\ loop' = [loop EXCEPT ![w] = LoopStops(@, "timeout")]
        /\ UNCHANGED browser
    BY <1>6 DEF Timeout, LoopStops
  <2>2. PICK l : l = LoopStops(loop[w], "timeout")
    OBVIOUS
  <2>3. /\ l \in LoopState /\ l.at = "stop" /\ l.job = loop[w].job
        /\ l.got = loop[w].got /\ l.next = "timeout"
    BY <1>1, <2>2, LoopChanges
  <2>4. InStep(l, browser[w])
    BY <1>1, <2>1, <2>3 DEF InStep, HasJob, SolveInStep, PipeInStep, OwnToken
  <2> QED
    BY <2>1, <2>2, <2>3, <2>4, FrameLoop
<1> QED
  BY <1>2, <1>3, <1>4, <1>5, <1>6 DEF LoopMoves

LEMMA LoopEndsInStep ==
  ASSUME GatewayTypes, NEW w \in Loops, InStep(loop[w], browser[w]),
         LoopEnds(w)
  PROVE  \E l, b : GatewayFrame(w, l, b) /\ InStep(l, b) /\ l.job = NoJob
<1> USE GatewayAssumption
<1>1. loop[w] \in LoopState /\ browser[w] \in BrowserState
  BY DEF GatewayTypes
<1>2. CASE StartFails(w)
  <2>1. /\ loop' = [loop EXCEPT ![w] = Waiting]
        /\ browser' = [browser EXCEPT ![w] = Gone]
    BY <1>2 DEF StartFails
  <2>2. InStep(Waiting, Gone)
    BY LoopStarts, BrowserStarts
    DEF InStep, HasJob, SolveInStep, PipeInStep, OwnToken
  <2> QED
    BY <2>1, <2>2, LoopStarts, BrowserStarts DEF GatewayFrame
<1>3. CASE Success(w) \/ Failure(w)
  <2>1. /\ UNCHANGED browser
        /\ loop[w].at = "solving" /\ loop[w].got # "nothing"
    BY <1>3 DEF Success, Failure
  <2>2. PICK p \in {"select", "stop"} :
          loop' = [loop EXCEPT ![w] = LoopEmpty(p)]
    BY <1>3 DEF Success, Failure, LoopEmpty
  <2>3. PICK l : l = LoopEmpty(p)
    OBVIOUS
  <2>4. /\ l \in LoopState /\ l.at = p /\ l.job = NoJob
        /\ l.got = "nothing" /\ l.next = "select"
    BY <2>3, LoopStarts
  <2>5. browser[w].solve = "over"
    BY <1>1, <2>1 DEF InStep, SolveInStep, BrowserState
  <2>6. HasJob(l) /\ OwnToken(l)
    BY <2>4 DEF HasJob, OwnToken
  <2>7. SolveInStep(l, browser[w]) /\ PipeInStep(l, browser[w])
    BY <2>4, <2>5 DEF InStep, SolveInStep, PipeInStep
  <2>8. InStep(l, browser[w])
    BY <2>6, <2>7 DEF InStep
  <2> QED
    BY <2>1, <2>2, <2>3, <2>4, <2>8, FrameLoop
<1> QED
  BY <1>2, <1>3 DEF LoopEnds

LEMMA ProcessInStep ==
  ASSUME GatewayTypes, NEW w \in Loops, InStep(loop[w], browser[w]),
         startWorker(w) \/ stopWorker(w)
  PROVE  \E l, b : /\ GatewayFrame(w, l, b) /\ InStep(l, b)
                   /\ l.job = IF stopWorker(w) /\ loop[w].next = "timeout"
                              THEN NoJob ELSE loop[w].job
<1> USE GatewayAssumption
<1>1. loop[w] \in LoopState /\ browser[w] \in BrowserState
  BY DEF GatewayTypes
<1>2. CASE startWorker(w)
  <2>1. PICK p \in {"check", "solving"}, x \in {"lock", "over"} :
          /\ loop' = [loop EXCEPT ![w] = LoopAt(@, p)]
          /\ browser' = [browser EXCEPT ![w] = StartedWith(x)]
          /\ p = "check" => loop[w].at = "ensure" /\ x = "over"
          /\ p = "solving" => loop[w].at = "renew"
    BY <1>2 DEF startWorker, LoopTo, LoopAt, StartedWith
  <2>2. PICK l, b : l = LoopAt(loop[w], p) /\ b = StartedWith(x)
    OBVIOUS
  <2>3. /\ l \in LoopState /\ l.at = p /\ l.job = loop[w].job
        /\ l.got = loop[w].got
    BY <1>1, <2>2, LoopChanges
  <2>4. /\ b \in BrowserState /\ b.mu = "free" /\ b.alive /\ b.pipe = <<>>
        /\ b.warmup = "lock" /\ b.solve = x
    BY <2>2, BrowserStarts
  <2>5. InStep(l, b)
    BY <2>1, <2>3, <2>4 DEF InStep, HasJob, SolveInStep, PipeInStep, OwnToken
  <2>6. ~stopWorker(w)
    BY <1>2 DEF startWorker, stopWorker
  <2> QED
    BY <2>1, <2>2, <2>3, <2>4, <2>5, <2>6 DEF GatewayFrame
<1>3. CASE stopWorker(w) /\ loop[w].next = "timeout"
  <2>1. /\ loop' = [loop EXCEPT ![w] = Waiting]
        /\ browser' = [browser EXCEPT ![w] = Gone]
    BY <1>3 DEF stopWorker
  <2>2. InStep(Waiting, Gone)
    BY LoopStarts, BrowserStarts
    DEF InStep, HasJob, SolveInStep, PipeInStep, OwnToken
  <2> QED
    BY <1>3, <2>1, <2>2, LoopStarts, BrowserStarts DEF GatewayFrame
<1>4. CASE stopWorker(w) /\ loop[w].next # "timeout"
  <2>1. loop[w].next \in {"select", "renew"}
    BY <1>1, <1>4 DEF LoopState
  <2>2. /\ loop[w].at = "stop"
        /\ loop' = [loop EXCEPT ![w] = LoopAt(@, loop[w].next)]
        /\ browser' = [browser EXCEPT ![w] = Gone]
    BY <1>4 DEF stopWorker, LoopTo, LoopAt
  <2>3. PICK l : l = LoopAt(loop[w], loop[w].next)
    OBVIOUS
  <2>4. /\ l \in LoopState /\ l.at = loop[w].next /\ l.job = loop[w].job
        /\ l.got = loop[w].got
    BY <1>1, <2>1, <2>3, LoopChanges
  <2>5. InStep(l, Gone)
    BY <2>1, <2>2, <2>4, BrowserStarts
    DEF InStep, HasJob, SolveInStep, PipeInStep, OwnToken
  <2> QED
    BY <1>4, <2>2, <2>3, <2>4, <2>5, BrowserStarts DEF GatewayFrame
<1> QED
  BY <1>2, <1>3, <1>4

LEMMA PipeMovesInStep ==
  ASSUME GatewayTypes, NEW w \in Loops, InStep(loop[w], browser[w]),
         PipeMoves(w)
  PROVE  \E l, b : /\ GatewayFrame(w, l, b) /\ InStep(l, b)
                   /\ l.job = loop[w].job
<1> USE GatewayAssumption
<1>1. loop[w] \in LoopState /\ browser[w] \in BrowserState
  BY DEF GatewayTypes
<1>2. CASE WarmupLock(w)
  <2>0. UNCHANGED loop /\ browser[w].mu = "free"
    BY <1>2 DEF WarmupLock
  <2>1. \/ /\ browser[w].alive
           /\ browser' = [browser EXCEPT ![w] = WarmupWrites(@)]
        \/ browser' = [browser EXCEPT ![w] = WarmupOver(@)]
    BY <1>2 DEF WarmupLock, WarmupWrites, WarmupOver
  <2>2. CASE /\ browser[w].alive
             /\ browser' = [browser EXCEPT ![w] = WarmupWrites(@)]
    <3>0. PICK b : b = WarmupWrites(browser[w])
      OBVIOUS
    <3>1. Append(<<>>, NoJob) = <<NoJob>>
      OBVIOUS
    <3>2. browser[w].pipe = <<>> /\ browser[w].alive
      BY <2>0, <2>2 DEF InStep, PipeInStep
    <3>3. /\ b \in BrowserState /\ b.mu = "warmup" /\ b.alive
          /\ b.pipe = <<NoJob>> /\ b.warmup = "read"
          /\ b.solve = browser[w].solve
      BY <1>1, <3>0, <3>1, <3>2, BrowserWrites
    <3>4. InStep(loop[w], b)
      BY <2>0, <3>2, <3>3
      DEF InStep, HasJob, SolveInStep, PipeInStep, OwnToken
    <3> QED
      BY <2>0, <2>2, <3>0, <3>3, <3>4, FrameBrowser
  <2>3. CASE browser' = [browser EXCEPT ![w] = WarmupOver(@)]
    <3>0. PICK b : b = WarmupOver(browser[w])
      OBVIOUS
    <3>1. /\ b \in BrowserState /\ b.mu = browser[w].mu
          /\ b.alive = browser[w].alive /\ b.pipe = browser[w].pipe
          /\ b.warmup = "over" /\ b.solve = browser[w].solve
      BY <1>1, <3>0, BrowserChanges
    <3>2. browser[w].warmup # "read"
      BY <2>0 DEF InStep, PipeInStep
    <3>3. InStep(loop[w], b)
      BY <3>1, <3>2 DEF InStep, HasJob, SolveInStep, PipeInStep, OwnToken
    <3> QED
      BY <2>0, <2>3, <3>0, <3>1, <3>3, FrameBrowser
  <2> QED
    BY <2>1, <2>2, <2>3
<1>3. CASE WarmupRead(w)
  <2>1. PICK b : b = WarmupReads(browser[w])
    OBVIOUS
  <2>2. /\ browser' = [browser EXCEPT ![w] = b] /\ UNCHANGED loop
        /\ browser[w].warmup = "read"
    BY <1>3, <2>1 DEF WarmupRead, WarmupReads
  <2>3. /\ b \in BrowserState /\ b.mu = "free" /\ b.alive = browser[w].alive
        /\ b.pipe = (IF browser[w].pipe = <<>> THEN browser[w].pipe
                     ELSE Tail(browser[w].pipe))
        /\ b.warmup = "over" /\ b.solve = browser[w].solve
    BY <1>1, <2>1, BrowserReads
  <2>4. b.pipe = <<>>
    <3>1. browser[w].pipe = <<NoJob>>
      BY <2>2 DEF InStep, PipeInStep
    <3>2. Tail(<<NoJob>>) = <<>> /\ <<NoJob>> # <<>>
      OBVIOUS
    <3> QED
      BY <2>3, <3>1, <3>2
  <2>5. InStep(loop[w], b)
    BY <2>2, <2>3, <2>4
    DEF InStep, HasJob, SolveInStep, PipeInStep, OwnToken
  <2> QED
    BY <2>2, <2>3, <2>5, FrameBrowser
<1>4. CASE ProcessDies(w)
  <2>1. PICK b : b = BrowserDead(browser[w])
    OBVIOUS
  <2>2. browser' = [browser EXCEPT ![w] = b] /\ UNCHANGED loop
    BY <1>4, <2>1 DEF ProcessDies, BrowserDead
  <2>3. /\ b \in BrowserState /\ b.mu = browser[w].mu
        /\ b.alive = browser[w].alive /\ b.pipe = browser[w].pipe
        /\ b.warmup = browser[w].warmup /\ b.solve = browser[w].solve
    BY <1>1, <2>1, BrowserChanges
  <2>4. InStep(loop[w], b)
    BY <2>3 DEF InStep, HasJob, SolveInStep, PipeInStep, OwnToken
  <2> QED
    BY <2>2, <2>3, <2>4, FrameBrowser
<1>5. CASE SolveLock(w)
  <2>1. CASE /\ browser' = [browser EXCEPT ![w] = SolveWrites(@, loop[w].job)]
             /\ UNCHANGED loop
    <3>1. PICK b : b = SolveWrites(browser[w], loop[w].job)
      OBVIOUS
    <3>2. /\ browser[w].solve = "lock" /\ browser[w].mu = "free"
      BY <1>5 DEF SolveLock
    <3>3. /\ browser[w].alive /\ browser[w].pipe = <<>>
          /\ loop[w].got = "nothing"
      BY <3>2 DEF InStep, SolveInStep, PipeInStep
    <3>4. loop[w].job \in Jobs \cup {NoJob}
      BY <1>1 DEF LoopState
    <3>5. Append(<<>>, loop[w].job) = <<loop[w].job>>
      BY <3>4
    <3>6. /\ b \in BrowserState /\ b.mu = "solve" /\ b.alive
          /\ b.pipe = <<loop[w].job>> /\ b.solve = "read"
          /\ b.warmup = browser[w].warmup
      BY <1>1, <3>1, <3>3, <3>4, <3>5, BrowserWrites
    <3>7. InStep(loop[w], b)
      BY <3>2, <3>6 DEF InStep, HasJob, SolveInStep, PipeInStep, OwnToken
    <3> QED
      BY <2>1, <3>1, <3>6, <3>7, FrameBrowser
  <2>2. CASE /\ browser' = [browser EXCEPT ![w] = SolveAt(@, "over")]
             /\ loop' = [loop EXCEPT ![w] = LoopGets(@, "failed")]
    <3>1. PICK l, b : /\ l = LoopGets(loop[w], "failed")
                      /\ b = SolveAt(browser[w], "over")
      OBVIOUS
    <3>2. /\ browser[w].solve = "lock" /\ browser[w].mu = "free"
      BY <1>5 DEF SolveLock
    <3>3. /\ l \in LoopState /\ l.at = loop[w].at /\ l.job = loop[w].job
          /\ l.got = "failed" /\ l.next = loop[w].next
      BY <1>1, <3>1, LoopChanges
    <3>4. /\ b \in BrowserState /\ b.mu = "free" /\ b.solve = "over"
          /\ b.alive = browser[w].alive /\ b.pipe = browser[w].pipe
          /\ b.warmup = browser[w].warmup
      BY <1>1, <3>1, <3>2, BrowserChanges
    <3>5. InStep(l, b)
      BY <3>2, <3>3, <3>4
      DEF InStep, HasJob, SolveInStep, PipeInStep, OwnToken
    <3> QED
      BY <2>2, <3>1, <3>3, <3>4, <3>5 DEF GatewayFrame
  <2> QED
    BY <1>5, <2>1, <2>2 DEF SolveLock, SolveWrites, SolveAt, LoopGets
<1>6. CASE SolveRead(w)
  <2>0. browser[w].solve = "read" /\ browser[w].mu = "solve"
        /\ browser[w].pipe = <<loop[w].job>>
        /\ browser[w].warmup # "read"
    BY <1>6 DEF SolveRead, InStep, PipeInStep
  <2>4. \/ loop[w].at = "solving"
        \/ loop[w].at = "stop" /\ loop[w].next = "timeout"
    BY <2>0 DEF InStep, SolveInStep
  <2>1. ASSUME NEW got \in Jobs \cup {"failed"}, NEW b \in BrowserState,
               got \in Jobs => got = loop[w].job,
               loop' = [loop EXCEPT ![w] = LoopGets(@, got)],
               browser' = [browser EXCEPT ![w] = b],
               b.mu = "free", b.alive => b.pipe = <<>>,
               b.warmup = browser[w].warmup, b.solve = "over"
        PROVE  \E l, c : /\ GatewayFrame(w, l, c) /\ InStep(l, c)
                         /\ l.job = loop[w].job
    <3>0. got \in Jobs \cup {"failed"}
      BY <2>1
    <3>1. PICK l : l = LoopGets(loop[w], got)
      OBVIOUS
    <3>2. /\ l \in LoopState /\ l.at = loop[w].at /\ l.job = loop[w].job
          /\ l.got = got /\ l.next = loop[w].next
      BY <1>1, <3>0, <3>1, LoopChanges
    <3>5. HasJob(l) /\ OwnToken(l)
      BY <2>1, <3>2 DEF InStep, HasJob, OwnToken
    <3>6. SolveInStep(l, b) /\ PipeInStep(l, b)
      BY <2>0, <2>1, <2>4, <3>2 DEF SolveInStep, PipeInStep
    <3> QED
      BY <2>1, <3>1, <3>2, <3>5, <3>6 DEF GatewayFrame, InStep
  <2>2. CASE /\ browser[w].pipe # <<>>
             /\ \E got \in {"failed", Head(browser[w].pipe)} \ {NoJob} :
                  loop' = [loop EXCEPT ![w] = LoopGets(@, got)]
             /\ browser' = [browser EXCEPT ![w] = SolveReads(@)]
    <3>1. PICK got \in {"failed", Head(browser[w].pipe)} \ {NoJob} :
            loop' = [loop EXCEPT ![w] = LoopGets(@, got)]
      BY <2>2
    <3>2. PICK b : b = SolveReads(browser[w])
      OBVIOUS
    <3>3. Head(<<loop[w].job>>) = loop[w].job /\ Tail(<<loop[w].job>>) = <<>>
      OBVIOUS
    <3>4. /\ got \in Jobs \cup {"failed"}
          /\ got \in Jobs => got = loop[w].job
      BY <1>1, <2>0, <3>1, <3>3 DEF LoopState
    <3>5. browser[w].pipe # <<>> /\ Tail(browser[w].pipe) = <<>>
      BY <2>0, <2>2, <3>3
    <3>6. /\ b \in BrowserState /\ b.mu = "free" /\ b.pipe = <<>>
          /\ b.warmup = browser[w].warmup /\ b.solve = "over"
      BY <1>1, <3>2, <3>5, BrowserReads
    <3> QED
      BY <2>1, <2>2, <3>1, <3>2, <3>4, <3>6
  <2>3. CASE /\ loop' = [loop EXCEPT ![w] = LoopGets(@, "failed")]
             /\ browser' = [browser EXCEPT ![w] = SolveFails(@)]
    <3>1. PICK b : b = SolveFails(browser[w])
      OBVIOUS
    <3>2. /\ b \in BrowserState /\ b.mu = "free" /\ ~b.alive
          /\ b.warmup = browser[w].warmup /\ b.solve = "over"
      BY <1>1, <3>1, BrowserChanges
    <3> QED
      BY <2>1, <2>3, <3>1, <3>2
  <2> QED
    BY <1>6, <2>2, <2>3 DEF SolveRead, SolveReads, SolveFails, LoopGets
<1> QED
  BY <1>2, <1>3, <1>4, <1>5, <1>6 DEF PipeMoves

----------------------------------------------------------------------------
\* Where the jobs are

Accounted == OnePlace /\ PendingHeld /\ Counted

LEMMA JobEnded ==
  ASSUME GatewayTypes, Counted, NEW j \in Jobs, results[j].status = "pending",
         NEW s \in {"success", "fail", "error"}, NEW x \in Jobs \cup {NoJob},
         PutResult(j, s, x), pending' = pending - 1
  PROVE  /\ Counted' /\ results' \in [Jobs -> ResultState]
         /\ results'[j] = [status |-> s, value |-> x]
         /\ \A k \in Jobs \ {j} : results'[k] = results[k]
<1>1. /\ results' \in [Jobs -> ResultState]
      /\ results'[j] = [status |-> s, value |-> x]
      /\ \A k \in Jobs \ {j} : results'[k] = results[k]
  BY DEF GatewayTypes, PutResult, ResultState
<1>2. s # "pending" /\ results'[j].status = s
  BY <1>1
<1>3. PendingJobs' = PendingJobs \ {j} /\ j \in PendingJobs
  BY <1>1, <1>2 DEF PendingJobs
<1>4. /\ IsFiniteSet(PendingJobs \ {j})
      /\ Cardinality(PendingJobs \ {j}) = Cardinality(PendingJobs) - 1
  BY <1>3, FS_RemoveElement DEF Counted
<1> QED
  BY <1>1, <1>3, <1>4 DEF Counted

\* Nobody takes, gets or ends a job.
LEMMA JobsStay ==
  ASSUME Accounted, UNCHANGED <<pending, sending, queue>>,
         \A j \in Jobs : results'[j].status = "pending"
                           <=> results[j].status = "pending",
         \A v \in Loops : loop'[v].job = loop[v].job
  PROVE  Accounted'
<1>1. PendingJobs' = PendingJobs
  BY DEF PendingJobs
<1>2. \A j \in Jobs : Queued(j)' = Queued(j) /\ InHand(j)' = InHand(j)
  BY DEF Queued, InHand
<1> QED
  BY <1>1, <1>2 DEF Accounted, OnePlace, PendingHeld, Counted

\* Loop w, or the handler if w is none, ends its job.
LEMMA LoopEndsJob ==
  ASSUME GatewayTypes, Accounted, NEW w \in Loops, loop[w].job \in Jobs,
         NEW s \in {"success", "fail", "error"}, NEW x \in Jobs \cup {NoJob},
         PutResult(loop[w].job, s, x), pending' = pending - 1,
         UNCHANGED <<sending, queue>>, loop'[w].job = NoJob,
         \A v \in Loops \ {w} : loop'[v].job = loop[v].job
  PROVE  Accounted'
<1> USE GatewayAssumption
<1>0. NoJob \notin Jobs
  OBVIOUS
<1>1. PICK j \in Jobs : j = loop[w].job
  OBVIOUS
<1>2. InHand(j)
  BY <1>1 DEF InHand
<1>3. results[j].status = "pending"
  BY <1>2 DEF Accounted, PendingHeld
<1>4. /\ Counted' /\ results'[j] = [status |-> s, value |-> x]
      /\ \A k \in Jobs \ {j} : results'[k] = results[k]
  BY <1>1, <1>3, JobEnded DEF Accounted
<1>5. \A k \in Jobs : Queued(k)' = Queued(k)
  BY DEF Queued
<1>6. /\ \A k \in Jobs \ {j} : InHand(k)' = InHand(k)
      /\ ~InHand(j)'
  <2>1. \A v \in Loops \ {w} : loop[v].job # j
    BY <1>1 DEF Accounted, OnePlace
  <2> QED
    BY <1>0, <1>1, <2>1 DEF InHand
<1>7. OnePlace'
  BY <1>0, <1>2, <1>5, <1>6 DEF Accounted, OnePlace
<1>8. results'[j].status # "pending"
  BY <1>4
<1>9. PendingHeld'
  <2>1. ~Queued(j) /\ j \notin sending
    BY <1>2 DEF Accounted, OnePlace
  <2> QED
    BY <1>4, <1>5, <1>6, <1>8, <2>1 DEF Accounted, PendingHeld
<1> QED
  BY <1>4, <1>7, <1>9 DEF Accounted

LEMMA HandlerGivesUp ==
  ASSUME GatewayTypes, Accounted, NEW j \in Jobs, QueueFull(j)
  PROVE  Accounted' /\ results' \in [Jobs -> ResultState]
<1>1. j \in sending /\ PutResult(j, "error", NoJob) /\ pending' = pending - 1
      /\ sending' = sending \ {j} /\ UNCHANGED <<queue, loop>>
  BY DEF QueueFull
<1>2. results[j].status = "pending"
  BY <1>1 DEF Accounted, PendingHeld
<1>3. /\ Counted' /\ results'[j] = [status |-> "error", value |-> NoJob]
      /\ \A k \in Jobs \ {j} : results'[k] = results[k]
      /\ results' \in [Jobs -> ResultState]
  BY <1>1, <1>2, JobEnded DEF Accounted
<1>4. \A k \in Jobs : Queued(k)' = Queued(k) /\ InHand(k)' = InHand(k)
  BY <1>1 DEF Queued, InHand
<1>5. OnePlace'
  BY <1>1, <1>4 DEF Accounted, OnePlace
<1>6. ~Queued(j) /\ ~InHand(j) /\ results'[j].status # "pending"
  BY <1>1, <1>3 DEF Accounted, OnePlace
<1>7. PendingHeld'
  BY <1>1, <1>3, <1>4, <1>6 DEF Accounted, PendingHeld
<1> QED
  BY <1>3, <1>5, <1>7 DEF Accounted

LEMMA HandlerStarts ==
  ASSUME GatewayTypes, Accounted, NEW j \in Jobs, handleTurnstile(j)
  PROVE  Accounted' /\ results' \in [Jobs -> ResultState]
<1>1. /\ results[j].status = "none" /\ pending' = pending + 1
      /\ PutResult(j, "pending", NoJob)
      /\ sending' = sending \cup {j} /\ UNCHANGED <<queue, loop>>
  BY DEF handleTurnstile
<1>2. /\ results'[j] = [status |-> "pending", value |-> NoJob]
      /\ \A k \in Jobs \ {j} : results'[k] = results[k]
      /\ results' \in [Jobs -> ResultState]
  BY <1>1 DEF GatewayTypes, PutResult, ResultState
<1>3. PendingJobs' = PendingJobs \cup {j} /\ j \notin PendingJobs
  BY <1>1, <1>2 DEF PendingJobs
<1>4. Counted'
  <2>1. /\ IsFiniteSet(PendingJobs \cup {j})
        /\ Cardinality(PendingJobs \cup {j}) = Cardinality(PendingJobs) + 1
    BY <1>3, FS_AddElement DEF Accounted, Counted
  <2> QED
    BY <1>1, <1>3, <2>1 DEF Accounted, Counted
<1>5. \A k \in Jobs : Queued(k)' = Queued(k) /\ InHand(k)' = InHand(k)
  BY <1>1 DEF Queued, InHand
<1>6. ~Queued(j) /\ ~InHand(j)
  BY <1>1 DEF Accounted, PendingHeld
<1>7. OnePlace'
  BY <1>1, <1>5, <1>6 DEF Accounted, OnePlace
<1>8. PendingHeld'
  BY <1>1, <1>2, <1>5 DEF Accounted, PendingHeld
<1> QED
  BY <1>2, <1>4, <1>7, <1>8 DEF Accounted

\* The handler's job goes to the end of the queue.
LEMMA HandlerEnqueues ==
  ASSUME GatewayTypes, Accounted, NEW j \in Jobs, Enqueued(j)
  PROVE  Accounted'
<1>1. /\ j \in sending /\ sending' = sending \ {j}
      /\ queue' = Append(queue, j) /\ UNCHANGED <<results, pending, loop>>
  BY DEF Enqueued
<1>2. queue \in Seq(Jobs)
  BY DEF GatewayTypes
<1>3. ~Queued(j) /\ ~InHand(j)
  BY <1>1 DEF Accounted, OnePlace
<1>4. /\ DOMAIN queue' = 1 .. Len(queue) + 1 /\ DOMAIN queue = 1 .. Len(queue)
      /\ Len(queue) \in Nat
      /\ queue'[Len(queue) + 1] = j
      /\ \A i \in DOMAIN queue : queue'[i] = queue[i]
  BY <1>1, <1>2
<1>5. \A i \in DOMAIN queue : queue[i] # j
  BY <1>3 DEF Queued
<1>6. \A i, k \in DOMAIN queue' : queue'[i] = queue'[k] => i = k
  BY <1>4, <1>5 DEF Accounted, OnePlace
<1>7. /\ Queued(j)'
      /\ \A k \in Jobs \ {j} : Queued(k)' = Queued(k)
  BY <1>4 DEF Queued
<1>8. \A k \in Jobs : InHand(k)' = InHand(k)
  BY <1>1 DEF InHand
<1>9. OnePlace'
  BY <1>1, <1>3, <1>6, <1>7, <1>8 DEF Accounted, OnePlace
<1>10. PendingHeld'
  BY <1>1, <1>7, <1>8 DEF Accounted, PendingHeld
<1>11. Counted'
  BY <1>1 DEF Accounted, Counted, PendingJobs
<1> QED
  BY <1>9, <1>10, <1>11 DEF Accounted

\* The job at the head of the queue goes to a loop that has none.
LEMMA LoopReceives ==
  ASSUME GatewayTypes, Accounted, NEW w \in Loops, Receive(w),
         loop[w].job \notin Jobs
  PROVE  Accounted'
<1>1. /\ queue # <<>> /\ queue' = Tail(queue)
      /\ loop' = [loop EXCEPT ![w] = LoopTakes(Head(queue))]
      /\ UNCHANGED <<results, pending, sending>>
  BY DEF Receive, LoopTakes
<1>2. queue \in Seq(Jobs) /\ loop \in [Loops -> LoopState]
  BY DEF GatewayTypes
<1>3. PICK j \in Jobs : j = Head(queue)
  BY <1>1, <1>2
<1>4. /\ loop'[w].job = j
      /\ \A v \in Loops \ {w} : loop'[v].job = loop[v].job
  BY <1>1, <1>2, <1>3, LoopStarts
<1>5. /\ DOMAIN queue = 1 .. Len(queue) /\ Len(queue) \in Nat \ {0}
      /\ DOMAIN queue' = 1 .. Len(queue) - 1
      /\ queue[1] = j
      /\ \A i \in DOMAIN queue' : queue'[i] = queue[i + 1]
  BY <1>1, <1>2, <1>3
<1>6. Queued(j)
  BY <1>5 DEF Queued
<1>7. ~InHand(j) /\ j \notin sending
  BY <1>6 DEF Accounted, OnePlace
<1>8. \A i, k \in DOMAIN queue' : queue'[i] = queue'[k] => i = k
  <2> TAKE i, k \in DOMAIN queue'
  <2>1. /\ i + 1 \in DOMAIN queue /\ k + 1 \in DOMAIN queue
        /\ i \in Nat /\ k \in Nat
    BY <1>5
  <2>2. queue[i + 1] = queue[k + 1] => i + 1 = k + 1
    BY <2>1 DEF Accounted, OnePlace
  <2> QED
    BY <1>5, <2>1, <2>2
<1>9. ~Queued(j)'
  <2> SUFFICES ASSUME NEW i \in DOMAIN queue', queue'[i] = j
               PROVE  FALSE
    BY DEF Queued
  <2>1. i + 1 \in DOMAIN queue /\ queue[i + 1] = queue[1] /\ 1 \in DOMAIN queue
    BY <1>5
  <2>2. i + 1 = 1
    BY <2>1 DEF Accounted, OnePlace
  <2> QED
    BY <1>5, <2>2
<1>10. \A k \in Jobs \ {j} : Queued(k)' = Queued(k)
  <2> TAKE k \in Jobs \ {j}
  <2>1. ASSUME NEW i \in DOMAIN queue, queue[i] = k
        PROVE  i - 1 \in DOMAIN queue' /\ queue'[i - 1] = k
    <3>1. i # 1
      BY <1>5, <2>1
    <3>2. i - 1 \in DOMAIN queue' /\ (i - 1) + 1 = i
      BY <1>5, <3>1
    <3> QED
      BY <1>5, <2>1, <3>2
  <2>2. ASSUME NEW i \in DOMAIN queue', queue'[i] = k
        PROVE  i + 1 \in DOMAIN queue /\ queue[i + 1] = k
    BY <1>5, <2>2
  <2> QED
    BY <2>1, <2>2 DEF Queued
<1>11. /\ InHand(j)'
       /\ \A k \in Jobs \ {j} : InHand(k)' = InHand(k)
  BY <1>4 DEF InHand
<1>12. \A v, x \in Loops : loop'[v].job = loop'[x].job /\ loop'[v].job \in Jobs
                           => v = x
  <2>1. \A v \in Loops : loop[v].job # j
    BY <1>7 DEF InHand
  <2> QED
    BY <1>4, <2>1 DEF Accounted, OnePlace
<1>13. OnePlace'
  BY <1>1, <1>7, <1>8, <1>9, <1>10, <1>11, <1>12 DEF Accounted, OnePlace
<1>14. PendingHeld'
  BY <1>1, <1>6, <1>10, <1>11 DEF Accounted, PendingHeld
<1>15. Counted'
  BY <1>1 DEF Accounted, Counted, PendingJobs
<1> QED
  BY <1>13, <1>14, <1>15 DEF Accounted

----------------------------------------------------------------------------

LEMMA GatewayStepOthers ==
  ASSUME GatewayInv,
         \/ \E j \in Jobs : handleTurnstile(j) \/ Enqueued(j) \/ QueueFull(j)
         \/ purgeExpired
         \/ UNCHANGED gatewayVars
  PROVE  GatewayInv'
<1>0. GatewayTypes /\ Accounted /\ OwnAnswer
  BY DEF GatewayInv, Accounted
<1>1. UNCHANGED <<loop, browser>>
  BY DEF handleTurnstile, Enqueued, QueueFull, purgeExpired, gatewayVars
<1>2. \A w \in Loops : InStep(loop[w], browser[w])'
  BY <1>1 DEF GatewayInv
<1>3. ASSUME Accounted', results' \in [Jobs -> ResultState], OwnAnswer',
             sending' \subseteq Jobs, queue' \in Seq(Jobs)
      PROVE  GatewayInv'
  BY <1>0, <1>1, <1>2, <1>3 DEF GatewayInv, GatewayTypes, Accounted
<1>4. ASSUME NEW j \in Jobs, NEW s, s # "success", PutResult(j, s, NoJob)
      PROVE  OwnAnswer'
  BY <1>0, <1>4 DEF OwnAnswer, PutResult, GatewayTypes, ResultState
<1>5. sending \subseteq Jobs /\ queue \in Seq(Jobs) /\ results \in [Jobs -> ResultState]
  BY <1>0 DEF GatewayTypes
<1>6. ASSUME NEW j \in Jobs, handleTurnstile(j)
      PROVE  GatewayInv'
  <2>1. Accounted' /\ results' \in [Jobs -> ResultState]
    BY <1>0, <1>6, HandlerStarts
  <2>2. OwnAnswer' /\ sending' \subseteq Jobs /\ queue' \in Seq(Jobs)
    BY <1>4, <1>5, <1>6 DEF handleTurnstile
  <2> QED
    BY <1>3, <2>1, <2>2
<1>7. ASSUME NEW j \in Jobs, Enqueued(j)
      PROVE  GatewayInv'
  <2>1. Accounted'
    BY <1>0, <1>7, HandlerEnqueues
  <2>2. /\ results' = results /\ sending' \subseteq Jobs /\ queue' \in Seq(Jobs)
    BY <1>5, <1>7 DEF Enqueued
  <2>3. OwnAnswer'
    BY <1>0, <2>2 DEF OwnAnswer
  <2> QED
    BY <1>3, <1>5, <2>1, <2>2, <2>3
<1>8. ASSUME NEW j \in Jobs, QueueFull(j)
      PROVE  GatewayInv'
  <2>1. Accounted' /\ results' \in [Jobs -> ResultState]
    BY <1>0, <1>8, HandlerGivesUp
  <2>2. OwnAnswer' /\ sending' \subseteq Jobs /\ queue' \in Seq(Jobs)
    BY <1>4, <1>5, <1>8 DEF QueueFull
  <2> QED
    BY <1>3, <2>1, <2>2
<1>9. CASE purgeExpired
  <2>1. PICK j \in Jobs : /\ results[j].status \in {"success", "fail", "error"}
                          /\ PutResult(j, "purged", NoJob)
                          /\ UNCHANGED <<pending, sending, queue>>
    BY <1>9 DEF purgeExpired
  <2>2. results' \in [Jobs -> ResultState]
    BY <1>5, <2>1 DEF PutResult, ResultState
  <2>3. \A k \in Jobs : results'[k].status = "pending"
                          <=> results[k].status = "pending"
    BY <1>5, <2>1 DEF PutResult, ResultState
  <2>4. Accounted'
    BY <1>0, <1>1, <2>1, <2>3, JobsStay
  <2> QED
    BY <1>3, <1>4, <1>5, <2>1, <2>2, <2>4
<1>10. CASE UNCHANGED gatewayVars
  <2>1. Accounted' /\ OwnAnswer'
    BY <1>0, <1>10, JobsStay DEF gatewayVars, OwnAnswer
  <2> QED
    BY <1>3, <1>5, <1>10, <2>1 DEF gatewayVars
<1> QED
  BY <1>6, <1>7, <1>8, <1>9, <1>10

LoopEndsItsJob(w) == LoopEnds(w) \/ (stopWorker(w) /\ loop[w].next = "timeout")
LoopKeepsItsJob(w) ==
  \/ LoopMoves(w) /\ ~Receive(w)
  \/ startWorker(w)
  \/ stopWorker(w) /\ loop[w].next # "timeout"
  \/ PipeMoves(w)

LEMMA LoopKeepsTheRest ==
  ASSUME NEW w \in Loops, LoopKeepsItsJob(w)
  PROVE  UNCHANGED <<results, pending, sending, queue>>
<1>1. CASE LoopMoves(w) /\ ~Receive(w)
  BY <1>1 DEF LoopMoves, ProcessKept, Recycle, GoSolve, Timeout
<1>2. CASE startWorker(w)
  BY <1>2 DEF startWorker
<1>3. CASE stopWorker(w) /\ loop[w].next # "timeout"
  BY <1>3 DEF stopWorker
<1>4. CASE PipeMoves(w)
  BY <1>4
  DEF PipeMoves, WarmupLock, WarmupRead, SolveLock, SolveRead, ProcessDies
<1> QED
  BY <1>1, <1>2, <1>3, <1>4 DEF LoopKeepsItsJob

LEMMA GatewayStepLoop ==
  ASSUME GatewayInv, NEW w \in Loops, LoopStep(w)
  PROVE  GatewayInv'
<1> USE GatewayAssumption
<1>0. /\ GatewayTypes /\ Accounted /\ OwnAnswer
      /\ \A v \in Loops : InStep(loop[v], browser[v])
  BY DEF GatewayInv, Accounted
<1>1. PICK l, b :
        /\ GatewayFrame(w, l, b) /\ InStep(l, b)
        /\ \/ Receive(w)
           \/ LoopEndsItsJob(w) /\ l.job = NoJob
           \/ LoopKeepsItsJob(w) /\ l.job = loop[w].job
  <2>0. InStep(loop[w], browser[w])
    BY <1>0
  <2>1. CASE LoopMoves(w)
    BY <1>0, <2>0, <2>1, LoopMovesInStep DEF LoopKeepsItsJob
  <2>2. CASE LoopEnds(w)
    BY <1>0, <2>0, <2>2, LoopEndsInStep DEF LoopEndsItsJob
  <2>3. CASE startWorker(w)
    <3>1. ~stopWorker(w)
      BY <2>3 DEF startWorker, stopWorker
    <3> QED
      BY <1>0, <2>0, <2>3, <3>1, ProcessInStep DEF LoopKeepsItsJob
  <2>4. CASE stopWorker(w)
    BY <1>0, <2>0, <2>4, ProcessInStep DEF LoopKeepsItsJob, LoopEndsItsJob
  <2>5. CASE PipeMoves(w)
    BY <1>0, <2>0, <2>5, PipeMovesInStep DEF LoopKeepsItsJob
  <2> QED
    BY <2>1, <2>2, <2>3, <2>4, <2>5 DEF LoopStep
<1>2. /\ loop' \in [Loops -> LoopState] /\ browser' \in [Loops -> BrowserState]
      /\ loop'[w] = l /\ browser'[w] = b
      /\ \A v \in Loops \ {w} : loop'[v] = loop[v] /\ browser'[v] = browser[v]
  BY <1>0, <1>1, FrameKept
<1>3. \A v \in Loops : InStep(loop[v], browser[v])'
  BY <1>0, <1>1, <1>2
<1>4. ASSUME Accounted', results' \in [Jobs -> ResultState], OwnAnswer',
             sending' = sending, queue' \in Seq(Jobs)
      PROVE  GatewayInv'
  BY <1>0, <1>2, <1>3, <1>4 DEF GatewayInv, GatewayTypes, Accounted
<1>5. queue \in Seq(Jobs) /\ results \in [Jobs -> ResultState]
  BY <1>0 DEF GatewayTypes
<1>6. CASE LoopKeepsItsJob(w) /\ l.job = loop[w].job
  <2>0. UNCHANGED <<results, pending, sending, queue>>
    BY <1>6, LoopKeepsTheRest
  <2>1. \A v \in Loops : loop'[v].job = loop[v].job
    BY <1>2, <1>6
  <2>2. Accounted'
    BY <1>0, <2>0, <2>1, JobsStay
  <2>3. OwnAnswer'
    BY <1>0, <2>0 DEF OwnAnswer
  <2> QED
    BY <1>4, <1>5, <2>0, <2>2, <2>3
<1>7. CASE Receive(w)
  <2>1. loop[w].job \notin Jobs
    <3>1. InStep(loop[w], browser[w]) /\ loop[w].at = "select"
      BY <1>0, <1>7 DEF Receive
    <3> QED
      BY <3>1 DEF InStep, HasJob
  <2>2. Accounted'
    BY <1>0, <1>7, <2>1, LoopReceives
  <2>3. /\ UNCHANGED <<results, sending>> /\ queue # <<>> /\ queue' = Tail(queue)
    BY <1>7 DEF Receive
  <2>4. OwnAnswer'
    BY <1>0, <2>3 DEF OwnAnswer
  <2> QED
    BY <1>4, <1>5, <2>2, <2>3, <2>4
<1>8. CASE LoopEndsItsJob(w) /\ l.job = NoJob
  <2>1. InStep(loop[w], browser[w]) /\ loop[w] \in LoopState
    BY <1>0 DEF GatewayTypes
  <2>2. PICK s \in {"success", "fail", "error"}, x \in Jobs \cup {NoJob} :
          /\ PutResult(loop[w].job, s, x)
          /\ s = "success" => x = loop[w].job
    <3>1. CASE \/ StartFails(w) \/ Failure(w)
               \/ stopWorker(w) /\ loop[w].next = "timeout"
      BY <3>1 DEF StartFails, Failure, stopWorker
    <3>2. CASE Success(w)
      <4>1. loop[w].got \in Jobs /\ PutResult(loop[w].job, "success", loop[w].got)
        BY <3>2 DEF Success
      <4>2. loop[w].got = loop[w].job
        BY <2>1, <4>1 DEF InStep, OwnToken
      <4> QED
        BY <4>1, <4>2
    <3> QED
      BY <1>8, <3>1, <3>2 DEF LoopEndsItsJob, LoopEnds
  <2>3. pending' = pending - 1 /\ UNCHANGED <<sending, queue>>
    BY <1>8 DEF LoopEndsItsJob, LoopEnds, StartFails, Success, Failure, stopWorker
  <2>4. loop[w].job \in Jobs
    <3>1. \/ loop[w].at \in {"ensure", "check", "renew", "solving"}
          \/ loop[w].at = "stop" /\ loop[w].next = "timeout"
      BY <1>8 DEF LoopEndsItsJob, LoopEnds, StartFails, Success, Failure, stopWorker
    <3> QED
      BY <2>1, <3>1 DEF InStep, HasJob
  <2>5. loop'[w].job = NoJob
    BY <1>1, <1>2, <1>8
  <2>6. Accounted'
    BY <1>0, <1>2, <2>2, <2>3, <2>4, <2>5, LoopEndsJob
  <2>7. results' \in [Jobs -> ResultState]
    BY <1>5, <2>2, <2>4 DEF PutResult, ResultState
  <2>8. OwnAnswer'
    BY <1>0, <1>5, <2>2, <2>4 DEF OwnAnswer, PutResult, ResultState
  <2> QED
    BY <1>4, <1>5, <2>3, <2>6, <2>7, <2>8
<1> QED
  BY <1>1, <1>6, <1>7, <1>8

LEMMA GatewayInitInv == SolverGatewayInit => GatewayInv
<1> SUFFICES ASSUME SolverGatewayInit PROVE GatewayInv
  OBVIOUS
<1> USE GatewayAssumption
<1>0. /\ results = [j \in Jobs |-> NoValue] /\ pending = 0
      /\ sending = {} /\ queue = <<>>
      /\ loop = [w \in Loops |-> Waiting] /\ browser = [w \in Loops |-> Gone]
  BY DEF SolverGatewayInit
<1>1. NoValue \in ResultState /\ NoValue.status = "none"
  BY DEF NoValue, ResultState
<1>2. GatewayTypes
  BY <1>0, <1>1, LoopStarts, BrowserStarts DEF GatewayTypes
<1>3. \A w \in Loops : InStep(loop[w], browser[w])
  <2>1. InStep(Waiting, Gone)
    BY LoopStarts, BrowserStarts
    DEF InStep, HasJob, SolveInStep, PipeInStep, OwnToken
  <2> QED
    BY <1>0, <2>1
<1>4. \A j \in Jobs : ~Queued(j) /\ ~InHand(j)
  BY <1>0, LoopStarts DEF Queued, InHand
<1>5. OnePlace
  BY <1>0, <1>4, LoopStarts DEF OnePlace
<1>6. PendingHeld /\ OwnAnswer
  BY <1>0, <1>1, <1>4 DEF PendingHeld, OwnAnswer
<1>7. PendingJobs = {}
  BY <1>0, <1>1 DEF PendingJobs
<1>8. Counted
  BY <1>0, <1>7, FS_EmptySet DEF Counted
<1> QED
  BY <1>2, <1>3, <1>5, <1>6, <1>8 DEF GatewayInv

\* The three kinds of places, counted.
LEMMA PlacesCounted ==
  ASSUME GatewayInv, NEW j \in Jobs
  PROVE  /\ Cardinality({i \in DOMAIN queue : queue[i] = j})
              = IF Queued(j) THEN 1 ELSE 0
         /\ Cardinality({w \in Loops : loop[w].job = j})
              = IF InHand(j) THEN 1 ELSE 0
<1>1. Cardinality({}) = 0
  BY FS_EmptySet
<1>2. \A x : Cardinality({x}) = 1
  BY FS_Singleton
<1>3. Cardinality({i \in DOMAIN queue : queue[i] = j})
        = IF Queued(j) THEN 1 ELSE 0
  <2>1. CASE Queued(j)
    <3>1. PICK i \in DOMAIN queue : queue[i] = j
      BY <2>1 DEF Queued
    <3>2. {k \in DOMAIN queue : queue[k] = j} = {i}
      BY <3>1 DEF GatewayInv, OnePlace
    <3> QED
      BY <1>2, <2>1, <3>2
  <2>2. CASE ~Queued(j)
    <3>1. {i \in DOMAIN queue : queue[i] = j} = {}
      BY <2>2 DEF Queued
    <3> QED
      BY <1>1, <2>2, <3>1
  <2> QED
    BY <2>1, <2>2
<1>4. Cardinality({w \in Loops : loop[w].job = j})
        = IF InHand(j) THEN 1 ELSE 0
  <2>1. CASE InHand(j)
    <3>1. PICK w \in Loops : loop[w].job = j
      BY <2>1 DEF InHand
    <3>2. {v \in Loops : loop[v].job = j} = {w}
      BY <3>1 DEF GatewayInv, OnePlace
    <3> QED
      BY <1>2, <2>1, <3>2
  <2>2. CASE ~InHand(j)
    <3>1. {w \in Loops : loop[w].job = j} = {}
      BY <2>2 DEF InHand
    <3> QED
      BY <1>1, <2>2, <3>1
  <2> QED
    BY <2>1, <2>2
<1> QED
  BY <1>3, <1>4

\* The gateway neither loses a job nor answers it twice, nor with another
\* job's token, for any number of jobs, loops and places in the queue: a
\* timeout may race the answer, a warm-up may share the pipes with a solve,
\* and a process may die at any moment.
THEOREM JobsAnsweredOnce == SolverGatewaySpec => []JobsAccounted
<1>1. GatewayInv /\ [SolverGatewayNext]_gatewayVars => GatewayInv'
  BY GatewayStepOthers, GatewayStepLoop
  DEF SolverGatewayNext, LoopStep, LoopMoves, LoopEnds, PipeMoves
<1>2. GatewayInv => JobsAccounted
  <2> SUFFICES ASSUME GatewayInv PROVE JobsAccounted
    OBVIOUS
  <2>1. /\ pending = Cardinality(PendingJobs)
        /\ \A j \in Jobs : results[j].status = "success" => results[j].value = j
    BY DEF GatewayInv, Counted, OwnAnswer
  <2>2. ASSUME NEW j \in Jobs
        PROVE  LET holders == Cardinality({i \in DOMAIN queue : queue[i] = j})
                                + Cardinality({w \in Loops : loop[w].job = j})
                                + (IF j \in sending THEN 1 ELSE 0)
               IN holders = IF results[j].status = "pending" THEN 1 ELSE 0
    <3>1. /\ ~(Queued(j) /\ InHand(j))
          /\ ~(Queued(j) /\ j \in sending)
          /\ ~(InHand(j) /\ j \in sending)
          /\ results[j].status = "pending"
               <=> Queued(j) \/ InHand(j) \/ j \in sending
      BY DEF GatewayInv, OnePlace, PendingHeld
    <3> QED
      BY <3>1, PlacesCounted
  <2> QED
    BY <2>1, <2>2 DEF JobsAccounted, PendingJobs
<1> QED
  BY <1>1, <1>2, GatewayInitInv, PTL DEF SolverGatewaySpec

----------------------------------------------------------------------------
\* The exits of the proxy relay

\* The tests of a link that has, or still has, the node it is tested on.
OnItsNode == {"request", "cleanup", "stop", "ok"}

\* A converted link is its node's port, but for the moment in which the
\* clean-up has forgotten the one and not yet stopped the other.
CacheInStep ==
  \A l \in Links :
    cache[l] = IF test[l].at = "stop" THEN NoPort ELSE node[l]
TestedOnNode ==
  \A l \in Links : test[l].at \in OnItsNode
                     => node[l] # NoPort /\ test[l].proxy = node[l]
\* A local proxy that is a candidate itself is requested as it stands.
DirectTests ==
  \A p \in Ports : test[p].at \in {"request", "ok"} => test[p].proxy = p

\* Until the first prune every node is one of the refresh's own, so that the
\* prune finds all of them in the list.
StartsClean ==
  /\ refresh = "rest" /\ refreshes = 0 => \A l \in Links : node[l] = NoPort
  /\ refresh = "startup"
       => \A l \in Links : node[l] # NoPort => test[l].at \in OnItsNode
  /\ refresh = "prune" => \A l \in Links : node[l] # NoPort => node[l] \in active

AtRestUntested ==
  refresh \in {"prune", "rest"} => \A c \in Candidate : test[c] = NoTest

\* The two lists of a refresh, the links of the one on the ports of the other.
ListsAgree ==
  Settled =>
    /\ \A l \in Links \cap listed : node[l] # NoPort /\ node[l] \in active
    /\ \A p \in active : p \in listed \/ \E l \in Links \cap listed : node[l] = p

\* What a registration has cached is the list it says it is of.
PoolOfList ==
  /\ exits.of <= Lists
  /\ exits.of = Lists /\ Lists > 0 => exits.items = active
  /\ refresh # "rest" => refreshes > 0

\* Who passed a test was requested through some proxy.
PassedSomewhere ==
  \A c \in Candidate : test[c].at = "ok" => test[c].proxy # NoPort

LinksInv ==
  CacheInStep /\ TestedOnNode /\ DirectTests
  /\ StartsClean /\ AtRestUntested /\ ListsAgree

RelayInv == ProxyRelayTypeOK /\ PassedSomewhere /\ PoolOfList /\ LinksInv

----------------------------------------------------------------------------
\* Counting the lower bounds finds the least element, without induction.
LEMMA LeastNatural ==
  ASSUME NEW S \in SUBSET Nat, S # {}
  PROVE  \E p \in S : \A q \in S : p <= q
<1> DEFINE Below == {k \in Nat : \A q \in S : k <= q}
           count == Cardinality(Below)
<1>1. PICK s \in S : TRUE
  OBVIOUS
<1>2. IsFiniteSet(0 .. s) /\ Below \in SUBSET (0 .. s)
  BY <1>1, FS_Interval
<1>3. IsFiniteSet(Below) /\ count \in Nat
  <2>1. IsFiniteSet(Below) BY <1>2, FS_Subset
  <2> QED BY <2>1, FS_CardinalityType
<1>4. ASSUME NEW k \in Below PROVE k + 1 <= count
  <2>1. k \in Nat /\ 0 .. k \in SUBSET Below
    BY <1>4
  <2>2. Cardinality(0 .. k) <= count
    BY <1>3, <2>1, FS_Subset
  <2>3. Cardinality(0 .. k) = k + 1
    <3> HIDE DEF Below
    <3> QED BY <2>1, FS_Interval
  <2> QED BY <1>3, <2>1, <2>2, <2>3
<1>5. ASSUME NEW k \in Nat, k \notin Below PROVE count <= k
  <2>1. Below \in SUBSET (0 .. k - 1)
    BY <1>5
  <2> HIDE DEF Below
  <2>2. IsFiniteSet(0 .. k - 1) /\ Cardinality(0 .. k - 1) = k
    BY FS_Interval
  <2> QED BY <2>1, <2>2, FS_Subset
<1>6. 0 \in Below
  OBVIOUS
<1>7. count - 1 \in Below
  <2> HIDE DEF Below, count
  <2>1. count >= 1 BY <1>3, <1>4, <1>6
  <2>2. count - 1 \in Nat BY <1>3, <2>1
  <2>3. ~(count <= count - 1) BY <1>3
  <2> QED BY <1>5, <2>2, <2>3
<1>8. count \notin Below
  <2> HIDE DEF Below, count
  <2> QED BY <1>3, <1>4
<1>9. PICK q \in S : ~(count <= q)
  <2> HIDE DEF count
  <2> QED BY <1>3, <1>8
<1>10. q = count - 1 /\ \A r \in S : q <= r
  <2>1. \A r \in S : count - 1 <= r BY <1>7
  <2> HIDE DEF count
  <2> QED BY <1>3, <1>9, <2>1
<1> QED BY <1>10

LEMMA FreePortFree ==
  ASSUME ProxyRelayTypeOK, Cardinality(InUse) < MaxNodes
  PROVE  FreePort \in Ports \ InUse /\ FreePort # NoPort
<1>1. IsFiniteSet(Ports) /\ Cardinality(Ports) = MaxNodes + 1
  BY FS_Interval, RelayAssumption DEF Ports
<1>2. InUse \subseteq Ports
  BY DEF ProxyRelayTypeOK, InUse
<1>3. Ports \ InUse # {}
  <2>1. SUFFICES ASSUME Ports \ InUse = {} PROVE FALSE
    OBVIOUS
  <2>2. InUse = Ports BY <1>2, <2>1
  <2> QED BY <1>1, <2>2, RelayAssumption
<1>4. Ports \ InUse \in SUBSET Nat /\ 0 \notin Ports
  BY RelayAssumption DEF Ports
<1>5. \E p \in Ports \ InUse : \A q \in Ports \ InUse : p <= q
  BY <1>3, <1>4, LeastNatural
<1> QED BY <1>4, <1>5 DEF FreePort, NoPort

LEMMA RelayInitInv == ProxyRelayInit => RelayInv
<1> SUFFICES ASSUME ProxyRelayInit PROVE RelayInv
  OBVIOUS
<1>1. ProxyRelayTypeOK
  BY RelayAssumption DEF ProxyRelayInit, ProxyRelayTypeOK, NoTest, NoPort
<1>2. PoolOfList /\ PassedSomewhere
  BY DEF ProxyRelayInit, PoolOfList, Lists, Running, PassedSomewhere, NoTest
<1>3. CacheInStep /\ TestedOnNode /\ DirectTests
  BY DEF ProxyRelayInit, CacheInStep, TestedOnNode, DirectTests,
         OnItsNode, Candidate, NoTest
<1>4. StartsClean /\ AtRestUntested /\ ListsAgree
  BY DEF ProxyRelayInit, StartsClean, AtRestUntested, ListsAgree, Settled
<1> QED BY <1>1, <1>2, <1>3, <1>4 DEF RelayInv, LinksInv

\* Only the running refresh, and the pool, touch what the pool is about.
LEMMA PoolKept ==
  ASSUME PoolOfList, UNCHANGED <<active, listed, exits, refresh, refreshes>>
  PROVE  PoolOfList'
BY DEF PoolOfList, Lists, Running

\* One test moves on, perhaps with the node and the cache of its link.
LEMMA TestMoves ==
  ASSUME ProxyRelayTypeOK, PassedSomewhere, NEW c \in Candidate,
         NEW t \in [at : {"none", "normalize", "request", "rejected",
                          "cleanup", "stop", "ok", "failed"},
                    proxy : Ports \cup {NoPort}],
         t.at = "ok" => t.proxy # NoPort,
         test' = [test EXCEPT ![c] = t],
         node' \in [Links -> Ports \cup {NoPort}],
         cache' \in [Links -> Ports \cup {NoPort}],
         UNCHANGED <<bootstrap, active, listed, exits, refresh, refreshes>>
  PROVE  /\ ProxyRelayTypeOK' /\ PassedSomewhere'
         /\ test'[c] = t
         /\ \A d \in Candidate : d # c => test'[d] = test[d]
BY DEF ProxyRelayTypeOK, PassedSomewhere

\* A link's own step keeps the links in step if it keeps this one.
LinkInStep(l) ==
  /\ cache[l] = IF test[l].at = "stop" THEN NoPort ELSE node[l]
  /\ test[l].at \in OnItsNode => node[l] # NoPort /\ test[l].proxy = node[l]
  /\ refresh = "startup" /\ node[l] # NoPort => test[l].at \in OnItsNode

LEMMA LinkMoves ==
  ASSUME RelayInv, Running, NEW l \in Links,
         \A d \in Candidate : d # l => test'[d] = test[d],
         \A k \in Links : k # l => node'[k] = node[k] /\ cache'[k] = cache[k],
         UNCHANGED <<bootstrap, active, listed, exits, refresh, refreshes>>,
         LinkInStep(l)'
  PROVE  LinksInv'
<1> USE DEF RelayInv, LinksInv
<1>1. \A k \in Links : LinkInStep(k)'
  BY DEF LinkInStep, CacheInStep, TestedOnNode, StartsClean, Candidate
<1>2. CacheInStep' /\ TestedOnNode'
  BY <1>1 DEF LinkInStep, CacheInStep, TestedOnNode
<1>3. \A p \in Ports : p # l
  BY RelayAssumption DEF Ports
<1>4. DirectTests'
  BY <1>3 DEF DirectTests, Candidate
<1>5. StartsClean' /\ AtRestUntested' /\ ListsAgree'
  BY <1>1 DEF LinkInStep, StartsClean, AtRestUntested, ListsAgree, Settled, Running
<1> QED BY <1>2, <1>4, <1>5

\* Tests are those of a running refresh.
LEMMA TestsRun ==
  ASSUME RelayInv, NEW c \in Candidate, test[c].at # "none"
  PROVE  Running
<1>1. refresh \notin {"prune", "rest"}
  BY DEF RelayInv, LinksInv, AtRestUntested, NoTest
<1> QED
  BY <1>1 DEF RelayInv, ProxyRelayTypeOK, Running

LEMMA StartRefreshInv ==
  ASSUME RelayInv, StartRefresh PROVE RelayInv'
<1> USE DEF RelayInv
<1>1. PICK links \in SUBSET Links :
        test' = [c \in Candidate |->
          IF c \in links \cup (IF listed = {} THEN active ELSE listed)
                         \cup (IF bootstrap THEN active ELSE {})
            THEN [at |-> "normalize", proxy |-> NoPort] ELSE NoTest]
  BY DEF StartRefresh, fetch_source_bodies
<1>2. ProxyRelayTypeOK'
  <2>1. refreshes' \in 0 .. MaxRefreshes
    BY RelayAssumption DEF StartRefresh, ProxyRelayTypeOK
  <2>2. test' \in [Candidate -> [at : {"none", "normalize", "request",
                     "rejected", "cleanup", "stop", "ok", "failed"},
                                 proxy : Ports \cup {NoPort}]]
    BY <1>1 DEF NoTest
  <2> QED BY <2>1, <2>2 DEF StartRefresh, ProxyRelayTypeOK
<1>5. PassedSomewhere'
  BY <1>1 DEF PassedSomewhere, NoTest
<1>3. PoolOfList'
  BY RelayAssumption
     DEF StartRefresh, PoolOfList, Lists, Running, ProxyRelayTypeOK
<1>4. LinksInv'
  <2>1. refresh = "rest" /\ UNCHANGED <<node, cache>>
    BY DEF StartRefresh
  <2>2. \A l \in Links : cache[l] = node[l]
    BY <2>1 DEF LinksInv, CacheInStep, AtRestUntested, NoTest, Candidate
  <2>3. \A c \in Candidate : test'[c].at \in {"none", "normalize"}
    BY <1>1 DEF NoTest
  <2>4. DirectTests'
    BY <2>3 DEF DirectTests, Candidate
  <2>5. CacheInStep' /\ TestedOnNode'
    BY <2>1, <2>2, <2>3 DEF CacheInStep, TestedOnNode, OnItsNode, Candidate
  <2>6. StartsClean' /\ AtRestUntested' /\ ListsAgree'
    BY <2>1 DEF StartRefresh, LinksInv, StartsClean, AtRestUntested, ListsAgree,
                Settled
  <2> QED BY <2>4, <2>5, <2>6 DEF LinksInv
<1> QED BY <1>2, <1>5, <1>3, <1>4

LEMMA GoWorkerInv ==
  ASSUME RelayInv, _test_candidates_via_go PROVE RelayInv'
<1> USE DEF RelayInv
<1>1. PICK good \in SUBSET {p \in Ports : Serves(p)} :
        test' = [c \in Candidate |->
         CASE test[c].at = "none" -> test[c]
           [] test[c].at = "normalize" /\ c \in Links ->
                [test[c] EXCEPT !.at = "rejected"]
           [] OTHER ->
                [at |-> IF c \in good THEN "ok" ELSE "failed", proxy |-> c]]
  BY DEF _test_candidates_via_go
<1>2. \A c \in Candidate :
        /\ test[c].at = "none" => test'[c] = test[c]
        /\ test[c].at = "normalize" /\ c \in Links
             => test'[c] = [test[c] EXCEPT !.at = "rejected"]
        /\ test[c].at = "normalize" /\ c \notin Links
             => test'[c].at \in {"ok", "failed"} /\ test'[c].proxy = c
                /\ test'[c] = [at |-> test'[c].at, proxy |-> c]
  BY <1>1
<1>3. \A c \in Candidate : test[c].at \in {"none", "normalize"}
  BY DEF _test_candidates_via_go
<1>4. ProxyRelayTypeOK'
  <2> DEFINE Test == [at : {"none", "normalize", "request", "rejected",
                            "cleanup", "stop", "ok", "failed"},
                      proxy : Ports \cup {NoPort}]
  <2>1. ASSUME NEW c \in Candidate PROVE test'[c] \in Test
    <3>1. test[c] \in Test BY DEF ProxyRelayTypeOK
    <3>2. CASE test[c].at = "none" BY <1>2, <3>1, <3>2
    <3>3. CASE test[c].at = "normalize" /\ c \in Links
      <4>1. test'[c] = [test[c] EXCEPT !.at = "rejected"]
        BY <1>2, <3>3
      <4>2. ASSUME NEW r \in Test PROVE [r EXCEPT !.at = "rejected"] \in Test
        OBVIOUS
      <4> HIDE DEF Test
      <4> QED BY <3>1, <4>1, <4>2
    <3>4. CASE test[c].at = "normalize" /\ c \notin Links
      <4>1. c \in Ports BY <3>4 DEF Candidate
      <4>2. /\ test'[c].at \in {"ok", "failed"}
            /\ test'[c] = [at |-> test'[c].at, proxy |-> c]
        BY <1>2, <3>4
      <4>3. ASSUME NEW at \in {"ok", "failed"}
            PROVE  [at |-> at, proxy |-> c] \in Test
        BY <4>1
      <4> HIDE DEF Test
      <4> QED BY <4>2, <4>3
    <3> QED BY <1>3, <3>2, <3>3, <3>4
  <2>2. test' \in [Candidate -> Test] BY <1>1, <2>1
  <2> QED BY <2>2 DEF ProxyRelayTypeOK, _test_candidates_via_go
<1>7. PassedSomewhere'
  <2>1. ASSUME NEW c \in Candidate, test'[c].at = "ok"
        PROVE  test'[c].proxy # NoPort
    <3>1. test[c].at = "normalize"
      BY <1>2, <1>3, <2>1
    <3>2. test[c] \in [at : {"none", "normalize", "request", "rejected",
                            "cleanup", "stop", "ok", "failed"},
                      proxy : Ports \cup {NoPort}]
      BY DEF ProxyRelayTypeOK
    <3>3. c \in Links => test'[c].at = "rejected"
      BY <1>2, <3>1, <3>2
    <3>4. test'[c].proxy = c /\ c \in Ports
      BY <1>2, <2>1, <3>1, <3>3 DEF Candidate
    <3> QED BY <3>4, RelayAssumption DEF Ports, NoPort
  <2> QED BY <2>1 DEF PassedSomewhere
<1>5. PoolOfList'
  BY PoolKept DEF _test_candidates_via_go
<1>6. LinksInv'
  <2>1. Running /\ UNCHANGED <<node, cache, active, listed, refresh, refreshes>>
    BY DEF _test_candidates_via_go
  <2>2. \A c \in Links : test'[c].at \in {"none", "rejected"}
    <3>1. ASSUME NEW c \in Links PROVE test'[c].at \in {"none", "rejected"}
      <4>1. c \in Candidate BY DEF Candidate
      <4>2. [test[c] EXCEPT !.at = "rejected"].at = "rejected"
        BY <4>1 DEF ProxyRelayTypeOK
      <4> QED BY <1>2, <1>3, <4>1, <4>2
    <3> QED BY <3>1
  <2>3. \A l \in Links : test[l].at \in {"none", "normalize"}
    BY <1>3 DEF Candidate
  <2>4. CacheInStep' /\ TestedOnNode'
    BY <2>1, <2>2, <2>3 DEF LinksInv, CacheInStep, TestedOnNode, OnItsNode
  <2>5. DirectTests'
    <3>1. \A p \in Ports : p \in Candidate /\ p \notin Links
      BY RelayAssumption DEF Candidate, Ports
    <3> QED BY <1>2, <1>3, <3>1 DEF DirectTests
  <2>6. StartsClean' /\ AtRestUntested' /\ ListsAgree'
    BY <2>1, <2>3 DEF LinksInv, StartsClean, AtRestUntested, ListsAgree, Settled,
                      OnItsNode, Running
  <2> QED BY <2>4, <2>5, <2>6 DEF LinksInv
<1> QED BY <1>4, <1>7, <1>5, <1>6

TestOf == {t \in [at : {"none", "normalize", "request", "rejected",
                       "cleanup", "stop", "ok", "failed"},
                 proxy : Ports \cup {NoPort}] :
             t.at = "ok" => t.proxy # NoPort}

LEMMA TestsTyped ==
  ASSUME RelayInv, NEW c \in Candidate
  PROVE  test[c] \in TestOf
BY DEF RelayInv, ProxyRelayTypeOK, PassedSomewhere, TestOf

\* What a step has to leave of a link's test, port and converted proxy.
MoveInStep(t, port, proxy) ==
  /\ proxy = IF t.at = "stop" THEN NoPort ELSE port
  /\ t.at \in OnItsNode => port # NoPort /\ t.proxy = port
  /\ refresh = "startup" /\ port # NoPort => t.at \in OnItsNode

\* The step of one link's test, put together.
LEMMA LinkStepInv ==
  ASSUME RelayInv, NEW l \in Links, test[l].at # "none", NEW t \in TestOf,
         test' = [test EXCEPT ![l] = t],
         NEW port \in Ports \cup {NoPort}, NEW proxy \in Ports \cup {NoPort},
         node' = [node EXCEPT ![l] = port],
         cache' = [cache EXCEPT ![l] = proxy],
         UNCHANGED <<bootstrap, active, listed, exits, refresh, refreshes>>,
         MoveInStep(t, port, proxy)
  PROVE  RelayInv'
<1>1. l \in Candidate
  BY DEF Candidate
<1>2. /\ node' \in [Links -> Ports \cup {NoPort}] /\ node'[l] = port
      /\ \A k \in Links : k # l => node'[k] = node[k]
  BY DEF RelayInv, ProxyRelayTypeOK
<1>3. /\ cache' \in [Links -> Ports \cup {NoPort}] /\ cache'[l] = proxy
      /\ \A k \in Links : k # l => cache'[k] = cache[k]
  BY DEF RelayInv, ProxyRelayTypeOK
<1>4. /\ ProxyRelayTypeOK' /\ PassedSomewhere' /\ test'[l] = t
      /\ \A d \in Candidate : d # l => test'[d] = test[d]
  BY <1>1, <1>2, <1>3, TestMoves DEF RelayInv, TestOf
<1>5. PoolOfList'
  BY PoolKept DEF RelayInv
<1>6. LinksInv'
  <2>1. Running
    BY <1>1, TestsRun
  <2>2. LinkInStep(l)'
    BY <1>2, <1>3, <1>4 DEF LinkInStep, MoveInStep
  <2> QED BY <1>2, <1>3, <1>4, <2>1, <2>2, LinkMoves
<1> QED BY <1>4, <1>5, <1>6 DEF RelayInv

\* The test of a link moves on, and nothing else does.
LEMMA LinkTestInv ==
  ASSUME RelayInv, NEW l \in Links, test[l].at # "none", NEW t \in TestOf,
         test' = [test EXCEPT ![l] = t],
         UNCHANGED <<node, cache, bootstrap, active, listed, exits, refresh, refreshes>>,
         LinkInStep(l)'
  PROVE  RelayInv'
<1>1. /\ node \in [Links -> Ports \cup {NoPort}]
      /\ cache \in [Links -> Ports \cup {NoPort}]
  BY DEF RelayInv, ProxyRelayTypeOK
<1>2. node' = [node EXCEPT ![l] = node[l]] /\ cache' = [cache EXCEPT ![l] = cache[l]]
  BY <1>1
<1>3. node[l] \in Ports \cup {NoPort} /\ cache[l] \in Ports \cup {NoPort}
  BY <1>1
<1>4. test'[l] = t
  BY DEF RelayInv, ProxyRelayTypeOK, Candidate
<1>5. MoveInStep(t, node[l], cache[l])
  BY <1>4 DEF LinkInStep, MoveInStep
<1> QED BY <1>2, <1>3, <1>5, LinkStepInv

LEMMA ConvertInv ==
  ASSUME RelayInv, NEW l \in Links, _proxy_from_share_link(l) PROVE RelayInv'
<1> DEFINE at == IF test[l].at = "normalize" THEN "request" ELSE "cleanup"
<1>1. test[l].at # "none" /\ test[l].at \in {"normalize", "rejected"}
  BY DEF _proxy_from_share_link
<1>2. /\ node \in [Links -> Ports \cup {NoPort}]
      /\ cache \in [Links -> Ports \cup {NoPort}]
      /\ test \in [Candidate -> TestOf]
  BY TestsTyped DEF RelayInv, ProxyRelayTypeOK
<1>3. cache[l] = node[l]
  BY <1>1 DEF RelayInv, LinksInv, CacheInStep
<1>4. ASSUME NEW p \in Ports \cup {NoPort} PROVE [at |-> at, proxy |-> p] \in TestOf
  BY DEF TestOf
<1>5. CASE cache[l] # NoPort /\ Converted(l, cache[l]) /\ UNCHANGED <<node, cache>>
  <2>1. test' = [test EXCEPT ![l] = [at |-> at, proxy |-> cache[l]]]
    BY <1>5 DEF Converted
  <2>2. test'[l] = [at |-> at, proxy |-> cache[l]]
    BY <1>2, <2>1 DEF Candidate
  <2>3. LinkInStep(l)'
    BY <1>3, <1>5, <2>2 DEF LinkInStep, OnItsNode
  <2>4. [at |-> at, proxy |-> cache[l]] \in TestOf
    BY <1>2, <1>4
  <2> HIDE DEF at
  <2> QED
    BY <1>1, <1>5, <2>1, <2>3, <2>4, LinkTestInv DEF _proxy_from_share_link
<1>6. CASE /\ cache[l] = NoPort /\ import_link(l)
           /\ cache' = [cache EXCEPT ![l] = node'[l]] /\ Converted(l, node'[l])
  <2>1. \E port \in Ports \cup {NoPort} :
           port # NoPort /\ node' = [node EXCEPT ![l] = port]
    <3>1. CASE node[l] # NoPort /\ UNCHANGED node
      BY <1>2, <3>1
    <3>2. CASE Cardinality(InUse) < MaxNodes /\ _start_sing_box(l)
      BY <3>2, FreePortFree DEF RelayInv, _start_sing_box
    <3> QED BY <1>6, <3>1, <3>2 DEF import_link
  <2>2. PICK port \in Ports \cup {NoPort} :
           port # NoPort /\ node' = [node EXCEPT ![l] = port]
    BY <2>1
  <2>3. node'[l] = port
    BY <1>2, <2>2
  <2>4. test' = [test EXCEPT ![l] = [at |-> at, proxy |-> port]]
    BY <1>6, <2>3 DEF Converted
  <2>5. cache' = [cache EXCEPT ![l] = port]
    BY <1>6, <2>3
  <2>6. [at |-> at, proxy |-> port] \in TestOf
    BY <1>4
  <2>7. at \in OnItsNode
    BY DEF OnItsNode
  <2>8. /\ [at |-> at, proxy |-> port].at = at
        /\ [at |-> at, proxy |-> port].proxy = port
    OBVIOUS
  <2> DEFINE t == [at |-> at, proxy |-> port]
  <2>9. /\ t \in TestOf /\ test' = [test EXCEPT ![l] = t]
        /\ t.at \in OnItsNode /\ t.proxy = port
    BY <2>4, <2>6, <2>7, <2>8
  <2>10. t.at # "stop"
    BY <2>8
  <2> HIDE DEF t, at
  <2>11. MoveInStep(t, port, port)
    BY <2>2, <2>9, <2>10 DEF MoveInStep
  <2> QED
    BY <1>1, <2>2, <2>5, <2>9, <2>11, LinkStepInv DEF _proxy_from_share_link
<1>7. CASE /\ cache[l] = NoPort /\ node[l] = NoPort /\ Becomes(l, "failed")
           /\ UNCHANGED <<node, cache>>
  <2> DEFINE t == [test[l] EXCEPT !.at = "failed"]
  <2>1. l \in Candidate /\ test[l] \in TestOf BY <1>2 DEF Candidate
  <2>2. t \in TestOf /\ t.at = "failed"
    BY <2>1 DEF TestOf
  <2>3. test' = [test EXCEPT ![l] = t] BY <1>7 DEF Becomes
  <2> HIDE DEF t
  <2>4. test'[l] = t BY <1>2, <2>1, <2>3
  <2>5. LinkInStep(l)'
    BY <1>7, <2>2, <2>4 DEF LinkInStep, OnItsNode
  <2> QED
    BY <1>1, <1>7, <2>2, <2>3, <2>5, LinkTestInv DEF _proxy_from_share_link
<1> QED BY <1>5, <1>6, <1>7 DEF _proxy_from_share_link, at

\* The test of a local proxy that is a candidate itself moves on.
LEMMA DirectTestInv ==
  ASSUME RelayInv, NEW p \in Ports, test[p].at # "none", NEW t \in TestOf,
         t.at \in {"request", "ok"} => t.proxy = p,
         test' = [test EXCEPT ![p] = t],
         UNCHANGED <<node, cache, bootstrap, active, listed, exits, refresh, refreshes>>
  PROVE  RelayInv'
<1>1. p \in Candidate /\ \A l \in Links : l \in Candidate /\ l # p
  BY RelayAssumption DEF Candidate, Ports
<1>2. /\ ProxyRelayTypeOK' /\ PassedSomewhere' /\ test'[p] = t
      /\ \A d \in Candidate : d # p => test'[d] = test[d]
  BY <1>1, TestMoves DEF RelayInv, TestOf, ProxyRelayTypeOK
<1>3. PoolOfList'
  BY PoolKept DEF RelayInv
<1>4. Running
  BY <1>1, TestsRun
<1>5. \A l \in Links : test'[l] = test[l]
  BY <1>1, <1>2
<1>6. CacheInStep' /\ TestedOnNode' /\ StartsClean'
  BY <1>5 DEF RelayInv, LinksInv, CacheInStep, TestedOnNode, StartsClean
<1>7. DirectTests' /\ AtRestUntested' /\ ListsAgree'
  BY <1>2, <1>4 DEF RelayInv, LinksInv, DirectTests, AtRestUntested, ListsAgree,
                    Settled, Running, Candidate
<1> QED BY <1>2, <1>3, <1>6, <1>7 DEF RelayInv, LinksInv

LEMMA NormalizeDirectInv ==
  ASSUME RelayInv, NEW p \in Ports, NormalizeDirect(p) PROVE RelayInv'
<1> DEFINE t == [at |-> "request", proxy |-> p]
<1>1. t \in TestOf /\ t.proxy = p
  BY DEF TestOf
<1>2. test[p].at # "none" /\ test' = [test EXCEPT ![p] = t]
  BY DEF NormalizeDirect
<1> HIDE DEF t
<1> QED BY <1>1, <1>2, DirectTestInv DEF NormalizeDirect

LEMMA TestPlaces ==
  ASSUME RelayInv, NEW c \in Candidate, NEW place,
         place = "ok" => test[c].proxy # NoPort,
         place \in {"none", "normalize", "request", "rejected",
                    "cleanup", "stop", "ok", "failed"},
         Becomes(c, place)
  PROVE  \E t \in TestOf :
           /\ t.at = place /\ t.proxy = test[c].proxy
           /\ test' = [test EXCEPT ![c] = t] /\ test'[c] = t
<1> DEFINE t == [test[c] EXCEPT !.at = place]
<1>1. test[c] \in TestOf
  BY TestsTyped
<1>2. t \in TestOf /\ t.at = place /\ t.proxy = test[c].proxy
  BY <1>1 DEF TestOf
<1>3. test' = [test EXCEPT ![c] = t]
  BY DEF Becomes
<1> HIDE DEF t
<1>4. test'[c] = t
  BY <1>3 DEF RelayInv, ProxyRelayTypeOK
<1> QED BY <1>2, <1>3, <1>4

LEMMA RunInv ==
  ASSUME RelayInv, NEW c \in Candidate, run(c) PROVE RelayInv'
<1>1. PICK place \in {"ok", "cleanup", "failed"} :
        /\ Becomes(c, place) /\ (c \in Links => place \in {"ok", "cleanup"})
        /\ place = "ok" => test[c].proxy # NoPort
  BY DEF run, Serves, InUse
<1>2. PICK t \in TestOf :
           /\ t.at = place /\ t.proxy = test[c].proxy
           /\ test' = [test EXCEPT ![c] = t] /\ test'[c] = t
  BY <1>1, TestPlaces
<1>3. test[c].at = "request"
      /\ UNCHANGED <<bootstrap, node, cache, active, listed, exits, refresh, refreshes>>
  BY DEF run
<1>4. CASE c \in Ports
  <2>1. test[c].proxy = c
    BY <1>3, <1>4 DEF RelayInv, LinksInv, DirectTests
  <2> QED BY <1>2, <1>3, <1>4, <2>1, DirectTestInv
<1>5. CASE c \in Links
  <2>2. cache[c] = node[c] /\ node[c] # NoPort /\ test[c].proxy = node[c]
    BY <1>3, <1>5 DEF RelayInv, LinksInv, CacheInStep, TestedOnNode, OnItsNode
  <2>3. place \in OnItsNode
    BY <1>1, <1>5 DEF OnItsNode
  <2>4. LinkInStep(c)'
    BY <1>2, <1>3, <2>2, <2>3 DEF LinkInStep
  <2> QED BY <1>2, <1>3, <1>5, <2>4, LinkTestInv
<1> QED BY <1>4, <1>5 DEF Candidate

LEMMA CleanupInv ==
  ASSUME RelayInv, NEW l \in Links, _cleanup_tested_proxy(l) PROVE RelayInv'
<1>1. l \in Candidate
  BY DEF Candidate
<1>2. PICK t \in TestOf :
           /\ t.at = "stop" /\ t.proxy = test[l].proxy
           /\ test' = [test EXCEPT ![l] = t] /\ test'[l] = t
  BY <1>1, TestPlaces DEF _cleanup_tested_proxy
<1>3. /\ test[l].at = "cleanup" /\ cache' = [cache EXCEPT ![l] = NoPort]
      /\ UNCHANGED <<bootstrap, node, active, listed, exits, refresh, refreshes>>
  BY DEF _cleanup_tested_proxy
<1>4. node[l] \in Ports \cup {NoPort} /\ node' = [node EXCEPT ![l] = node[l]]
  BY <1>3 DEF RelayInv, ProxyRelayTypeOK
<1>5. node[l] # NoPort /\ test[l].proxy = node[l]
  BY <1>3 DEF RelayInv, LinksInv, TestedOnNode, OnItsNode
<1>6. test[l].at # "none" /\ "stop" \in OnItsNode /\ NoPort \in Ports \cup {NoPort}
  BY <1>3 DEF OnItsNode
<1>7. MoveInStep(t, node[l], NoPort)
  BY <1>2, <1>5, <1>6 DEF MoveInStep
<1> QED BY <1>2, <1>3, <1>4, <1>6, <1>7, LinkStepInv

LEMMA StopLinkInv ==
  ASSUME RelayInv, NEW l \in Links, stop_link(l) PROVE RelayInv'
<1>1. l \in Candidate
  BY DEF Candidate
<1>2. PICK t \in TestOf :
           /\ t.at = "failed" /\ t.proxy = test[l].proxy
           /\ test' = [test EXCEPT ![l] = t] /\ test'[l] = t
  BY <1>1, TestPlaces DEF stop_link
<1>3. /\ test[l].at = "stop" /\ node' = [node EXCEPT ![l] = NoPort]
      /\ UNCHANGED <<bootstrap, cache, active, listed, exits, refresh, refreshes>>
  BY DEF stop_link
<1>4. cache[l] \in Ports \cup {NoPort} /\ cache' = [cache EXCEPT ![l] = cache[l]]
  BY <1>3 DEF RelayInv, ProxyRelayTypeOK
<1>5. cache[l] = NoPort
  BY <1>3 DEF RelayInv, LinksInv, CacheInStep
<1>6. test[l].at # "none" /\ "failed" \notin OnItsNode /\ NoPort \in Ports \cup {NoPort}
  BY <1>3 DEF OnItsNode
<1>7. MoveInStep(t, NoPort, cache[l])
  BY <1>2, <1>5, <1>6 DEF MoveInStep
<1> QED BY <1>2, <1>3, <1>4, <1>6, <1>7, LinkStepInv

\* The candidates that passed are listed, and a startup's nodes are theirs.
LEMMA RefreshInv ==
  ASSUME RelayInv, MaxActive = 0, refresh_once PROVE RelayInv'
<1>1. ~Enough
  BY DEF Enough
<1>2. listed' = Passed /\ active' = {test[c].proxy : c \in Passed}
  BY <1>1 DEF refresh_once, write_outputs
<1>3. \A c \in Candidate : test[c].at \in {"none", "ok", "failed"}
  BY <1>1 DEF refresh_once, Tested
<1>4. /\ Running /\ UNCHANGED <<bootstrap, node, cache, exits, refreshes>>
      /\ refresh' = IF refresh = "startup" THEN "prune" ELSE "rest"
      /\ test' = [c \in Candidate |-> NoTest]
  BY DEF refresh_once
<1>5. ProxyRelayTypeOK'
  <2>1. active' \subseteq Ports /\ listed' \subseteq Candidate
    <3>1. ASSUME NEW c \in Candidate, test[c].at = "ok"
          PROVE  test[c].proxy \in Ports
      BY <3>1 DEF RelayInv, ProxyRelayTypeOK, PassedSomewhere
    <3> QED BY <1>2, <3>1 DEF Passed
  <2>2. test' \in [Candidate -> TestOf]
    BY <1>4 DEF TestOf, NoTest
  <2> QED BY <1>4, <2>1, <2>2 DEF RelayInv, ProxyRelayTypeOK, TestOf
<1>8. PassedSomewhere'
  BY <1>4 DEF PassedSomewhere, NoTest
<1>6. PoolOfList'
  BY <1>4 DEF RelayInv, PoolOfList, Lists, Running, ProxyRelayTypeOK
<1>7. LinksInv'
  <2>2. \A l \in Links : cache[l] = node[l]
    BY <1>3 DEF RelayInv, LinksInv, CacheInStep, Candidate
  <2>3. \A c \in Candidate : test'[c] = NoTest /\ test'[c].at = "none"
    BY <1>4 DEF NoTest
  <2>4. CacheInStep' /\ TestedOnNode' /\ DirectTests' /\ AtRestUntested'
    BY <1>4, <2>2, <2>3
       DEF CacheInStep, TestedOnNode, DirectTests, AtRestUntested, OnItsNode,
           Candidate
  <2>5. ASSUME NEW l \in Links, test[l].at = "ok"
        PROVE  node[l] # NoPort /\ node[l] = test[l].proxy /\ l \in Passed
    BY <2>5 DEF RelayInv, LinksInv, TestedOnNode, OnItsNode, Passed, Candidate
  <2>6. ListsAgree'
    <3>1. ASSUME NEW l \in Links, l \in Passed
          PROVE  node[l] # NoPort /\ node[l] \in active'
      BY <1>2, <2>5, <3>1 DEF Passed
    <3>2. ASSUME NEW c \in Passed
          PROVE  test[c].proxy \in Passed
                 \/ \E l \in Links \cap Passed : node[l] = test[c].proxy
      <4>1. CASE c \in Links BY <2>5, <4>1 DEF Passed
      <4>2. CASE c \in Ports
        BY <4>2 DEF Passed, RelayInv, LinksInv, DirectTests
      <4> QED BY <4>1, <4>2 DEF Passed, Candidate
    <3> QED BY <1>2, <1>4, <3>1, <3>2 DEF ListsAgree
  <2>7. StartsClean'
    <3>1. ASSUME refresh = "startup", NEW l \in Links, node[l] # NoPort
          PROVE  node[l] \in active'
      <4>1. test[l].at = "ok"
        BY <1>3, <3>1 DEF RelayInv, LinksInv, StartsClean, OnItsNode, Candidate
      <4> QED BY <1>2, <2>5, <4>1
    <3>2. refreshes > 0
      BY <1>4 DEF RelayInv, PoolOfList, Running
    <3> QED BY <1>4, <3>1, <3>2 DEF StartsClean
  <2> QED BY <2>4, <2>6, <2>7 DEF LinksInv
<1> QED BY <1>5, <1>8, <1>6, <1>7 DEF RelayInv

\* Every node is that of a listed proxy by then, so that nothing is stopped.
LEMMA PruneInv ==
  ASSUME RelayInv, _prune_builtin_proxy_relay PROVE RelayInv'
<1>1. /\ refresh = "prune" /\ refresh' = "rest"
      /\ node' = [l \in Links |->
                    IF node[l] \in active THEN node[l] ELSE NoPort]
      /\ UNCHANGED <<bootstrap, cache, active, listed, exits, test, refreshes>>
  BY DEF _prune_builtin_proxy_relay
<1>2. ProxyRelayTypeOK' /\ PassedSomewhere'
  BY <1>1 DEF RelayInv, ProxyRelayTypeOK, PassedSomewhere
<1>3. PoolOfList'
  BY <1>1 DEF RelayInv, PoolOfList, Lists, Running
<1>4. \A l \in Links : node'[l] = node[l]
  BY <1>1 DEF RelayInv, LinksInv, StartsClean
<1>5. CacheInStep' /\ TestedOnNode' /\ DirectTests' /\ AtRestUntested' /\ ListsAgree'
  BY <1>1, <1>4
     DEF RelayInv, LinksInv, PoolOfList, CacheInStep, TestedOnNode, DirectTests,
         AtRestUntested, ListsAgree, Settled
<1>6. StartsClean'
  BY <1>1 DEF RelayInv, PoolOfList, ProxyRelayTypeOK, StartsClean
<1> QED BY <1>2, <1>3, <1>5, <1>6 DEF RelayInv, LinksInv

LEMMA PickInv ==
  ASSUME RelayInv, _pick_grok_proxy PROVE RelayInv'
<1>1. /\ exits' = [items |-> _load_proxy_pool_locked, of |-> Lists]
      /\ refresh \in {"rest", "manager"} /\ refreshes > 0
      /\ UNCHANGED <<bootstrap, node, cache, active, listed, refresh, test, refreshes>>
  BY DEF _pick_grok_proxy
<1>2. Lists \in 0 .. MaxRefreshes /\ _load_proxy_pool_locked \subseteq Ports
  BY <1>1, RelayAssumption
     DEF RelayInv, ProxyRelayTypeOK, Lists, Running, _load_proxy_pool_locked
<1>3. ProxyRelayTypeOK' /\ PassedSomewhere'
  BY <1>1, <1>2 DEF RelayInv, ProxyRelayTypeOK, PassedSomewhere
<1>4. PoolOfList'
  BY <1>1, <1>2
     DEF RelayInv, PoolOfList, Lists, Running, _load_proxy_pool_locked
<1>5. LinksInv'
  BY <1>1 DEF RelayInv, LinksInv, CacheInStep, TestedOnNode, DirectTests,
              StartsClean, AtRestUntested, ListsAgree, Settled
<1> QED BY <1>3, <1>4, <1>5 DEF RelayInv

LEMMA RelayNextInv ==
  ASSUME MaxActive = 0, RelayInv, [ProxyRelayNext]_relayVars PROVE RelayInv'
<1>1. CASE UNCHANGED relayVars
  BY <1>1 DEF relayVars, RelayInv, ProxyRelayTypeOK, PassedSomewhere,
     PoolOfList, Lists, Running, LinksInv, CacheInStep, TestedOnNode, DirectTests,
     StartsClean, AtRestUntested, ListsAgree, Settled
<1>2. CASE StartRefresh BY <1>2, StartRefreshInv
<1>3. CASE _test_candidates_via_go BY <1>3, GoWorkerInv
<1>4. CASE refresh_once BY <1>4, RefreshInv
<1>5. CASE _prune_builtin_proxy_relay BY <1>5, PruneInv
<1>6. CASE _pick_grok_proxy BY <1>6, PickInv
<1>7. CASE \E l \in Links : _proxy_from_share_link(l) \/ _cleanup_tested_proxy(l)
                            \/ stop_link(l)
  BY <1>7, ConvertInv, CleanupInv, StopLinkInv
<1>8. CASE \E p \in Ports : NormalizeDirect(p)
  BY <1>8, NormalizeDirectInv
<1>9. CASE \E c \in Candidate : run(c)
  BY <1>9, RunInv
<1> QED
  BY <1>1, <1>2, <1>3, <1>4, <1>5, <1>6, <1>7, <1>8, <1>9 DEF ProxyRelayNext

\* With no limit on the list (PROXY_AUTO_MAX_ACTIVE = 0) each share link that
\* a refresh lists is served by its own node on the port that is listed, and
\* converted to it, however many links there are, whatever the last run left
\* in the files and however tests, clean-ups and picks interleave.  The other
\* proxies of the list are local ones that were candidates themselves; that
\* these can be reached is not claimed, as a node may be stopped after the test
\* of such a proxy has gone through it.  With a limit the links fail too.
THEOREM ListedLinksServed ==
  ASSUME MaxActive = 0 PROVE ProxyRelaySpec => []LinksServed
<1>1. ProxyRelayInit => RelayInv
  BY RelayInitInv
<1>2. RelayInv /\ [ProxyRelayNext]_relayVars => RelayInv'
  BY RelayNextInv
<1>3. RelayInv => LinksServed
  <2> SUFFICES ASSUME RelayInv, Settled
               PROVE  /\ \A l \in Links \cap listed :
                           Serves(node[l]) /\ cache[l] = node[l] /\ node[l] \in active
                      /\ \A p \in active \cup _load_proxy_pool_locked :
                           p \in listed \/ \E l \in Links \cap listed : node[l] = p
                      /\ \A l \in Links : node[l] # NoPort
                                            => cache[l] \in {node[l], NoPort}
    BY DEF LinksServed
  <2>1. _load_proxy_pool_locked = active
    <3>1. Lists > 0
      BY DEF Settled, Lists, Running
    <3> QED BY <3>1 DEF RelayInv, PoolOfList, _load_proxy_pool_locked
  <2>2. \A l \in Links : cache[l] = node[l]
    BY DEF RelayInv, LinksInv, CacheInStep, AtRestUntested, Settled, NoTest, Candidate
  <2>3. ListsAgree
    BY DEF RelayInv, LinksInv
  <2> QED BY <2>1, <2>2, <2>3 DEF ListsAgree, Serves, InUse
<1> QED BY <1>1, <1>2, <1>3, PTL DEF ProxyRelaySpec
=============================================================================
