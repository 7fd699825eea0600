------------------------------ MODULE HotPages ------------------------------
(***************************************************************************)
(* The pool of prepared sign-up pages of the C workers (register.py), used *)
(* if C_HOT_PAGE_POOL is set.  A worker leases a page for one account; the *)
(* page comes from the pool or is opened, and is cleaned and put back, or  *)
(* closed.  Everything runs on one event loop: a step ends where the code  *)
(* awaits, and there a worker may be cancelled (C_CONSUME_TIMEOUT, the end *)
(* of main).  The pool's lock is never held over another await.            *)
(***************************************************************************)
EXTENDS Naturals, FiniteSets

CONSTANTS
  Consumers,   \* the C workers
  Pages,       \* the pages that can be opened (a bound)
  NoPage,      \* a worker without a page
  PoolSize     \* _c_hot_page_pool_size

ASSUME HotPagesAssumption == NoPage \notin Pages /\ PoolSize \in Nat

VARIABLES
  pool,        \* _c_hot_page_pool
  page,        \* each page: is its context open, what is left in it
  consumer     \* where each worker is, and with which page

pageVars == <<pool, page, consumer>>

HotPagesTypeOK ==
  /\ pool \subseteq Pages
  /\ page \in [Pages -> [open : {"no", "yes", "closed"},
                         cookies : BOOLEAN, storage : BOOLEAN]]
  /\ consumer \in [Consumers ->
       [at : {"idle", "open", "prepare", "leased", "cookies", "storage",
              "return", "close"},
        page : Pages \cup {NoPage}, own : BOOLEAN]]

Idle == [at |-> "idle", page |-> NoPage, own |-> FALSE]
Fresh == [open |-> "no", cookies |-> FALSE, storage |-> FALSE]

HotPagesInit ==
  /\ pool = {}
  /\ page = [p \in Pages |-> Fresh]
  /\ consumer = [c \in Consumers |-> Idle]

Is(c, place) == consumer[c].at = place
Held(c) == consumer[c].page
MovesTo(c, place) == consumer' = [consumer EXCEPT ![c].at = place]

----------------------------------------------------------------------------
\* _acquire_c_page

\* An account with a fingerprint of its own gets a page of its own.
MissPage(c) ==
  /\ Is(c, "idle")
  /\ \E own \in BOOLEAN :
       /\ own \/ pool = {}
       /\ consumer' = [consumer EXCEPT ![c] = [Idle EXCEPT !.at = "open",
                                                           !.own = own]]
  /\ UNCHANGED <<pool, page>>

HitPage_Peeks(c) ==
  \* Defect: the page taken stays in the pool.
  /\ Is(c, "idle")
  /\ \E p \in pool :
       consumer' = [consumer EXCEPT ![c] = [Idle EXCEPT !.at = "leased",
                                                        !.page = p]]
  /\ UNCHANGED <<pool, page>>

HitPage(c) ==
  /\ Is(c, "idle")
  /\ \E p \in pool :
       /\ pool' = pool \ {p}
       /\ consumer' = [consumer EXCEPT ![c] = [Idle EXCEPT !.at = "leased",
                                                           !.page = p]]
  /\ UNCHANGED page

\* _new_grok_page: a context and a page in it.
_new_c_hot_page(c) ==
  /\ Is(c, "open")
  /\ \E p \in Pages :
       /\ page[p].open = "no"
       /\ page' = [page EXCEPT ![p].open = "yes"]
       /\ consumer' = [consumer EXCEPT ![c].at = "prepare", ![c].page = p]
  /\ UNCHANGED pool

_prepare_signup_page(c) ==
  /\ Is(c, "prepare")
  /\ MovesTo(c, "leased")
  /\ UNCHANGED <<pool, page>>

\* It raises, or the worker is cancelled: the lease has not begun, nobody
\* closes what is open.
OpenFails(c) ==
  /\ consumer[c].at \in {"open", "prepare"}
  /\ consumer' = [consumer EXCEPT ![c] = Idle]
  /\ UNCHANGED <<pool, page>>

----------------------------------------------------------------------------
\* The lease

\* The verification and the sign-up leave cookies and storage behind.
Register(c) ==
  /\ Is(c, "leased")
  /\ \E k, s \in BOOLEAN :
       page' = [page EXCEPT ![Held(c)].cookies = @ \/ k,
                            ![Held(c)].storage = @ \/ s]
  /\ UNCHANGED <<pool, consumer>>

\* _release_c_page: after an exception, for an account with a fingerprint,
\* and for a page that has left the sign-up the context is closed.
Unhealthy(c) ==
  /\ Is(c, "leased")
  /\ MovesTo(c, "close")
  /\ UNCHANGED <<pool, page>>

Healthy(c) ==
  /\ Is(c, "leased") /\ ~consumer[c].own
  /\ MovesTo(c, "cookies")
  /\ UNCHANGED <<pool, page>>

clear_cookies(c) ==
  /\ Is(c, "cookies")
  /\ page' = [page EXCEPT ![Held(c)].cookies = FALSE]
  /\ MovesTo(c, "storage")
  /\ UNCHANGED pool

\* On a page still on the sign-up's origin, which is what healthy means,
\* storage.clear() does not throw.
clear_storage(c) ==
  /\ Is(c, "storage")
  /\ page' = [page EXCEPT ![Held(c)].storage = FALSE]
  /\ MovesTo(c, "return")
  /\ UNCHANGED pool

\* Either may raise, and the worker may be cancelled up to the lock.
CleaningFails_Returns(c) ==
  \* Defect: a page whose cleaning raised is put back all the same.
  /\ consumer[c].at \in {"cookies", "storage", "return"}
  /\ MovesTo(c, "return")
  /\ UNCHANGED <<pool, page>>

CleaningFails(c) ==
  /\ consumer[c].at \in {"cookies", "storage", "return"}
  /\ MovesTo(c, "close")
  /\ UNCHANGED <<pool, page>>

\* Under the lock.
ReturnPage(c) ==
  /\ Is(c, "return")
  /\ IF Cardinality(pool) < PoolSize
       THEN /\ pool' = pool \cup {Held(c)}
            /\ consumer' = [consumer EXCEPT ![c] = Idle]
       ELSE MovesTo(c, "close") /\ UNCHANGED pool
  /\ UNCHANGED page

\* context.close(), or page.close() if that raises; both may.
_close_grok_page(c) ==
  /\ Is(c, "close")
  /\ \E open \in {"closed", "yes"} :
       page' = [page EXCEPT ![Held(c)].open = open]
  /\ consumer' = [consumer EXCEPT ![c] = Idle]
  /\ UNCHANGED pool

\* At the end of main, while cancelled workers are still on their way.
_close_c_hot_page_pool ==
  /\ pool # {}
  /\ page' = [p \in Pages |-> IF p \in pool
                THEN [page[p] EXCEPT !.open = "closed"] ELSE page[p]]
  /\ pool' = {}
  /\ UNCHANGED consumer

----------------------------------------------------------------------------
HotPagesNext ==
  \/ \E c \in Consumers :
       \/ MissPage(c) \/ HitPage(c) \/ _new_c_hot_page(c)
       \/ _prepare_signup_page(c) \/ OpenFails(c)
       \/ Register(c) \/ Unhealthy(c) \/ Healthy(c)
       \/ clear_cookies(c) \/ clear_storage(c) \/ CleaningFails(c)
       \/ ReturnPage(c) \/ _close_grok_page(c)
  \/ _close_c_hot_page_pool

HotPagesSpec == HotPagesInit /\ [][HotPagesNext]_pageVars

----------------------------------------------------------------------------
\* A page in the pool is open and has nothing left of the account before,
\* wherever its cleaning was interrupted; no page is with two workers or
\* with one and in the pool; the pool keeps to its size.
PoolClean ==
  /\ Cardinality(pool) <= PoolSize
  /\ \A p \in pool : page[p] = [Fresh EXCEPT !.open = "yes"]
  /\ \A c \in Consumers : Held(c) \notin pool
  /\ \A c, d \in Consumers : c # d /\ Held(c) = Held(d) => Held(c) = NoPage
=============================================================================
