----------------------------- MODULE ProxyRelay -----------------------------
(***************************************************************************)
(* Share links behind the local relay (proxy/relay.py), the refresh that   *)
(* tests them (proxy/auto.py, register.py) and the file of active proxies  *)
(* from which a registration picks its exit.                               *)
(*                                                                         *)
(* A link is served by a sing-box process that listens on a local port;    *)
(* the port is the proxy.  BuiltinProxyRelay keeps the nodes under its     *)
(* lock, so importing and stopping a link are one step each; the cache of  *)
(* converted links lies outside of that lock, in register.py.  A refresh   *)
(* tests its candidates in the threads of a pool, in any order, or all at  *)
(* once in the Go proxy-worker, which knows no share links.  Nodes die     *)
(* only when they are stopped here.  The pool of a registration holds the  *)
(* tested proxies alone (PROXY_POOL_USE_TESTED_ONLY).                      *)
(***************************************************************************)
EXTENDS Naturals, FiniteSets

CONSTANTS
  Links,       \* the share links the sources may list
  MaxNodes,    \* PROXY_RELAY_MAX_NODES
  MaxActive,   \* PROXY_AUTO_MAX_ACTIVE; 0 is no limit
  MaxRefreshes \* how many refreshes are looked at (a bound)

ASSUME RelayAssumption ==
  /\ MaxNodes \in Nat \ {0} /\ MaxActive \in Nat /\ MaxRefreshes \in Nat
  /\ Links \cap (1 .. MaxNodes + 1) = {}

Ports == 1 .. MaxNodes + 1
NoPort == 0

VARIABLES
  node,        \* the port each link's process listens on
  cache,       \* _proxy_relay_link_cache: the proxy each link was given
  bootstrap,   \* PROXY_AUTO_INCLUDE_BOOTSTRAP_CANDIDATES
  active,      \* the ports listed in proxy-auto-active.txt
  listed,      \* the candidates listed in proxy-auto-state.json, if it is there
  exits,       \* _proxy_pool_cache: the proxies, and which list they are of
  refresh,     \* whose refresh is running, if any, and where it is
  test,        \* the test of each candidate of the refresh
  refreshes    \* how many were started

relayVars == <<node, cache, bootstrap, active, listed, exits, refresh,
               test, refreshes>>

\* A candidate is a link, or a local proxy of the last active list itself.
Candidate == Links \cup Ports
NoTest == [at |-> "none", proxy |-> NoPort]

ProxyRelayTypeOK ==
  /\ node \in [Links -> Ports \cup {NoPort}]
  /\ cache \in [Links -> Ports \cup {NoPort}]
  /\ bootstrap \in BOOLEAN
  /\ active \subseteq Ports /\ listed \subseteq Candidate
  /\ exits \in [items : SUBSET Ports, of : 0 .. MaxRefreshes]
  /\ refresh \in {"startup", "prune", "rest", "manager"}
  /\ test \in [Candidate -> [at : {"none", "normalize", "request", "rejected",
                                   "cleanup", "stop", "ok", "failed"},
                             proxy : Ports \cup {NoPort}]]
  /\ refreshes \in 0 .. MaxRefreshes

\* The two files are those of the last run of the program, which may have
\* stopped between them; the state file may be gone.  Nothing listens yet.
ProxyRelayInit ==
  /\ node = [l \in Links |-> NoPort] /\ cache = [l \in Links |-> NoPort]
  /\ bootstrap \in BOOLEAN
  /\ active \in SUBSET Ports /\ listed \in SUBSET Candidate
  /\ exits = [items |-> {}, of |-> 0]
  /\ refresh = "rest" /\ refreshes = 0
  /\ test = [c \in Candidate |-> NoTest]

InUse == {node[l] : l \in Links} \ {NoPort}
Serves(p) == p \in InUse
FreePort == CHOOSE p \in Ports \ InUse : \A q \in Ports \ InUse : p <= q
Becomes(c, place) == test' = [test EXCEPT ![c].at = place]
Running == refresh \in {"startup", "manager"}

----------------------------------------------------------------------------
\* The refresh

\* What the sources list this time: any links, none if they do not answer.
fetch_source_bodies == SUBSET Links

\* Under _refresh_lock, which a second refresh does not wait for.  The first
\* one is that of the startup; the manager's thread is started after it.
StartRefresh ==
  /\ refresh = "rest" /\ refreshes < MaxRefreshes
  /\ \E links \in fetch_source_bodies :
       LET candidates == links \cup (IF listed = {} THEN active ELSE listed)
                               \cup (IF bootstrap THEN active ELSE {})
       IN  test' = [c \in Candidate |->
             IF c \in candidates
               THEN [at |-> "normalize", proxy |-> NoPort] ELSE NoTest]
  /\ refresh' = IF refreshes = 0 THEN "startup" ELSE "manager"
  /\ refreshes' = refreshes + 1
  /\ UNCHANGED <<bootstrap, node, cache, active, listed, exits>>

\* The Go proxy-worker, if there is one, makes all the requests; it turns
\* every share link down, and the links are normalized only after that.
_test_candidates_via_go ==
  /\ Running
  /\ \A c \in Candidate : test[c].at \in {"none", "normalize"}
  /\ \E good \in SUBSET {p \in Ports : Serves(p)} :
       test' = [c \in Candidate |->
         CASE test[c].at = "none" -> test[c]
           [] test[c].at = "normalize" /\ c \in Links ->
                [test[c] EXCEPT !.at = "rejected"]
           [] OTHER ->
                [at |-> IF c \in good THEN "ok" ELSE "failed", proxy |-> c]]
  /\ UNCHANGED <<bootstrap, node, cache, active, listed, exits, refresh, refreshes>>

\* Under the relay's lock: a link that has a node keeps it, otherwise a
\* process is started on the lowest free port, unless all nodes are taken.
_start_sing_box(l) == node' = [node EXCEPT ![l] = FreePort]
import_link(l) ==
  \/ node[l] # NoPort /\ UNCHANGED node
  \/ /\ node[l] = NoPort /\ Cardinality(InUse) < MaxNodes
     /\ _start_sing_box(l)

\* _normalize_proxy_line.  A cached link is converted without a look at its
\* node; the import of another may fail.  What passes is requested, unless
\* it was turned down before.
Converted(l, proxy) ==
  test' = [test EXCEPT ![l] =
    [at |-> IF test[l].at = "normalize" THEN "request" ELSE "cleanup",
     proxy |-> proxy]]

_proxy_from_share_link(l) ==
  /\ l \in Links /\ test[l].at \in {"normalize", "rejected"}
  /\ \/ cache[l] # NoPort /\ Converted(l, cache[l]) /\ UNCHANGED <<node, cache>>
     \/ /\ cache[l] = NoPort /\ import_link(l)
        /\ cache' = [cache EXCEPT ![l] = node'[l]]
        /\ Converted(l, node'[l])
     \/ /\ cache[l] = NoPort /\ node[l] = NoPort
        /\ Becomes(l, "failed")
        /\ UNCHANGED <<node, cache>>
  /\ UNCHANGED <<bootstrap, active, listed, exits, refresh, refreshes>>

\* A local proxy is a candidate as it stands.
NormalizeDirect(p) ==
  /\ p \in Ports /\ test[p].at = "normalize"
  /\ test' = [test EXCEPT ![p] = [at |-> "request", proxy |-> p]]
  /\ UNCHANGED <<bootstrap, node, cache, active, listed, exits, refresh, refreshes>>

\* The test URLs are fetched through the proxy; nobody may be listening.
run(c) ==
  /\ test[c].at = "request"
  /\ \/ Serves(test[c].proxy) /\ Becomes(c, "ok")
     \/ Becomes(c, IF c \in Links THEN "cleanup" ELSE "failed")
  /\ UNCHANGED <<bootstrap, node, cache, active, listed, exits, refresh, refreshes>>

\* A link that failed is forgotten, and then its node is stopped.
_cleanup_tested_proxy_KeepsCache(l) ==
  \* Defect: the converted link stays in the cache.
  /\ l \in Links /\ test[l].at = "cleanup"
  /\ Becomes(l, "stop")
  /\ UNCHANGED <<bootstrap, node, cache, active, listed, exits, refresh, refreshes>>

_cleanup_tested_proxy(l) ==
  /\ l \in Links /\ test[l].at = "cleanup"
  /\ cache' = [cache EXCEPT ![l] = NoPort]
  /\ Becomes(l, "stop")
  /\ UNCHANGED <<bootstrap, node, active, listed, exits, refresh, refreshes>>

stop_link(l) ==
  /\ l \in Links /\ test[l].at = "stop"
  /\ node' = [node EXCEPT ![l] = NoPort]
  /\ Becomes(l, "failed")
  /\ UNCHANGED <<bootstrap, cache, active, listed, exits, refresh, refreshes>>

\* When every test is done, those running when the last was cancelled too,
\* the candidates that passed and their proxies replace the two lists.  With
\* a limit the tests not begun when it is reached are dropped, and the
\* fastest are listed.
Passed == {c \in Candidate : test[c].at = "ok"}
Enough == MaxActive # 0 /\ Cardinality(Passed) >= MaxActive
Tested == \A c \in Candidate :
  \/ test[c].at \in {"none", "ok", "failed"}
  \/ Enough /\ test[c].at = "normalize"

write_outputs(kept) == listed' = kept /\ active' = {test[c].proxy : c \in kept}

refresh_once ==
  /\ Running /\ Tested
  /\ \E kept \in SUBSET Passed :
       /\ IF Enough THEN Cardinality(kept) = MaxActive ELSE kept = Passed
       /\ write_outputs(kept)
  /\ refresh' = IF refresh = "startup" THEN "prune" ELSE "rest"
  /\ test' = [c \in Candidate |-> NoTest]
  /\ UNCHANGED <<bootstrap, node, cache, exits, refreshes>>

\* After the startup's: the nodes of no active proxy are stopped; the cache
\* is not told.
_prune_builtin_proxy_relay ==
  /\ refresh = "prune"
  /\ node' = [l \in Links |->
                IF node[l] \in active THEN node[l] ELSE NoPort]
  /\ refresh' = "rest"
  /\ UNCHANGED <<bootstrap, cache, active, listed, exits, test, refreshes>>

----------------------------------------------------------------------------
\* A registration picks a proxy

\* The list is read again when its file is another one than that of the
\* last pick (its mtime); every refresh that ends writes the file.
Lists == IF Running THEN refreshes - 1 ELSE refreshes
_load_proxy_pool_locked == IF exits.of = Lists THEN exits.items ELSE active

_pick_grok_proxy ==
  /\ refresh \in {"rest", "manager"} /\ refreshes > 0
  /\ exits' = [items |-> _load_proxy_pool_locked, of |-> Lists]
  /\ UNCHANGED <<bootstrap, node, cache, active, listed, refresh, test, refreshes>>

----------------------------------------------------------------------------
ProxyRelayNext ==
  \/ StartRefresh \/ _test_candidates_via_go \/ refresh_once
  \/ _prune_builtin_proxy_relay \/ _pick_grok_proxy
  \/ \E l \in Links :
       \/ _proxy_from_share_link(l) \/ _cleanup_tested_proxy(l) \/ stop_link(l)
  \/ \E p \in Ports : NormalizeDirect(p)
  \/ \E c \in Candidate : run(c)

ProxyRelaySpec == ProxyRelayInit /\ [][ProxyRelayNext]_relayVars

----------------------------------------------------------------------------
\* After a refresh and before the next.
Settled == refresh \in {"prune", "rest"} /\ refreshes > 0

\* After a refresh each share link it lists is listened on by a node of its
\* own, on the port the list has and the cache converts it to; what is listed
\* besides, and what the pool still hands out, is a local proxy that was
\* tested as a candidate itself; and no link is converted to a port that is
\* not its own node's.  This is so whether or not the last list's proxies are
\* candidates (PROXY_AUTO_INCLUDE_BOOTSTRAP_CANDIDATES, on by default), and
\* wants an unlimited list (PROXY_AUTO_MAX_ACTIVE = 0).  It does not say that
\* the local proxies which are candidates themselves can be reached, and the
\* code does not see to it: such a proxy may pass its test through the node
\* of a link that fails its own afterwards, and is stopped.
LinksServed ==
  Settled =>
    /\ \A l \in Links \cap listed :
         Serves(node[l]) /\ cache[l] = node[l] /\ node[l] \in active
    /\ \A p \in active \cup _load_proxy_pool_locked :
         p \in listed \/ \E l \in Links \cap listed : node[l] = p
    /\ \A l \in Links : node[l] # NoPort => cache[l] \in {node[l], NoPort}
=============================================================================
