----------------------------- MODULE MCServices -----------------------------
(* Small instances of the services around the registration.  They share no  *)
(* state, so each behaviour is one service's: the part is chosen at the     *)
(* start and the others rest in their initial states.  The conversion is    *)
(* three parts: two converters over one account without products; the      *)
(* panel's alone, to one kind, over all accounts; and the texts, changed by *)
(* registration and re-login, over all products there may be.  The cycles   *)
(* over the CPA files are followed until their file is excepted.  The relay *)
(* starts from any files of an earlier run with one local proxy.  Pids,     *)
(* accounts and gateway processes are taken in order, since nothing tells   *)
(* them apart.                                                              *)
EXTENDS ControlPlane, KeyFiles, SessionSnapshot, ProxyRelay, SolverGateway,
        HotPages, SolverStack, Conversion, CredentialSync

VARIABLE part

serviceVars == <<panelVars, keyVars, snapshotVars, relayVars, gatewayVars, pageVars,
                 stackVars, conversionVars, syncVars, part>>

Conversions == {"converters", "pool", "texts"}

ServicesInit ==
  /\ part \in {"panel", "keys", "snapshot", "relay", "gateway", "pages",
              "solvers", "sync"} \cup Conversions
  /\ ControlPlaneInit /\ KeyFilesInit /\ SessionSnapshotInit
  /\ SolverGatewayInit /\ HotPagesInit /\ SolverStackInit /\ CredentialSyncInit
  /\ ProxyRelayInit
  /\ part = "relay" => active \cup (listed \cap Ports) \subseteq {1}
  /\ part # "relay" => active \cup listed = {} /\ ~bootstrap
  /\ ConversionInit
  /\ part # "texts" => \A f \in Files : product[f] = "none"
  /\ part # "texts" => logged = {} /\ "token" \notin {vault[u] : u \in Users \ tokens}
  /\ part = "converters" => \E u \in Users : tokens = {u} /\ vault[u] = "token"
  /\ part = "pool" => tokens = Users /\ \A u \in Users : vault[u] = "password"
  /\ part \notin Conversions => tokens = {}

\* Bounds: three engines if all are the python engine, two of any kinds.
Begun(p) == proc[p] # "unused"
PanelBound ==
  /\ \A p, q \in Pid : p < q /\ Begun(q) => Begun(p)
  /\ \/ \A p \in Pid : engine[p] \in {"python", "none"}
     \/ \E p \in Pid : ~Begun(p)

\* Three jobs while one loop has a browser, two while more have.
GatewayBound ==
  \/ \E w \in Loops : \A v \in Loops \ {w} : browser[v] = Gone
  \/ \E j \in Jobs : results[j].status = "none"

\* The order in which gateways are started and accounts are registered.
StackBound ==
  \A g, h \in Gateways : g < h /\ gateway[h] # "none" => gateway[g] # "none"
KeysBound ==
  \A e \in (Accounts \cap Taken') \ Taken : \A d \in Accounts : d < e => d \in Taken

Rest(name, vars) == part # name => UNCHANGED vars

ServicesNext ==
  /\ UNCHANGED part
  /\ Rest("panel", panelVars) /\ Rest("keys", keyVars)
  /\ Rest("snapshot", snapshotVars) /\ Rest("relay", relayVars)
  /\ Rest("gateway", gatewayVars) /\ Rest("pages", pageVars)
  /\ Rest("solvers", stackVars) /\ Rest("sync", syncVars)
  /\ part \notin Conversions => UNCHANGED conversionVars
  /\ \/ part = "panel" /\ ControlPlaneNext /\ PanelBound'
     \/ part = "keys" /\ KeyFilesNext /\ KeysBound
     \/ part = "snapshot" /\ SessionSnapshotNext
     \/ part = "relay" /\ ProxyRelayNext
     \/ part = "gateway" /\ SolverGatewayNext /\ GatewayBound'
     \/ part = "pages" /\ HotPagesNext
     \/ part = "solvers" /\ SolverStackNext /\ StackBound'
     \/ part = "sync" /\ both \cup unheard = {} /\ CredentialSyncNext
     \/ part = "converters" /\ Converts
     \/ part = "pool" /\ Converts /\ job'["service"] = AtRest
                      /\ job'["job"].want = {"cpa"}
     \/ part = "texts" /\ RegistersOrLogsIn
     \/ /\ part = "texts"
        /\ run_watch \/ migrate_from_accounts_txt("service") \/ Die("service")

ServicesSpec == ServicesInit /\ [][ServicesNext]_serviceVars
=============================================================================
