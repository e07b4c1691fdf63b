----------------------------- MODULE ProxyServer -----------------------------
(***************************************************************************)
(* The proxy server (internal/proxy) reconfigured by two goroutines:       *)
(*   "main"  applies the loaded state at startup, then the published       *)
(*           snapshot at every SIGHUP (cmd/rgdevenv/serve.go);             *)
(*   "txn"   applies each committed state, under Manager.mu, as soon as    *)
(*           one listener accepts management requests.                     *)
(* Nothing orders the two.  Each runs applyAndTrack in steps: store the    *)
(* dialer, build the routing table one mapping at a time, reconcile the    *)
(* listeners (atomic: Listeners.mu), close the stale ones, store the       *)
(* table, then hand the dialer and the targets to the health tracker.      *)
(*                                                                         *)
(* A state is its set of mappings here, and a commit (the steps of         *)
(* TxnManager, up to Publish) is one action.  Connections, and the drain   *)
(* of those of a closed listener, at most 5 s, are left out.               *)
(***************************************************************************)
EXTENDS Naturals, FiniteSets

CONSTANTS
  Hosts,          \* names of load balancers
  Mappings,       \* the mappings callers ask for
  OnDemandPorts,  \* their listen ports, other than HTTPSPort
  Upstreams,      \* the upstreams they name
  HTTPSPort,
  HTTPPort,       \* the redirect port, 0 to have none
  MgmtBind,       \* management.bind is configured
  MgmtBindPort,   \* its port, 0 for none or a Unix socket
  InitialStates,  \* what the state file may hold at startup
  CertSets,       \* what the certificates cover, before and after reloads
  LoadableSets,   \* the upstreams whose CA loads, as the CA directory changes
  Contended       \* ports other processes may bind

AlwaysOn == {HTTPSPort, HTTPPort} \ {0}
Ports == OnDemandPorts \cup AlwaysOn
Mapping == [host : Hosts, port : OnDemandPorts \cup {HTTPSPort}, tls : BOOLEAN, up : Upstreams]
Listener == [port : Ports, tls : BOOLEAN]

OneMode(st) ==
  /\ \A m, n \in st : m.port = n.port => m.tls = n.tls
  /\ \A m, n \in st : m.port = n.port /\ m.host = n.host => m = n
  /\ \A m \in st : m.port = HTTPSPort => m.tls

ASSUME ServerAssumption ==
  /\ Mappings \subseteq Mapping
  /\ HTTPSPort # 0
  /\ OnDemandPorts \cap {0, HTTPSPort, HTTPPort} = {}
  /\ Contended \subseteq Ports
  /\ MgmtBind \in BOOLEAN /\ MgmtBindPort \notin Ports /\ (MgmtBindPort # 0 => MgmtBind)
  /\ \A st \in InitialStates : st \subseteq Mapping /\ OneMode(st)
  /\ \A c \in CertSets : c \subseteq Hosts
  /\ \A l \in LoadableSets : l \subseteq Upstreams

Appliers == {"main", "txn"}

VARIABLES
  snap,        \* the published snapshot
  covered,     \* hosts the loaded certificates cover
  loadable,    \* upstreams whose CA loads
  taken,       \* ports another process listens on
  active,      \* Listeners.active
  routes,      \* Server.routes: the live table, and the guard of its dialer
  dialer,      \* Server.dialer: the self-guard of the latest Apply to store one
  degraded,    \* what the latest Apply to return reported
  probeGuard,  \* Tracker.dialer
  targets,     \* Tracker.targets
  pc,          \* where each applier is
  st,          \* the state it applies
  todo,        \* the mappings it has still to route
  table,       \* the routes it has built
  unserved,    \* the mappings it has found not servable
  closing,     \* listeners it has retired that still accept
  started,     \* the first apply is over
  overlap      \* the latest apply to begin, or one since, overlapped the other's

env == <<covered, loadable, taken>>
server == <<active, routes, dialer, degraded>>
tracker == <<probeGuard, targets>>
local == <<st, todo, table, unserved, closing>>
vars == <<snap, env, server, tracker, pc, local, started, overlap>>

Other(a) == CHOOSE b \in Appliers : b # a

SelfPortsOnDemand(s) == {m.port : m \in s}

\* allListenPorts: what the dialer of a state refuses to connect back to, on which
\* management.bind's port is not.
SelfPorts(s) == {m.port : m \in s} \cup AlwaysOn

\* health.IdentitiesFrom
Identities(s) == {m.up : m \in s}

\* DesiredListeners, for the routes of a table.
Desired(t) ==
  {[port |-> m.port, tls |-> m.tls] : m \in {n \in t : n.port \notin AlwaysOn}}
    \cup {[port |-> p, tls |-> p # HTTPPort] : p \in AlwaysOn}

PortsOf(ls) == {l.port : l \in ls}

\* CertResolver.Covers
Covers(h) == h \in covered

\* BuildReverseProxy: the CA an upstream names loads.
Buildable(up) == up \in loadable

Servable(m) == (m.tls => Covers(m.host)) /\ Buildable(m.up)

\* The mappings of the ports that could not be bound leave the table and are
\* reported.
WithoutPorts(t, failed) == {m \in t : m.port \notin failed}
ListenerFailures(s, failed) == {m \in s : m.port \in failed}

\* The ports this process serves: those of the listeners of the proxy, and after the
\* first apply management.bind's.
Accepting == PortsOf(active) \cup (IF started THEN {MgmtBindPort} \ {0} ELSE {})

\* Sockets this process still has open on ports it is giving up.
Retiring == UNION {PortsOf(closing[a]) : a \in Appliers}

Init ==
  /\ snap \in InitialStates
  /\ covered \in CertSets
  /\ loadable \in LoadableSets
  /\ taken \in SUBSET Contended
  /\ active = {}
  /\ routes = [maps |-> {}, guard |-> {}]
  /\ dialer = {} /\ degraded = {}
  /\ probeGuard = {} /\ targets = {}
  /\ pc = [a \in Appliers |-> IF a = "main" THEN "dialer" ELSE "idle"]
  /\ st = [a \in Appliers |-> IF a = "main" THEN snap ELSE {}]
  /\ todo = [a \in Appliers |-> {}]
  /\ table = [a \in Appliers |-> {}]
  /\ unserved = [a \in Appliers |-> {}]
  /\ closing = [a \in Appliers |-> {}]
  /\ started = FALSE
  /\ overlap = FALSE

-----------------------------------------------------------------------------
(* What starts an apply *)

Goto(a, here, there) == pc[a] = here /\ pc' = [pc EXCEPT ![a] = there]

\* An apply that begins alone forgets the overlaps before it.
Begins(a) == overlap' = (pc[Other(a)] # "idle")

\* dispatch serves the management plane on every listener but the redirect one.
Managed == (\E l \in active : l.port # HTTPPort) \/ (MgmtBind /\ started)

\* The states one mutation makes of the snapshot: a mapping put or deleted, or a
\* load balancer deleted with its mappings.
Candidates ==
  {{n \in snap : ~(n.host = m.host /\ n.port = m.port)} \cup {m} : m \in Mappings}
    \cup {snap \ {m} : m \in snap}
    \cup {{m \in snap : m.host # h} : h \in Hosts}

CommitUnchecked ==
  /\ Managed
  /\ Goto("txn", "idle", "dialer")
  /\ snap' \in Candidates
  /\ st' = [st EXCEPT !["txn"] = snap']
  /\ Begins("txn")
  /\ UNCHANGED <<env, server, tracker, todo, table, unserved, closing, started>>

\* txn.Validate, saved and published.
Commit ==
  /\ Managed
  /\ Goto("txn", "idle", "dialer")
  /\ \E s \in Candidates :
       /\ OneMode(s)
       /\ \A m \in s : Servable(m)
       /\ snap' = s
       /\ st' = [st EXCEPT !["txn"] = s]
  /\ Begins("txn")
  /\ UNCHANGED <<env, server, tracker, todo, table, unserved, closing, started>>

\* SIGHUP: the certificates are swapped, or kept when the reload fails.
Reload ==
  /\ started
  /\ Goto("main", "idle", "read")
  /\ covered' \in CertSets
  /\ Begins("main")
  /\ UNCHANGED <<snap, loadable, taken, server, tracker, local, started>>

\* st.Snapshot(), without Manager.mu.
ReadSnapshot ==
  /\ Goto("main", "read", "dialer")
  /\ st' = [st EXCEPT !["main"] = snap]
  /\ UNCHANGED <<snap, env, server, tracker, todo, table, unserved, closing, started, overlap>>

-----------------------------------------------------------------------------
(* applyAndTrack *)

StoreDialer(a) ==
  /\ Goto(a, "dialer", "route")
  /\ dialer' = SelfPorts(st[a])
  /\ todo' = [todo EXCEPT ![a] = st[a]]
  /\ UNCHANGED <<snap, env, active, routes, degraded, tracker, st, table, unserved, closing,
                 started, overlap>>

\* Routes that go live as they are built.
RouteLive(a) ==
  /\ pc[a] = "route"
  /\ \E m \in todo[a] :
       /\ todo' = [todo EXCEPT ![a] = @ \ {m}]
       /\ \/ /\ Servable(m)
             /\ table' = [table EXCEPT ![a] = @ \cup {m}]
             /\ routes' = [routes EXCEPT !.maps = @ \cup {m}]
             /\ UNCHANGED unserved
          \/ /\ ~Servable(m)
             /\ unserved' = [unserved EXCEPT ![a] = @ \cup {m}]
             /\ UNCHANGED <<table, routes>>
  /\ UNCHANGED <<snap, env, active, dialer, degraded, tracker, pc, st, closing, started, overlap>>

\* BuildRoutingTable, one mapping: each looks at the certificates and at the CA
\* directory anew.
Route(a) ==
  /\ pc[a] = "route"
  /\ \E m \in todo[a] :
       /\ todo' = [todo EXCEPT ![a] = @ \ {m}]
       /\ \/ Servable(m) /\ table' = [table EXCEPT ![a] = @ \cup {m}] /\ UNCHANGED unserved
          \/ ~Servable(m) /\ unserved' = [unserved EXCEPT ![a] = @ \cup {m}] /\ UNCHANGED table
  /\ UNCHANGED <<snap, env, server, tracker, pc, st, closing, started, overlap>>

\* Listeners.Reconcile with the listeners `kept` of those that are active: opens
\* what is missing and possible, retires the others, and takes the mappings of the
\* ports that could not be bound out of the table.
ReconcileKeeping(a, kept) ==
  LET desired == Desired(table[a])
      missing == {l \in desired : l.port \notin PortsOf(active)}
      failed  == {l.port : l \in {k \in missing : k.port \in taken \cup Retiring}}
      open    == active \cup {l \in missing : l.port \notin failed}
  IN /\ Goto(a, "route", "close")
     /\ todo[a] = {}
     /\ active' = {l \in open : l.port \in kept}
     /\ closing' = [closing EXCEPT ![a] = {l \in open : l.port \notin kept}]
     /\ table' = [table EXCEPT ![a] = WithoutPorts(@, failed)]
     /\ unserved' = [unserved EXCEPT ![a] = @ \cup ListenerFailures(st[a], failed)]
     /\ UNCHANGED <<snap, env, routes, dialer, degraded, tracker, st, todo, started, overlap>>

\* The lookup by value that the first version of the code had.
ReconcileTLSOnly(a) ==
  ReconcileKeeping(a, AlwaysOn \cup {l.port : l \in {k \in Desired(table[a]) : k.tls}})

ReconcileOpens(a) == ReconcileKeeping(a, Ports)

\* A listener is kept for its port, whatever its mode.
Reconcile(a) == ReconcileKeeping(a, AlwaysOn \cup PortsOf(Desired(table[a])))

\* Listeners.shutdown closes the socket of one retired listener.
CloseListener(a) ==
  /\ pc[a] = "close"
  /\ \E l \in closing[a] : closing' = [closing EXCEPT ![a] = @ \ {l}]
  /\ UNCHANGED <<snap, env, server, tracker, pc, st, todo, table, unserved, started, overlap>>

\* routes.Store, once every retired listener is closed; Apply returns.
StoreRoutes(a) ==
  /\ Goto(a, "close", "probe")
  /\ closing[a] = {}
  /\ routes' = [maps |-> table[a], guard |-> SelfPorts(st[a])]
  /\ degraded' = unserved[a]
  /\ UNCHANGED <<snap, env, active, dialer, tracker, local, started, overlap>>

\* tracker.SetDialer(srv.Dialer())
SetDialer(a) ==
  /\ Goto(a, "probe", "targets")
  /\ probeGuard' = dialer
  /\ UNCHANGED <<snap, env, server, targets, local, started, overlap>>

TargetsOfTable(a) ==
  /\ Goto(a, "targets", "idle")
  /\ targets' = Identities(table[a])
  /\ table' = [table EXCEPT ![a] = {}]
  /\ st' = [st EXCEPT ![a] = {}]
  /\ unserved' = [unserved EXCEPT ![a] = {}]
  /\ started' = (started \/ a = "main")
  /\ UNCHANGED <<snap, env, server, probeGuard, todo, closing, overlap>>

\* tracker.SetTargets; applyAndTrack returns.
SetTargets(a) ==
  /\ Goto(a, "targets", "idle")
  /\ targets' = Identities(st[a])
  /\ table' = [table EXCEPT ![a] = {}]
  /\ st' = [st EXCEPT ![a] = {}]
  /\ unserved' = [unserved EXCEPT ![a] = {}]
  /\ started' = (started \/ a = "main")
  /\ UNCHANGED <<snap, env, server, probeGuard, todo, closing, overlap>>

-----------------------------------------------------------------------------
(* The machine around it *)

\* A file of the CA directory appears, changes or goes.
ChangeCAs ==
  /\ loadable' \in LoadableSets \ {loadable}
  /\ UNCHANGED <<snap, covered, taken, server, tracker, pc, local, started, overlap>>

\* Another process binds or releases a port.
ChangeTaken ==
  /\ \E p \in Contended \ (PortsOf(active) \cup Retiring) :
       taken' = IF p \in taken THEN taken \ {p} ELSE taken \cup {p}
  /\ UNCHANGED <<snap, covered, loadable, server, tracker, pc, local, started, overlap>>

Next ==
  \/ Commit \/ Reload \/ ReadSnapshot
  \/ \E a \in Appliers :
       StoreDialer(a) \/ Route(a) \/ Reconcile(a) \/ CloseListener(a) \/ StoreRoutes(a)
         \/ SetDialer(a) \/ SetTargets(a)
  \/ ChangeCAs \/ ChangeTaken

Spec == Init /\ [][Next]_vars

-----------------------------------------------------------------------------
(* Properties *)

State == {s \in SUBSET Mapping : OneMode(s)}

\* Every variable holds a value of its type; a state has one mapping and one TLS
\* mode where the code needs one, and a port has at most one active listener.
TypeOK ==
  /\ snap \in State /\ st \in [Appliers -> State]
  /\ covered \in CertSets /\ loadable \in LoadableSets /\ taken \subseteq Contended
  /\ active \subseteq Listener /\ \A k, l \in active : k.port = l.port => k = l
  /\ routes \in [maps : State, guard : SUBSET Ports]
  /\ dialer \subseteq Ports /\ probeGuard \subseteq Ports
  /\ degraded \in State /\ targets \subseteq Upstreams
  /\ pc \in [Appliers -> {"idle", "read", "dialer", "route", "close", "probe", "targets"}]
  /\ todo \in [Appliers -> State] /\ table \in [Appliers -> State]
  /\ unserved \in [Appliers -> State]
  /\ closing \in [Appliers -> SUBSET Listener]
  /\ started \in BOOLEAN /\ overlap \in BOOLEAN

Idle == \A a \in Appliers : pc[a] = "idle"

\* The latest apply ran from start to end with no other beside it.  What holds
\* then holds after any sequence of applies, overlapping ones included: one
\* undisturbed apply repairs whatever they left.
Settled == Idle /\ ~overlap

\* Every committed mapping is either routed or reported degraded; a routed one has
\* a listener, and a certificate for its host when it is TLS (server.go:85-114).
ServedOrReported ==
  Settled =>
    /\ routes.maps \cup degraded = snap
    /\ routes.maps \cap degraded = {}
    /\ \A m \in routes.maps :
         m.port \in PortsOf(active) /\ (m.tls => Covers(m.host))

\* No on-demand listener outlives the last route of its port (listeners.go:69-78).
ListenersNeeded ==
  Settled => PortsOf(active) \ AlwaysOn \subseteq {m.port : m \in routes.maps}

\* The dialers of the routes and of the health checker refuse the ports of all listeners
\* of the proxy: no upstream is this proxy itself (server.go:83-84).  Of the ports the
\* process serves that leaves management.bind's, which none of them refuses, since
\* allListenPorts does not know of it (server.go:167-178).
NoProxyLoop ==
  Settled => Accepting \ (routes.guard \cap dialer \cap probeGuard) \subseteq {MgmtBindPort}

\* The health checker probes the upstreams of the snapshot, degraded or not.
HealthFollowsSnapshot == Settled => targets = Identities(snap)

\* A new route is visible only once its port is bound (server.go:109-111), as long
\* as no other apply runs beside the one that stores it.
RoutesFollowListeners ==
  [][~overlap => {m.port : m \in routes'.maps \ routes.maps} \subseteq PortsOf(active)]_vars

\* serve.go:161-162, the dialer and the targets of the health checker "both stay
\* consistent after every change": once no apply is under way, they are those of
\* the published snapshot.
ConsistentAfterEveryChange ==
  Idle => targets = Identities(snap) /\ probeGuard = SelfPorts(snap)

\* design.md:130-132, "listen_tls = false makes it plain HTTP": the listener of a
\* routed mapping has the TLS mode the mapping asks for.
ListenersHaveTheirMode ==
  Settled => \A m \in routes.maps : [port |-> m.port, tls |-> m.tls] \in active
=============================================================================
