------------------------------ MODULE DataPlane ------------------------------
(***************************************************************************)
(* Requests through the data plane, from the handshake to the answer:      *)
(* the certificate (internal/proxy/tls.go), the host (internal/canon), the *)
(* redirect of the plain port (redirect.go) or the dispatch of the others  *)
(* (server.go), the route's reverse proxy and its pool of upstream         *)
(* connections (reverseproxy.go), and the safe dialer (internal/upstream). *)
(* Meanwhile certificates are reloaded, tables applied, names resolve to   *)
(* other addresses, and clients go away.                                   *)
(*                                                                         *)
(* The steps of one Apply, and several at once, are ProxyServer's: here    *)
(* one runs at a time, and it is two steps (build and listen, publish).    *)
(* A port keeps its TLS mode, the CA of every upstream loads, and every    *)
(* port binds.                                                             *)
(***************************************************************************)
EXTENDS Naturals, Sequences

CONSTANTS
  Clients,        \* connections, each with one request at a time
  Hosts,          \* names
  MgmtHost,       \* management_hostname
  Spellings,      \* what the Host header may hold
  HTTPSPort,
  HTTPPort,       \* the redirect port
  BindPorts,      \* the TCP port of management.bind, if it has one
  States,         \* the states an apply is given: sets of mappings
  KeyTypes,       \* the kinds of keys certificates have
  CertLists,      \* the loaded certificates, primary first
  Offers,         \* the kinds of keys a client accepts
  Allowed,        \* upstream hosts the policy accepts by name
  Resolutions,    \* what the resolver may answer: functions to sets of addresses
  Local,          \* loopback addresses and those of this machine
  LinkLocal,      \* denied addresses
  Alive,          \* addresses that accept connections
  NoName,         \* no SNI; a host that is malformed
  NoRoute,
  MaxApplies      \* bound on the applies of a behavior

AlwaysOn == {HTTPSPort, HTTPPort}
Mappings == UNION States
Cert == [names : SUBSET Hosts, key : KeyTypes]
IPs == UNION {r[h] : h \in {m.up.host : m \in Mappings}, r \in Resolutions}

Spelling == [name : Hosts \cup {NoName}, dots : Nat]

ASSUME DataPlaneAssumption ==
  /\ Spellings \subseteq Spelling
  /\ MgmtHost \in Hosts /\ NoName \notin Hosts
  /\ HTTPSPort # HTTPPort
  /\ \A l \in CertLists : l \in Seq(Cert) /\ l # <<>>
  /\ \A o \in Offers : o \subseteq KeyTypes
  /\ BindPorts \cap AlwaysOn = {}
  /\ \A m, n \in Mappings : m.port = n.port => m.tls = n.tls
  /\ \A m \in Mappings : m.host # MgmtHost /\ m.port \notin {HTTPPort} \cup BindPorts
                         /\ (m.port = HTTPSPort => m.tls)
  /\ \A s \in States : \A m, n \in s : m.host = n.host /\ m.port = n.port => m = n
  /\ MaxApplies \in Nat

VARIABLES
  certs,     \* CertResolver.certs
  dns,       \* what the resolver answers now
  open,      \* ports with a listener of the proxy
  table,     \* Server.routes: mappings, guard of their dialer, certificates and
             \* number of the apply that built it
  building,  \* the table an apply has built and not stored yet: at most one
  pool,      \* idle upstream connections, each of the route that dialed it
  client     \* where each client is

vars == <<certs, dns, open, table, building, pool, client>>

NoTable == [maps |-> {}, guard |-> {}, certs |-> <<>>, gen |-> 0]
NewClient ==
  [at |-> "idle", port |-> 0, sni |-> NoName, keys |-> {}, certs |-> <<>>, host |-> NoName,
   route |-> NoRoute, pinned |-> {}, todo |-> {}, ip |-> NoName, gone |-> FALSE,
   out |-> "none"]

Init ==
  /\ certs \in CertLists
  /\ dns \in Resolutions
  /\ open = AlwaysOn
  /\ table = NoTable
  /\ building = {}
  /\ pool = {}
  /\ client = [c \in Clients |-> NewClient]

-----------------------------------------------------------------------------
(* Certificates and hosts *)

\* CertResolver.Covers: VerifyHostname, whatever key the certificate has.
Covers(list, h) == \E i \in DOMAIN list : h \in list[i].names

\* ClientHelloInfo.SupportsCertificate: the name the client gives, if it gives one, is
\* the certificate's, and the client can check signatures of its key.
Supports(cert, sni, keys) == (sni = NoName \/ sni \in cert.names) /\ cert.key \in keys

PrimaryAlways(list, sni, keys) == list[1]

\* GetCertificate: the first that the client supports, and the primary one when there
\* is none.
Selected(list, sni, keys) ==
  IF \E i \in DOMAIN list : Supports(list[i], sni, keys)
    THEN list[CHOOSE i \in DOMAIN list :
                /\ Supports(list[i], sni, keys)
                /\ \A j \in 1 .. i - 1 : ~Supports(list[j], sni, keys)]
    ELSE list[1]

\* canon.Host: one final dot is taken off; what still ends in several is malformed,
\* and what ends in one is another name, of no mapping.
CanonHost(s) ==
  LET left == IF s.dots = 0 THEN 0 ELSE s.dots - 1 IN
  [name |-> IF left > 1 THEN NoName ELSE s.name, dots |-> left]

Speaks(p) == IF p = HTTPSPort \/ \E m \in Mappings : m.port = p /\ m.tls
               THEN "tls" ELSE "plain"

\* What this process listens on; management.bind is none of the proxy's listeners.
Listening == open \cup BindPorts

\* A client connects.  On a TLS port it is shown a certificate, and without one it can
\* check there is no connection.
Connect(c, p, sni, keys) ==
  /\ client[c].at = "idle"
  /\ p \in Listening
  /\ IF Speaks(p) = "tls" THEN Selected(certs, sni, keys).key \in keys ELSE sni = NoName
  /\ client' = [client EXCEPT ![c].at = "connected", ![c].port = p, ![c].sni = sni,
                              ![c].keys = keys, ![c].certs = certs]
  /\ UNCHANGED <<certs, dns, open, table, building, pool>>

-----------------------------------------------------------------------------
(* The answer of a handler *)

Answer(c, out) == client' = [client EXCEPT ![c].at = "done", ![c].out = out]

\* newRedirectHandler, first condition: some certificate covers the host.
RedirectCovered(c, h) ==
  IF Covers(certs, h.name)
    THEN client' = [client EXCEPT ![c].at = "covered", ![c].host = h, ![c].certs = certs]
    ELSE Answer(c, "404")

\* The second: the table that is live by then has a route of that host.
RedirectLookup(c) ==
  /\ client[c].at = "covered"
  /\ IF client[c].host.dots = 0 /\ \E m \in table.maps : m.host = client[c].host.name
       THEN Answer(c, "redirect")
       ELSE Answer(c, "404")
  /\ UNCHANGED <<certs, dns, open, table, building, pool>>

RouteOf(m) == [m |-> m, guard |-> table.guard, certs |-> table.certs, gen |-> table.gen]

\* RoutingTable.Lookup
Lookup(p, h) == {RouteOf(m) : m \in {n \in table.maps : n.port = p /\ n.host = h.name /\ h.dots = 0}}

\* The handler of the listener the client is connected to.  The management plane is all
\* there is on management.bind, and a host of its own on every port but the redirect one.
Dispatch(c, s) ==
  LET h == CanonHost(s)
      found == Lookup(client[c].port, h)
  IN /\ client[c].at = "connected"
     /\ IF client[c].port \in BindPorts THEN Answer(c, "management")
        ELSE IF h.name = NoName THEN Answer(c, "404")
        ELSE IF client[c].port = HTTPPort THEN RedirectCovered(c, h)
        ELSE IF h = [name |-> MgmtHost, dots |-> 0] THEN Answer(c, "management")
        ELSE IF found = {} THEN Answer(c, "404")
        ELSE \E r \in found :
               client' = [client EXCEPT ![c].at = "routed", ![c].host = h, ![c].route = r]
     /\ UNCHANGED <<certs, dns, open, table, building, pool>>

-----------------------------------------------------------------------------
(* The reverse proxy of a route *)

\* The ErrorHandler: a client that is gone is not the upstream's failure; of any
\* other the health tracker hears, and it is answered 502.
Fails(c, why) == IF client[c].gone THEN Answer(c, "gone") ELSE Answer(c, why)

\* Transports are kept from one table to the next.
SameUpstream(r, q) == r.m.up = q.m.up

\* Each route has a transport of its own.
SameTransport(r, q) == r = q

\* The transport takes one of its idle connections.
Reuse(c) ==
  /\ client[c].at = "routed"
  /\ \E k \in pool :
       /\ SameTransport(k.route, client[c].route)
       /\ pool' = pool \ {k}
       /\ client' = [client EXCEPT ![c].at = "forwarding", ![c].ip = k.ip]
  /\ UNCHANGED <<certs, dns, open, table, building>>

\* SelfGuard.isSelf and Policy.CheckDialIP
IsSelf(ip, p, guard) == p \in guard /\ ip \in Local
Denied(ip, p, guard) == ip \in LinkLocal \/ IsSelf(ip, p, guard)

\* One denied address fails the whole dial.
AnyDenied(ips, p, guard) == \E ip \in ips : Denied(ip, p, guard)

\* Dialer.DialContext up to its attempts: the name, its addresses, each of them.
Dial(c) ==
  LET r == client[c].route
      ips == dns[r.m.up.host]
  IN /\ client[c].at = "routed"
     /\ IF r.m.up.host \notin Allowed THEN Fails(c, "refused")
        ELSE IF ips = {} THEN Fails(c, "unresolved")
        ELSE IF AnyDenied(ips, r.m.up.port, r.guard) THEN Fails(c, "refused")
        ELSE client' = [client EXCEPT ![c].at = "dialing", ![c].pinned = ips, ![c].todo = ips]
     /\ UNCHANGED <<certs, dns, open, table, building, pool>>

\* A dialer that leaves the name to the operating system.
AttemptByName(c) ==
  /\ client[c].at = "dialing"
  /\ \E ip \in dns[client[c].route.m.up.host] :
       IF ip \in Alive
         THEN client' = [client EXCEPT ![c].at = "forwarding", ![c].ip = ip]
         ELSE Fails(c, "unreachable")
  /\ UNCHANGED <<certs, dns, open, table, building, pool>>

AttemptOnce(c) ==
  /\ client[c].at = "dialing"
  /\ \E ip \in client[c].todo :
       IF ip \in Alive
         THEN client' = [client EXCEPT ![c].at = "forwarding", ![c].ip = ip]
         ELSE Fails(c, "unreachable")
  /\ UNCHANGED <<certs, dns, open, table, building, pool>>

\* One attempt on a validated address, in the order the resolver gave.
Attempt(c) ==
  /\ client[c].at = "dialing"
  /\ \E ip \in client[c].todo :
       IF ip \in Alive
         THEN client' = [client EXCEPT ![c].at = "forwarding", ![c].ip = ip]
         ELSE IF client[c].todo = {ip} THEN Fails(c, "unreachable")
         ELSE client' = [client EXCEPT ![c].todo = @ \ {ip}]
  /\ UNCHANGED <<certs, dns, open, table, building, pool>>

\* The upstream answers, and the connection may be kept.
Respond(c) ==
  /\ client[c].at = "forwarding"
  /\ Answer(c, "served")
  /\ pool' \in {pool, pool \cup {[route |-> client[c].route, ip |-> client[c].ip]}}
  /\ UNCHANGED <<certs, dns, open, table, building>>

\* The connection breaks before an answer: 502, or another attempt when it was
\* taken from the pool and nothing of the request was read.
Break(c) ==
  /\ client[c].at = "forwarding"
  /\ \/ Fails(c, "broken")
     \/ /\ client[c].pinned = {}
        /\ client' = [client EXCEPT ![c].at = "routed", ![c].ip = NoName]
  /\ UNCHANGED <<certs, dns, open, table, building, pool>>

InProxy(c) == client[c].at \in {"routed", "dialing", "forwarding"}

\* The client goes away, which cancels the context of its request ...
Leave(c) ==
  /\ InProxy(c) /\ ~client[c].gone
  /\ client' = [client EXCEPT ![c].gone = TRUE]
  /\ UNCHANGED <<certs, dns, open, table, building, pool>>

\* ... and fails whatever it waits for.
Cancelled(c) ==
  /\ InProxy(c) /\ client[c].gone
  /\ Fails(c, "cancelled")
  /\ UNCHANGED <<certs, dns, open, table, building, pool>>

FinishKeepsRoute(c) ==
  /\ client[c].at = "done"
  /\ client' = [client EXCEPT ![c] = [NewClient EXCEPT !.route = client[c].route]]
  /\ UNCHANGED <<certs, dns, open, table, building, pool>>

Finish(c) ==
  /\ client[c].at = "done"
  /\ client' = [client EXCEPT ![c] = NewClient]
  /\ UNCHANGED <<certs, dns, open, table, building, pool>>

-----------------------------------------------------------------------------
(* The machine around it *)

\* allListenPorts, and the ports of the routes; management.bind's is in neither.
PortsOf(s) == {m.port : m \in s} \cup AlwaysOn

\* BuildRoutingTable: TLS mappings of hosts no certificate covers are left out.
Routable(s) == {m \in s : m.tls => Covers(certs, m.host)}

\* Server.Apply: the dialer and the table, then the listeners.
ApplyBuild(s) ==
  /\ building = {}
  /\ table.gen < MaxApplies
  /\ building' = {[maps |-> Routable(s), guard |-> PortsOf(s), certs |-> certs,
                   gen |-> table.gen + 1]}
  /\ open' = PortsOf(Routable(s))
  /\ UNCHANGED <<certs, dns, table, pool, client>>

\* routes.Store
ApplyStore ==
  /\ table' \in building
  /\ building' = {}
  /\ UNCHANGED <<certs, dns, open, pool, client>>

\* CertResolver.Reload
Reload ==
  /\ certs' \in CertLists \ {certs}
  /\ UNCHANGED <<dns, open, table, building, pool, client>>

ChangeDNS ==
  /\ dns' \in Resolutions \ {dns}
  /\ UNCHANGED <<certs, open, table, building, pool, client>>

\* An idle connection ends, after IdleConnTimeout or by its upstream.
IdleEnds ==
  /\ \E k \in pool : pool' = pool \ {k}
  /\ UNCHANGED <<certs, dns, open, table, building, client>>

ClientStep(c) ==
  \/ \E p \in Listening, sni \in Hosts \cup {NoName}, keys \in Offers : Connect(c, p, sni, keys)
  \/ \E s \in Spellings : Dispatch(c, s)
  \/ RedirectLookup(c) \/ Reuse(c) \/ Dial(c) \/ Attempt(c) \/ Respond(c) \/ Break(c)
  \/ Leave(c) \/ Cancelled(c) \/ Finish(c)

Next ==
  \/ \E c \in Clients : ClientStep(c)
  \/ (\E s \in States : ApplyBuild(s)) \/ ApplyStore
  \/ Reload \/ ChangeDNS \/ IdleEnds

Spec == Init /\ [][Next]_vars

-----------------------------------------------------------------------------
(* Properties *)

Routes(gens) ==
  {[m |-> m, guard |-> PortsOf(s), certs |-> l, gen |-> g] :
     m \in Mappings, s \in States, l \in CertLists, g \in gens}

\* Every variable holds a value of its type; a client has a route exactly while a
\* reverse proxy has its request, and idle connections are of applied tables.
TypeOK ==
  /\ certs \in CertLists /\ dns \in Resolutions
  /\ AlwaysOn \subseteq open
  /\ \A t \in building : t.gen = table.gen + 1
  /\ \A k \in pool : k.route \in Routes(1 .. table.gen) /\ k.ip \in IPs
  /\ \A c \in Clients :
       LET k == client[c] IN
       /\ k.at \in {"idle", "connected", "covered", "routed", "dialing", "forwarding", "done"}
       /\ k.at \in {"idle", "connected", "covered"} => k.route = NoRoute
       /\ InProxy(c) => k.route \in Routes(1 .. table.gen)
       /\ k.at = "forwarding" => k.ip \in IPs
       /\ k.todo \subseteq k.pinned

\* The address a request is forwarded to was validated, whether it was dialed for
\* this request or taken from the pool, and whatever the name resolves to by now
\* (dialer.go:60-96, its "rebinding window").
OnlyValidatedAddresses ==
  \A c \in Clients : client[c].at = "forwarding" =>
    /\ client[c].ip \notin LinkLocal
    /\ client[c].route.m.up.host \in Allowed

\* While no apply is under way, no request of a live route is forwarded to a listener
\* of the proxy itself: neither one that was open when the connection was dialed, nor
\* one opened since (server.go:83-87, policy.go:41-54).  Of the listeners of the process
\* that leaves management.bind's, which no guard holds (server.go:167-178).
NoSelfConnection ==
  building = {} =>
    \A c \in Clients :
      client[c].at = "forwarding" /\ client[c].route.gen = table.gen
          /\ client[c].ip \in Local /\ client[c].route.m.up.port \in Listening =>
        client[c].route.m.up.port \in BindPorts

\* The client accepts the keys of all certificates of the host.
AcceptsHost(list, h, keys) ==
  \A i \in DOMAIN list : h \in list[i].names => list[i].key \in keys

\* A client that named the host in its handshake, and is routed over TLS, was shown a
\* certificate of that host, and so will be whoever follows a redirect.  What table and
\* redirect ask of the certificates (Covers) and what the handshake gives
\* (GetCertificate) agree in this for every order of the certificates and whatever
\* tables come in between, unless a reload came between the two, or the client does not
\* accept the key of a certificate of the host: Covers does not ask for keys
\* (router.go:65, redirect.go:19, tls.go:52-76).
ClientsTrustTheirHost ==
  \A c \in Clients :
    LET k == client[c] IN
    /\ InProxy(c) /\ k.route.m.tls /\ k.sni = k.route.m.host /\ k.certs = k.route.certs
           /\ AcceptsHost(k.certs, k.sni, k.keys) =>
         k.sni \in Selected(k.certs, k.sni, k.keys).names
    /\ k.out = "redirect" /\ k.certs = certs =>
         \A keys \in Offers :
           AcceptsHost(certs, k.host.name, keys) =>
             k.host.name \in Selected(certs, k.host.name, keys).names

\* The upstream is blamed, to the client and to the health tracker, only for what it
\* did: never for a client that went away, and as unreachable only when none of its
\* addresses accepts a connection (reverseproxy.go:84-99, dialer.go:86-95).
BlameIsDeserved ==
  \A c \in Clients :
    /\ client[c].out \in {"refused", "unresolved", "unreachable", "broken", "cancelled"} =>
         ~client[c].gone
    /\ client[c].out = "unreachable" => client[c].pinned # {} /\ client[c].pinned \cap Alive = {}
=============================================================================
