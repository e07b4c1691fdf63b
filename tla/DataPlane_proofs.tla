--------------------------- MODULE DataPlane_proofs ---------------------------
(***************************************************************************)
(* Proofs about requests through the data plane, for any clients, states,  *)
(* certificates, resolutions and number of applies.                        *)
(***************************************************************************)
EXTENDS DataPlane, WellFoundedInduction, TLAPS

-----------------------------------------------------------------------------
(* The inductive invariant *)

Ports == {m.port : m \in Mappings} \cup AlwaysOn
Outcomes == {"none", "404", "redirect", "management", "served", "gone", "refused",
             "unresolved", "unreachable", "broken", "cancelled"}

\* What is known of a client.
Client ==
  [at : {"idle", "connected", "covered", "routed", "dialing", "forwarding", "done"},
   port : Ports \cup BindPorts \cup {0}, sni : Hosts \cup {NoName},
   keys : Offers \cup {{}}, certs : CertLists \cup {<<>>},
   host : [name : Hosts \cup {NoName}, dots : Nat] \cup {NoName},
   route : Routes(1 .. MaxApplies) \cup {NoRoute}, pinned : SUBSET IPs, todo : SUBSET IPs,
   ip : IPs \cup {NoName}, gone : BOOLEAN, out : Outcomes]

\* A table is what an apply builds of a state and the certificates of the moment.
Built(t) ==
  \E s \in States, l \in CertLists :
    t = [maps |-> {m \in s : m.tls => Covers(l, m.host)}, guard |-> PortsOf(s), certs |-> l,
         gen |-> t.gen]

\* The listeners are within the guard of the table that is about to be stored, and of
\* the one that is.
TablesInv ==
  /\ certs \in CertLists /\ dns \in Resolutions
  /\ AlwaysOn \subseteq open /\ open \subseteq Ports
  /\ table = NoTable \/ (table.gen \in 1 .. MaxApplies /\ Built(table))
  /\ \A t \in building :
       Built(t) /\ t.gen = table.gen + 1 /\ t.gen <= MaxApplies /\ open \subseteq t.guard
  /\ building = {} => table = NoTable \/ open \subseteq table.guard

\* A route comes from a table that was applied; if it is of the live one, it has
\* the guard of that.
RouteOK(r) ==
  /\ r \in Routes(1 .. table.gen)
  /\ r.m.tls => Covers(r.certs, r.m.host)
  /\ r.gen = table.gen => r.guard = table.guard

\* A connection of the route to the address passed the checks of the dialer.
Usable(r, ip) ==
  /\ ip \in IPs /\ r.m.up.host \in Allowed
  /\ ~Denied(ip, r.m.up.port, r.guard)

ProxyAt == {"routed", "dialing", "forwarding"}
Blames == {"refused", "unresolved", "unreachable", "broken", "cancelled"}

ClientOK(k) ==
  /\ k \in Client
  /\ k.at \in {"idle", "connected", "covered"} => k.route = NoRoute
  /\ k.at \in ProxyAt => RouteOK(k.route)
  /\ k.at = "dialing" => /\ k.pinned # {} /\ (k.pinned \ k.todo) \cap Alive = {}
                         /\ \A ip \in k.pinned : Usable(k.route, ip)
  /\ k.at = "forwarding" => Usable(k.route, k.ip)
  /\ k.todo \subseteq k.pinned
  /\ k.at = "covered" \/ k.out = "redirect" =>
       k.certs \in CertLists /\ Covers(k.certs, k.host.name)
  /\ k.at # "done" => k.out = "none"
  /\ k.out \in Blames => ~k.gone
  /\ k.out = "unreachable" => k.pinned # {} /\ k.pinned \cap Alive = {}

Inv ==
  /\ TablesInv
  /\ \A k \in pool : RouteOK(k.route) /\ Usable(k.route, k.ip)
  /\ client \in [Clients -> Client] /\ \A c \in Clients : ClientOK(client[c])

-----------------------------------------------------------------------------
(* Lemmas about the operators *)

\* A set of indices has a least one.
LEMMA LeastIndex ==
  ASSUME NEW T \in SUBSET Nat, T # {}
  PROVE  \E i \in T : \A j \in T : ~(j < i)
<1>1. \E i \in T : \A j \in T : ~(<<j, i>> \in OpToRel(<, Nat))
  BY NatLessThanWellFounded, WFMin
<1>. QED BY <1>1 DEF OpToRel

\* What certificates cover are hosts.
LEMMA CoveredAreHosts == \A list \in CertLists : \A h : Covers(list, h) => h \in Hosts
<1>. SUFFICES ASSUME NEW list \in CertLists, NEW i \in DOMAIN list
              PROVE  list[i].names \subseteq Hosts
  BY DEF Covers
<1>1. list \in Seq(Cert)
  BY DataPlaneAssumption
<1>2. list[i] \in Cert
  BY <1>1
<1>. QED BY <1>2 DEF Cert

\* When some certificate is of the name, and the client accepts the keys of all that are,
\* GetCertificate shows one that is.
LEMMA SelectedCovers ==
  ASSUME NEW list \in CertLists, NEW h \in Hosts, NEW keys,
         Covers(list, h), AcceptsHost(list, h, keys)
  PROVE  h \in Selected(list, h, keys).names
<1>. DEFINE T == {i \in DOMAIN list : Supports(list[i], h, keys)}
            First(i) == /\ Supports(list[i], h, keys)
                        /\ \A j \in 1 .. i - 1 : ~Supports(list[j], h, keys)
<1>1. DOMAIN list = 1 .. Len(list) /\ Len(list) \in Nat
  BY DataPlaneAssumption
<1>2. h # NoName
  BY DataPlaneAssumption
<1>3. T \in SUBSET Nat /\ T # {}
  BY <1>1 DEF Covers, AcceptsHost, Supports
<1>4. PICK i \in T : \A j \in T : ~(j < i)
  BY <1>3, LeastIndex
<1>5. First(i)
  BY <1>1, <1>4
<1>6. First(CHOOSE k \in DOMAIN list : First(k))
  BY <1>4, <1>5
<1>7. Selected(list, h, keys) = list[CHOOSE k \in DOMAIN list : First(k)]
  BY <1>4 DEF Selected
<1>. QED BY <1>2, <1>6, <1>7 DEF Supports

-----------------------------------------------------------------------------
(* One client at a time *)

\* A client that has no route yet, or has just been given one, is sound.
LEMMA ArrivedClient ==
  ASSUME NEW d, ClientOK(d), d.at \in {"idle", "connected"}, NEW k \in Client,
         \/ k.at = "connected" /\ k.route = NoRoute
         \/ k.at = "covered" /\ k.route = NoRoute
              /\ k.certs \in CertLists /\ Covers(k.certs, k.host.name)
         \/ k.at = "routed" /\ RouteOK(k.route),
         k.pinned = d.pinned, k.todo = d.todo, k.out = d.out
  PROVE  ClientOK(k)
BY DEF ClientOK, ProxyAt, Blames

\* A request that stays in the reverse proxy, with its route, is sound when what it
\* dials or is forwarded to passed the checks.
LEMMA ProxiedClient ==
  ASSUME NEW d, ClientOK(d), d.at \in ProxyAt, NEW k \in Client, k.at \in ProxyAt,
         k.route = d.route, k.out = d.out, k.todo \subseteq k.pinned,
         k.at = "dialing" => /\ k.pinned # {} /\ (k.pinned \ k.todo) \cap Alive = {}
                             /\ \A ip \in k.pinned : Usable(k.route, ip),
         k.at = "forwarding" => Usable(k.route, k.ip)
  PROVE  ClientOK(k)
BY DEF ClientOK, ProxyAt, Blames

\* An answer ends the request, and leaves the rest as it is.
LEMMA AnswerFields ==
  ASSUME client \in [Clients -> Client], NEW c \in Clients, NEW out \in Outcomes, Answer(c, out)
  PROVE  /\ client' = [client EXCEPT ![c] = client'[c]] /\ client'[c] \in Client
         /\ client'[c].at = "done" /\ client'[c].out = out
         /\ client'[c].certs = client[c].certs /\ client'[c].host = client[c].host
         /\ client'[c].route = client[c].route /\ client'[c].gone = client[c].gone
         /\ client'[c].pinned = client[c].pinned /\ client'[c].todo = client[c].todo
<1>. DEFINE k == client[c]
            ended == [k EXCEPT !.at = "done", !.out = out]
<1>1. client'[c] = ended /\ client' = [client EXCEPT ![c] = client'[c]]
  BY DEF Answer
<1>2. k \in Client
  OBVIOUS
<1>. HIDE DEF k
<1>3. ended \in Client
  BY <1>2 DEF Client
<1>4. /\ ended.at = "done" /\ ended.out = out
      /\ ended.certs = k.certs /\ ended.host = k.host /\ ended.route = k.route
      /\ ended.gone = k.gone /\ ended.pinned = k.pinned /\ ended.todo = k.todo
  BY <1>2 DEF Client
<1>. QED BY <1>1, <1>3, <1>4 DEF k

\* A step of one client, from one sound state to another, keeps the invariant.
LEMMA OneClient ==
  ASSUME Inv, NEW c \in Clients, NEW k, client' = [client EXCEPT ![c] = k], ClientOK(k),
         UNCHANGED <<certs, dns, open, table, building>>,
         \A q \in pool' : RouteOK(q.route) /\ Usable(q.route, q.ip)
  PROVE  Inv'
<1>1. TablesInv'
  BY DEF Inv, TablesInv, Built
<1>2. \A q : RouteOK(q)' = RouteOK(q)
  BY DEF RouteOK
<1>3. \A d : ClientOK(d)' = ClientOK(d)
  BY <1>2 DEF ClientOK
<1>4. \A d \in Clients : ClientOK(client'[d])
  BY DEF Inv
<1>5. client' \in [Clients -> Client]
  BY DEF Inv, ClientOK
<1>. QED BY <1>1, <1>2, <1>3, <1>4, <1>5 DEF Inv

\* A request that is not answered yet ends with an answer it deserves.
LEMMA AnswerInv ==
  ASSUME Inv, NEW c \in Clients, NEW out \in Outcomes, Answer(c, out),
         UNCHANGED <<certs, dns, open, table, building>>, pool' = pool,
         out \in Blames => ~client[c].gone,
         out = "unreachable" => client[c].pinned # {} /\ client[c].pinned \cap Alive = {},
         out = "redirect" => client[c].at = "covered"
  PROVE  Inv'
<1>1. client \in [Clients -> Client] /\ ClientOK(client[c])
  BY DEF Inv
<1>2. /\ client' = [client EXCEPT ![c] = client'[c]] /\ client'[c] \in Client
      /\ client'[c].at = "done" /\ client'[c].out = out
      /\ client'[c].certs = client[c].certs /\ client'[c].host = client[c].host
      /\ client'[c].route = client[c].route /\ client'[c].gone = client[c].gone
      /\ client'[c].pinned = client[c].pinned /\ client'[c].todo = client[c].todo
  BY <1>1, AnswerFields
<1>3. ClientOK(client'[c])
  BY <1>1, <1>2 DEF ClientOK, ProxyAt
<1>. QED BY <1>2, <1>3, OneClient DEF Inv

\* So does one that fails, whether the client is gone or its upstream is to blame.
LEMMA FailsInv ==
  ASSUME Inv, NEW c \in Clients, NEW why \in Blames, Fails(c, why),
         UNCHANGED <<certs, dns, open, table, building>>, pool' = pool,
         why = "unreachable" => client[c].pinned # {} /\ client[c].pinned \cap Alive = {}
  PROVE  Inv'
BY AnswerInv DEF Fails, Blames, Outcomes

\* Up to its dispatch: a client connects, is redirected, or is given its route.
LEMMA ArrivesInv ==
  ASSUME Inv, NEW c \in Clients,
         \/ \E p \in Listening, sni \in Hosts \cup {NoName}, keys \in Offers :
              Connect(c, p, sni, keys)
         \/ \E s \in Spellings : Dispatch(c, s)
         \/ RedirectLookup(c)
  PROVE  Inv'
<1>1. client \in [Clients -> Client] /\ client[c] \in Client /\ ClientOK(client[c])
  BY DEF Inv
<1>2. ASSUME NEW p \in Listening, NEW sni \in Hosts \cup {NoName}, NEW keys \in Offers,
             Connect(c, p, sni, keys)
      PROVE  Inv'
  <2>. DEFINE k == client'[c]
  <2>1. p \in Ports \cup BindPorts /\ certs \in CertLists
    BY DEF Inv, TablesInv, Listening
  <2>2. /\ client' = [client EXCEPT ![c] = k] /\ k \in Client
        /\ k.at = "connected" /\ k.route = client[c].route /\ k.pinned = client[c].pinned
        /\ k.todo = client[c].todo /\ k.out = client[c].out /\ k.gone = client[c].gone
    <3>. DEFINE d == client[c]
    <3>1. /\ client' = [client EXCEPT ![c] = k]
          /\ k = [d EXCEPT !.at = "connected", !.port = p, !.sni = sni, !.keys = keys,
                           !.certs = certs]
      BY <1>1, <1>2 DEF Connect
    <3>2. d \in Client
      BY <1>1
    <3>. HIDE DEF d, k
    <3>3. k \in Client
      BY <2>1, <3>1, <3>2 DEF Client
    <3>4. /\ k.at = "connected" /\ k.route = d.route /\ k.pinned = d.pinned
          /\ k.todo = d.todo /\ k.out = d.out /\ k.gone = d.gone
      BY <3>1, <3>2 DEF Client
    <3>. QED BY <3>1, <3>3, <3>4 DEF d
  <2>. HIDE DEF k
  <2>3. client[c].at = "idle" /\ client[c].route = NoRoute
    BY <1>1, <1>2 DEF Connect, ClientOK
  <2>4. ClientOK(k)
    BY <1>1, <2>2, <2>3, ArrivedClient
  <2>. QED BY <1>2, <2>2, <2>4, OneClient DEF Connect, Inv
<1>3. CASE RedirectLookup(c)
  BY <1>3, AnswerInv DEF RedirectLookup, Outcomes, Blames
<1>4. ASSUME NEW s \in Spellings, Dispatch(c, s) PROVE Inv'
  <2>. DEFINE h == CanonHost(s)
              found == Lookup(client[c].port, h)
              k == client'[c]
  <2>1. h \in [name : Hosts \cup {NoName}, dots : Nat]
    BY DataPlaneAssumption DEF CanonHost, Spelling
  <2>. HIDE DEF h
  <2>2. CASE \E out \in {"404", "management"} : Answer(c, out)
    BY <1>4, <2>2, AnswerInv DEF Dispatch, Outcomes, Blames
  <2>3. CASE /\ Covers(certs, h.name)
             /\ client' = [client EXCEPT ![c].at = "covered", ![c].host = h, ![c].certs = certs]
    <3>1. certs \in CertLists
      BY DEF Inv, TablesInv
    <3>2. /\ client' = [client EXCEPT ![c] = k] /\ k \in Client
          /\ k.at = "covered" /\ k.route = client[c].route /\ k.pinned = client[c].pinned
          /\ k.todo = client[c].todo /\ k.out = client[c].out /\ k.gone = client[c].gone
          /\ k.certs = certs /\ k.host = h
      <4>. DEFINE d == client[c]
      <4>1. client' = [client EXCEPT ![c] = k] /\ k = [d EXCEPT !.at = "covered", !.host = h, !.certs = certs]
        BY <1>1, <2>3
      <4>2. d \in Client
        BY <1>1
      <4>. HIDE DEF d, k
      <4>3. /\ k \in Client /\ k.at = "covered" /\ k.pinned = d.pinned /\ k.todo = d.todo
            /\ k.out = d.out /\ k.gone = d.gone
            /\ k.route = d.route /\ k.certs = certs /\ k.host = h
        BY <2>1, <3>1, <4>1, <4>2 DEF Client
      <4>. QED BY <4>1, <4>3 DEF d
    <3>. HIDE DEF k
    <3>3. client[c].at = "connected" /\ client[c].route = NoRoute
      BY <1>1, <1>4 DEF Dispatch, ClientOK
    <3>4. ClientOK(k)
      BY <1>1, <2>3, <3>1, <3>2, <3>3, ArrivedClient
    <3>. QED BY <1>4, <3>2, <3>4, OneClient DEF Dispatch, Inv
  <2>4. ASSUME NEW r \in found,
               client' = [client EXCEPT ![c].at = "routed", ![c].host = h, ![c].route = r]
        PROVE  Inv'
    <3>1. PICK m \in table.maps : r = RouteOf(m)
      BY DEF Lookup
    <3>2. table # NoTable
      BY <3>1 DEF NoTable
    <3>3. PICK st \in States, l \in CertLists :
            table = [maps |-> {n \in st : n.tls => Covers(l, n.host)}, guard |-> PortsOf(st),
                     certs |-> l, gen |-> table.gen]
      BY <3>2 DEF Inv, TablesInv, Built
    <3>4. table.gen \in 1 .. MaxApplies /\ MaxApplies \in Nat
      BY <3>2, DataPlaneAssumption DEF Inv, TablesInv
    <3>5. m \in Mappings /\ (m.tls => Covers(l, m.host))
      BY <3>1, <3>3 DEF Mappings
    <3>6. r = [m |-> m, guard |-> PortsOf(st), certs |-> l, gen |-> table.gen]
          /\ table.guard = PortsOf(st)
      BY <3>1, <3>3 DEF RouteOf
    <3>7. r \in Routes(1 .. table.gen) /\ r \in Routes(1 .. MaxApplies)
      BY <3>4, <3>5, <3>6 DEF Routes
    <3>8. RouteOK(r)
      BY <3>5, <3>6, <3>7 DEF RouteOK
    <3>9. /\ client' = [client EXCEPT ![c] = k] /\ k \in Client
          /\ k.at = "routed" /\ k.route = r /\ k.pinned = client[c].pinned
          /\ k.todo = client[c].todo /\ k.out = client[c].out /\ k.gone = client[c].gone
      <4>. DEFINE d == client[c]
      <4>1. client' = [client EXCEPT ![c] = k] /\ k = [d EXCEPT !.at = "routed", !.host = h, !.route = r]
        BY <1>1, <2>4
      <4>2. d \in Client
        BY <1>1
      <4>. HIDE DEF d, k
      <4>3. /\ k \in Client /\ k.at = "routed" /\ k.pinned = d.pinned /\ k.todo = d.todo
            /\ k.out = d.out /\ k.gone = d.gone /\ k.route = r
        BY <2>1, <3>7, <4>1, <4>2 DEF Client
      <4>. QED BY <4>1, <4>3 DEF d
    <3>. HIDE DEF k
    <3>10. client[c].at = "connected"
      BY <1>4 DEF Dispatch
    <3>11. ClientOK(k)
      BY <1>1, <3>8, <3>9, <3>10, ArrivedClient
    <3>. QED BY <1>4, <3>9, <3>11, OneClient DEF Dispatch, Inv
  <2>. QED BY <1>4, <2>2, <2>3, <2>4 DEF Dispatch, RedirectCovered, h
<1>. QED BY <1>2, <1>3, <1>4

\* A route is of a mapping.
LEMMA RouteMapped ==
  ASSUME NEW r, RouteOK(r)
  PROVE  r.m \in Mappings
BY DEF RouteOK, Routes

\* In the reverse proxy: what is dialed passed the checks with the guard of its
\* route, and what is tried next was dialed or kept.
LEMMA ProxyInv ==
  ASSUME Inv, NEW c \in Clients,
         Reuse(c) \/ Dial(c) \/ Attempt(c) \/ Respond(c) \/ Break(c) \/ Cancelled(c)
  PROVE  Inv'
<1>. DEFINE k == client'[c]
            r == client[c].route
<1>1. client \in [Clients -> Client] /\ client[c] \in Client /\ ClientOK(client[c])
      /\ \A q \in pool : RouteOK(q.route) /\ Usable(q.route, q.ip)
  BY DEF Inv
<1>2. CASE Reuse(c)
  <2>1. PICK q \in pool :
          /\ SameTransport(q.route, r) /\ pool' = pool \ {q}
          /\ client' = [client EXCEPT ![c].at = "forwarding", ![c].ip = q.ip]
    BY <1>2 DEF Reuse
  <2>2. RouteOK(r) /\ Usable(r, q.ip) /\ q.ip \in IPs
    BY <1>1, <2>1 DEF SameTransport, Usable
  <2>3. /\ client' = [client EXCEPT ![c] = k] /\ k \in Client
        /\ k.at = "forwarding" /\ k.ip = q.ip /\ k.route = r
        /\ k.pinned = client[c].pinned /\ k.todo = client[c].todo
        /\ k.out = client[c].out /\ k.gone = client[c].gone
    <3>. DEFINE d == client[c]
    <3>1. /\ client' = [client EXCEPT ![c] = k]
          /\ k = [d EXCEPT !.at = "forwarding", !.ip = q.ip]
      BY <1>1, <2>1
    <3>2. d \in Client
      BY <1>1
    <3>. HIDE DEF d, k
    <3>3. k \in Client
      BY <2>2, <3>1, <3>2 DEF Client
    <3>4. /\ k.at = "forwarding" /\ k.ip = q.ip /\ k.route = d.route
          /\ k.pinned = d.pinned /\ k.todo = d.todo /\ k.out = d.out /\ k.gone = d.gone
      BY <3>1, <3>2 DEF Client
    <3>. QED BY <3>1, <3>3, <3>4 DEF d
  <2>. HIDE DEF k
  <2>4. ClientOK(k)
    <3>1. client[c].at = "routed" /\ client[c].todo \subseteq client[c].pinned
      BY <1>1, <1>2 DEF Reuse, ClientOK
    <3>. QED BY <1>1, <2>2, <2>3, <3>1, ProxiedClient DEF ProxyAt
  <2>. QED BY <1>1, <1>2, <2>1, <2>3, <2>4, OneClient DEF Reuse
<1>3. CASE Dial(c)
  <2>. DEFINE ips == dns[r.m.up.host]
  <2>1. CASE \E why \in {"refused", "unresolved"} : Fails(c, why)
    BY <1>3, <2>1, FailsInv DEF Dial, Blames
  <2>2. CASE /\ r.m.up.host \in Allowed /\ ips # {} /\ ~AnyDenied(ips, r.m.up.port, r.guard)
             /\ client' = [client EXCEPT ![c].at = "dialing", ![c].pinned = ips, ![c].todo = ips]
    <3>1. RouteOK(r) /\ r.m \in Mappings
      <4>1. client[c].at = "routed"
        BY <1>3 DEF Dial
      <4>2. RouteOK(r)
        BY <1>1, <4>1 DEF ClientOK, ProxyAt
      <4>. QED BY <4>2, RouteMapped
    <3>2. ips \subseteq IPs
      BY <3>1 DEF Inv, TablesInv, IPs
    <3>3. \A ip \in ips : Usable(r, ip)
      BY <2>2, <3>2 DEF Usable, AnyDenied
    <3>4. /\ client' = [client EXCEPT ![c] = k] /\ k \in Client
          /\ k.at = "dialing" /\ k.route = r /\ k.pinned = ips /\ k.todo = ips
          /\ k.out = client[c].out /\ k.gone = client[c].gone
      <4>. DEFINE d == client[c]
      <4>1. client' = [client EXCEPT ![c] = k] /\ k = [d EXCEPT !.at = "dialing", !.pinned = ips, !.todo = ips]
        BY <1>1, <2>2
      <4>2. d \in Client
        BY <1>1
      <4>. HIDE DEF d, k
      <4>3. k \in Client
        BY <3>2, <4>1, <4>2 DEF Client
      <4>4. /\ k.at = "dialing" /\ k.route = d.route /\ k.pinned = ips /\ k.todo = ips
           /\ k.out = d.out /\ k.gone = d.gone
        BY <4>1, <4>2 DEF Client
      <4>. QED BY <4>1, <4>3, <4>4 DEF d
    <3>. HIDE DEF k
    <3>5. client[c].at \in ProxyAt
      BY <1>3 DEF Dial, ProxyAt
    <3>6. /\ k.at \in ProxyAt /\ k.todo \subseteq k.pinned
          /\ k.pinned # {} /\ (k.pinned \ k.todo) \cap Alive = {}
          /\ \A ip \in k.pinned : Usable(k.route, ip)
      BY <2>2, <3>3, <3>4 DEF ProxyAt
    <3>. HIDE DEF ips
    <3>7. ClientOK(k)
      BY <1>1, <3>4, <3>5, <3>6, ProxiedClient
    <3>. QED BY <1>1, <1>3, <3>4, <3>7, OneClient DEF Dial
  <2>. QED BY <1>3, <2>1, <2>2 DEF Dial
<1>4. CASE Attempt(c)
  <2>1. PICK ip \in client[c].todo :
          IF ip \in Alive
            THEN client' = [client EXCEPT ![c].at = "forwarding", ![c].ip = ip]
            ELSE IF client[c].todo = {ip} THEN Fails(c, "unreachable")
            ELSE client' = [client EXCEPT ![c].todo = client[c].todo \ {ip}]
    BY <1>1, <1>4 DEF Attempt
  <2>2. /\ RouteOK(r) /\ Usable(r, ip) /\ ip \in IPs
        /\ client[c].pinned # {} /\ (client[c].pinned \ client[c].todo) \cap Alive = {}
        /\ client[c].todo \subseteq client[c].pinned
    BY <1>1, <1>4 DEF Attempt, ClientOK, ProxyAt, Usable
  <2>3. CASE ip \in Alive
    <3>1. /\ client' = [client EXCEPT ![c] = k] /\ k \in Client
          /\ k.at = "forwarding" /\ k.ip = ip /\ k.route = r
          /\ k.pinned = client[c].pinned /\ k.todo = client[c].todo
          /\ k.out = client[c].out /\ k.gone = client[c].gone
      <4>. DEFINE d == client[c]
      <4>1. client' = [client EXCEPT ![c] = k] /\ k = [d EXCEPT !.at = "forwarding", !.ip = ip]
        BY <1>1, <2>1, <2>3
      <4>2. d \in Client
        BY <1>1
      <4>. HIDE DEF d, k
      <4>3. k \in Client
        BY <2>2, <4>1, <4>2 DEF Client
      <4>4. /\ k.at = "forwarding" /\ k.ip = ip /\ k.route = d.route
           /\ k.pinned = d.pinned /\ k.todo = d.todo /\ k.out = d.out /\ k.gone = d.gone
        BY <4>1, <4>2 DEF Client
      <4>. QED BY <4>1, <4>3, <4>4 DEF d
    <3>. HIDE DEF k
    <3>2. ClientOK(k)
      BY <1>1, <1>4, <2>2, <3>1, ProxiedClient DEF ProxyAt, Attempt
    <3>. QED BY <1>1, <1>4, <3>1, <3>2, OneClient DEF Attempt
  <2>4. CASE ip \notin Alive /\ client[c].todo = {ip}
    <3>1. client[c].pinned \cap Alive = {}
      BY <2>2, <2>4
    <3>. QED BY <1>4, <2>1, <2>2, <2>4, <3>1, FailsInv DEF Attempt, Blames
  <2>5. CASE ip \notin Alive /\ client[c].todo # {ip}
    <3>1. client' = [client EXCEPT ![c].todo = client[c].todo \ {ip}]
      BY <2>1, <2>5
    <3>2. /\ client' = [client EXCEPT ![c] = k] /\ k \in Client
          /\ k.at = client[c].at /\ k.route = r /\ k.todo = client[c].todo \ {ip}
          /\ k.pinned = client[c].pinned /\ k.out = client[c].out /\ k.gone = client[c].gone
      <4>. DEFINE d == client[c]
      <4>1. client' = [client EXCEPT ![c] = k] /\ k = [d EXCEPT !.todo = d.todo \ {ip}]
        BY <1>1, <3>1
      <4>2. d \in Client
        BY <1>1
      <4>. HIDE DEF d, k
      <4>3. k \in Client
        BY <4>1, <4>2 DEF Client
      <4>4. /\ k.at = d.at /\ k.route = d.route /\ k.todo = d.todo \ {ip}
           /\ k.pinned = d.pinned /\ k.out = d.out /\ k.gone = d.gone
        BY <4>1, <4>2 DEF Client
      <4>. QED BY <4>1, <4>3, <4>4 DEF d
    <3>. HIDE DEF k
    <3>3. /\ k.at = "dialing" /\ k.pinned # {} /\ k.todo \subseteq k.pinned
          /\ (k.pinned \ k.todo) \cap Alive = {}
      BY <1>4, <2>2, <2>5, <3>2 DEF Attempt
    <3>4. \A i \in k.pinned : Usable(k.route, i)
      BY <1>1, <1>4, <3>2 DEF Attempt, ClientOK
    <3>5. ClientOK(k)
      BY <1>1, <1>4, <3>2, <3>3, <3>4, ProxiedClient DEF ProxyAt, Attempt
    <3>. QED BY <1>1, <1>4, <3>2, <3>5, OneClient DEF Attempt
  <2>. QED BY <2>3, <2>4, <2>5
<1>5. CASE Respond(c)
  <2>1. Answer(c, "served") /\ "served" \in Outcomes
    BY <1>5 DEF Respond, Outcomes
  <2>2. /\ client' = [client EXCEPT ![c] = k] /\ k \in Client
        /\ k.at = "done" /\ k.out = "served" /\ k.pinned = client[c].pinned
        /\ k.todo = client[c].todo
    BY <1>1, <2>1, AnswerFields
  <2>3. ClientOK(k)
    BY <1>1, <2>2 DEF ClientOK, ProxyAt, Blames
  <2>4. RouteOK(r) /\ Usable(r, client[c].ip)
    BY <1>1, <1>5 DEF ClientOK, ProxyAt, Respond
  <2>5. \A q \in pool' : RouteOK(q.route) /\ Usable(q.route, q.ip)
    BY <1>1, <1>5, <2>4 DEF Respond
  <2>. HIDE DEF k
  <2>. QED BY <1>5, <2>2, <2>3, <2>5, OneClient DEF Respond
<1>6. CASE Break(c)
  <2>1. CASE Fails(c, "broken")
    BY <1>6, <2>1, FailsInv DEF Break, Blames
  <2>2. CASE client' = [client EXCEPT ![c].at = "routed", ![c].ip = NoName]
    <3>1. /\ client' = [client EXCEPT ![c] = k] /\ k \in Client
          /\ k.at = "routed" /\ k.route = r
          /\ k.pinned = client[c].pinned /\ k.todo = client[c].todo
          /\ k.out = client[c].out /\ k.gone = client[c].gone
      <4>. DEFINE d == client[c]
      <4>1. client' = [client EXCEPT ![c] = k] /\ k = [d EXCEPT !.at = "routed", !.ip = NoName]
        BY <1>1, <2>2
      <4>2. d \in Client
        BY <1>1
      <4>. HIDE DEF d, k
      <4>3. k \in Client
        BY <4>1, <4>2 DEF Client
      <4>4. /\ k.at = "routed" /\ k.route = d.route
           /\ k.pinned = d.pinned /\ k.todo = d.todo /\ k.out = d.out /\ k.gone = d.gone
        BY <4>1, <4>2 DEF Client
      <4>. QED BY <4>1, <4>3, <4>4 DEF d
    <3>. HIDE DEF k
    <3>2. client[c].at = "forwarding" /\ client[c].todo \subseteq client[c].pinned
      BY <1>1, <1>6 DEF Break, ClientOK
    <3>3. ClientOK(k)
      BY <1>1, <3>1, <3>2, ProxiedClient DEF ProxyAt
    <3>. QED BY <1>1, <1>6, <3>1, <3>3, OneClient DEF Break
  <2>. QED BY <1>6, <2>1, <2>2 DEF Break
<1>7. CASE Cancelled(c)
  BY <1>7, FailsInv DEF Cancelled, Blames
<1>. QED BY <1>2, <1>3, <1>4, <1>5, <1>6, <1>7

\* A client goes away, or begins anew.
LEMMA LeaveFinishInv ==
  ASSUME Inv, NEW c \in Clients, Leave(c) \/ Finish(c)
  PROVE  Inv'
<1>. DEFINE k == client'[c]
<1>1. client \in [Clients -> Client] /\ client[c] \in Client /\ ClientOK(client[c])
      /\ \A q \in pool : RouteOK(q.route) /\ Usable(q.route, q.ip)
  BY DEF Inv
<1>2. CASE Leave(c)
  <2>1. /\ client' = [client EXCEPT ![c] = k] /\ k \in Client
        /\ k.at = client[c].at /\ k.route = client[c].route /\ k.ip = client[c].ip
        /\ k.pinned = client[c].pinned /\ k.todo = client[c].todo
        /\ k.out = client[c].out /\ k.certs = client[c].certs /\ k.host = client[c].host
    <3>. DEFINE d == client[c]
    <3>1. client' = [client EXCEPT ![c] = k] /\ k = [d EXCEPT !.gone = TRUE]
      BY <1>1, <1>2 DEF Leave
    <3>2. d \in Client
      BY <1>1
    <3>. HIDE DEF d, k
    <3>3. k \in Client
      BY <3>1, <3>2 DEF Client
    <3>4. /\ k.at = d.at /\ k.route = d.route /\ k.ip = d.ip /\ k.pinned = d.pinned
         /\ k.todo = d.todo /\ k.out = d.out /\ k.certs = d.certs /\ k.host = d.host
      BY <3>1, <3>2 DEF Client
    <3>. QED BY <3>1, <3>3, <3>4 DEF d
  <2>. HIDE DEF k
  <2>2. client[c].at \in ProxyAt
    BY <1>2 DEF Leave, InProxy, ProxyAt
  <2>3. /\ k.at = "dialing" => /\ k.pinned # {} /\ (k.pinned \ k.todo) \cap Alive = {}
                              /\ \A i \in k.pinned : Usable(k.route, i)
        /\ k.at = "forwarding" => Usable(k.route, k.ip)
        /\ k.todo \subseteq k.pinned
    BY <1>1, <2>1 DEF ClientOK
  <2>4. ClientOK(k)
    BY <1>1, <2>1, <2>2, <2>3, ProxiedClient
  <2>. QED BY <1>1, <1>2, <2>1, <2>4, OneClient DEF Leave
<1>3. CASE Finish(c)
  <2>1. NewClient \in Client
    BY DEF NewClient, Client, Outcomes
  <2>2. ClientOK(NewClient)
    BY <2>1 DEF ClientOK, NewClient, ProxyAt, Blames
  <2>. QED BY <1>1, <1>3, <2>2, OneClient DEF Finish
<1>. QED BY <1>2, <1>3

-----------------------------------------------------------------------------
(* The machine around the clients *)

\* The invariant holds when the server starts.
LEMMA InitInv == Init => Inv
<1>. SUFFICES ASSUME Init PROVE Inv
  OBVIOUS
<1>. USE DEF Init
<1>1. TablesInv
  BY DEF TablesInv, Ports
<1>2. NewClient \in Client
  BY DEF NewClient, Client, Outcomes
<1>3. ClientOK(NewClient)
  BY <1>2 DEF ClientOK, NewClient, ProxyAt, Blames
<1>. QED BY <1>1, <1>2, <1>3 DEF Inv

\* A route stays sound when the table is replaced by a later one.
LEMMA RoutesOutliveTables ==
  ASSUME TablesInv, table' = table \/ (table'.gen = table.gen + 1)
  PROVE  \A r : RouteOK(r) => RouteOK(r)'
<1>1. table.gen \in Nat
  BY DataPlaneAssumption DEF TablesInv, NoTable
<1>2. CASE table' = table
  BY <1>2 DEF RouteOK
<1>3. CASE table'.gen = table.gen + 1
  <2>. SUFFICES ASSUME NEW r, RouteOK(r) PROVE RouteOK(r)'
    OBVIOUS
  <2>1. r.gen \in 1 .. table.gen /\ r \in Routes(1 .. table.gen + 1)
    BY <1>1 DEF RouteOK, Routes
  <2>2. r.gen # table'.gen
    BY <1>1, <1>3, <2>1
  <2>. QED BY <1>3, <2>1, <2>2 DEF RouteOK
<1>. QED BY <1>2, <1>3

\* A step that leaves the clients alone, and drops pooled connections at most.
LEMMA MachineInv ==
  ASSUME Inv, TablesInv', client' = client, pool' \subseteq pool,
         table' = table \/ (table'.gen = table.gen + 1)
  PROVE  Inv'
<1>1. \A r : RouteOK(r) => RouteOK(r)'
  BY RoutesOutliveTables DEF Inv
<1>2. \A k : ClientOK(k) => ClientOK(k)'
  BY <1>1 DEF ClientOK
<1>. QED BY <1>1, <1>2 DEF Inv

\* Every step keeps the invariant.
LEMMA NextInv == Inv /\ [Next]_vars => Inv'
<1>. SUFFICES ASSUME Inv, [Next]_vars PROVE Inv'
  OBVIOUS
<1>1. ASSUME NEW c \in Clients, ClientStep(c) PROVE Inv'
  BY <1>1, ArrivesInv, ProxyInv, LeaveFinishInv DEF ClientStep
<1>2. ASSUME NEW s \in States, ApplyBuild(s) PROVE Inv'
  <2>. DEFINE t == [maps |-> Routable(s), guard |-> PortsOf(s), certs |-> certs,
                    gen |-> table.gen + 1]
  <2>1. /\ building' = {t} /\ open' = PortsOf(Routable(s))
        /\ UNCHANGED <<certs, dns, table, pool, client>> /\ table.gen < MaxApplies
    BY <1>2 DEF ApplyBuild
  <2>2. /\ certs \in CertLists /\ table.gen \in Nat
    BY DataPlaneAssumption DEF Inv, TablesInv, NoTable
  <2>3. t.gen = table.gen + 1 /\ t.gen <= MaxApplies /\ t.guard = PortsOf(s)
    BY <2>1, <2>2, DataPlaneAssumption
  <2>4. Built(t)
    BY <2>2 DEF Built, Routable
  <2>5. /\ PortsOf(Routable(s)) \subseteq PortsOf(s)
        /\ AlwaysOn \subseteq PortsOf(Routable(s)) /\ PortsOf(s) \subseteq Ports
    BY DEF PortsOf, Routable, Ports, Mappings
  <2>. HIDE DEF t
  <2>6. TablesInv'
    BY <2>1, <2>3, <2>4, <2>5 DEF Inv, TablesInv, Built
  <2>. QED BY <2>1, <2>6, MachineInv
<1>3. CASE ApplyStore
  <2>1. /\ table' \in building /\ building' = {}
        /\ UNCHANGED <<certs, dns, open, pool, client>>
    BY <1>3 DEF ApplyStore
  <2>2. /\ Built(table') /\ table'.gen = table.gen + 1 /\ table'.gen <= MaxApplies
        /\ open \subseteq table'.guard /\ table.gen \in Nat
    BY <2>1, DataPlaneAssumption DEF Inv, TablesInv, NoTable
  <2>3. table'.gen \in 1 .. MaxApplies
    BY <2>2, DataPlaneAssumption
  <2>4. Built(table)'
    BY <2>2 DEF Built
  <2>5. TablesInv'
    BY <2>1, <2>2, <2>3, <2>4 DEF Inv, TablesInv
  <2>. QED BY <2>1, <2>2, <2>5, MachineInv
<1>4. CASE Reload
  BY <1>4, MachineInv DEF Reload, Inv, TablesInv, Built
<1>5. CASE ChangeDNS
  BY <1>5, MachineInv DEF ChangeDNS, Inv, TablesInv, Built
<1>6. CASE IdleEnds
  BY <1>6, MachineInv DEF IdleEnds, Inv, TablesInv, Built
<1>7. CASE UNCHANGED vars
  BY <1>7, MachineInv DEF vars, Inv, TablesInv, Built
<1>. QED BY <1>1, <1>2, <1>3, <1>4, <1>5, <1>6, <1>7 DEF Next

-----------------------------------------------------------------------------
(* The theorems *)

\* The invariant holds of every behaviour.
THEOREM InvariantHolds == Spec => []Inv
BY InitInv, NextInv, PTL DEF Spec

\* A client has a route exactly while a reverse proxy has its request, and routes and
\* idle connections are of tables that were applied (server.go:83-113).
THEOREM TypeCorrect == Spec => []TypeOK
<1>1. ASSUME Inv PROVE TypeOK
  <2>1. /\ certs \in CertLists /\ dns \in Resolutions /\ AlwaysOn \subseteq open
        /\ \A t \in building : t.gen = table.gen + 1
    BY <1>1 DEF Inv, TablesInv
  <2>2. \A k \in pool : k.route \in Routes(1 .. table.gen) /\ k.ip \in IPs
    BY <1>1 DEF Inv, RouteOK, Usable
  <2>. SUFFICES ASSUME NEW c \in Clients
                PROVE  LET k == client[c] IN
       /\ k.at \in {"idle", "connected", "covered", "routed", "dialing", "forwarding", "done"}
       /\ k.at \in {"idle", "connected", "covered"} => k.route = NoRoute
       /\ InProxy(c) => k.route \in Routes(1 .. table.gen)
       /\ k.at = "forwarding" => k.ip \in IPs
       /\ k.todo \subseteq k.pinned
    BY <2>1, <2>2 DEF TypeOK
  <2>3. client[c] \in Client /\ ClientOK(client[c])
    BY <1>1 DEF Inv
  <2>. QED BY <2>3 DEF ClientOK, Client, RouteOK, Usable, InProxy, ProxyAt
<1>. QED BY <1>1, InvariantHolds, PTL

\* No request is forwarded to an address that the dialer did not validate, nor for a
\* host the policy does not accept, however names, tables and idle connections
\* change after the check (dialer.go:60-96).
THEOREM ValidatedOnly == Spec => []OnlyValidatedAddresses
<1>1. ASSUME Inv PROVE OnlyValidatedAddresses
  BY <1>1 DEF Inv, ClientOK, Usable, Denied, OnlyValidatedAddresses
<1>. QED BY <1>1, InvariantHolds, PTL

\* Between applies, no request of a live route is forwarded to a listener of the proxy
\* itself: the guard the connection was dialed under holds every port of those that is
\* open (server.go:83-87, policy.go:41-54).  A route to management.bind's is possible.
THEOREM NoneToSelf == Spec => []NoSelfConnection
<1>1. ASSUME Inv PROVE NoSelfConnection
  <2>. SUFFICES ASSUME building = {}, NEW c \in Clients, client[c].at = "forwarding",
                       client[c].route.gen = table.gen, client[c].ip \in Local
                PROVE  client[c].route.m.up.port \notin open
    BY DEF NoSelfConnection, Listening
  <2>1. RouteOK(client[c].route) /\ Usable(client[c].route, client[c].ip)
    BY <1>1 DEF Inv, ClientOK, ProxyAt
  <2>2. client[c].route.m.up.port \notin table.guard
    BY <2>1 DEF RouteOK, Usable, Denied, IsSelf
  <2>3. table.gen # 0
    BY <2>1 DEF RouteOK, Routes
  <2>4. open \subseteq table.guard
    BY <1>1, <2>3 DEF Inv, TablesInv, NoTable
  <2>. QED BY <2>2, <2>4
<1>. QED BY <1>1, InvariantHolds, PTL

\* For every list of certificates of any keys, and every client that accepts the keys
\* of the certificates of its host, a host that the table or the redirect found covered
\* is one that the handshake shows a certificate of (router.go:65, redirect.go:19,
\* tls.go:52-76).
THEOREM HostsAreTrusted == Spec => []ClientsTrustTheirHost
<1>1. ASSUME Inv PROVE ClientsTrustTheirHost
  <2>. SUFFICES ASSUME NEW c \in Clients
                PROVE  LET k == client[c] IN
                  /\ InProxy(c) /\ k.route.m.tls /\ k.sni = k.route.m.host
                         /\ k.certs = k.route.certs /\ AcceptsHost(k.certs, k.sni, k.keys) =>
                       k.sni \in Selected(k.certs, k.sni, k.keys).names
                  /\ k.out = "redirect" /\ k.certs = certs =>
                       \A keys \in Offers :
                         AcceptsHost(certs, k.host.name, keys) =>
                           k.host.name \in Selected(certs, k.host.name, keys).names
    BY DEF ClientsTrustTheirHost
  <2>1. ClientOK(client[c])
    BY <1>1 DEF Inv
  <2>2. ASSUME InProxy(c), client[c].route.m.tls
        PROVE  /\ client[c].route.certs \in CertLists
               /\ Covers(client[c].route.certs, client[c].route.m.host)
    BY <2>1, <2>2 DEF ClientOK, ProxyAt, InProxy, RouteOK, Routes
  <2>3. ASSUME client[c].out = "redirect"
        PROVE  client[c].certs \in CertLists /\ Covers(client[c].certs, client[c].host.name)
    BY <2>1, <2>3 DEF ClientOK
  <2>. QED BY <2>2, <2>3, CoveredAreHosts, SelectedCovers
<1>. QED BY <1>1, InvariantHolds, PTL

\* The upstream is not blamed for a client that went away, and is called unreachable
\* only when every address of it was tried in vain (reverseproxy.go:84-99,
\* dialer.go:86-95).
THEOREM BlameDeserved == Spec => []BlameIsDeserved
<1>1. ASSUME Inv PROVE BlameIsDeserved
  BY <1>1 DEF Inv, ClientOK, Blames, BlameIsDeserved
<1>. QED BY <1>1, InvariantHolds, PTL
=============================================================================
