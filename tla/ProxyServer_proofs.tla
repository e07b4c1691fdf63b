-------------------------- MODULE ProxyServer_proofs --------------------------
(***************************************************************************)
(* Proofs about the reconfiguration of the proxy server, for any hosts,    *)
(* mappings, ports, certificates and CA files, and any number of applies.  *)
(***************************************************************************)
EXTENDS ProxyServer, TLAPS

-----------------------------------------------------------------------------
(* The inductive invariant *)

Ran(t) == {m.port : m \in t}

\* What an apply has worked out so far splits the state it applies: mappings still
\* to route, routed ones, and ones it cannot serve.
Split(a) ==
  /\ pc[a] \in {"idle", "read", "dialer"} =>
       todo[a] = {} /\ table[a] = {} /\ unserved[a] = {}
  /\ pc[a] \in {"route", "close", "probe", "targets"} =>
       /\ st[a] = todo[a] \cup table[a] \cup unserved[a]
       /\ todo[a] \cap (table[a] \cup unserved[a]) = {} /\ table[a] \cap unserved[a] = {}
  /\ pc[a] \in {"close", "probe", "targets"} => todo[a] = {}

\* The listeners are those of a table, and some of the ones that are always on.
Listening(t) == Ran(t) \subseteq PortsOf(active) /\ PortsOf(active) \subseteq Ran(t) \cup AlwaysOn

Certified(t) == \A m \in t : m.tls => Covers(m.host)

\* How far an apply that nothing has overlapped has brought the server.
OnCourse(a) ==
  /\ pc[a] # "read" => st[a] = snap
  /\ pc[a] \notin {"read", "dialer"} => dialer = SelfPorts(snap) /\ Certified(table[a])
  /\ pc[a] \in {"close", "probe", "targets"} => Listening(table[a])
  /\ pc[a] \in {"probe", "targets"} =>
       /\ routes = [maps |-> table[a], guard |-> SelfPorts(snap)]
       /\ degraded = unserved[a]
  /\ pc[a] = "targets" => probeGuard = dialer

\* What such an apply leaves.
Applied ==
  /\ routes.maps \cup degraded = snap /\ routes.maps \cap degraded = {}
  /\ Listening(routes.maps) /\ Certified(routes.maps)
  /\ routes.guard = SelfPorts(snap) /\ dialer = SelfPorts(snap)
  /\ probeGuard = SelfPorts(snap)
  /\ targets = Identities(snap)

Alone == \A a, b \in Appliers : pc[a] # "idle" /\ pc[b] # "idle" => a = b

Inv ==
  /\ TypeOK
  /\ \A a \in Appliers : Split(a)
  /\ ~overlap => Alone /\ \A a \in Appliers : pc[a] # "idle" => OnCourse(a)
  /\ Settled => Applied

-----------------------------------------------------------------------------
(* Sets of mappings, and the two appliers *)

\* Part of a state is a state.
LEMMA PartOfState ==
  ASSUME NEW s \in State, NEW t, t \subseteq s
  PROVE  t \in State
BY DEF State, OneMode

\* There are two appliers.
LEMMA TheOther ==
  ASSUME NEW a \in Appliers
  PROVE  Other(a) \in Appliers \ {a} /\ \A b \in Appliers : b = a \/ b = Other(a)
<1>1. \E b \in Appliers : b # a
  BY DEF Appliers
<1> QED
  BY <1>1 DEF Other, Appliers

\* What a mutation makes of a state is a set of mappings.
LEMMA CandidatesAreMappings ==
  ASSUME snap \in State, NEW s \in Candidates
  PROVE  s \subseteq Mapping
BY ServerAssumption DEF Candidates, State

\* The port of a mapping is one the process may listen on.
LEMMA MappingFields ==
  ASSUME NEW s \in State, NEW m \in s
  PROVE  m.port \in Ports /\ m.host \in Hosts /\ m.tls \in BOOLEAN /\ m.up \in Upstreams
<1>1. m \in Mapping
  BY DEF State
<1>2. m.port \in OnDemandPorts \cup {HTTPSPort} /\ HTTPSPort \in AlwaysOn
  BY <1>1, ServerAssumption DEF Mapping, AlwaysOn
<1> QED
  BY <1>1, <1>2 DEF Mapping, Ports

\* What is derived from a state is of its type.
LEMMA PortsOfState ==
  ASSUME NEW s \in State
  PROVE  SelfPorts(s) \subseteq Ports /\ Identities(s) \subseteq Upstreams /\ Ran(s) \subseteq Ports
BY MappingFields DEF SelfPorts, Identities, Ran, Ports

\* The listeners a table wants: one for each of its ports and each one always on.
LEMMA DesiredPorts ==
  ASSUME NEW t \in State
  PROVE  /\ Desired(t) \subseteq Listener
         /\ \A k, l \in Desired(t) : k.port = l.port => k = l
         /\ PortsOf(Desired(t)) = Ran(t) \cup AlwaysOn
<1> DEFINE Wanted(m) == [port |-> m.port, tls |-> m.tls]
           Always(p) == [port |-> p, tls |-> p # HTTPPort]
           routed == {m \in t : m.port \notin AlwaysOn}
           wanted == {Wanted(m) : m \in routed}
           always == {Always(p) : p \in AlwaysOn}
<1>1. \A m \in t : Wanted(m) \in Listener /\ Wanted(m).port = m.port
  BY MappingFields DEF Listener
<1>2. \A m, n \in t : m.port = n.port => Wanted(m) = Wanted(n)
  BY DEF State, OneMode
<1>3. ASSUME NEW p \in AlwaysOn
      PROVE  Always(p) \in Listener /\ Always(p).port = p
  <2>1. (p # HTTPPort) \in BOOLEAN
    OBVIOUS
  <2>2. p \in Ports
    BY DEF Ports
  <2> QED
    BY <2>1, <2>2 DEF Listener
<1>4. Desired(t) = wanted \cup always
  BY DEF Desired
<1> HIDE DEF Wanted, Always
<1>5. wanted \subseteq Listener /\ always \subseteq Listener
  BY <1>1, <1>3
<1>6. \A k \in wanted : \E m \in t : k = Wanted(m) /\ k.port = m.port /\ m.port \notin AlwaysOn
  BY <1>1
<1>7. \A k \in always : k.port \in AlwaysOn /\ k = Always(k.port)
  BY <1>3
<1>8. \A m \in t : m.port \notin AlwaysOn => \E k \in wanted : k.port = m.port
  BY <1>1
<1>9. \A p \in AlwaysOn : \E k \in always : k.port = p
  BY <1>3
<1> HIDE DEF wanted, always
<1>10. \A k, l \in Desired(t) : k.port = l.port => k = l
  BY <1>2, <1>4, <1>6, <1>7
<1>11. PortsOf(Desired(t)) \subseteq Ran(t) \cup AlwaysOn
  BY <1>4, <1>6, <1>7 DEF PortsOf, Ran
<1>12. Ran(t) \cup AlwaysOn \subseteq PortsOf(Desired(t))
  BY <1>4, <1>8, <1>9 DEF PortsOf, Ran
<1> QED
  BY <1>4, <1>5, <1>10, <1>11, <1>12

-----------------------------------------------------------------------------
(* Every action preserves it *)

\* The invariant holds when startup's apply begins.
LEMMA InitInv == Init => Inv
<1> SUFFICES ASSUME Init PROVE Inv
  OBVIOUS
<1>1. snap \in State /\ {} \in State
  BY ServerAssumption DEF Init, State, OneMode
<1>2. \A a \in Appliers : /\ pc[a] = IF a = "main" THEN "dialer" ELSE "idle"
                          /\ st[a] = IF a = "main" THEN snap ELSE {}
                          /\ todo[a] = {} /\ table[a] = {} /\ unserved[a] = {}
                          /\ closing[a] = {}
  BY DEF Init
<1>3. TypeOK
  BY <1>1, ServerAssumption DEF Init, TypeOK
<1>4. Alone /\ ~Settled
  BY <1>2 DEF Alone, Settled, Idle, Appliers
<1>5. \A a \in Appliers : Split(a)
  BY <1>2 DEF Split
<1>6. \A a \in Appliers : pc[a] # "idle" => OnCourse(a)
  BY <1>2 DEF OnCourse
<1> QED
  BY <1>3, <1>4, <1>5, <1>6 DEF Inv

\* A step of an applier at work: the other one is where it was.
LEMMA AStep ==
  ASSUME NEW a \in Appliers, Inv, pc[a] # "idle", overlap' = overlap,
         \A b \in Appliers \ {a} : pc'[b] = pc[b] /\ Split(b)',
         TypeOK', Split(a)',
         ~overlap /\ OnCourse(a) => IF pc'[a] = "idle" THEN Applied' ELSE OnCourse(a)'
  PROVE  Inv'
<1>1. ~overlap => Alone /\ OnCourse(a)
  BY DEF Inv
<1>2. ~overlap => \A b \in Appliers \ {a} : pc'[b] = "idle"
  BY <1>1 DEF Alone
<1>3. ~overlap' => Alone' /\ \A b \in Appliers : pc'[b] # "idle" => OnCourse(b)'
  BY <1>1, <1>2 DEF Alone
<1>4. Settled' => Applied'
  BY <1>1 DEF Settled, Idle
<1> QED
  BY <1>3, <1>4 DEF Inv

\* An apply begins: it is on course when the other one is not at work.
LEMMA ABeginning ==
  ASSUME NEW a \in Appliers, Inv, pc'[a] # "idle", Begins(a),
         \A b \in Appliers \ {a} : pc'[b] = pc[b] /\ Split(b)',
         TypeOK', Split(a)', OnCourse(a)'
  PROVE  Inv'
<1>1. ~overlap' => \A b \in Appliers \ {a} : pc'[b] = "idle"
  BY TheOther DEF Begins
<1>2. ~overlap' => Alone' /\ \A b \in Appliers : pc'[b] # "idle" => OnCourse(b)'
  BY <1>1 DEF Alone
<1>3. ~Settled'
  BY DEF Settled, Idle
<1> QED
  BY <1>2, <1>3 DEF Inv

\* A commit begins an apply of what it publishes.
LEMMA CommitInv == Inv /\ Commit => Inv'
<1> SUFFICES ASSUME Inv, Commit PROVE Inv'
  OBVIOUS
<1> "txn" \in Appliers
  BY DEF Appliers
<1>1. TypeOK /\ \A a \in Appliers : Split(a)
  BY DEF Inv
<1>2. /\ pc["txn"] = "idle" /\ pc' = [pc EXCEPT !["txn"] = "dialer"]
      /\ snap' \in Candidates /\ OneMode(snap') /\ st' = [st EXCEPT !["txn"] = snap']
      /\ Begins("txn")
      /\ UNCHANGED <<env, server, tracker, todo, table, unserved, closing, started>>
  BY DEF Commit, Goto
<1>3. snap' \in State
  BY <1>1, <1>2, CandidatesAreMappings DEF TypeOK, State
<1>4. /\ pc'["txn"] = "dialer" /\ st'["txn"] = snap'
      /\ \A b \in Appliers \ {"txn"} : pc'[b] = pc[b] /\ st'[b] = st[b]
  BY <1>1, <1>2 DEF TypeOK
<1>5. overlap' \in BOOLEAN
  BY <1>2 DEF Begins
<1>6. TypeOK'
  BY <1>1, <1>2, <1>3, <1>5 DEF TypeOK, env, server, tracker
<1>7. \A b \in Appliers : Split(b)'
  BY <1>1, <1>2, <1>4 DEF Split
<1>8. OnCourse("txn")'
  BY <1>4 DEF OnCourse
<1> QED
  BY <1>2, <1>4, <1>6, <1>7, <1>8, ABeginning

\* A SIGHUP begins an apply, and has read no snapshot yet.
LEMMA ReloadInv == Inv /\ Reload => Inv'
<1> SUFFICES ASSUME Inv, Reload PROVE Inv'
  OBVIOUS
<1> "main" \in Appliers
  BY DEF Appliers
<1>1. TypeOK /\ \A a \in Appliers : Split(a)
  BY DEF Inv
<1>2. /\ pc["main"] = "idle" /\ pc' = [pc EXCEPT !["main"] = "read"]
      /\ covered' \in CertSets /\ Begins("main")
      /\ UNCHANGED <<snap, loadable, taken, server, tracker, local, started>>
  BY DEF Reload, Goto
<1>3. pc'["main"] = "read" /\ \A b \in Appliers \ {"main"} : pc'[b] = pc[b]
  BY <1>1, <1>2 DEF TypeOK
<1>4. overlap' \in BOOLEAN
  BY <1>2 DEF Begins
<1>5. TypeOK'
  BY <1>1, <1>2, <1>4 DEF TypeOK, server, tracker, local
<1>6. \A b \in Appliers : Split(b)'
  BY <1>1, <1>2, <1>3 DEF Split, local
<1>7. OnCourse("main")'
  BY <1>3 DEF OnCourse
<1> QED
  BY <1>2, <1>3, <1>5, <1>6, <1>7, ABeginning

\* If no commit has come since, what it reads is what is published.
LEMMA ReadSnapshotInv == Inv /\ ReadSnapshot => Inv'
<1> SUFFICES ASSUME Inv, ReadSnapshot PROVE Inv'
  OBVIOUS
<1> "main" \in Appliers
  BY DEF Appliers
<1>1. TypeOK /\ \A a \in Appliers : Split(a)
  BY DEF Inv
<1>2. /\ pc["main"] = "read" /\ pc' = [pc EXCEPT !["main"] = "dialer"]
      /\ st' = [st EXCEPT !["main"] = snap]
      /\ UNCHANGED <<snap, env, server, tracker, todo, table, unserved, closing, started, overlap>>
  BY DEF ReadSnapshot, Goto
<1>3. /\ pc'["main"] = "dialer" /\ st'["main"] = snap
      /\ \A b \in Appliers \ {"main"} : pc'[b] = pc[b] /\ st'[b] = st[b]
  BY <1>1, <1>2 DEF TypeOK
<1>4. TypeOK'
  BY <1>1, <1>2 DEF TypeOK, env, server, tracker
<1>5. \A b \in Appliers : Split(b)'
  BY <1>1, <1>2, <1>3 DEF Split
<1>6. OnCourse("main")'
  BY <1>2, <1>3 DEF OnCourse
<1> QED
  BY <1>2, <1>3, <1>4, <1>5, <1>6, AStep

\* The dialer is that of the state which is applied, and nothing is routed yet.
LEMMA StoreDialerInv == ASSUME NEW a \in Appliers PROVE Inv /\ StoreDialer(a) => Inv'
<1> SUFFICES ASSUME Inv, StoreDialer(a) PROVE Inv'
  OBVIOUS
<1>1. TypeOK /\ \A b \in Appliers : Split(b)
  BY DEF Inv
<1>2. /\ pc[a] = "dialer" /\ pc' = [pc EXCEPT ![a] = "route"]
      /\ dialer' = SelfPorts(st[a]) /\ todo' = [todo EXCEPT ![a] = st[a]]
      /\ UNCHANGED <<snap, env, active, routes, degraded, tracker, st, table, unserved, closing,
                     started, overlap>>
  BY DEF StoreDialer, Goto
<1>3. /\ pc'[a] = "route" /\ todo'[a] = st[a]
      /\ \A b \in Appliers \ {a} : pc'[b] = pc[b] /\ todo'[b] = todo[b]
  BY <1>1, <1>2 DEF TypeOK
<1>4. st[a] \in State
  BY <1>1 DEF TypeOK
<1>5. TypeOK'
  BY <1>1, <1>2, <1>4, PortsOfState DEF TypeOK, env, tracker
<1>6. \A b \in Appliers \ {a} : Split(b)'
  BY <1>1, <1>2, <1>3 DEF Split
<1>7. Split(a)'
  BY <1>1, <1>2, <1>3 DEF Split
<1>8. OnCourse(a) => OnCourse(a)'
  BY <1>1, <1>2, <1>3 DEF OnCourse, Split, Certified
<1> QED
  BY <1>2, <1>3, <1>5, <1>6, <1>7, <1>8, AStep

\* One mapping is routed, or found not servable.
LEMMA RouteInv == ASSUME NEW a \in Appliers PROVE Inv /\ Route(a) => Inv'
<1> SUFFICES ASSUME Inv, Route(a) PROVE Inv'
  OBVIOUS
<1>1. TypeOK /\ \A b \in Appliers : Split(b)
  BY DEF Inv
<1>2. PICK m \in todo[a] :
        /\ todo' = [todo EXCEPT ![a] = @ \ {m}]
        /\ \/ Servable(m) /\ table' = [table EXCEPT ![a] = @ \cup {m}] /\ UNCHANGED unserved
           \/ ~Servable(m) /\ unserved' = [unserved EXCEPT ![a] = @ \cup {m}] /\ UNCHANGED table
  BY DEF Route
<1>3. /\ pc[a] = "route"
      /\ UNCHANGED <<snap, env, server, tracker, pc, st, closing, started, overlap>>
  BY DEF Route
<1>4. /\ todo'[a] = todo[a] \ {m}
      /\ \/ Servable(m) /\ table'[a] = table[a] \cup {m} /\ unserved'[a] = unserved[a]
         \/ unserved'[a] = unserved[a] \cup {m} /\ table'[a] = table[a]
      /\ \A b \in Appliers \ {a} :
           todo'[b] = todo[b] /\ table'[b] = table[b] /\ unserved'[b] = unserved[b]
  BY <1>1, <1>2 DEF TypeOK
<1>5. Split(a)'
  BY <1>1, <1>3, <1>4 DEF Split
<1>6. \A b \in Appliers \ {a} : Split(b)'
  BY <1>1, <1>3, <1>4 DEF Split
<1>7. todo'[a] \in State /\ table'[a] \in State /\ unserved'[a] \in State
  <2>1. st[a] = todo'[a] \cup table'[a] \cup unserved'[a] /\ st[a] \in State
    BY <1>1, <1>3, <1>5 DEF Split, TypeOK
  <2> QED
    BY <2>1, PartOfState
<1>8. /\ todo' \in [Appliers -> State] /\ table' \in [Appliers -> State]
      /\ unserved' \in [Appliers -> State]
  BY <1>1, <1>2, <1>4, <1>7 DEF TypeOK
<1>9. TypeOK'
  BY <1>1, <1>3, <1>8 DEF TypeOK, env, server, tracker
<1>10. OnCourse(a) => OnCourse(a)'
  BY <1>3, <1>4 DEF OnCourse, Certified, Servable, Covers, env, server
<1> QED
  BY <1>3, <1>5, <1>6, <1>9, <1>10, AStep

\* Reconcile leaves the listeners of the routes it could bind, and of no others.
LEMMA ReconcileInv == ASSUME NEW a \in Appliers PROVE Inv /\ Reconcile(a) => Inv'
<1> SUFFICES ASSUME Inv, Reconcile(a) PROVE Inv'
  OBVIOUS
<1>1. TypeOK /\ \A b \in Appliers : Split(b)
  BY DEF Inv
<1> DEFINE desired == Desired(table[a])
           missing == {l \in desired : l.port \notin PortsOf(active)}
           failed  == {l.port : l \in {k \in missing : k.port \in taken \cup Retiring}}
           open    == active \cup {l \in missing : l.port \notin failed}
           kept    == AlwaysOn \cup PortsOf(desired)
<1>2. /\ pc[a] = "route" /\ pc' = [pc EXCEPT ![a] = "close"] /\ todo[a] = {}
      /\ active' = {l \in open : l.port \in kept}
      /\ closing' = [closing EXCEPT ![a] = {l \in open : l.port \notin kept}]
      /\ table' = [table EXCEPT ![a] = WithoutPorts(@, failed)]
      /\ unserved' = [unserved EXCEPT ![a] = @ \cup ListenerFailures(st[a], failed)]
      /\ UNCHANGED <<snap, env, routes, dialer, degraded, tracker, st, todo, started, overlap>>
  BY DEF Reconcile, ReconcileKeeping, Goto
<1>3. /\ pc'[a] = "close" /\ table'[a] = WithoutPorts(table[a], failed)
      /\ unserved'[a] = unserved[a] \cup ListenerFailures(st[a], failed)
      /\ \A b \in Appliers \ {a} :
           pc'[b] = pc[b] /\ table'[b] = table[b] /\ unserved'[b] = unserved[b]
  BY <1>1, <1>2 DEF TypeOK
<1>4. /\ table[a] \in State /\ st[a] \in State
      /\ st[a] = table[a] \cup unserved[a] /\ table[a] \cap unserved[a] = {}
  BY <1>1, <1>2 DEF TypeOK, Split
<1>5. /\ desired \subseteq Listener /\ \A k, l \in desired : k.port = l.port => k = l
      /\ PortsOf(desired) = Ran(table[a]) \cup AlwaysOn
  BY <1>4, DesiredPorts
<1>6. \A p : p \in failed <=> p \in PortsOf(desired) \ PortsOf(active) /\ p \in taken \cup Retiring
  BY DEF PortsOf
<1>7. open \subseteq Listener /\ \A k, l \in open : k.port = l.port => k = l
  BY <1>1, <1>5 DEF TypeOK, PortsOf
<1>8. \A p : p \in PortsOf(open) <=> p \in PortsOf(active) \cup (PortsOf(desired) \ failed)
  BY <1>6 DEF PortsOf
<1> HIDE DEF failed, open, missing, desired
<1>9. \A p : p \in PortsOf(active') <=> p \in PortsOf(open) /\ p \in Ran(table[a]) \cup AlwaysOn
  BY <1>2, <1>5 DEF PortsOf
<1>10. \A p : p \in Ran(table'[a]) <=> p \in Ran(table[a]) \ failed
  BY <1>3 DEF Ran, WithoutPorts
<1>11. Listening(table[a])'
  <2>1. Ran(table'[a]) \subseteq PortsOf(active')
    BY <1>5, <1>8, <1>9, <1>10
  <2>2. PortsOf(active') \subseteq Ran(table'[a]) \cup AlwaysOn
    BY <1>5, <1>6, <1>8, <1>9, <1>10
  <2> QED
    BY <2>1, <2>2 DEF Listening
<1>12. Split(a)' /\ table'[a] \subseteq st[a] /\ unserved'[a] \subseteq st[a]
  <2>1. /\ st[a] = table'[a] \cup unserved'[a] /\ table'[a] \cap unserved'[a] = {}
        /\ table'[a] \subseteq st[a] /\ unserved'[a] \subseteq st[a]
    BY <1>3, <1>4 DEF WithoutPorts, ListenerFailures
  <2> QED
    BY <1>2, <1>3, <2>1 DEF Split
<1>13. \A b \in Appliers \ {a} : Split(b)'
  BY <1>1, <1>2, <1>3 DEF Split
<1>14. table'[a] \in State /\ unserved'[a] \in State
  BY <1>4, <1>12, PartOfState
<1>15. TypeOK'
  <2>1. table' \in [Appliers -> State] /\ unserved' \in [Appliers -> State]
    BY <1>1, <1>2, <1>3, <1>14 DEF TypeOK
  <2>2. active' \subseteq Listener /\ \A k, l \in active' : k.port = l.port => k = l
    BY <1>2, <1>7
  <2>3. closing' \in [Appliers -> SUBSET Listener]
    BY <1>1, <1>2, <1>7 DEF TypeOK
  <2> QED
    BY <1>1, <1>2, <2>1, <2>2, <2>3 DEF TypeOK, env, tracker
<1>16. OnCourse(a) => OnCourse(a)'
  BY <1>2, <1>3, <1>11 DEF OnCourse, Certified, Covers, env, WithoutPorts
<1> QED
  BY <1>2, <1>3, <1>12, <1>13, <1>15, <1>16, AStep

\* Closing a retired socket changes nothing that an apply has settled.
LEMMA CloseListenerInv == ASSUME NEW a \in Appliers PROVE Inv /\ CloseListener(a) => Inv'
<1> SUFFICES ASSUME Inv, CloseListener(a) PROVE Inv'
  OBVIOUS
<1>1. TypeOK /\ \A b \in Appliers : Split(b)
  BY DEF Inv
<1>2. /\ pc[a] = "close" /\ \E l \in closing[a] : closing' = [closing EXCEPT ![a] = @ \ {l}]
      /\ UNCHANGED <<snap, env, server, tracker, pc, st, todo, table, unserved, started, overlap>>
  BY DEF CloseListener
<1>3. TypeOK'
  BY <1>1, <1>2 DEF TypeOK, env, server, tracker
<1>4. \A b \in Appliers : Split(b)'
  BY <1>1, <1>2 DEF Split
<1>5. OnCourse(a) => OnCourse(a)'
  BY <1>2 DEF OnCourse, Listening, Certified, Covers, env, server, tracker
<1> QED
  BY <1>2, <1>3, <1>4, <1>5, AStep

\* The table of the apply goes live, and what it could not serve is reported.
LEMMA StoreRoutesInv == ASSUME NEW a \in Appliers PROVE Inv /\ StoreRoutes(a) => Inv'
<1> SUFFICES ASSUME Inv, StoreRoutes(a) PROVE Inv'
  OBVIOUS
<1>1. TypeOK /\ \A b \in Appliers : Split(b)
  BY DEF Inv
<1>2. /\ pc[a] = "close" /\ pc' = [pc EXCEPT ![a] = "probe"]
      /\ routes' = [maps |-> table[a], guard |-> SelfPorts(st[a])] /\ degraded' = unserved[a]
      /\ UNCHANGED <<snap, env, active, dialer, tracker, local, started, overlap>>
  BY DEF StoreRoutes, Goto
<1>3. pc'[a] = "probe" /\ \A b \in Appliers \ {a} : pc'[b] = pc[b]
  BY <1>1, <1>2 DEF TypeOK
<1>4. routes' \in [maps : State, guard : SUBSET Ports] /\ degraded' \in State
  BY <1>1, <1>2, PortsOfState DEF TypeOK
<1>5. TypeOK'
  BY <1>1, <1>2, <1>4 DEF TypeOK, env, tracker, local
<1>6. \A b \in Appliers : Split(b)'
  BY <1>1, <1>2, <1>3 DEF Split, local
<1>7. OnCourse(a) => OnCourse(a)'
  BY <1>2, <1>3 DEF OnCourse, Listening, Certified, Covers, env, local
<1> QED
  BY <1>2, <1>3, <1>5, <1>6, <1>7, AStep

\* The prober gets the dialer, which is this apply's when no other runs.
LEMMA SetDialerInv == ASSUME NEW a \in Appliers PROVE Inv /\ SetDialer(a) => Inv'
<1> SUFFICES ASSUME Inv, SetDialer(a) PROVE Inv'
  OBVIOUS
<1>1. TypeOK /\ \A b \in Appliers : Split(b)
  BY DEF Inv
<1>2. /\ pc[a] = "probe" /\ pc' = [pc EXCEPT ![a] = "targets"] /\ probeGuard' = dialer
      /\ UNCHANGED <<snap, env, server, targets, local, started, overlap>>
  BY DEF SetDialer, Goto
<1>3. pc'[a] = "targets" /\ \A b \in Appliers \ {a} : pc'[b] = pc[b]
  BY <1>1, <1>2 DEF TypeOK
<1>4. TypeOK'
  BY <1>1, <1>2 DEF TypeOK, env, server, local
<1>5. \A b \in Appliers : Split(b)'
  BY <1>1, <1>2, <1>3 DEF Split, local
<1>6. OnCourse(a) => OnCourse(a)'
  BY <1>2, <1>3 DEF OnCourse, Listening, Certified, Covers, env, server, local
<1> QED
  BY <1>2, <1>3, <1>4, <1>5, <1>6, AStep

\* The apply is over, and what it leaves is what its course promised.
LEMMA SetTargetsInv == ASSUME NEW a \in Appliers PROVE Inv /\ SetTargets(a) => Inv'
<1> SUFFICES ASSUME Inv, SetTargets(a) PROVE Inv'
  OBVIOUS
<1>1. TypeOK /\ \A b \in Appliers : Split(b)
  BY DEF Inv
<1>2. /\ pc[a] = "targets" /\ pc' = [pc EXCEPT ![a] = "idle"]
      /\ targets' = Identities(st[a])
      /\ table' = [table EXCEPT ![a] = {}] /\ st' = [st EXCEPT ![a] = {}]
      /\ unserved' = [unserved EXCEPT ![a] = {}]
      /\ started' = (started \/ a = "main")
      /\ UNCHANGED <<snap, env, server, probeGuard, todo, closing, overlap>>
  BY DEF SetTargets, Goto
<1>3. /\ pc'[a] = "idle" /\ table'[a] = {} /\ st'[a] = {} /\ unserved'[a] = {}
      /\ \A b \in Appliers \ {a} : /\ pc'[b] = pc[b] /\ table'[b] = table[b]
                                   /\ st'[b] = st[b] /\ unserved'[b] = unserved[b]
  BY <1>1, <1>2 DEF TypeOK
<1>4. TypeOK'
  <2>1. {} \in State
    BY DEF State, OneMode
  <2>2. targets' \subseteq Upstreams
    BY <1>1, <1>2, PortsOfState DEF TypeOK
  <2>3. started' \in BOOLEAN
    BY <1>1, <1>2 DEF TypeOK
  <2> QED
    BY <1>1, <1>2, <2>1, <2>2, <2>3 DEF TypeOK, env, server
<1>5. Split(a)'
  BY <1>1, <1>2, <1>3 DEF Split
<1>6. \A b \in Appliers \ {a} : Split(b)'
  BY <1>1, <1>2, <1>3 DEF Split
<1>7. OnCourse(a) => Applied'
  <2> SUFFICES ASSUME OnCourse(a) PROVE Applied'
    OBVIOUS
  <2>1. /\ routes = [maps |-> table[a], guard |-> SelfPorts(snap)] /\ degraded = unserved[a]
        /\ Listening(table[a]) /\ Certified(table[a]) /\ st[a] = snap
        /\ dialer = SelfPorts(snap) /\ probeGuard = SelfPorts(snap)
    BY <1>2 DEF OnCourse
  <2>2. snap = table[a] \cup unserved[a] /\ table[a] \cap unserved[a] = {}
    BY <1>1, <1>2, <2>1 DEF Split
  <2> QED
    BY <1>2, <2>1, <2>2 DEF Applied, Listening, Certified, Covers, env, server
<1> QED
  BY <1>2, <1>3, <1>4, <1>5, <1>6, <1>7, AStep

\* What changes around the server is nothing an apply has settled.
LEMMA AroundInv == Inv /\ (ChangeCAs \/ ChangeTaken \/ UNCHANGED vars) => Inv'
<1> SUFFICES ASSUME Inv, ChangeCAs \/ ChangeTaken \/ UNCHANGED vars PROVE Inv'
  OBVIOUS
<1>1. TypeOK /\ \A b \in Appliers : Split(b)
  BY DEF Inv
<1>2. /\ UNCHANGED <<snap, covered, server, tracker, pc, local, started, overlap>>
      /\ loadable' \in LoadableSets /\ taken' \subseteq Contended
  BY <1>1 DEF ChangeCAs, ChangeTaken, vars, env, TypeOK
<1>3. TypeOK'
  BY <1>1, <1>2 DEF TypeOK, server, tracker, local
<1>4. \A b \in Appliers : Split(b)'
  BY <1>1, <1>2 DEF Split, local
<1>5. \A b \in Appliers : OnCourse(b) => OnCourse(b)'
  BY <1>2 DEF OnCourse, Listening, Certified, Covers, server, tracker, local
<1>6. Applied => Applied'
  BY <1>2 DEF Applied, Listening, Certified, Covers, server, tracker
<1> QED
  BY <1>2, <1>3, <1>4, <1>5, <1>6 DEF Inv, Alone, Settled, Idle

\* Every step keeps the invariant.
LEMMA NextInv == Inv /\ [Next]_vars => Inv'
BY CommitInv, ReloadInv, ReadSnapshotInv, StoreDialerInv, RouteInv, ReconcileInv,
   CloseListenerInv, StoreRoutesInv, SetDialerInv, SetTargetsInv, AroundInv DEF Next

-----------------------------------------------------------------------------
(* What the server may rely on *)

\* Inv holds in every reachable state: whatever applies overlapped before, one that
\* runs alone is on its course from its first step to its last.
THEOREM InvariantHolds == Spec => []Inv
BY InitInv, NextInv, PTL DEF Spec

\* TypeOK: in particular a port has at most one active listener.
THEOREM TypeCorrect == Spec => []TypeOK
<1>1. Inv => TypeOK
  BY DEF Inv
<1> QED
  BY <1>1, InvariantHolds, PTL

\* ServedOrReported: after an apply that ran alone, every committed mapping is routed
\* by a bound port, or reported degraded (Server.Apply).
THEOREM AllAccountedFor == Spec => []ServedOrReported
<1>1. Inv => ServedOrReported
  BY DEF Inv, ServedOrReported, Applied, Listening, Certified, Ran
<1> QED
  BY <1>1, InvariantHolds, PTL

\* ListenersNeeded: no on-demand listener outlives its last route (Listeners.Reconcile).
THEOREM NoIdleListener == Spec => []ListenersNeeded
<1>1. Inv => ListenersNeeded
  BY DEF Inv, ListenersNeeded, Applied, Listening, Ran
<1> QED
  BY <1>1, InvariantHolds, PTL

\* NoProxyLoop: the dialers of the routes and of the health checker refuse every port
\* of the proxy's own listeners (Server.Apply, allListenPorts); management.bind's is none.
THEOREM DialersRefuseSelf == Spec => []NoProxyLoop
<1>1. Inv /\ Settled => PortsOf(active) \subseteq SelfPorts(snap)
  BY DEF Inv, Applied, Listening, Ran, SelfPorts
<1>2. Inv => NoProxyLoop
  BY <1>1 DEF Inv, NoProxyLoop, Accepting, Applied
<1> QED
  BY <1>2, InvariantHolds, PTL

\* HealthFollowsSnapshot: the health checker probes the upstreams of the published
\* snapshot (applyAndTrack in serve.go).
THEOREM ProbesFollow == Spec => []HealthFollowsSnapshot
<1>1. Inv => HealthFollowsSnapshot
  BY DEF Inv, HealthFollowsSnapshot, Applied
<1> QED
  BY <1>1, InvariantHolds, PTL

\* RoutesFollowListeners: only StoreRoutes makes routes visible, and the ports of the
\* table it stores were bound when the apply reconciled the listeners.
THEOREM RoutesAreBound == Spec => RoutesFollowListeners
<1>1. ASSUME Inv, [Next]_vars, ~overlap
      PROVE  {m.port : m \in routes'.maps \ routes.maps} \subseteq PortsOf(active)
  <2>1. ASSUME NEW a \in Appliers, StoreRoutes(a)
        PROVE  {m.port : m \in routes'.maps \ routes.maps} \subseteq PortsOf(active)
    <3>1. pc[a] = "close" /\ routes'.maps = table[a]
      BY <2>1 DEF StoreRoutes, Goto
    <3>2. OnCourse(a)
      BY <1>1, <3>1 DEF Inv
    <3>3. Ran(table[a]) \subseteq PortsOf(active)
      BY <3>1, <3>2 DEF OnCourse, Listening
    <3> QED
      BY <3>1, <3>3 DEF Ran
  <2>2. \/ UNCHANGED routes
        \/ \E a \in Appliers : StoreRoutes(a)
    BY <1>1 DEF Next, Commit, Reload, ReadSnapshot, StoreDialer, Route, Reconcile,
         ReconcileKeeping, CloseListener, SetDialer, SetTargets, ChangeCAs, ChangeTaken,
         vars, server
  <2> QED
    BY <2>1, <2>2
<1>2. ASSUME Inv, [Next]_vars
      PROVE  [~overlap =>
                {m.port : m \in routes'.maps \ routes.maps} \subseteq PortsOf(active)]_vars
  BY <1>1, <1>2
<1> QED
  BY <1>2, InvariantHolds, PTL DEF Spec, RoutesFollowListeners

-----------------------------------------------------------------------------
(* When the two disagreements of the runs cannot come up *)

\* ConsistentAfterEveryChange, which serve.go:161-162 promises, fails by overlapping
\* applies only: it holds of every behaviour in which none does.
THEOREM ConsistentWithoutOverlap == Spec /\ []~overlap => []ConsistentAfterEveryChange
<1>1. Inv /\ ~overlap => ConsistentAfterEveryChange
  BY DEF Inv, Settled, Applied, ConsistentAfterEveryChange
<1> QED
  BY <1>1, InvariantHolds, PTL

\* The mappings there may be: asked for, or in the state file.
Known == {m \in Mappings \cup UNION InitialStates : m.port = HTTPSPort => m.tls}

\* No port is asked for in both modes, and the redirect has a port of its own.
ModesAgree ==
  /\ HTTPSPort # HTTPPort
  /\ \A m, n \in Known : m.port = n.port => m.tls = n.tls

ModeInv ==
  /\ snap \subseteq Known /\ \A a \in Appliers : st[a] \subseteq Known
  /\ \A l \in active, m \in Known : l.port = m.port => l.tls = m.tls

\* Startup finds no listener.
LEMMA ModeInit == Init => ModeInv
<1>1. \A s \in InitialStates : s \subseteq Known
  BY ServerAssumption DEF Known, OneMode
<1> QED
  BY <1>1 DEF Init, ModeInv

\* A listener that is wanted has the mode of every mapping of its port.
LEMMA WantedModes ==
  ASSUME ModesAgree, NEW t \in SUBSET Known, NEW l \in Desired(t), NEW m \in Known,
         l.port = m.port
  PROVE  l.tls = m.tls
<1>1. CASE \E n \in t : l = [port |-> n.port, tls |-> n.tls]
  BY <1>1 DEF ModesAgree
<1>2. CASE \E p \in AlwaysOn : l = [port |-> p, tls |-> p # HTTPPort]
  <2>1. PICK p \in AlwaysOn : l = [port |-> p, tls |-> p # HTTPPort]
    BY <1>2
  <2>2. m \in Mapping
    BY ServerAssumption DEF Known
  <2>3. p = HTTPSPort /\ p # HTTPPort
    BY <2>1, <2>2, ServerAssumption DEF AlwaysOn, Mapping, ModesAgree
  <2>4. l.tls = TRUE
    BY <2>1, <2>3
  <2>5. m.tls = TRUE
    BY <2>1, <2>2, <2>3 DEF Known, Mapping
  <2> QED
    BY <2>4, <2>5
<1> QED
  BY <1>1, <1>2 DEF Desired

\* Every step keeps the modes, when they agree.
LEMMA ModeNext == ModesAgree /\ Inv /\ ModeInv /\ [Next]_vars => ModeInv'
<1> SUFFICES ASSUME ModesAgree, Inv, ModeInv, [Next]_vars PROVE ModeInv'
  OBVIOUS
<1>1. TypeOK /\ \A a \in Appliers : Split(a)
  BY DEF Inv
<1>2. CASE Commit
  <2>1. snap' \in Candidates /\ OneMode(snap') /\ st' = [st EXCEPT !["txn"] = snap']
        /\ active' = active
    BY <1>2 DEF Commit, server
  <2>2. snap' \subseteq snap \cup Mappings
    BY <2>1 DEF Candidates
  <2>3. snap' \subseteq Known
    BY <2>1, <2>2 DEF ModeInv, Known, OneMode
  <2> QED
    BY <1>1, <2>1, <2>3 DEF ModeInv, TypeOK
<1>3. ASSUME NEW a \in Appliers, Reconcile(a)
      PROVE  ModeInv'
  <2>1. /\ pc[a] = "route" /\ UNCHANGED <<snap, st>>
        /\ active' \subseteq active \cup Desired(table[a])
    BY <1>3 DEF Reconcile, ReconcileKeeping, Goto
  <2>2. table[a] \in SUBSET Known
    BY <1>1, <2>1 DEF Split, ModeInv
  <2>3. \A l \in Desired(table[a]), m \in Known : l.port = m.port => l.tls = m.tls
    BY <2>2, WantedModes
  <2> QED
    BY <2>1, <2>3 DEF ModeInv
<1>4. ASSUME NEW a \in Appliers, SetTargets(a)
      PROVE  ModeInv'
  <2>1. st' = [st EXCEPT ![a] = {}] /\ UNCHANGED <<snap, active>>
    BY <1>4 DEF SetTargets, server
  <2> QED
    BY <1>1, <2>1 DEF ModeInv, TypeOK
<1>5. CASE ReadSnapshot
  <2>1. st' = [st EXCEPT !["main"] = snap] /\ UNCHANGED <<snap, active>>
    BY <1>5 DEF ReadSnapshot, server
  <2> QED
    BY <1>1, <2>1 DEF ModeInv, TypeOK
<1>6. CASE UNCHANGED <<snap, st, active>>
  BY <1>6 DEF ModeInv
<1> QED
  BY <1>2, <1>3, <1>4, <1>5, <1>6 DEF Next, Reload, StoreDialer, Route, CloseListener,
     StoreRoutes, SetDialer, ChangeCAs, ChangeTaken, vars, server, local

\* ListenersHaveTheirMode, which design.md:130-132 says, fails by a port whose mode
\* changes only (Listeners.Reconcile keeps a listener for its port): when each port is
\* only ever asked for in one mode, it holds.
THEOREM ModesWithoutFlips == ModesAgree => (Spec => []ListenersHaveTheirMode)
<1> SUFFICES ASSUME ModesAgree PROVE Spec => []ListenersHaveTheirMode
  OBVIOUS
<1>1. Inv /\ ModeInv /\ [Next]_vars => ModeInv'
  BY ModeNext
<1>2. ASSUME Inv, ModeInv PROVE ListenersHaveTheirMode
  <2> SUFFICES ASSUME Settled, NEW m \in routes.maps
               PROVE  [port |-> m.port, tls |-> m.tls] \in active
    BY DEF ListenersHaveTheirMode
  <2>1. m \in snap /\ m.port \in PortsOf(active) /\ active \subseteq Listener
    BY <1>2 DEF Inv, Applied, Listening, Ran, TypeOK
  <2>2. PICK l \in active : l.port = m.port
    BY <2>1 DEF PortsOf
  <2>3. l.tls = m.tls
    BY <1>2, <2>1, <2>2 DEF ModeInv
  <2>4. l = [port |-> m.port, tls |-> m.tls]
    BY <2>1, <2>2, <2>3 DEF Listener
  <2> QED
    BY <2>4
<1> QED
  BY <1>1, <1>2, ModeInit, InvariantHolds, PTL DEF Spec
=============================================================================
