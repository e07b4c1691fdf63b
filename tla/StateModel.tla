----------------------------- MODULE StateModel -----------------------------
(***************************************************************************)
(* The dynamic state of rgdevenv (internal/store/model.go) and the pure    *)
(* functions the daemon computes on it: the port registry                  *)
(* (internal/registry), the structural and the configured validation       *)
(* (store.Validate, txn.Validate), and the candidate each mutation of the  *)
(* transaction manager builds (internal/txn/txn.go).                       *)
(*                                                                         *)
(* A State is relational here: the slices of the code become sets, and a   *)
(* mapping names the load balancer that holds it.  Slice order, timestamps *)
(* and the label of an allocation are left out: no decision of the code    *)
(* reads them.  AutoAllocated is left out too: it is always                *)
(* AllocationID # "".                                                      *)
(***************************************************************************)
EXTENDS Integers, FiniteSets

CONSTANTS
  Spellings,    \* hostnames as callers write them
  Names,        \* canonical hostnames
  Canon,        \* canon.Host: the canonical form of a spelling, or BadHost
  BadHost,      \* canon.Host returned an error
  Labels,       \* labels of load balancers
  Owners,       \* owner texts of manually reserved ports
  AllocIds,     \* what newID may return
  NoAlloc,      \* AllocationID = ""
  PoolStart, PoolEnd,                  \* [port_pool]
  HTTPSPort, HTTPPort, MgmtBindPort,   \* 0: no redirect port, no TCP bind
  MgmtHost,     \* management_hostname, or BadHost when it is not configured
  Texts,        \* what the string fields of an upstream hold
  AllowedHosts, \* hosts upstream.Policy accepts by name
  Requests      \* the mutations callers ask for

Pool == PoolStart .. PoolEnd

Upstream == [scheme : Texts, host : Texts, port : Int, mode : Texts, ca : Texts]

LoadBalancer == [name : Names, label : Labels]
Mapping == [lb : Names, port : Int, tls : BOOLEAN, up : Upstream,
            alloc : AllocIds \cup {NoAlloc}]
PortAllocation == [id : AllocIds, port : Int, owner : Names \cup Owners, auto : BOOLEAN]

State == [lbs : SUBSET LoadBalancer, maps : SUBSET Mapping,
          allocs : SUBSET PortAllocation]

\* The state of a daemon that finds no state file.
EmptyState == [lbs |-> {}, maps |-> {}, allocs |-> {}]

CreateLBRequest == [op : {"create_lb"}, name : Spellings, label : Labels]
UpdateLBRequest == [op : {"update_lb"}, name : Spellings, label : Labels]
DeleteLBRequest == [op : {"delete_lb"}, name : Spellings]
PutMappingRequest == [op : {"put_mapping"}, name : Spellings, port : Int, tls : BOOLEAN,
                      up : Upstream, allocate : BOOLEAN, replace : BOOLEAN]
DeleteMappingRequest == [op : {"delete_mapping"}, name : Spellings, port : Int]
AllocatePortRequest == [op : {"allocate_port"}, owner : Owners]
ReturnPortRequest == [op : {"return_port"}, port : Int]

Request == CreateLBRequest \cup UpdateLBRequest \cup DeleteLBRequest
             \cup PutMappingRequest \cup DeleteMappingRequest
             \cup AllocatePortRequest \cup ReturnPortRequest

\* A caller that asks for nothing.
NoRequest == [op |-> "none"]

\* What config.normalize guarantees of the ports, and the shape of the inputs.
ASSUME ConfigAssumption ==
  /\ PoolStart \in Nat /\ PoolEnd \in Nat
  /\ HTTPSPort \in Nat \ Pool /\ HTTPPort \in Nat /\ MgmtBindPort \in Nat
  /\ 1 <= PoolStart /\ PoolStart <= PoolEnd /\ PoolEnd <= 65535
  /\ HTTPPort > 0 => HTTPPort \notin Pool
  /\ MgmtBindPort > 0 => MgmtBindPort \notin Pool

ASSUME InputAssumption ==
  /\ Names \subseteq Spellings
  /\ Canon \in [Spellings -> Names \cup {BadHost}]
  /\ BadHost \notin Names
  /\ NoAlloc \notin AllocIds
  /\ {"http", "https", "localhost", "verify", ""} \subseteq Texts
  /\ "localhost" \in AllowedHosts
  /\ Requests \subseteq Request

-----------------------------------------------------------------------------
(* The port registry: internal/registry *)

LBNames(st) == {l.name : l \in st.lbs}

Referenced(st) == {m.alloc : m \in st.maps} \ {NoAlloc}

ReconcileReclaimsManual(st) ==
  [st EXCEPT !.allocs = {a \in @ : a.id \in Referenced(st)}]

\* registry.Reconcile: drop the automatic allocations that no mapping references.
Reconcile(st) ==
  [st EXCEPT !.allocs = {a \in @ : ~a.auto \/ a.id \in Referenced(st)}]

FreePorts(allocs) == Pool \ {a.port : a \in allocs}

\* registry.Allocate: the lowest free port (a set of at most one), under a new id.
Lowest(ports) == {p \in ports : \A q \in ports : p <= q}

Allocate(allocs, owner, auto) ==
  {[id |-> i, port |-> p, owner |-> owner, auto |-> auto] :
     i \in AllocIds, p \in Lowest(FreePorts(allocs))}

-----------------------------------------------------------------------------
(* Validation: internal/store/model.go and internal/txn/validate.go *)

UniqueKeys(st) ==
  /\ \A k, l \in st.lbs : k.name = l.name => k = l
  /\ \A m, n \in st.maps : m.lb = n.lb /\ m.port = n.port => m = n
  /\ \A a, b \in st.allocs : a.id = b.id \/ a.port = b.port => a = b

OneTLSMode(st) == \A m, n \in st.maps : m.port = n.port => m.tls = n.tls

NoDanglingReference(st) == Referenced(st) \subseteq {a.id : a \in st.allocs}

\* store.Validate, which startup and every commit run.
StoreValid(st) == UniqueKeys(st) /\ OneTLSMode(st) /\ NoDanglingReference(st)

IsPort(p) == 1 <= p /\ p <= 65535

ListenPortAnywhere(m) ==
  IsPort(m.port) /\ (m.port = HTTPSPort => m.tls)

ListenPortValid(m) ==
  /\ IsPort(m.port)
  /\ m.port \notin Pool
  /\ HTTPPort > 0 => m.port # HTTPPort
  /\ MgmtBindPort > 0 => m.port # MgmtBindPort
  /\ m.port = HTTPSPort => m.tls

\* upstream.Policy.AllowedHost: localhost, a loopback address, or an allowed name.
AllowedHost(host) == host \in AllowedHosts

\* upstream.ValidCAName and LoadCA together: cas holds the names whose PEM parses.
CALoads(name, cas) == name \in cas

UpstreamValid(up, cas) ==
  /\ up.scheme \in {"http", "https"}
  /\ IsPort(up.port)
  /\ AllowedHost(up.host)
  /\ up.mode \in {"", "verify", "skip", "ca"}
  /\ up.mode = "ca" => CALoads(up.ca, cas)

MappingValid(m, covered, cas) ==
  /\ ListenPortValid(m)
  /\ UpstreamValid(m.up, cas)
  /\ m.tls => m.lb \in covered

\* txn.Validate, on the whole candidate: covered is what the loaded certificates
\* cover, cas what the CA directory holds.
Validate(st, covered, cas) ==
  /\ StoreValid(st)
  /\ \A l \in st.lbs : Canon[l.name] = l.name /\ l.name # MgmtHost
  /\ \A m \in st.maps : MappingValid(m, covered, cas)

-----------------------------------------------------------------------------
(* The candidates: what each method of txn.Manager does to its clone of the *)
(* published snapshot.  Each returns the set of possible outcomes: a set,   *)
(* because newID is random.                                                 *)

Accept(st) == [err |-> "none", st |-> st]
Reject(st, code) == [err |-> code, st |-> st]

\* The upstream an automatic allocation is wired to.
Localhost(p) == [scheme |-> "http", host |-> "localhost", port |-> p,
                 mode |-> "verify", ca |-> ""]

CreateLBAsWritten(st, r) ==
  IF r.name \in LBNames(st) THEN {Reject(st, "duplicate_lb")}
  ELSE {Accept([st EXCEPT !.lbs = @ \cup {[name |-> r.name, label |-> r.label]}])}

CreateLB(st, r) ==
  IF Canon[r.name] \in LBNames(st) THEN {Reject(st, "duplicate_lb")}
  ELSE {Accept([st EXCEPT !.lbs = @ \cup {[name |-> Canon[r.name], label |-> r.label]}])}

UpdateLBLabel(st, r) ==
  IF Canon[r.name] \notin LBNames(st) THEN {Reject(st, "lb_not_found")}
  ELSE {Accept([st EXCEPT !.lbs = {l \in @ : l.name # Canon[r.name]}
                                    \cup {[name |-> Canon[r.name], label |-> r.label]}])}

DeleteLBKeepsAllocations(st, r) ==
  IF Canon[r.name] \notin LBNames(st) THEN {Reject(st, "lb_not_found")}
  ELSE {Accept([st EXCEPT !.lbs = {l \in @ : l.name # Canon[r.name]},
                          !.maps = {m \in @ : m.lb # Canon[r.name]}])}

DeleteLB(st, r) ==
  IF Canon[r.name] \notin LBNames(st) THEN {Reject(st, "lb_not_found")}
  ELSE {Accept(Reconcile([st EXCEPT !.lbs = {l \in @ : l.name # Canon[r.name]},
                                    !.maps = {m \in @ : m.lb # Canon[r.name]}]))}

NewMapping(r, up, alloc) ==
  [lb |-> Canon[r.name], port |-> r.port, tls |-> r.tls, up |-> up, alloc |-> alloc]

StoredAfterReconcile(st, m, allocs) ==
  [Reconcile(st) EXCEPT !.maps = {n \in @ : ~(n.lb = m.lb /\ n.port = m.port)} \cup {m},
                        !.allocs = @ \cup allocs]

Stored(st, m, allocs) ==
  Reconcile([st EXCEPT !.maps = {n \in @ : ~(n.lb = m.lb /\ n.port = m.port)} \cup {m},
                       !.allocs = @ \cup allocs])

HasMapping(st, name, port) == \E m \in st.maps : m.lb = name /\ m.port = port

\* Replacing a mapping that does not exist creates it, and the port of the
\* replaced mapping is freed only after the new one is allocated.
PutMapping(st, r) ==
  IF Canon[r.name] \notin LBNames(st) THEN {Reject(st, "lb_not_found")}
  ELSE IF ~r.replace /\ HasMapping(st, Canon[r.name], r.port)
    THEN {Reject(st, "mapping_exists")}
  ELSE IF ~r.allocate THEN {Accept(Stored(st, NewMapping(r, r.up, NoAlloc), {}))}
  ELSE IF FreePorts(st.allocs) = {} THEN {Reject(st, "pool_exhausted")}
  ELSE {Accept(Stored(st, NewMapping(r, Localhost(a.port), a.id), {a})) :
          a \in Allocate(st.allocs, Canon[r.name], TRUE)}

DeleteMapping(st, r) ==
  IF Canon[r.name] \notin LBNames(st) THEN {Reject(st, "lb_not_found")}
  ELSE IF ~HasMapping(st, Canon[r.name], r.port) THEN {Reject(st, "mapping_not_found")}
  ELSE {Accept(Reconcile([st EXCEPT !.maps =
                 {m \in @ : ~(m.lb = Canon[r.name] /\ m.port = r.port)}]))}

AllocatePort(st, r) ==
  IF FreePorts(st.allocs) = {} THEN {Reject(st, "pool_exhausted")}
  ELSE {Accept([st EXCEPT !.allocs = @ \cup {a}]) :
          a \in Allocate(st.allocs, r.owner, FALSE)}

ReturnPortInUse(st, r) ==
  LET held == {a \in st.allocs : a.port = r.port} IN
  IF held = {} THEN {Reject(st, "port_not_allocated")}
  ELSE {Accept([st EXCEPT !.allocs = @ \ held])}

ReturnPort(st, r) ==
  LET held == {a \in st.allocs : a.port = r.port} IN
  IF held = {} THEN {Reject(st, "port_not_allocated")}
  ELSE IF \E a \in held : a.id \in Referenced(st) THEN {Reject(st, "port_in_use")}
  ELSE {Accept([st EXCEPT !.allocs = @ \ held])}

\* The outcomes of one mutation, before validation.
Edits(st, r) ==
  CASE r.op = "create_lb"      -> CreateLB(st, r)
    [] r.op = "update_lb"      -> UpdateLBLabel(st, r)
    [] r.op = "delete_lb"      -> DeleteLB(st, r)
    [] r.op = "put_mapping"    -> PutMapping(st, r)
    [] r.op = "delete_mapping" -> DeleteMapping(st, r)
    [] r.op = "allocate_port"  -> AllocatePort(st, r)
    [] r.op = "return_port"    -> ReturnPort(st, r)

\* canon.Host runs before the lock is taken and fails the request on its own.
Malformed(r) == r.op \notin {"allocate_port", "return_port"} /\ Canon[r.name] = BadHost

-----------------------------------------------------------------------------
(* What a state must satisfy beyond store.Validate *)

\* Every mapping wired to an allocation names an automatic one of its own load
\* balancer, and proxies to exactly the port that allocation reserves.
ReferencesResolve(st) ==
  \A m \in st.maps : m.alloc # NoAlloc =>
    \E a \in st.allocs : /\ a.id = m.alloc
                         /\ a.auto
                         /\ a.owner = m.lb
                         /\ m.up = Localhost(a.port)

\* No automatic allocation outlives its mapping, and no two mappings share one.
AllocationsOwned(st) ==
  /\ \A a \in st.allocs : a.auto => a.id \in Referenced(st)
  /\ \A m, n \in st.maps : m.alloc = n.alloc /\ m.alloc # NoAlloc => m = n

\* Allocations are of distinct ports of the pool, and listeners stay out of it.
PoolSound(st) ==
  /\ \A a \in st.allocs : a.port \in Pool
  /\ \A a, b \in st.allocs : a.port = b.port => a = b
  /\ \A m \in st.maps : m.port \notin Pool

Sound(st) ==
  StoreValid(st) /\ ReferencesResolve(st) /\ AllocationsOwned(st) /\ PoolSound(st)
=============================================================================
