-------------------------- MODULE TxnManager_proofs --------------------------
(***************************************************************************)
(* Proofs about the transaction manager, for any callers, names, ports,    *)
(* pool, requests, files, failures and crashes.                            *)
(***************************************************************************)
EXTENDS TxnManager, TLAPS

(* What a candidate satisfies before validation: if store.Validate accepts it, *)
(* the registry and the mappings agree.                                        *)
Wired(st) ==
  /\ \A a \in st.allocs : a.port \in Pool
  /\ StoreValid(st) => ReferencesResolve(st) /\ AllocationsOwned(st)

-----------------------------------------------------------------------------
(* Lemmas on the operators of StateModel *)

\* registry.Reconcile touches only the allocations, and only removes.
LEMMA ReconcileFields ==
  ASSUME NEW st \in State
  PROVE  /\ Reconcile(st) \in State
         /\ Reconcile(st).lbs = st.lbs
         /\ Reconcile(st).maps = st.maps
         /\ Reconcile(st).allocs = {a \in st.allocs : ~a.auto \/ a.id \in Referenced(st)}
BY DEF Reconcile, State

\* registry.Allocate returns free ports of the pool.
LEMMA AllocateFree ==
  ASSUME NEW allocs \in SUBSET PortAllocation, NEW owner, NEW auto,
         NEW a \in Allocate(allocs, owner, auto)
  PROVE  /\ a.owner = owner
         /\ a.id \in AllocIds
         /\ a.port \in Pool
         /\ \A b \in allocs : b.port # a.port
BY DEF Allocate, Lowest, FreePorts

\* What PutMapping allocates belongs to the mapping's load balancer.
LEMMA AllocateAuto ==
  ASSUME NEW allocs \in SUBSET PortAllocation, NEW owner \in Names,
         NEW a \in Allocate(allocs, owner, TRUE)
  PROVE  a \in PortAllocation /\ a.auto
<1>1. PICK i \in AllocIds, p \in Pool :
             a = [id |-> i, port |-> p, owner |-> owner, auto |-> TRUE]
  BY DEF Allocate, Lowest, FreePorts
<1>2. p \in Int
  BY ConfigAssumption DEF Pool
<1>3. a \in PortAllocation
  BY <1>1, <1>2 DEF PortAllocation
<1>4. a.auto = TRUE
  BY <1>1
<1>. QED BY <1>3, <1>4

\* What AllocatePort reserves is manual.
LEMMA AllocateManual ==
  ASSUME NEW allocs \in SUBSET PortAllocation, NEW owner \in Owners,
         NEW a \in Allocate(allocs, owner, FALSE)
  PROVE  a \in PortAllocation /\ ~a.auto
<1>1. PICK i \in AllocIds, p \in Pool :
             a = [id |-> i, port |-> p, owner |-> owner, auto |-> FALSE]
  BY DEF Allocate, Lowest, FreePorts
<1>2. p \in Int
  BY ConfigAssumption DEF Pool
<1>3. a \in PortAllocation
  BY <1>1, <1>2 DEF PortAllocation
<1>4. a.auto = FALSE
  BY <1>1
<1>. QED BY <1>3, <1>4

-----------------------------------------------------------------------------
(* Each mutation keeps the type of a sound state and wires its candidate *)

\* Removing mappings and then reconciling keeps the registry and the mappings in
\* step: DeleteLB and DeleteMapping.
LEMMA RemovalWired ==
  ASSUME NEW st \in State, Sound(st), NEW L \in SUBSET st.lbs, NEW M \in SUBSET st.maps,
         NEW c \in State, c.maps = M, c.allocs = st.allocs
  PROVE  Reconcile(c) \in State /\ Wired(Reconcile(c))
<1>. DEFINE d == Reconcile(c)
<1>1. /\ d \in State /\ d.maps = M
      /\ d.allocs = {a \in st.allocs : ~a.auto \/ a.id \in Referenced(c)}
  BY ReconcileFields
<1>2. \A a \in d.allocs : a.port \in Pool
  BY <1>1 DEF Sound, PoolSound
<1>3. Referenced(d) = Referenced(c)
  BY <1>1 DEF Referenced
<1>4. ReferencesResolve(d)
  <2>. SUFFICES ASSUME NEW m \in M, m.alloc # NoAlloc
                PROVE  \E a \in d.allocs : /\ a.id = m.alloc /\ a.auto
                                           /\ a.owner = m.lb /\ m.up = Localhost(a.port)
    BY <1>1 DEF ReferencesResolve
  <2>1. PICK a \in st.allocs : /\ a.id = m.alloc /\ a.auto
                               /\ a.owner = m.lb /\ m.up = Localhost(a.port)
    BY DEF Sound, ReferencesResolve
  <2>2. a.id \in Referenced(c)
    BY <2>1 DEF Referenced
  <2>. QED BY <1>1, <2>1, <2>2
<1>5. AllocationsOwned(d)
  BY <1>1, <1>3 DEF AllocationsOwned, Sound
<1>. QED BY <1>1, <1>2, <1>4, <1>5 DEF Wired

\* CreateLB leaves mappings and allocations alone.
LEMMA CreateLBWired ==
  ASSUME NEW st \in State, Sound(st), NEW r \in CreateLBRequest, ~Malformed(r),
         NEW o \in CreateLB(st, r)
  PROVE  o.st \in State /\ o.err \in Answers /\ Wired(o.st)
<1>1. Canon[r.name] \in Names
  BY InputAssumption DEF Malformed, CreateLBRequest
<1>2. o.st \in State /\ o.err \in Answers
  BY <1>1 DEF CreateLB, Accept, Reject, State, LoadBalancer, CreateLBRequest, Answers
<1>3. o.st.maps = st.maps /\ o.st.allocs = st.allocs
  BY DEF CreateLB, Accept, Reject, State
<1>4. Wired(o.st)
  BY <1>3 DEF Wired, Sound, PoolSound, ReferencesResolve, AllocationsOwned, Referenced
<1>. QED BY <1>2, <1>4

\* UpdateLBLabel leaves mappings and allocations alone.
LEMMA UpdateLBWired ==
  ASSUME NEW st \in State, Sound(st), NEW r \in UpdateLBRequest, ~Malformed(r),
         NEW o \in UpdateLBLabel(st, r)
  PROVE  o.st \in State /\ o.err \in Answers /\ Wired(o.st)
<1>1. Canon[r.name] \in Names
  BY InputAssumption DEF Malformed, UpdateLBRequest
<1>2. o.st \in State /\ o.err \in Answers
  BY <1>1 DEF UpdateLBLabel, Accept, Reject, State, LoadBalancer, UpdateLBRequest, Answers
<1>3. o.st.maps = st.maps /\ o.st.allocs = st.allocs
  BY DEF UpdateLBLabel, Accept, Reject, State
<1>4. Wired(o.st)
  BY <1>3 DEF Wired, Sound, PoolSound, ReferencesResolve, AllocationsOwned, Referenced
<1>. QED BY <1>2, <1>4

\* A refused mutation keeps the state, which is wired when it is sound.
LEMMA RejectWired ==
  ASSUME NEW st \in State, Sound(st), NEW code \in Answers
  PROVE  /\ Reject(st, code).st \in State /\ Reject(st, code).err \in Answers
         /\ Wired(Reject(st, code).st)
BY DEF Reject, Wired, Sound, PoolSound

\* DeleteLB cascades to the mappings and to the automatic ports of the name.
LEMMA DeleteLBWired ==
  ASSUME NEW st \in State, Sound(st), NEW r \in DeleteLBRequest, NEW o \in DeleteLB(st, r)
  PROVE  o.st \in State /\ o.err \in Answers /\ Wired(o.st)
<1>. DEFINE c == [st EXCEPT !.lbs = {l \in @ : l.name # Canon[r.name]},
                            !.maps = {m \in @ : m.lb # Canon[r.name]}]
<1>1. o = Reject(st, "lb_not_found") \/ o = Accept(Reconcile(c))
  BY DEF DeleteLB
<1>2. /\ c \in State /\ c.allocs = st.allocs
      /\ c.maps = {m \in st.maps : m.lb # Canon[r.name]}
  BY DEF State
<1>3. Reconcile(c) \in State /\ Wired(Reconcile(c))
  <2>. HIDE DEF c
  <2>. QED BY <1>2, RemovalWired
<1>4. CASE o = Accept(Reconcile(c))
  BY <1>3, <1>4 DEF Accept, Answers
<1>5. CASE o = Reject(st, "lb_not_found")
  BY <1>5, RejectWired DEF Answers
<1>. QED BY <1>1, <1>4, <1>5

\* DeleteMapping cascades to the automatic port of the mapping.
LEMMA DeleteMappingWired ==
  ASSUME NEW st \in State, Sound(st), NEW r \in DeleteMappingRequest,
         NEW o \in DeleteMapping(st, r)
  PROVE  o.st \in State /\ o.err \in Answers /\ Wired(o.st)
<1>. DEFINE c == [st EXCEPT !.maps = {m \in @ : ~(m.lb = Canon[r.name] /\ m.port = r.port)}]
<1>1. \/ o = Reject(st, "lb_not_found") \/ o = Reject(st, "mapping_not_found")
      \/ o = Accept(Reconcile(c))
  BY DEF DeleteMapping
<1>2. /\ c \in State /\ c.allocs = st.allocs
      /\ c.maps = {m \in st.maps : ~(m.lb = Canon[r.name] /\ m.port = r.port)}
  BY DEF State
<1>3. Reconcile(c) \in State /\ Wired(Reconcile(c))
  <2>. HIDE DEF c
  <2>. QED BY <1>2, RemovalWired
<1>4. CASE o = Accept(Reconcile(c))
  BY <1>3, <1>4 DEF Accept, Answers
<1>5. CASE o = Reject(st, "lb_not_found") \/ o = Reject(st, "mapping_not_found")
  BY <1>5, RejectWired DEF Answers
<1>. QED BY <1>1, <1>4, <1>5

\* AllocatePort adds a manual reservation of a free port of the pool.
LEMMA AllocatePortWired ==
  ASSUME NEW st \in State, Sound(st), NEW r \in AllocatePortRequest,
         NEW o \in AllocatePort(st, r)
  PROVE  o.st \in State /\ o.err \in Answers /\ Wired(o.st)
<1>1. CASE o = Reject(st, "pool_exhausted")
  BY <1>1, RejectWired DEF Answers
<1>2. CASE o # Reject(st, "pool_exhausted")
  <2>. DEFINE c(a) == [st EXCEPT !.allocs = @ \cup {a}]
  <2>1. PICK a \in Allocate(st.allocs, r.owner, FALSE) : o = Accept(c(a))
    BY <1>2 DEF AllocatePort
  <2>2. a \in PortAllocation /\ ~a.auto /\ a.port \in Pool
    <3>1. st.allocs \in SUBSET PortAllocation /\ r.owner \in Owners
      BY DEF State, AllocatePortRequest
    <3>. QED BY <3>1, AllocateFree, AllocateManual
  <2>3. c(a) \in State /\ c(a).maps = st.maps /\ c(a).allocs = st.allocs \cup {a}
    BY <2>2 DEF State
  <2>4. Wired(c(a))
    <3>. HIDE DEF c
    <3>. QED BY <2>2, <2>3
      DEF Wired, Sound, PoolSound, ReferencesResolve, AllocationsOwned, Referenced
  <2>. HIDE DEF c
  <2>. QED BY <2>1, <2>3, <2>4 DEF Accept, Answers
<1>. QED BY <1>1, <1>2

\* ReturnPort takes only what no mapping is wired to.
LEMMA ReturnPortWired ==
  ASSUME NEW st \in State, Sound(st), NEW r \in ReturnPortRequest,
         NEW o \in ReturnPort(st, r)
  PROVE  o.st \in State /\ o.err \in Answers /\ Wired(o.st)
<1>. DEFINE held == {a \in st.allocs : a.port = r.port}
            c == [st EXCEPT !.allocs = @ \ held]
<1>1. CASE o = Reject(st, "port_not_allocated") \/ o = Reject(st, "port_in_use")
  BY <1>1, RejectWired DEF Answers
<1>2. CASE o = Accept(c) /\ \A a \in held : a.id \notin Referenced(st)
  <2>1. c \in State /\ c.maps = st.maps /\ c.allocs = st.allocs \ held
    BY DEF State
  <2>2. \A m \in st.maps, a \in st.allocs : a.id = m.alloc /\ m.alloc # NoAlloc => a \notin held
    BY <1>2 DEF Referenced
  <2>3. Wired(c)
    <3>. HIDE DEF c, held
    <3>. QED BY <2>1, <2>2
      DEF Wired, Sound, PoolSound, ReferencesResolve, AllocationsOwned, Referenced
  <2>. HIDE DEF c, held
  <2>. QED BY <1>2, <2>1, <2>3 DEF Accept, Answers
<1>. QED BY <1>1, <1>2 DEF ReturnPort

\* PutMapping without allocate stores an explicit upstream; the port of a
\* replaced mapping is reclaimed.
LEMMA PutExplicitWired ==
  ASSUME NEW st \in State, Sound(st), NEW m \in Mapping, m.alloc = NoAlloc
  PROVE  Stored(st, m, {}) \in State /\ Wired(Stored(st, m, {}))
<1>. DEFINE c == [st EXCEPT !.maps = {n \in @ : ~(n.lb = m.lb /\ n.port = m.port)} \cup {m},
                            !.allocs = @ \cup {}]
            d == Reconcile(c)
<1>1. /\ c \in State /\ c.allocs = st.allocs
      /\ c.maps = {n \in st.maps : ~(n.lb = m.lb /\ n.port = m.port)} \cup {m}
  BY DEF State
<1>2. d = Stored(st, m, {})
  BY DEF Stored
<1>. HIDE DEF c
<1>3. /\ d \in State /\ d.maps = c.maps
      /\ d.allocs = {a \in st.allocs : ~a.auto \/ a.id \in Referenced(c)}
  BY <1>1, ReconcileFields
<1>. HIDE DEF d
<1>4. \A a \in d.allocs : a.port \in Pool
  BY <1>3 DEF Sound, PoolSound
<1>5. ReferencesResolve(d)
  <2>. SUFFICES ASSUME NEW n \in c.maps, n.alloc # NoAlloc
                PROVE  \E a \in d.allocs : /\ a.id = n.alloc /\ a.auto
                                           /\ a.owner = n.lb /\ n.up = Localhost(a.port)
    BY <1>3 DEF ReferencesResolve
  <2>1. n \in st.maps /\ n.alloc \in Referenced(c)
    BY <1>1 DEF Referenced
  <2>2. PICK a \in st.allocs : /\ a.id = n.alloc /\ a.auto
                               /\ a.owner = n.lb /\ n.up = Localhost(a.port)
    BY <2>1 DEF Sound, ReferencesResolve
  <2>. QED BY <1>3, <2>1, <2>2
<1>6. AllocationsOwned(d)
  BY <1>1, <1>3 DEF AllocationsOwned, Sound, Referenced
<1>. QED BY <1>2, <1>3, <1>4, <1>5, <1>6 DEF Wired

\* PutMapping with allocate wires the new mapping to the new allocation. Should the
\* random id collide with a live one, store.Validate refuses the candidate.
LEMMA PutAllocatedWired ==
  ASSUME NEW st \in State, Sound(st), NEW m \in Mapping,
         NEW a \in Allocate(st.allocs, m.lb, TRUE),
         m.alloc = a.id, m.up = Localhost(a.port)
  PROVE  Stored(st, m, {a}) \in State /\ Wired(Stored(st, m, {a}))
<1>. DEFINE c == [st EXCEPT !.maps = {n \in @ : ~(n.lb = m.lb /\ n.port = m.port)} \cup {m},
                            !.allocs = @ \cup {a}]
            d == Reconcile(c)
<1>0. /\ a \in PortAllocation /\ a.owner = m.lb /\ a.auto /\ a.port \in Pool
      /\ \A b \in st.allocs : b.port # a.port
  <2>1. m.lb \in Names
    BY DEF Mapping
  <2>2. st.allocs \in SUBSET PortAllocation
    BY DEF State
  <2>3. a \in PortAllocation /\ a.auto
    BY <2>1, <2>2, AllocateAuto
  <2>4. a.owner = m.lb /\ a.port \in Pool /\ \A b \in st.allocs : b.port # a.port
    BY <2>2 DEF Allocate, Lowest, FreePorts
  <2>. QED BY <2>3, <2>4
<1>1. /\ c \in State /\ c.allocs = st.allocs \cup {a}
      /\ c.maps = {n \in st.maps : ~(n.lb = m.lb /\ n.port = m.port)} \cup {m}
  BY <1>0 DEF State
<1>2. d = Stored(st, m, {a})
  BY DEF Stored
<1>. HIDE DEF c
<1>3. /\ d \in State /\ d.maps = c.maps
      /\ d.allocs = {b \in st.allocs \cup {a} : ~b.auto \/ b.id \in Referenced(c)}
  BY <1>1, ReconcileFields
<1>. HIDE DEF d
<1>4. \A b \in d.allocs : b.port \in Pool
  BY <1>0, <1>3 DEF Sound, PoolSound
<1>5. m.alloc \in Referenced(c) /\ a \in d.allocs
  BY <1>0, <1>1, <1>3, InputAssumption DEF Referenced, PortAllocation
<1>6. ASSUME NEW n \in c.maps, n.alloc # NoAlloc, n # m
      PROVE  \E b \in d.allocs : /\ b \in st.allocs /\ b.id = n.alloc /\ b.auto
                                 /\ b.owner = n.lb /\ n.up = Localhost(b.port)
  <2>1. n \in st.maps /\ n.alloc \in Referenced(c)
    BY <1>1, <1>6 DEF Referenced
  <2>2. PICK b \in st.allocs : /\ b.id = n.alloc /\ b.auto
                               /\ b.owner = n.lb /\ n.up = Localhost(b.port)
    BY <1>6, <2>1 DEF Sound, ReferencesResolve
  <2>. QED BY <1>3, <2>1, <2>2
<1>7. ReferencesResolve(d)
  BY <1>0, <1>3, <1>5, <1>6 DEF ReferencesResolve
<1>8. ASSUME StoreValid(d)
      PROVE  AllocationsOwned(d)
  <2>1. ASSUME NEW n \in c.maps, n.alloc = m.alloc
        PROVE  n = m
    <3>. SUFFICES ASSUME n # m PROVE FALSE
      OBVIOUS
    <3>1. n.alloc # NoAlloc
      BY <1>5, <2>1 DEF Referenced
    <3>2. PICK b \in d.allocs : b \in st.allocs /\ b.id = a.id
      BY <1>6, <2>1, <3>1
    <3>3. b = a
      BY <1>5, <1>8, <3>2 DEF StoreValid, UniqueKeys
    <3>. QED BY <1>0, <3>2, <3>3
  <2>2. \A n, k \in c.maps : n.alloc = k.alloc /\ n.alloc # NoAlloc => n = k
    BY <1>1, <2>1 DEF Sound, AllocationsOwned
  <2>. QED BY <1>3, <2>2 DEF AllocationsOwned, Referenced
<1>. QED BY <1>2, <1>3, <1>4, <1>7, <1>8 DEF Wired

\* PutMapping, with an explicit or an allocated upstream, new or replacing, keeps
\* the type and wires the candidate.
LEMMA PutMappingWired ==
  ASSUME NEW st \in State, Sound(st), NEW r \in PutMappingRequest, ~Malformed(r),
         NEW o \in PutMapping(st, r)
  PROVE  o.st \in State /\ o.err \in Answers /\ Wired(o.st)
<1>1. Canon[r.name] \in Names
  BY InputAssumption DEF Malformed, PutMappingRequest
<1>2. CASE \E code \in {"lb_not_found", "mapping_exists", "pool_exhausted"} :
             o = Reject(st, code)
  BY <1>2, RejectWired DEF Answers
<1>3. CASE o = Accept(Stored(st, NewMapping(r, r.up, NoAlloc), {}))
  <2>1. NewMapping(r, r.up, NoAlloc) \in Mapping /\ NewMapping(r, r.up, NoAlloc).alloc = NoAlloc
    BY <1>1 DEF NewMapping, Mapping, PutMappingRequest
  <2>. QED BY <1>3, <2>1, PutExplicitWired DEF Accept, Answers
<1>4. CASE \E a \in Allocate(st.allocs, Canon[r.name], TRUE) :
             o = Accept(Stored(st, NewMapping(r, Localhost(a.port), a.id), {a}))
  <2>1. PICK a \in Allocate(st.allocs, Canon[r.name], TRUE) :
             o = Accept(Stored(st, NewMapping(r, Localhost(a.port), a.id), {a}))
    BY <1>4
  <2>. DEFINE m == NewMapping(r, Localhost(a.port), a.id)
  <2>2. a \in PortAllocation
    BY <1>1, AllocateAuto DEF State
  <2>3. m \in Mapping /\ m.lb = Canon[r.name] /\ m.alloc = a.id /\ m.up = Localhost(a.port)
    <3>1. a.id \in AllocIds /\ a.port \in Int
      BY <2>2 DEF PortAllocation
    <3>2. Localhost(a.port) \in Upstream
      BY <3>1, InputAssumption DEF Localhost, Upstream
    <3>3. r.port \in Int /\ r.tls \in BOOLEAN
      BY DEF PutMappingRequest
    <3>. QED BY <1>1, <3>1, <3>2, <3>3 DEF NewMapping, Mapping
  <2>4. Stored(st, m, {a}) \in State /\ Wired(Stored(st, m, {a}))
    <3>. HIDE DEF m
    <3>. QED BY <2>3, PutAllocatedWired
  <2>. QED BY <2>1, <2>4 DEF Accept, Answers
<1>. QED BY <1>2, <1>3, <1>4 DEF PutMapping

\* Every mutation of a sound state.
LEMMA EditsWired ==
  ASSUME NEW st \in State, Sound(st), NEW r \in Requests, ~Malformed(r),
         NEW o \in Edits(st, r)
  PROVE  o.st \in State /\ o.err \in Answers /\ Wired(o.st)
<1>1. r \in Request
  BY InputAssumption
<1>2. CASE r \in CreateLBRequest
  BY <1>2, CreateLBWired DEF Edits, CreateLBRequest
<1>3. CASE r \in UpdateLBRequest
  BY <1>3, UpdateLBWired DEF Edits, UpdateLBRequest
<1>4. CASE r \in DeleteLBRequest
  BY <1>4, DeleteLBWired DEF Edits, DeleteLBRequest
<1>5. CASE r \in PutMappingRequest
  BY <1>5, PutMappingWired DEF Edits, PutMappingRequest
<1>6. CASE r \in DeleteMappingRequest
  BY <1>6, DeleteMappingWired DEF Edits, DeleteMappingRequest
<1>7. CASE r \in AllocatePortRequest
  BY <1>7, AllocatePortWired DEF Edits, AllocatePortRequest
<1>8. CASE r \in ReturnPortRequest
  BY <1>8, ReturnPortWired DEF Edits, ReturnPortRequest
<1>. QED BY <1>1, <1>2, <1>3, <1>4, <1>5, <1>6, <1>7, <1>8 DEF Request

\* validateMapping keeps listeners out of the pool.
LEMMA ListenPortOutsidePool ==
  ASSUME NEW m \in Mapping, ListenPortValid(m)
  PROVE  m.port \notin Pool
BY DEF ListenPortValid

\* txn.Validate turns a wired candidate into a sound state.
LEMMA ValidatedSound ==
  ASSUME NEW st \in State, Wired(st), NEW C, NEW A, Validate(st, C, A)
  PROVE  Sound(st)
<1>1. StoreValid(st) /\ \A m \in st.maps : MappingValid(m, C, A)
  BY DEF Validate
<1>2. ReferencesResolve(st) /\ AllocationsOwned(st) /\ \A a \in st.allocs : a.port \in Pool
  BY <1>1 DEF Wired
<1>3. \A a, b \in st.allocs : a.port = b.port => a = b
  BY <1>1 DEF StoreValid, UniqueKeys
<1>4. \A m \in st.maps : m.port \notin Pool
  <2>. TAKE m \in st.maps
  <2>1. ListenPortValid(m)
    BY <1>1 DEF MappingValid
  <2>2. m \in Mapping
    BY DEF State
  <2>. QED BY <2>1, <2>2, ListenPortOutsidePool
<1>. QED BY <1>1, <1>2, <1>3, <1>4 DEF Sound, PoolSound

\* Reconciling a sound state changes nothing.
LEMMA SoundIsReconciled ==
  ASSUME NEW st \in State, Sound(st)
  PROVE  Reconcile(st) = st
<1>1. {a \in st.allocs : ~a.auto \/ a.id \in Referenced(st)} = st.allocs
  BY DEF Sound, AllocationsOwned
<1>. QED BY <1>1 DEF Reconcile, State

-----------------------------------------------------------------------------
(* The inductive invariant *)

\* A caller that waits for the lock has a request whose name has a canonical form.
RequestsWellFormed ==
  \A c \in Callers : pc[c] = "lock" => req[c] \in Requests /\ ~Malformed(req[c])

\* A candidate is wired as soon as it is built, sound once it is validated, in
\* the state file once renamed, and its only content once the directory is synced.
CandidateProgress ==
  \A c \in Callers :
    /\ pc[c] = "check" => Wired(cand[c])
    /\ pc[c] \in {"rename", "syncdir", "publish", "apply"} => Sound(cand[c])
    /\ pc[c] = "syncdir" => file = cand[c]
    /\ pc[c] = "publish" => survivors = {cand[c]}

\* Nothing is under way in a daemon that is down.
DownIsIdle == ~running => \A c \in Callers : pc[c] = "idle"

Inv ==
  TypeOK /\ Serialized /\ DownIsIdle /\ RequestsWellFormed /\ CandidateProgress
    /\ PublishedSound /\ DiskRecoverable

\* The state of a first start is sound.
LEMMA EmptyStateSound == EmptyState \in State /\ Sound(EmptyState)
BY DEF EmptyState, State, Sound, StoreValid, UniqueKeys, OneTLSMode, NoDanglingReference,
       Referenced, ReferencesResolve, AllocationsOwned, PoolSound

\* The invariant holds before the first start.
LEMMA InitInv == Init => Inv
<1>. SUFFICES ASSUME Init PROVE Inv
  OBVIOUS
<1>. USE DEF Init
<1>1. TypeOK
  <2>1. running \in BOOLEAN
    OBVIOUS
  <2>2. snap \in State /\ served \in State /\ file \in State /\ survivors \in SUBSET State
    BY EmptyStateSound, ManagerAssumption
  <2>3. events \in 0 .. MaxEvents
    BY ManagerAssumption
  <2>4. /\ lock \in SUBSET Callers
        /\ pc \in [Callers -> Steps]
        /\ req \in [Callers -> Requests \cup {NoRequest}]
        /\ cand \in [Callers -> State \cup {NoState}]
        /\ resp \in [Callers -> Answers]
        /\ covered \in CertSets /\ cas \in CASets
    BY DEF Steps, Answers
  <2>5. main = "idle" /\ mainSt = NoState /\ overtaken \in BOOLEAN
    OBVIOUS
  <2>. QED BY <2>1, <2>2, <2>3, <2>4, <2>5 DEF TypeOK
<1>2. Serialized
  BY DEF Serialized, Critical
<1>3. DownIsIdle /\ RequestsWellFormed /\ CandidateProgress /\ PublishedSound
  BY DEF DownIsIdle, RequestsWellFormed, CandidateProgress, PublishedSound
<1>4. DiskRecoverable
  BY ManagerAssumption DEF DiskRecoverable
<1>. QED BY <1>1, <1>2, <1>3, <1>4 DEF Inv

-----------------------------------------------------------------------------
(* Start and crash *)

\* A start, with or without the repair of startup and its failed save, keeps it.
LEMMA StartInv == Inv /\ (Start \/ StartRepaired \/ StartFails) => Inv'
<1>. SUFFICES ASSUME Inv, Start \/ StartRepaired \/ StartFails PROVE Inv'
  OBVIOUS
<1>. DEFINE repaired == Reconcile(file)
<1>1. /\ file \in State /\ StoreValid(file) /\ repaired \in State
      /\ Sound(repaired) /\ StoreValid(repaired) /\ Reconcile(repaired) = repaired
  BY ReconcileFields, SoundIsReconciled DEF Inv, TypeOK, DiskRecoverable, Sound
<1>. HIDE DEF repaired
<1>2. /\ snap' \in {snap, repaired} /\ UNCHANGED <<served, overtaken>>
      /\ \/ main' = "apply" /\ mainSt' = repaired
         \/ UNCHANGED <<main, mainSt>>
      /\ file' \in {file, repaired} /\ survivors' \subseteq survivors \cup {repaired}
      /\ running' \in BOOLEAN /\ (running' => snap' = repaired)
      /\ events' \in 0 .. MaxEvents
      /\ UNCHANGED <<lock, pc, req, cand, resp, env>>
  <2>1. CASE Start
    BY <2>1, <1>1 DEF Start, Applies, Inv, TypeOK, disk, repaired
  <2>2. CASE StartRepaired
    BY <2>2 DEF StartRepaired, Applies, Inv, TypeOK, repaired
  <2>3. CASE StartFails
    BY <2>3, ManagerAssumption DEF StartFails, Inv, TypeOK, disk, proxy, repaired
  <2>. QED BY <2>1, <2>2, <2>3
<1>3. ~running
  BY DEF Start, StartRepaired, StartFails
<1>4. TypeOK'
  BY <1>1, <1>2 DEF Inv, TypeOK, env
<1>5. Serialized' /\ RequestsWellFormed' /\ DownIsIdle' /\ CandidateProgress'
  BY <1>2, <1>3
    DEF Inv, Serialized, Critical, RequestsWellFormed, DownIsIdle, CandidateProgress
<1>6. PublishedSound'
  BY <1>1, <1>2 DEF PublishedSound
<1>7. DiskRecoverable'
  BY <1>1, <1>2 DEF Inv, DiskRecoverable
<1>. QED BY <1>4, <1>5, <1>6, <1>7 DEF Inv

\* A crash leaves a file that may be started from, and nothing else.
LEMMA CrashInv == Inv /\ Crash => Inv'
<1>. SUFFICES ASSUME Inv, Crash PROVE Inv'
  OBVIOUS
<1>. USE DEF Crash, disk, env
<1>1. file' \in survivors \cup {file} /\ survivors' \subseteq survivors \cup {file}
  BY DEF Inv, TypeOK
<1>2. TypeOK'
  <2>1. running' \in BOOLEAN
    OBVIOUS
  <2>2. snap' \in State /\ served' \in State /\ file' \in State /\ survivors' \in SUBSET State
    BY <1>1, EmptyStateSound DEF Inv, TypeOK
  <2>3. events' \in 0 .. MaxEvents
    BY ManagerAssumption DEF Inv, TypeOK
  <2>4. /\ lock' \in SUBSET Callers
        /\ pc' \in [Callers -> Steps]
        /\ req' \in [Callers -> Requests \cup {NoRequest}]
        /\ cand' \in [Callers -> State \cup {NoState}]
        /\ resp' \in [Callers -> Answers]
    BY DEF Steps, Answers
  <2>5. covered' \in CertSets /\ cas' \in CASets
    BY DEF Inv, TypeOK
  <2>6. main' = "idle" /\ mainSt' = NoState /\ overtaken' \in BOOLEAN
    OBVIOUS
  <2>. QED BY <2>1, <2>2, <2>3, <2>4, <2>5, <2>6 DEF TypeOK
<1>3. Serialized' /\ RequestsWellFormed' /\ DownIsIdle' /\ CandidateProgress' /\ PublishedSound'
  BY DEF Serialized, Critical, RequestsWellFormed, DownIsIdle, CandidateProgress, PublishedSound
<1>4. DiskRecoverable'
  BY <1>1 DEF Inv, DiskRecoverable
<1>. QED BY <1>2, <1>3, <1>4 DEF Inv

\* What runs without the lock, main's applies, reloaded certificates and changed CA
\* files, disturbs no part of the invariant.
LEMMA EnvironmentInv == Inv /\ (Outside \/ UNCHANGED vars) => Inv'
<1>. SUFFICES ASSUME Inv, Outside \/ UNCHANGED vars PROVE Inv'
  OBVIOUS
<1>1. UNCHANGED <<running, snap, file, survivors, lock, pc, req, cand, resp>>
  BY DEF Outside, ReloadCerts, MainRead, MainApply, ChangeCAs, vars, disk
<1>2. events' \in 0 .. MaxEvents /\ covered' \in CertSets /\ cas' \in CASets
  BY ManagerAssumption
    DEF Outside, ReloadCerts, MainRead, MainApply, ChangeCAs, vars, env, Inv, TypeOK
<1>3. /\ served' \in State /\ overtaken' \in BOOLEAN
      /\ main' \in {"idle", "read", "apply"}
      /\ mainSt' \in (IF main' = "apply" THEN State ELSE {NoState})
  <2>1. CASE ReloadCerts
    BY <2>1 DEF ReloadCerts, Inv, TypeOK
  <2>2. CASE MainRead
    BY <2>2 DEF MainRead, Applies, Inv, TypeOK
  <2>3. CASE MainApply
    BY <2>3 DEF MainApply, Inv, TypeOK
  <2>4. CASE ChangeCAs \/ UNCHANGED vars
    BY <2>4 DEF ChangeCAs, vars, proxy, Inv, TypeOK
  <2>. QED BY <2>1, <2>2, <2>3, <2>4 DEF Outside
<1>4. TypeOK'
  BY <1>1, <1>2, <1>3 DEF Inv, TypeOK
<1>5. Serialized' /\ RequestsWellFormed' /\ DownIsIdle' /\ CandidateProgress'
  BY <1>1
    DEF Inv, Serialized, Critical, RequestsWellFormed, DownIsIdle, CandidateProgress
<1>6. PublishedSound' /\ DiskRecoverable'
  BY <1>1 DEF Inv, PublishedSound, DiskRecoverable
<1>. QED BY <1>4, <1>5, <1>6 DEF Inv

-----------------------------------------------------------------------------
(* The steps of a mutation *)

\* A request that arrives holds no lock and has no candidate yet.
LEMMA CallInv ==
  ASSUME Inv, NEW c \in Callers, NEW r \in Requests, Call(c, r)
  PROVE  Inv'
<1>. USE DEF Call, disk, env, proxy
<1>1. TypeOK'
  BY DEF Inv, TypeOK, Steps, Answers
<1>2. Serialized'
  BY DEF Inv, TypeOK, Serialized, Critical
<1>3. RequestsWellFormed' /\ DownIsIdle' /\ CandidateProgress'
  BY DEF Inv, TypeOK, RequestsWellFormed, DownIsIdle, CandidateProgress
<1>4. PublishedSound' /\ DiskRecoverable'
  BY DEF Inv, PublishedSound, DiskRecoverable
<1>. QED BY <1>1, <1>2, <1>3, <1>4 DEF Inv

\* A request that ends: what Finish does to the parts of the invariant that
\* speak of callers.
LEMMA FinishKeeps ==
  ASSUME Inv, NEW c \in Callers, NEW a, NEW answer \in Answers, Finish(c, a, answer)
  PROVE  /\ lock' \in SUBSET Callers /\ pc' \in [Callers -> Steps]
         /\ cand' \in [Callers -> State \cup {NoState}] /\ resp' \in [Callers -> Answers]
         /\ Serialized'
         /\ RequestsWellFormed'
         /\ running' = running => DownIsIdle'
         /\ UNCHANGED <<file, survivors>> => CandidateProgress'
<1>. USE DEF Finish, Goto, Inv, TypeOK, Steps
<1>1. /\ lock' \in SUBSET Callers /\ pc' \in [Callers -> Steps]
      /\ cand' \in [Callers -> State \cup {NoState}] /\ resp' \in [Callers -> Answers]
  OBVIOUS
<1>2. Serialized'
  BY DEF Serialized, Critical
<1>3. RequestsWellFormed'
  BY DEF RequestsWellFormed
<1>4. running' = running => DownIsIdle'
  BY DEF DownIsIdle
<1>5. UNCHANGED <<file, survivors>> => CandidateProgress'
  BY DEF CandidateProgress
<1>. QED BY <1>1, <1>2, <1>3, <1>4, <1>5

\* A request that moves on under the lock it holds.
LEMMA GotoKeeps ==
  ASSUME Inv, NEW c \in Callers, NEW a, NEW b, Goto(c, a, b),
         a \in {"check", "rename", "syncdir", "publish"},
         b \in {"rename", "syncdir", "publish", "apply"},
         UNCHANGED <<lock, req, cand, resp>>
  PROVE  /\ pc' \in [Callers -> Steps]
         /\ Serialized' /\ RequestsWellFormed'
         /\ running' = running => DownIsIdle'
         /\ cand[c] \in State
         /\ \A d \in Callers \ {c} : ~Critical(d) /\ pc'[d] = pc[d]
<1>. USE DEF Goto, Inv, TypeOK, Steps
<1>1. pc' \in [Callers -> Steps]
  OBVIOUS
<1>2. /\ Critical(c) /\ Critical(c)'
      /\ \A d \in Callers \ {c} : pc'[d] = pc[d] /\ (Critical(d)' <=> Critical(d))
  BY DEF Critical
<1>3. cand[c] \in State /\ \A d \in Callers \ {c} : ~Critical(d)
  BY <1>2 DEF Serialized
<1>4. Serialized'
  BY <1>2 DEF Serialized
<1>5. RequestsWellFormed'
  BY DEF RequestsWellFormed
<1>6. running' = running => DownIsIdle'
  BY DEF DownIsIdle
<1>. QED BY <1>1, <1>2, <1>3, <1>4, <1>5, <1>6

\* The edit, at the start of the critical section.
LEMMA BeginInv ==
  ASSUME Inv, NEW c \in Callers, Begin(c)
  PROVE  Inv'
<1>0. /\ pc[c] = "lock" /\ lock = {} /\ running
      /\ UNCHANGED <<running, snap, proxy, file, survivors, covered, cas, events>>
  BY DEF Begin, Edit, Finish, Goto, disk, env
<1>1. PICK o \in Edits(snap, req[c]) :
        \/ o.err # "none" /\ Finish(c, "lock", o.err)
        \/ /\ o.err = "none"
           /\ Goto(c, "lock", "check")
           /\ lock' = lock \cup {c}
           /\ cand' = [cand EXCEPT ![c] = o.st]
           /\ UNCHANGED <<req, resp>>
  BY DEF Begin, Edit
<1>2. o.st \in State /\ o.err \in Answers /\ Wired(o.st)
  <2>1. snap \in State /\ Sound(snap) /\ req[c] \in Requests /\ ~Malformed(req[c])
    BY <1>0 DEF Inv, TypeOK, PublishedSound, RequestsWellFormed
  <2>. QED BY <2>1, EditsWired
<1>3. PublishedSound' /\ DiskRecoverable'
  BY <1>0 DEF Inv, PublishedSound, DiskRecoverable
<1>4. CASE Finish(c, "lock", o.err)
  <2>1. TypeOK'
    BY <1>0, <1>2, <1>4, FinishKeeps DEF Inv, TypeOK, Finish, proxy
  <2>. QED BY <1>0, <1>2, <1>3, <1>4, <2>1, FinishKeeps DEF Inv
<1>5. CASE /\ Goto(c, "lock", "check") /\ lock' = lock \cup {c}
           /\ cand' = [cand EXCEPT ![c] = o.st] /\ UNCHANGED <<req, resp>>
  <2>1. TypeOK'
    BY <1>0, <1>2, <1>5 DEF Inv, TypeOK, Goto, Steps, proxy
  <2>2. \A d \in Callers : ~Critical(d)
    BY <1>0 DEF Inv, Serialized
  <2>3. Serialized'
    BY <1>0, <1>2, <1>5, <2>2 DEF Inv, TypeOK, Goto, Serialized, Critical
  <2>4. RequestsWellFormed' /\ DownIsIdle'
    BY <1>0, <1>5 DEF Inv, TypeOK, Goto, RequestsWellFormed, DownIsIdle
  <2>5. CandidateProgress'
    BY <1>0, <1>2, <1>5, <2>2 DEF Inv, TypeOK, Goto, CandidateProgress, Critical
  <2>. QED BY <1>3, <2>1, <2>3, <2>4, <2>5 DEF Inv
<1>. QED BY <1>1, <1>4, <1>5

\* txn.Validate lets through only candidates that are sound.
LEMMA CheckInv ==
  ASSUME Inv, NEW c \in Callers, Check(c)
  PROVE  Inv'
<1>0. UNCHANGED <<running, snap, proxy, file, survivors, covered, cas, events>>
  BY DEF Check, disk, env
<1>1. PublishedSound' /\ DiskRecoverable'
  BY <1>0 DEF Inv, PublishedSound, DiskRecoverable
<1>2. CASE Finish(c, "check", "invalid")
  <2>1. TypeOK'
    BY <1>0, <1>2, FinishKeeps DEF Inv, TypeOK, Finish, proxy, Answers
  <2>. QED BY <1>0, <1>1, <1>2, <2>1, FinishKeeps DEF Inv, Answers
<1>3. CASE /\ Validate(cand[c], covered, cas) /\ Goto(c, "check", "rename")
           /\ UNCHANGED <<lock, cand, req, resp>>
  <2>1. /\ pc' \in [Callers -> Steps] /\ Serialized' /\ RequestsWellFormed' /\ DownIsIdle'
        /\ cand[c] \in State /\ \A d \in Callers \ {c} : ~Critical(d) /\ pc'[d] = pc[d]
    BY <1>0, <1>3, GotoKeeps
  <2>2. TypeOK'
    BY <1>0, <1>3, <2>1 DEF Inv, TypeOK, proxy
  <2>3. Sound(cand[c]) /\ pc'[c] = "rename"
    BY <1>3, <2>1, ValidatedSound DEF Inv, TypeOK, CandidateProgress, Goto
  <2>4. CandidateProgress'
    BY <1>0, <1>3, <2>1, <2>3 DEF CandidateProgress, Critical
  <2>. QED BY <1>1, <2>1, <2>2, <2>4 DEF Inv
<1>. QED BY <1>2, <1>3 DEF Check

\* A failed save ends the request; the disk stays as it is.
LEMMA SaveFailsInv ==
  ASSUME Inv, NEW c \in Callers, SaveFails(c) \/ SyncDirFails(c)
  PROVE  Inv'
<1>0. UNCHANGED <<running, snap, proxy, file, survivors, covered, cas>>
  BY DEF SaveFails, SyncDirFails, disk, env
<1>1. PublishedSound' /\ DiskRecoverable'
  BY <1>0 DEF Inv, PublishedSound, DiskRecoverable
<1>2. events' \in 0 .. MaxEvents
  BY ManagerAssumption DEF SaveFails, SyncDirFails, Inv, TypeOK
<1>3. PICK a \in {"rename", "syncdir"} : Finish(c, a, "persist")
  BY DEF SaveFails, SyncDirFails
<1>4. TypeOK'
  BY <1>0, <1>2, <1>3, FinishKeeps DEF Inv, TypeOK, Finish, proxy, Answers
<1>. QED BY <1>0, <1>1, <1>3, <1>4, FinishKeeps DEF Inv, Answers

\* The renamed file is a validated candidate.
LEMMA RenameInv ==
  ASSUME Inv, NEW c \in Callers, Rename(c)
  PROVE  Inv'
<1>0. /\ UNCHANGED <<running, snap, proxy, lock, req, cand, resp, covered, cas, events>>
      /\ Goto(c, "rename", "syncdir")
      /\ file' = cand[c] /\ survivors' = survivors \cup {cand[c]}
  BY DEF Rename, env
<1>1. /\ pc' \in [Callers -> Steps] /\ Serialized' /\ RequestsWellFormed' /\ DownIsIdle'
      /\ cand[c] \in State /\ \A d \in Callers \ {c} : ~Critical(d) /\ pc'[d] = pc[d]
  BY <1>0, GotoKeeps
<1>2. TypeOK'
  BY <1>0, <1>1 DEF Inv, TypeOK, proxy
<1>3. Sound(cand[c]) /\ pc'[c] = "syncdir"
  BY <1>0 DEF Inv, TypeOK, CandidateProgress, Goto
<1>4. CandidateProgress'
  BY <1>0, <1>1, <1>3 DEF CandidateProgress, Critical
<1>5. StoreValid(cand[c]) /\ Sound(Reconcile(cand[c]))
  BY <1>1, <1>3, SoundIsReconciled DEF Sound
<1>6. PublishedSound' /\ DiskRecoverable'
  BY <1>0, <1>5 DEF Inv, PublishedSound, DiskRecoverable
<1>. QED BY <1>1, <1>2, <1>4, <1>6 DEF Inv

\* The synced directory leaves the validated candidate as the only survivor.
LEMMA SyncDirInv ==
  ASSUME Inv, NEW c \in Callers, SyncDir(c)
  PROVE  Inv'
<1>0. /\ UNCHANGED <<running, snap, proxy, file, lock, req, cand, resp, covered, cas, events>>
      /\ Goto(c, "syncdir", "publish")
      /\ survivors' = {file}
  BY DEF SyncDir, env
<1>1. /\ pc' \in [Callers -> Steps] /\ Serialized' /\ RequestsWellFormed' /\ DownIsIdle'
      /\ cand[c] \in State /\ \A d \in Callers \ {c} : ~Critical(d) /\ pc'[d] = pc[d]
  BY <1>0, GotoKeeps
<1>2. TypeOK'
  BY <1>0, <1>1 DEF Inv, TypeOK, proxy
<1>3. Sound(cand[c]) /\ file = cand[c] /\ pc'[c] = "publish"
  BY <1>0 DEF Inv, TypeOK, CandidateProgress, Goto
<1>4. CandidateProgress'
  BY <1>0, <1>1, <1>3 DEF CandidateProgress, Critical
<1>5. PublishedSound' /\ DiskRecoverable'
  BY <1>0 DEF Inv, PublishedSound, DiskRecoverable
<1>. QED BY <1>1, <1>2, <1>4, <1>5 DEF Inv

\* What is published is the validated candidate.
LEMMA PublishInv ==
  ASSUME Inv, NEW c \in Callers, Publish(c)
  PROVE  Inv'
<1>0. /\ UNCHANGED <<running, proxy, file, survivors, lock, req, cand, resp, covered, cas, events>>
      /\ Goto(c, "publish", "apply")
      /\ snap' = cand[c]
  BY DEF Publish, disk, env
<1>1. /\ pc' \in [Callers -> Steps] /\ Serialized' /\ RequestsWellFormed' /\ DownIsIdle'
      /\ cand[c] \in State /\ \A d \in Callers \ {c} : ~Critical(d) /\ pc'[d] = pc[d]
  BY <1>0, GotoKeeps
<1>2. TypeOK'
  BY <1>0, <1>1 DEF Inv, TypeOK, proxy
<1>3. Sound(cand[c]) /\ pc'[c] = "apply"
  BY <1>0 DEF Inv, TypeOK, CandidateProgress, Goto
<1>4. CandidateProgress'
  BY <1>0, <1>1, <1>3 DEF CandidateProgress, Critical
<1>5. PublishedSound' /\ DiskRecoverable'
  BY <1>0, <1>3 DEF Inv, PublishedSound, DiskRecoverable
<1>. QED BY <1>1, <1>2, <1>4, <1>5 DEF Inv

\* The answer after the apply callback releases the lock.
LEMMA ApplyInv ==
  ASSUME Inv, NEW c \in Callers, Apply(c)
  PROVE  Inv'
<1>0. /\ UNCHANGED <<running, snap, file, survivors, covered, cas, events>>
      /\ Finish(c, "apply", "committed")
      /\ served' = cand[c] /\ overtaken' = FALSE /\ UNCHANGED <<main, mainSt>>
  BY DEF Apply, disk, env
<1>1. cand[c] \in State
  BY <1>0 DEF Finish, Goto, Inv, Serialized, Critical
<1>2. "committed" \in Answers
  BY DEF Answers
<1>3. TypeOK'
  BY <1>0, <1>1, <1>2, FinishKeeps DEF Inv, TypeOK, Finish, proxy
<1>4. PublishedSound' /\ DiskRecoverable'
  BY <1>0 DEF Inv, PublishedSound, DiskRecoverable
<1>. QED BY <1>0, <1>2, <1>3, <1>4, FinishKeeps DEF Inv

\* The caller that has its answer leaves no trace.
LEMMA ReturnInv ==
  ASSUME Inv, NEW c \in Callers, Return(c)
  PROVE  Inv'
<1>. USE DEF Return, Goto, disk, env, proxy
<1>1. TypeOK'
  BY DEF Inv, TypeOK, Steps, Answers
<1>2. Serialized'
  BY DEF Inv, TypeOK, Serialized, Critical
<1>3. RequestsWellFormed' /\ DownIsIdle' /\ CandidateProgress'
  BY DEF Inv, TypeOK, RequestsWellFormed, DownIsIdle, CandidateProgress
<1>4. PublishedSound' /\ DiskRecoverable'
  BY DEF Inv, PublishedSound, DiskRecoverable
<1>. QED BY <1>1, <1>2, <1>3, <1>4 DEF Inv

\* The invariant is inductive.
LEMMA NextInv == Inv /\ [Next]_vars => Inv'
<1>. SUFFICES ASSUME Inv, [Next]_vars PROVE Inv'
  OBVIOUS
<1>1. CASE Start \/ StartRepaired \/ StartFails
  BY <1>1, StartInv
<1>2. CASE Crash
  BY <1>2, CrashInv
<1>3. CASE Outside \/ UNCHANGED vars
  BY <1>3, EnvironmentInv
<1>4. ASSUME NEW c \in Callers, NEW r \in Requests, Call(c, r) PROVE Inv'
  BY <1>4, CallInv
<1>5. ASSUME NEW c \in Callers, Begin(c) PROVE Inv'
  BY <1>5, BeginInv
<1>6. ASSUME NEW c \in Callers, Step(c) PROVE Inv'
  BY <1>6, CheckInv, SaveFailsInv, RenameInv, SyncDirInv, PublishInv, ApplyInv, ReturnInv
    DEF Step
<1>. QED BY <1>1, <1>2, <1>3, <1>4, <1>5, <1>6 DEF Next

\* Everything below follows from this: the invariant holds in every behaviour.
THEOREM InvariantHolds == Spec => []Inv
<1>. QED BY InitInv, NextInv, PTL DEF Spec

-----------------------------------------------------------------------------
(* Theorems *)

\* The variables of the manager, the store and its disk keep their types.
THEOREM TypeCorrect == Spec => []TypeOK
<1>1. Inv => TypeOK
  BY DEF Inv
<1>. QED BY <1>1, InvariantHolds, PTL

\* Manager.mu admits one mutation between its edit and its answer, and the deferred
\* unlock runs on every return path.
THEOREM MutationsSerialized == Spec => []Serialized
<1>1. Inv => Serialized
  BY DEF Inv
<1>. QED BY <1>1, InvariantHolds, PTL

\* What the daemon publishes never leaks, shares or mistakes a reserved port,
\* whatever the mutations, failures and restarts before it.
THEOREM SnapshotSound == Spec => []PublishedSound
<1>1. Inv => PublishedSound
  BY DEF Inv
<1>. QED BY <1>1, InvariantHolds, PTL

\* No crash leaves a state file the next start refuses or serves unsoundly.
THEOREM AlwaysRecoverable == Spec => []DiskRecoverable
<1>1. Inv => DiskRecoverable
  BY DEF Inv
<1>. QED BY <1>1, InvariantHolds, PTL

\* Only Publish replaces the snapshot of a running daemon.
LEMMA SnapshotChange ==
  ASSUME [Next]_vars, running, running', snap' # snap
  PROVE  \E c \in Callers : Publish(c)
BY DEF Next, Step, Start, StartRepaired, StartFails, Crash, Outside, ReloadCerts,
       MainRead, MainApply, Applies, ChangeCAs, Call, Begin, Edit, Check, SaveFails, Rename, SyncDir, SyncDirFails, Apply, Return, vars

\* The commit point: what is published is what every crash leaves on the disk.
THEOREM DurableBeforePublished == Spec => PublishedIsDurable
<1>1. Inv /\ [Next]_vars =>
        [running /\ running' /\ snap' # snap => survivors' = {snap'}]_vars
  <2>. SUFFICES ASSUME Inv, [Next]_vars, running, running', snap' # snap
                PROVE  survivors' = {snap'}
    OBVIOUS
  <2>1. PICK c \in Callers : Publish(c)
    BY SnapshotChange
  <2>. QED BY <2>1 DEF Publish, Goto, Inv, CandidateProgress, disk
<1>. QED BY <1>1, InvariantHolds, PTL DEF Spec, PublishedIsDurable

\* Reconciling spares what is manual.
LEMMA ReconcileSpares ==
  ASSUME NEW c \in State, NEW a \in c.allocs \ Reconcile(c).allocs
  PROVE  a.auto
BY ReconcileFields

\* The port of a replaced mapping is reclaimed only if it is automatic.
LEMMA StoredSpares ==
  ASSUME NEW st \in State, NEW m, NEW A, NEW a \in st.allocs \ Stored(st, m, A).allocs
  PROVE  a.auto
BY DEF Stored, Reconcile, State

\* No candidate drops a manual reservation but that of a ReturnPort.
LEMMA EditsSpareManual ==
  ASSUME NEW st \in State, NEW r \in Requests, NEW o \in Edits(st, r),
         NEW a \in st.allocs \ o.st.allocs
  PROVE  a.auto \/ (r.op = "return_port" /\ r.port = a.port)
<1>1. r \in Request
  BY InputAssumption
<1>2. CASE r \in CreateLBRequest \/ r \in UpdateLBRequest
  <2>1. o \in CreateLB(st, r) \/ o \in UpdateLBLabel(st, r)
    BY <1>2 DEF Edits, CreateLBRequest, UpdateLBRequest
  <2>. QED BY <2>1 DEF CreateLB, UpdateLBLabel, Accept, Reject, State
<1>3. CASE r \in DeleteLBRequest
  <2>1. o \in DeleteLB(st, r)
    BY <1>3 DEF Edits, DeleteLBRequest
  <2>. DEFINE c == [st EXCEPT !.lbs = {l \in @ : l.name # Canon[r.name]},
                              !.maps = {m \in @ : m.lb # Canon[r.name]}]
  <2>2. o = Reject(st, "lb_not_found") \/ o = Accept(Reconcile(c))
    BY <2>1 DEF DeleteLB
  <2>3. c \in State /\ c.allocs = st.allocs
    BY DEF State
  <2>. HIDE DEF c
  <2>. QED BY <2>2, <2>3, ReconcileSpares DEF Accept, Reject
<1>4. CASE r \in PutMappingRequest
  <2>1. o \in PutMapping(st, r)
    BY <1>4 DEF Edits, PutMappingRequest
  <2>2. o.st = st \/ \E m, A : o.st = Stored(st, m, A)
    <3>1. \/ \E code : o = Reject(st, code)
          \/ \E m, A : o = Accept(Stored(st, m, A))
      BY <2>1 DEF PutMapping
    <3>. QED BY <3>1 DEF Accept, Reject
  <2>. QED BY <2>2, StoredSpares
<1>5. CASE r \in DeleteMappingRequest
  <2>1. o \in DeleteMapping(st, r)
    BY <1>5 DEF Edits, DeleteMappingRequest
  <2>. DEFINE c == [st EXCEPT !.maps =
                      {m \in @ : ~(m.lb = Canon[r.name] /\ m.port = r.port)}]
  <2>2. \/ o = Reject(st, "lb_not_found") \/ o = Reject(st, "mapping_not_found")
        \/ o = Accept(Reconcile(c))
    BY <2>1 DEF DeleteMapping
  <2>3. c \in State /\ c.allocs = st.allocs
    BY DEF State
  <2>. HIDE DEF c
  <2>. QED BY <2>2, <2>3, ReconcileSpares DEF Accept, Reject
<1>6. CASE r \in AllocatePortRequest
  <2>1. o \in AllocatePort(st, r)
    BY <1>6 DEF Edits, AllocatePortRequest
  <2>2. \/ o = Reject(st, "pool_exhausted")
        \/ \E b : o = Accept([st EXCEPT !.allocs = @ \cup {b}])
    BY <2>1 DEF AllocatePort
  <2>3. o.st = st \/ \E b : o.st.allocs = st.allocs \cup {b}
    BY <2>2 DEF Accept, Reject, State
  <2>. QED BY <2>3
<1>7. CASE r \in ReturnPortRequest
  <2>1. o \in ReturnPort(st, r) /\ r.op = "return_port"
    BY <1>7 DEF Edits, ReturnPortRequest
  <2>2. \/ o.st = st
        \/ o.st.allocs = st.allocs \ {b \in st.allocs : b.port = r.port}
    BY <2>1 DEF ReturnPort, Accept, Reject, State
  <2>. QED BY <2>1, <2>2
<1>. QED BY <1>1, <1>2, <1>3, <1>4, <1>5, <1>6, <1>7 DEF Request

\* Until it is published, a candidate holds every manual reservation of the
\* snapshot it was cloned from, but one its own request returns.
ManualInCandidate ==
  \A c \in Callers : pc[c] \in {"check", "rename", "syncdir", "publish"} =>
    \A a \in snap.allocs \ cand[c].allocs :
      a.auto \/ (req[c].op = "return_port" /\ req[c].port = a.port)

\* The proxy differs from the snapshot only while an apply is under way, or when the
\* last one was main's and came too late.
ServedInStep ==
  /\ \A c \in Callers : pc[c] = "apply" => snap = cand[c]
  /\ running => \/ served = snap \/ overtaken
                \/ main = "apply" \/ \E c \in Callers : pc[c] = "apply"

\* What is published may be what a crash leaves, but for the moment before Publish.
SnapOnDisk ==
  /\ file \in survivors
  /\ running /\ (\A c \in Callers : pc[c] # "publish") => snap \in survivors

Inv2 == ManualInCandidate /\ ServedInStep /\ SnapOnDisk

\* Before the first start nothing is published, served or under way.
LEMMA InitInv2 == Init => Inv2
BY DEF Init, Inv2, ManualInCandidate, ServedInStep, SnapOnDisk

\* Steps that touch neither snapshot, nor proxy, nor the candidate of a request.
LEMMA RestInv2 ==
  ASSUME Inv, Inv2, NEW c \in Callers,
         Check(c) \/ SaveFails(c) \/ Rename(c) \/ SyncDir(c) \/ SyncDirFails(c) \/ Return(c)
           \/ \E r \in Requests : Call(c, r)
  PROVE  Inv2'
<1>1. /\ UNCHANGED <<running, snap, served, main, overtaken>>
      /\ pc[c] # "apply" /\ pc'[c] # "apply"
      /\ \A d \in Callers \ {c} : pc'[d] = pc[d] /\ cand'[d] = cand[d] /\ req'[d] = req[d]
      /\ pc'[c] \in {"check", "rename", "syncdir", "publish"} =>
           /\ pc[c] \in {"check", "rename", "syncdir", "publish"}
           /\ cand'[c] = cand[c] /\ req'[c] = req[c]
  BY DEF Check, SaveFails, Rename, SyncDir, SyncDirFails, Return, Call, Finish, Goto,
         proxy, Inv, TypeOK
<1>2. ManualInCandidate'
  BY <1>1 DEF Inv2, ManualInCandidate
<1>3. ServedInStep'
  BY <1>1 DEF Inv2, ServedInStep
<1>4. SnapOnDisk'
  <2>1. CASE SyncDir(c)
    BY <2>1 DEF SyncDir, Goto, Inv, TypeOK, SnapOnDisk
  <2>2. CASE ~SyncDir(c)
    <3>1. /\ survivors \subseteq survivors' /\ file' \in survivors' \cup {file}
          /\ pc[c] # "publish"
      BY <2>2 DEF Check, SaveFails, Rename, SyncDirFails, Return, Call, Finish, Goto, disk
    <3>. QED BY <1>1, <3>1 DEF Inv2, SnapOnDisk
  <2>. QED BY <2>1, <2>2
<1>. QED BY <1>2, <1>3, <1>4 DEF Inv2

\* The candidate of an edit keeps every manual reservation it does not return.
LEMMA BeginInv2 ==
  ASSUME Inv, Inv2, NEW c \in Callers, Begin(c)
  PROVE  Inv2'
<1>1. /\ pc[c] = "lock" /\ running
      /\ UNCHANGED <<running, snap, served, main, overtaken, file, survivors, req>>
  BY DEF Begin, Edit, Finish, Goto, proxy, disk
<1>2. PICK o \in Edits(snap, req[c]) :
        \/ Finish(c, "lock", o.err)
        \/ Goto(c, "lock", "check") /\ cand' = [cand EXCEPT ![c] = o.st]
  BY DEF Begin, Edit
<1>3. /\ pc'[c] \in {"check", "reply"} /\ (pc'[c] = "check" => cand'[c] = o.st)
      /\ \A d \in Callers \ {c} : pc'[d] = pc[d] /\ cand'[d] = cand[d]
  BY <1>2 DEF Finish, Goto, Inv, TypeOK
<1>4. \A a \in snap.allocs \ o.st.allocs :
        a.auto \/ (req[c].op = "return_port" /\ req[c].port = a.port)
  <2>1. snap \in State /\ req[c] \in Requests
    BY <1>1 DEF Inv, TypeOK, RequestsWellFormed
  <2>. QED BY <2>1, EditsSpareManual
<1>5. ManualInCandidate'
  BY <1>1, <1>3, <1>4 DEF Inv2, ManualInCandidate
<1>6. ServedInStep'
  BY <1>1, <1>3 DEF Inv2, ServedInStep
<1>7. SnapOnDisk'
  BY <1>1, <1>3 DEF Inv2, SnapOnDisk
<1>. QED BY <1>5, <1>6, <1>7 DEF Inv2

\* The published candidate is the one the proxy is about to be told.
LEMMA PublishInv2 ==
  ASSUME Inv, Inv2, NEW c \in Callers, Publish(c)
  PROVE  Inv2'
<1>1. /\ pc[c] = "publish" /\ pc'[c] = "apply" /\ snap' = cand[c] /\ cand' = cand
      /\ \A d \in Callers \ {c} : pc'[d] = pc[d]
      /\ UNCHANGED <<file, survivors>> /\ survivors = {cand[c]}
  BY DEF Publish, Goto, disk, Inv, TypeOK, CandidateProgress
<1>2. \A d \in Callers \ {c} : ~Critical(d)
  BY <1>1 DEF Inv, Serialized, Critical
<1>3. ManualInCandidate' /\ ServedInStep'
  BY <1>1, <1>2 DEF ManualInCandidate, ServedInStep, Critical
<1>4. SnapOnDisk'
  BY <1>1 DEF Inv2, SnapOnDisk
<1>. QED BY <1>3, <1>4 DEF Inv2

\* After the apply callback the proxy serves the published snapshot.
LEMMA ApplyInv2 ==
  ASSUME Inv, Inv2, NEW c \in Callers, Apply(c)
  PROVE  Inv2'
<1>1. /\ pc[c] = "apply" /\ pc'[c] = "reply" /\ snap' = snap /\ served' = cand[c]
      /\ UNCHANGED <<running, file, survivors>>
      /\ \A d \in Callers \ {c} : pc'[d] = pc[d] /\ cand'[d] = cand[d]
  BY DEF Apply, Finish, Goto, disk, Inv, TypeOK
<1>2. \A d \in Callers \ {c} : ~Critical(d)
  BY <1>1 DEF Inv, Serialized, Critical
<1>3. ManualInCandidate' /\ ServedInStep'
  BY <1>1, <1>2 DEF Inv2, ManualInCandidate, ServedInStep, Critical
<1>4. SnapOnDisk'
  BY <1>1, <1>2 DEF Inv2, SnapOnDisk
<1>. QED BY <1>3, <1>4 DEF Inv2

\* Steps of the daemon and of its surroundings.
LEMMA DaemonInv2 ==
  ASSUME Inv, Inv2,
         Start \/ StartRepaired \/ StartFails \/ Crash \/ Outside \/ UNCHANGED vars
  PROVE  Inv2'
<1>1. CASE Start \/ StartRepaired \/ StartFails \/ Crash
  <2>1. \A c \in Callers : pc'[c] = "idle"
    BY <1>1 DEF Start, StartRepaired, StartFails, Crash, Inv, DownIsIdle
  <2>2. ManualInCandidate'
    BY <2>1 DEF ManualInCandidate
  <2>3. running' => main' = "apply" /\ snap' = file'
    BY <1>1 DEF Start, StartRepaired, StartFails, Crash, Applies, disk
  <2>4. file' \in survivors'
    BY <1>1 DEF Start, StartRepaired, StartFails, Crash, disk, Inv2, SnapOnDisk
  <2>. QED BY <2>1, <2>2, <2>3, <2>4 DEF Inv2, ServedInStep, SnapOnDisk
<1>2. CASE Outside \/ UNCHANGED vars
  <2>1. UNCHANGED <<running, snap, file, survivors, pc, req, cand>>
    BY <1>2 DEF Outside, ReloadCerts, MainRead, MainApply, ChangeCAs, vars, disk
  <2>2. ManualInCandidate' /\ SnapOnDisk'
    BY <2>1 DEF Inv2, ManualInCandidate, SnapOnDisk
  <2>3. ServedInStep'
    <3>1. CASE MainRead \/ MainApply
      BY <2>1, <3>1 DEF MainRead, MainApply, Applies, Inv2, ServedInStep
    <3>2. CASE ReloadCerts \/ ChangeCAs \/ UNCHANGED vars
      <4>1. UNCHANGED <<served, overtaken>> /\ (main = "apply" => main' = "apply")
        BY <3>2 DEF ReloadCerts, ChangeCAs, vars, proxy
      <4>. QED BY <2>1, <4>1 DEF Inv2, ServedInStep
    <3>. QED BY <1>2, <3>1, <3>2 DEF Outside
  <2>. QED BY <2>2, <2>3 DEF Inv2
<1>. QED BY <1>1, <1>2

\* Every step keeps the second invariant, given the first.
LEMMA NextInv2 == Inv /\ Inv2 /\ [Next]_vars => Inv2'
<1>. SUFFICES ASSUME Inv, Inv2, [Next]_vars PROVE Inv2'
  OBVIOUS
<1>1. CASE Start \/ StartRepaired \/ StartFails \/ Crash \/ Outside
            \/ UNCHANGED vars
  BY <1>1, DaemonInv2
<1>2. ASSUME NEW c \in Callers,
             Begin(c) \/ Step(c) \/ \E r \in Requests : Call(c, r)
      PROVE  Inv2'
  BY <1>2, RestInv2, BeginInv2, PublishInv2, ApplyInv2 DEF Step
<1>. QED BY <1>1, <1>2 DEF Next

\* The second invariant holds of every behaviour.
LEMMA Inv2Holds == Spec => []Inv2
<1>. QED BY InitInv2, NextInv2, InvariantHolds, PTL DEF Spec

\* Once no apply is under way the proxy serves what is published, unless the last one
\* was main's and a commit overtook it: no order of the commits leaves it behind.
THEOREM ProxyInStep == Spec => []ProxyFollowsSnapshot
<1>1. Inv2 => ProxyFollowsSnapshot
  BY DEF Inv2, ServedInStep, ProxyFollowsSnapshot
<1>. QED BY <1>1, Inv2Holds, PTL

\* What lasts on the disk stays there, but for the rename of another candidate and for
\* what a repair reclaims.
LEMMA LastingChange ==
  ASSUME Inv, Inv2, [Next]_vars, NEW a \in Lasting \ Lasting'
  PROVE  a.auto \/ \E c \in Callers : Rename(c) /\ a \notin cand[c].allocs
<1>1. a \in file.allocs /\ \A s \in survivors : a \in s.allocs
  BY DEF Lasting
<1>2. CASE StartRepaired \/ StartFails
  <2>1. /\ file' \in {file, Reconcile(file)}
        /\ survivors' \subseteq survivors \cup {Reconcile(file)}
    BY <1>2 DEF StartRepaired, StartFails, disk
  <2>2. a \notin Reconcile(file).allocs
    BY <1>1, <2>1 DEF Lasting
  <2>. QED BY <1>1, <2>2, ReconcileSpares DEF Inv, TypeOK
<1>3. ASSUME NEW c \in Callers, Rename(c)
      PROVE  a \notin cand[c].allocs
  BY <1>1, <1>3 DEF Rename, Lasting
<1>4. CASE ~(StartRepaired \/ StartFails) /\ \A c \in Callers : ~Rename(c)
  <2>1. file' \in survivors \cup {file} /\ survivors' \subseteq survivors \cup {file}
    BY <1>4 DEF Next, Step, Start, Crash, Outside, ReloadCerts, MainRead, MainApply,
         ChangeCAs, Call, Begin, Edit, Check, SaveFails, SyncDir, SyncDirFails, Publish,
         Apply, Return, vars, disk
  <2>. QED BY <1>1, <2>1 DEF Lasting
<1>. QED BY <1>2, <1>3, <1>4

\* A manual reservation is taken by a return only, from the published state and from
\* what lasts on the disk: a candidate that is renamed holds all that the snapshot
\* holds, and the snapshot holds what lasts.
THEOREM ManualKept == Spec => ManualReservationKept
<1>. DEFINE Gone == (Lasting \ Lasting')
               \cup (IF running /\ running' THEN snap.allocs \ snap'.allocs ELSE {})
<1>1. Inv /\ Inv2 /\ [Next]_vars => [\A a \in Gone : a.auto \/ Returned(a)]_vars
  <2>. SUFFICES ASSUME Inv, Inv2, [Next]_vars, NEW a \in Gone
                PROVE  a.auto \/ Returned(a)
    OBVIOUS
  <2>1. ASSUME NEW c \in Callers, pc[c] \in {"rename", "publish"},
               a \in snap.allocs \ cand[c].allocs
        PROVE  a.auto \/ Returned(a)
    BY <2>1 DEF Inv, Serialized, Critical, Inv2, ManualInCandidate, Returned
  <2>2. CASE a \in Lasting \ Lasting'
    <3>1. CASE a.auto
      BY <3>1
    <3>2. CASE ~a.auto
      <4>1. PICK c \in Callers : Rename(c) /\ a \notin cand[c].allocs
        BY <2>2, <3>2, LastingChange
      <4>2. pc[c] = "rename" /\ running
        BY <4>1 DEF Rename, Goto
      <4>3. \A d \in Callers : pc[d] # "publish"
        BY <4>2 DEF Inv, Serialized, Critical
      <4>4. a \in snap.allocs
        BY <2>2, <4>2, <4>3 DEF Inv2, SnapOnDisk, Lasting
      <4>. QED BY <2>1, <4>1, <4>2, <4>4
    <3>. QED BY <3>1, <3>2
  <2>3. CASE running /\ running' /\ a \in snap.allocs \ snap'.allocs
    <3>1. PICK c \in Callers : Publish(c)
      BY <2>3, SnapshotChange
    <3>2. pc[c] = "publish" /\ snap' = cand[c]
      BY <3>1 DEF Publish, Goto
    <3>. QED BY <2>1, <2>3, <3>2
  <2>. QED BY <2>2, <2>3
<1>. QED BY <1>1, InvariantHolds, Inv2Holds, PTL DEF Spec, ManualReservationKept

-----------------------------------------------------------------------------
(* What the proxy is given *)

\* What ProxyServer and DataPlane assume of the ports of a state that is applied
\* (OneMode, and the ports of ServerAssumption and DataPlaneAssumption).
Routable(s) ==
  /\ \A m, n \in s.maps : m.port = n.port => m.tls = n.tls
  /\ \A m, n \in s.maps : m.port = n.port /\ m.lb = n.lb => m = n
  /\ \A m \in s.maps : m.port \notin {0, HTTPPort} /\ (m.port = HTTPSPort => m.tls)

\* It holds of all that may come to be served: the disk's states, and candidates that
\* passed validation.
RoutableEverywhere ==
  /\ Routable(snap) /\ Routable(served)
  /\ main = "apply" => Routable(mainSt)
  /\ \A s \in survivors \cup {file} : Routable(s)
  /\ \A c \in Callers :
       pc[c] \in {"rename", "syncdir", "publish", "apply"} => Routable(cand[c])

\* What txn.Validate accepts can be routed, and a repair takes no mapping.
LEMMA ValidatedRoutable ==
  ASSUME NEW s \in State
  PROVE  /\ \A C, A : Validate(s, C, A) => Routable(s)
         /\ Routable(s) => Routable(Reconcile(s))
<1>1. ASSUME NEW C, NEW A, Validate(s, C, A) PROVE Routable(s)
  <2>1. UniqueKeys(s) /\ OneTLSMode(s) /\ \A m \in s.maps : ListenPortValid(m)
    BY <1>1 DEF Validate, StoreValid, MappingValid
  <2>2. \A m \in s.maps : m.port \notin {0, HTTPPort} /\ (m.port = HTTPSPort => m.tls)
    <3>. TAKE m \in s.maps
    <3>1. m.port \in Int
      BY DEF State, Mapping
    <3>. QED BY <2>1, <3>1, ConfigAssumption DEF ListenPortValid, IsPort
  <2>. QED BY <2>1, <2>2 DEF Routable, UniqueKeys, OneTLSMode
<1>2. Routable(s) => Routable(Reconcile(s))
  BY ReconcileFields DEF Routable
<1>. QED BY <1>1, <1>2

\* A start and a crash bring up only what the disk holds.
LEMMA DaemonRoutable ==
  ASSUME Inv, RoutableEverywhere, Start \/ StartRepaired \/ StartFails \/ Crash
  PROVE  RoutableEverywhere'
<1>1. Routable(file) /\ Routable(Reconcile(file))
  BY ValidatedRoutable DEF Inv, TypeOK, RoutableEverywhere
<1>2. CASE Start
  BY <1>1, <1>2 DEF Start, Applies, RoutableEverywhere, disk
<1>3. CASE StartRepaired
  BY <1>1, <1>3 DEF StartRepaired, Applies, RoutableEverywhere
<1>4. CASE StartFails
  BY <1>1, <1>4 DEF StartFails, RoutableEverywhere, disk, proxy
<1>5. CASE Crash
  BY <1>5 DEF Crash, RoutableEverywhere, disk, EmptyState, Routable
<1>. QED BY <1>2, <1>3, <1>4, <1>5

\* The steps of a request: only a candidate that passed Check is saved or served.
LEMMA StepRoutable ==
  ASSUME Inv, RoutableEverywhere, NEW c \in Callers, Step(c)
  PROVE  RoutableEverywhere'
<1>. USE DEF Inv, TypeOK, RoutableEverywhere, Goto, Finish
<1>1. CASE Check(c)
  <2>1. pc'[c] = "rename" => Routable(cand[c]) /\ cand' = cand
    BY <1>1, ValidatedRoutable DEF Check, Serialized, Critical
  <2>2. /\ pc'[c] \in {"rename", "reply"}
        /\ \A d \in Callers \ {c} : pc'[d] = pc[d] /\ cand'[d] = cand[d]
        /\ UNCHANGED <<running, snap, served, main, mainSt, file, survivors>>
    BY <1>1 DEF Check, disk, proxy
  <2>. QED BY <2>1, <2>2
<1>2. CASE SaveFails(c) \/ SyncDirFails(c) \/ Apply(c) \/ Return(c)
  <2>1. /\ pc'[c] \in {"reply", "idle"}
        /\ \A d \in Callers \ {c} : pc'[d] = pc[d] /\ cand'[d] = cand[d]
        /\ UNCHANGED <<running, snap, main, mainSt, file, survivors>>
    BY <1>2 DEF SaveFails, SyncDirFails, Apply, Return, disk, proxy
  <2>2. served' = served \/ Routable(served')
    BY <1>2 DEF SaveFails, SyncDirFails, Apply, Return, proxy
  <2>. QED BY <2>1, <2>2
<1>3. CASE Rename(c) \/ SyncDir(c) \/ Publish(c)
  <2>1. /\ cand' = cand /\ Routable(cand[c])
        /\ \A d \in Callers \ {c} : pc'[d] = pc[d]
        /\ UNCHANGED <<running, served, main, mainSt>> /\ snap' \in {snap, cand[c]}
        /\ survivors' \cup {file'} \subseteq survivors \cup {file, cand[c]}
    BY <1>3 DEF Rename, SyncDir, Publish, disk, proxy
  <2>. QED BY <2>1
<1>. QED BY <1>1, <1>2, <1>3 DEF Step

\* What comes before the check of a candidate serves nothing, and main serves what it
\* has read.
LEMMA EarlyRoutable ==
  ASSUME Inv, RoutableEverywhere,
         \/ Outside \/ UNCHANGED vars
         \/ \E c \in Callers : Begin(c) \/ \E r \in Requests : Call(c, r)
  PROVE  RoutableEverywhere'
<1>1. CASE Outside \/ UNCHANGED vars
  <2>1. UNCHANGED <<running, snap, file, survivors, pc, cand>>
    BY <1>1 DEF Outside, ReloadCerts, MainRead, MainApply, ChangeCAs, vars, disk
  <2>2. /\ served' \in {served} \cup (IF main = "apply" THEN {mainSt} ELSE {})
        /\ main' = "apply" => mainSt' = snap \/ (main = "apply" /\ mainSt' = mainSt)
    BY <1>1 DEF Outside, ReloadCerts, MainRead, MainApply, Applies, ChangeCAs, vars, proxy
  <2>. QED BY <2>1, <2>2 DEF RoutableEverywhere
<1>2. ASSUME NEW c \in Callers, Begin(c) \/ \E r \in Requests : Call(c, r)
      PROVE  RoutableEverywhere'
  <2>1. /\ pc'[c] \in {"lock", "check", "reply"}
        /\ \A d \in Callers \ {c} : pc'[d] = pc[d] /\ cand'[d] = cand[d]
        /\ UNCHANGED <<running, snap, served, main, mainSt, file, survivors>>
    BY <1>2 DEF Begin, Edit, Call, Finish, Goto, disk, proxy, Inv, TypeOK
  <2>. QED BY <2>1 DEF RoutableEverywhere
<1>. QED BY <1>1, <1>2

\* What the proxy is given (served, by the apply callback, at the start or by a SIGHUP)
\* meets what ProxyServer and DataPlane assume of the states they apply, if the file the
\* first start finds does: a start itself does not check it (serve.go:88), so that a
\* file of another configuration may not.
THEOREM ProxyGetsRoutable ==
  ASSUME \A f \in InitialFiles : Routable(f)
  PROVE  Spec => [](Routable(snap) /\ Routable(served))
<1>1. Init => RoutableEverywhere
  BY DEF Init, RoutableEverywhere, EmptyState, Routable
<1>2. Inv /\ RoutableEverywhere /\ [Next]_vars => RoutableEverywhere'
  BY DaemonRoutable, EarlyRoutable, StepRoutable DEF Next
<1>3. RoutableEverywhere => Routable(snap) /\ Routable(served)
  BY DEF RoutableEverywhere
<1>. QED BY <1>1, <1>2, <1>3, InvariantHolds, PTL DEF Spec
=============================================================================
