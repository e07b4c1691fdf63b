--------------------------- MODULE Lifecycle_proofs ---------------------------
(***************************************************************************)
(* Proofs about runs of the daemon on one state file, for any processes,   *)
(* configurations, requests and initial files.                             *)
(***************************************************************************)
EXTENDS Lifecycle, TLAPS

-----------------------------------------------------------------------------
(* The inductive invariant *)

States == M(NoConfig)!State
Valid(st) == M(NoConfig)!StoreValid(st)

Phases == {"down", "locked", "closed"} \cup Up
Owning == {"locked"} \cup Up
Steps == {"none", "accepted", "save", "publish"}

\* A process runs under a configuration that was normalized; what it has in memory
\* is accepted by the next start; and what it is about to save or publish is what
\* its mutation made of its snapshot, validated.
Process(i) ==
  /\ cfg[i] \in (IF phase[i] = "down" THEN {NoConfig} ELSE ConfigFiles)
  /\ call[i] \in (IF step[i] \in {"save", "publish"} THEN Requests ELSE {NoRequest})
  /\ phase[i] \in {"down", "locked"} => mem[i] = EmptyState /\ step[i] = "none"
  /\ phase[i] # "down" => Normalized(cfg[i])
  /\ Valid(mem[i]) /\ Valid(cand[i])
  /\ step[i] \in {"save", "publish"} =>
       /\ \E o \in M(cfg[i])!Edits(mem[i], call[i]) : o.err = "none" /\ o.st = cand[i]
       /\ M(cfg[i])!Validate(cand[i], Names, Texts)

Shapes ==
  /\ holder \subseteq Instances
  /\ phase \in [Instances -> Phases] /\ step \in [Instances -> Steps]
  /\ cfg \in [Instances -> ConfigFiles \cup {NoConfig}]
  /\ mem \in [Instances -> States] /\ cand \in [Instances -> States]
  /\ call \in [Instances -> Requests \cup {NoRequest}]

Inv ==
  /\ file \in States /\ Valid(file) /\ stray \in BOOLEAN
  /\ Shapes
  /\ \A i \in Instances : Process(i)
  /\ OneOwner /\ FileIsSnapshot

-----------------------------------------------------------------------------
(* The functions of StateModel, under any configuration *)

\* The types and store.Validate do not depend on the configuration.
LEMMA SameData ==
  ASSUME NEW c
  PROVE  /\ M(c)!State = States /\ M(c)!Request = M(NoConfig)!Request
         /\ \A st : M(c)!StoreValid(st) = Valid(st)
BY DEF States, Valid, M!State, M!Request, M!StoreValid, M!LoadBalancer, M!Mapping,
       M!PortAllocation, M!Upstream, M!CreateLBRequest, M!UpdateLBRequest, M!DeleteLBRequest,
       M!PutMappingRequest, M!DeleteMappingRequest, M!AllocatePortRequest,
       M!ReturnPortRequest, M!UniqueKeys, M!OneTLSMode, M!NoDanglingReference, M!Referenced

\* registry.Reconcile only removes automatic allocations, and what is valid stays so.
LEMMA ReconcileKeeps ==
  ASSUME NEW c, NEW st \in States
  PROVE  /\ M(c)!Reconcile(st) \in States
         /\ M(c)!Reconcile(st).allocs \subseteq st.allocs
         /\ \A a \in st.allocs \ M(c)!Reconcile(st).allocs : a.auto
         /\ Valid(st) => Valid(M(c)!Reconcile(st))
BY DEF States, Valid, M!Reconcile, M!State, M!StoreValid, M!UniqueKeys, M!OneTLSMode,
       M!NoDanglingReference, M!Referenced

-----------------------------------------------------------------------------
(* What a mutation does to a state, under any configuration *)

\* The candidate is a state; what it adds to the allocations is a free port of the
\* pool, and what it drops from them is automatic, or the port to be returned.
Follows(c, st, r, new) ==
  /\ new \in States
  /\ \A a \in new.allocs \ st.allocs :
       a.port \in PoolOf(c) /\ a.port \notin {b.port : b \in st.allocs}
  /\ \A a \in st.allocs \ new.allocs : a.auto \/ (r.op = "return_port" /\ r.port = a.port)

\* A candidate is built field by field.
LEMMA FieldsMakeState ==
  ASSUME NEW st
  PROVE  st \in States <=>
           /\ st = [lbs |-> st.lbs, maps |-> st.maps, allocs |-> st.allocs]
           /\ st.lbs \subseteq M(NoConfig)!LoadBalancer
           /\ st.maps \subseteq M(NoConfig)!Mapping
           /\ st.allocs \subseteq M(NoConfig)!PortAllocation
BY DEF States, M!State

\* A state whose load balancers are replaced.
LEMMA EditedLBs ==
  ASSUME NEW st \in States, NEW L \in SUBSET M(NoConfig)!LoadBalancer
  PROVE  [st EXCEPT !.lbs = L] \in States /\ [st EXCEPT !.lbs = L].allocs = st.allocs
BY DEF States, M!State

\* A state whose allocations are replaced.
LEMMA EditedAllocs ==
  ASSUME NEW st \in States, NEW A \in SUBSET M(NoConfig)!PortAllocation
  PROVE  [st EXCEPT !.allocs = A] \in States /\ [st EXCEPT !.allocs = A].allocs = A
BY DEF States, M!State

\* registry.Allocate returns a free port of the pool.
LEMMA AllocateFree ==
  ASSUME NEW c \in Config, NEW st \in States, NEW owner \in Names \cup Owners,
         NEW auto \in BOOLEAN, NEW a \in M(c)!Allocate(st.allocs, owner, auto)
  PROVE  /\ a \in M(NoConfig)!PortAllocation
         /\ a.port \in PoolOf(c) /\ a.port \notin {b.port : b \in st.allocs}
<1>1. PICK i \in AllocIds, p \in PoolOf(c) \ {b.port : b \in st.allocs} :
        a = [id |-> i, port |-> p, owner |-> owner, auto |-> auto]
  BY DEF M!Allocate, M!Lowest, M!FreePorts, M!Pool, PoolOf
<1>2. p \in Int
  BY DEF Config, PoolOf
<1>. QED BY <1>1, <1>2 DEF M!PortAllocation

\* A mapping is stored over the one of its key, and the registry is reconciled.
LEMMA StoredFollows ==
  ASSUME NEW c \in Config, NEW st \in States, NEW r, NEW m \in M(NoConfig)!Mapping,
         NEW A \in SUBSET M(NoConfig)!PortAllocation,
         \A a \in A : a.port \in PoolOf(c) /\ a.port \notin {b.port : b \in st.allocs}
  PROVE  Follows(c, st, r, M(c)!Stored(st, m, A))
<1>. DEFINE maps == {n \in st.maps : ~(n.lb = m.lb /\ n.port = m.port)} \cup {m}
            d == [st EXCEPT !.maps = maps, !.allocs = st.allocs \cup A]
<1>1. maps \in SUBSET M(NoConfig)!Mapping /\ st.allocs \cup A \in SUBSET M(NoConfig)!PortAllocation
  BY FieldsMakeState
<1>2. M(c)!Stored(st, m, A) = M(c)!Reconcile(d)
  BY DEF M!Stored
<1>. HIDE DEF maps
<1>3. d \in States /\ d.allocs = st.allocs \cup A
  <2>. DEFINE allocs == st.allocs \cup A
  <2>1. d = [st EXCEPT !.maps = maps, !.allocs = allocs]
    OBVIOUS
  <2>2. allocs \in SUBSET M(NoConfig)!PortAllocation
    BY <1>1
  <2>. HIDE DEF allocs, d
  <2>3. d \in States /\ d.allocs = allocs
    BY <1>1, <2>1, <2>2 DEF States, M!State
  <2>. QED BY <2>3 DEF allocs
<1>. HIDE DEF d
<1>4. /\ M(c)!Reconcile(d) \in States /\ M(c)!Reconcile(d).allocs \subseteq d.allocs
      /\ \A a \in d.allocs \ M(c)!Reconcile(d).allocs : a.auto
  BY <1>3, ReconcileKeeps
<1>. QED BY <1>2, <1>3, <1>4 DEF Follows

\* A refusal leaves the state, and so does an acceptance of it.
LEMMA RefusalFollows ==
  ASSUME NEW c, NEW st \in States, NEW r, NEW code
  PROVE  Follows(c, st, r, M(c)!Reject(st, code).st)
BY DEF Follows, M!Reject

\* A state with the same allocations follows, and so does one that is reconciled.
LEMMA SameAllocsFollow ==
  ASSUME NEW c, NEW st \in States, NEW r, NEW d \in States, d.allocs = st.allocs
  PROVE  Follows(c, st, r, d) /\ Follows(c, st, r, M(c)!Reconcile(d))
BY ReconcileKeeps DEF Follows

\* CreateLB and UpdateLBLabel write one load balancer.
LEMMA WriteLBFollows ==
  ASSUME NEW c \in Config, NEW st \in States, NEW r, Canon[r.name] \in Names, r.label \in Labels,
         NEW o \in M(c)!CreateLB(st, r) \cup M(c)!UpdateLBLabel(st, r)
  PROVE  Follows(c, st, r, o.st)
<1>. DEFINE l == [name |-> Canon[r.name], label |-> r.label]
            rest == {k \in st.lbs : k.name # Canon[r.name]}
<1>1. /\ st.lbs \cup {l} \in SUBSET M(NoConfig)!LoadBalancer
      /\ rest \cup {l} \in SUBSET M(NoConfig)!LoadBalancer
  BY FieldsMakeState DEF M!LoadBalancer
<1>2. \/ \E code : o = M(c)!Reject(st, code)
      \/ o = M(c)!Accept([st EXCEPT !.lbs = st.lbs \cup {l}])
      \/ o = M(c)!Accept([st EXCEPT !.lbs = rest \cup {l}])
  BY DEF M!CreateLB, M!UpdateLBLabel, M!LBNames
<1>. HIDE DEF l, rest
<1>3. CASE \E code : o = M(c)!Reject(st, code)
  BY <1>3, RefusalFollows
<1>4. CASE o = M(c)!Accept([st EXCEPT !.lbs = st.lbs \cup {l}])
  <2>. DEFINE d == [st EXCEPT !.lbs = st.lbs \cup {l}]
  <2>1. d \in States /\ d.allocs = st.allocs
    BY <1>1, EditedLBs
  <2>. HIDE DEF d
  <2>2. o.st = d
    BY <1>4 DEF M!Accept, d
  <2>. QED BY <2>1, <2>2, SameAllocsFollow
<1>5. CASE o = M(c)!Accept([st EXCEPT !.lbs = rest \cup {l}])
  <2>. DEFINE d == [st EXCEPT !.lbs = rest \cup {l}]
  <2>1. d \in States /\ d.allocs = st.allocs
    BY <1>1, EditedLBs
  <2>. HIDE DEF d
  <2>2. o.st = d
    BY <1>5 DEF M!Accept, d
  <2>. QED BY <2>1, <2>2, SameAllocsFollow
<1>. QED BY <1>2, <1>3, <1>4, <1>5

\* DeleteLB and DeleteMapping take mappings away, and reconcile.
LEMMA DeletionsFollow ==
  ASSUME NEW c \in Config, NEW st \in States, NEW r,
         NEW o \in M(c)!DeleteLB(st, r) \cup M(c)!DeleteMapping(st, r)
  PROVE  Follows(c, st, r, o.st)
<1>. DEFINE L == {l \in st.lbs : l.name # Canon[r.name]}
            P == {m \in st.maps : m.lb # Canon[r.name]}
            Q == {m \in st.maps : ~(m.lb = Canon[r.name] /\ m.port = r.port)}
            d == [st EXCEPT !.lbs = L, !.maps = P]
            e == [st EXCEPT !.maps = Q]
<1>1. /\ L \in SUBSET M(NoConfig)!LoadBalancer
      /\ P \in SUBSET M(NoConfig)!Mapping /\ Q \in SUBSET M(NoConfig)!Mapping
  BY FieldsMakeState
<1>2. \/ \E code : o = M(c)!Reject(st, code)
      \/ o = M(c)!Accept(M(c)!Reconcile(d))
      \/ o = M(c)!Accept(M(c)!Reconcile(e))
  BY DEF M!DeleteLB, M!DeleteMapping
<1>. HIDE DEF L, P, Q
<1>3. d \in States /\ d.allocs = st.allocs /\ e \in States /\ e.allocs = st.allocs
  <2>1. d \in States /\ d.allocs = st.allocs
    BY <1>1 DEF States, M!State
  <2>2. e \in States /\ e.allocs = st.allocs
    BY <1>1 DEF States, M!State
  <2>. QED BY <2>1, <2>2
<1>. HIDE DEF d, e
<1>4. CASE \E code : o = M(c)!Reject(st, code)
  BY <1>4, RefusalFollows
<1>5. CASE o = M(c)!Accept(M(c)!Reconcile(d)) \/ o = M(c)!Accept(M(c)!Reconcile(e))
  <2>1. o.st = M(c)!Reconcile(d) \/ o.st = M(c)!Reconcile(e)
    BY <1>5 DEF M!Accept
  <2>. QED BY <1>3, <2>1, SameAllocsFollow
<1>. QED BY <1>2, <1>4, <1>5

\* PutMapping stores an upstream that was given, or one of a port it allocates.
LEMMA PutMappingFollows ==
  ASSUME NEW c \in Config, NEW st \in States, NEW r \in M(NoConfig)!PutMappingRequest,
         Canon[r.name] \in Names, NEW o \in M(c)!PutMapping(st, r)
  PROVE  Follows(c, st, r, o.st)
<1>1. \/ \E code : o = M(c)!Reject(st, code)
      \/ o = M(c)!Accept(M(c)!Stored(st, M(c)!NewMapping(r, r.up, NoAlloc), {}))
      \/ \E a \in M(c)!Allocate(st.allocs, Canon[r.name], TRUE) :
           o = M(c)!Accept(M(c)!Stored(st, M(c)!NewMapping(r, M(c)!Localhost(a.port), a.id), {a}))
  BY DEF M!PutMapping
<1>2. CASE \E code : o = M(c)!Reject(st, code)
  BY <1>2, RefusalFollows
<1>3. CASE o = M(c)!Accept(M(c)!Stored(st, M(c)!NewMapping(r, r.up, NoAlloc), {}))
  <2>1. M(c)!NewMapping(r, r.up, NoAlloc) \in M(NoConfig)!Mapping
    BY DEF M!NewMapping, M!Mapping, M!PutMappingRequest, M!Upstream
  <2>2. o.st = M(c)!Stored(st, M(c)!NewMapping(r, r.up, NoAlloc), {})
    BY <1>3 DEF M!Accept
  <2>. QED BY <2>1, <2>2, StoredFollows
<1>4. ASSUME NEW a \in M(c)!Allocate(st.allocs, Canon[r.name], TRUE),
             o = M(c)!Accept(M(c)!Stored(st, M(c)!NewMapping(r, M(c)!Localhost(a.port), a.id), {a}))
      PROVE  Follows(c, st, r, o.st)
  <2>. DEFINE m == M(c)!NewMapping(r, M(c)!Localhost(a.port), a.id)
  <2>1. /\ a \in M(NoConfig)!PortAllocation
        /\ a.port \in PoolOf(c) /\ a.port \notin {b.port : b \in st.allocs}
    BY AllocateFree
  <2>2. a.id \in AllocIds /\ a.port \in Int
    BY <2>1 DEF M!PortAllocation
  <2>3. M(c)!Localhost(a.port) \in M(NoConfig)!Upstream
    BY <2>2, LifecycleAssumption DEF M!Localhost, M!Upstream
  <2>4. r.port \in Int /\ r.tls \in BOOLEAN
    BY DEF M!PutMappingRequest
  <2>5. m \in M(NoConfig)!Mapping
    BY <2>2, <2>3, <2>4 DEF M!NewMapping, M!Mapping
  <2>6. o.st = M(c)!Stored(st, m, {a})
    BY <1>4 DEF M!Accept
  <2>. HIDE DEF m
  <2>. QED BY <2>1, <2>5, <2>6, StoredFollows
<1>. QED BY <1>1, <1>2, <1>3, <1>4

\* AllocatePort reserves a free port, and ReturnPort gives one back.
LEMMA ReservationsFollow ==
  ASSUME NEW c \in Config, NEW st \in States, NEW r,
         NEW o, \/ r \in M(NoConfig)!AllocatePortRequest /\ o \in M(c)!AllocatePort(st, r)
                \/ r \in M(NoConfig)!ReturnPortRequest /\ o \in M(c)!ReturnPort(st, r)
  PROVE  Follows(c, st, r, o.st)
<1>1. CASE r \in M(NoConfig)!AllocatePortRequest /\ o \in M(c)!AllocatePort(st, r)
  <2>1. r.owner \in Owners
    BY <1>1 DEF M!AllocatePortRequest
  <2>2. \/ o = M(c)!Reject(st, "pool_exhausted")
        \/ \E a \in M(c)!Allocate(st.allocs, r.owner, FALSE) :
             o = M(c)!Accept([st EXCEPT !.allocs = st.allocs \cup {a}])
    BY <1>1 DEF M!AllocatePort
  <2>3. ASSUME NEW a \in M(c)!Allocate(st.allocs, r.owner, FALSE),
               o = M(c)!Accept([st EXCEPT !.allocs = st.allocs \cup {a}])
        PROVE  Follows(c, st, r, o.st)
    <3>. DEFINE d == [st EXCEPT !.allocs = st.allocs \cup {a}]
    <3>1. /\ a \in M(NoConfig)!PortAllocation
          /\ a.port \in PoolOf(c) /\ a.port \notin {b.port : b \in st.allocs}
      BY <2>1, AllocateFree
    <3>2. st.allocs \cup {a} \in SUBSET M(NoConfig)!PortAllocation
      BY <3>1, FieldsMakeState
    <3>3. d \in States /\ d.allocs = st.allocs \cup {a}
      BY <3>2, EditedAllocs
    <3>4. o.st = d
      BY <2>3 DEF M!Accept
    <3>. HIDE DEF d
    <3>. QED BY <3>1, <3>3, <3>4 DEF Follows
  <2>. QED BY <2>2, <2>3, RefusalFollows
<1>2. CASE r \in M(NoConfig)!ReturnPortRequest /\ o \in M(c)!ReturnPort(st, r)
  <2>. DEFINE held == {a \in st.allocs : a.port = r.port}
              d == [st EXCEPT !.allocs = st.allocs \ held]
  <2>1. (\E code : o = M(c)!Reject(st, code)) \/ o = M(c)!Accept(d)
    BY <1>2 DEF M!ReturnPort
  <2>2. st.allocs \ held \in SUBSET M(NoConfig)!PortAllocation
    BY FieldsMakeState
  <2>3. d \in States /\ d.allocs = st.allocs \ held
    BY <2>2, EditedAllocs
  <2>4. CASE o = M(c)!Accept(d)
    <3>1. o.st = d /\ r.op = "return_port"
      BY <1>2, <2>4 DEF M!Accept, M!ReturnPortRequest
    <3>. HIDE DEF d
    <3>. QED BY <2>3, <3>1 DEF Follows
  <2>. QED BY <2>1, <2>4, RefusalFollows
<1>. QED BY <1>1, <1>2

\* Every mutation.
LEMMA EditsFollow ==
  ASSUME NEW c \in ConfigFiles, NEW st \in States, NEW r \in Requests, NEW o \in M(c)!Edits(st, r)
  PROVE  Follows(c, st, r, o.st)
<1>1. c \in Config /\ r \in M(NoConfig)!Request /\ ~M(c)!Malformed(r)
  BY LifecycleAssumption
<1>2. CASE r \in M(NoConfig)!CreateLBRequest \cup M(NoConfig)!UpdateLBRequest
  <2>1. /\ o \in M(c)!CreateLB(st, r) \cup M(c)!UpdateLBLabel(st, r)
        /\ r.name \in Spellings /\ r.label \in Labels /\ r.op \in {"create_lb", "update_lb"}
    BY <1>2 DEF M!Edits, M!CreateLBRequest, M!UpdateLBRequest
  <2>2. Canon[r.name] \in Names
    BY <1>1, <2>1, LifecycleAssumption DEF M!Malformed
  <2>. QED BY <1>1, <2>1, <2>2, WriteLBFollows
<1>3. CASE r \in M(NoConfig)!DeleteLBRequest \cup M(NoConfig)!DeleteMappingRequest
  <2>1. o \in M(c)!DeleteLB(st, r) \cup M(c)!DeleteMapping(st, r)
    BY <1>3 DEF M!Edits, M!DeleteLBRequest, M!DeleteMappingRequest
  <2>. QED BY <1>1, <2>1, DeletionsFollow
<1>4. CASE r \in M(NoConfig)!PutMappingRequest
  <2>1. o \in M(c)!PutMapping(st, r) /\ r.name \in Spellings /\ r.op = "put_mapping"
    BY <1>4 DEF M!Edits, M!PutMappingRequest
  <2>2. Canon[r.name] \in Names
    BY <1>1, <2>1, LifecycleAssumption DEF M!Malformed
  <2>. QED BY <1>1, <1>4, <2>1, <2>2, PutMappingFollows
<1>5. CASE r \in M(NoConfig)!AllocatePortRequest \cup M(NoConfig)!ReturnPortRequest
  <2>1. \/ r \in M(NoConfig)!AllocatePortRequest /\ o \in M(c)!AllocatePort(st, r)
        \/ r \in M(NoConfig)!ReturnPortRequest /\ o \in M(c)!ReturnPort(st, r)
    BY <1>5 DEF M!Edits, M!AllocatePortRequest, M!ReturnPortRequest
  <2>. QED BY <1>1, <2>1, ReservationsFollow
<1>. QED BY <1>1, <1>2, <1>3, <1>4, <1>5 DEF M!Request

-----------------------------------------------------------------------------
(* A step of one process *)

\* The others stay as they are.
Others(i) ==
  \A j \in Instances \ {i} :
    /\ phase'[j] = phase[j] /\ cfg'[j] = cfg[j] /\ mem'[j] = mem[j]
    /\ step'[j] = step[j] /\ call'[j] = call[j] /\ cand'[j] = cand[j]

\* What holds of each goes on to hold.
LEMMA OthersKeep ==
  ASSUME \A j \in Instances : Process(j), NEW i \in Instances, Others(i), Process(i)'
  PROVE  \A j \in Instances : Process(j)'
BY DEF Others, Process

\* The lock is kept, taken while it is free, or released by who leaves it.
LEMMA OwnerKept ==
  ASSUME Shapes, OneOwner, NEW i \in Instances, Others(i),
         \/ holder' = holder /\ (phase'[i] \in Owning <=> phase[i] \in Owning)
         \/ holder = {} /\ holder' = {i} /\ phase'[i] \in Owning
         \/ holder' = holder \ {i} /\ phase'[i] \notin Owning
  PROVE  OneOwner' /\ holder' \subseteq Instances
<1>1. \A j \in Instances : j \in holder <=> phase[j] \in Owning
  BY DEF OneOwner, Owning
<1>2. \A j \in Instances : j \in holder' <=> phase'[j] \in Owning
  BY <1>1 DEF Others
<1>3. holder' \subseteq Instances
  BY DEF Shapes
<1>. QED BY <1>2, <1>3 DEF OneOwner, Owning

\* What a process shows of the file: its snapshot, or the candidate it has saved.
Shown(i) == IF step[i] = "publish" THEN cand[i] ELSE mem[i]

\* The file stays the snapshot of who is up: nothing of the two changes, or the owner
\* changes both, beside whom no one is up.
LEMMA SnapshotKept ==
  ASSUME OneOwner, FileIsSnapshot, NEW i \in Instances, Others(i),
         \/ stray'
         \/ /\ file' = file /\ stray' = stray
            /\ phase'[i] \in Up => phase[i] \in Up /\ Shown(i)' = Shown(i)
         \/ /\ stray' = stray /\ i \in holder
            /\ phase'[i] \in Up => file' = Shown(i)'
  PROVE  FileIsSnapshot'
<1>1. i \in holder => \A j \in Instances \ {i} : phase[j] \notin Up
  BY DEF OneOwner
<1>2. \A j \in Instances \ {i} : phase'[j] = phase[j] /\ Shown(j)' = Shown(j)
  BY DEF Others, Shown
<1>3. ~stray => \A j \in Instances : phase[j] \in Up => file = Shown(j)
  BY DEF FileIsSnapshot, Shown
<1>4. ~stray' => \A j \in Instances : phase'[j] \in Up => file' = Shown(j)'
  BY <1>1, <1>2, <1>3
<1>. QED BY <1>4 DEF FileIsSnapshot, Shown

\* No mutation: the state before it, and after.
LEMMA NoMutation ==
  /\ EmptyState \in States /\ Valid(EmptyState)
  /\ "none" \notin {"save", "publish"}
BY DEF EmptyState, States, Valid, M!State, M!StoreValid, M!UniqueKeys, M!OneTLSMode,
       M!NoDanglingReference, M!Referenced

\* The invariant holds before the first daemon.
LEMMA InitInv == Init => Inv
<1>. SUFFICES ASSUME Init PROVE Inv
  OBVIOUS
<1>. USE DEF Init
<1>1. file \in States /\ Valid(file)
  BY LifecycleAssumption DEF States, Valid
<1>2. Shapes
  BY NoMutation DEF Shapes, Phases, Steps, NoRequest
<1>3. \A i \in Instances : Process(i)
  BY NoMutation DEF Process
<1>4. OneOwner /\ FileIsSnapshot
  BY DEF OneOwner, FileIsSnapshot, Up
<1>5. stray \in BOOLEAN
  OBVIOUS
<1>. QED BY <1>1, <1>2, <1>3, <1>4, <1>5 DEF Inv

-----------------------------------------------------------------------------
(* The actions *)

\* A start takes the lock, under a configuration that normalizes.
LEMMA StartInv ==
  ASSUME Inv, NEW i \in Instances, NEW c \in ConfigFiles, Start(i, c)
  PROVE  Inv'
<1>1. Shapes /\ OneOwner /\ FileIsSnapshot /\ Process(i) /\ \A j \in Instances : Process(j)
  BY DEF Inv
<1>2. /\ phase[i] = "down" /\ phase' = [phase EXCEPT ![i] = "locked"]
      /\ cfg' = [cfg EXCEPT ![i] = c] /\ holder = {} /\ holder' = {i} /\ Normalized(c)
      /\ UNCHANGED <<file, mem, call, step, cand, stray>>
  BY DEF Start, Enter, mutation
<1>3. Others(i) /\ phase'[i] = "locked" /\ cfg'[i] = c
  BY <1>1, <1>2 DEF Shapes, Others
<1>4. Process(i)'
  BY <1>1, <1>2, <1>3 DEF Process
<1>5. OneOwner' /\ holder' \subseteq Instances
  BY <1>1, <1>2, <1>3, OwnerKept DEF Owning
<1>6. FileIsSnapshot'
  BY <1>1, <1>2, <1>3, SnapshotKept DEF Up
<1>7. Shapes'
  BY <1>1, <1>2, <1>5 DEF Shapes, Phases
<1>8. \A j \in Instances : Process(j)'
  BY <1>1, <1>3, <1>4, OthersKeep
<1>. QED BY <1>2, <1>5, <1>6, <1>7, <1>8 DEF Inv

\* The state is loaded and repaired, by the one that holds the lock.
LEMMA LoadInv ==
  ASSUME Inv, NEW i \in Instances, Load(i)
  PROVE  Inv'
<1>1. Shapes /\ OneOwner /\ FileIsSnapshot /\ Process(i) /\ \A j \in Instances : Process(j)
  BY DEF Inv
<1>2. /\ phase[i] = "locked" /\ phase' = [phase EXCEPT ![i] = "starting"]
      /\ file' = M(cfg[i])!Reconcile(file) /\ mem' = [mem EXCEPT ![i] = file']
      /\ UNCHANGED <<holder, cfg, call, step, cand, stray>>
  BY DEF Load, Enter, mutation, Repaired
<1>3. file' \in States /\ Valid(file')
  BY <1>2, ReconcileKeeps DEF Inv
<1>4. Others(i) /\ phase'[i] = "starting" /\ mem'[i] = file' /\ step[i] = "none"
  BY <1>1, <1>2 DEF Shapes, Others, Process
<1>5. Process(i)'
  BY <1>1, <1>2, <1>3, <1>4, NoMutation DEF Process
<1>6. OneOwner' /\ holder' \subseteq Instances
  BY <1>1, <1>2, <1>4, OwnerKept DEF Owning, Up
<1>7. FileIsSnapshot'
  <2>1. i \in holder
    BY <1>1, <1>2 DEF OneOwner
  <2>2. file' = Shown(i)'
    BY <1>2, <1>4 DEF Shown
  <2>. QED BY <1>1, <1>2, <1>4, <2>1, <2>2, SnapshotKept
<1>8. Shapes'
  BY <1>1, <1>2, <1>3, <1>6 DEF Shapes, Phases, Up
<1>9. \A j \in Instances : Process(j)'
  BY <1>1, <1>4, <1>5, OthersKeep
<1>. QED BY <1>2, <1>3, <1>6, <1>7, <1>8, <1>9 DEF Inv

\* A setup that fails may leave the repaired file.
LEMMA SetupFailsInv ==
  ASSUME Inv, NEW i \in Instances, SetupFails(i)
  PROVE  Inv'
<1>1. Shapes /\ OneOwner /\ FileIsSnapshot /\ Process(i) /\ \A j \in Instances : Process(j)
  BY DEF Inv
<1>2. /\ phase[i] = "locked" /\ phase' = [phase EXCEPT ![i] = "down"]
      /\ holder' = holder \ {i} /\ cfg' = [cfg EXCEPT ![i] = NoConfig]
      /\ file' = file \/ file' = M(cfg[i])!Reconcile(file)
      /\ UNCHANGED <<mem, call, step, cand, stray>>
  BY DEF SetupFails, Enter, mutation, Repaired
<1>3. file' \in States /\ Valid(file')
  BY <1>2, ReconcileKeeps DEF Inv
<1>4. Others(i) /\ phase'[i] = "down" /\ cfg'[i] = NoConfig /\ step[i] = "none"
  BY <1>1, <1>2 DEF Shapes, Others, Process
<1>5. Process(i)'
  BY <1>1, <1>2, <1>4, NoMutation DEF Process
<1>6. OneOwner' /\ holder' \subseteq Instances
  BY <1>1, <1>2, <1>4, OwnerKept DEF Owning, Up
<1>7. FileIsSnapshot'
  <2>1. i \in holder /\ phase'[i] \notin Up
    BY <1>1, <1>2, <1>4 DEF OneOwner, Up
  <2>. QED BY <1>1, <1>2, <1>4, <2>1, SnapshotKept
<1>8. Shapes'
  BY <1>1, <1>2, <1>6 DEF Shapes, Phases
<1>9. \A j \in Instances : Process(j)'
  BY <1>1, <1>4, <1>5, OthersKeep
<1>. QED BY <1>2, <1>3, <1>6, <1>7, <1>8, <1>9 DEF Inv

\* A process goes on to another phase, and releases the lock when it closes.
LEMMA PhaseInv ==
  ASSUME Inv, NEW i \in Instances, Ready(i) \/ BindFails(i) \/ Sigterm(i) \/ Close(i)
  PROVE  Inv'
<1>1. Shapes /\ OneOwner /\ FileIsSnapshot /\ Process(i) /\ \A j \in Instances : Process(j)
  BY DEF Inv
<1>2. PICK p \in {"serving", "draining", "closed"} :
        /\ phase[i] \in Up /\ phase' = [phase EXCEPT ![i] = p]
        /\ holder' = IF p = "closed" THEN holder \ {i} ELSE holder
        /\ UNCHANGED <<file, cfg, mem, call, step, cand, stray>>
  BY DEF Ready, BindFails, Sigterm, Close, Enter, mutation, Up
<1>3. Others(i) /\ phase'[i] = p /\ phase[i] \notin {"down", "locked"}
  BY <1>1, <1>2 DEF Shapes, Others, Up
<1>4. Process(i)'
  BY <1>1, <1>2, <1>3 DEF Process
<1>5. OneOwner' /\ holder' \subseteq Instances
  BY <1>1, <1>2, <1>3, OwnerKept DEF Owning, Up
<1>6. FileIsSnapshot'
  <2>1. Shown(i)' = Shown(i)
    BY <1>2 DEF Shown
  <2>. QED BY <1>1, <1>2, <1>3, <2>1, SnapshotKept
<1>7. Shapes'
  BY <1>1, <1>2, <1>5 DEF Shapes, Phases, Up
<1>8. \A j \in Instances : Process(j)'
  BY <1>1, <1>3, <1>4, OthersKeep
<1>. QED BY <1>2, <1>5, <1>6, <1>7, <1>8 DEF Inv

\* A request is accepted.
LEMMA AcceptInv ==
  ASSUME Inv, NEW i \in Instances, Accept(i)
  PROVE  Inv'
<1>1. Shapes /\ OneOwner /\ FileIsSnapshot /\ Process(i) /\ \A j \in Instances : Process(j)
  BY DEF Inv
<1>2. /\ phase[i] \in {"starting", "serving"} /\ step[i] = "none"
      /\ step' = [step EXCEPT ![i] = "accepted"]
      /\ UNCHANGED <<file, holder, phase, cfg, mem, call, cand, stray>>
  BY DEF Accept, process
<1>3. Others(i) /\ step'[i] = "accepted"
  BY <1>1, <1>2 DEF Shapes, Others
<1>4. Process(i)'
  BY <1>1, <1>2, <1>3 DEF Process
<1>5. OneOwner' /\ holder' \subseteq Instances
  BY <1>1, <1>2, <1>3, OwnerKept
<1>6. FileIsSnapshot'
  BY <1>1, <1>2, <1>3, SnapshotKept DEF Shown
<1>7. Shapes'
  BY <1>1, <1>2 DEF Shapes, Steps
<1>8. \A j \in Instances : Process(j)'
  BY <1>1, <1>3, <1>4, OthersKeep
<1>. QED BY <1>2, <1>5, <1>6, <1>7, <1>8 DEF Inv

\* Its candidate is built and validated, or it is refused.
LEMMA CheckInv ==
  ASSUME Inv, NEW i \in Instances, NEW r \in Requests, Check(i, r)
  PROVE  Inv'
<1>1. Shapes /\ OneOwner /\ FileIsSnapshot /\ Process(i) /\ \A j \in Instances : Process(j)
  BY DEF Inv
<1>2. /\ step[i] = "accepted"
      /\ UNCHANGED <<file, holder, phase, cfg, mem, stray>>
  BY DEF Check, process
<1>3. \/ Answered(i)
      \/ \E o \in M(cfg[i])!Edits(mem[i], r) :
           /\ o.err = "none" /\ M(cfg[i])!Validate(o.st, Names, Texts)
           /\ step' = [step EXCEPT ![i] = "save"]
           /\ call' = [call EXCEPT ![i] = r] /\ cand' = [cand EXCEPT ![i] = o.st]
  BY DEF Check
<1>4. /\ phase[i] \notin {"down", "locked"} /\ cfg[i] \in ConfigFiles /\ mem[i] \in States
  BY <1>1, <1>2 DEF Process, Shapes
<1>5. /\ Others(i) /\ Process(i)' /\ step'[i] # "publish"
      /\ step' \in [Instances -> Steps] /\ cand' \in [Instances -> States]
      /\ call' \in [Instances -> Requests \cup {NoRequest}]
  <2>1. CASE Answered(i)
    <3>1. /\ call' = [call EXCEPT ![i] = NoRequest] /\ step' = [step EXCEPT ![i] = "none"]
          /\ cand' = [cand EXCEPT ![i] = EmptyState]
      BY <2>1 DEF Answered
    <3>2. /\ Others(i) /\ step'[i] = "none" /\ call'[i] = NoRequest /\ cand'[i] = EmptyState
          /\ step' \in [Instances -> Steps] /\ cand' \in [Instances -> States]
          /\ call' \in [Instances -> Requests \cup {NoRequest}]
      BY <1>1, <1>2, <3>1, NoMutation DEF Shapes, Others, Steps
    <3>3. Process(i)'
      BY <1>1, <1>2, <3>2, NoMutation DEF Process
    <3>. QED BY <3>2, <3>3
  <2>2. ASSUME NEW o \in M(cfg[i])!Edits(mem[i], r), o.err = "none",
               M(cfg[i])!Validate(o.st, Names, Texts),
               step' = [step EXCEPT ![i] = "save"],
               call' = [call EXCEPT ![i] = r], cand' = [cand EXCEPT ![i] = o.st]
        PROVE  /\ Others(i) /\ Process(i)' /\ step'[i] # "publish"
               /\ step' \in [Instances -> Steps] /\ cand' \in [Instances -> States]
               /\ call' \in [Instances -> Requests \cup {NoRequest}]
    <3>1. o.st \in States
      BY <1>4, EditsFollow DEF Follows
    <3>2. Valid(o.st)
      BY <2>2, SameData DEF M!Validate
    <3>3. /\ Others(i) /\ step'[i] = "save" /\ call'[i] = r /\ cand'[i] = o.st
          /\ step' \in [Instances -> Steps] /\ cand' \in [Instances -> States]
          /\ call' \in [Instances -> Requests \cup {NoRequest}]
      BY <1>1, <1>2, <2>2, <3>1 DEF Shapes, Others, Steps
    <3>4. Process(i)'
      BY <1>1, <1>2, <1>4, <2>2, <3>2, <3>3 DEF Process
    <3>. QED BY <3>3, <3>4
  <2>. QED BY <1>3, <2>1, <2>2
<1>6. OneOwner' /\ holder' \subseteq Instances
  BY <1>1, <1>2, <1>5, OwnerKept
<1>7. FileIsSnapshot'
  <2>1. Shown(i)' = Shown(i)
    BY <1>2, <1>5 DEF Shown
  <2>. QED BY <1>1, <1>2, <1>5, <2>1, SnapshotKept
<1>8. Shapes'
  BY <1>1, <1>2, <1>5 DEF Shapes
<1>9. \A j \in Instances : Process(j)'
  BY <1>1, <1>5, OthersKeep
<1>. QED BY <1>2, <1>6, <1>7, <1>8, <1>9 DEF Inv

\* The candidate is saved: by the owner, or it is a stray save.
LEMMA SaveInv ==
  ASSUME Inv, NEW i \in Instances, Save(i)
  PROVE  Inv'
<1>1. Shapes /\ OneOwner /\ FileIsSnapshot /\ Process(i) /\ \A j \in Instances : Process(j)
  BY DEF Inv
<1>2. /\ step[i] = "save" /\ step' = [step EXCEPT ![i] = "publish"]
      /\ file' = cand[i] /\ stray' = (stray \/ i \notin holder)
      /\ UNCHANGED <<holder, phase, cfg, mem, call, cand>>
  BY DEF Save, process
<1>3. Others(i) /\ step'[i] = "publish"
  BY <1>1, <1>2 DEF Shapes, Others
<1>4. file' \in States /\ Valid(file')
  BY <1>1, <1>2 DEF Shapes, Process
<1>5. Process(i)'
  BY <1>1, <1>2, <1>3 DEF Process
<1>6. OneOwner' /\ holder' \subseteq Instances
  BY <1>1, <1>2, <1>3, OwnerKept
<1>7. FileIsSnapshot'
  <2>1. file' = Shown(i)'
    BY <1>2, <1>3 DEF Shown
  <2>2. stray' \/ (stray' = stray /\ i \in holder)
    BY <1>2 DEF Inv
  <2>. QED BY <1>1, <1>3, <2>1, <2>2, SnapshotKept
<1>8. Shapes'
  BY <1>1, <1>2 DEF Shapes, Steps
<1>9. \A j \in Instances : Process(j)'
  BY <1>1, <1>3, <1>5, OthersKeep
<1>10. stray' \in BOOLEAN
  BY <1>2
<1>. QED BY <1>4, <1>6, <1>7, <1>8, <1>9, <1>10 DEF Inv

\* The candidate becomes the snapshot.
LEMMA PublishInv ==
  ASSUME Inv, NEW i \in Instances, Publish(i)
  PROVE  Inv'
<1>1. Shapes /\ OneOwner /\ FileIsSnapshot /\ Process(i) /\ \A j \in Instances : Process(j)
  BY DEF Inv
<1>2. /\ step[i] = "publish" /\ step' = [step EXCEPT ![i] = "none"]
      /\ mem' = [mem EXCEPT ![i] = cand[i]]
      /\ call' = [call EXCEPT ![i] = NoRequest] /\ cand' = [cand EXCEPT ![i] = EmptyState]
      /\ UNCHANGED <<file, holder, phase, cfg, stray>>
  BY DEF Publish, Answered, process
<1>3. /\ Others(i) /\ step'[i] = "none" /\ mem'[i] = cand[i]
      /\ call'[i] = NoRequest /\ cand'[i] = EmptyState
  BY <1>1, <1>2 DEF Shapes, Others
<1>4. Process(i)'
  BY <1>1, <1>2, <1>3, NoMutation DEF Process
<1>5. OneOwner' /\ holder' \subseteq Instances
  BY <1>1, <1>2, <1>3, OwnerKept
<1>6. FileIsSnapshot'
  <2>1. Shown(i)' = Shown(i)
    BY <1>2, <1>3 DEF Shown
  <2>. QED BY <1>1, <1>2, <1>3, <2>1, SnapshotKept
<1>7. Shapes'
  BY <1>1, <1>2, NoMutation DEF Shapes, Steps
<1>8. \A j \in Instances : Process(j)'
  BY <1>1, <1>3, <1>4, OthersKeep
<1>. QED BY <1>2, <1>5, <1>6, <1>7, <1>8 DEF Inv

\* A process is gone: it exits after it closed, or is killed.
LEMMA EndInv ==
  ASSUME Inv, NEW i \in Instances, Exit(i) \/ Kill(i)
  PROVE  Inv'
<1>1. Shapes /\ OneOwner /\ FileIsSnapshot /\ Process(i) /\ \A j \in Instances : Process(j)
  BY DEF Inv
<1>2. /\ phase' = [phase EXCEPT ![i] = "down"] /\ step' = [step EXCEPT ![i] = "none"]
      /\ cfg' = [cfg EXCEPT ![i] = NoConfig] /\ mem' = [mem EXCEPT ![i] = EmptyState]
      /\ call' = [call EXCEPT ![i] = NoRequest] /\ cand' = [cand EXCEPT ![i] = EmptyState]
      /\ UNCHANGED <<file, stray>>
      /\ (phase[i] = "closed" /\ holder' = holder) \/ holder' = holder \ {i}
  BY DEF Exit, Kill, Enter, Gone, Answered
<1>3. /\ Others(i) /\ phase'[i] = "down" /\ cfg'[i] = NoConfig /\ mem'[i] = EmptyState
      /\ step'[i] = "none" /\ call'[i] = NoRequest /\ cand'[i] = EmptyState
  BY <1>1, <1>2 DEF Shapes, Others
<1>4. Process(i)'
  BY <1>3, NoMutation DEF Process
<1>5. OneOwner' /\ holder' \subseteq Instances
  BY <1>1, <1>2, <1>3, OwnerKept DEF Owning, Up
<1>6. FileIsSnapshot'
  BY <1>1, <1>2, <1>3, SnapshotKept DEF Up
<1>7. Shapes'
  BY <1>1, <1>2, <1>5, NoMutation DEF Shapes, Steps, Phases
<1>8. \A j \in Instances : Process(j)'
  BY <1>1, <1>3, <1>4, OthersKeep
<1>. QED BY <1>2, <1>5, <1>6, <1>7, <1>8 DEF Inv

\* Every step keeps the invariant.
LEMMA NextInv == Inv /\ [Next]_vars => Inv'
<1>. SUFFICES ASSUME Inv, [Next]_vars PROVE Inv'
  OBVIOUS
<1>1. CASE Next
  BY <1>1, StartInv, LoadInv, SetupFailsInv, PhaseInv, AcceptInv, CheckInv, SaveInv, PublishInv,
     EndInv DEF Next
<1>2. CASE UNCHANGED vars
  <2>1. UNCHANGED <<file, holder, phase, cfg, mem, call, step, cand, stray>>
    BY <1>2 DEF vars, process, mutation
  <2>. QED BY <2>1 DEF Inv, Shapes, Process, OneOwner, FileIsSnapshot
<1>. QED BY <1>1, <1>2

-----------------------------------------------------------------------------
(* The theorems *)

\* The invariant holds of every behaviour.
THEOREM InvariantHolds == Spec => []Inv
BY InitInv, NextInv, PTL DEF Spec

\* Nothing of an earlier run is left in a process that starts again, and every state
\* that is loaded, edited or saved is one (serve.go:60-120, txn.go:121-299).
THEOREM TypeCorrect == Spec => []TypeOK
<1>1. ASSUME Inv PROVE TypeOK
  <2>1. Shapes /\ file \in States /\ stray \in BOOLEAN /\ \A i \in Instances : Process(i)
    BY <1>1 DEF Inv
  <2>2. \A st \in {file} \cup {mem[i] : i \in Instances} \cup {cand[i] : i \in Instances} :
          st \in M(NoConfig)!State
    BY <2>1 DEF Shapes, States
  <2>. QED BY <2>1, <2>2 DEF TypeOK, Shapes, Phases, Steps, Process
<1>. QED BY <1>1, InvariantHolds, PTL

\* At most one process has the state loaded or loads it, and it holds the lock, however
\* many start, fail, close and are killed (lock_unix.go:19-29).
THEOREM OneProcessOwns == Spec => []OneOwner
<1>1. Inv => OneOwner
  BY DEF Inv
<1>. QED BY <1>1, InvariantHolds, PTL

\* Until a process saves after it closed its store, the file is the snapshot of the one
\* that runs, or the candidate it is about to publish (txn.go:88-119).
THEOREM FileInStep == Spec => []FileIsSnapshot
<1>1. Inv => FileIsSnapshot
  BY DEF Inv
<1>. QED BY <1>1, InvariantHolds, PTL

\* The next start accepts the file, whatever happened before, under whatever
\* configuration (serve.go:88-91).
THEOREM AlwaysLoads == Spec => []FileLoads
<1>1. ASSUME Inv PROVE FileLoads
  BY <1>1, SameData DEF Inv, FileLoads
<1>. QED BY <1>1, InvariantHolds, PTL

\* What a process does to the file while no save is stray: it repairs it at its start,
\* or saves what its mutation made of it.
LEMMA FileSteps ==
  ASSUME Inv, Next, ~stray', file' # file
  PROVE  \E i \in holder :
           \/ phase[i] = "locked" /\ file' = M(cfg[i])!Reconcile(file)
           \/ /\ step[i] = "save" /\ phase[i] \in Up /\ call[i] \in Requests
              /\ cfg[i] \in ConfigFiles /\ M(cfg[i])!Validate(file', Names, Texts)
              /\ \E o \in M(cfg[i])!Edits(file, call[i]) : o.err = "none" /\ o.st = file'
<1>1. PICK i \in Instances : Load(i) \/ SetupFails(i) \/ Save(i)
  BY DEF Next, Start, Ready, BindFails, Accept, Check, Publish, Sigterm, Close, Exit, Kill, Gone
<1>2. Process(i) /\ OneOwner /\ FileIsSnapshot
  BY DEF Inv
<1>3. CASE Load(i) \/ SetupFails(i)
  <2>1. phase[i] = "locked" /\ file' = M(cfg[i])!Reconcile(file)
    BY <1>3 DEF Load, SetupFails, Enter, Repaired
  <2>2. i \in holder
    BY <1>2, <2>1 DEF OneOwner
  <2>. QED BY <2>1, <2>2
<1>4. CASE Save(i)
  <2>1. step[i] = "save" /\ file' = cand[i] /\ i \in holder /\ ~stray
    BY <1>4 DEF Save
  <2>2. phase[i] \in Up /\ cfg[i] \in ConfigFiles /\ call[i] \in Requests
    BY <1>2, <2>1 DEF Process, OneOwner, Up
  <2>3. file = mem[i]
    BY <1>2, <2>1, <2>2 DEF FileIsSnapshot
  <2>. QED BY <1>2, <2>1, <2>2, <2>3 DEF Process
<1>. QED BY <1>1, <1>3, <1>4

\* No update is lost: every change of the file is the owner's, made of what the file
\* holds, for any number of processes and any history of configurations
\* (serve.go:83-101, txn.go:83-98).
THEOREM NoLostUpdate == Spec => UpdatesAreNotLost
<1>1. ASSUME Inv, [Next]_vars
      PROVE  [~stray' /\ file' # file =>
                \E i \in holder :
                  \/ phase[i] = "locked" /\ file' = M(cfg[i])!Reconcile(file)
                  \/ /\ step[i] = "save" /\ M(cfg[i])!Validate(file', Names, Texts)
                     /\ \E o \in M(cfg[i])!Edits(file, call[i]) :
                          o.err = "none" /\ o.st = file']_vars
  BY <1>1, FileSteps
<1>. QED BY <1>1, InvariantHolds, PTL DEF Spec, UpdatesAreNotLost

\* A reservation made by hand outlives every run and every configuration, until its
\* port is returned (registry.go:9-28).
THEOREM ReservationsKept == Spec => ReservationsOutliveRuns
<1>1. ASSUME Inv, [Next]_vars
      PROVE  [~stray' =>
                \A a \in file.allocs \ file'.allocs : a.auto \/
                  \E i \in Instances : call[i].op = "return_port" /\ call[i].port = a.port]_vars
  <2>. SUFFICES ASSUME ~stray', NEW a \in file.allocs \ file'.allocs
                PROVE  a.auto \/
                  \E i \in Instances : call[i].op = "return_port" /\ call[i].port = a.port
    OBVIOUS
  <2>1. file' # file
    OBVIOUS
  <2>2. Next /\ file \in States /\ holder \subseteq Instances
    BY <1>1, <2>1 DEF vars, Inv, Shapes
  <2>3. PICK i \in holder :
          \/ file' = M(cfg[i])!Reconcile(file)
          \/ /\ call[i] \in Requests /\ cfg[i] \in ConfigFiles
             /\ \E o \in M(cfg[i])!Edits(file, call[i]) : o.st = file'
    BY <1>1, <2>1, <2>2, FileSteps
  <2>4. CASE file' = M(cfg[i])!Reconcile(file)
    BY <2>2, <2>4, ReconcileKeeps
  <2>5. CASE /\ call[i] \in Requests /\ cfg[i] \in ConfigFiles
             /\ \E o \in M(cfg[i])!Edits(file, call[i]) : o.st = file'
    BY <2>2, <2>5, EditsFollow DEF Follows
  <2>. QED BY <2>3, <2>4, <2>5
<1>. QED BY <1>1, InvariantHolds, PTL DEF Spec, ReservationsOutliveRuns

\* What is published is the candidate, whose new ports are free ones of the pool of the
\* run, and whose listeners are outside of it.
LEMMA PublishedFits ==
  ASSUME Inv, NEW i \in Instances, step[i] = "publish", phase[i] # "down",
         NEW a \in cand[i].allocs \ mem[i].allocs
  PROVE  /\ a.port \in PoolOf(cfg[i]) /\ a.port \notin {b.port : b \in mem[i].allocs}
         /\ a.port \notin AlwaysOnPorts(cfg[i]) \cup {m.port : m \in cand[i].maps}
<1>1. Process(i) /\ Shapes
  BY DEF Inv
<1>2. cfg[i] \in ConfigFiles /\ mem[i] \in States /\ Normalized(cfg[i])
  BY <1>1 DEF Process, Shapes
<1>3. PICK o \in M(cfg[i])!Edits(mem[i], call[i]) : cand[i] = o.st
  BY <1>1 DEF Process
<1>4. Follows(cfg[i], mem[i], call[i], cand[i])
  BY <1>1, <1>2, <1>3, EditsFollow DEF Process
<1>5. M(cfg[i])!Validate(cand[i], Names, Texts)
  BY <1>1 DEF Process
<1>6. \A m \in cand[i].maps : m.port \notin PoolOf(cfg[i])
  BY <1>5 DEF M!Validate, M!MappingValid, M!ListenPortValid, M!Pool, PoolOf
<1>7. AlwaysOnPorts(cfg[i]) \cap PoolOf(cfg[i]) = {}
  BY <1>2 DEF Normalized
<1>. QED BY <1>4, <1>6, <1>7 DEF Follows

\* A granted port is of the pool of its run, free, and no listener of the daemon, for
\* every history of pools (allocate.go:20-35, config.go:167-174).
THEOREM GrantsAreFree == Spec => GrantsFit
<1>1. ASSUME Inv, [Next]_vars
      PROVE  [\A i \in Instances : phase[i] \in Up =>
                \A a \in mem'[i].allocs \ mem[i].allocs :
                  /\ a.port \in PoolOf(cfg[i])
                  /\ a.port \notin {b.port : b \in mem[i].allocs}
                  /\ a.port \notin AlwaysOnPorts(cfg[i]) \cup {m.port : m \in mem'[i].maps}]_vars
  <2>. SUFFICES ASSUME NEW i \in Instances, phase[i] \in Up,
                       NEW a \in mem'[i].allocs \ mem[i].allocs
                PROVE  /\ a.port \in PoolOf(cfg[i])
                       /\ a.port \notin {b.port : b \in mem[i].allocs}
                       /\ a.port \notin AlwaysOnPorts(cfg[i])
                                          \cup {m.port : m \in mem'[i].maps}
    OBVIOUS
  <2>1. mem'[i] # mem[i] /\ mem'[i] # EmptyState /\ Shapes /\ phase[i] \notin {"down", "locked"}
    BY <1>1 DEF Inv, EmptyState, Up
  <2>2. PICK j \in Instances : Load(j) \/ Publish(j) \/ Exit(j) \/ Kill(j)
    BY <1>1, <2>1 DEF Next, Start, SetupFails, Ready, BindFails, Accept, Check, Save, Sigterm,
       Close, vars
  <2>3. CASE Load(j)
    BY <2>1, <2>3 DEF Load, Enter, Shapes
  <2>4. CASE Exit(j) \/ Kill(j)
    BY <2>1, <2>4 DEF Exit, Kill, Gone, Shapes
  <2>5. CASE Publish(j)
    <3>1. i = j /\ step[i] = "publish" /\ mem'[i] = cand[i]
      BY <2>1, <2>5 DEF Publish, Shapes
    <3>. QED BY <1>1, <2>1, <3>1, PublishedFits
  <2>. QED BY <2>2, <2>3, <2>4, <2>5
<1>. QED BY <1>1, InvariantHolds, PTL DEF Spec, GrantsFit
=============================================================================
