----------------------------- MODULE TxnManager -----------------------------
(***************************************************************************)
(* The transaction manager (internal/txn/txn.go) over the store            *)
(* (internal/store/store.go), with the requests of several callers in      *)
(* flight, failing disk operations, crashes and restarts.                  *)
(*                                                                         *)
(* One caller's mutation is a sequence of steps under Manager.mu:          *)
(*   Begin     lock, clone the snapshot, edit the clone                    *)
(*   Check     txn.Validate                                                *)
(*   Rename    temp file written, synced and renamed over the state file   *)
(*   SyncDir   the directory synced: the commit point                      *)
(*   Publish   the snapshot pointer swapped                                *)
(*   Apply     the proxy told; unlock                                      *)
(* Begin joins the lock to the edit: only the holder of the lock writes    *)
(* the snapshot.  Store.mu adds nothing under Manager.mu and is left out.  *)
(*                                                                         *)
(* The disk is `file`, what a read of the state file returns now, and      *)
(* `survivors`, the contents it may have after a power loss: a rename      *)
(* whose directory was not synced may be undone.                           *)
(*                                                                         *)
(* Beside the callers runs main (cmd/rgdevenv/serve.go): it applies the    *)
(* snapshot at the start and at every SIGHUP, and takes no Manager.mu for  *)
(* that.  An apply is one step here, its last: what is inside it is in     *)
(* ProxyServer.                                                            *)
(***************************************************************************)
EXTENDS StateModel

CONSTANTS
  Callers,        \* goroutines that serve management requests
  InitialFiles,   \* contents the state file may have at the first start
  CertSets,       \* what the certificates cover, before and after reloads
  CASets,         \* what the CA directory may hold
  NoState,        \* no candidate
  MaxEvents       \* bound on crashes, failed disk operations and SIGHUPs

ASSUME ManagerAssumption ==
  /\ InitialFiles \subseteq State
  /\ \A f \in InitialFiles : StoreValid(f) /\ Sound(Reconcile(f))
  /\ NoState \notin State
  /\ MaxEvents \in Nat
  /\ \A c \in CertSets : c \subseteq Names

VARIABLES
  running,    \* the daemon has started
  snap,       \* Store.snap, the published snapshot
  served,     \* the state of the last apply that ended
  main,       \* what main does: nothing, read the snapshot, apply what it read
  mainSt,     \* the state main applies
  overtaken,  \* history: the last apply was main's, of a snapshot replaced since
  file,       \* the state file
  survivors,  \* what the state file may hold after a power loss
  lock,       \* the holders of Manager.mu
  pc,         \* where each caller's request is
  req,        \* the request
  cand,       \* its candidate, while it holds the lock
  resp,       \* its answer
  covered,    \* hostnames the loaded certificates cover
  cas,        \* CAs that load from the CA directory
  events      \* crashes, failed disk operations and SIGHUPs so far

disk == <<file, survivors>>
env == <<covered, cas>>
proxy == <<served, main, mainSt, overtaken>>
vars == <<running, snap, served, main, mainSt, overtaken, file, survivors, lock,
          pc, req, cand, resp, covered, cas, events>>

Steps == {"idle", "lock", "check", "rename", "syncdir", "publish", "apply", "reply"}

Answers == {"none", "committed", "invalid", "invalid_hostname", "persist",
            "duplicate_lb", "lb_not_found", "mapping_exists", "mapping_not_found",
            "pool_exhausted", "port_not_allocated", "port_in_use"}

Init ==
  /\ running = FALSE
  /\ file \in InitialFiles
  /\ survivors = {file}
  /\ snap = EmptyState
  /\ served = EmptyState
  /\ main = "idle" /\ mainSt = NoState /\ overtaken = FALSE
  /\ lock = {}
  /\ pc = [c \in Callers |-> "idle"]
  /\ req = [c \in Callers |-> NoRequest]
  /\ cand = [c \in Callers |-> NoState]
  /\ resp = [c \in Callers |-> "none"]
  /\ covered \in CertSets
  /\ cas \in CASets
  /\ events = 0

-----------------------------------------------------------------------------
(* Start and crash *)

\* main has the state st to apply: requests may come before it has.
Applies(st) == main' = "apply" /\ mainSt' = st /\ UNCHANGED <<served, overtaken>>

\* setupServer, when the file needs no repair, up to the first apply.
Start ==
  /\ ~running
  /\ StoreValid(file)
  /\ Reconcile(file) = file
  /\ running' = TRUE
  /\ snap' = file
  /\ Applies(file)
  /\ UNCHANGED <<disk, lock, pc, req, cand, resp, env, events>>

\* setupServer when the file holds orphaned automatic allocations: the repaired
\* state is saved before it is published.
StartRepaired ==
  /\ ~running
  /\ StoreValid(file)
  /\ Reconcile(file) # file
  /\ running' = TRUE
  /\ file' = Reconcile(file)
  /\ survivors' = {Reconcile(file)}
  /\ snap' = Reconcile(file)
  /\ Applies(Reconcile(file))
  /\ UNCHANGED <<lock, pc, req, cand, resp, env, events>>

\* That save fails, before or after its rename, and the daemon exits.
StartFails ==
  /\ ~running
  /\ events < MaxEvents
  /\ StoreValid(file)
  /\ Reconcile(file) # file
  /\ \/ UNCHANGED disk
     \/ file' = Reconcile(file) /\ survivors' = survivors \cup {Reconcile(file)}
  /\ events' = events + 1
  /\ UNCHANGED <<running, snap, proxy, lock, pc, req, cand, resp, env>>

\* The process is killed: the kernel keeps the renamed file.  Or the machine loses
\* power, and the file is one of those that may survive.
Crash ==
  /\ running
  /\ events < MaxEvents
  /\ running' = FALSE
  /\ \/ UNCHANGED disk
     \/ file' \in survivors /\ survivors' = {file'}
  /\ snap' = EmptyState
  /\ served' = EmptyState
  /\ main' = "idle" /\ mainSt' = NoState /\ overtaken' = FALSE
  /\ lock' = {}
  /\ pc' = [c \in Callers |-> "idle"]
  /\ req' = [c \in Callers |-> NoRequest]
  /\ cand' = [c \in Callers |-> NoState]
  /\ resp' = [c \in Callers |-> "none"]
  /\ events' = events + 1
  /\ UNCHANGED env

-----------------------------------------------------------------------------
(* One mutation *)

\* The step from a to b of the request of caller c.
Goto(c, a, b) ==
  /\ running
  /\ pc[c] = a
  /\ pc' = [pc EXCEPT ![c] = b]

FinishUnlessFailed(c, a, answer) ==
  /\ Goto(c, a, "reply")
  /\ lock' = IF answer = "persist" THEN lock ELSE lock \ {c}
  /\ cand' = [cand EXCEPT ![c] = NoState]
  /\ resp' = [resp EXCEPT ![c] = answer]
  /\ UNCHANGED req

\* The deferred unlock, then the answer.
Finish(c, a, answer) ==
  /\ Goto(c, a, "reply")
  /\ lock' = lock \ {c}
  /\ cand' = [cand EXCEPT ![c] = NoState]
  /\ resp' = [resp EXCEPT ![c] = answer]
  /\ UNCHANGED req

Call(c, r) ==
  /\ running
  /\ pc[c] = "idle"
  /\ req' = [req EXCEPT ![c] = r]
  /\ \/ /\ Malformed(r)
        /\ pc' = [pc EXCEPT ![c] = "reply"]
        /\ resp' = [resp EXCEPT ![c] = "invalid_hostname"]
     \/ /\ ~Malformed(r)
        /\ pc' = [pc EXCEPT ![c] = "lock"]
        /\ UNCHANGED resp
  /\ UNCHANGED <<running, snap, proxy, disk, lock, cand, env, events>>

\* Clone the published snapshot and edit the clone; a refusal returns at once.
Edit(c) ==
  /\ pc[c] = "lock"
  /\ \E o \in Edits(snap, req[c]) :
       \/ /\ o.err # "none"
          /\ Finish(c, "lock", o.err)
       \/ /\ o.err = "none"
          /\ Goto(c, "lock", "check")
          /\ lock' = lock \cup {c}
          /\ cand' = [cand EXCEPT ![c] = o.st]
          /\ UNCHANGED <<req, resp>>
  /\ UNCHANGED <<running, snap, proxy, disk, env, events>>

BeginUnlocked(c) == Edit(c)

\* m.mu.Lock(), then the edit.
Begin(c) == lock = {} /\ Edit(c)

CheckSkipped(c) ==
  /\ Goto(c, "check", "rename")
  /\ UNCHANGED <<running, snap, proxy, disk, lock, cand, req, resp, env, events>>

\* commitLocked: txn.Validate on the whole candidate.
Check(c) ==
  /\ pc[c] = "check"
  /\ \/ /\ Validate(cand[c], covered, cas)
        /\ Goto(c, "check", "rename")
        /\ UNCHANGED <<lock, cand, req, resp>>
     \/ /\ ~Validate(cand[c], covered, cas)
        /\ Finish(c, "check", "invalid")
  /\ UNCHANGED <<running, snap, proxy, disk, env, events>>

\* Store.Save fails before or at its rename.
SaveFails(c) ==
  /\ events < MaxEvents
  /\ Finish(c, "rename", "persist")
  /\ events' = events + 1
  /\ UNCHANGED <<running, snap, proxy, disk, env>>

\* The temporary file is complete and synced, and renamed over the state file.
Rename(c) ==
  /\ Goto(c, "rename", "syncdir")
  /\ file' = cand[c]
  /\ survivors' = survivors \cup {cand[c]}
  /\ UNCHANGED <<running, snap, proxy, lock, req, cand, resp, env, events>>

SyncDirSkipped(c) ==
  /\ Goto(c, "syncdir", "publish")
  /\ UNCHANGED <<running, snap, proxy, disk, lock, req, cand, resp, env, events>>

\* fsyncDir: the rename is durable.  This is the commit point.
SyncDir(c) ==
  /\ Goto(c, "syncdir", "publish")
  /\ survivors' = {file}
  /\ UNCHANGED <<running, snap, proxy, file, lock, req, cand, resp, env, events>>

\* fsyncDir fails, and Save returns its error with the new file in place.
SyncDirFails(c) ==
  /\ events < MaxEvents
  /\ Finish(c, "syncdir", "persist")
  /\ events' = events + 1
  /\ UNCHANGED <<running, snap, proxy, disk, env>>

PublishUnlocks(c) ==
  /\ Goto(c, "publish", "apply")
  /\ snap' = cand[c]
  /\ lock' = lock \ {c}
  /\ UNCHANGED <<running, proxy, disk, req, cand, resp, env, events>>

Publish(c) ==
  /\ Goto(c, "publish", "apply")
  /\ snap' = cand[c]
  /\ UNCHANGED <<running, proxy, disk, lock, req, cand, resp, env, events>>

\* The apply callback, under the lock; then the method returns.
Apply(c) ==
  /\ Finish(c, "apply", "committed")
  /\ served' = cand[c]
  /\ overtaken' = FALSE
  /\ UNCHANGED <<running, snap, main, mainSt, disk, env, events>>

\* The caller has its answer.
Return(c) ==
  /\ Goto(c, "reply", "idle")
  /\ req' = [req EXCEPT ![c] = NoRequest]
  /\ resp' = [resp EXCEPT ![c] = "none"]
  /\ UNCHANGED <<running, snap, proxy, disk, lock, cand, env, events>>

-----------------------------------------------------------------------------
(* SIGHUP, and the environment of validation *)

\* SIGHUP: the certificates are swapped, or kept when the new ones do not load.
\* Then main reads the snapshot, and applies what it has read.
ReloadCerts ==
  /\ running
  /\ events < MaxEvents
  /\ main = "idle"
  /\ covered' \in CertSets
  /\ main' = "read"
  /\ events' = events + 1
  /\ UNCHANGED <<running, snap, served, mainSt, overtaken, disk, lock, pc, req, cand,
                 resp, cas>>

MainRead ==
  /\ main = "read"
  /\ Applies(snap)
  /\ UNCHANGED <<running, snap, disk, lock, pc, req, cand, resp, env, events>>

MainApply ==
  /\ main = "apply"
  /\ main' = "idle"
  /\ mainSt' = NoState
  /\ served' = mainSt
  /\ overtaken' = (mainSt # snap)
  /\ UNCHANGED <<running, snap, disk, lock, pc, req, cand, resp, env, events>>

\* The operator adds or removes files of the CA directory.
ChangeCAs ==
  /\ cas' \in CASets \ {cas}
  /\ UNCHANGED <<running, snap, proxy, disk, lock, pc, req, cand, resp, covered, events>>

\* What goes on without Manager.mu.
Outside == ReloadCerts \/ MainRead \/ MainApply \/ ChangeCAs

-----------------------------------------------------------------------------
Step(c) ==
  Check(c) \/ SaveFails(c) \/ Rename(c) \/ SyncDir(c) \/ SyncDirFails(c)
    \/ Publish(c) \/ Apply(c) \/ Return(c)

Next ==
  \/ Start \/ StartRepaired \/ StartFails \/ Crash \/ Outside
  \/ \E c \in Callers : \/ \E r \in Requests : Call(c, r)
                        \/ Begin(c) \/ Step(c)

Spec == Init /\ [][Next]_vars

\* A goroutine that can run does run, and sync.Mutex starves no waiter.
FairSpec ==
  /\ Spec
  /\ \A c \in Callers : SF_vars(Begin(c)) /\ WF_vars(Step(c))

-----------------------------------------------------------------------------
(* Properties *)

\* Every variable holds a value of the code's type for it.
TypeOK ==
  /\ running \in BOOLEAN
  /\ snap \in State /\ served \in State /\ file \in State
  /\ main \in {"idle", "read", "apply"}
  /\ mainSt \in (IF main = "apply" THEN State ELSE {NoState})
  /\ overtaken \in BOOLEAN
  /\ survivors \in SUBSET State
  /\ lock \in SUBSET Callers
  /\ pc \in [Callers -> Steps]
  /\ req \in [Callers -> Requests \cup {NoRequest}]
  /\ cand \in [Callers -> State \cup {NoState}]
  /\ resp \in [Callers -> Answers]
  /\ covered \in CertSets /\ cas \in CASets
  /\ events \in 0 .. MaxEvents

\* The requests that hold the lock, from the edit to the answer.
Critical(c) == pc[c] \in {"check", "rename", "syncdir", "publish", "apply"}

\* At most one mutation is between its edit and its answer, it is the holder of
\* Manager.mu, and its candidate exists: every return path unlocks (defer).
Serialized ==
  /\ \A c \in Callers : (c \in lock <=> Critical(c)) /\ (Critical(c) => cand[c] \in State)
  /\ \A c, d \in lock : c = d

\* The published snapshot never leaks a reserved port, shares one between two
\* mappings or proxies to a port reserved for another: through creates, replaces,
\* cascades, returns, failed saves and restarts (txn.go's Reconcile calls).
PublishedSound == running => Sound(snap)

\* Whatever a crash leaves in the state file, the next start accepts it and
\* serves a sound state: every save writes a state store.Validate passes.
DiskRecoverable == \A s \in survivors \cup {file} : StoreValid(s) /\ Sound(Reconcile(s))

\* A snapshot is published only once no crash can bring back another: Save syncs
\* the directory before commitLocked publishes.
PublishedIsDurable ==
  [][running /\ running' /\ snap' # snap => survivors' = {snap'}]_vars

\* A caller that holds the lock returns the port of allocation a.
Returned(a) == \E c \in lock : req[c].op = "return_port" /\ req[c].port = a.port

\* The reservations that are in the state file whatever a crash leaves of it.
Lasting == {a \in file.allocs : \A s \in survivors : a \in s.allocs}

\* A reservation made by hand disappears only by a return of its port: from the
\* published snapshot, and from what lasts on the disk.  No cascade, no Reconcile of a
\* deletion or of a start, no crash, no failed save and no later save takes it.
ManualReservationKept ==
  [][\A a \in (Lasting \ Lasting')
               \cup (IF running /\ running' THEN snap.allocs \ snap'.allocs ELSE {}) :
       a.auto \/ Returned(a)]_vars

\* Once no apply is under way the proxy serves the published snapshot, however the
\* commits interleave: theirs run under the lock (txn.go:91-94).  The one exception is
\* an apply of main that has outlived a Publish (serve.go:61, :219) and ended after
\* the apply of that commit; until the next apply, the proxy has what main had read.
ProxyFollowsSnapshot ==
  running /\ main # "apply" /\ (\A c \in Callers : pc[c] # "apply")
    => served = snap \/ overtaken

\* What only takes away or relabels.
Removes(r) == r.op \in {"update_lb", "delete_lb", "delete_mapping", "return_port"}

\* A mutation that only takes away or relabels is never refused for what it makes of a
\* state that would still be accepted: a reload of certificates or a CA file that went
\* after the last commit is the one thing that can have it refused as invalid, since
\* commitLocked validates the whole candidate (txn.go:86, validate.go:36-62).
RemovalsPass ==
  \A c \in lock : pc[c] = "check" /\ Removes(req[c]) /\ Validate(snap, covered, cas)
    => Validate(cand[c], covered, cas)

\* What reserves a port each time it is sent.
ReservesAnew(r) ==
  \/ r.op = "allocate_port"
  \/ r.op = "put_mapping" /\ r.allocate /\ r.replace

\* A caller that has lost the answer to its mutation may send it again: of a state that
\* it has just produced it makes nothing else, unless it reserves anew (txn.go:100-263).
ResendHarmless ==
  \A r \in Requests : ~Malformed(r) /\ ~ReservesAnew(r) =>
    \A o \in Edits(snap, r) : o.err = "none" =>
      \A again \in Edits(o.st, r) : again.st = o.st

\* Every request is answered, or its daemon crashes: no outcome of a step keeps
\* the lock.
CallsAnswered == \A c \in Callers : (pc[c] = "lock") ~> (pc[c] = "idle")

\* design.md:566-567, "persist failure rolls back", and :497-499, a failure before
\* Publish "leaves the running system unchanged": when no mutation is under way and
\* one was answered that its save failed, the state file holds the snapshot.
FailedSaveRollsBack == \A c \in Callers : resp[c] = "persist" /\ lock = {} => file = snap

-----------------------------------------------------------------------------
(* Refinement *)

\* The state in effect: what is published, or what the next start publishes.
Effective == IF running THEN snap ELSE Reconcile(file)

Abstract == INSTANCE MutationService WITH
  reg <- Effective,
  limbo <- {Reconcile(s) : s \in survivors} \ {Effective},
  call <- req,
  answer <- [c \in Callers |-> IF pc[c] = "apply" THEN "committed" ELSE resp[c]]

\* The steps under the lock, the disk and the crashes implement the atomic service:
\* mutations are linearized at Publish and a committed one survives every crash.
Linearizable == Abstract!MSpec
=============================================================================
