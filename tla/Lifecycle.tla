------------------------------ MODULE Lifecycle ------------------------------
(***************************************************************************)
(* Runs of the daemon on one state file: two processes that contend for    *)
(* the instance lock (internal/store/lock_unix.go), start with whatever    *)
(* the configuration says at that moment (internal/config), load and       *)
(* repair the file, commit mutations, and end by SIGTERM, a failed start   *)
(* or a kill (runServe and setupServer in cmd/rgdevenv/serve.go).          *)
(*                                                                         *)
(* What a mutation does to a state is StateModel's, under the pool and the *)
(* ports of the run that serves it.  A commit is three steps here (check,  *)
(* save, publish); what a power loss does to the file is in TxnManager,    *)
(* and a process holds one mutation at a time, as Manager.mu has it.       *)
(***************************************************************************)
EXTENDS Integers, FiniteSets

CONSTANTS
  Instances,     \* processes that run `rgdevenv serve`
  ConfigFiles,   \* what the configuration may say when one starts
  InitialFiles,  \* what the state file holds before the first
  Spellings, Names, Canon, BadHost, Labels, Owners, AllocIds, NoAlloc,
  MgmtHost, Texts, AllowedHosts, Requests    \* those of StateModel

Config == [start : Int, end : Int, https : Int, http : Int, bind : Int]

\* The functions of StateModel under the ports of configuration c.
M(c) == INSTANCE StateModel WITH
  PoolStart <- c.start, PoolEnd <- c.end,
  HTTPSPort <- c.https, HTTPPort <- c.http, MgmtBindPort <- c.bind

NoConfig == [start |-> 0, end |-> 0, https |-> 0, http |-> 0, bind |-> 0]
PoolOf(c) == c.start .. c.end

\* Config.alwaysOnPorts: a redirect port of 0 and a bind of 0 mean none.
AlwaysOnPorts(c) == {c.https} \cup ({c.http, c.bind} \ {0})

MaxPort == 65535

\* Config.normalize, for the ports.
Normalized(c) ==
  /\ c.https \in 1 .. MaxPort
  /\ c.http \in 0 .. MaxPort
  /\ 1 <= c.start /\ c.start <= c.end /\ c.end <= MaxPort
  /\ AlwaysOnPorts(c) \cap PoolOf(c) = {}

ASSUME LifecycleAssumption ==
  /\ ConfigFiles \subseteq Config
  /\ \A c \in ConfigFiles : c.bind >= 0
  /\ \E c \in ConfigFiles : Normalized(c)
  \* Malformed names are refused before anything else: TxnManager has them.
  /\ \A c \in ConfigFiles, r \in Requests : ~M(c)!Malformed(r)
  /\ Requests \subseteq M(NoConfig)!Request
  /\ Canon \in [Spellings -> Names \cup {BadHost}]
  /\ {"http", "localhost", "verify", ""} \subseteq Texts
  \* The first daemon finds no file, or one that an earlier one wrote.
  /\ \A st \in InitialFiles : st \in M(NoConfig)!State /\ M(NoConfig)!StoreValid(st)

VARIABLES
  file,    \* the state file
  holder,  \* the processes that hold the flock
  phase,   \* where each process is
  cfg,     \* the configuration it started with
  mem,     \* its published snapshot
  step,    \* how far the mutation it serves is
  call,    \* that mutation, once it is checked
  cand,    \* its candidate
  stray    \* a process saved after it released the lock

process == <<phase, cfg>>
mutation == <<call, step, cand>>
vars == <<file, holder, process, mem, mutation, stray>>

NoRequest == [op |-> "none"]
EmptyState == [lbs |-> {}, maps |-> {}, allocs |-> {}]

\* The phases in which the process has its state loaded and the lock held.
Up == {"starting", "serving", "draining"}

Init ==
  /\ file \in InitialFiles
  /\ holder = {}
  /\ phase = [i \in Instances |-> "down"]
  /\ cfg = [i \in Instances |-> NoConfig]
  /\ mem = [i \in Instances |-> EmptyState]
  /\ call = [i \in Instances |-> NoRequest]
  /\ step = [i \in Instances |-> "none"]
  /\ cand = [i \in Instances |-> EmptyState]
  /\ stray = FALSE

-----------------------------------------------------------------------------
(* Start *)

Enter(i, from, to) == phase[i] \in from /\ phase' = [phase EXCEPT ![i] = to]

EnterWithoutLock(i, c) ==
  /\ Normalized(c)
  /\ Enter(i, {"down"}, "locked")
  /\ cfg' = [cfg EXCEPT ![i] = c]
  /\ holder' = holder \cup {i}
  /\ UNCHANGED <<file, mem, mutation, stray>>

\* config.Load, then acquireLock: exclusive and non-blocking, so that a second
\* process ends with an error and nothing changes.
Start(i, c) ==
  /\ Normalized(c)
  /\ holder = {}
  /\ Enter(i, {"down"}, "locked")
  /\ cfg' = [cfg EXCEPT ![i] = c]
  /\ holder' = {i}
  /\ UNCHANGED <<file, mem, mutation, stray>>

\* A repair that also drops what lies outside of the new pool.
RepairToPool(c, st) ==
  [M(c)!Reconcile(st) EXCEPT !.allocs = {a \in @ : a.port \in PoolOf(c)}]

\* registry.Reconcile on the loaded state, under the configuration of this run.
Repaired(c, st) == M(c)!Reconcile(st)

\* setupServer: a valid file is loaded and, when automatic allocations are
\* orphaned, saved again without them.  The first apply opens the listeners.
Load(i) ==
  /\ M(cfg[i])!StoreValid(file)
  /\ Enter(i, {"locked"}, "starting")
  /\ file' = Repaired(cfg[i], file)
  /\ mem' = [mem EXCEPT ![i] = file']
  /\ UNCHANGED <<holder, cfg, mutation, stray>>

\* The state is invalid, or later the certificates or the token do not load: the
\* lock is released, and the repaired file stays.
SetupFails(i) ==
  /\ Enter(i, {"locked"}, "down")
  /\ holder' = holder \ {i}
  /\ \/ UNCHANGED file
     \/ M(cfg[i])!StoreValid(file) /\ file' = Repaired(cfg[i], file)
  /\ cfg' = [cfg EXCEPT ![i] = NoConfig]
  /\ UNCHANGED <<mem, mutation, stray>>

\* The management bind listens, and the signal loop runs.
Ready(i) ==
  /\ Enter(i, {"starting"}, "serving")
  /\ UNCHANGED <<file, holder, cfg, mem, mutation, stray>>

\* It cannot be bound: runServe returns, and its deferred Close releases the lock
\* beside requests the listeners have already accepted.
BindFails(i) ==
  /\ Enter(i, {"starting"}, "closed")
  /\ holder' = holder \ {i}
  /\ UNCHANGED <<file, cfg, mem, mutation, stray>>

-----------------------------------------------------------------------------
(* One mutation *)

\* A listener takes a request, which may wait for its body or for Manager.mu; what
\* it asks matters from Check on.
Accept(i) ==
  /\ phase[i] \in {"starting", "serving"}
  /\ step[i] = "none"
  /\ step' = [step EXCEPT ![i] = "accepted"]
  /\ UNCHANGED <<file, holder, process, mem, call, cand, stray>>

Answered(i) ==
  /\ call' = [call EXCEPT ![i] = NoRequest]
  /\ step' = [step EXCEPT ![i] = "none"]
  /\ cand' = [cand EXCEPT ![i] = EmptyState]

\* The snapshot edited and validated under the ports of this run.  Certificates
\* cover every name here, and every CA loads.
Check(i, r) ==
  /\ step[i] = "accepted"
  /\ \E o \in M(cfg[i])!Edits(mem[i], r) :
       IF o.err = "none" /\ M(cfg[i])!Validate(o.st, Names, Texts)
         THEN /\ step' = [step EXCEPT ![i] = "save"]
              /\ call' = [call EXCEPT ![i] = r]
              /\ cand' = [cand EXCEPT ![i] = o.st]
         ELSE Answered(i)
  /\ UNCHANGED <<file, holder, process, mem, stray>>

\* Store.Save: nothing in it asks whether the lock is still held.
Save(i) ==
  /\ step[i] = "save"
  /\ step' = [step EXCEPT ![i] = "publish"]
  /\ file' = cand[i]
  /\ stray' = (stray \/ i \notin holder)
  /\ UNCHANGED <<holder, process, mem, call, cand>>

Publish(i) ==
  /\ step[i] = "publish"
  /\ mem' = [mem EXCEPT ![i] = cand[i]]
  /\ Answered(i)
  /\ UNCHANGED <<file, holder, process, stray>>

-----------------------------------------------------------------------------
(* End *)

Sigterm(i) ==
  /\ Enter(i, {"serving"}, "draining")
  /\ UNCHANGED <<file, holder, cfg, mem, mutation, stray>>

\* Shutdown has returned, when every request was answered or after 30 s, and the
\* deferred Close releases the lock.
Close(i) ==
  /\ Enter(i, {"draining"}, "closed")
  /\ holder' = holder \ {i}
  /\ UNCHANGED <<file, cfg, mem, mutation, stray>>

GoneKeepsConfig(i) ==
  /\ Answered(i)
  /\ mem' = [mem EXCEPT ![i] = EmptyState]
  /\ UNCHANGED <<file, cfg, stray>>

Gone(i) ==
  /\ Answered(i)
  /\ mem' = [mem EXCEPT ![i] = EmptyState]
  /\ cfg' = [cfg EXCEPT ![i] = NoConfig]
  /\ UNCHANGED <<file, stray>>

\* The process ends, and with it the goroutines of its requests.
Exit(i) == Enter(i, {"closed"}, "down") /\ UNCHANGED holder /\ Gone(i)

\* It is killed: the kernel releases the lock.
Kill(i) ==
  /\ Enter(i, {"locked"} \cup Up, "down")
  /\ holder' = holder \ {i}
  /\ Gone(i)

-----------------------------------------------------------------------------
Next ==
  \E i \in Instances :
    \/ \E c \in ConfigFiles : Start(i, c)
    \/ Load(i) \/ SetupFails(i) \/ Ready(i) \/ BindFails(i)
    \/ Accept(i) \/ (\E r \in Requests : Check(i, r)) \/ Save(i) \/ Publish(i)
    \/ Sigterm(i) \/ Close(i) \/ Exit(i) \/ Kill(i)

Spec == Init /\ [][Next]_vars

-----------------------------------------------------------------------------
(* Properties *)

\* Every variable holds a value of its type; a process that is down, or has not
\* loaded the state yet, has no configuration, state or mutation of an earlier run.
TypeOK ==
  /\ \A st \in {file} \cup {mem[i] : i \in Instances} \cup {cand[i] : i \in Instances} :
       st \in M(NoConfig)!State
  /\ holder \subseteq Instances
  /\ phase \in [Instances -> {"down", "locked", "closed"} \cup Up]
  /\ step \in [Instances -> {"none", "accepted", "save", "publish"}]
  /\ \A i \in Instances :
       /\ cfg[i] \in (IF phase[i] = "down" THEN {NoConfig} ELSE ConfigFiles)
       /\ call[i] \in (IF step[i] \in {"save", "publish"} THEN Requests ELSE {NoRequest})
       /\ phase[i] \in {"down", "locked"} => mem[i] = EmptyState /\ step[i] = "none"
  /\ stray \in BOOLEAN

\* A process serves the state file only while it holds the lock, and one does at a
\* time, however starts, failed starts, shutdowns and kills interleave
\* (lock_unix.go:19-29, store.go:26-55).
OneOwner ==
  /\ holder = {i \in Instances : phase[i] \in {"locked"} \cup Up}
  /\ \A i, j \in holder : i = j

\* The file of a running daemon is its snapshot, except between the save and the
\* publication of its own mutation: what one run committed is what the next loads.
\* Only a save of a process that has already closed its store (store.go:48-55)
\* can break this.
FileIsSnapshot ==
  ~stray => \A i \in Instances :
    phase[i] \in Up => file = (IF step[i] = "publish" THEN cand[i] ELSE mem[i])

\* Whatever the runs did, stray saves included, the next start accepts the file:
\* setupServer aborts on one that store.Validate refuses (serve.go:88-91).
FileLoads == \A i \in Instances : M(cfg[i])!StoreValid(file)

\* No update is lost: as long as nobody saves without the lock, the file changes only
\* by what its owner, under its own configuration, makes of what the file holds at
\* that moment: the repair at its start, or a validated mutation, whatever the owner
\* has read before and whoever else starts or ends (serve.go:83-101, txn.go:83-98).
UpdatesAreNotLost ==
  [][~stray' /\ file' # file =>
       \E i \in holder :
         \/ phase[i] = "locked" /\ file' = M(cfg[i])!Reconcile(file)
         \/ /\ step[i] = "save" /\ M(cfg[i])!Validate(file', Names, Texts)
            /\ \E o \in M(cfg[i])!Edits(file, call[i]) : o.err = "none" /\ o.st = file']_vars

\* A port reserved by hand stays reserved until it is returned, across runs whose
\* pool has moved away from it (registry.go:9-28, design.md:345).
ReservationsOutliveRuns ==
  [][~stray' =>
       \A a \in file.allocs \ file'.allocs : a.auto \/
         \E i \in Instances : call[i].op = "return_port" /\ call[i].port = a.port]_vars

\* A port that a run grants is of the pool of that run, is reserved by nothing that
\* an earlier run left, and is no port the daemon itself listens on, for a mapping
\* or by its configuration (allocate.go:20-35, config.go:167-174, validate.go).
GrantsFit ==
  [][\A i \in Instances : phase[i] \in Up =>
       \A a \in mem'[i].allocs \ mem[i].allocs :
         /\ a.port \in PoolOf(cfg[i])
         /\ a.port \notin {b.port : b \in mem[i].allocs}
         /\ a.port \notin AlwaysOnPorts(cfg[i]) \cup {m.port : m \in mem'[i].maps}]_vars
=============================================================================
