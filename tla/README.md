# A TLA+ development of rgdevenv

rgdevenv is a single-host reverse proxy with a management plane: a daemon routes
`(listen port, hostname)` to an upstream, and callers change the mappings, the load
balancers that hold them and the reserved ports over a REST API, a CLI and a web
page, while it runs. This directory holds TLA+ models of its concurrent core, the
TLC runs that check them on small instances, and proofs, checked by TLAPS, of what
matters most for every instance.

`PROJECT.json` has the machine-readable side: the components, the runs, the
definitions mapped to source lines, a mutant for each property, the hazards, the
findings and the theorems.

## 1. The system

| Component | State it keeps | Operations | Talks to |
|---|---|---|---|
| Transaction manager `internal/txn` | `Manager.mu` | seven mutations; `commitLocked`: validate, save, publish, apply | store, registry, validation, proxy (callback) |
| Store `internal/store` | the snapshot pointer, the state file, the instance lock | `Open`, `Save`, `Publish`, `Snapshot`, `Close` | file system |
| Registry `internal/registry` | none: functions of a state | `Allocate`, `Return`, `Reconcile` | - |
| Proxy server `internal/proxy/server.go`, `router.go` | routing table, dialer | `Apply`, `dispatch`, `Shutdown` | listeners, certificates, dialer |
| Listeners `internal/proxy/listeners.go` | the map of active listeners, under a mutex | `Reconcile`, `Shutdown` | sockets |
| Certificates `internal/proxy/tls.go` | a swapped slice | `Covers`, `GetCertificate`, `Reload` | files |
| Upstream policy, CAs, dialer `internal/upstream` | none | `AllowedHost`, `LoadCA`, `DialContext` | resolver, network |
| Reverse proxies `internal/proxy/reverseproxy.go`, redirect | one transport per route, with its idle connections | forward, `ErrorHandler`, redirect | dialer, tracker, table |
| Health tracker `internal/health` | targets, one entry per target, the dialer | `SetTargets`, `SetDialer`, probe rounds, `RecordFailure` | upstreams |
| Startup and signals `cmd/rgdevenv/serve.go` | - | start, SIGHUP, SIGTERM | all of the above |
| Management API `internal/api`, `internal/auth` | rate limiter's hits | handlers, bearer check | manager, snapshot |
| Web page `internal/ui/assets/app.js` | session token, poll timer and flag, open forms | boot, login, poll, refresh, actions, logout | API |
| Configuration, instance lock `internal/config`, `store/lock_unix.go` | the flock | `Load`, `acquireLock` | file system, kernel |
| CLI `cmd/rgdevenv`, `internal/client` | none | one request per run | API |

How they interact. A management request runs on a goroutine of the HTTP server. Under
`Manager.mu` it clones the published snapshot, edits the clone, validates it as a
whole against the certificates and the CA directory of the moment, saves it (temporary
file, fsync, rename, directory fsync), swaps the snapshot pointer, and calls
`applyAndTrack`, which reconfigures the proxy and the health tracker. The *main*
goroutine calls `applyAndTrack` too, at startup and at each SIGHUP, without
`Manager.mu`. The prober and the error handlers of proxied requests feed the tracker.

What is hard: two goroutines in `Apply` at once; four structures (snapshot, routes,
listeners, health targets) that must agree although no lock covers them together;
certificates, CA files and foreign ports that change between a check and its use; a
save that fails or is cut at any step; probe results that arrive late; shutdown that
holds a mutex while it waits; a process that outlives its lock; a request that carries what
it read of the certificates, the table or the resolver past their change; a page whose
asynchronous functions overtake each other. The `hazards` of `PROJECT.json` name each at its line.

What makes each part correct:

- *manager and store*: mutations are atomic and serialized; nothing refused takes
  effect, nothing committed is lost; every file a crash leaves restarts; allocations
  live exactly as long as the mappings they serve.
- *proxy*: each committed mapping is served or reported degraded; a served one has a
  listener; no listener is left over; the proxy never connects to a listener of its own (to that
  of `management.bind` it may: section 4).
- *health*: exactly the upstreams of the state are tracked; a status follows what the
  last samples agree on, and settles.
- *shutdown*: it ends; what it drains is not cut early; nothing is reopened after it.
- *runs of the daemon*: one owns the state file at a time; what one commits the next loads,
  under whatever configuration; a reservation outlives the run that made it.
- *a request*: it goes only to an address that was checked, never back to this process; its client
  was shown a certificate of its host, if it takes the keys of those; only the upstream's failures
  are blamed on it.
- *web page and rate limit*: polls do not overlap, go on while there is a session and stop
  when there is none; the page catches up; bad tokens are counted up to a bound.

## 2. Modules

```
StateModel ---+------------------+
  (state, registry,              |
   validation, edits)            |
              v                  v
          TxnManager ------> Lifecycle (INSTANCE, per configuration) --> MC_Lifecycle
              |  \ implements MutationService (atomic service)
              +--> MC_TxnManager
              +--> TxnManager_proofs --> TxnRefinement_proofs

ProxyServer --> MC_ProxyServer      HealthTracker --> MC_HealthTracker
GracefulShutdown --> MC_GracefulShutdown
DataPlane --> MC_DataPlane          Dashboard --> MC_Dashboard
```

The theorems about a module `M` and their proofs are in `M_proofs`, for Lifecycle and the five
of the last three lines too; TxnRefinement_proofs has those about MutationService.

**StateModel** is the data and the pure functions: the state of `store/model.go` as
three sets of records, `registry.Reconcile` and `Allocate`, `store.Validate`,
`txn.Validate`, and for each mutation the set of outcomes it may have on a snapshot (a
set, because ids are random). Hostnames are callers' spellings with a function `Canon`
to canonical names or an error. Slice order, timestamps, allocation labels are left
out, since no decision reads them, and so is `AutoAllocated`, which always says
that there is an allocation id. `Sound` says what must hold beyond the code's own validation.

**TxnManager** is the manager over the store. `Begin` is lock, clone and edit in one
step: only the holder of `Manager.mu` writes the snapshot, so nothing can come between
them. Then `Check`, `Rename`, `SyncDir`, `Publish` and `Apply`, each followed by
whatever may interleave: other callers, CA changes, a crash, and the applies of main, at the
start and at a SIGHUP, which take no lock: `ReloadCerts` swaps the certificates, `MainRead` reads the
snapshot, and `MainApply` is the end of the apply of what was read, whatever was committed since.
`overtaken` is a history variable: the last apply was main's, and came too late. The
disk is a pair: what the file holds now, and what it may hold after a power loss. A
rename that was not synced may be undone; a process that is killed loses nothing that
the kernel has. `SaveFails` stands for every error up to the rename, `SyncDirFails` for
the one after it.

**MutationService** is what callers are promised: one register, each mutation
taking effect at one instant between its call and its answer, or not at all. `limbo` is the
promise's one weakness, states that a crash may bring about because a
mutation that was not answered with success had reached the disk.

**ProxyServer** is `applyAndTrack` in steps, run by two appliers: `main` (startup,
SIGHUP) and `txn` (commits). A state is its set of mappings and a commit is one action,
since TxnManager has its steps. Routing looks at certificates and CAs once per mapping;
`Listeners.Reconcile` is one step, under its mutex; the sockets it retires are closed
one by one after it. Ports may be taken by other processes. The listener of `management.bind` is
no part of the proxy's map; with a TCP port it is one more port that this process accepts on.

**HealthTracker** is the tracker: target changes, a round that works on the targets it
loaded, a probe that takes time, failures of live requests that are fed late (any failure a proxy
reports, of an upstream that answers probes too). `fed` is a
history variable, counting like samples apart from the code's own streak.

**GracefulShutdown** is SIGTERM with requests in flight: HTTP servers with their sockets
and the requests of each, mutations that retire and open listeners, `Listeners.Shutdown` step by
step under its mutex, the drain of `management.bind` beside it, and the two deadlines as
steps that may come at any time. `Active` says what the Go library's `Shutdown` waits for:
requests, but not upgraded connections. A server is a port and the count of its opening, so
that an old one still draining and its successor are two. An apply takes a server from the map in one step,
under the mutex (`Reconcile`), and closes its socket in a later one, without it (`CloseRetired`); in
between the server accepts though the map no longer has it.

**Lifecycle** is several runs of the daemon on one state file: two processes that take or
are refused the instance lock, load and repair the file, serve mutations, drain, close the
store and exit, fail at each place of `setupServer` and `runServe`, or are killed. Each start
reads a configuration of its own, and the functions of StateModel are instantiated with it
(`M(c)`). A commit is three steps, `Check`, `Save` and `Publish`; its durability is
TxnManager's. `stray` is a history variable: a process saved after its deferred `Close` had
released the lock, which a handler past the 30 s deadline, or accepted before a failed
management bind, may do.

**DataPlane** is a request from handshake to answer: `Connect` (the certificate, chosen by the name
and the keys that the client takes), `Dispatch` (host, redirect, management, route), `Dial` and
`Attempt` (the safe dialer) or `Reuse` (an idle connection of the route's own transport), then an
answer, a broken connection or a client that leaves. Around it certificates are reloaded, tables
built and stored, names rebound. A route carries what it was built with: the guard of its dialer,
the certificates, and the number of its table. `BindPorts` is the port of `management.bind`, on
which the process listens and which no guard has. A client record keeps what the request saw
(`certs` at the handshake or at the redirect, `pinned` addresses), as the history the properties
speak of.

**Dashboard** is the web page against the bearer check. The page is one thread; what waits
side by side is its asynchronous functions (`flow`) and the requests of each (`fetch`). `busy` is a
field that has the focus or is changed: the login view focuses the field of the token, and a poll
is skipped as long as it does, which only the user ends. A
refresh is one request per part, and `Promise.all` drops what is answered after the first failure.
The server is a token, a version and a failure count; check and count are two steps
(`Passed`, `Counted`). The version is that of one part of the page, any of them, and a
mutation by the page itself is one of the changes: its answer has no other effect than a refresh's.

They are separate because what they share is narrow: TxnManager hands the proxy a
state (`served`), ProxyServer hands the tracker a set of identities (`targets`) and DataPlane
a table. GracefulShutdown keeps of an apply only its reconciliation
of listeners and DataPlane only its two publications, which ProxyServer has in full.

## 3. Runs

| Run | Instance | Question |
|---|---|---|
| `txn_concurrent` | 2 callers, names `a`, `b` in 4 spellings (one malformed), pool of 2 ports, 3 ids, the apply of the start, 2 sets of certificates, a CA that comes and goes | Is the snapshot sound? When may a removal be refused, and what may be sent again? |
| `txn_faults` | 2 callers, 4 requests, 2 ids, 2 events (crash, failure, SIGHUP), an empty or an orphaned initial file, certificates that change, `FairSpec` | Does everything a crash leaves restart, is nothing undurable published, are manual reservations kept, does the proxy follow the commits, does it implement MutationService, is every request answered? |
| `failed_save` | 1 event | *violation*: a failed save is not rolled back |
| `proxy_apply` | 2 hosts, 2 on-demand ports (one wanted in both TLS modes), 2 upstreams, a contended port, a TCP `management.bind` | Do routes, listeners, guards and targets agree after any history that ends in an undisturbed apply? |
| `sighup_race` | no environment changes | *violation*: concurrent applies leave the tracker behind |
| `tls_flip` | one port, both modes | *violation*: the listener keeps its old mode |
| `health` | 2 upstreams, threshold 2, `FairSpec` | Only targets tracked, flips agreed, an answering upstream ends up reported |
| `shutdown` | one always-on port, one on demand, with and without a management bind, 2 clients, `MaxGen` 2, `FairSpec` | Does SIGTERM end the process and does every apply return? Are sockets accounted for and drains respected? |
| `lifecycle` | 2 processes, 3 configurations (a pool of 2 ports, one moved by one, and one `normalize` refuses), 4 requests, 3 ids, 2 initial files | Does the file load whatever happened, is no update lost, do reservations and grants fit across configurations? |
| `data_plane` | 1 client that takes one key type or both, 2 hosts, 2 states, 2 lists of certificates (one of mixed keys), a TCP `management.bind`, 4 answers of the resolver, 2 applies | Where does a request go, what did its client see, and who is blamed? |
| `dashboard` | 2 asynchronous functions, 2 parts, 2 tokens, a limit of 1, 1 change, 1 restart, `FairSpec` | Do polls stay apart and alive, do stale ones end, does the page catch up, is the failure count bounded? |
| `reopened` | as `shutdown` | *violation*: listeners accept again after the shutdown closed them |

**Bounds.** Two callers: a third would wait for the same lock; every conflict here is
between the holder and one other. Two names and two pool ports are the least with a cascade
that spares another load balancer, a full pool, and a port freed and handed out again;
three ids allow one to be new while both ports are held, and a collision. `MaxEvents`, of
crashes, failed disk operations and SIGHUPs together, is 2 in `txn_faults`: a failed save followed by a
crash, a crash in the recovery of a crash, or a crash or failure around an apply of main. The
state spaces are otherwise finite with no bound; a commit may overtake the apply of main any number of
times. In ProxyServer two appliers is the
code's own number: commits are serialized by `Manager.mu`, and the signal loop is one
goroutine. Three mappings have a shared port, a conflict of modes and an upstream whose
CA goes. In HealthTracker streaks are capped at the threshold, the only value they
are compared with, so any number of samples is covered; threshold 2 is the least that
tells a streak from a sample. In GracefulShutdown two clients are a mutation and another
request that blocks it, and `MaxGen` 2 lets the always-on port be opened again after the
shutdown and the other be closed and opened once; an apply that would open a third server for a
port does not happen, and another apply always can. Its run does not check deadlock: a
process that exited has no step.
In Lifecycle two processes are the contender and the holder of one lock, and runs are not counted:
each process starts again without end. The two valid pools overlap in one port, so that a
reservation may be inside or outside of the pool of its successor, and one of them has a
mapping's port of the other inside. In DataPlane clients meet only in the transport's pool, which holds
connections of earlier requests of the one client; `MaxApplies` 2 is a table and
its successor, with a request that spans both. In Dashboard two functions are a poll beside an
action, or a login beside what a logout left waiting; two parts are the least at which an answer
comes after the refresh has failed; `MaxVersion` 1 is the state before and after a change
that refreshes overtake; with a limit of 1 every failure is at the limit.
`MaxRestarts` 1 brings one other token.

**Events.** `txn_concurrent` has none (`MaxEvents` 0) and looks at interleavings of all mutations, with
one of the two sets of certificates throughout; `txn_faults` has both, with fewer mutations. `Crash`,
`StartFails`, `SaveFails`, `SyncDirFails` and `ReloadCerts` share the bound. That removals pass also
after a reload of certificates is `RemovalsAccepted`, for every history.

**Fairness.** `txn_faults` assumes that a request's goroutine runs (weak fairness of its steps: file
operations return, with success or an error) and that a waiter for `Manager.mu` gets it when it is
free again and again (strong fairness of `Begin`: Go's mutex hands over to a waiter it starved). A
daemon that crashed need not start again. `health` assumes that the ticker fires, that a probe ends
(its HTTP client has a timeout), and that its result is recorded. `shutdown` assumes that goroutines
run, that a waiter for a mutex gets it (strong fairness, as above), and that time passes, so that
both deadlines come. `dashboard` assumes that requests are answered and answers taken, that failures
age, and that the timer of a page that polls fires again and again when a function can run (strong
fairness of `Poll`, which is not enabled while a field has the focus or is changed). That fields are
left is not assumed: the two properties say what they need of it. `shutdown` also assumes that an
apply goes on to close what it retired. Nothing is assumed of users, upstreams, live requests,
applies or signals: a proxied request may never be answered.

**Overlap.** The safety properties of ProxyServer other than the type invariant are claimed
of `Settled` states: no apply under way, and the latest ran alone (`RoutesFollowListeners`: of
the steps of an apply that runs alone). While two overlap the
code does not keep them, which is what `sighup_race` shows. What `proxy_apply`
adds is that the damage does not last: one undisturbed apply repairs routes, listeners,
guards and targets. The exception is a listener whose port changed its TLS mode, which no apply
repairs (`tls_flip`).
`ProxyFollowsSnapshot` has the same exception seen from the manager: an apply of main that a commit has
overtaken leaves the proxy on the older state, until the next apply. It says that this is the only
one: the order of the commits' own applies is that of the commits.

**Configuration.** All models but Lifecycle fix it for their life, and in ProxyServer and
DataPlane the states are ones that the running configuration accepts.

**Manual reservations.** `ManualReservationKept` speaks of two places: the published snapshot, and
what lasts on the disk, which is in every content the state file may have after a crash. It covers
starts, repairs, crashes and failed saves; what it does not promise is a reservation whose save failed
after the rename (`failed_save`), which a later save or a power loss may take.

**Catching up.** `PageCatchesUp` says nothing of a page whose session ends or whose fields keep
being busy, and `StalePollingEnds` needs that the fields are left for good: a poll with a stale
token waits until the user moves the focus. Also, `FileIsSnapshot`, `UpdatesAreNotLost` and
`ReservationsOutliveRuns` nothing of a behavior with a stray save: the code does lose what another
run committed then. `FileLoads`, `OneOwner` and `GrantsFit` hold all the same.
`ClientsTrustTheirHost` excepts a reload that comes between the two reads, and a client that does
not take the key of some certificate of the host.

## 4. Findings

| Run | What the code does | What is said |
|---|---|---|
| `failed_save` | a directory fsync that fails after the rename refuses the mutation and leaves its state in the file (`store.go:94`) | "persist failure rolls back" (design, 566-567) |
| `sighup_race` | the applies of the signal loop and of startup do not take `Manager.mu` (`serve.go:219`) | "both stay consistent after every change" (`serve.go:161-162`) |
| `tls_flip` | an active port is kept whatever its mode (`listeners.go:55`) | "`listen_tls = false` makes it plain HTTP" (design, 131) |
| `reopened` | an apply that was waiting during `Listeners.Shutdown` opens every listener again (`listeners.go:132`) | "stop accepting new connections" (design, 508) |

The design is `docs/superpowers/specs/2026-06-13-rgdevenv-design.md`.

Other differences met while modelling, which the models have as the code does and no run shows:

- Every commit validates the whole state, so a mapping whose certificate a reload took away
  makes unrelated deletions fail (`validate.go:46`); README 392 answers them 204, and the
  design (174) only marks the mapping degraded. `RemovalsPass` says that this is all: a removal is
  refused as invalid only when the snapshot itself is no longer valid.
- Listeners are opened after the state is published, and one that cannot be bound only
  degrades its mapping (`server.go:108`); the design (488-490) binds first and aborts.
- A request whose Host the certificate shown does not cover is routed all the same
  (`server.go:124-150`); the design (144-146) refuses it.
- The management plane answers on every port but the redirect's, also with
  `management.bind` set (`server.go:133`); the design (147-153) moves it to the bind.
- The guard that keeps the proxy from connecting to itself lists the ports of the proxy
  (`server.go:167-178`) and not that of a TCP `management.bind`, which this process listens on too
  (`serve.go:171-196`): a mapping to `localhost` and that port is accepted, and its host reaches the
  management plane. The design (269-270, 466-467) and README (297-298, 447-448) say that
  rgdevenv's own listener addresses are always denied. `NoProxyLoop` and `NoSelfConnection` except
  this port, and only it.
- A mapping is routed, and its host redirected, when some certificate covers the name
  (`tls.go:71`), but the handshake also needs one whose key the client takes (`tls.go:56`): with
  certificates of RSA for `b` and ECDSA for `a`, a client without ECDSA that asks for `a` is shown
  that of `b`. The design (144-146) only routes what the certificate shown covers.
- A host whose only mapping is on another port is redirected to `https_port`, where it is not found
  (`redirect.go:19`).
- A stored mapping may listen on a port that a moved pool contains: the start
  only runs `store.Validate` (`serve.go:88`). `free` of `GET /ports` may then be negative.
- The drain of a retired listener neither waits for upgraded connections nor closes what is left
  after its 5 s (`listeners.go:118`): a WebSocket of a deleted mapping goes on. The design
  (493-494) has in-flight connections, WebSockets included, drain within a timeout, then close.
- `Shutdown` waits for the active listeners only (`listeners.go:128`): a SIGTERM within the 5 s of a
  listener that an apply retired may cut its requests, which `DrainedBeforeExit` excepts. The design
  (508-509) drains what is in flight; `DrainedByBind` says when that holds.
- A handler that outlives the shutdown's deadline, or was accepted before the management
  bind failed, may save after `Close` (`store.go:48`), over what another process committed.
- A 401 that answers a request of an ended session clears the token of the new one
  (`app.js:60`), and a logout in the middle of a login leaves a timer that polls without
  a token until it is refused (`app.js:543-544`, `StalePollingEnds`). The logout puts the focus into the
  field of the token (`app.js:83`), so that this timer waits until the user moves it.

## 5. Proofs

**TxnManager_proofs.** The properties of the runs hold of `Spec` for every set of callers, names,
requests, certificates and CAs, any pool and any number of crashes, failures and SIGHUPs. None of
them is inductive alone. The invariant `Inv` joins to the types:

- `Serialized`, which every other part rests on: a candidate is built from the snapshot
  and the snapshot does not change until it is published, because one caller is past `Begin`;
- `RequestsWellFormed`: a request past the edit was not malformed, so that candidates
  hold canonical names;
- `CandidateProgress`: what is known of a candidate at each step. It is one of the outcomes of
  its request on the snapshot, from `Check` on it passed validation, from `Rename` on it
  is in the file, from `SyncDir` on it is all a crash can leave;
- `PublishedSound` and `DiskRecoverable`, which follow from it at `Publish` and at `Rename`;
- `DownIsIdle`: a daemon that is down has no request.

The heart is the lemma that each edit of a sound snapshot, once it passes `store.Validate`, is
sound: soundness is not what validation checks (validation does not look at who owns an allocation,
where its port is, or whether a mapping proxies to it), so each edit has its own argument, all
through two lemmas on `Reconcile` and `Allocate`. With `Inv`, three facts are inductive:
`ManualInCandidate` (an unpublished candidate lacks no manual reservation of the snapshot but one
its request returns), `ServedInStep` (the proxy has the snapshot, or an apply is under way, or
main's was overtaken) and `SnapOnDisk` (what is published is among what a crash may leave, but for
the moment between `SyncDir` and `Publish`). `ProxyInStep` is the second. `ManualKept` needs the
other two: what lasts on the disk is in the snapshot, so that a renamed candidate holds it.

The last theorem, `ProxyGetsRoutable`, joins two components: what is published, and what a commit, a
start or a SIGHUP gives the proxy, meets what ProxyServer and DataPlane assume of the ports and
modes of a state (one mode per port, TLS on `https_port`, none on the redirect's). The invariant is
that this holds of all the disk may hold and of each candidate past `Check`. Its hypothesis, that
the initial file meets it, is needed: a start only runs `store.Validate`, which does not look at the
configuration.

**TxnRefinement_proofs.** `Spec => Linearizable`: the manager implements MutationService. The
register is the snapshot, or what a start makes of the file while the daemon is down; the limbo is
what a start would make of all the disk may hold. Every action has one lemma: a refusal at `Begin`
or `Check` is the service's refusal, `Rename` and `SyncDir` expose the candidate, a save that fails
at any place fails, `Publish` commits and `Return` is received; a crash is the service's crash, as
is a start in which the disk settles on what it holds; applies, certificates and CAs are no step of
it. Beside `Inv` the proof needs that a caller has a request exactly while it is served
(`CallsInStep`), that an unpublished candidate is still an outcome of its request on the *present*
snapshot (`CandidateIsEdit`, which the lock gives), that the file is one of the survivors, and that
`Reconcile` is idempotent, so that a repair on start is a stutter.

The same module proves what a caller may rely on. `RemovalsAccepted`: what only takes away or
relabels keeps `store.Validate` and every mapping's own checks, so that it passes whenever the
snapshot does; the work is in `LessIsValid`, that taking mappings and unreferenced allocations away
keeps references, keys and modes. `ResendsAreHarmless`: a mutation that is run again on what it made
is refused or changes nothing, unless it reserves a port anew; for a replacement with an explicit
upstream this is that `Stored` is idempotent (`StoredTwice`), which holds because it reconciles
after it replaces.

**HealthTracker_proofs.** `Inv` joins to types and `NoGhost` that the code's streak is
the history's count (`CountsSamples`); that a flip is agreed on follows in one step,
for every threshold and any set of upstreams.

**ProxyServer_proofs.** The properties speak of settled states, and say nothing that a
step of an apply would preserve. The invariant says how far each apply has come:

- `Split`: its mappings to route, its table and its unserved ones split the state it applies;
- `OnCourse`: of an apply that nothing overlapped, at each step, that the snapshot is the state it
  read, its dialer has the snapshot's ports, its table is certified, and, from `Reconcile` on, the
  listeners are those of its table; from `StoreRoutes` on the routes too;
- `Alone`: while `overlap` is down there is one apply; and `Applied`, what it leaves when done,
  of which the properties are the parts.

Nothing is known of an apply that was overlapped but its types and `Split`. That is enough,
because the next undisturbed one starts from `read` and rewrites everything, which is the
theorem's content.

**GracefulShutdown_proofs.** `Sockets` says which sockets may accept (those of active servers and of
retired ones that their apply has not closed, none that
`Shutdown` waits for, that of `management.bind` until its drain), `Waiting` that only an
apply that drains has servers to wait for, and `Accounted` that before the deadline every active
request is of `management.bind`, whose drain then is not over, or of a server that is active or
retired. At the exit the first is excluded by the guard, and the second is what
`DrainedBeforeExit` excepts.

**Lifecycle_proofs.** `Process(i)` says what a process has in each phase: none of an
earlier run in `down` and `locked`, a normalized configuration, a snapshot and a candidate that
pass `store.Validate` whether it still holds the lock or not, and a candidate that is an outcome of its
request under *its* configuration. A stray save therefore writes a state that loads, though not the
owner's. The lemmas on StateModel are stated for any configuration `c` of `M(c)`: types and
`store.Validate` do not depend on it (`SameData`), so that what one run writes, another with
a different pool accepts. That a file changes only by its owner's edit of what it holds
(`NoLostUpdate`) follows from `FileIsSnapshot`, one owner, and the candidate being an edit of the
published snapshot.

**DataPlane_proofs.** The open listeners are within the guard of the live table and of the one under
construction; a route, also one held by an idle connection or by a client of an older table, keeps
the guard and the certificates it was built with, and has those of the live table if it is of its
number; a client at `dialing` or `forwarding` has only addresses that passed that guard, and the
addresses tried before are dead. For the certificates, that `Covers` and `GetCertificate` agree, for
a list of any length and a client that takes the keys of all entries of the name, needs the first
entry that client supports: the well-ordering of Nat. For other clients they need not agree (section
4).

**Dashboard_proofs.** Besides types and `OnePoll`, `PastCounted`: the failures counted and the
requests between the check and the count are together below the limit plus
`|Flows x Parts|`. `FailuresBounded` alone is not inductive: it says nothing of those still to count.

**Causes of the findings.** Five theorems bound what section 4 reports. Four are proved of the model
in which TLC finds the violation: without overlapping applies the health checker is consistent after
every change (`ConsistentWithoutOverlap`); when no port is asked for in both modes, and the
redirect's port is not `https_port`, listeners have their modes (`ModesWithoutFlips`); when no apply
comes after `Listeners.Shutdown` has let go, nothing accepts but what an earlier apply is still to
close (`StopsWithoutApply`); and when no directory sync fails, a refused mutation leaves nothing in
the file (`RollsBackWithSync`). Each run shows that its hypothesis cannot be dropped. The fifth is
of the drain of retired listeners: when mutations come by `management.bind`, whose drain waits for
them, a shutdown cuts none (`DrainedByBind`).

**Assumptions.** They are those the modules name, and TLC evaluates them in each run:
`ConfigAssumption` (what `config.normalize` refuses otherwise), `InputAssumption`,
`ManagerAssumption` (an initial file that an earlier run of the daemon could have
written), `HealthAssumption`, `ServerAssumption` (states that `txn.Validate` accepts),
`ShutdownAssumption` (at least two openings of a port, distinct ports), `LifecycleAssumption`
(some configuration is one that `normalize` accepts, requests with well-formed names, an initial file that
`store.Validate` accepts), `DataPlaneAssumption` (as for ProxyServer, in one mode per port, and a redirect
port other than `https_port`, which `normalize` does not refuse: with equal ports the daemon
has no HTTPS listener) and `DashboardAssumption` (finitely many functions and requests).
All else is arbitrary: callers, names, ports, certificates, upstreams, processes,
clients, keys, the number of crashes, failures, applies and restarts.

**Model-checked only.** `CallsAnswered`, `UpIsReported`, `ShutdownEnds`, `AppliesReturn`,
`StalePollingEnds` and `PageCatchesUp` are liveness under fairness, out of TLAPS's reach.
Every other property of a passing run is stated by a theorem.
`Serialized`, `OneOwner` and `FileIsSnapshot` are proved, and checked only through `Linearizable` and
`UpdatesAreNotLost`, which rest on them. Each inductive invariant was checked
by TLC on the instance of its run before it was proved. The library's
induction theorems are not needed: no definition proved about is recursive.

## 6. Not modelled, and the plan

What is left is composition. That the manager gives the proxy states in one mode is proved
(`ProxyGetsRoutable`). That DataPlane's tables are what ProxyServer's applies build (`TablesInv`
from `OnCourse`), and that Lifecycle's commits are TxnManager's, is not proved: each
needs a refinement mapping between two models that keep different parts of an apply or of a save.

Left out for good: the CLI and the client (one request, then printing), forwarded headers and the
rendering of the page (functions of one value), the parsing of configuration, tokens, JSON and PEM,
canonicalization but for final dots (a function on strings, which its table-driven test covers), the
embedded files, and logging. The Go library's HTTP server, transport, reverse proxy and TLS, and the
browser's event loop, are outside the models, which have only what the code asks of them.
