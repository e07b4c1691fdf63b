--------------------------- MODULE GracefulShutdown ---------------------------
(***************************************************************************)
(* The end of the daemon (runSignals in cmd/rgdevenv/serve.go) with        *)
(* requests in flight: Listeners.Shutdown holds the listeners' mutex while *)
(* it drains one HTTP server after the other, a management request of one  *)
(* of them may be waiting for that mutex, and one that retires a listener  *)
(* waits for its drain.                                                    *)
(*                                                                         *)
(* A server is one http.Server of the Go library: a socket, and requests.  *)
(* Its Shutdown closes the socket and then waits until no request is       *)
(* active, or its deadline; it closes no connection that is, and does not  *)
(* know of upgraded ones.  What is routed is left out, binds succeed, and  *)
(* every server takes management requests.  The loop's own applies keep it *)
(* from signals, and are left out.                                         *)
(***************************************************************************)
EXTENDS Naturals, FiniteSets

CONSTANTS
  AlwaysOn,   \* ports whose listeners stay
  OnDemand,   \* ports of mappings
  Bind,       \* stands for the port of management.bind
  Clients,    \* connections of clients, each with one request at a time
  MaxGen      \* bound: servers a port has in turn

Ports == AlwaysOn \cup OnDemand

\* The servers of one port are told apart by when they were opened.
Server == [port : Ports \cup {Bind}, gen : 1 .. MaxGen]

ASSUME ShutdownAssumption ==
  /\ AlwaysOn \cap OnDemand = {} /\ Bind \notin Ports
  /\ MaxGen \in Nat /\ MaxGen >= 2

VARIABLES
  active,     \* Listeners.active
  open,       \* servers whose socket accepts
  opened,     \* how many servers each port has had
  late,       \* retired servers whose drain ran out of time
  mu,         \* Shutdown holds Listeners.mu
  main,       \* where the signal loop is
  waitsFor,   \* the server that Shutdown drains
  bind,       \* where the drain of management.bind is
  expired,    \* the deadline of the whole shutdown is over
  at,         \* the server each client's connection belongs to
  doing,      \* what its request does
  retired     \* the servers its apply retired and waits for

sockets == <<active, open, opened>>
signal == <<mu, main, waitsFor, bind, expired>>
clients == <<at, doing, retired>>
vars == <<sockets, late, signal, clients>>

First(p) == [port |-> p, gen |-> 1]
BindServer == First(Bind)

\* An upgraded connection is no request of its server any more.
Active(c) == doing[c] \notin {"free", "upgraded"}

Idle(e) == \A c \in Clients : at[c] = e => ~Active(c)

Init ==
  /\ active = {First(p) : p \in AlwaysOn}
  /\ bind \in {"serving", "done"}    \* "done": not configured
  /\ open = active \cup {e \in {BindServer} : bind = "serving"}
  /\ opened = [p \in Ports |-> IF p \in AlwaysOn THEN 1 ELSE 0]
  /\ late = {}
  /\ mu = FALSE /\ main = "serving" /\ waitsFor = {} /\ expired = FALSE
  /\ at = [c \in Clients |-> BindServer]
  /\ doing = [c \in Clients |-> "free"]
  /\ retired = [c \in Clients |-> {}]

-----------------------------------------------------------------------------
(* Requests *)

Do(c, from, to) == doing[c] = from /\ doing' = [doing EXCEPT ![c] = to]

\* A request arrives: a proxied one, or a mutation.
Accept(c) ==
  /\ \E e \in open : at' = [at EXCEPT ![c] = e]
  /\ Do(c, "free", "request") \/ Do(c, "free", "mutation")
  /\ UNCHANGED <<sockets, late, signal, retired>>

\* Its response is complete, or the client is gone.
Respond(c) ==
  /\ \E state \in {"request", "upgraded", "answer"} : Do(c, state, "free")
  /\ UNCHANGED <<sockets, late, signal, at, retired>>

\* It becomes a WebSocket.
Upgrade(c) ==
  /\ at[c] # BindServer
  /\ Do(c, "request", "upgraded")
  /\ UNCHANGED <<sockets, late, signal, at, retired>>

\* A mutation takes Manager.mu and commits; its apply is next.
TakeManager(c) ==
  /\ \A d \in Clients : doing[d] \notin {"apply", "drain"}
  /\ Do(c, "mutation", "apply")
  /\ UNCHANGED <<sockets, late, signal, at, retired>>

\* Listeners.Reconcile for the ports `wanted` on demand, where `reopen` are the desired
\* ports that get a server and `kept` the retired servers it goes on to shut down.  It
\* takes those from the map under the mutex; their sockets still accept.
Reconciled(c, wanted, reopen, kept) ==
  LET fresh == {[port |-> p, gen |-> opened[p] + 1] : p \in reopen}
      stale == {e \in active : e.port \notin AlwaysOn \cup wanted}
  IN /\ ~mu
     /\ Do(c, "apply", "drain")
     /\ \A p \in reopen : opened[p] < MaxGen
     /\ active' = (active \ stale) \cup fresh
     /\ open' = open \cup fresh
     /\ opened' = [p \in Ports |-> IF p \in reopen THEN opened[p] + 1 ELSE opened[p]]
     /\ retired' = [retired EXCEPT ![c] = stale \cap kept]
     /\ UNCHANGED <<late, signal, at>>

Missing(ports) == ports \ {e.port : e \in active}

ReconcileAll(c, wanted) == Reconciled(c, wanted, AlwaysOn \cup wanted, active)
ReconcileForgets(c, wanted) ==
  Reconciled(c, wanted, Missing(AlwaysOn \cup wanted), {})

Reconcile(c, wanted) ==
  Reconciled(c, wanted, Missing(AlwaysOn \cup wanted), active)

\* Without the mutex, each in a goroutine of its own, the retired sockets are closed.
CloseRetired ==
  /\ \E c \in Clients : \E e \in retired[c] \cap open : open' = open \ {e}
  /\ UNCHANGED <<active, opened, late, signal, clients>>

\* The 5 s of a retired server are over.
RetireTimeout ==
  /\ \E c \in Clients : \E e \in retired[c] \ late : late' = late \cup {e}
  /\ UNCHANGED <<sockets, signal, clients>>

DrainedWhenIdle(c) ==
  /\ \A e \in retired[c] : e \notin open /\ Idle(e)
  /\ Do(c, "drain", "answer")
  /\ retired' = [retired EXCEPT ![c] = {}]
  /\ UNCHANGED <<sockets, late, signal, at>>

\* Every server it retired is closed, and idle or out of time: the apply returns,
\* Manager.mu is released, and a response is all that is left.
Drained(c) ==
  /\ \A e \in retired[c] : e \notin open /\ (Idle(e) \/ e \in late)
  /\ Do(c, "drain", "answer")
  /\ retired' = [retired EXCEPT ![c] = {}]
  /\ UNCHANGED <<sockets, late, signal, at>>

-----------------------------------------------------------------------------
(* SIGTERM *)

Goto(here, there) == main = here /\ main' = there

Sigterm ==
  /\ Goto("serving", "lock")
  /\ UNCHANGED <<sockets, late, mu, waitsFor, bind, expired, clients>>

\* The 30 s of the context are over.
Expire ==
  /\ main \notin {"serving", "exited"}
  /\ expired' = TRUE
  /\ UNCHANGED <<sockets, late, mu, main, waitsFor, bind, clients>>

\* The goroutine that shuts management.bind down.
ShutBind ==
  /\ main # "serving"
  /\ bind = "serving"
  /\ bind' = "draining"
  /\ open' = open \ {BindServer}
  /\ UNCHANGED <<active, opened, late, mu, main, waitsFor, expired, clients>>

BindDone ==
  /\ bind = "draining"
  /\ Idle(BindServer) \/ expired
  /\ bind' = "done"
  /\ UNCHANGED <<sockets, late, mu, main, waitsFor, expired, clients>>

\* Listeners.Shutdown takes the mutex.
Lock ==
  /\ Goto("lock", "next")
  /\ mu' = TRUE
  /\ UNCHANGED <<sockets, late, waitsFor, bind, expired, clients>>

\* It shuts one active server down, in the order of a map.
ShutServer ==
  /\ Goto("next", "drain")
  /\ \E e \in active : waitsFor' = {e} /\ open' = open \ {e}
  /\ UNCHANGED <<active, opened, late, mu, bind, expired, clients>>

ServerIsDone ==
  /\ Goto("drain", "next")
  /\ active' = active \ waitsFor
  /\ waitsFor' = {}
  /\ UNCHANGED <<open, opened, late, mu, bind, expired, clients>>

ShutDoneAtOnce == ServerIsDone
ShutDoneWhenIdle == (\A e \in waitsFor : Idle(e)) /\ ServerIsDone

\* That server is idle, or the context is over.
ShutDone == (\A e \in waitsFor : Idle(e) \/ expired) /\ ServerIsDone

Unlock ==
  /\ Goto("next", "wait")
  /\ active = {}
  /\ mu' = FALSE
  /\ UNCHANGED <<sockets, late, waitsFor, bind, expired, clients>>

\* wg.Wait() returns, and with it the process ends.
Exit ==
  /\ Goto("wait", "exited")
  /\ bind = "done"
  /\ open' = {}
  /\ doing' = [c \in Clients |-> "free"]
  /\ retired' = [c \in Clients |-> {}]
  /\ UNCHANGED <<active, opened, late, mu, waitsFor, bind, expired, at>>

-----------------------------------------------------------------------------
Mutation(c) == (\E w \in SUBSET OnDemand : Reconcile(c, w)) \/ Drained(c)
Shutdown == Lock \/ ShutServer \/ ShutDone \/ Unlock \/ Exit

Next ==
  \/ \E c \in Clients : Accept(c) \/ Respond(c) \/ Upgrade(c) \/ TakeManager(c) \/ Mutation(c)
  \/ CloseRetired \/ RetireTimeout \/ Sigterm \/ Expire \/ ShutBind \/ BindDone
  \/ Lock \/ ShutServer \/ ShutDone \/ Unlock \/ Exit

Spec == Init /\ [][Next]_vars

\* Goroutines run, Manager.mu starves no waiter, and time passes.  Nothing makes an
\* upstream respond or a client go.
FairSpec ==
  /\ Spec
  /\ \A c \in Clients : SF_vars(TakeManager(c)) /\ SF_vars(Mutation(c))
  /\ WF_vars(CloseRetired) /\ WF_vars(RetireTimeout) /\ WF_vars(Expire)
  /\ WF_vars(ShutBind) /\ WF_vars(BindDone) /\ WF_vars(Shutdown)

-----------------------------------------------------------------------------
(* Properties *)

\* Every variable holds a value of its type; Listeners.active is a map from ports.
TypeOK ==
  /\ active \subseteq Server /\ \A d, e \in active : d.port = e.port => d = e
  /\ open \subseteq Server
  /\ opened \in [Ports -> 0 .. MaxGen]
  /\ late \subseteq Server /\ waitsFor \subseteq active
  /\ mu \in BOOLEAN /\ (mu <=> main \in {"next", "drain"}) /\ expired \in BOOLEAN
  /\ main \in {"serving", "lock", "next", "drain", "wait", "exited"}
  /\ bind \in {"serving", "draining", "done"}
  /\ at \in [Clients -> Server] /\ retired \in [Clients -> SUBSET Server]
  /\ doing \in [Clients ->
       {"free", "request", "upgraded", "mutation", "apply", "drain", "answer"}]

\* The servers that an apply has taken from Listeners.active and still shuts down.
Retiring == UNION {retired[c] : c \in Clients}

\* Whatever an apply and the shutdown do beside each other, a socket of the proxy that
\* accepts is in Listeners.active, where a later reconciliation or the shutdown finds
\* it, or among those an apply is still to close (listeners.go:66-89, 124-135).
NoForgottenSocket == open \ {BindServer} \subseteq active \cup Retiring

\* The servers that the shutdown did not go through: those an apply retired, and
\* those one opened after it.
Escaped(e) == e.port \in Ports /\ (e \in active \/ \E c \in Clients : e \in retired[c] \cup late)

\* A process that ends before its deadline cuts no request of a server that the
\* shutdown drained (serve.go:221-232).
DrainedBeforeExit ==
  [][main # "exited" /\ main' = "exited" /\ ~expired =>
       \A c \in Clients : Active(c) => Escaped(at[c])]_vars

\* SIGTERM ends the process, also when a request that it waits for waits for the
\* mutex it holds, or an upstream never responds (serve.go:222).
ShutdownEnds == (main = "lock") ~> (main = "exited")

\* A mutation gets past its apply, also one that retires the very listener it came
\* by, or the process ends (listeners.go:79-89).
AppliesReturn ==
  \A c \in Clients : (doing[c] = "mutation") ~> (doing[c] \in {"answer", "free"})

\* design.md:508, shutdown is to "stop accepting new connections": once it has gone
\* through the listeners, no listener of the proxy accepts, but for a retired one that
\* its apply is about to close.
StopsAccepting == main = "wait" => open \subseteq {BindServer} \cup Retiring
=============================================================================
