----------------------- MODULE GracefulShutdown_proofs -----------------------
(***************************************************************************)
(* Proofs about the end of the daemon, for any ports and any number of     *)
(* clients.                                                                *)
(***************************************************************************)
EXTENDS GracefulShutdown, TLAPS

-----------------------------------------------------------------------------
(* The inductive invariant *)

\* Where sockets are: what Shutdown drains accepts no more, management.bind accepts
\* until its shutdown begins, and the servers of the proxy are those of its ports.
Sockets ==
  /\ waitsFor # {} => main = "drain"
  /\ waitsFor \cap open = {}
  /\ BindServer \in open => bind = "serving"
  /\ \A e \in active \cup Retiring : e.port \in Ports

\* Only an apply that drains has servers it waits for.
Waiting == \A c \in Clients : doing[c] # "drain" => retired[c] = {}

\* Before the deadline an active request belongs to management.bind, and its drain is
\* not over, or to a server that is active, or that an apply has retired and not seen
\* idle.
Accounted ==
  ~expired => \A c \in Clients :
    Active(c) => (at[c] = BindServer /\ bind # "done") \/ Escaped(at[c])

Inv == TypeOK /\ NoForgottenSocket /\ Sockets /\ Waiting /\ Accounted

-----------------------------------------------------------------------------
(* Every action preserves it *)

\* The server of management.bind is none of the proxy's.
LEMMA BindIsApart == BindServer \in Server /\ \A e : e.port \in Ports => e # BindServer
BY ShutdownAssumption DEF BindServer, First, Server

\* What a port is opened with first is a server of that port.
LEMMA FirstServers == \A p \in Ports : First(p) \in Server /\ First(p).port = p
BY ShutdownAssumption DEF First, Server

\* What is retiring is what some client's apply retired.
LEMMA RetiringIs == \A e : e \in Retiring <=> \E c \in Clients : e \in retired[c]
BY DEF Retiring

\* The invariant holds of a daemon that serves.
LEMMA InitInv == Init => Inv
<1> SUFFICES ASSUME Init PROVE Inv
  OBVIOUS
<1>1. AlwaysOn \subseteq Ports /\ MaxGen \in Nat /\ MaxGen >= 2
  BY ShutdownAssumption DEF Ports
<1>2. /\ active \subseteq Server /\ \A e \in active : e.port \in Ports
      /\ \A d, e \in active : d.port = e.port => d = e
  BY <1>1, FirstServers DEF Init
<1>3. TypeOK
  <2>1. opened \in [Ports -> 0 .. MaxGen]
    BY <1>1 DEF Init
  <2>2. mu \in BOOLEAN /\ (mu <=> main \in {"next", "drain"}) /\ expired \in BOOLEAN
    BY DEF Init
  <2>3. open \subseteq Server /\ late \subseteq Server /\ waitsFor \subseteq active
    BY <1>2, BindIsApart DEF Init
  <2>4. /\ at \in [Clients -> Server] /\ retired \in [Clients -> SUBSET Server]
        /\ doing \in [Clients -> {"free"}]
    BY BindIsApart DEF Init
  <2>5. main = "serving" /\ bind \in {"serving", "done"}
    BY DEF Init
  <2> QED
    BY <1>2, <2>1, <2>2, <2>3, <2>4, <2>5 DEF TypeOK
<1>4. NoForgottenSocket
  BY DEF Init, NoForgottenSocket
<1>5. Sockets
  BY <1>2, BindIsApart, RetiringIs DEF Init, Sockets
<1>6. Waiting /\ Accounted
  BY DEF Init, Waiting, Accounted, Active
<1> QED
  BY <1>3, <1>4, <1>5, <1>6 DEF Inv

\* A request that arrives belongs to a server whose socket accepts.
LEMMA AcceptInv == ASSUME NEW c \in Clients PROVE Inv /\ Accept(c) => Inv'
<1> SUFFICES ASSUME Inv, Accept(c) PROVE Inv'
  OBVIOUS
<1>1. TypeOK /\ NoForgottenSocket /\ Sockets /\ Waiting /\ Accounted
  BY DEF Inv
<1>2. PICK e \in open : at' = [at EXCEPT ![c] = e]
  BY DEF Accept
<1>3. /\ doing[c] = "free"
      /\ \E next \in {"request", "mutation"} : doing' = [doing EXCEPT ![c] = next]
      /\ UNCHANGED <<sockets, late, signal, retired>>
  BY DEF Accept, Do
<1>4. /\ at'[c] = e /\ \A d \in Clients \ {c} : at'[d] = at[d] /\ doing'[d] = doing[d]
      /\ doing'[c] \in {"request", "mutation"}
  BY <1>1, <1>2, <1>3 DEF TypeOK
<1>5. TypeOK'
  BY <1>1, <1>2, <1>3 DEF TypeOK, sockets, signal
<1>6. NoForgottenSocket' /\ Sockets'
  BY <1>1, <1>3 DEF NoForgottenSocket, Sockets, Retiring, sockets, signal
<1>7. Waiting'
  BY <1>1, <1>3, <1>4 DEF Waiting
<1>8. (e = BindServer /\ bind # "done") \/ Escaped(e)
  BY <1>1, RetiringIs DEF NoForgottenSocket, Sockets, Escaped
<1>9. Accounted'
  BY <1>1, <1>3, <1>4, <1>8 DEF Accounted, Active, Escaped, sockets, signal
<1> QED
  BY <1>5, <1>6, <1>7, <1>9 DEF Inv

\* A request moves on where it is.
LEMMA RequestInv ==
  ASSUME NEW c \in Clients
  PROVE  Inv /\ (Respond(c) \/ Upgrade(c) \/ TakeManager(c)) => Inv'
<1> SUFFICES ASSUME Inv, Respond(c) \/ Upgrade(c) \/ TakeManager(c) PROVE Inv'
  OBVIOUS
<1>1. TypeOK /\ NoForgottenSocket /\ Sockets /\ Waiting /\ Accounted
  BY DEF Inv
<1>2. /\ doing[c] \notin {"free", "drain"}
      /\ \E next \in {"free", "upgraded", "apply"} :
           /\ doing' = [doing EXCEPT ![c] = next]
           /\ next = "apply" => doing[c] = "mutation"
      /\ UNCHANGED <<sockets, late, signal, at, retired>>
  BY DEF Respond, Upgrade, TakeManager, Do
<1>3. /\ doing'[c] \in {"free", "upgraded", "apply"} /\ (doing'[c] = "apply" => Active(c))
      /\ \A d \in Clients \ {c} : doing'[d] = doing[d]
  BY <1>1, <1>2 DEF TypeOK, Active
<1>4. TypeOK'
  BY <1>1, <1>2 DEF TypeOK, sockets, signal
<1>5. NoForgottenSocket' /\ Sockets'
  BY <1>1, <1>2 DEF NoForgottenSocket, Sockets, Retiring, sockets, signal
<1>6. Waiting'
  BY <1>1, <1>2, <1>3 DEF Waiting
<1>7. Accounted'
  BY <1>1, <1>2, <1>3 DEF Accounted, Active, Escaped, sockets, signal
<1> QED
  BY <1>4, <1>5, <1>6, <1>7 DEF Inv

\* Reconcile: what it retires is what the client whose apply it is shuts down and waits
\* for.
LEMMA ReconcileInv ==
  ASSUME NEW c \in Clients, NEW w \in SUBSET OnDemand
  PROVE  Inv /\ Reconcile(c, w) => Inv'
<1> SUFFICES ASSUME Inv, Reconcile(c, w) PROVE Inv'
  OBVIOUS
<1>1. TypeOK /\ NoForgottenSocket /\ Sockets /\ Waiting /\ Accounted
  BY DEF Inv
<1> DEFINE reopen == Missing(AlwaysOn \cup w)
           Fresh(p) == [port |-> p, gen |-> opened[p] + 1]
           fresh == {Fresh(p) : p \in reopen}
           stale == {e \in active : e.port \notin AlwaysOn \cup w}
<1>2. /\ ~mu /\ doing[c] = "apply" /\ doing' = [doing EXCEPT ![c] = "drain"]
      /\ \A p \in reopen : opened[p] < MaxGen
      /\ active' = (active \ stale) \cup fresh
      /\ open' = open \cup fresh
      /\ opened' = [p \in Ports |-> IF p \in reopen THEN opened[p] + 1 ELSE opened[p]]
      /\ retired' = [retired EXCEPT ![c] = stale \cap active]
      /\ UNCHANGED <<late, signal, at>>
  BY DEF Reconcile, Reconciled, Do
<1>3. /\ doing'[c] = "drain" /\ retired'[c] = stale /\ retired[c] = {}
      /\ \A d \in Clients \ {c} : doing'[d] = doing[d] /\ retired'[d] = retired[d]
  BY <1>1, <1>2 DEF TypeOK, Waiting
<1>4. /\ reopen \subseteq Ports /\ \A e \in active : e.port \notin reopen
  BY DEF Missing, Ports
<1>5. ASSUME NEW p \in reopen
      PROVE  opened[p] + 1 \in 1 .. MaxGen
  <2>1. p \in Ports /\ opened \in [Ports -> 0 .. MaxGen] /\ opened[p] < MaxGen
    BY <1>1, <1>2, <1>4 DEF TypeOK
  <2> HIDE DEF reopen
  <2>2. opened[p] \in 0 .. MaxGen
    BY <2>1
  <2> QED
    BY <2>1, <2>2, ShutdownAssumption
<1>6. \A p \in reopen : Fresh(p) \in Server /\ Fresh(p).port = p
  BY <1>4, <1>5 DEF Server
<1> HIDE DEF Fresh
<1>7. fresh \subseteq Server /\ \A e \in fresh : e.port \in reopen /\ e = Fresh(e.port)
  BY <1>6
<1> HIDE DEF fresh
<1>8. waitsFor = {} /\ waitsFor' = {}
  BY <1>1, <1>2 DEF TypeOK, Sockets, signal
<1>9. TypeOK'
  <2>1. active' \subseteq Server /\ \A d, e \in active' : d.port = e.port => d = e
    BY <1>1, <1>2, <1>4, <1>7 DEF TypeOK
  <2>2. open' \subseteq Server
    BY <1>1, <1>2, <1>7 DEF TypeOK
  <2>3. opened' \in [Ports -> 0 .. MaxGen]
    <3>1. \A p \in reopen : opened[p] + 1 \in 0 .. MaxGen
      BY <1>5, ShutdownAssumption
    <3>2. opened \in [Ports -> 0 .. MaxGen]
      BY <1>1 DEF TypeOK
    <3> HIDE DEF reopen
    <3> QED
      BY <1>2, <3>1, <3>2
  <2>4. retired' \in [Clients -> SUBSET Server]
    BY <1>1, <1>2 DEF TypeOK
  <2> QED
    BY <1>1, <1>2, <1>8, <2>1, <2>2, <2>3, <2>4 DEF TypeOK, signal
<1>10. Retiring' = Retiring \cup stale
  BY <1>3 DEF Retiring
<1>11. NoForgottenSocket' /\ Sockets'
  <2>1. NoForgottenSocket'
    BY <1>1, <1>2, <1>10 DEF NoForgottenSocket
  <2>2. \A e \in active' \cup Retiring' : e.port \in Ports
    BY <1>1, <1>2, <1>4, <1>7, <1>10 DEF Sockets
  <2>3. BindServer \in open' => bind' = "serving"
    BY <1>1, <1>2, <1>4, <1>7, BindIsApart DEF Sockets, signal
  <2> QED
    BY <1>8, <2>1, <2>2, <2>3 DEF Sockets
<1>12. Waiting'
  BY <1>1, <1>3 DEF Waiting
<1>13. \A e : Escaped(e) => Escaped(e)'
  BY <1>2, <1>3 DEF Escaped
<1>14. Accounted'
  BY <1>1, <1>2, <1>3, <1>13 DEF Accounted, Active, signal
<1> QED
  BY <1>9, <1>11, <1>12, <1>14 DEF Inv

\* A drain ends for servers that are idle, or out of time.
LEMMA DrainedInv == ASSUME NEW c \in Clients PROVE Inv /\ Drained(c) => Inv'
<1> SUFFICES ASSUME Inv, Drained(c) PROVE Inv'
  OBVIOUS
<1>1. TypeOK /\ NoForgottenSocket /\ Sockets /\ Waiting /\ Accounted
  BY DEF Inv
<1>2. /\ \A e \in retired[c] : e \notin open /\ (Idle(e) \/ e \in late)
      /\ doing[c] = "drain" /\ doing' = [doing EXCEPT ![c] = "answer"]
      /\ retired' = [retired EXCEPT ![c] = {}]
      /\ UNCHANGED <<sockets, late, signal, at>>
  BY DEF Drained, Do
<1>3. /\ doing'[c] = "answer" /\ retired'[c] = {}
      /\ \A d \in Clients \ {c} : doing'[d] = doing[d] /\ retired'[d] = retired[d]
  BY <1>1, <1>2 DEF TypeOK
<1>4. TypeOK'
  BY <1>1, <1>2 DEF TypeOK, sockets, signal
<1>5. Retiring' \subseteq Retiring /\ \A e \in Retiring \cap open : e \in Retiring'
  BY <1>2, <1>3, RetiringIs DEF Retiring
<1>6. NoForgottenSocket' /\ Sockets'
  BY <1>1, <1>2, <1>5 DEF NoForgottenSocket, Sockets, sockets, signal
<1>7. Waiting'
  BY <1>1, <1>3 DEF Waiting
<1>8. \A d \in Clients : Active(d)' <=> Active(d)
  BY <1>2, <1>3 DEF Active
<1>9. \A d \in Clients : Active(d) /\ Escaped(at[d]) => Escaped(at[d])'
  BY <1>2, <1>3 DEF Escaped, Idle, sockets
<1>10. Accounted'
  BY <1>1, <1>2, <1>8, <1>9 DEF Accounted, signal
<1> QED
  BY <1>4, <1>6, <1>7, <1>10 DEF Inv

\* Time passes, and the signal loop goes on without touching a server.
LEMMA SignalInv ==
  Inv /\ (RetireTimeout \/ Sigterm \/ Expire \/ Lock \/ Unlock \/ UNCHANGED vars) => Inv'
<1> SUFFICES ASSUME Inv, RetireTimeout \/ Sigterm \/ Expire \/ Lock \/ Unlock \/ UNCHANGED vars
             PROVE  Inv'
  OBVIOUS
<1>1. TypeOK /\ NoForgottenSocket /\ Sockets /\ Waiting /\ Accounted
  BY DEF Inv
<1>2. UNCHANGED <<sockets, waitsFor, bind, clients>>
  BY DEF RetireTimeout, Sigterm, Expire, Lock, Unlock, vars, signal
<1>3. late \subseteq late' /\ late' \subseteq Server
  BY <1>1 DEF TypeOK, RetireTimeout, Sigterm, Expire, Lock, Unlock, vars
<1>4. expired' \in BOOLEAN /\ (expired => expired')
  BY <1>1 DEF TypeOK, RetireTimeout, Sigterm, Expire, Lock, Unlock, vars, signal
<1>5. /\ mu' \in BOOLEAN /\ (mu' <=> main' \in {"next", "drain"})
      /\ main = "drain" => main' = "drain"
      /\ main' \in {"serving", "lock", "next", "drain", "wait", "exited"}
  <2>1. CASE UNCHANGED <<mu, main>>
    BY <1>1, <2>1 DEF TypeOK
  <2>2. CASE Sigterm
    BY <1>1, <2>2 DEF Sigterm, Goto, TypeOK
  <2>3. CASE Lock
    <3>1. mu' = TRUE /\ main = "lock" /\ main' = "next"
      BY <2>3 DEF Lock, Goto
    <3> QED
      BY <3>1
  <2>4. CASE Unlock
    <3>1. mu' = FALSE /\ main = "next" /\ main' = "wait"
      BY <2>4 DEF Unlock, Goto
    <3> QED
      BY <3>1
  <2> QED
    BY <2>1, <2>2, <2>3, <2>4 DEF RetireTimeout, Expire, vars, signal
<1>6. TypeOK'
  BY <1>1, <1>2, <1>3, <1>4, <1>5 DEF TypeOK, sockets, clients
<1>7. NoForgottenSocket' /\ Sockets' /\ Waiting'
  BY <1>1, <1>2, <1>5 DEF NoForgottenSocket, Sockets, Waiting, Retiring, sockets, clients
<1>8. Accounted'
  BY <1>1, <1>2, <1>3, <1>4 DEF Accounted, Active, Escaped, sockets, clients
<1> QED
  BY <1>6, <1>7, <1>8 DEF Inv

\* Shutdown closes the socket of a server before it drains it; its requests go on.
LEMMA CloseInv == Inv /\ (ShutBind \/ ShutServer \/ CloseRetired) => Inv'
<1> SUFFICES ASSUME Inv, ShutBind \/ ShutServer \/ CloseRetired PROVE Inv'
  OBVIOUS
<1>1. TypeOK /\ NoForgottenSocket /\ Sockets /\ Waiting /\ Accounted
  BY DEF Inv
<1>2. UNCHANGED <<active, opened, late, mu, expired, clients>> /\ open' \subseteq open
  BY DEF ShutBind, ShutServer, CloseRetired, signal
<1>3. CASE ShutBind
  <2>1. /\ bind = "serving" /\ bind' = "draining" /\ open' = open \ {BindServer}
        /\ UNCHANGED <<main, waitsFor>>
    BY <1>3 DEF ShutBind
  <2>2. TypeOK'
    BY <1>1, <1>2, <2>1 DEF TypeOK, clients
  <2>3. NoForgottenSocket' /\ Sockets' /\ Waiting'
    BY <1>1, <1>2, <2>1 DEF NoForgottenSocket, Sockets, Waiting, Retiring, clients
  <2>4. Accounted'
    BY <1>1, <1>2, <2>1 DEF Accounted, Active, Escaped, clients
  <2> QED
    BY <2>2, <2>3, <2>4 DEF Inv
<1>4. CASE ShutServer
  <2>1. /\ main = "next" /\ main' = "drain" /\ UNCHANGED bind
        /\ \E e \in active : waitsFor' = {e} /\ open' = open \ {e}
    BY <1>4 DEF ShutServer, Goto
  <2>2. mu' /\ main' = "drain"
    BY <1>1, <1>2, <2>1 DEF TypeOK
  <2>3. TypeOK'
    BY <1>1, <1>2, <2>1, <2>2 DEF TypeOK, clients
  <2>4. NoForgottenSocket' /\ Sockets' /\ Waiting'
    BY <1>1, <1>2, <2>1 DEF NoForgottenSocket, Sockets, Waiting, Retiring, clients
  <2>5. Accounted'
    BY <1>1, <1>2, <2>1 DEF Accounted, Active, Escaped, clients
  <2> QED
    BY <2>3, <2>4, <2>5 DEF Inv
<1>5. CASE CloseRetired
  <2>1. UNCHANGED <<signal, main, waitsFor, bind>>
    BY <1>5 DEF CloseRetired, signal
  <2>2. TypeOK'
    BY <1>1, <1>2, <2>1 DEF TypeOK, clients
  <2>3. NoForgottenSocket' /\ Sockets' /\ Waiting'
    BY <1>1, <1>2, <2>1 DEF NoForgottenSocket, Sockets, Waiting, Retiring, clients
  <2>4. Accounted'
    BY <1>1, <1>2, <2>1 DEF Accounted, Active, Escaped, clients
  <2> QED
    BY <2>2, <2>3, <2>4 DEF Inv
<1> QED
  BY <1>3, <1>4, <1>5

\* Before the deadline it gives up only servers without a request.
LEMMA DoneInv == Inv /\ (BindDone \/ ShutDone) => Inv'
<1> SUFFICES ASSUME Inv, BindDone \/ ShutDone PROVE Inv'
  OBVIOUS
<1>1. TypeOK /\ NoForgottenSocket /\ Sockets /\ Waiting /\ Accounted
  BY DEF Inv
<1>2. UNCHANGED <<open, opened, late, mu, expired, clients>>
  BY DEF BindDone, ShutDone, ServerIsDone, sockets
<1>3. CASE BindDone
  <2>1. /\ bind = "draining" /\ bind' = "done" /\ UNCHANGED <<active, main, waitsFor>>
        /\ Idle(BindServer) \/ expired
    BY <1>3 DEF BindDone, sockets
  <2>2. TypeOK'
    BY <1>1, <1>2, <2>1 DEF TypeOK, clients
  <2>3. NoForgottenSocket' /\ Sockets' /\ Waiting'
    BY <1>1, <1>2, <2>1 DEF NoForgottenSocket, Sockets, Waiting, Retiring, clients
  <2>4. Accounted'
    BY <1>1, <1>2, <2>1 DEF Accounted, Active, Escaped, Idle, clients
  <2> QED
    BY <2>2, <2>3, <2>4 DEF Inv
<1>4. CASE ShutDone
  <2>1. /\ main = "drain" /\ main' = "next" /\ UNCHANGED bind
        /\ active' = active \ waitsFor /\ waitsFor' = {}
        /\ \A e \in waitsFor : Idle(e) \/ expired
    BY <1>4 DEF ShutDone, ServerIsDone, Goto
  <2>2. mu' /\ main' = "next"
    BY <1>1, <1>2, <2>1 DEF TypeOK
  <2>3. TypeOK'
    BY <1>1, <1>2, <2>1, <2>2 DEF TypeOK, clients
  <2>4. NoForgottenSocket' /\ Sockets' /\ Waiting'
    BY <1>1, <1>2, <2>1 DEF NoForgottenSocket, Sockets, Waiting, Retiring, clients
  <2>5. Accounted'
    BY <1>1, <1>2, <2>1 DEF Accounted, Active, Escaped, Idle, clients
  <2> QED
    BY <2>3, <2>4, <2>5 DEF Inv
<1> QED
  BY <1>3, <1>4

\* The end of the process leaves no socket and no request.
LEMMA ExitInv == Inv /\ Exit => Inv'
<1> SUFFICES ASSUME Inv, Exit PROVE Inv'
  OBVIOUS
<1>1. TypeOK /\ NoForgottenSocket /\ Sockets
  BY DEF Inv
<1>2. /\ main = "wait" /\ main' = "exited" /\ open' = {}
      /\ doing' = [c \in Clients |-> "free"] /\ retired' = [c \in Clients |-> {}]
      /\ UNCHANGED <<active, opened, late, mu, waitsFor, bind, expired, at>>
  BY DEF Exit, Goto
<1>3. ~mu' /\ main' = "exited"
  BY <1>1, <1>2 DEF TypeOK
<1>4. TypeOK'
  BY <1>1, <1>2, <1>3 DEF TypeOK
<1>5. NoForgottenSocket' /\ Sockets'
  BY <1>1, <1>2 DEF NoForgottenSocket, Sockets, Retiring
<1>6. Waiting' /\ Accounted'
  BY <1>2 DEF Waiting, Accounted, Active
<1> QED
  BY <1>4, <1>5, <1>6 DEF Inv

\* Every step keeps the invariant.
LEMMA NextInv == Inv /\ [Next]_vars => Inv'
BY AcceptInv, RequestInv, ReconcileInv, DrainedInv, SignalInv, CloseInv, DoneInv, ExitInv
   DEF Next, Mutation

-----------------------------------------------------------------------------
(* What the end of the daemon may rely on *)

\* Inv holds in every reachable state.
THEOREM InvariantHolds == FairSpec => []Inv
BY InitInv, NextInv, PTL DEF FairSpec, Spec

\* TypeOK: in particular a port has at most one active server, and the mutex of the
\* listeners is held exactly while Shutdown goes through them.
THEOREM TypeCorrect == FairSpec => []TypeOK
<1>1. Inv => TypeOK
  BY DEF Inv
<1> QED
  BY <1>1, InvariantHolds, PTL

\* NoForgottenSocket: a socket of the proxy that accepts is in Listeners.active, where
\* a later reconciliation or the shutdown finds it, or an apply that took it from there
\* is still to close it, without the mutex.
THEOREM SocketsAreKnown == FairSpec => []NoForgottenSocket
<1>1. Inv => NoForgottenSocket
  BY DEF Inv
<1> QED
  BY <1>1, InvariantHolds, PTL

\* DrainedBeforeExit: before the deadline the process ends only when the requests of
\* management.bind and of every server the shutdown went through are over.
THEOREM NothingIsCut == FairSpec => DrainedBeforeExit
<1>1. ASSUME Inv, [Next]_vars, main # "exited", main' = "exited", ~expired
      PROVE  \A c \in Clients : Active(c) => Escaped(at[c])
  <2>1. Exit
    BY <1>1 DEF Next, Accept, Respond, Upgrade, TakeManager, Mutation, Reconcile, Reconciled,
         Drained, CloseRetired, RetireTimeout, Sigterm, Expire, ShutBind, BindDone, Lock, ShutServer,
         ShutDone, ServerIsDone, Unlock, Goto, vars, signal
  <2>2. bind = "done"
    BY <2>1 DEF Exit
  <2> QED
    BY <1>1, <2>2 DEF Inv, Accounted
<1>2. ASSUME Inv, [Next]_vars
      PROVE  [main # "exited" /\ main' = "exited" /\ ~expired =>
                \A c \in Clients : Active(c) => Escaped(at[c])]_vars
  BY <1>1, <1>2
<1> QED
  BY <1>2, InvariantHolds, PTL DEF FairSpec, Spec, DrainedBeforeExit

\* StopsAccepting, which design.md:508 says, fails by an apply that reconciles after the
\* shutdown went through the listeners only (Listeners.Reconcile): when none does, no
\* listener of the proxy accepts any more but the ones that an apply took from the map
\* before, and has not closed yet.
THEOREM StopsWithoutApply ==
  FairSpec /\ [][main = "wait" => UNCHANGED active]_vars => []StopsAccepting
<1> DEFINE Gone == main = "wait" => active = {}
<1>1. Init => Gone
  BY DEF Init
<1>2. ASSUME Gone, [Next]_vars, [main = "wait" => UNCHANGED active]_vars
      PROVE  Gone'
  <2>1. main' = "wait" => main = "wait" \/ Unlock
    BY <1>2 DEF Next, Accept, Respond, Upgrade, TakeManager, Mutation, Reconcile, Reconciled,
         Drained, CloseRetired, RetireTimeout, Sigterm, Expire, ShutBind, BindDone, Lock, ShutServer,
         ShutDone, ServerIsDone, Exit, Goto, vars, signal
  <2>2. CASE Unlock
    BY <2>2 DEF Unlock, sockets
  <2>3. CASE main = "wait"
    BY <1>2, <2>3 DEF vars, sockets
  <2> QED
    BY <2>1, <2>2, <2>3
<1>3. Inv /\ Gone => StopsAccepting
  BY DEF Inv, NoForgottenSocket, StopsAccepting
<1> HIDE DEF Gone
<1> QED
  BY <1>1, <1>2, <1>3, InvariantHolds, PTL DEF FairSpec, Spec

\* design.md:508-509, shutdown is to "drain in-flight requests within a timeout": before
\* its deadline it cuts no request of a listener whose own timeout is not over either.
RetiredAreDrained ==
  [][main # "exited" /\ main' = "exited" /\ ~expired =>
       \A c, d \in Clients : Active(c) => at[c] \notin retired[d] \ late]_vars

\* Mutations come by management.bind, and by no listener of the proxy.
MutationsByBind ==
  \A c \in Clients : doing[c] \in {"mutation", "apply", "drain"} => at[c] = BindServer

\* RetiredAreDrained, which design.md:508-509 says, fails by a mutation that comes by the
\* very listener it retires, or by one retired before: the shutdown waits for neither
\* (Listeners.Shutdown).  When mutations come by management.bind, its drain waits for
\* them, and they wait for what they retired.
THEOREM DrainedByBind == FairSpec /\ []MutationsByBind => RetiredAreDrained
<1>1. ASSUME Inv, MutationsByBind, [Next]_vars, main # "exited", main' = "exited", ~expired,
             NEW d \in Clients
      PROVE  retired[d] = {}
  <2>1. Exit
    BY <1>1 DEF Next, Accept, Respond, Upgrade, TakeManager, Mutation, Reconcile, Reconciled,
         Drained, CloseRetired, RetireTimeout, Sigterm, Expire, ShutBind, BindDone, Lock, ShutServer,
         ShutDone, ServerIsDone, Unlock, Goto, vars, signal
  <2>2. bind = "done"
    BY <2>1 DEF Exit
  <2>3. ~Escaped(BindServer)
    BY ShutdownAssumption DEF Escaped, BindServer, First
  <2>4. CASE doing[d] = "drain"
    <3>1. at[d] = BindServer /\ Active(d)
      BY <1>1, <2>4 DEF MutationsByBind, Active
    <3> QED
      BY <1>1, <2>2, <2>3, <3>1 DEF Inv, Accounted
  <2> QED
    BY <1>1, <2>4 DEF Inv, Waiting
<1>2. ASSUME Inv, MutationsByBind, [Next]_vars
      PROVE  [main # "exited" /\ main' = "exited" /\ ~expired =>
                \A c, d \in Clients : Active(c) => at[c] \notin retired[d] \ late]_vars
  BY <1>1, <1>2
<1> QED
  BY <1>2, InvariantHolds, PTL DEF FairSpec, Spec, RetiredAreDrained
=============================================================================
