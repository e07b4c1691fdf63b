--------------------------- MODULE Dashboard_proofs ---------------------------
(***************************************************************************)
(* Proofs about the web page and the rate limiter, for any number of       *)
(* asynchronous functions and of requests of a refresh, and any limit.     *)
(***************************************************************************)
EXTENDS Dashboard, FiniteSetTheorems, TLAPS

\* What an asynchronous function can be.
Flow == {Idle} \cup [kind : {"boot", "login", "action", "poll"},
                     at : {"verify", "cas", "refresh"}]

\* The requests between the check of the limit and the count of their failure.
Past == {x \in Flows \X Parts : fetch[x[1]][x[2]].at = "past"}

\* Every one of them may still be counted.
PastCounted == hits + Cardinality(Past) < Limit + Cardinality(Flows \X Parts)

Inv == TypeOK /\ OnePoll /\ PastCounted

-----------------------------------------------------------------------------
(* Counting *)

\* The requests there can be are finitely many, and so are those past the check.
LEMMA PastFinite ==
  /\ IsFiniteSet(Flows \X Parts) /\ Cardinality(Flows \X Parts) \in Nat
  /\ IsFiniteSet(Past) /\ Cardinality(Past) \in Nat
  /\ Cardinality(Past) <= Cardinality(Flows \X Parts)
<1>1. IsFiniteSet(Flows \X Parts)
  BY DashboardAssumption, FS_Product
<1>2. Past \subseteq Flows \X Parts
  BY DEF Past
<1>. QED BY <1>1, <1>2, FS_Subset, FS_CardinalityType

\* The same of the next state.
LEMMA NextPastFinite ==
  /\ IsFiniteSet(Past') /\ Cardinality(Past') \in Nat
  /\ Cardinality(Past') <= Cardinality(Flows \X Parts)
<1>1. Past' \subseteq Flows \X Parts
  BY DEF Past
<1>. QED BY <1>1, PastFinite, FS_Subset, FS_CardinalityType

\* A step that neither counts a failure nor lets a request past the check keeps the
\* bound.
LEMMA NoneMorePast ==
  ASSUME PastCounted, hits \in Nat, hits' \in Nat, hits' <= hits, Past' \subseteq Past
  PROVE  PastCounted'
<1>1. Cardinality(Past') <= Cardinality(Past)
  BY PastFinite, FS_Subset
<1>. QED BY <1>1, PastFinite, NextPastFinite, DashboardAssumption DEF PastCounted

-----------------------------------------------------------------------------
(* One function at a time *)

\* What a request becomes is of its type, and only what passes the check is past it.
LEMMA FetchTyped ==
  /\ NoFetch \in Fetch /\ NoFetch.at = "none" /\ NoFetches \in [Parts -> Fetch]
  /\ \A at \in {"none", "sent", "past", "200", "401", "error"}, seen \in 0 .. MaxVersion :
       Answered(at, seen) \in Fetch /\ Answered(at, seen).at = at
  /\ \A parts \in SUBSET Parts, tok \in Tokens \cup {NoToken} :
       /\ Sent(parts, tok) \in [Parts -> Fetch]
       /\ \A p \in parts : Sent(parts, tok)[p].at = "sent"
       /\ \A p \in Parts : Sent(parts, tok)[p].at # "past"
BY DashboardAssumption DEF Answered, Asked, NoFetch, NoFetches, Fetch, Sent

\* A step in which one function becomes w, and its requests g, keeps the types, and
\* one poll at most, when the flag of poll() goes with the kind of w.
LEMMA OneFlow ==
  ASSUME TypeOK, OnePoll,
         NEW f \in Flows, NEW w \in Flow, NEW g \in [Parts -> Fetch],
         flow' = [flow EXCEPT ![f] = w], fetch' = [fetch EXCEPT ![f] = g],
         w # Idle => \E p \in Parts : g[p].at # "none",
         w.kind = "poll" => flow[f].kind = "poll" \/ ~polling,
         polling' = (w.kind = "poll" \/ (polling /\ flow[f].kind # "poll")),
         secret' \in Tokens, version' \in 0 .. MaxVersion, hits' \in Nat,
         token' \in Tokens \cup {NoToken},
         view' \in {"blank", "booting", "login", "dashboard"},
         timer' \in BOOLEAN, busy' \in BOOLEAN, page' \in 0 .. MaxVersion
  PROVE  TypeOK' /\ OnePoll'
<1>. DEFINE polls == {h \in Flows : flow[h].kind = "poll"}
<1>1. flow \in [Flows -> Flow] /\ fetch \in [Flows -> [Parts -> Fetch]]
  BY DEF TypeOK, Flow
<1>2. flow' \in [Flows -> Flow] /\ fetch' \in [Flows -> [Parts -> Fetch]]
  BY <1>1
<1>3. /\ flow'[f] = w /\ fetch'[f] = g
      /\ \A h \in Flows \ {f} : flow'[h] = flow[h] /\ fetch'[h] = fetch[h]
  BY <1>1
<1>4. \A h \in Flows : Waits(h)' => \E p \in Parts : fetch'[h][p].at # "none"
  BY <1>3 DEF Waits, TypeOK
<1>5. TypeOK'
  BY <1>2, <1>4 DEF TypeOK, Flow
<1>6. /\ \A h, k \in polls : h = k
      /\ polling = (polls # {})
  BY DEF OnePoll
<1>7. polls' = IF w.kind = "poll" THEN polls \cup {f} ELSE polls \ {f}
  BY <1>3
<1>8. (\A h, k \in polls' : h = k) /\ polling' = (polls' # {})
  <2>1. CASE w.kind = "poll"
    <3>1. polls \subseteq {f}
      BY <1>6, <2>1
    <3>. QED BY <1>7, <2>1, <3>1
  <2>2. CASE w.kind # "poll"
    <3>1. (polls \ {f} # {}) = (polls # {} /\ f \notin polls)
      BY <1>6
    <3>2. (f \in polls) = (flow[f].kind = "poll")
      OBVIOUS
    <3>3. \A h, k \in polls' : h = k
      BY <1>6, <1>7, <2>2
    <3>4. polling' = (polls # {} /\ f \notin polls)
      BY <1>6, <2>2, <3>2
    <3>. QED BY <1>7, <2>2, <3>1, <3>3, <3>4
  <2>. QED BY <2>1, <2>2
<1>. QED BY <1>5, <1>8 DEF OnePoll

\* A step that leaves the functions and what they wait for alone.
LEMMA SameFlows ==
  ASSUME TypeOK, OnePoll, UNCHANGED <<flow, polling>>,
         fetch' \in [Flows -> [Parts -> Fetch]],
         \A f \in Flows, p \in Parts : fetch[f][p].at # "none" => fetch'[f][p].at # "none",
         secret' \in Tokens, version' \in 0 .. MaxVersion, hits' \in Nat,
         token' \in Tokens \cup {NoToken},
         view' \in {"blank", "booting", "login", "dashboard"},
         timer' \in BOOLEAN, busy' \in BOOLEAN, page' \in 0 .. MaxVersion
  PROVE  TypeOK' /\ OnePoll'
BY DEF TypeOK, OnePoll, Waits

-----------------------------------------------------------------------------
(* The actions *)

\* The invariant holds when the page is loaded.
LEMMA InitInv == Init => Inv
<1>. SUFFICES ASSUME Init PROVE Inv
  OBVIOUS
<1>. USE DEF Init
<1>1. \A f \in Flows : flow[f].kind = "none" /\ ~Waits(f)
  BY DEF Idle, Waits
<1>2. TypeOK
  <2>1. NoFetches \in [Parts -> Fetch]
    BY FetchTyped
  <2>2. fetch \in [Flows -> [Parts -> Fetch]]
    BY <2>1
  <2>4. timer \in BOOLEAN /\ busy \in BOOLEAN
    OBVIOUS
  <2>3. /\ flow \in [Flows -> Flow]
        /\ hits \in Nat /\ version \in 0 .. MaxVersion /\ page \in 0 .. MaxVersion
    BY DashboardAssumption DEF Flow
  <2>. QED BY <1>1, <2>2, <2>3, <2>4, DashboardAssumption DEF TypeOK, Flow
<1>3. OnePoll
  BY <1>1 DEF OnePoll
<1>4. Past = {}
  BY FetchTyped DEF Past, NoFetches
<1>5. PastCounted
  BY <1>4, PastFinite, FS_EmptySet, DashboardAssumption DEF PastCounted
<1>. QED BY <1>2, <1>3, <1>5 DEF Inv

\* An answer of the server to one request: one more is past the check when it is let
\* pass, and one less when it is counted.
LEMMA ServeInv ==
  ASSUME Inv, NEW f \in Flows, NEW p \in Parts, Serve(f, p)
  PROVE  Inv'
<1>. USE DEF server, session
<1>1. ASSUME NEW res \in {"past", "200", "401", "error"}, NEW seen \in 0 .. MaxVersion,
             Reply(f, p, res, seen),
             UNCHANGED <<secret, version, session, polling, page, flow, restarts>>,
             hits' \in Nat
      PROVE  TypeOK' /\ OnePoll'
  <2>1. fetch' \in [Flows -> [Parts -> Fetch]]
    BY <1>1, FetchTyped DEF Inv, TypeOK, Reply
  <2>2. \A g \in Flows, q \in Parts : fetch[g][q].at # "none" => fetch'[g][q].at # "none"
    BY <1>1, FetchTyped DEF Inv, TypeOK, Reply
  <2>. QED BY <1>1, <2>1, <2>2, SameFlows DEF Inv, TypeOK
<1>2. ASSUME NEW res \in {"200", "401", "error"}, NEW seen \in 0 .. MaxVersion,
             Reply(f, p, res, seen)
      PROVE  Past' = Past \ {<<f, p>>}
  BY <1>2, FetchTyped DEF Inv, TypeOK, Reply, Past
<1>3. hits \in Nat /\ version \in 0 .. MaxVersion /\ 0 \in 0 .. MaxVersion
  BY DashboardAssumption DEF Inv, TypeOK
<1>4. CASE Refused(f, p)
  BY <1>1, <1>2, <1>3, <1>4, NoneMorePast DEF Inv, Refused
<1>5. CASE Served(f, p)
  <2>. DEFINE seen == IF flow[f].at = "refresh" /\ p = Watched THEN version ELSE 0
  <2>1. Reply(f, p, "200", seen) /\ seen \in 0 .. MaxVersion
    BY <1>3, <1>5 DEF Served
  <2>. HIDE DEF seen
  <2>. QED BY <1>1, <1>2, <1>3, <1>5, <2>1, NoneMorePast DEF Inv, Served
<1>6. CASE Passed(f, p)
  <2>1. hits < Limit /\ hits' = hits
    BY <1>6 DEF Passed, Allowed
  <2>2. PastCounted'
    BY <1>3, <2>1, PastFinite, NextPastFinite, DashboardAssumption DEF PastCounted
  <2>. QED BY <1>1, <1>3, <1>6, <2>1, <2>2 DEF Inv, Passed
<1>7. CASE Counted(f, p)
  <2>1. hits' = hits + 1 /\ Reply(f, p, "401", 0) /\ <<f, p>> \in Past
    BY <1>7 DEF Counted, Past
  <2>2. Cardinality(Past') = Cardinality(Past) - 1
    BY <1>2, <1>3, <2>1, PastFinite, FS_RemoveElement
  <2>3. PastCounted'
    BY <1>3, <2>1, <2>2, PastFinite, DashboardAssumption DEF Inv, PastCounted
  <2>. QED BY <1>1, <1>3, <1>7, <2>1, <2>3 DEF Inv, Counted
<1>. QED BY <1>4, <1>5, <1>6, <1>7 DEF Serve

\* A function begins, or asks for the next: its requests are new ones.
LEMMA PageInv ==
  ASSUME Inv, NEW f \in Flows,
         \/ Boot(f) \/ Act(f) \/ Poll(f) \/ Rendered(f)
         \/ \E t \in Tokens : Login(f, t)
         \/ \E p \in Parts : Answer(f, p)
  PROVE  Inv'
<1>. USE DEF server, session
<1>. DEFINE PageTyped ==
              /\ token' \in Tokens \cup {NoToken}
              /\ view' \in {"blank", "booting", "login", "dashboard"}
              /\ timer' \in BOOLEAN /\ busy' \in BOOLEAN /\ page' \in 0 .. MaxVersion
<1>0. /\ polling \in BOOLEAN
      /\ \A h \in Flows : flow[h].kind = "poll" => polling
  BY DEF Inv, OnePoll
<1>1. /\ flow \in [Flows -> Flow] /\ fetch \in [Flows -> [Parts -> Fetch]]
      /\ hits \in Nat /\ secret \in Tokens /\ version \in 0 .. MaxVersion
      /\ token \in Tokens \cup {NoToken} /\ timer \in BOOLEAN /\ page \in 0 .. MaxVersion
      /\ busy \in BOOLEAN
      /\ view \in {"blank", "booting", "login", "dashboard"}
      /\ polling \in BOOLEAN
      /\ \A h \in Flows : flow[h].kind = "poll" => polling
  BY <1>0, DashboardAssumption DEF Inv, TypeOK, Flow
<1>2. ASSUME NEW w \in Flow, NEW g \in [Parts -> Fetch],
             flow' = [flow EXCEPT ![f] = w], fetch' = [fetch EXCEPT ![f] = g],
             w # Idle => \E p \in Parts : g[p].at # "none",
             \A p \in Parts : g[p].at = "past" => fetch[f][p].at = "past",
             w.kind = "poll" => flow[f].kind = "poll" \/ ~polling,
             polling' = (w.kind = "poll" \/ (polling /\ flow[f].kind # "poll")),
             UNCHANGED server, PageTyped
      PROVE  Inv'
  <2>1. Past' \subseteq Past
    <3>1. \A h \in Flows, p \in Parts : fetch'[h][p].at = "past" => fetch[h][p].at = "past"
      BY <1>1, <1>2
    <3>. QED BY <3>1 DEF Past
  <2>2. PastCounted'
    BY <1>1, <1>2, <2>1, NoneMorePast DEF Inv
  <2>. QED BY <1>1, <1>2, <2>2, OneFlow DEF Inv
<1>. HIDE DEF PageTyped
<1>3. ASSUME NEW kind \in {"boot", "login", "action", "poll"},
             NEW stage \in {"verify", "cas", "refresh"},
             NEW parts \in SUBSET Parts, parts # {}, NEW tok \in Tokens \cup {NoToken},
             Begin(f, kind, stage, parts, tok),
             kind = "poll" => ~polling,
             polling' = (kind = "poll" \/ polling),
             UNCHANGED server, PageTyped
      PROVE  Inv'
  <2>1. /\ [kind |-> kind, at |-> stage] \in Flow
        /\ [kind |-> kind, at |-> stage].kind = kind
    BY DEF Flow
  <2>2. flow[f].kind # "poll"
    BY <1>3 DEF Begin, Idle
  <2>. DEFINE w == [kind |-> kind, at |-> stage]
  <2>3. flow' = [flow EXCEPT ![f] = w] /\ fetch' = [fetch EXCEPT ![f] = Sent(parts, tok)]
    BY <1>3 DEF Begin
  <2>4. /\ Sent(parts, tok) \in [Parts -> Fetch]
        /\ \E p \in Parts : Sent(parts, tok)[p].at # "none"
        /\ \A p \in Parts : Sent(parts, tok)[p].at # "past"
    <3>1. /\ Sent(parts, tok) \in [Parts -> Fetch]
          /\ \A p \in parts : Sent(parts, tok)[p].at = "sent"
          /\ \A p \in Parts : Sent(parts, tok)[p].at # "past"
      BY FetchTyped
    <3>2. PICK p \in parts : TRUE
      BY <1>3
    <3>. QED BY <3>1, <3>2
  <2>5. w \in Flow /\ w.kind = kind
    BY <2>1
  <2>. HIDE DEF w
  <2>6. polling' = (w.kind = "poll" \/ (polling /\ flow[f].kind # "poll"))
    BY <1>1, <1>3, <2>2, <2>5
  <2>. QED BY <1>2, <1>3, <2>2, <2>3, <2>4, <2>5, <2>6
<1>4. ASSUME NEW stage \in {"verify", "cas", "refresh"},
             NEW parts \in SUBSET Parts, parts # {}, flow[f].at \in {"verify", "cas", "refresh"},
             Asks(f, stage, parts), UNCHANGED <<server, token, polling>>, PageTyped
      PROVE  Inv'
  <2>. DEFINE w == [kind |-> flow[f].kind, at |-> stage]
  <2>1. flow[f] \in [kind : {"boot", "login", "action", "poll"},
                     at : {"verify", "cas", "refresh"}]
    BY <1>1, <1>4 DEF Flow, Idle
  <2>2. /\ w = [flow[f] EXCEPT !.at = stage]
        /\ w \in Flow /\ w.kind = flow[f].kind
    BY <2>1 DEF Flow
  <2>5. flow' = [flow EXCEPT ![f] = w]
    BY <1>1, <1>4, <2>2 DEF Asks
  <2>3. fetch' = [fetch EXCEPT ![f] = Sent(parts, token)]
    BY <1>4 DEF Asks
  <2>. HIDE DEF w
  <2>6. /\ Sent(parts, token) \in [Parts -> Fetch]
        /\ \E p \in Parts : Sent(parts, token)[p].at # "none"
        /\ \A p \in Parts : Sent(parts, token)[p].at # "past"
    BY <1>1, <1>4, FetchTyped
  <2>7. w.kind = "poll" => flow[f].kind = "poll"
    BY <2>2
  <2>4. (w.kind = "poll" \/ (polling /\ flow[f].kind # "poll")) = polling
    BY <1>1, <2>2
  <2>. QED BY <1>2, <1>4, <2>2, <2>3, <2>4, <2>5, <2>6, <2>7
<1>5. ASSUME NEW taken, Ends(f, taken), PollEnds(f), UNCHANGED server, PageTyped
      PROVE  Inv'
  <2>. DEFINE g == [p \in Parts |-> IF p \in taken THEN NoFetch ELSE fetch[f][p]]
  <2>1. /\ g \in [Parts -> Fetch]
        /\ \A p \in Parts : g[p].at = "past" => fetch[f][p].at = "past"
    BY <1>1, FetchTyped
  <2>2. fetch' = [fetch EXCEPT ![f] = g] /\ flow' = [flow EXCEPT ![f] = Idle]
    BY <1>1, <1>5 DEF Ends
  <2>3. Idle \in Flow /\ Idle.kind # "poll"
    BY DEF Flow, Idle
  <2>4. polling' = (Idle.kind = "poll" \/ (polling /\ flow[f].kind # "poll"))
    BY <1>1, <1>5, <2>3 DEF PollEnds
  <2>. HIDE DEF g
  <2>. QED BY <1>2, <1>5, <2>1, <2>2, <2>3, <2>4

<1>6. Watched \in Parts /\ Parts # {} /\ {Watched} # {} /\ {Watched} \in SUBSET Parts
      /\ Parts \in SUBSET Parts
  BY DashboardAssumption DEF Watched
<1>7. NoToken \in Tokens \cup {NoToken}
  OBVIOUS
<1>8. CASE Boot(f)
  <2>1. CASE token = NoToken
    <3>1. UNCHANGED <<secret, version, hits, token, timer, polling, page, flow, fetch>>
          /\ view' = "login" /\ busy' \in BOOLEAN
      BY <1>8, <2>1 DEF Boot, ShowLogin
    <3>2. Past' = Past
      BY <3>1 DEF Past
    <3>. QED BY <1>1, <3>1, <3>2, SameFlows, NoneMorePast DEF Inv, TypeOK
  <2>2. CASE token # NoToken
    <3>1. /\ Begin(f, "boot", "verify", {Watched}, token)
          /\ view' = "booting" /\ UNCHANGED <<server, token, timer, busy, polling, page>>
      BY <1>8, <2>2 DEF Boot
    <3>. QED BY <1>1, <1>3, <1>6, <3>1 DEF PageTyped
  <2>. QED BY <2>1, <2>2
<1>9. ASSUME NEW t \in Tokens, Login(f, t) PROVE Inv'
  BY <1>1, <1>3, <1>6, <1>9 DEF Login, PageTyped
<1>10. CASE Act(f)
  BY <1>1, <1>3, <1>6, <1>10 DEF Act, PageTyped
<1>11. CASE Poll(f)
  BY <1>1, <1>3, <1>6, <1>11 DEF Poll, PageTyped
<1>12. CASE Rendered(f)
  <2>1. fetch[f][Watched].seen \in 0 .. MaxVersion
    BY <1>1, <1>6 DEF Fetch
  <2>. QED BY <1>1, <1>5, <1>12, <2>1 DEF Rendered, PageTyped
<1>13. ASSUME NEW p \in Parts, Ignored(f, p) PROVE Inv'
  <2>1. fetch' \in [Flows -> [Parts -> Fetch]] /\ UNCHANGED <<secret, version, hits, flow>>
    BY <1>1, <1>13, FetchTyped DEF Ignored
  <2>2. Past' \subseteq Past
    BY <1>1, <1>13, FetchTyped DEF Ignored, Past
  <2>3. \A h \in Flows : Waits(h)' => \E q \in Parts : fetch'[h][q].at # "none"
    <3>. SUFFICES ASSUME NEW h \in Flows, Waits(h)'
                  PROVE  \E q \in Parts : fetch'[h][q].at # "none"
      OBVIOUS
    <3>1. Waits(h) /\ h # f
      BY <1>13 DEF Ignored, Waits
    <3>2. fetch'[h] = fetch[h]
      BY <1>1, <1>13, <3>1 DEF Ignored
    <3>. QED BY <3>1, <3>2 DEF Inv, TypeOK
  <2>4. TypeOK' /\ OnePoll'
    BY <1>13, <2>1, <2>3 DEF Inv, TypeOK, OnePoll, Ignored
  <2>. QED BY <1>1, <2>1, <2>2, <2>4, NoneMorePast DEF Inv
<1>14. ASSUME NEW p \in Parts, Unauthorized(f, p) PROVE Inv'
  BY <1>1, <1>5, <1>14 DEF Unauthorized, ShowLogin, PageTyped
<1>15. ASSUME NEW p \in Parts, Verified(f, p) PROVE Inv'
  BY <1>1, <1>4, <1>6, <1>15 DEF Verified, PageTyped
<1>16. ASSUME NEW p \in Parts, GoesOn(f, p) PROVE Inv'
  BY <1>1, <1>4, <1>6, <1>16 DEF GoesOn, PageTyped
<1>17. ASSUME NEW p \in Parts, Failed(f, p) PROVE Inv'
  BY <1>1, <1>5, <1>17 DEF Failed, ShowLogin, PageTyped
<1>. QED BY <1>8, <1>9, <1>10, <1>11, <1>12, <1>13, <1>14, <1>15, <1>16, <1>17 DEF Answer

\* Every step keeps the invariant.
LEMMA NextInv == Inv /\ [Next]_vars => Inv'
<1>. SUFFICES ASSUME Inv, [Next]_vars PROVE Inv'
  OBVIOUS
<1>. USE DEF server, session
<1>1. ASSUME UNCHANGED <<flow, polling, fetch>>, secret' \in Tokens,
             version' \in 0 .. MaxVersion, hits' \in Nat, hits' <= hits,
             token' \in Tokens \cup {NoToken},
             view' \in {"blank", "booting", "login", "dashboard"},
             timer' \in BOOLEAN, busy' \in BOOLEAN, page' \in 0 .. MaxVersion
      PROVE  Inv'
  <2>1. Past' = Past
    BY <1>1 DEF Past
  <2>. QED BY <1>1, <2>1, SameFlows, NoneMorePast DEF Inv, TypeOK
<1>2. ASSUME NEW f \in Flows,
             \/ Boot(f) \/ Act(f) \/ Poll(f) \/ Rendered(f)
             \/ \E t \in Tokens : Login(f, t)
             \/ \E p \in Parts : Answer(f, p)
      PROVE  Inv'
  BY <1>2, PageInv
<1>3. ASSUME NEW f \in Flows, NEW p \in Parts, Serve(f, p) PROVE Inv'
  BY <1>3, ServeInv
<1>4. CASE Logout
  <2>1. timer' \in BOOLEAN /\ busy' \in BOOLEAN /\ view' = "login"
    BY <1>4 DEF Logout, ShowLogin
  <2>2. hits \in Nat /\ hits <= hits
    BY DEF Inv, TypeOK
  <2>. QED BY <1>1, <1>4, <2>1, <2>2 DEF Logout, Inv, TypeOK
<1>5. CASE Tick
  BY <1>1, <1>5 DEF Tick, Inv, TypeOK
<1>6. CASE Change
  BY <1>1, <1>6, DashboardAssumption DEF Change, Inv, TypeOK
<1>7. CASE Restart
  <2>1. fetch \in [Flows -> [Parts -> Fetch]]
    BY DEF Inv, TypeOK
  <2>8. Answered("error", 0) \in Fetch /\ Answered("error", 0).at = "error"
    BY FetchTyped, DashboardAssumption
  <2>9. fetch' = [f \in Flows |-> [p \in Parts |->
                   IF fetch[f][p].at \in {"sent", "past"} THEN Answered("error", 0)
                   ELSE fetch[f][p]]]
    BY <1>7 DEF Restart
  <2>2. fetch' \in [Flows -> [Parts -> Fetch]]
    BY <2>1, <2>8, <2>9
  <2>3. \A f \in Flows, p \in Parts :
          /\ fetch[f][p].at # "none" => fetch'[f][p].at # "none"
          /\ fetch'[f][p].at # "past"
    BY <2>8, <2>9
  <2>4. Past' = {}
    BY <2>3 DEF Past
  <2>5. hits' = 0 /\ hits \in Nat /\ Past' \subseteq Past
    BY <1>7, <2>4 DEF Restart, Inv, TypeOK
  <2>6. PastCounted'
    BY <2>5, NoneMorePast DEF Inv
  <2>7. TypeOK' /\ OnePoll'
    BY <1>7, <2>2, <2>3, <2>5, SameFlows DEF Restart, Inv, TypeOK
  <2>. QED BY <2>6, <2>7 DEF Inv
<1>8. CASE Edit \/ LeaveField
  <2>1. hits \in Nat /\ hits <= hits
    BY DEF Inv, TypeOK
  <2>2. busy' \in BOOLEAN
    BY <1>8 DEF Edit, LeaveField
  <2>. QED BY <1>1, <1>8, <2>1, <2>2 DEF Edit, LeaveField, Inv, TypeOK
<1>9. CASE UNCHANGED vars
  BY <1>1, <1>9 DEF vars, Inv, TypeOK
<1>. QED BY <1>2, <1>3, <1>4, <1>5, <1>6, <1>7, <1>8, <1>9 DEF Next, GoOn

-----------------------------------------------------------------------------
(* The theorems *)

\* The invariant holds of every behaviour, whatever its fairness.
THEOREM InvariantHolds == Init /\ [][Next]_vars => []Inv
BY InitInv, NextInv, PTL

\* A function that waits has something to wait for, and every request and version is
\* of its type (app.js:60-95, 138-159).
THEOREM TypeCorrect == FairSpec => []TypeOK
<1>1. Inv => TypeOK
  BY DEF Inv
<1>. QED BY <1>1, InvariantHolds, PTL DEF FairSpec

\* At most one poll waits, and none waits with the flag down nor the flag up without
\* one, whatever ends a poll (app.js:138-159).
THEOREM PollsOneAtATime == FairSpec => []OnePoll
<1>1. Inv => OnePoll
  BY DEF Inv
<1>. QED BY <1>1, InvariantHolds, PTL DEF FairSpec

\* The limiter's count passes the limit by fewer than the requests there can be at
\* a time, for every limit (middleware.go:17-26).
THEOREM LimitHolds == FairSpec => []FailuresBounded
<1>1. ASSUME Inv PROVE FailuresBounded
  BY <1>1, PastFinite, DashboardAssumption DEF Inv, TypeOK, PastCounted, FailuresBounded
<1>. QED BY <1>1, InvariantHolds, PTL DEF FairSpec
=============================================================================
