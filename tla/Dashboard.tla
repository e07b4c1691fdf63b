------------------------------ MODULE Dashboard ------------------------------
(***************************************************************************)
(* The web page (internal/ui/assets/app.js) against the bearer check and   *)
(* its rate limiter (internal/api/middleware.go, internal/auth).           *)
(*                                                                         *)
(* The page is one thread, but its asynchronous functions (boot, login, a  *)
(* poll, a refresh after an action) wait for their requests side by side.  *)
(* A refresh sends one GET for each part of the page at once; the first    *)
(* that fails ends it, and the others are answered all the same.  A step   *)
(* of the page is what runs from one wait to the next.                     *)
(*                                                                         *)
(* The server's state is a version number, that of the part which is       *)
(* watched, any one of them; and every request comes from one address.     *)
(* Rendering is left out.                                                  *)
(***************************************************************************)
EXTENDS Naturals, FiniteSets

CONSTANTS
  Flows,        \* asynchronous functions that may wait at a time
  Parts,        \* what a refresh asks for: lbs, ports, status
  Tokens,       \* tokens the daemon or the user may have
  FirstToken,   \* that of the first daemon
  NoToken,      \* none in the session storage
  Limit,        \* auth_rate_limit_per_min
  MaxVersion,   \* bound on the changes of the server's state
  MaxRestarts   \* bound on the restarts with another token

ASSUME DashboardAssumption ==
  /\ IsFiniteSet(Flows) /\ IsFiniteSet(Parts) /\ Parts # {}
  /\ NoToken \notin Tokens /\ FirstToken \in Tokens
  /\ Limit \in Nat \ {0}
  /\ MaxVersion \in Nat /\ MaxRestarts \in Nat

VARIABLES
  secret,    \* the token of the daemon
  version,   \* of the part watched
  hits,      \* RateLimiter.hits: how many failures are within the window
  token,     \* in the session storage
  view,      \* what the page shows
  timer,     \* pollTimer is set
  busy,      \* busy(): a field has the focus, or is changed
  polling,   \* the flag of poll()
  page,      \* the version of it that is rendered
  flow,      \* what each asynchronous function is, and what it waits for
  fetch,     \* the requests of each
  restarts

server == <<secret, version, hits>>
session == <<token, view, timer, busy>>
vars == <<server, session, polling, page, flow, fetch, restarts>>

Idle == [kind |-> "none", at |-> "idle"]
Asked(tok) == [at |-> "sent", tok |-> tok, seen |-> 0]
Answered(res, seen) == [at |-> res, tok |-> NoToken, seen |-> seen]
NoFetch == Answered("none", 0)
NoFetches == [p \in Parts |-> NoFetch]

\* The part watched, and the slot of what asks for one thing only.
Watched == CHOOSE p \in Parts : TRUE

Init ==
  /\ secret = FirstToken
  /\ version = 0 /\ hits = 0
  /\ token \in Tokens \cup {NoToken}
  /\ view = "blank"
  /\ timer = FALSE /\ busy = FALSE /\ polling = FALSE
  /\ page = 0
  /\ flow = [f \in Flows |-> Idle]
  /\ fetch = [f \in Flows |-> NoFetches]
  /\ restarts = 0

-----------------------------------------------------------------------------
(* The server: authMiddleware and its rate limiter *)

\* The answer to a request, of which only a refresh looks at the state.
Reply(f, p, res, seen) ==
  fetch' = [fetch EXCEPT ![f][p] = Answered(res, seen)]

AllowedAtLimit == hits <= Limit

\* RateLimiter.Allowed, the failures older than the window already pruned.
Allowed == hits < Limit

\* 429: a request that comes while its address is blocked is not a failure itself.
Refused(f, p) ==
  /\ fetch[f][p].at = "sent" /\ ~Allowed
  /\ Reply(f, p, "error", 0)
  /\ UNCHANGED <<server, session, polling, page, flow, restarts>>

\* The token is right: the handler runs.
Served(f, p) ==
  /\ fetch[f][p].at = "sent" /\ Allowed
  /\ fetch[f][p].tok = secret
  /\ Reply(f, p, "200", IF flow[f].at = "refresh" /\ p = Watched THEN version ELSE 0)
  /\ UNCHANGED <<server, session, polling, page, flow, restarts>>

\* It is wrong, which is counted in a step of its own: other requests may have
\* passed the limit meanwhile.
Passed(f, p) ==
  /\ fetch[f][p].at = "sent" /\ Allowed
  /\ fetch[f][p].tok # secret
  /\ Reply(f, p, "past", 0)
  /\ UNCHANGED <<server, session, polling, page, flow, restarts>>

\* RecordFailure, and 401.
Counted(f, p) ==
  /\ fetch[f][p].at = "past"
  /\ Reply(f, p, "401", 0)
  /\ hits' = hits + 1
  /\ UNCHANGED <<secret, version, session, polling, page, flow, restarts>>

\* Time passes: the oldest failure leaves the window, and Allowed prunes it.
Tick ==
  /\ hits > 0
  /\ hits' = hits - 1
  /\ UNCHANGED <<secret, version, session, polling, page, flow, fetch, restarts>>

\* A mutation changes the state, of this page or of another caller.
Change ==
  /\ version < MaxVersion
  /\ version' = version + 1
  /\ UNCHANGED <<secret, hits, session, polling, page, flow, fetch, restarts>>

\* The daemon restarts with another token and an empty limiter, and the requests it
\* had are lost: fetch() rejects.
Restart ==
  /\ restarts < MaxRestarts
  /\ restarts' = restarts + 1
  /\ secret' \in Tokens \ {secret}
  /\ hits' = 0
  /\ fetch' = [f \in Flows |-> [p \in Parts |->
       IF fetch[f][p].at \in {"sent", "past"} THEN Answered("error", 0)
       ELSE fetch[f][p]]]
  /\ UNCHANGED <<version, session, polling, page, flow>>

-----------------------------------------------------------------------------
(* The page: what starts an asynchronous function *)

\* api(): a request for each of the parts, with the token of this moment.
Sent(parts, tok) ==
  [p \in Parts |-> IF p \in parts THEN Asked(tok) ELSE NoFetch]

Begin(f, kind, stage, parts, tok) ==
  /\ flow[f] = Idle /\ fetch[f] = NoFetches
  /\ flow' = [flow EXCEPT ![f] = [kind |-> kind, at |-> stage]]
  /\ fetch' = [fetch EXCEPT ![f] = Sent(parts, tok)]

\* showLogin focuses the field of the token.
ShowLogin == view' = "login" /\ busy' = TRUE

\* boot: a stored token is verified.
Boot(f) ==
  /\ view = "blank"
  /\ IF token = NoToken
       THEN ShowLogin /\ UNCHANGED <<flow, fetch>>
       ELSE view' = "booting" /\ UNCHANGED busy /\ Begin(f, "boot", "verify", {Watched}, token)
  /\ UNCHANGED <<server, token, timer, polling, page, restarts>>

\* onLogin
Login(f, t) ==
  /\ view = "login"
  /\ token' = t
  /\ Begin(f, "login", "verify", {Watched}, t)
  /\ UNCHANGED <<server, view, timer, busy, polling, page, restarts>>

\* The refresh of the button, or after a mutation.
Act(f) ==
  /\ view = "dashboard"
  /\ Begin(f, "action", "refresh", Parts, token)
  /\ UNCHANGED <<server, session, polling, page, restarts>>

\* poll, at a tick of the timer: one that comes while a field is busy is skipped, in
\* the login view as well.
Poll(f) ==
  /\ timer /\ ~polling /\ ~busy
  /\ polling' = TRUE
  /\ Begin(f, "poll", "refresh", Parts, token)
  /\ UNCHANGED <<server, session, page, restarts>>

\* onLogout: what waits goes on waiting.
Logout ==
  /\ view = "dashboard"
  /\ token' = NoToken /\ timer' = FALSE /\ ShowLogin
  /\ UNCHANGED <<server, polling, page, flow, fetch, restarts>>

\* The user, or a panel that opens, puts the focus into a field, or changes one ...
Edit ==
  /\ view \in {"login", "dashboard"} /\ ~busy
  /\ busy' = TRUE
  /\ UNCHANGED <<server, token, view, timer, polling, page, flow, fetch, restarts>>

\* ... and leaves it as it was, or it goes with its view.
LeaveField ==
  /\ busy
  /\ busy' = FALSE
  /\ UNCHANGED <<server, token, view, timer, polling, page, flow, fetch, restarts>>

-----------------------------------------------------------------------------
(* The page: an answer *)

Waits(f) == flow[f] # Idle

EndsSilently(f, taken) ==
  /\ UNCHANGED flow
  /\ fetch' = [fetch EXCEPT ![f] = [p \in Parts |-> IF p \in taken THEN NoFetch ELSE @[p]]]

\* The function ends; requests of it that are not answered stay.
Ends(f, taken) ==
  /\ flow' = [flow EXCEPT ![f] = Idle]
  /\ fetch' = [fetch EXCEPT ![f] = [p \in Parts |-> IF p \in taken THEN NoFetch ELSE @[p]]]

\* It goes on to ask for the next.
Asks(f, stage, parts) ==
  /\ flow' = [flow EXCEPT ![f].at = stage]
  /\ fetch' = [fetch EXCEPT ![f] = Sent(parts, token)]

\* Has the flag reset only when the refresh succeeds.
PollEndsOnSuccess(f) ==
  polling' = (polling /\ (flow[f].kind # "poll"
                          \/ \E p \in Parts : fetch[f][p].at \in {"401", "error"}))

\* The `finally` of poll().
PollEnds(f) == polling' = (polling /\ flow[f].kind # "poll")

\* An answer to a function that has ended already.
Ignored(f, p) ==
  /\ ~Waits(f)
  /\ fetch[f][p].at \in {"200", "error"}
  /\ fetch' = [fetch EXCEPT ![f][p] = NoFetch]
  /\ UNCHANGED <<server, session, polling, page, flow, restarts>>

\* handleUnauthorized, whoever asked and whatever has happened since: the session
\* ends, and with it the function.
Unauthorized(f, p) ==
  /\ fetch[f][p].at = "401"
  /\ token' = NoToken /\ timer' = FALSE /\ ShowLogin
  /\ Ends(f, {p}) /\ PollEnds(f)
  /\ UNCHANGED <<server, page, restarts>>

\* startDashboard
Verified(f, p) ==
  /\ flow[f].at = "verify" /\ fetch[f][p].at = "200"
  /\ view' = "dashboard"
  /\ Asks(f, "cas", {Watched})
  /\ UNCHANGED <<server, token, timer, busy, polling, page, restarts>>

\* The CA names are there, or fail to load: refresh.
GoesOn(f, p) ==
  /\ flow[f].at = "cas" /\ fetch[f][p].at \in {"200", "error"}
  /\ Asks(f, "refresh", Parts)
  /\ UNCHANGED <<server, session, polling, page, restarts>>

\* startDashboard starts to poll after its refresh, also when that failed, and
\* wherever the page is by then.
Started(f) == flow[f].kind \in {"boot", "login"} /\ flow[f].at = "refresh"

\* All parts are there: the page is rendered.
Rendered(f) ==
  /\ flow[f].at = "refresh" /\ \A p \in Parts : fetch[f][p].at = "200"
  /\ page' = fetch[f][Watched].seen
  /\ timer' = (timer \/ Started(f))
  /\ Ends(f, Parts) /\ PollEnds(f)
  /\ UNCHANGED <<server, token, view, busy, restarts>>

FailedNotStarted(f, p) ==
  /\ flow[f].at \in {"verify", "refresh"} /\ fetch[f][p].at = "error"
  /\ IF flow[f].kind = "boot" /\ flow[f].at = "verify" THEN ShowLogin ELSE UNCHANGED <<view, busy>>
  /\ Ends(f, {p}) /\ PollEnds(f)
  /\ UNCHANGED <<server, token, timer, page, restarts>>

\* Any error but a 401 is shown, or ends a boot at the login view.
Failed(f, p) ==
  /\ flow[f].at \in {"verify", "refresh"} /\ fetch[f][p].at = "error"
  /\ IF flow[f].kind = "boot" /\ flow[f].at = "verify" THEN ShowLogin ELSE UNCHANGED <<view, busy>>
  /\ timer' = (timer \/ Started(f))
  /\ Ends(f, {p}) /\ PollEnds(f)
  /\ UNCHANGED <<server, token, page, restarts>>

Answer(f, p) ==
  Ignored(f, p) \/ Unauthorized(f, p) \/ Verified(f, p) \/ GoesOn(f, p)
    \/ Failed(f, p)

Serve(f, p) == Refused(f, p) \/ Served(f, p) \/ Passed(f, p) \/ Counted(f, p)

\* What goes on of itself for a function, or is left of one.
GoOn(f) == Rendered(f) \/ \E p \in Parts : Serve(f, p) \/ Answer(f, p)

Next ==
  \/ \E f \in Flows :
       Boot(f) \/ Act(f) \/ Poll(f) \/ (\E t \in Tokens : Login(f, t)) \/ GoOn(f)
  \/ Logout \/ Edit \/ LeaveField \/ Tick \/ Change \/ Restart

\* Requests are served and their answers taken, time passes, and the timer fires when no
\* field is busy.  Nothing is assumed of the user: what is needed of him the properties
\* say.
FairSpec ==
  /\ Init /\ [][Next]_vars
  /\ \A f \in Flows : WF_vars(GoOn(f))
  /\ WF_vars(Tick)
  /\ SF_vars(\E f \in Flows : Poll(f))

-----------------------------------------------------------------------------
(* Properties *)

Fetch == [at : {"none", "sent", "past", "200", "401", "error"},
          tok : Tokens \cup {NoToken}, seen : 0 .. MaxVersion]

\* Every variable holds a value of its type; a function that waits has something
\* to wait for.
TypeOK ==
  /\ secret \in Tokens /\ version \in 0 .. MaxVersion
  /\ hits \in Nat
  /\ token \in Tokens \cup {NoToken}
  /\ view \in {"blank", "booting", "login", "dashboard"}
  /\ timer \in BOOLEAN /\ busy \in BOOLEAN /\ page \in 0 .. MaxVersion
  /\ flow \in [Flows -> {Idle} \cup [kind : {"boot", "login", "action", "poll"},
                                     at : {"verify", "cas", "refresh"}]]
  /\ fetch \in [Flows -> [Parts -> Fetch]]
  /\ \A f \in Flows :
       Waits(f) => \E p \in Parts : fetch[f][p].at # "none"

\* At most one poll waits, and the flag that sees to it is down when none does: no
\* way out of a poll leaves the page without polls (app.js:142-145).
OnePoll ==
  LET polls == {f \in Flows : flow[f].kind = "poll"} IN
  /\ \A f, g \in polls : f = g
  /\ polling = (polls # {})

\* The count may pass the limit, since it is checked and counted apart, but only by
\* the requests that can be between the two (middleware.go:17-26).
FailuresBounded == hits < Limit + Cardinality(Flows \X Parts)

\* A page that polls with a token the daemon does not accept, since another daemon
\* runs or a logout came in the middle of a login, stops, if only the user leaves the
\* fields alone at last: the login view itself puts the focus into one, and until that
\* moves the timer stays (app.js:63-68, 79-84, 110-113, 135-146, 492-548).
StalePollingEnds == <>[]~busy => []<>(timer => token = secret)

\* However refreshes overtake each other, a page left at the dashboard with a valid
\* session and no field busy ends up showing the server's state (app.js:110-159).
PageCatchesUp ==
  <>[](view = "dashboard" /\ token = secret /\ ~busy) => <>[](page = version)
=============================================================================
