---------------------------- MODULE HealthTracker ----------------------------
(***************************************************************************)
(* The upstream health tracker (internal/health): a background prober      *)
(* samples every target in rounds, failing live requests feed it samples   *)
(* of their own, and each apply of the proxy replaces its targets.  A      *)
(* status flips only after Threshold consecutive like samples.             *)
(*                                                                         *)
(* A round works on the targets it loaded when it began, and a probe takes *)
(* time: its result may come when its target is gone, or gone and back.    *)
(* Identities are opaque (IdentityOf drops the TLS fields of an http       *)
(* upstream); of an upstream's behaviour only whether it answers is kept.  *)
(***************************************************************************)
EXTENDS Naturals, FiniteSets

CONSTANTS
  Ids,         \* identities of upstreams
  Threshold,   \* samples it takes to flip, floored to 1 by New
  None         \* no probe under way

ASSUME HealthAssumption == Threshold \in Nat \ {0} /\ None \notin Ids

VARIABLES
  alive,       \* the upstreams that answer
  live,        \* identities of live requests that failed and are not yet fed
  targets,     \* Tracker.targets
  states,      \* Tracker.states, for the identities that have one
  round,       \* targets of the round that it has still to probe
  probing,     \* the identity being probed, or None
  sample,      \* what that probe found
  fed          \* history: like samples in a row since the entry was made

world == <<alive, live>>
prober == <<round, probing, sample>>
vars == <<world, targets, states, prober, fed>>

Samples == {"up", "down"}
Status == {"unknown", "up", "down"}

\* hstate: last is "none" while haveLast is false; streak is capped at Threshold,
\* the only value it is compared with.  Once it gets there the status has followed.
HState == {e \in [status : Status, last : Samples \cup {"none"}, streak : 0 .. Threshold] :
             e.streak = Threshold => e.status = e.last}
Seed == [status |-> "unknown", last |-> "none", streak |-> 0]

Tracked == DOMAIN states

Capped(n) == IF n > Threshold THEN Threshold ELSE n

Init ==
  /\ alive \in SUBSET Ids
  /\ live = {}
  /\ targets \in SUBSET Ids
  /\ states = [i \in targets |-> Seed]
  /\ round = {} /\ probing = None /\ sample = "down"
  /\ fed = [i \in targets |-> [of |-> "none", times |-> 0]]

-----------------------------------------------------------------------------
SetTargetsReseeds(ids) ==
  /\ targets' = ids
  /\ states' = [i \in ids |-> Seed]
  /\ fed' = [i \in ids |-> IF i \in Tracked THEN fed[i] ELSE [of |-> "none", times |-> 0]]
  /\ UNCHANGED <<world, prober>>

\* Tracker.SetTargets: new identities start at unknown, kept ones keep their state,
\* the others are pruned.
SetTargets(ids) ==
  /\ targets' = ids
  /\ states' = [i \in ids |-> IF i \in Tracked THEN states[i] ELSE Seed]
  /\ fed' = [i \in ids |-> IF i \in Tracked THEN fed[i] ELSE [of |-> "none", times |-> 0]]
  /\ UNCHANGED <<world, prober>>

AppliedLate(e, s) ==
  [status |-> IF e.last = s /\ e.streak >= Threshold THEN s ELSE e.status, last |-> s,
   streak |-> Capped(IF e.last = s THEN e.streak + 1 ELSE 1)]

AppliedUnbroken(e, s) ==
  LET streak == Capped(e.streak + 1)
  IN [status |-> IF streak >= Threshold THEN s ELSE e.status, last |-> s, streak |-> streak]

\* What a sample makes of an entry.
Applied(e, s) ==
  LET streak == Capped(IF e.last = s THEN e.streak + 1 ELSE 1)
  IN [status |-> IF streak >= Threshold THEN s ELSE e.status, last |-> s, streak |-> streak]

\* The history of the samples of an identity, counted apart from its entry.
Fed(i, s) ==
  [of |-> s, times |-> Capped(IF i \in DOMAIN fed /\ fed[i].of = s THEN fed[i].times + 1 ELSE 1)]

RecordSeeds(i, s) ==
  /\ states' = [j \in Tracked \cup {i} |->
                  IF j = i THEN Applied(IF i \in Tracked THEN states[i] ELSE Seed, s) ELSE states[j]]
  /\ fed' = [j \in DOMAIN fed \cup {i} |-> IF j = i THEN Fed(i, s) ELSE fed[j]]

\* Tracker.record: one sample, ignored when the identity is not tracked.
Record(i, s) ==
  \/ /\ i \in Tracked
     /\ states' = [states EXCEPT ![i] = Applied(@, s)]
     /\ fed' = [fed EXCEPT ![i] = Fed(i, s)]
  \/ /\ i \notin Tracked
     /\ UNCHANGED <<states, fed>>

-----------------------------------------------------------------------------
(* The prober *)

\* A tick: checkOnce loads the targets.
StartRound ==
  /\ round = {} /\ probing = None
  /\ targets # {}
  /\ round' = targets
  /\ UNCHANGED <<world, targets, states, probing, sample, fed>>

\* The probe reaches its upstream, or times out.
Probe(i) ==
  /\ probing = None
  /\ i \in round
  /\ round' = round \ {i}
  /\ probing' = i
  /\ sample' = IF i \in alive THEN "up" ELSE "down"
  /\ UNCHANGED <<world, targets, states, fed>>

\* Its result is recorded.
ProbeDone ==
  /\ probing # None
  /\ Record(probing, sample)
  /\ probing' = None /\ sample' = "down"
  /\ UNCHANGED <<world, targets, round>>

-----------------------------------------------------------------------------
(* Live requests and upstreams *)

\* A proxied request of a client that stays fails, for whatever reason (an upstream that
\* answers the probes may break a request); its error handler has yet to run.  Its route
\* may be of a table older than the targets.
LiveFailure(i) ==
  /\ live' = live \cup {i}
  /\ UNCHANGED <<alive, targets, states, prober, fed>>

\* Tracker.RecordFailure
RecordFailure(i) ==
  /\ i \in live
  /\ live' = live \ {i}
  /\ Record(i, "down")
  /\ UNCHANGED <<alive, targets, prober>>

\* An upstream stops or starts answering.
Flip(i) ==
  /\ alive' = IF i \in alive THEN alive \ {i} ELSE alive \cup {i}
  /\ UNCHANGED <<live, targets, states, prober, fed>>

Next ==
  \/ \E ids \in SUBSET Ids : SetTargets(ids)
  \/ StartRound \/ ProbeDone
  \/ \E i \in Ids : Probe(i) \/ LiveFailure(i) \/ RecordFailure(i) \/ Flip(i)

Spec == Init /\ [][Next]_vars

\* The ticker fires, and every probe ends within its timeout.
FairSpec ==
  Spec /\ WF_vars(StartRound) /\ WF_vars(\E i \in Ids : Probe(i)) /\ WF_vars(ProbeDone)

-----------------------------------------------------------------------------
(* Properties *)

\* Every variable holds a value of its type.
TypeOK ==
  /\ alive \subseteq Ids /\ live \subseteq Ids /\ targets \subseteq Ids
  /\ Tracked \subseteq Ids /\ states \in [Tracked -> HState]
  /\ round \subseteq Ids /\ probing \in Ids \cup {None} /\ sample \in Samples
  /\ fed \in [Tracked -> [of : Samples \cup {"none"}, times : 0 .. Threshold]]

\* An upstream no mapping uses any more is not reported, whatever probe or live
\* failure of it is still under way (checker.go:125-131).
NoGhost == Tracked = targets

\* An entry leaves its status only for one that its last Threshold samples agree on,
\* all taken in since it was made, probes and live failures together
\* (checker.go:118-120).
FlipsOnlyOnAgreement ==
  [][\A i \in Tracked \cap DOMAIN states' :
       states'[i].status # states[i].status /\ states'[i].status # "unknown" =>
         fed'[i] = [of |-> states'[i].status, times |-> Threshold]]_vars

\* A target that stays a target, whose upstream keeps answering and fails no more live
\* requests, ends up "up": other applies do not set it back, and hysteresis settles.
UpIsReported ==
  \A i \in Ids :
    <>[](i \in targets /\ i \in alive /\ i \notin live)
      => <>[](i \in Tracked /\ states[i].status = "up")
=============================================================================
