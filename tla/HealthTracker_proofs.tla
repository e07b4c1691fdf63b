------------------------- MODULE HealthTracker_proofs -------------------------
(***************************************************************************)
(* Proofs about the health tracker, for any upstreams and any threshold.   *)
(***************************************************************************)
EXTENDS HealthTracker, TLAPS

\* The entry of a target counts what the history counts.
CountsSamples ==
  \A i \in Tracked : fed[i] = [of |-> states[i].last, times |-> states[i].streak]

Inv == TypeOK /\ NoGhost /\ CountsSamples

\* The cap keeps a count in its range.
LEMMA CappedInRange == \A n \in Nat : Capped(n) \in 0 .. Threshold
BY HealthAssumption DEF Capped

\* A new entry is one of the type.
LEMMA SeedTyped == Seed \in HState
BY HealthAssumption DEF Seed, HState, Status, Samples

\* A sample makes an entry of the type, whose last sample is that one; it leaves
\* the status only when the streak has reached the threshold.
LEMMA AppliedTyped ==
  ASSUME NEW e \in HState, NEW s \in Samples
  PROVE  /\ Applied(e, s) \in HState
         /\ Applied(e, s).last = s
         /\ Applied(e, s).streak = Capped(IF e.last = s THEN e.streak + 1 ELSE 1)
         /\ Applied(e, s).status # e.status =>
              Applied(e, s).status = s /\ Applied(e, s).streak = Threshold
<1>. DEFINE n == IF e.last = s THEN e.streak + 1 ELSE 1
            k == Capped(n)
<1>1. n \in Nat
  BY DEF HState
<1>2. k \in 0 .. Threshold
  BY <1>1, CappedInRange
<1>3. Applied(e, s) = [status |-> IF k >= Threshold THEN s ELSE e.status, last |-> s,
                       streak |-> k]
  BY DEF Applied
<1>4. k >= Threshold => k = Threshold
  BY <1>2, HealthAssumption
<1>. HIDE DEF n, k
<1>5. e.status \in Status /\ s \in Status
  BY DEF HState, Status, Samples
<1>6. Applied(e, s) \in HState
  BY <1>2, <1>3, <1>4, <1>5, HealthAssumption DEF HState
<1>7. Applied(e, s).status # e.status => k = Threshold /\ Applied(e, s).status = s
  BY <1>3, <1>4
<1>. QED BY <1>3, <1>6, <1>7 DEF n, k

\* The invariant holds when the tracker has its first targets.
LEMMA InitInv == Init => Inv
<1>. SUFFICES ASSUME Init PROVE Inv
  OBVIOUS
<1>. USE DEF Init
<1>1. Tracked = targets /\ targets \subseteq Ids
  BY DEF Tracked
<1>2. states \in [Tracked -> HState]
  BY <1>1, SeedTyped
<1>3. fed \in [Tracked -> [of : Samples \cup {"none"}, times : 0 .. Threshold]]
  BY <1>1, HealthAssumption
<1>4. TypeOK
  BY <1>1, <1>2, <1>3 DEF TypeOK, Samples
<1>5. CountsSamples
  BY <1>1 DEF CountsSamples, Seed
<1>. QED BY <1>1, <1>4, <1>5 DEF Inv, NoGhost

\* New targets keep the entries and the history of those that were targets, and
\* start the others afresh.
LEMMA SetTargetsInv ==
  ASSUME Inv, NEW ids \in SUBSET Ids, SetTargets(ids)
  PROVE  Inv'
<1>. USE DEF SetTargets, world, prober
<1>1. Tracked' = ids /\ targets' = ids
  BY DEF Tracked
<1>2. states' \in [ids -> HState]
  BY SeedTyped DEF Inv, TypeOK
<1>3. fed' \in [ids -> [of : Samples \cup {"none"}, times : 0 .. Threshold]]
  BY HealthAssumption DEF Inv, TypeOK
<1>4. \A i \in ids : fed'[i] = [of |-> states'[i].last, times |-> states'[i].streak]
  BY DEF Inv, CountsSamples, Seed
<1>. QED BY <1>1, <1>2, <1>3, <1>4 DEF Inv, TypeOK, NoGhost, CountsSamples

\* One sample, of a target or of an identity that is one no more, keeps the entries
\* typed and in step with the history.
LEMMA RecordInv ==
  ASSUME Inv, NEW i \in Ids, NEW s \in Samples, Record(i, s)
  PROVE  /\ Tracked' = Tracked
         /\ states' \in [Tracked -> HState]
         /\ fed' \in [Tracked -> [of : Samples \cup {"none"}, times : 0 .. Threshold]]
         /\ CountsSamples'
<1>1. CASE i \notin Tracked /\ UNCHANGED <<states, fed>>
  BY <1>1 DEF Inv, TypeOK, Tracked, CountsSamples
<1>2. CASE /\ i \in Tracked
           /\ states' = [states EXCEPT ![i] = Applied(@, s)]
           /\ fed' = [fed EXCEPT ![i] = Fed(i, s)]
  <2>1. states \in [Tracked -> HState] /\ states[i] \in HState
    BY <1>2 DEF Inv, TypeOK
  <2>2. Applied(states[i], s) \in HState
    BY <2>1, AppliedTyped
  <2>3. states' \in [Tracked -> HState] /\ Tracked' = Tracked
    BY <1>2, <2>1, <2>2 DEF Tracked
  <2>4. fed \in [Tracked -> [of : Samples \cup {"none"}, times : 0 .. Threshold]]
    BY DEF Inv, TypeOK
  <2>5. fed[i] = [of |-> states[i].last, times |-> states[i].streak]
    BY <1>2 DEF Inv, CountsSamples
  <2>6. Fed(i, s) = [of |-> Applied(states[i], s).last, times |-> Applied(states[i], s).streak]
    BY <1>2, <2>1, <2>4, <2>5, AppliedTyped DEF Fed
  <2>7. Fed(i, s) \in [of : Samples \cup {"none"}, times : 0 .. Threshold]
    <3>1. Applied(states[i], s).last \in Samples \cup {"none"}
      BY <2>2 DEF HState
    <3>2. Applied(states[i], s).streak \in 0 .. Threshold
      BY <2>2 DEF HState
    <3>. QED BY <2>6, <3>1, <3>2
  <2>8. fed' \in [Tracked -> [of : Samples \cup {"none"}, times : 0 .. Threshold]]
    BY <1>2, <2>4, <2>7
  <2>9. CountsSamples'
    BY <1>2, <2>1, <2>3, <2>4, <2>6 DEF Inv, CountsSamples
  <2>. QED BY <2>3, <2>8, <2>9
<1>. QED BY <1>1, <1>2 DEF Record

\* Every step keeps the invariant.
LEMMA NextInv == Inv /\ [Next]_vars => Inv'
<1>. SUFFICES ASSUME Inv, [Next]_vars PROVE Inv'
  OBVIOUS
<1>. USE DEF world, prober
<1>1. ASSUME NEW ids \in SUBSET Ids, SetTargets(ids) PROVE Inv'
  BY <1>1, SetTargetsInv
<1>2. CASE ProbeDone
  <2>1. probing \in Ids /\ sample \in Samples /\ Record(probing, sample)
    BY <1>2 DEF ProbeDone, Inv, TypeOK
  <2>2. /\ Tracked' = Tracked
        /\ states' \in [Tracked -> HState]
        /\ fed' \in [Tracked -> [of : Samples \cup {"none"}, times : 0 .. Threshold]]
        /\ CountsSamples'
    BY <2>1, RecordInv
  <2>3. UNCHANGED <<alive, live, targets, round>> /\ probing' = None /\ sample' = "down"
    BY <1>2 DEF ProbeDone
  <2>. QED BY <2>2, <2>3 DEF Inv, TypeOK, NoGhost, Samples
<1>3. ASSUME NEW i \in Ids, RecordFailure(i) PROVE Inv'
  <2>1. Record(i, "down") /\ "down" \in Samples
    BY <1>3 DEF RecordFailure, Samples
  <2>2. /\ Tracked' = Tracked
        /\ states' \in [Tracked -> HState]
        /\ fed' \in [Tracked -> [of : Samples \cup {"none"}, times : 0 .. Threshold]]
        /\ CountsSamples'
    BY <2>1, RecordInv
  <2>3. live' = live \ {i} /\ UNCHANGED <<alive, targets, round, probing, sample>>
    BY <1>3 DEF RecordFailure
  <2>. QED BY <2>2, <2>3 DEF Inv, TypeOK, NoGhost
<1>4. ASSUME UNCHANGED <<targets, states, fed>>,
             alive' \subseteq Ids, live' \subseteq Ids, round' \subseteq Ids,
             probing' \in Ids \cup {None}, sample' \in Samples
      PROVE  Inv'
  BY <1>4 DEF Inv, TypeOK, NoGhost, CountsSamples, Tracked
<1>5. CASE StartRound
  BY <1>4, <1>5 DEF StartRound, Inv, TypeOK
<1>6. ASSUME NEW i \in Ids, Probe(i) PROVE Inv'
  BY <1>4, <1>6 DEF Probe, Inv, TypeOK, Samples
<1>7. ASSUME NEW i \in Ids, LiveFailure(i) PROVE Inv'
  BY <1>4, <1>7 DEF LiveFailure, Inv, TypeOK
<1>8. ASSUME NEW i \in Ids, Flip(i) PROVE Inv'
  BY <1>4, <1>8 DEF Flip, Inv, TypeOK
<1>9. CASE UNCHANGED vars
  BY <1>4, <1>9 DEF vars, Inv, TypeOK
<1>. QED BY <1>1, <1>2, <1>3, <1>5, <1>6, <1>7, <1>8, <1>9 DEF Next

\* The invariant holds of every behaviour.
THEOREM InvariantHolds == Spec => []Inv
<1>. QED BY InitInv, NextInv, PTL DEF Spec

\* The tracker keeps one entry of the right form for each target, and what it is fed
\* never takes a streak past the threshold (tracker.go:45-70, 105-119).
THEOREM TypeCorrect == Spec => []TypeOK
<1>1. Inv => TypeOK
  BY DEF Inv
<1>. QED BY <1>1, InvariantHolds, PTL

\* An identity no mapping uses is not reported, whatever is still under way.
THEOREM NoGhosts == Spec => []NoGhost
<1>1. Inv => NoGhost
  BY DEF Inv
<1>. QED BY <1>1, InvariantHolds, PTL

\* A status flips only when the last Threshold samples agree on the new one.
THEOREM FlipsAgree == Spec => FlipsOnlyOnAgreement
<1>1. ASSUME Inv, Inv', [Next]_vars
      PROVE  [\A i \in Tracked \cap DOMAIN states' :
                states'[i].status # states[i].status /\ states'[i].status # "unknown" =>
                  fed'[i] = [of |-> states'[i].status, times |-> Threshold]]_vars
  <2>. SUFFICES ASSUME NEW i \in Tracked \cap DOMAIN states',
                       states'[i].status # states[i].status, states'[i].status # "unknown"
                PROVE  fed'[i] = [of |-> states'[i].status, times |-> Threshold]
    OBVIOUS
  <2>. USE <1>1 DEF world, prober
  <2>0. /\ i \in Tracked /\ i \in Tracked'
        /\ states \in [Tracked -> HState]
    BY DEF Tracked, Inv, TypeOK
  <2>1. ASSUME NEW j \in Ids, NEW s \in Samples, Record(j, s)
        PROVE  states'[i].status = states'[i].last /\ states'[i].streak = Threshold
    <3>1. i = j /\ states'[i] = Applied(states[i], s)
      BY <2>0, <2>1 DEF Record
    <3>2. states[i] \in HState
      BY <2>0
    <3>. QED BY <2>1, <3>1, <3>2, AppliedTyped
  <2>2. states'[i].status = states'[i].last /\ states'[i].streak = Threshold
    <3>1. CASE \E ids \in SUBSET Ids : SetTargets(ids)
      BY <2>0, <3>1 DEF SetTargets, Tracked
    <3>2. CASE ProbeDone
      BY <2>1, <3>2 DEF ProbeDone, Inv, TypeOK
    <3>3. CASE \E j \in Ids : RecordFailure(j)
      BY <2>1, <3>3 DEF RecordFailure, Samples
    <3>4. CASE UNCHANGED states
      BY <3>4
    <3>. QED BY <3>1, <3>2, <3>3, <3>4
           DEF Next, StartRound, Probe, LiveFailure, Flip, vars
  <2>3. fed'[i] = [of |-> states'[i].last, times |-> states'[i].streak]
    BY <2>0 DEF Inv, CountsSamples
  <2>. QED BY <2>2, <2>3
<1>. QED BY <1>1, InvariantHolds, PTL DEF Spec, FlipsOnlyOnAgreement
=============================================================================
