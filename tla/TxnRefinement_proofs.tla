------------------------- MODULE TxnRefinement_proofs -------------------------
(***************************************************************************)
(* Proof that the transaction manager, with its lock, its disk and its     *)
(* crashes, implements the atomic service of MutationService.              *)
(***************************************************************************)
EXTENDS TxnManager_proofs

-----------------------------------------------------------------------------
(* The service uses the same operators *)

\* What a mutation may make of a state, and which requests are malformed.
LEMMA SameOperators ==
  /\ \A s, r : Abstract!Edits(s, r) = Edits(s, r)
  /\ \A s : Abstract!StoreValid(s) = StoreValid(s)
  /\ \A r : Abstract!Malformed(r) = Malformed(r)
  /\ Abstract!State = State /\ Abstract!NoRequest = NoRequest
<1>1. \A s : Abstract!StoreValid(s) = StoreValid(s)
  BY DEF Abstract!StoreValid, StoreValid, Abstract!UniqueKeys, UniqueKeys, Abstract!OneTLSMode,
    OneTLSMode, Abstract!NoDanglingReference, NoDanglingReference, Abstract!Referenced,
    Referenced
<1>2. \A r : Abstract!Malformed(r) = Malformed(r)
  BY DEF Abstract!Malformed, Malformed
<1>3. Abstract!State = State /\ Abstract!NoRequest = NoRequest
  BY DEF Abstract!State, State, Abstract!NoRequest, NoRequest, Abstract!LoadBalancer,
    LoadBalancer, Abstract!Mapping, Mapping, Abstract!PortAllocation, PortAllocation,
    Abstract!Upstream, Upstream
<1>4. \A s : Abstract!Reconcile(s) = Reconcile(s)
  BY DEF Abstract!Reconcile, Reconcile, Abstract!Referenced, Referenced
<1>5. \A s, r : Abstract!CreateLB(s, r) = CreateLB(s, r)
    BY DEF Abstract!CreateLB, CreateLB, Abstract!Accept, Accept, Abstract!Reject, Reject,
     Abstract!LBNames, LBNames
<1>6. \A s, r : Abstract!UpdateLBLabel(s, r) = UpdateLBLabel(s, r)
    BY DEF Abstract!UpdateLBLabel, UpdateLBLabel, Abstract!Accept, Accept, Abstract!Reject,
     Reject, Abstract!LBNames, LBNames
<1>7. \A s, r : Abstract!DeleteLB(s, r) = DeleteLB(s, r)
    BY DEF Abstract!DeleteLB, DeleteLB, Abstract!Accept, Accept, Abstract!Reject, Reject,
     Abstract!LBNames, LBNames, Abstract!Reconcile, Reconcile, Abstract!Referenced, Referenced
<1>8. \A s, r : Abstract!PutMapping(s, r) = PutMapping(s, r)
    BY DEF Abstract!PutMapping, PutMapping, Abstract!Accept, Accept, Abstract!Reject, Reject,
     Abstract!LBNames, LBNames, Abstract!Reconcile, Reconcile, Abstract!Referenced,
     Referenced, Abstract!HasMapping, HasMapping, Abstract!Stored, Stored,
     Abstract!NewMapping, NewMapping, Abstract!Localhost, Localhost, Abstract!Allocate,
     Allocate, Abstract!FreePorts, FreePorts, Abstract!Lowest, Lowest, Abstract!Pool, Pool
<1>9. \A s, r : Abstract!DeleteMapping(s, r) = DeleteMapping(s, r)
    BY DEF Abstract!DeleteMapping, DeleteMapping, Abstract!Accept, Accept, Abstract!Reject,
     Reject, Abstract!LBNames, LBNames, Abstract!Reconcile, Reconcile, Abstract!Referenced,
     Referenced, Abstract!HasMapping, HasMapping
<1>10. \A s, r : Abstract!AllocatePort(s, r) = AllocatePort(s, r)
    BY DEF Abstract!AllocatePort, AllocatePort, Abstract!Accept, Accept, Abstract!Reject,
     Reject, Abstract!Allocate, Allocate, Abstract!FreePorts, FreePorts, Abstract!Lowest,
     Lowest, Abstract!Pool, Pool
<1>11. \A s, r : Abstract!ReturnPort(s, r) = ReturnPort(s, r)
    BY DEF Abstract!ReturnPort, ReturnPort, Abstract!Accept, Accept, Abstract!Reject, Reject,
     Abstract!Referenced, Referenced
<1>12. \A s, r : Abstract!Edits(s, r) = Edits(s, r)
  BY <1>5, <1>6, <1>7, <1>8, <1>9, <1>10, <1>11 DEF Abstract!Edits, Edits
<1> QED
  BY <1>1, <1>2, <1>3, <1>12

-----------------------------------------------------------------------------
(* What the mapping relies on, beside the invariant of TxnManager_proofs *)

\* A caller has a request exactly while it is served, and an answer once it has.
CallsInStep ==
  \A c \in Callers :
    /\ pc[c] = "idle" <=> req[c] = NoRequest
    /\ pc[c] = "reply" <=> resp[c] # "none"

\* Until it is published, a candidate is what the request makes of the snapshot: a
\* crash or a failed save takes nothing from it, and no other mutation slips in.
CandidateIsEdit ==
  \A c \in Callers : pc[c] \in {"check", "rename", "syncdir", "publish"} =>
    \E o \in Edits(snap, req[c]) : o.err = "none" /\ o.st = cand[c]

\* What a read of the state file returns may survive.
FileSurvives == file \in survivors

Inv3 == CallsInStep /\ CandidateIsEdit /\ FileSurvives

\* No request is the absence of one.
LEMMA NothingAsked == NoRequest \notin Requests /\ "none" \in Answers
BY InputAssumption DEF NoRequest, Request, CreateLBRequest, UpdateLBRequest, DeleteLBRequest,
   PutMappingRequest, DeleteMappingRequest, AllocatePortRequest, ReturnPortRequest, Answers

\* The third invariant holds before the first start.
LEMMA InitInv3 == Init => Inv3
BY DEF Init, Inv3, CallsInStep, CandidateIsEdit, FileSurvives

\* Steps of the daemon and of its surroundings.
LEMMA DaemonInv3 ==
  ASSUME Inv, Inv3,
         Start \/ StartRepaired \/ StartFails \/ Crash \/ Outside \/ UNCHANGED vars
  PROVE  Inv3'
<1>1. FileSurvives'
  BY DEF Inv3, FileSurvives, Start, StartRepaired, StartFails, Crash, Outside, ReloadCerts,
     MainRead, MainApply, ChangeCAs, vars, disk
<1>2. CASE Crash
  BY <1>1, <1>2 DEF Crash, Inv3, CallsInStep, CandidateIsEdit
<1>3. CASE Start \/ StartRepaired \/ StartFails
  <2>1. (\A c \in Callers : pc[c] = "idle") /\ UNCHANGED <<pc, req, resp, cand>>
    BY <1>3 DEF Start, StartRepaired, StartFails, Inv, DownIsIdle
  <2> QED
    BY <1>1, <2>1 DEF Inv3, CallsInStep, CandidateIsEdit
<1>4. CASE Outside \/ UNCHANGED vars
  <2>1. UNCHANGED <<snap, pc, req, resp, cand>>
    BY <1>4 DEF Outside, ReloadCerts, MainRead, MainApply, ChangeCAs, vars
  <2> QED
    BY <1>1, <2>1 DEF Inv3, CallsInStep, CandidateIsEdit
<1> QED
  BY <1>2, <1>3, <1>4

\* A call is answered at once, or waits for the lock.
LEMMA CallInv3 ==
  ASSUME Inv, Inv3, NEW c \in Callers, NEW r \in Requests, Call(c, r)
  PROVE  Inv3'
<1>1. /\ pc[c] = "idle" /\ pc'[c] \in {"reply", "lock"}
      /\ req'[c] = r /\ r # NoRequest
      /\ pc'[c] = "reply" => resp'[c] = "invalid_hostname"
      /\ pc'[c] = "lock" => resp'[c] = resp[c]
      /\ \A d \in Callers \ {c} : pc'[d] = pc[d] /\ req'[d] = req[d] /\ resp'[d] = resp[d]
      /\ UNCHANGED <<snap, disk, cand>>
  BY NothingAsked DEF Call, Inv, TypeOK
<1> QED
  BY <1>1 DEF Inv3, CallsInStep, CandidateIsEdit, FileSurvives, disk

\* A mutation that is refused, fails or has been applied is answered.
LEMMA FinishInv3 ==
  ASSUME Inv, Inv3, NEW c \in Callers, NEW a, NEW answer \in Answers \ {"none"},
         a # "idle", Finish(c, a, answer), UNCHANGED <<snap, disk>>
  PROVE  Inv3'
<1>1. /\ pc[c] = a /\ pc'[c] = "reply" /\ resp'[c] = answer
      /\ \A d \in Callers \ {c} : pc'[d] = pc[d] /\ resp'[d] = resp[d] /\ cand'[d] = cand[d]
      /\ UNCHANGED req
  BY DEF Finish, Goto, Inv, TypeOK
<1> QED
  BY <1>1 DEF Inv3, CallsInStep, CandidateIsEdit, FileSurvives, disk

\* A candidate is made of the snapshot that is published.
LEMMA BeginInv3 ==
  ASSUME Inv, Inv3, NEW c \in Callers, Begin(c)
  PROVE  Inv3'
<1>1. pc[c] = "lock" /\ running /\ UNCHANGED <<snap, disk>>
  BY DEF Begin, Edit, Finish, Goto
<1>2. PICK o \in Edits(snap, req[c]) :
        \/ o.err # "none" /\ Finish(c, "lock", o.err)
        \/ /\ o.err = "none" /\ Goto(c, "lock", "check")
           /\ cand' = [cand EXCEPT ![c] = o.st] /\ UNCHANGED <<req, resp>>
  BY DEF Begin, Edit
<1>3. CASE o.err # "none" /\ Finish(c, "lock", o.err)
  <2>1. /\ snap \in State /\ Sound(snap)
        /\ req[c] \in Requests /\ ~Malformed(req[c])
    BY <1>1 DEF Inv, TypeOK, PublishedSound, RequestsWellFormed
  <2>2. o.err \in Answers
    BY <2>1, EditsWired
  <2> QED
    BY <1>1, <1>3, <2>2, FinishInv3
<1>4. CASE o.err = "none" /\ Goto(c, "lock", "check")
           /\ cand' = [cand EXCEPT ![c] = o.st] /\ UNCHANGED <<req, resp>>
  <2>1. /\ pc'[c] = "check" /\ cand'[c] = o.st
        /\ \A d \in Callers \ {c} : pc'[d] = pc[d] /\ cand'[d] = cand[d]
    BY <1>4 DEF Goto, Inv, TypeOK
  <2>2. CallsInStep' /\ FileSurvives'
    BY <1>1, <1>4, <2>1 DEF Inv3, CallsInStep, FileSurvives, disk
  <2>3. CandidateIsEdit'
    BY <1>1, <1>4, <2>1 DEF Inv3, CandidateIsEdit
  <2> QED
    BY <2>2, <2>3 DEF Inv3
<1> QED
  BY <1>2, <1>3, <1>4

\* From one step under the lock to the next.
LEMMA GotoInv3 ==
  ASSUME Inv, Inv3, NEW c \in Callers, NEW a, NEW b,
         <<a, b>> \in {<<"check", "rename">>, <<"rename", "syncdir">>,
                       <<"syncdir", "publish">>, <<"publish", "apply">>},
         Goto(c, a, b), UNCHANGED <<cand, req, resp>>,
         UNCHANGED snap \/ a = "publish", FileSurvives'
  PROVE  Inv3'
<1>1. pc[c] = a /\ pc'[c] = b /\ \A d \in Callers \ {c} : pc'[d] = pc[d]
  BY DEF Goto, Inv, TypeOK
<1>2. CallsInStep'
  BY <1>1 DEF Inv3, CallsInStep
<1>3. \A d \in Callers \ {c} : ~Critical(d)
  BY <1>1 DEF Inv, Serialized, Critical
<1>4. CandidateIsEdit'
  BY <1>1, <1>3 DEF Inv3, CandidateIsEdit, Critical
<1> QED
  BY <1>2, <1>4 DEF Inv3

\* Every step of a mutation keeps the third invariant.
LEMMA StepInv3 ==
  ASSUME Inv, Inv3, NEW c \in Callers, Step(c)
  PROVE  Inv3'
<1>1. CASE Check(c)
  BY <1>1, FinishInv3, GotoInv3 DEF Check, Answers, Inv3, FileSurvives, disk
<1>2. CASE SaveFails(c)
  BY <1>2, FinishInv3 DEF SaveFails, Answers
<1>3. CASE SyncDirFails(c)
  BY <1>3, FinishInv3 DEF SyncDirFails, Answers
<1>4. CASE Rename(c)
  BY <1>4, GotoInv3 DEF Rename, FileSurvives
<1>5. CASE SyncDir(c)
  BY <1>5, GotoInv3 DEF SyncDir, FileSurvives
<1>6. CASE Publish(c)
  BY <1>6, GotoInv3 DEF Publish, Inv3, FileSurvives, disk
<1>7. CASE Apply(c)
  BY <1>7, FinishInv3 DEF Apply, Answers
<1>8. CASE Return(c)
  <2>1. /\ pc[c] = "reply" /\ pc'[c] = "idle" /\ req'[c] = NoRequest /\ resp'[c] = "none"
        /\ \A d \in Callers \ {c} : pc'[d] = pc[d] /\ req'[d] = req[d] /\ resp'[d] = resp[d]
        /\ UNCHANGED <<snap, cand, disk>>
    BY <1>8 DEF Return, Goto, Inv, TypeOK
  <2> QED
    BY <2>1 DEF Inv3, CallsInStep, CandidateIsEdit, FileSurvives, disk
<1> QED
  BY <1>1, <1>2, <1>3, <1>4, <1>5, <1>6, <1>7, <1>8 DEF Step

\* Every step keeps it, given the first.
LEMMA NextInv3 == Inv /\ Inv3 /\ [Next]_vars => Inv3'
BY DaemonInv3, CallInv3, BeginInv3, StepInv3 DEF Next

\* The third invariant holds of every behaviour.
LEMMA Inv3Holds == Spec => []Inv3
BY InitInv3, NextInv3, InvariantHolds, PTL DEF Spec

-----------------------------------------------------------------------------
(* Every step is a step of the service, or none of it *)

Limbo == {Reconcile(s) : s \in survivors} \ {Effective}
Answered == [c \in Callers |-> IF pc[c] = "apply" THEN "committed" ELSE resp[c]]

\* The variables of the service, in those of the manager.
LEMMA Mapped ==
  /\ Abstract!mvars = <<Effective, Limbo, req, Answered>>
  /\ Abstract!mvars' = <<Effective', Limbo', req', Answered'>>
BY DEF Abstract!mvars, Limbo, Answered

\* What is reconciled stays as it is: a repaired file needs no further repair.
LEMMA ReconcileTwice ==
  ASSUME NEW s \in State
  PROVE  Reconcile(s) \in State /\ Reconcile(Reconcile(s)) = Reconcile(s)
<1>1. \A t \in State : /\ Reconcile(t) \in State
                       /\ Reconcile(t).lbs = t.lbs /\ Reconcile(t).maps = t.maps
                       /\ Reconcile(t).allocs = {a \in t.allocs : ~a.auto \/ a.id \in Referenced(t)}
  BY ReconcileFields
<1>2. Referenced(Reconcile(s)) = Referenced(s)
  BY <1>1 DEF Referenced
<1>3. Reconcile(Reconcile(s)).allocs = Reconcile(s).allocs
  <2>1. Reconcile(Reconcile(s)).allocs =
          {a \in Reconcile(s).allocs : ~a.auto \/ a.id \in Referenced(s)}
    BY <1>1, <1>2
  <2>2. \A a \in Reconcile(s).allocs : ~a.auto \/ a.id \in Referenced(s)
    BY <1>1
  <2> QED
    BY <2>1, <2>2
<1>4. \A t, u \in State : t.lbs = u.lbs /\ t.maps = u.maps /\ t.allocs = u.allocs => t = u
  BY DEF State
<1> QED
  BY <1>1, <1>3, <1>4

\* The first start is the initial state of the service.
LEMMA InitMaps == Init => Abstract!MInit
<1> SUFFICES ASSUME Init PROVE Abstract!MInit
  OBVIOUS
<1>1. Effective = Reconcile(file) /\ file \in State /\ survivors = {file}
  BY ManagerAssumption DEF Init, Effective
<1>2. Effective \in State /\ Limbo = {}
  BY <1>1, ReconcileTwice DEF Limbo
<1>3. req = [c \in Callers |-> NoRequest] /\ Answered = [c \in Callers |-> "none"]
  BY DEF Init, Answered
<1> QED
  BY <1>2, <1>3, SameOperators DEF Abstract!MInit, Limbo, Answered

\* A caller at work waits; the others are answered what they are answered.
LEMMA WaitingCaller ==
  ASSUME Inv, Inv3, NEW c \in Callers, pc[c] \in {"lock", "check", "rename", "syncdir", "publish"}
  PROVE  /\ Abstract!Waiting(c) /\ req[c] # NoRequest /\ Answered[c] = "none"
         /\ running /\ Effective = snap
<1>1. req[c] # NoRequest /\ resp[c] = "none" /\ running
  BY DEF Inv, TypeOK, DownIsIdle, Inv3, CallsInStep
<1> QED
  BY <1>1, SameOperators DEF Abstract!Waiting, Answered, Effective

\* A start, also one that repairs the file, changes nothing of the service but what
\* may come back.
LEMMA StartMaps ==
  ASSUME Inv, Inv3, Start \/ StartRepaired \/ StartFails
  PROVE  Abstract!Crash \/ UNCHANGED Abstract!mvars
<1>1. /\ ~running /\ file \in State /\ survivors \subseteq State /\ file \in survivors
      /\ Effective = Reconcile(file)
  BY DEF Inv, TypeOK, Inv3, FileSurvives, Start, StartRepaired, StartFails, Effective
<1>2. /\ \A c \in Callers : pc[c] = "idle" /\ req[c] = NoRequest /\ resp[c] = "none"
      /\ UNCHANGED <<pc, req, resp>>
  BY <1>1 DEF Inv, TypeOK, DownIsIdle, Inv3, CallsInStep, Start, StartRepaired, StartFails
<1>3. req' = [c \in Callers |-> NoRequest] /\ Answered' = [c \in Callers |-> "none"]
      /\ Answered' = Answered
  BY <1>2 DEF Answered, Inv, TypeOK
<1>4. Effective' = Effective
  BY <1>1, ReconcileTwice DEF Effective, Start, StartRepaired, StartFails, disk
<1>5. Limbo' \subseteq Limbo
  BY <1>1, <1>4, ReconcileTwice DEF Limbo, Start, StartRepaired, StartFails, disk
<1> QED
  BY <1>3, <1>4, <1>5, SameOperators DEF Abstract!Crash, Limbo, Answered

\* A crash brings back a state in limbo, or none.
LEMMA CrashMaps == ASSUME Inv, Inv3, Crash PROVE Abstract!Crash
<1>1. /\ running /\ ~running' /\ file' \in survivors /\ survivors' \subseteq survivors
  BY DEF Crash, Inv3, FileSurvives, disk
<1>2. Effective' \in Limbo \cup {Effective} /\ Limbo' \subseteq Limbo \cup {Effective}
  BY <1>1 DEF Effective, Limbo
<1>3. req' = [c \in Callers |-> NoRequest] /\ Answered' = [c \in Callers |-> "none"]
  BY DEF Crash, Answered
<1> QED
  BY <1>2, <1>3, SameOperators DEF Abstract!Crash, Limbo, Answered

\* A call is one of the service.
LEMMA CallMaps ==
  ASSUME Inv, Inv3, NEW c \in Callers, NEW r \in Requests, Call(c, r)
  PROVE  Abstract!Invoke(c, r)
<1>1. /\ pc[c] = "idle" /\ req[c] = NoRequest /\ resp[c] = "none"
      /\ req' = [req EXCEPT ![c] = r]
      /\ UNCHANGED <<running, snap, file, survivors>>
      /\ \A d \in Callers \ {c} : pc'[d] = pc[d] /\ resp'[d] = resp[d]
      /\ pc'[c] \in {"lock", "reply"}
      /\ resp'[c] = IF Malformed(r) THEN "invalid_hostname" ELSE "none"
  BY DEF Call, Inv, TypeOK, Inv3, CallsInStep, disk
<1>2. Answered' = [Answered EXCEPT ![c] = IF Malformed(r) THEN "invalid_hostname" ELSE "none"]
  BY <1>1 DEF Answered
<1>3. Effective' = Effective /\ Limbo' = Limbo
  BY <1>1 DEF Effective, Limbo
<1> QED
  BY <1>1, <1>2, <1>3, SameOperators DEF Abstract!Invoke, Limbo, Answered

\* The answer of a mutation, which the service gives in the same step.
LEMMA FinishAnswers ==
  ASSUME Inv, Inv3, NEW c \in Callers, NEW a \in {"lock", "check", "rename", "syncdir"},
         NEW answer, Finish(c, a, answer), UNCHANGED <<running, snap, disk>>
  PROVE  /\ Abstract!Answer(c, answer) /\ Abstract!Waiting(c)
         /\ Effective' = Effective /\ Limbo' = Limbo
<1>1. /\ pc[c] = a /\ pc'[c] = "reply" /\ resp'[c] = answer /\ UNCHANGED req
      /\ \A d \in Callers \ {c} : pc'[d] = pc[d] /\ resp'[d] = resp[d]
  BY DEF Finish, Goto, Inv, TypeOK
<1>2. Answered' = [Answered EXCEPT ![c] = answer]
  BY <1>1 DEF Answered
<1>3. Abstract!Waiting(c)
  BY <1>1, WaitingCaller
<1> QED
  BY <1>1, <1>2, <1>3 DEF Abstract!Answer, Answered, Effective, Limbo, disk

\* A step that only takes a request on is none of the service.
LEMMA GotoStutters ==
  ASSUME Inv, NEW c \in Callers, NEW a, NEW b, a # "apply", b # "apply", Goto(c, a, b),
         UNCHANGED <<running, snap, disk, req, resp>>
  PROVE  UNCHANGED Abstract!mvars
<1>1. pc[c] = a /\ pc'[c] = b /\ \A d \in Callers \ {c} : pc'[d] = pc[d]
  BY DEF Goto, Inv, TypeOK
<1>2. Answered' = Answered
  BY <1>1 DEF Answered
<1> QED
  BY <1>2, Mapped DEF Effective, Limbo, disk

\* An edit that is refused is a refusal; one that succeeds is no step of the service.
LEMMA BeginMaps ==
  ASSUME Inv, Inv3, NEW c \in Callers, Begin(c)
  PROVE  Abstract!Refuse(c) \/ UNCHANGED Abstract!mvars
<1>1. pc[c] = "lock" /\ UNCHANGED <<running, snap, disk>>
  BY DEF Begin, Edit
<1>2. PICK o \in Edits(snap, req[c]) :
        \/ o.err # "none" /\ Finish(c, "lock", o.err)
        \/ Goto(c, "lock", "check") /\ UNCHANGED <<req, resp>>
  BY DEF Begin, Edit
<1>3. CASE o.err # "none" /\ Finish(c, "lock", o.err)
  BY <1>1, <1>2, <1>3, FinishAnswers, WaitingCaller, SameOperators
     DEF Abstract!Refuse, Effective, Limbo
<1>4. CASE Goto(c, "lock", "check") /\ UNCHANGED <<req, resp>>
  BY <1>1, <1>4, GotoStutters
<1> QED
  BY <1>2, <1>3, <1>4

\* A validated candidate is one of the service, and reconciled.
LEMMA CandidateMaps ==
  ASSUME Inv, Inv3, NEW c \in Callers, pc[c] \in {"rename", "syncdir", "publish"}
  PROVE  cand[c] \in Abstract!Candidates(c) /\ Reconcile(cand[c]) = cand[c]
<1>1. cand[c] \in State /\ Sound(cand[c])
  BY DEF Inv, Serialized, Critical, CandidateProgress
<1>2. PICK o \in Edits(snap, req[c]) : o.err = "none" /\ o.st = cand[c]
  BY DEF Inv3, CandidateIsEdit
<1>3. StoreValid(cand[c]) /\ Reconcile(cand[c]) = cand[c]
  BY <1>1, SoundIsReconciled DEF Sound
<1>4. Effective = snap
  BY WaitingCaller
<1> QED
  BY <1>2, <1>3, <1>4, SameOperators DEF Abstract!Candidates

\* Validation refuses what an edit of the snapshot gave, or takes it on.
LEMMA CheckMaps ==
  ASSUME Inv, Inv3, NEW c \in Callers, Check(c)
  PROVE  Abstract!Refuse(c) \/ UNCHANGED Abstract!mvars
<1>1. pc[c] = "check" /\ UNCHANGED <<running, snap, disk>>
  BY DEF Check
<1>2. CASE Goto(c, "check", "rename") /\ UNCHANGED <<req, resp>>
  BY <1>1, <1>2, GotoStutters
<1>3. CASE Finish(c, "check", "invalid")
  <2>1. \E o \in Edits(snap, req[c]) : o.err = "none"
    BY <1>1 DEF Inv3, CandidateIsEdit
  <2> QED
    BY <1>1, <1>3, <2>1, FinishAnswers, WaitingCaller, SameOperators
       DEF Abstract!Refuse, Effective, Limbo
<1> QED
  BY <1>2, <1>3 DEF Check

\* A save that fails is a failure of the service.
LEMMA FailMaps ==
  ASSUME Inv, Inv3, NEW c \in Callers, SaveFails(c) \/ SyncDirFails(c)
  PROVE  Abstract!Fail(c)
BY FinishAnswers DEF SaveFails, SyncDirFails, Abstract!Fail, Limbo

\* The rename exposes the candidate, and the sync of the directory leaves nothing else.
LEMMA ExposeMaps ==
  ASSUME Inv, Inv3, NEW c \in Callers, Rename(c) \/ SyncDir(c)
  PROVE  Abstract!Expose(c)
<1>1. /\ pc[c] \in {"rename", "syncdir"} /\ UNCHANGED <<running, snap, req, resp>>
      /\ pc'[c] \in {"syncdir", "publish"} /\ \A d \in Callers \ {c} : pc'[d] = pc[d]
  BY DEF Rename, SyncDir, Goto, Inv, TypeOK
<1>2. Effective = snap /\ Effective' = snap /\ Abstract!Waiting(c)
  BY <1>1, WaitingCaller DEF Effective
<1>3. cand[c] \in Abstract!Candidates(c) /\ Reconcile(cand[c]) = cand[c]
  BY <1>1, CandidateMaps
<1>4. survivors' = survivors \cup {cand[c]} \/ survivors' = {cand[c]}
  BY DEF Rename, SyncDir, Goto, Inv, CandidateProgress
<1>5. Limbo' = (Limbo \cup {cand[c]}) \ {Effective} \/ Limbo' = {cand[c]} \ {Effective}
  BY <1>2, <1>3, <1>4 DEF Limbo
<1>6. Answered' = Answered
  BY <1>1 DEF Answered
<1> QED
  BY <1>1, <1>2, <1>3, <1>5, <1>6 DEF Abstract!Expose, Limbo, Answered

\* Publish is where a mutation takes effect.
LEMMA PublishMaps ==
  ASSUME Inv, Inv3, NEW c \in Callers, Publish(c)
  PROVE  Abstract!Commit(c)
<1>1. /\ pc[c] = "publish" /\ pc'[c] = "apply" /\ \A d \in Callers \ {c} : pc'[d] = pc[d]
      /\ running' /\ snap' = cand[c] /\ UNCHANGED <<survivors, req, resp>>
  BY DEF Publish, Goto, Inv, TypeOK, disk
<1>2. cand[c] \in Abstract!Candidates(c) /\ Reconcile(cand[c]) = cand[c]
  BY <1>1, CandidateMaps
<1>3. Effective' = cand[c] /\ Abstract!Waiting(c)
  BY <1>1, WaitingCaller DEF Effective
<1>4. survivors = {cand[c]}
  BY <1>1 DEF Inv, CandidateProgress
<1>5. Limbo' = {}
  BY <1>1, <1>2, <1>3, <1>4 DEF Limbo
<1>6. Answered' = [Answered EXCEPT ![c] = "committed"]
  BY <1>1 DEF Answered
<1> QED
  BY <1>1, <1>2, <1>3, <1>5, <1>6 DEF Abstract!Commit, Abstract!Answer, Limbo, Answered

\* The apply callback is no step of the service: its caller was answered already.
LEMMA ApplyMaps ==
  ASSUME Inv, NEW c \in Callers, Apply(c)
  PROVE  UNCHANGED Abstract!mvars
<1>1. /\ pc[c] = "apply" /\ pc'[c] = "reply" /\ resp'[c] = "committed"
      /\ \A d \in Callers \ {c} : pc'[d] = pc[d] /\ resp'[d] = resp[d]
      /\ UNCHANGED <<running, snap, disk, req>>
  BY DEF Apply, Finish, Goto, Inv, TypeOK
<1>2. Answered' = Answered
  BY <1>1 DEF Answered
<1> QED
  BY <1>1, <1>2, Mapped DEF Effective, Limbo, disk

\* The caller receives its answer.
LEMMA ReturnMaps ==
  ASSUME Inv, Inv3, NEW c \in Callers, Return(c)
  PROVE  Abstract!Receive(c)
<1>1. /\ pc[c] = "reply" /\ pc'[c] = "idle" /\ resp[c] # "none" /\ resp'[c] = "none"
      /\ req' = [req EXCEPT ![c] = NoRequest]
      /\ \A d \in Callers \ {c} : pc'[d] = pc[d] /\ resp'[d] = resp[d]
      /\ UNCHANGED <<running, snap, disk>>
  BY DEF Return, Goto, Inv, TypeOK, Inv3, CallsInStep
<1>2. Answered[c] # "none" /\ Answered' = [Answered EXCEPT ![c] = "none"]
  BY <1>1 DEF Answered
<1> QED
  BY <1>1, <1>2, SameOperators DEF Abstract!Receive, Effective, Limbo, Answered, disk

\* Certificates, CA files and main's applies are nothing of the service.
LEMMA AroundMaps ==
  ASSUME Outside \/ UNCHANGED vars
  PROVE  UNCHANGED Abstract!mvars
<1>1. UNCHANGED <<running, snap, disk, pc, req, resp>>
  BY DEF Outside, ReloadCerts, MainRead, MainApply, ChangeCAs, vars, disk
<1> QED
  BY <1>1, Mapped DEF Effective, Limbo, Answered, disk

\* Every step, under the two invariants.
LEMMA NextMaps == Inv /\ Inv3 /\ [Next]_vars => [Abstract!MNext]_(Abstract!mvars)
<1> SUFFICES ASSUME Inv, Inv3, [Next]_vars PROVE Abstract!MNext \/ UNCHANGED Abstract!mvars
  OBVIOUS
<1>1. CASE Start \/ StartRepaired \/ StartFails \/ Crash
  BY <1>1, StartMaps, CrashMaps DEF Abstract!MNext
<1>2. CASE Outside \/ UNCHANGED vars
  BY <1>2, AroundMaps
<1>3. ASSUME NEW c \in Callers, NEW r \in Requests, Call(c, r)
      PROVE  Abstract!MNext
  BY <1>3, CallMaps DEF Abstract!MNext
<1>4. ASSUME NEW c \in Callers, Begin(c) \/ Step(c)
      PROVE  Abstract!MNext \/ UNCHANGED Abstract!mvars
  BY <1>4, BeginMaps, CheckMaps, FailMaps, ExposeMaps, PublishMaps, ApplyMaps, ReturnMaps
     DEF Step, Abstract!MNext
<1> QED
  BY <1>1, <1>2, <1>3, <1>4 DEF Next

\* Linearizable: the manager, with its lock, its disk, its failures and its crashes,
\* implements MutationService (Manager.commitLocked, Store.Save).
THEOREM Linearization == Spec => Linearizable
BY InitMaps, NextMaps, InvariantHolds, Inv3Holds, PTL DEF Spec, Linearizable, Abstract!MSpec

-----------------------------------------------------------------------------
(* When a failed save is rolled back *)

\* The file holds the snapshot, or a candidate on its way to be published.
FileInStep ==
  running => file = snap \/ \E c \in Callers : pc[c] \in {"syncdir", "publish"}

\* Every step but a failing sync of the directory keeps the file in step.
LEMMA FileInStepNext ==
  ASSUME Inv, Inv3, FileInStep, [Next]_vars, \A c \in Callers : ~SyncDirFails(c)
  PROVE  FileInStep'
<1>1. CASE Start \/ StartRepaired \/ StartFails \/ Crash
  <2>1. CASE Start
    BY <2>1 DEF FileInStep, Start, disk
  <2>2. CASE StartRepaired
    BY <2>2 DEF FileInStep, StartRepaired
  <2>3. CASE StartFails
    BY <2>3 DEF FileInStep, StartFails
  <2>4. CASE Crash
    BY <2>4 DEF FileInStep, Crash
  <2> QED
    BY <1>1, <2>1, <2>2, <2>3, <2>4
<1>2. CASE Outside \/ UNCHANGED vars
  BY <1>2 DEF FileInStep, Outside, ReloadCerts, MainRead, MainApply, ChangeCAs, vars, disk
<1>3. ASSUME NEW c \in Callers,
             Begin(c) \/ Check(c) \/ SaveFails(c) \/ Apply(c) \/ Return(c)
               \/ \E r \in Requests : Call(c, r)
      PROVE  FileInStep'
  <2>1. /\ pc[c] \notin {"syncdir", "publish"} /\ UNCHANGED <<running, snap, file>>
        /\ \A d \in Callers \ {c} : pc'[d] = pc[d]
    BY <1>3 DEF Begin, Edit, Check, SaveFails, Apply, Return, Call, Finish, Goto, disk,
         Inv, TypeOK
  <2> QED
    BY <2>1 DEF FileInStep
<1>4. ASSUME NEW c \in Callers, Rename(c) \/ SyncDir(c)
      PROVE  FileInStep'
  <2>1. pc'[c] \in {"syncdir", "publish"}
    BY <1>4 DEF Rename, SyncDir, Goto, Inv, TypeOK
  <2> QED
    BY <2>1 DEF FileInStep
<1>5. ASSUME NEW c \in Callers, Publish(c)
      PROVE  FileInStep'
  <2>1. survivors = {cand[c]} /\ snap' = cand[c] /\ file' = file
    BY <1>5 DEF Publish, Goto, disk, Inv, CandidateProgress
  <2> QED
    BY <2>1 DEF Inv3, FileSurvives, FileInStep
<1> QED
  BY <1>1, <1>2, <1>3, <1>4, <1>5 DEF Next, Step

\* FailedSaveRollsBack, which design.md:566-567 says, fails by a directory sync that
\* fails after the rename only (Store.Save): without one, a mutation that was answered
\* that its save failed has left nothing in the file.
THEOREM RollsBackWithSync ==
  Spec /\ [][\A c \in Callers : ~SyncDirFails(c)]_vars => []FailedSaveRollsBack
<1>1. Init => FileInStep
  BY DEF Init, FileInStep
<1>2. Inv /\ Inv3 /\ FileInStep /\ [Next]_vars /\ [\A c \in Callers : ~SyncDirFails(c)]_vars
        => FileInStep'
  <2>1. UNCHANGED vars /\ FileInStep => FileInStep'
    BY DEF FileInStep, vars
  <2> QED
    BY <2>1, FileInStepNext
<1>3. ASSUME Inv, Inv3, FileInStep PROVE FailedSaveRollsBack
  <2> SUFFICES ASSUME NEW c \in Callers, resp[c] = "persist", lock = {} PROVE file = snap
    BY DEF FailedSaveRollsBack
  <2>1. running
    BY <1>3 DEF Inv, DownIsIdle, Inv3, CallsInStep
  <2>2. \A d \in Callers : ~Critical(d)
    BY <1>3 DEF Inv, Serialized
  <2> QED
    BY <1>3, <2>1, <2>2 DEF FileInStep, Critical
<1> QED
  BY <1>1, <1>2, <1>3, InvariantHolds, Inv3Holds, PTL DEF Spec

-----------------------------------------------------------------------------
(* Which mutations may be refused as invalid *)

\* A valid state stays valid when mappings and allocations that none of them names are
\* taken from it, under load balancers of the same names.
LEMMA LessIsValid ==
  ASSUME NEW st \in State, NEW d \in State, NEW C, NEW A, Validate(st, C, A),
         d.maps \subseteq st.maps, d.allocs \subseteq st.allocs,
         \A a \in st.allocs \ d.allocs : a.id \notin Referenced(d),
         \A l \in d.lbs : \E k \in st.lbs : k.name = l.name,
         \A k, l \in d.lbs : k.name = l.name => k = l
  PROVE  Validate(d, C, A)
<1>1. /\ UniqueKeys(st) /\ OneTLSMode(st) /\ NoDanglingReference(st)
      /\ \A l \in st.lbs : Canon[l.name] = l.name /\ l.name # MgmtHost
      /\ \A m \in st.maps : MappingValid(m, C, A)
  BY DEF Validate, StoreValid
<1>2. UniqueKeys(d)
  BY <1>1 DEF UniqueKeys
<1>3. OneTLSMode(d)
  BY <1>1 DEF OneTLSMode
<1>4. NoDanglingReference(d)
  <2>. SUFFICES ASSUME NEW i \in Referenced(d) PROVE \E a \in d.allocs : a.id = i
    BY DEF NoDanglingReference
  <2>1. i \in Referenced(st)
    BY DEF Referenced
  <2>2. PICK a \in st.allocs : a.id = i
    BY <1>1, <2>1 DEF NoDanglingReference
  <2>. QED BY <2>2
<1>5. \A l \in d.lbs : Canon[l.name] = l.name /\ l.name # MgmtHost
  <2>. TAKE l \in d.lbs
  <2>1. PICK k \in st.lbs : k.name = l.name
    OBVIOUS
  <2>2. Canon[k.name] = k.name /\ k.name # MgmtHost
    BY <1>1
  <2>. QED BY <2>1, <2>2
<1>6. \A m \in d.maps : MappingValid(m, C, A)
  BY <1>1
<1>. QED BY <1>2, <1>3, <1>4, <1>5, <1>6 DEF Validate, StoreValid

\* What Reconcile drops from a state with fewer mappings and load balancers.
LEMMA FewerIsValid ==
  ASSUME NEW st \in State, NEW d \in State, NEW C, NEW A, Validate(st, C, A),
         d.lbs \subseteq st.lbs, d.maps \subseteq st.maps, d.allocs = st.allocs
  PROVE  Validate(Reconcile(d), C, A)
<1>1. /\ Reconcile(d) \in State /\ Reconcile(d).lbs = d.lbs /\ Reconcile(d).maps = d.maps
      /\ Reconcile(d).allocs = {a \in d.allocs : ~a.auto \/ a.id \in Referenced(d)}
  BY ReconcileFields
<1>2. Referenced(Reconcile(d)) = Referenced(d)
  BY <1>1 DEF Referenced
<1>3. \A k, l \in st.lbs : k.name = l.name => k = l
  BY DEF Validate, StoreValid, UniqueKeys
<1>4. /\ Reconcile(d).maps \subseteq st.maps /\ Reconcile(d).allocs \subseteq st.allocs
      /\ \A a \in st.allocs \ Reconcile(d).allocs : a.id \notin Referenced(Reconcile(d))
  BY <1>1, <1>2
<1>5. /\ \A l \in Reconcile(d).lbs : \E k \in st.lbs : k.name = l.name
      /\ \A k, l \in Reconcile(d).lbs : k.name = l.name => k = l
  BY <1>1, <1>3
<1>. QED BY <1>1, <1>4, <1>5, LessIsValid

\* A relabelled load balancer has the name of one that was there.
LEMMA RelabelValid ==
  ASSUME NEW st \in State, NEW C, NEW A, Validate(st, C, A), NEW r \in UpdateLBRequest,
         NEW o \in UpdateLBLabel(st, r), o.err = "none"
  PROVE  Validate(o.st, C, A)
<1>. DEFINE l == [name |-> Canon[r.name], label |-> r.label]
            L == {k \in st.lbs : k.name # Canon[r.name]} \cup {l}
            d == [st EXCEPT !.lbs = L]
<1>1. Canon[r.name] \in LBNames(st) /\ o = Accept(d)
  BY DEF UpdateLBLabel, Reject
<1>2. PICK k \in st.lbs : k.name = Canon[r.name]
  BY <1>1 DEF LBNames
<1>3. k.name \in Names /\ r.label \in Labels
  BY DEF State, LoadBalancer, UpdateLBRequest
<1>4. l \in LoadBalancer /\ l.name = k.name
  BY <1>2, <1>3 DEF LoadBalancer
<1>5. \A x, y \in st.lbs : x.name = y.name => x = y
  BY DEF Validate, StoreValid, UniqueKeys
<1>6. /\ L \subseteq LoadBalancer /\ \A x \in L : \E y \in st.lbs : y.name = x.name
      /\ \A x, y \in L : x.name = y.name => x = y
  <2>1. L \subseteq LoadBalancer
    BY <1>4 DEF State
  <2>2. \A x \in L : \E y \in st.lbs : y.name = x.name
    BY <1>4
  <2>3. \A x, y \in L : x.name = y.name => x = y
    BY <1>2, <1>4, <1>5
  <2>. QED BY <2>1, <2>2, <2>3
<1>. HIDE DEF l, L
<1>7. d \in State /\ d.lbs = L /\ d.maps = st.maps /\ d.allocs = st.allocs
  BY <1>6 DEF State
<1>. HIDE DEF d
<1>8. Validate(d, C, A)
  BY <1>6, <1>7, LessIsValid
<1>. QED BY <1>1, <1>8 DEF Accept

\* A port that is returned is named by no mapping.
LEMMA ReturnValid ==
  ASSUME NEW st \in State, NEW C, NEW A, Validate(st, C, A), NEW r,
         NEW o \in ReturnPort(st, r), o.err = "none"
  PROVE  Validate(o.st, C, A)
<1>. DEFINE held == {a \in st.allocs : a.port = r.port}
            d == [st EXCEPT !.allocs = st.allocs \ held]
<1>1. o = Accept(d) /\ \A a \in held : a.id \notin Referenced(st)
  BY DEF ReturnPort, Reject
<1>. HIDE DEF held
<1>2. d \in State /\ d.lbs = st.lbs /\ d.maps = st.maps /\ d.allocs = st.allocs \ held
  BY DEF State
<1>. HIDE DEF d
<1>3. Referenced(d) = Referenced(st)
  BY <1>2 DEF Referenced
<1>4. \A k, l \in st.lbs : k.name = l.name => k = l
  BY DEF Validate, StoreValid, UniqueKeys
<1>5. Validate(d, C, A)
  BY <1>1, <1>2, <1>3, <1>4, LessIsValid
<1>. QED BY <1>1, <1>5 DEF Accept

\* What only takes away or relabels turns a valid state into a valid one.
LEMMA RemovalValid ==
  ASSUME NEW st \in State, NEW C, NEW A, Validate(st, C, A), NEW r \in Requests, Removes(r),
         NEW o \in Edits(st, r), o.err = "none"
  PROVE  Validate(o.st, C, A)
<1>1. r \in Request
  BY InputAssumption
<1>2. CASE r.op = "update_lb"
  <2>1. r \in UpdateLBRequest /\ o \in UpdateLBLabel(st, r)
    BY <1>1, <1>2 DEF Edits, Request, CreateLBRequest, DeleteLBRequest, PutMappingRequest,
       DeleteMappingRequest, AllocatePortRequest, ReturnPortRequest
  <2>. QED BY <2>1, RelabelValid
<1>3. CASE r.op = "delete_lb"
  <2>. DEFINE L == {l \in st.lbs : l.name # Canon[r.name]}
              P == {m \in st.maps : m.lb # Canon[r.name]}
              d == [st EXCEPT !.lbs = L, !.maps = P]
  <2>1. o \in DeleteLB(st, r)
    BY <1>3 DEF Edits
  <2>2. o = Accept(Reconcile(d))
    BY <2>1 DEF DeleteLB, Reject
  <2>3. L \subseteq st.lbs /\ P \subseteq st.maps
    OBVIOUS
  <2>. HIDE DEF L, P
  <2>4. d \in State /\ d.lbs = L /\ d.maps = P /\ d.allocs = st.allocs
    BY <2>3 DEF State
  <2>. HIDE DEF d
  <2>5. Validate(Reconcile(d), C, A)
    BY <2>3, <2>4, FewerIsValid
  <2>. QED BY <2>2, <2>5 DEF Accept
<1>4. CASE r.op = "delete_mapping"
  <2>. DEFINE P == {m \in st.maps : ~(m.lb = Canon[r.name] /\ m.port = r.port)}
              d == [st EXCEPT !.maps = P]
  <2>1. o \in DeleteMapping(st, r)
    BY <1>4 DEF Edits
  <2>2. o = Accept(Reconcile(d))
    BY <2>1 DEF DeleteMapping, Reject
  <2>3. P \subseteq st.maps
    OBVIOUS
  <2>. HIDE DEF P
  <2>4. d \in State /\ d.lbs = st.lbs /\ d.maps = P /\ d.allocs = st.allocs
    BY <2>3 DEF State
  <2>. HIDE DEF d
  <2>5. Validate(Reconcile(d), C, A)
    BY <2>3, <2>4, FewerIsValid
  <2>. QED BY <2>2, <2>5 DEF Accept
<1>5. CASE r.op = "return_port"
  <2>1. o \in ReturnPort(st, r)
    BY <1>5 DEF Edits
  <2>. QED BY <2>1, ReturnValid
<1>. QED BY <1>2, <1>3, <1>4, <1>5 DEF Removes

\* A deletion, a return or a new label is refused as invalid only when the published
\* state itself is not accepted any more: after a reload or a change of the CA
\* directory (txn.go:86, validate.go:36-62).
THEOREM RemovalsAccepted == Spec => []RemovalsPass
<1>1. ASSUME Inv, Inv3 PROVE RemovalsPass
  <2>. SUFFICES ASSUME NEW c \in lock, pc[c] = "check", Removes(req[c]),
                       Validate(snap, covered, cas)
                PROVE  Validate(cand[c], covered, cas)
    BY DEF RemovalsPass
  <2>1. c \in Callers /\ snap \in State /\ req[c] \in Requests \cup {NoRequest}
    BY <1>1 DEF Inv, TypeOK
  <2>2. req[c] \in Requests
    BY <2>1 DEF Removes, NoRequest
  <2>3. PICK o \in Edits(snap, req[c]) : o.err = "none" /\ o.st = cand[c]
    BY <1>1, <2>1 DEF Inv3, CandidateIsEdit
  <2>4. Validate(o.st, covered, cas)
    BY <2>1, <2>2, <2>3, RemovalValid
  <2>. QED BY <2>3, <2>4
<1>. QED BY <1>1, InvariantHolds, Inv3Holds, PTL

-----------------------------------------------------------------------------
(* Sending a mutation again *)

\* States are equal when their fields are.
LEMMA SameFields ==
  ASSUME NEW s \in State, NEW t \in State, s.lbs = t.lbs, s.maps = t.maps, s.allocs = t.allocs
  PROVE  s = t
BY DEF State

\* A name that exists is not created again, and a label is written once.
LEMMA LBResent ==
  ASSUME NEW st \in State, NEW r, Canon[r.name] \in Names, r.label \in Labels,
         NEW o, NEW again, o.err = "none",
         \/ o \in CreateLB(st, r) /\ again \in CreateLB(o.st, r)
         \/ o \in UpdateLBLabel(st, r) /\ again \in UpdateLBLabel(o.st, r)
  PROVE  again.st = o.st
<1>. DEFINE l == [name |-> Canon[r.name], label |-> r.label]
<1>1. l \in LoadBalancer /\ l.name = Canon[r.name]
  BY DEF LoadBalancer
<1>2. CASE o \in CreateLB(st, r) /\ again \in CreateLB(o.st, r)
  <2>. DEFINE d == [st EXCEPT !.lbs = st.lbs \cup {l}]
  <2>1. o = Accept(d)
    BY <1>2 DEF CreateLB, Reject
  <2>. HIDE DEF l
  <2>2. d.lbs = st.lbs \cup {l}
    BY DEF State
  <2>. HIDE DEF d
  <2>3. Canon[r.name] \in LBNames(o.st)
    BY <1>1, <2>1, <2>2 DEF LBNames, Accept
  <2>. QED BY <1>2, <2>3 DEF CreateLB, Reject
<1>3. CASE o \in UpdateLBLabel(st, r) /\ again \in UpdateLBLabel(o.st, r)
  <2>. DEFINE L == {k \in st.lbs : k.name # Canon[r.name]} \cup {l}
              d == [st EXCEPT !.lbs = L]
              M == {k \in d.lbs : k.name # Canon[r.name]} \cup {l}
              e == [d EXCEPT !.lbs = M]
  <2>1. o = Accept(d)
    BY <1>3 DEF UpdateLBLabel, Reject
  <2>2. again.st = d \/ again = Accept(e)
    <3>1. o.st = d
      BY <2>1 DEF Accept
    <3>. HIDE DEF d
    <3>2. again \in UpdateLBLabel(d, r)
      BY <1>3, <3>1
    <3>. QED BY <3>2 DEF UpdateLBLabel, Reject
  <2>3. L \subseteq LoadBalancer
    BY <1>1 DEF State
  <2>. HIDE DEF l
  <2>4. L = {k \in L : k.name # Canon[r.name]} \cup {l}
    BY <1>1
  <2>. HIDE DEF L
  <2>5. d \in State /\ d.lbs = L
    BY <2>3 DEF State
  <2>6. M = L
    BY <2>4, <2>5
  <2>. HIDE DEF d, M
  <2>7. e = d
    BY <2>5, <2>6 DEF State
  <2>. QED BY <2>1, <2>2, <2>7 DEF Accept
<1>. QED BY <1>2, <1>3

\* What is gone is not deleted again.
LEMMA DeletionResent ==
  ASSUME NEW st \in State, NEW r, NEW o, NEW again, o.err = "none",
         \/ o \in DeleteLB(st, r) /\ again \in DeleteLB(o.st, r)
         \/ o \in DeleteMapping(st, r) /\ again \in DeleteMapping(o.st, r)
         \/ o \in ReturnPort(st, r) /\ again \in ReturnPort(o.st, r)
  PROVE  again.st = o.st
<1>1. CASE o \in DeleteLB(st, r) /\ again \in DeleteLB(o.st, r)
  <2>. DEFINE L == {l \in st.lbs : l.name # Canon[r.name]}
              P == {m \in st.maps : m.lb # Canon[r.name]}
              d == [st EXCEPT !.lbs = L, !.maps = P]
  <2>1. o = Accept(Reconcile(d))
    BY <1>1 DEF DeleteLB, Reject
  <2>2. L \subseteq st.lbs /\ P \subseteq st.maps /\ \A l \in L : l.name # Canon[r.name]
    OBVIOUS
  <2>. HIDE DEF L, P
  <2>3. d \in State /\ d.lbs = L
    BY <2>2 DEF State
  <2>. HIDE DEF d
  <2>4. Canon[r.name] \notin LBNames(o.st)
    BY <2>1, <2>2, <2>3, ReconcileFields DEF LBNames, Accept
  <2>. QED BY <1>1, <2>4 DEF DeleteLB, Reject
<1>2. CASE o \in DeleteMapping(st, r) /\ again \in DeleteMapping(o.st, r)
  <2>. DEFINE P == {m \in st.maps : ~(m.lb = Canon[r.name] /\ m.port = r.port)}
              d == [st EXCEPT !.maps = P]
  <2>1. o = Accept(Reconcile(d))
    BY <1>2 DEF DeleteMapping, Reject
  <2>2. P \subseteq st.maps /\ \A m \in P : ~(m.lb = Canon[r.name] /\ m.port = r.port)
    OBVIOUS
  <2>. HIDE DEF P
  <2>3. d \in State /\ d.maps = P
    BY <2>2 DEF State
  <2>. HIDE DEF d
  <2>4. ~HasMapping(o.st, Canon[r.name], r.port)
    BY <2>1, <2>2, <2>3, ReconcileFields DEF HasMapping, Accept
  <2>. QED BY <1>2, <2>4 DEF DeleteMapping, Reject
<1>3. CASE o \in ReturnPort(st, r) /\ again \in ReturnPort(o.st, r)
  <2>. DEFINE held == {a \in st.allocs : a.port = r.port}
              d == [st EXCEPT !.allocs = st.allocs \ held]
  <2>1. o = Accept(d)
    BY <1>3 DEF ReturnPort, Reject
  <2>2. \A a \in st.allocs \ held : a.port # r.port
    OBVIOUS
  <2>. HIDE DEF held
  <2>3. d.allocs = st.allocs \ held
    BY DEF State
  <2>. HIDE DEF d
  <2>4. {a \in o.st.allocs : a.port = r.port} = {}
    BY <2>1, <2>2, <2>3 DEF Accept
  <2>. QED BY <1>3, <2>4 DEF ReturnPort, Reject
<1>. QED BY <1>1, <1>2, <1>3

\* Storing a mapping without a port of its own, once or twice.
LEMMA StoredFields ==
  ASSUME NEW st \in State, NEW m \in Mapping, NEW A \in SUBSET PortAllocation
  PROVE  /\ Stored(st, m, A) \in State
         /\ Stored(st, m, A).lbs = st.lbs
         /\ Stored(st, m, A).maps = {n \in st.maps : ~(n.lb = m.lb /\ n.port = m.port)} \cup {m}
         /\ Stored(st, m, A).allocs =
              {a \in st.allocs \cup A : ~a.auto \/ a.id \in Referenced(Stored(st, m, A))}
<1>. DEFINE P == {n \in st.maps : ~(n.lb = m.lb /\ n.port = m.port)} \cup {m}
            B == st.allocs \cup A
            d == [st EXCEPT !.maps = P, !.allocs = B]
<1>1. P \subseteq Mapping /\ B \subseteq PortAllocation
  BY DEF State
<1>2. Stored(st, m, A) = Reconcile(d)
  BY DEF Stored
<1>. HIDE DEF P, B
<1>3. d \in State /\ d.lbs = st.lbs /\ d.maps = P /\ d.allocs = B
  BY <1>1 DEF State
<1>. HIDE DEF d
<1>4. /\ Reconcile(d) \in State /\ Reconcile(d).lbs = st.lbs /\ Reconcile(d).maps = P
      /\ Reconcile(d).allocs = {a \in B : ~a.auto \/ a.id \in Referenced(d)}
  BY <1>3, ReconcileFields
<1>5. Referenced(Reconcile(d)) = Referenced(d)
  BY <1>3, <1>4 DEF Referenced
<1>. QED BY <1>2, <1>4, <1>5 DEF P, B

LEMMA StoredTwice ==
  ASSUME NEW st \in State, NEW m \in Mapping
  PROVE  Stored(Stored(st, m, {}), m, {}) = Stored(st, m, {})
<1>. DEFINE s == Stored(st, m, {})
            t == Stored(s, m, {})
<1>1. /\ s \in State /\ s.maps = {n \in st.maps : ~(n.lb = m.lb /\ n.port = m.port)} \cup {m}
      /\ s.allocs = {a \in st.allocs : ~a.auto \/ a.id \in Referenced(s)}
  BY StoredFields
<1>. HIDE DEF s
<1>2. /\ t \in State /\ t.lbs = s.lbs
      /\ t.maps = {n \in s.maps : ~(n.lb = m.lb /\ n.port = m.port)} \cup {m}
      /\ t.allocs = {a \in s.allocs : ~a.auto \/ a.id \in Referenced(t)}
  BY <1>1, StoredFields
<1>. HIDE DEF t
<1>3. t.maps = s.maps
  BY <1>1, <1>2
<1>4. Referenced(t) = Referenced(s)
  BY <1>3 DEF Referenced
<1>5. t.allocs = s.allocs
  BY <1>1, <1>2, <1>4
<1>6. t = s
  BY <1>1, <1>2, <1>3, <1>5, SameFields
<1>. QED BY <1>6 DEF s, t

\* A mapping that exists is not created again, and one with an upstream of its own is
\* replaced by itself.
LEMMA PutResent ==
  ASSUME NEW st \in State, NEW r \in PutMappingRequest, Canon[r.name] \in Names,
         ~(r.allocate /\ r.replace),
         NEW o \in PutMapping(st, r), o.err = "none", NEW again \in PutMapping(o.st, r)
  PROVE  again.st = o.st
<1>1. r.port \in Int /\ r.tls \in BOOLEAN /\ r.up \in Upstream
  BY DEF PutMappingRequest
<1>2. \E m \in Mapping, A \in SUBSET PortAllocation :
        /\ m.lb = Canon[r.name] /\ m.port = r.port /\ o = Accept(Stored(st, m, A))
        /\ ~r.allocate => m = NewMapping(r, r.up, NoAlloc) /\ A = {}
  <2>1. CASE ~r.allocate
    <3>1. o = Accept(Stored(st, NewMapping(r, r.up, NoAlloc), {}))
      BY <2>1 DEF PutMapping, Reject
    <3>2. /\ NewMapping(r, r.up, NoAlloc) \in Mapping
          /\ NewMapping(r, r.up, NoAlloc).lb = Canon[r.name]
          /\ NewMapping(r, r.up, NoAlloc).port = r.port
      BY <1>1 DEF NewMapping, Mapping
    <3>. QED BY <3>1, <3>2
  <2>2. CASE r.allocate
    <3>1. PICK a \in Allocate(st.allocs, Canon[r.name], TRUE) :
            o = Accept(Stored(st, NewMapping(r, Localhost(a.port), a.id), {a}))
      <4>1. \/ \E code \in {"lb_not_found", "mapping_exists", "pool_exhausted"} :
                 o = Reject(st, code)
            \/ \E a \in Allocate(st.allocs, Canon[r.name], TRUE) :
                 o = Accept(Stored(st, NewMapping(r, Localhost(a.port), a.id), {a}))
        BY <2>2 DEF PutMapping
      <4>2. \A code \in {"lb_not_found", "mapping_exists", "pool_exhausted"} :
              o # Reject(st, code)
        BY DEF Reject
      <4>. QED BY <4>1, <4>2
    <3>. DEFINE m == NewMapping(r, Localhost(a.port), a.id)
    <3>2. a \in PortAllocation
      BY AllocateAuto DEF State
    <3>3. a.id \in AllocIds /\ a.port \in Int
      BY <3>2 DEF PortAllocation
    <3>4. Localhost(a.port) \in Upstream
      BY <3>3, InputAssumption DEF Localhost, Upstream
    <3>5. m \in Mapping /\ m.lb = Canon[r.name] /\ m.port = r.port
      BY <1>1, <3>3, <3>4 DEF NewMapping, Mapping
    <3>. HIDE DEF m
    <3>6. o = Accept(Stored(st, m, {a})) /\ {a} \in SUBSET PortAllocation
      BY <3>1, <3>2 DEF m
    <3>. QED BY <2>2, <3>5, <3>6
  <2>. QED BY <2>1, <2>2
<1>3. PICK m \in Mapping, A \in SUBSET PortAllocation :
        /\ m.lb = Canon[r.name] /\ m.port = r.port /\ o = Accept(Stored(st, m, A))
        /\ ~r.allocate => m = NewMapping(r, r.up, NoAlloc) /\ A = {}
  BY <1>2
<1>4. o.st = Stored(st, m, A)
  BY <1>3 DEF Accept
<1>5. o.st \in State /\ m \in o.st.maps /\ o.st.lbs = st.lbs
  BY <1>4, StoredFields
<1>6. CASE ~r.replace
  <2>1. HasMapping(o.st, Canon[r.name], r.port)
    BY <1>3, <1>5 DEF HasMapping
  <2>. QED BY <1>6, <2>1 DEF PutMapping, Reject
<1>7. CASE r.replace
  <2>1. ~r.allocate
    BY <1>7
  <2>2. m = NewMapping(r, r.up, NoAlloc) /\ o.st = Stored(st, m, {})
    BY <1>3, <1>4, <2>1
  <2>3. again.st = o.st \/ again = Accept(Stored(o.st, m, {}))
    BY <2>1, <2>2 DEF PutMapping, Reject
  <2>. QED BY <2>2, <2>3, StoredTwice DEF Accept
<1>. QED BY <1>6, <1>7

\* Sent again, a mutation makes nothing else of what it has made, unless it reserves a
\* port each time (txn.go:100-263).
THEOREM ResendsAreHarmless == Spec => []ResendHarmless
<1>1. ASSUME Inv PROVE ResendHarmless
  <2>. SUFFICES ASSUME NEW r \in Requests, ~Malformed(r), ~ReservesAnew(r),
                       NEW o \in Edits(snap, r), o.err = "none", NEW again \in Edits(o.st, r)
                PROVE  again.st = o.st
    BY DEF ResendHarmless
  <2>1. snap \in State /\ r \in Request
    BY <1>1, InputAssumption DEF Inv, TypeOK
  <2>2. CASE r \in CreateLBRequest \cup UpdateLBRequest
    <3>1. Canon[r.name] \in Names /\ r.label \in Labels /\ r.op \in {"create_lb", "update_lb"}
      BY <2>2, InputAssumption DEF Malformed, CreateLBRequest, UpdateLBRequest
    <3>2. \/ o \in CreateLB(snap, r) /\ again \in CreateLB(o.st, r)
          \/ o \in UpdateLBLabel(snap, r) /\ again \in UpdateLBLabel(o.st, r)
      BY <3>1 DEF Edits
    <3>. QED BY <2>1, <3>1, <3>2, LBResent
  <2>3. CASE r \in DeleteLBRequest \cup DeleteMappingRequest \cup ReturnPortRequest
    <3>1. r.op \in {"delete_lb", "delete_mapping", "return_port"}
      BY <2>3 DEF DeleteLBRequest, DeleteMappingRequest, ReturnPortRequest
    <3>2. \/ o \in DeleteLB(snap, r) /\ again \in DeleteLB(o.st, r)
          \/ o \in DeleteMapping(snap, r) /\ again \in DeleteMapping(o.st, r)
          \/ o \in ReturnPort(snap, r) /\ again \in ReturnPort(o.st, r)
      BY <3>1 DEF Edits
    <3>. QED BY <2>1, <3>2, DeletionResent
  <2>4. CASE r \in PutMappingRequest
    <3>1. r.op = "put_mapping" /\ Canon[r.name] \in Names
      BY <2>4, InputAssumption DEF Malformed, PutMappingRequest
    <3>2. o \in PutMapping(snap, r) /\ again \in PutMapping(o.st, r)
      BY <3>1 DEF Edits
    <3>3. ~(r.allocate /\ r.replace)
      BY <3>1 DEF ReservesAnew
    <3>. QED BY <2>1, <2>4, <3>1, <3>2, <3>3, PutResent
  <2>5. CASE r \in AllocatePortRequest
    BY <2>5 DEF ReservesAnew, AllocatePortRequest
  <2>. QED BY <2>1, <2>2, <2>3, <2>4, <2>5 DEF Request
<1>. QED BY <1>1, InvariantHolds, PTL
=============================================================================
