--------------------------- MODULE MutationService ---------------------------
(***************************************************************************)
(* What the transaction manager promises its callers, with no lock, no     *)
(* file and no steps: each mutation is answered once, it takes effect at   *)
(* one instant between its call and its answer or not at all, and what was *)
(* answered with success survives every crash.                             *)
(*                                                                         *)
(* The one weakness of the promise is written down as `limbo`: the states  *)
(* that are not in effect and that a crash may nevertheless bring about,   *)
(* because a mutation that never succeeded had already reached the disk.   *)
(* A success empties it.                                                   *)
(***************************************************************************)
EXTENDS StateModel

CONSTANTS Callers

VARIABLES
  reg,      \* the state in effect
  limbo,    \* states not in effect that a crash may bring about
  call,     \* the request each caller waits for, or NoRequest
  answer    \* what each caller was answered, "none" while it waits

mvars == <<reg, limbo, call, answer>>

MInit ==
  /\ reg \in State
  /\ limbo = {}
  /\ call = [c \in Callers |-> NoRequest]
  /\ answer = [c \in Callers |-> "none"]

Waiting(c) == call[c] # NoRequest /\ answer[c] = "none"

Answer(c, a) == answer' = [answer EXCEPT ![c] = a] /\ UNCHANGED call

Invoke(c, r) ==
  /\ call[c] = NoRequest
  /\ call' = [call EXCEPT ![c] = r]
  /\ answer' = [answer EXCEPT ![c] = IF Malformed(r) THEN "invalid_hostname" ELSE "none"]
  /\ UNCHANGED <<reg, limbo>>

\* The states the request of c may turn the state in effect into.
Candidates(c) ==
  {o.st : o \in {x \in Edits(reg, call[c]) : x.err = "none" /\ StoreValid(x.st)}}

\* The mutation takes effect, and nothing else can come back any more.
Commit(c) ==
  /\ Waiting(c)
  /\ reg' \in Candidates(c)
  /\ limbo' = {}
  /\ Answer(c, "committed")

\* The mutation is refused, for a reason the state gives or by validation.
Refuse(c) ==
  /\ Waiting(c)
  /\ \E o \in Edits(reg, call[c]) :
       Answer(c, IF o.err = "none" THEN "invalid" ELSE o.err)
  /\ UNCHANGED <<reg, limbo>>

\* A candidate reaches the disk before it is in effect; once durable, it is all
\* that a crash can bring about.
Expose(c) ==
  /\ Waiting(c)
  /\ \E s \in Candidates(c) : limbo' = (limbo \cup {s}) \ {reg} \/ limbo' = {s} \ {reg}
  /\ UNCHANGED <<reg, call, answer>>

Fail(c) ==
  /\ Waiting(c)
  /\ Answer(c, "persist")
  /\ UNCHANGED <<reg, limbo>>

Receive(c) ==
  /\ answer[c] # "none"
  /\ call' = [call EXCEPT ![c] = NoRequest]
  /\ answer' = [answer EXCEPT ![c] = "none"]
  /\ UNCHANGED <<reg, limbo>>

\* A crash loses every call under way.
Crash ==
  /\ reg' \in limbo \cup {reg}
  /\ limbo' \subseteq limbo \cup {reg}
  /\ call' = [c \in Callers |-> NoRequest]
  /\ answer' = [c \in Callers |-> "none"]

MNext ==
  \/ Crash
  \/ \E c \in Callers :
       \/ \E r \in Requests : Invoke(c, r)
       \/ Commit(c) \/ Refuse(c) \/ Expose(c) \/ Fail(c) \/ Receive(c)

MSpec == MInit /\ [][MNext]_mvars
=============================================================================
