--------------------------- MODULE CallLifecycle ---------------------------
(***************************************************************************)
(* What the services together promise about the calls of a campaign while  *)
(* nothing fails: the row of a call shows its attempts one by one, in      *)
(* order and once each, an outcome that asks for no further attempt is the *)
(* last one, and every call that was created gets there.                   *)
(***************************************************************************)
EXTENDS Integers

CONSTANTS
  Calls,
  MaxAttempts  \* per call

VARIABLES
  calls,   \* status of each call and number of attempts made
  settled  \* calls that have had their last attempt

vars == <<calls, settled>>

Init ==
  /\ calls = [c \in Calls |-> [status |-> "absent", attempts |-> 0]]
  /\ settled = {}

Create(c) ==
  /\ calls[c].status = "absent"
  /\ calls' = [calls EXCEPT ![c].status = "queued"]
  /\ UNCHANGED settled

Succeed(c) ==
  /\ calls[c].status # "absent" /\ c \notin settled
  /\ calls' = [calls EXCEPT ![c] = [status |-> "completed", attempts |-> @.attempts + 1]]
  /\ settled' = settled \cup {c}

\* A failure may be the last attempt, and is if there is no budget for another.
Fail(c) ==
  /\ calls[c].status # "absent" /\ c \notin settled
  /\ calls' = [calls EXCEPT ![c] = [status |-> "failed", attempts |-> @.attempts + 1]]
  /\ \/ settled' = settled \cup {c}
     \/ calls[c].attempts + 1 < MaxAttempts[c] /\ UNCHANGED settled

Attempt(c) == Succeed(c) \/ Fail(c)

Next == \E c \in Calls : Create(c) \/ Attempt(c)

SafetySpec == Init /\ [][Next]_vars

LifecycleSpec == SafetySpec /\ \A c \in Calls : WF_vars(Attempt(c))
=============================================================================
