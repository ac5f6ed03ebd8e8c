------------------------------ MODULE Limiter ------------------------------
(***************************************************************************)
(* The concurrency limiter (internal/service/concurrency/limiter.go) as    *)
(* the call worker uses it: a Redis counter per campaign, changed by two   *)
(* Lua scripts, with a time to live that Acquire renews and Release leaves *)
(* alone.  Time is discrete.  Redis runs a script as one step.             *)
(*                                                                         *)
(* The slot is held while PlaceCall and PublishStatus run.  The request    *)
(* timeout bounds the first; nothing in the code bounds the second, so     *)
(* MaxHold is an assumption about Kafka as much as a setting.              *)
(***************************************************************************)
EXTENDS Integers, FiniteSets

CONSTANTS
  Workers,  \* concurrent processMessage calls for the campaign
  Limit,    \* its concurrency limit; with none the worker skips the limiter
  TTL,      \* Scheduler.LockTTL
  MaxHold   \* the longest time a worker keeps a slot

ASSUME LimiterAssumption ==
  /\ IsFiniteSet(Workers)
  /\ Limit \in Nat \ {0}
  /\ TTL \in Nat \ {0}
  /\ MaxHold \in Nat

VARIABLES
  count,   \* the value of the key, 0 when there is none
  ttl,     \* the time the key has left, 0 when there is none
  active,  \* workers that hold a slot
  age      \* for how long they have held it

vars == <<count, ttl, active, age>>

Init ==
  /\ count = 0
  /\ ttl = 0
  /\ active = {}
  /\ age = [w \in Workers |-> 0]

-----------------------------------------------------------------------------
\* Altered forms of the scripts: a limit that lets one more in, a TTL set only when
\* the key is created, and a refused Acquire that renews the TTL.
ReserveOneMore == count <= Limit /\ count' = count + 1 /\ ttl' = TTL
ReserveKeepTTL == count < Limit /\ count' = count + 1 /\ ttl' = IF ttl = 0 THEN TTL ELSE ttl
RefuseAndRenew == count >= Limit /\ ttl' = TTL /\ UNCHANGED count

\* The script of Acquire, with its two results.
Reserve == count < Limit /\ count' = count + 1 /\ ttl' = TTL
Refuse  == count >= Limit /\ UNCHANGED <<count, ttl>>

\* Acquire.  A refused worker polls again after 50 ms.
Acquire(w) ==
  /\ w \notin active
  /\ \/ Reserve /\ active' = active \cup {w}
     \/ Refuse /\ UNCHANGED active
  /\ UNCHANGED age

\* The script has run and the reply is lost: Acquire returns an error.
AcquireUnanswered(w) == w \notin active /\ Reserve /\ UNCHANGED <<active, age>>

Drop(w) ==
  /\ w \in active
  /\ active' = active \ {w}
  /\ age' = [age EXCEPT ![w] = 0]

\* The script of Release deletes a key that holds no slot.
Release(w) ==
  /\ Drop(w)
  /\ count' = IF count <= 0 THEN 0 ELSE count - 1
  /\ ttl' = IF count <= 0 THEN 0 ELSE ttl

\* The worker dies, or its Release cannot reach Redis: the slot stays counted.
Leak(w) == Drop(w) /\ UNCHANGED <<count, ttl>>

\* A time unit passes; Redis deletes the key when its time is up.
Tick ==
  /\ \A w \in active : age[w] < MaxHold
  /\ age' = [w \in Workers |-> IF w \in active THEN age[w] + 1 ELSE 0]
  /\ ttl' = IF ttl = 0 THEN 0 ELSE ttl - 1
  /\ count' = IF ttl <= 1 THEN 0 ELSE count
  /\ UNCHANGED active

Next ==
  \/ \E w \in Workers : Acquire(w) \/ AcquireUnanswered(w) \/ Release(w) \/ Leak(w)
  \/ Tick

Spec == Init /\ [][Next]_vars

\* Time does not stop, and the release of a slot is deferred, so it does happen.
FairSpec == Spec /\ WF_vars(Tick) /\ \A w \in Workers : WF_vars(Release(w))

-----------------------------------------------------------------------------
(* Properties *)

\* The counter never passes the limit and never falls below zero, and a counter
\* above zero is on its way to expire (Acquire sets the TTL with every INCR).
LimiterTypeOK ==
  /\ count \in 0..Limit
  /\ ttl \in 0..TTL
  /\ count > 0 => ttl > 0
  /\ active \subseteq Workers
  /\ age \in [Workers -> 0..MaxHold]

\* ARCHITECTURE.md: "The distributed semaphore ensures that the system does not
\* exceed the concurrency limits set for each campaign."
LimitRespected == Cardinality(active) <= Limit

Slots == INSTANCE CampaignSlots WITH Workers <- Workers, Limit <- Limit, active <- active

\* The Redis counter implements the semaphore: workers enter only while fewer than
\* Limit of them are inside, although slots leak and the key expires.
ImplementsSlots == Slots!SlotsSpec

\* Slots come back: a campaign whose counter is at the limit gets free slots again,
\* also when the workers that took them died (the TTL is not renewed meanwhile).
SlotsComeBack == (count >= Limit) ~> (count < Limit)

-----------------------------------------------------------------------------
(* Inductive strengthening *)

\* Every holder has its slot counted, and the key outlives it: Acquire renewed the
\* TTL when the worker entered, or later.
LimiterInv ==
  /\ LimiterTypeOK
  /\ Cardinality(active) <= count
  /\ \A w \in active : ttl >= TTL - age[w]
=============================================================================
