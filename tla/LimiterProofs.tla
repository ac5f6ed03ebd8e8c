--------------------------- MODULE LimiterProofs ---------------------------
(***************************************************************************)
(* The limiter implements the campaign's semaphore for any number of       *)
(* workers, as long as no worker holds a slot for a whole TTL.             *)
(***************************************************************************)
EXTENDS Limiter, FiniteSetTheorems, TLAPS

\* The number of holders is a natural number, and changes by one when a worker
\* enters or leaves.
LEMMA HoldersCounted ==
  ASSUME LimiterTypeOK, NEW w \in Workers
  PROVE  /\ Cardinality(active) \in Nat
         /\ w \notin active => Cardinality(active \cup {w}) = Cardinality(active) + 1
         /\ w \in active => /\ Cardinality(active \ {w}) = Cardinality(active) - 1
                            /\ Cardinality(active) >= 1
<1>1. IsFiniteSet(active)
  BY FS_Subset, LimiterAssumption DEF LimiterTypeOK
<1>2. Cardinality(active) \in Nat
  BY <1>1, FS_CardinalityType
<1>3. ASSUME w \notin active
      PROVE  Cardinality(active \cup {w}) = Cardinality(active) + 1
  BY <1>1, <1>3, FS_AddElement
<1>4. ASSUME w \in active
      PROVE  /\ Cardinality(active \ {w}) = Cardinality(active) - 1
             /\ Cardinality(active) >= 1
  <2>1. Cardinality(active \ {w}) = Cardinality(active) - 1
    BY <1>1, <1>4, FS_RemoveElement
  <2>2. IsFiniteSet(active \ {w})
    BY <1>1, FS_RemoveElement
  <2>3. Cardinality(active \ {w}) \in Nat
    BY <2>2, FS_CardinalityType
  <2> QED
    BY <1>2, <2>1, <2>3
<1> QED
  BY <1>2, <1>3, <1>4

LEMMA LimiterInitial == Init => LimiterInv
<1> SUFFICES ASSUME Init PROVE LimiterInv
  OBVIOUS
<1>1. Cardinality(active) = 0
  BY FS_EmptySet DEF Init
<1> QED
  BY <1>1, LimiterAssumption DEF Init, LimiterInv, LimiterTypeOK

\* A worker that has held its slot for less than MaxHold sees the key outlive the
\* next time unit.
LEMMA KeyOutlivesHolder ==
  ASSUME MaxHold < TTL, LimiterInv, NEW w \in active, age[w] < MaxHold
  PROVE  ttl > 1
BY LimiterAssumption DEF LimiterInv, LimiterTypeOK

LEMMA LimiterStep ==
  ASSUME MaxHold < TTL, LimiterInv, [Next]_vars
  PROVE  LimiterInv'
<1> USE LimiterAssumption
<1> USE DEF LimiterInv, LimiterTypeOK
<1>1. ASSUME NEW w \in Workers, Acquire(w)
      PROVE  LimiterInv'
  <2>1. CASE Reserve /\ active' = active \cup {w}
    BY <1>1, <2>1, HoldersCounted DEF Acquire, Reserve
  <2>2. CASE Refuse /\ UNCHANGED active
    BY <1>1, <2>2 DEF Acquire, Refuse
  <2> QED
    BY <1>1, <2>1, <2>2 DEF Acquire
<1>2. ASSUME NEW w \in Workers, AcquireUnanswered(w)
      PROVE  LimiterInv'
  <2>1. Cardinality(active) \in Nat
    BY HoldersCounted
  <2>2. Cardinality(active') = Cardinality(active)
    BY <1>2 DEF AcquireUnanswered
  <2> QED
    BY <1>2, <2>1, <2>2 DEF AcquireUnanswered, Reserve
<1>3. ASSUME NEW w \in Workers, Release(w)
      PROVE  LimiterInv'
  BY <1>3, HoldersCounted DEF Release, Drop
<1>4. ASSUME NEW w \in Workers, Leak(w)
      PROVE  LimiterInv'
  BY <1>4, HoldersCounted DEF Leak, Drop
<1>5. CASE Tick
  <2>1. CASE active = {}
    <3>1. Cardinality(active') = 0
      BY <1>5, <2>1, FS_EmptySet DEF Tick
    <3> QED
      BY <1>5, <2>1, <3>1 DEF Tick
  <2>2. CASE active # {}
    <3>1. ttl > 1
      BY <1>5, <2>2, KeyOutlivesHolder DEF Tick
    <3> QED
      BY <1>5, <3>1 DEF Tick
  <2> QED
    BY <2>1, <2>2
<1>6. CASE UNCHANGED vars
  BY <1>6 DEF vars
<1> QED
  BY <1>1, <1>2, <1>3, <1>4, <1>5, <1>6 DEF Next

\* The counter stays between zero and the limit, and a counter above zero has a TTL, also
\* when workers outlive the key and release slots that are not counted any more.
THEOREM LimiterTypeCorrect == Spec => []LimiterTypeOK
<1> USE LimiterAssumption
<1> USE DEF LimiterTypeOK
<1>1. Init => LimiterTypeOK
  BY DEF Init
<1>2. ASSUME LimiterTypeOK, [Next]_vars
      PROVE  LimiterTypeOK'
  <2>1. ASSUME NEW w \in Workers, Acquire(w)
        PROVE  LimiterTypeOK'
    BY <1>2, <2>1 DEF Acquire, Reserve, Refuse
  <2>2. ASSUME NEW w \in Workers, AcquireUnanswered(w)
        PROVE  LimiterTypeOK'
    BY <1>2, <2>2 DEF AcquireUnanswered, Reserve
  <2>3. ASSUME NEW w \in Workers, Release(w) \/ Leak(w)
        PROVE  LimiterTypeOK'
    BY <1>2, <2>3 DEF Release, Leak, Drop
  <2>4. CASE Tick
    <3>1. age' \in [Workers -> 0..MaxHold]
      BY <1>2, <2>4 DEF Tick
    <3>2. count' \in 0..Limit /\ ttl' \in 0..TTL /\ (count' > 0 => ttl' > 0)
      BY <1>2, <2>4 DEF Tick
    <3> QED
      BY <1>2, <2>4, <3>1, <3>2 DEF Tick
  <2>5. CASE UNCHANGED vars
    BY <1>2, <2>5 DEF vars
  <2> QED
    BY <1>2, <2>1, <2>2, <2>3, <2>4, <2>5 DEF Next
<1> QED
  BY <1>1, <1>2, PTL DEF Spec

\* While a slot is never held for a whole TTL, every holder stays counted and the
\* key outlives it.
THEOREM HoldersStayCounted ==
  ASSUME MaxHold < TTL
  PROVE  Spec => []LimiterInv
<1>1. Init => LimiterInv
  BY LimiterInitial
<1>2. LimiterInv /\ [Next]_vars => LimiterInv'
  BY LimiterStep
<1> QED
  BY <1>1, <1>2, PTL DEF Spec

\* Then the campaign's limit is respected, whatever leaks, dies or expires.
THEOREM NeverOverLimit ==
  ASSUME MaxHold < TTL
  PROVE  Spec => []LimitRespected
<1>1. LimiterInv => LimitRespected
  <2> SUFFICES ASSUME LimiterInv PROVE LimitRespected
    OBVIOUS
  <2>1. IsFiniteSet(active)
    BY FS_Subset, LimiterAssumption DEF LimiterInv, LimiterTypeOK
  <2>2. Cardinality(active) \in Nat
    BY <2>1, FS_CardinalityType
  <2> QED
    BY <2>2, LimiterAssumption DEF LimiterInv, LimiterTypeOK, LimitRespected
<1> QED
  BY <1>1, HoldersStayCounted, PTL

\* Every step of the limiter is a step of the semaphore or invisible to it.
LEMMA LimiterStepRefines ==
  ASSUME LimiterInv, [Next]_vars
  PROVE  [Slots!SlotsNext]_active
<1> USE DEF Slots!SlotsNext, Slots!Enter, Slots!Leave
<1>1. ASSUME NEW w \in Workers, Acquire(w)
      PROVE  [Slots!SlotsNext]_active
  <2>1. CASE Reserve /\ active' = active \cup {w}
    <3>1. Cardinality(active) \in Nat /\ Cardinality(active) <= count
      BY HoldersCounted DEF LimiterInv
    <3>2. count \in Nat /\ count < Limit
      BY <2>1 DEF Reserve, LimiterInv, LimiterTypeOK
    <3>3. Cardinality(active) < Limit
      BY <3>1, <3>2, LimiterAssumption
    <3>4. Slots!Cardinality(active) = Cardinality(active)
      BY DEF Cardinality, Slots!Cardinality
    <3> QED
      BY <1>1, <2>1, <3>3, <3>4 DEF Acquire
  <2>2. CASE UNCHANGED active
    BY <2>2
  <2> QED
    BY <1>1, <2>1, <2>2 DEF Acquire
<1>2. ASSUME NEW w \in Workers, Drop(w)
      PROVE  [Slots!SlotsNext]_active
  BY <1>2 DEF Drop
<1>3. CASE UNCHANGED active
  BY <1>3
<1> QED
  BY <1>1, <1>2, <1>3 DEF Next, vars, AcquireUnanswered, Release, Leak, Tick

\* The Redis counter with its TTL implements the semaphore.
THEOREM LimiterImplementsSlots ==
  ASSUME MaxHold < TTL
  PROVE  Spec => ImplementsSlots
<1>1. Init => Slots!SlotsInit
  BY DEF Init, Slots!SlotsInit
<1>2. LimiterInv /\ [Next]_vars => [Slots!SlotsNext]_active
  BY LimiterStepRefines
<1> QED
  BY <1>1, <1>2, HoldersStayCounted, PTL DEF Spec, ImplementsSlots, Slots!SlotsSpec
=============================================================================
