------------------------- MODULE CallPipelineProofs -------------------------
(***************************************************************************)
(* Proofs about CallPipeline for every set of calls and partitions, every  *)
(* retry policy, limit and fault bound: what the operations of module      *)
(* Kafka do to a topic, the type invariant and the attempt budget, what    *)
(* each service writes to the topics, that every repeated attempt follows  *)
(* a published, retryable failure of the attempt before it, and how many   *)
(* messages the errors of the backends may cost.                           *)
(***************************************************************************)
EXTENDS CallPipeline, CountingProofs, TLAPS

-----------------------------------------------------------------------------
(* The topics *)

\* A topic of freshly created partitions is well formed and holds no message.
LEMMA EmptyTopic ==
  ASSUME NEW P, NEW M
  PROVE  /\ [p \in P |-> EmptyPartition] \in OrderedTopics(P, M)
         /\ Written([p \in P |-> EmptyPartition]) = {}
<1>1. EmptyPartition \in Partition(M) /\ Ordered(EmptyPartition)
  BY DEF EmptyPartition, Partition, Ordered
<1>2. Written([p \in P |-> EmptyPartition]) = {}
  BY DEF EmptyPartition, Written
<1> QED BY <1>1, <1>2 DEF OrderedTopics, Topics

\* A message of a topic is an element of one of its logs.
LEMMA WrittenMember ==
  ASSUME NEW P, NEW M, NEW t \in Topics(P, M)
  PROVE  /\ \A m \in Written(t) : m \in M /\ \E p \in P : \E i \in 1..Len(t[p].log) : m = t[p].log[i]
         /\ \A p \in P : \A i \in 1..Len(t[p].log) : t[p].log[i] \in Written(t)
<1>1. DOMAIN t = P /\ \A p \in P : t[p].log \in Seq(M) /\ DOMAIN t[p].log = 1..Len(t[p].log)
  BY DEF Topics, Partition
<1>2. \A m \in Written(t) : \E p \in P : \E i \in 1..Len(t[p].log) : m = t[p].log[i]
  BY <1>1 DEF Written
<1>3. \A p \in P : \A i \in 1..Len(t[p].log) : t[p].log[i] \in Written(t)
  BY <1>1 DEF Written
<1>4. \A p \in P : \A i \in 1..Len(t[p].log) : t[p].log[i] \in M
  BY <1>1
<1> QED BY <1>2, <1>3, <1>4

\* u is topic t with message m appended to one of its partitions.
Appended(P, M, t, u, m) ==
  /\ u \in OrderedTopics(P, M)
  /\ Written(u) = Written(t) \cup {m}
  /\ \A q \in P : /\ u[q].fetched = t[q].fetched
                  /\ u[q].acked = t[q].acked
                  /\ u[q].committed = t[q].committed
                  /\ Len(t[q].log) <= Len(u[q].log)
                  /\ \A i \in 1..Len(t[q].log) : u[q].log[i] = t[q].log[i]

\* Writing appends: the old messages keep their offsets and nothing is forgotten.
LEMMA WriteKeepsOrder ==
  ASSUME NEW P, NEW M, NEW t \in OrderedTopics(P, M), NEW p \in P, NEW m \in M
  PROVE  Appended(P, M, t, WriteMessages(t, p, m), m)
<1> DEFINE u == WriteMessages(t, p, m)
<1>1. t \in Topics(P, M) /\ \A q \in P : Ordered(t[q])
  BY DEF OrderedTopics
<1>2. \A q \in P : t[q] \in Partition(M) /\ t[q].log \in Seq(M) /\ Len(t[q].log) \in Nat
  BY <1>1 DEF Topics, Partition
<1>3. u = [t EXCEPT ![p] = [t[p] EXCEPT !.log = Append(t[p].log, m)]]
  BY DEF WriteMessages
<1> HIDE DEF u
<1>4. u[p] = [t[p] EXCEPT !.log = Append(t[p].log, m)]
  BY <1>1, <1>3 DEF Topics
<1>5. \A q \in P : q # p => u[q] = t[q]
  BY <1>1, <1>3 DEF Topics
<1>6. u[p].log = Append(t[p].log, m)
  BY <1>2, <1>4 DEF Partition
<1>7. /\ u[p].fetched = t[p].fetched
      /\ u[p].acked = t[p].acked
      /\ u[p].committed = t[p].committed
  BY <1>2, <1>4 DEF Partition
<1>8. /\ Len(u[p].log) = Len(t[p].log) + 1
      /\ \A i \in 1..Len(t[p].log) : u[p].log[i] = t[p].log[i]
      /\ u[p].log[Len(t[p].log) + 1] = m
      /\ u[p].log \in Seq(M)
  BY <1>2, <1>6
<1>9. u[p] \in Partition(M)
  BY <1>2, <1>4, <1>8, <1>6 DEF Partition
<1>10. u \in Topics(P, M)
  BY <1>1, <1>3, <1>9, <1>5, <1>2 DEF Topics
<1>11. \A q \in P : Ordered(u[q])
  BY <1>1, <1>2, <1>5, <1>7, <1>8 DEF Ordered, Partition
<1>12. \A q \in P : Len(t[q].log) <= Len(u[q].log)
                    /\ \A i \in 1..Len(t[q].log) : u[q].log[i] = t[q].log[i]
  BY <1>2, <1>5, <1>8
<1>13. Written(t) \subseteq Written(u)
  <2> SUFFICES ASSUME NEW x \in Written(t) PROVE x \in Written(u)
    OBVIOUS
  <2>a. PICK q \in P : \E i \in 1..Len(t[q].log) : x = t[q].log[i]
    BY <1>1, WrittenMember
  <2>1. PICK i \in 1..Len(t[q].log) : x = t[q].log[i]
    BY <2>a
  <2>2. i \in 1..Len(u[q].log) /\ x = u[q].log[i]
    BY <2>1, <1>12, <1>2, <1>8, <1>5
  <2> QED BY <2>2, <1>10, WrittenMember
<1>14. m \in Written(u)
  <2>1. Len(t[p].log) + 1 \in 1..Len(u[p].log)
    BY <1>2, <1>8
  <2> QED BY <2>1, <1>8, <1>10, WrittenMember
<1>15. Written(u) \subseteq Written(t) \cup {m}
  <2> SUFFICES ASSUME NEW x \in Written(u), x # m PROVE x \in Written(t)
    OBVIOUS
  <2>a. PICK q \in P : \E i \in 1..Len(u[q].log) : x = u[q].log[i]
    BY <1>10, WrittenMember
  <2>1. PICK i \in 1..Len(u[q].log) : x = u[q].log[i]
    BY <2>a
  <2>2. i \in 1..Len(t[q].log) /\ x = t[q].log[i]
    BY <2>1, <1>2, <1>5, <1>8
  <2> QED BY <2>2, <1>1, WrittenMember
<1>16. \A q \in P : /\ u[q].fetched = t[q].fetched
                    /\ u[q].acked = t[q].acked
                    /\ u[q].committed = t[q].committed
  BY <1>5, <1>7
<1>17. u \in OrderedTopics(P, M)
  BY <1>10, <1>11 DEF OrderedTopics
<1> QED BY <1>12, <1>13, <1>14, <1>15, <1>16, <1>17 DEF u, Appended

\* Partition p with its offsets replaced.
SetOffsets(t, p, f, a, k) ==
  [t EXCEPT ![p] = [t[p] EXCEPT !.fetched = f, !.acked = a, !.committed = k]]

\* u is topic t after a reader operation on partition p set its offsets.
Moved(P, M, t, u, p, f, a, k) ==
  /\ u \in OrderedTopics(P, M)
  /\ Written(u) = Written(t)
  /\ \A q \in P : u[q].log = t[q].log
  /\ \A q \in P \ {p} : u[q] = t[q]
  /\ u[p].fetched = f /\ u[p].acked = a /\ u[p].committed = k

\* The reader operations move offsets only: they keep every log, and the order of the
\* offsets as long as a message is fetched only where there is one.
LEMMA OffsetsKeepOrder ==
  ASSUME NEW P, NEW M, NEW t \in OrderedTopics(P, M), NEW p \in P,
         NEW f \in Nat, NEW a \in Nat, NEW k \in Nat,
         k <= a, a <= f, f <= Len(t[p].log)
  PROVE  Moved(P, M, t, SetOffsets(t, p, f, a, k), p, f, a, k)
<1> DEFINE u == SetOffsets(t, p, f, a, k)
<1>0. u = [t EXCEPT ![p] = [t[p] EXCEPT !.fetched = f, !.acked = a, !.committed = k]]
  BY DEF SetOffsets
<1> HIDE DEF u
<1>1. t \in Topics(P, M) /\ \A q \in P : Ordered(t[q]) /\ t[q] \in Partition(M)
  BY DEF OrderedTopics, Topics
<1>2. u[p] = [t[p] EXCEPT !.fetched = f, !.acked = a, !.committed = k] /\ DOMAIN u = P
  BY <1>0, <1>1 DEF Topics
<1>3. \A q \in P \ {p} : u[q] = t[q]
  BY <1>0, <1>1 DEF Topics
<1>4. u[p].log = t[p].log /\ u[p].fetched = f /\ u[p].acked = a /\ u[p].committed = k
  BY <1>1, <1>2 DEF Partition
<1>5. u[p] \in Partition(M)
  BY <1>1, <1>2 DEF Partition
<1>6. u \in Topics(P, M)
  BY <1>0, <1>1, <1>5, <1>3 DEF Topics
<1>7. \A q \in P : Ordered(u[q])
  BY <1>1, <1>3, <1>4 DEF Ordered
<1>8. \A q \in P : u[q].log = t[q].log
  BY <1>3, <1>4
<1>9. Written(u) = Written(t)
  BY <1>1, <1>2, <1>8 DEF Written, Topics
<1> QED BY <1>3, <1>4, <1>6, <1>7, <1>8, <1>9 DEF OrderedTopics, u, Moved

\* Fetching the next message moves the read position by one.
LEMMA FetchKeepsOrder ==
  ASSUME NEW P, NEW M, NEW t \in OrderedTopics(P, M), NEW p \in P, HasNext(t[p])
  PROVE  Moved(P, M, t, FetchMessage(t, p), p, t[p].fetched + 1, t[p].acked, t[p].committed)
<1> DEFINE u == FetchMessage(t, p)
<1>1. t \in Topics(P, M) /\ t[p] \in Partition(M) /\ Ordered(t[p])
  BY DEF OrderedTopics, Topics
<1>2. /\ t[p].fetched \in Nat /\ t[p].acked \in Nat /\ t[p].committed \in Nat
      /\ Len(t[p].log) \in Nat
  BY <1>1 DEF Partition
<1>3. [t[p] EXCEPT !.fetched = t[p].fetched + 1]
        = [t[p] EXCEPT !.fetched = t[p].fetched + 1, !.acked = t[p].acked,
                       !.committed = t[p].committed]
  BY <1>1 DEF Partition
<1>4. u = [t EXCEPT ![p] = [t[p] EXCEPT !.fetched = t[p].fetched + 1]]
  BY DEF FetchMessage
<1>5. u = SetOffsets(t, p, t[p].fetched + 1, t[p].acked, t[p].committed)
  BY <1>3, <1>4 DEF SetOffsets
<1> HIDE DEF u
<1>6. /\ t[p].fetched + 1 \in Nat /\ t[p].fetched + 1 <= Len(t[p].log)
      /\ t[p].committed <= t[p].acked /\ t[p].acked <= t[p].fetched + 1
  BY <1>1, <1>2 DEF Ordered, HasNext
<1>7. Moved(P, M, t, u, p, t[p].fetched + 1, t[p].acked, t[p].committed)
  BY <1>2, <1>5, <1>6, OffsetsKeepOrder
<1> QED BY <1>7 DEF u

\* Committing the message in flight acknowledges everything up to it.
LEMMA CommitKeepsOrder ==
  ASSUME NEW P, NEW M, NEW t \in OrderedTopics(P, M), NEW p \in P
  PROVE  Moved(P, M, t, CommitMessages(t, p), p, t[p].fetched, t[p].fetched, t[p].committed)
<1> DEFINE u == CommitMessages(t, p)
<1>1. t \in Topics(P, M) /\ t[p] \in Partition(M) /\ Ordered(t[p])
  BY DEF OrderedTopics, Topics
<1>2. /\ t[p].fetched \in Nat /\ t[p].acked \in Nat /\ t[p].committed \in Nat
      /\ Len(t[p].log) \in Nat
  BY <1>1 DEF Partition
<1>3. [t[p] EXCEPT !.acked = t[p].fetched]
        = [t[p] EXCEPT !.fetched = t[p].fetched, !.acked = t[p].fetched,
                       !.committed = t[p].committed]
  BY <1>1 DEF Partition
<1>4. u = [t EXCEPT ![p] = [t[p] EXCEPT !.acked = t[p].fetched]]
  BY DEF CommitMessages
<1>5. u = SetOffsets(t, p, t[p].fetched, t[p].fetched, t[p].committed)
  BY <1>3, <1>4 DEF SetOffsets
<1> HIDE DEF u
<1>6. /\ t[p].fetched <= Len(t[p].log) /\ t[p].committed <= t[p].fetched
      /\ t[p].fetched <= t[p].fetched
  BY <1>1, <1>2 DEF Ordered
<1>7. Moved(P, M, t, u, p, t[p].fetched, t[p].fetched, t[p].committed)
  BY <1>2, <1>5, <1>6, OffsetsKeepOrder
<1> QED BY <1>7 DEF u

\* Flushing makes the acknowledged offset the stored one.
LEMMA FlushKeepsOrder ==
  ASSUME NEW P, NEW M, NEW t \in OrderedTopics(P, M), NEW p \in P
  PROVE  Moved(P, M, t, FlushCommits(t, p), p, t[p].fetched, t[p].acked, t[p].acked)
<1> DEFINE u == FlushCommits(t, p)
<1>1. t \in Topics(P, M) /\ t[p] \in Partition(M) /\ Ordered(t[p])
  BY DEF OrderedTopics, Topics
<1>2. /\ t[p].fetched \in Nat /\ t[p].acked \in Nat /\ t[p].committed \in Nat
      /\ Len(t[p].log) \in Nat
  BY <1>1 DEF Partition
<1>3. [t[p] EXCEPT !.committed = t[p].acked]
        = [t[p] EXCEPT !.fetched = t[p].fetched, !.acked = t[p].acked,
                       !.committed = t[p].acked]
  BY <1>1 DEF Partition
<1>4. u = [t EXCEPT ![p] = [t[p] EXCEPT !.committed = t[p].acked]]
  BY DEF FlushCommits
<1>5. u = SetOffsets(t, p, t[p].fetched, t[p].acked, t[p].acked)
  BY <1>3, <1>4 DEF SetOffsets
<1> HIDE DEF u
<1>6. /\ t[p].fetched <= Len(t[p].log) /\ t[p].acked <= t[p].fetched
      /\ t[p].acked <= t[p].acked
  BY <1>1, <1>2 DEF Ordered
<1>7. Moved(P, M, t, u, p, t[p].fetched, t[p].acked, t[p].acked)
  BY <1>2, <1>5, <1>6, OffsetsKeepOrder
<1> QED BY <1>7 DEF u

\* A reader that joins starts at the stored offset.
LEMMA RejoinKeepsOrder ==
  ASSUME NEW P, NEW M, NEW t \in OrderedTopics(P, M), NEW p \in P
  PROVE  Moved(P, M, t, Rejoin(t, p), p, t[p].committed, t[p].committed, t[p].committed)
<1> DEFINE u == Rejoin(t, p)
<1>1. t \in Topics(P, M) /\ t[p] \in Partition(M) /\ Ordered(t[p])
  BY DEF OrderedTopics, Topics
<1>2. /\ t[p].fetched \in Nat /\ t[p].acked \in Nat /\ t[p].committed \in Nat
      /\ Len(t[p].log) \in Nat
  BY <1>1 DEF Partition
<1>3. u = SetOffsets(t, p, t[p].committed, t[p].committed, t[p].committed)
  <2>1. [t[p] EXCEPT !.fetched = t[p].committed, !.acked = t[p].committed]
          = [t[p] EXCEPT !.fetched = t[p].committed, !.acked = t[p].committed,
                         !.committed = t[p].committed]
    BY <1>1 DEF Partition
  <2>2. u = [t EXCEPT ![p] = [t[p] EXCEPT !.fetched = t[p].committed, !.acked = t[p].committed]]
    BY <1>1 DEF Rejoin, Topics
  <2> QED BY <2>1, <2>2 DEF SetOffsets
<1> HIDE DEF u
<1>4. t[p].committed <= Len(t[p].log) /\ t[p].committed <= t[p].committed
  BY <1>1, <1>2 DEF Ordered
<1>5. Moved(P, M, t, u, p, t[p].committed, t[p].committed, t[p].committed)
  BY <1>2, <1>3, <1>4, OffsetsKeepOrder
<1> QED BY <1>5 DEF u

\* Closing a reader and starting the next one keeps the acknowledged offset.
LEMMA CloseKeepsOrder ==
  ASSUME NEW P, NEW M, NEW t \in OrderedTopics(P, M), NEW p \in P
  PROVE  Moved(P, M, t, CloseAndRejoin(t, p), p, t[p].acked, t[p].acked, t[p].acked)
<1> DEFINE v == FlushCommits(t, p)
           u == Rejoin(v, p)
<1>1. Moved(P, M, t, v, p, t[p].fetched, t[p].acked, t[p].acked)
  BY FlushKeepsOrder
<1>2. v \in OrderedTopics(P, M)
  BY <1>1 DEF Moved
<1>3. Moved(P, M, v, u, p, v[p].committed, v[p].committed, v[p].committed)
  BY <1>2, RejoinKeepsOrder
<1>4. u = CloseAndRejoin(t, p)
  BY DEF CloseAndRejoin
<1> HIDE DEF u, v
<1> QED BY <1>1, <1>3, <1>4 DEF Moved

\* The message in flight is one of the messages of the topic.
LEMMA InFlightWritten ==
  ASSUME NEW P, NEW M, NEW t \in OrderedTopics(P, M), NEW p \in P, t[p].fetched > 0
  PROVE  /\ InFlight(t[p]) \in M
         /\ InFlight(t[p]) \in Written(t)
         /\ t[p].fetched \in 1..Len(t[p].log)
<1>1. t \in Topics(P, M) /\ t[p] \in Partition(M) /\ Ordered(t[p])
  BY DEF OrderedTopics, Topics
<1>2. t[p].fetched \in 1..Len(t[p].log)
  BY <1>1 DEF Ordered, Partition
<1>3. InFlight(t[p]) \in Written(t)
  BY <1>1, <1>2, WrittenMember DEF InFlight
<1> QED BY <1>1, <1>2, <1>3, WrittenMember

\* Writing to a topic does not change what its readers have in flight.
LEMMA AppendKeepsInFlight ==
  ASSUME NEW P, NEW M, NEW t \in OrderedTopics(P, M), NEW u, NEW m,
         Appended(P, M, t, u, m), NEW p \in P, t[p].fetched > 0
  PROVE  InFlight(u[p]) = InFlight(t[p])
<1>1. t[p].fetched \in 1..Len(t[p].log)
  BY InFlightWritten
<1> QED BY <1>1 DEF Appended, InFlight

\* The messages a reader has gone past are among the messages written.
LEMMA AckedWritten ==
  ASSUME NEW P, NEW M, NEW t \in OrderedTopics(P, M), NEW p \in P,
         NEW i \in 1..t[p].acked
  PROVE  /\ i \in 1..Len(t[p].log)
         /\ t[p].log[i] \in M
         /\ t[p].log[i] \in Written(t)
<1>1. t \in Topics(P, M) /\ t[p] \in Partition(M) /\ Ordered(t[p])
  BY DEF OrderedTopics, Topics
<1>2. i \in 1..Len(t[p].log)
  BY <1>1 DEF Ordered, Partition
<1> QED BY <1>1, <1>2, WrittenMember

\* A topic with messages in M is a topic with messages in any larger set.
LEMMA WidenTopic ==
  ASSUME NEW P, NEW M, NEW N, M \subseteq N, NEW t \in OrderedTopics(P, M)
  PROVE  t \in [P -> Partition(N)]
<1>1. \A s \in Seq(M) : s \in Seq(N)
  OBVIOUS
<1> QED BY <1>1 DEF OrderedTopics, Topics, Partition

-----------------------------------------------------------------------------
(* The messages *)

\* The first dispatch of a call respects its budget.
LEMMA FirstDispatchBudgeted ==
  ASSUME NEW c \in Calls
  PROVE  FirstDispatch(c) \in BudgetedDispatch
<1>1. MaxAttempts[c] \in Nat
  BY ConstantsAssumption
<1> QED BY <1>1 DEF FirstDispatch, BudgetedDispatch, DispatchMessage

\* The outcome of a dispatched attempt is about that attempt, and is retryable only
\* if it is a failure below the limit.
LEMMA StatusOfBudgeted ==
  ASSUME NEW d \in BudgetedDispatch, NEW r \in PlaceCall
  PROVE  /\ StatusOf(d, r) \in BudgetedStatus
         /\ StatusOf(d, r).call = d.call
         /\ StatusOf(d, r).attempt = d.attempt
<1>1. /\ d.call \in Calls /\ d.attempt \in Nat /\ d.maxAttempts \in Nat
      /\ d.attempt >= 1 /\ d.maxAttempts <= MaxAttempts[d.call]
  BY DEF BudgetedDispatch, DispatchMessage
<1>2. MaxAttempts[d.call] \in Nat
  BY <1>1, ConstantsAssumption
<1> DEFINE s == StatusOf(d, r)
<1>3. /\ s.call = d.call /\ s.attempt = d.attempt /\ s.maxAttempts = d.maxAttempts
      /\ s.status \in FinalStatuses /\ s.retryable \in BOOLEAN
      /\ s.retryable => s.status = "failed" /\ d.attempt < d.maxAttempts
  <2>1. /\ s.call = d.call /\ s.attempt = d.attempt /\ s.maxAttempts = d.maxAttempts
        /\ s.status = IF r.callErr /\ r.noText THEN "failed" ELSE r.status
        /\ s.retryable = ((d.attempt < d.maxAttempts)
                             /\ ((r.callErr /\ r.noText) \/ r.retryable))
    BY DEF StatusOf
  <2>2. CASE r = Result("completed", FALSE, TRUE, FALSE)
    BY <2>1, <2>2 DEF Result, FinalStatuses
  <2>3. CASE r = Result("failed", TRUE, FALSE, FALSE)
    BY <2>1, <2>3 DEF Result, FinalStatuses
  <2>4. CASE r = Result("failed", TRUE, FALSE, TRUE)
    BY <2>1, <2>4 DEF Result, FinalStatuses
  <2> QED BY <2>2, <2>3, <2>4 DEF PlaceCall
<1>4. s \in StatusMessage(Calls)
  BY <1>1, <1>3 DEF StatusOf, StatusMessage
<1> QED BY <1>1, <1>2, <1>3, <1>4 DEF BudgetedStatus

\* A scheduled retry is the next attempt, and within the budget.
LEMMA RetryOfBudgeted ==
  ASSUME NEW m \in BudgetedStatus, m.retryable
  PROVE  /\ RetryOf(m) \in BudgetedRetry
         /\ RetryOf(m).call = m.call
         /\ RetryOf(m).attempt = m.attempt + 1
<1>1. /\ m.call \in Calls /\ m.attempt \in Nat /\ m.maxAttempts \in Nat
      /\ m.attempt >= 1 /\ m.attempt < MaxAttempts[m.call]
  BY DEF BudgetedStatus, StatusMessage
<1>2. MaxAttempts[m.call] \in Nat
  BY <1>1, ConstantsAssumption
<1>3. RetryOf(m) = [call |-> m.call, attempt |-> m.attempt + 1, maxAttempts |-> m.maxAttempts]
  BY DEF RetryOf, MarshalRetry, RetryMessage, NextDispatch
<1> QED BY <1>1, <1>2, <1>3 DEF BudgetedRetry, DispatchMessage

\* The dispatch message made of a retry is about the same attempt.
LEMMA RedispatchBudgeted ==
  ASSUME NEW r \in BudgetedRetry
  PROVE  /\ Redispatch(r) \in BudgetedDispatch
         /\ Redispatch(r).call = r.call
         /\ Redispatch(r).attempt = r.attempt
<1>1. /\ r.call \in Calls /\ r.attempt \in Nat
      /\ r.attempt > 1 /\ r.attempt <= MaxAttempts[r.call]
  BY DEF BudgetedRetry, DispatchMessage
<1>2. MaxAttempts[r.call] \in Nat
  BY <1>1, ConstantsAssumption
<1>3. Redispatch(r) = [call |-> r.call, attempt |-> r.attempt, maxAttempts |-> 0]
  BY DEF Redispatch, UnmarshalRetry, RetryMessage
<1> QED BY <1>1, <1>2, <1>3 DEF BudgetedDispatch, DispatchMessage

\* A delta leaves the statistics row a row of integers.
LEMMA ApplyDeltaType ==
  ASSUME stats \in StatsRow, NEW delta \in StatsRow
  PROVE  ApplyDelta(delta) \in StatsRow
<1>1. DOMAIN stats = {"total", "completed", "failed", "pending", "retries"}
  BY DEF StatsRow
<1>2. \A f \in DOMAIN stats : stats[f] + delta[f] \in Int
  BY <1>1 DEF StatsRow
<1>3. ApplyDelta(delta) =
        [total |-> stats.total + delta.total, completed |-> stats.completed + delta.completed,
         failed |-> stats.failed + delta.failed, pending |-> stats.pending + delta.pending,
         retries |-> stats.retries + delta.retries]
  BY <1>1 DEF ApplyDelta
<1> QED BY <1>1, <1>2, <1>3 DEF StatsRow

\* The deltas of the services are integer rows.
LEMMA DeltaTypes ==
  /\ CountDelta \in StatsRow
  /\ UndoDelta \in StatsRow
  /\ \A m \in BudgetedStatus : StatsDelta(m) \in StatsRow
<1>1. \A a, b, c, d, e \in Int : StatsOf(a, b, c, d, e) \in StatsRow
  BY DEF StatsOf, StatsRow
<1>2. CountDelta \in StatsRow /\ UndoDelta \in StatsRow
  BY <1>1 DEF CountDelta, UndoDelta
<1>3. \A m \in BudgetedStatus : StatsDelta(m) \in StatsRow
  BY <1>1 DEF StatsDelta
<1> QED BY <1>2, <1>3

-----------------------------------------------------------------------------
(* PipelineInv: types, ordered offsets and budgeted messages, under any faults *)

\* The invariant holds before anything has been triggered.
LEMMA InitPipeline == Init => PipelineInv
<1> SUFFICES ASSUME Init PROVE PipelineInv
  OBVIOUS
<1>1. DispatchInv
  <2>1. dispatchT \in OrderedTopics(DispatchParts, BudgetedDispatch)
    BY EmptyTopic DEF Init
  <2> QED BY <2>1 DEF Init, DispatchInv, HoldsDispatch, CallPcs
<1>2. StatusInv
  <2>1. statusT \in OrderedTopics(StatusParts, BudgetedStatus)
    BY EmptyTopic DEF Init
  <2> QED BY <2>1 DEF Init, StatusInv, StatusPcs
<1>3. RetryInv
  <2>1. retryT \in OrderedTopics(RetryLanes, BudgetedRetry)
    BY EmptyTopic DEF Init
  <2> QED BY <2>1 DEF Init, RetryInv, RetryPcs
<1>4. StoreInv
  BY DEF Init, StoreInv, TrigPcs, CallRow, StatsRow, StatsOf, FaultLists
<1> QED BY <1>1, <1>2, <1>3, <1>4 DEF PipelineInv

\* The record of the faults stays one.
LEMMA FaultType ==
  ASSUME faults \in FaultLists, NEW k, NEW w, Failing(k, w) \/ Fault(k) \/ NoFault
  PROVE  faults' \in FaultLists
<1>1. CASE Fault(k)
  BY <1>1, ConstantsAssumption DEF Fault, FaultLists
<1>2. CASE NoFault
  BY <1>2 DEF NoFault
<1> QED BY <1>1, <1>2 DEF Failing

\* A new dispatch message disturbs no call worker.
LEMMA DispatchAppend ==
  ASSUME DispatchInv, NEW p \in DispatchParts, NEW m \in BudgetedDispatch,
         dispatchT' = WriteMessages(dispatchT, p, m), UNCHANGED <<cwPc, cwOut>>
  PROVE  /\ DispatchInv'
         /\ Appended(DispatchParts, BudgetedDispatch, dispatchT, dispatchT', m)
<1>1. dispatchT \in OrderedTopics(DispatchParts, BudgetedDispatch)
  BY DEF DispatchInv
<1>2. Appended(DispatchParts, BudgetedDispatch, dispatchT, dispatchT', m)
  BY <1>1, WriteKeepsOrder
<1>3. /\ dispatchT' \in OrderedTopics(DispatchParts, BudgetedDispatch)
      /\ \A q \in DispatchParts : dispatchT'[q].fetched = dispatchT[q].fetched
  BY <1>2 DEF Appended
<1>4. \A q \in DispatchParts : dispatchT[q].fetched > 0 =>
         InFlight(dispatchT'[q]) = InFlight(dispatchT[q])
  BY <1>1, <1>2, AppendKeepsInFlight
<1> QED BY <1>2, <1>3, <1>4 DEF DispatchInv, HoldsDispatch

\* A step of TriggerCall, or its end by a crash, keeps the invariant.
LEMMA TriggerKeeps ==
  ASSUME PipelineInv, NEW c \in Calls, TriggerCall(c) \/ CrashCaller(c)
  PROVE  PipelineInv'
<1> USE DEF PipelineInv
<1>1. CASE CreateCall(c)
  <2>1. UNCHANGED <<topicVars, workerVars>> /\ UNCHANGED <<attemptRows, stats, slots, stopping>>
    BY <1>1 DEF CreateCall
  <2>2. QueuedRow \in CallRow
    BY DEF QueuedRow, CallRow
  <2>3. StoreInv'
    BY <1>1, <2>1, <2>2, FaultType DEF CreateCall, StoreInv, TrigPcs
  <2> QED BY <2>1, <2>3 DEF topicVars, workerVars, DispatchInv, StatusInv, RetryInv, HoldsDispatch
<1>2. CASE CountCall(c)
  <2>1. UNCHANGED <<topicVars, workerVars>> /\ UNCHANGED <<calls, attemptRows, slots, stopping>>
    BY <1>2 DEF CountCall
  <2>2. ApplyDelta(CountDelta) \in StatsRow
    BY DeltaTypes, ApplyDeltaType DEF StoreInv
  <2>3. StoreInv'
    BY <1>2, <2>1, <2>2, FaultType DEF CountCall, StoreInv, TrigPcs
  <2> QED BY <2>1, <2>3 DEF topicVars, workerVars, DispatchInv, StatusInv, RetryInv, HoldsDispatch
<1>3. CASE EnqueueCall(c)
  <2>1. UNCHANGED <<statusT, retryT, storeVars, workerVars, slots, stopping>>
    BY <1>3 DEF EnqueueCall
  <2>2. DispatchInv'
    <3>1. CASE UNCHANGED dispatchT
      BY <3>1, <2>1 DEF workerVars, DispatchInv, HoldsDispatch
    <3>2. CASE \E p \in DispatchParts : dispatchT' = WriteMessages(dispatchT, p, FirstDispatch(c))
      BY <3>2, <2>1, FirstDispatchBudgeted, DispatchAppend DEF workerVars
    <3> QED BY <1>3, <3>1, <3>2 DEF EnqueueCall
  <2>3. StoreInv'
    BY <1>3, <2>1, FaultType DEF EnqueueCall, StoreInv, TrigPcs, storeVars
  <2> QED BY <2>1, <2>2, <2>3 DEF workerVars, StatusInv, RetryInv
<1>4. CASE UndoPending(c)
  <2>1. UNCHANGED <<topicVars, workerVars>> /\ UNCHANGED <<calls, attemptRows, slots, stopping>>
    BY <1>4 DEF UndoPending
  <2>2. ApplyDelta(UndoDelta) \in StatsRow
    BY DeltaTypes, ApplyDeltaType DEF StoreInv
  <2>3. StoreInv'
    BY <1>4, <2>1, <2>2, FaultType DEF UndoPending, StoreInv, TrigPcs
  <2> QED BY <2>1, <2>3 DEF topicVars, workerVars, DispatchInv, StatusInv, RetryInv, HoldsDispatch
<1>5. CASE CrashCaller(c)
  <2>1. UNCHANGED <<topicVars, workerVars>> /\ UNCHANGED <<storeVars, slots, stopping>>
    BY <1>5 DEF CrashCaller
  <2>2. StoreInv'
    BY <1>5, <2>1, FaultType DEF CrashCaller, StoreInv, TrigPcs, storeVars
  <2> QED BY <2>1, <2>2 DEF topicVars, workerVars, DispatchInv, StatusInv, RetryInv, HoldsDispatch
<1> QED BY <1>1, <1>2, <1>3, <1>4, <1>5 DEF TriggerCall, TriggerCallStep

\* What a call worker leaves alone in every step keeps its part of the invariant.
LEMMA CallWorkerFrame ==
  ASSUME PipelineInv, DispatchInv', slots' \in Nat, faults' \in FaultLists, stopping' \subseteq Consumers,
         statusT' \in OrderedTopics(StatusParts, BudgetedStatus),
         \A p \in StatusParts : statusT'[p].fetched = statusT[p].fetched,
         UNCHANGED <<retryT, storeVars, swPc, rwPc, trig>>
  PROVE  PipelineInv'
BY DEF PipelineInv, StatusInv, RetryInv, StoreInv, storeVars

\* A reader operation on p that leaves its worker idle or releasing keeps DispatchInv.
LEMMA CallWorkerLetsGo ==
  ASSUME DispatchInv, NEW p \in DispatchParts, NEW f, NEW a, NEW k,
         Moved(DispatchParts, BudgetedDispatch, dispatchT, dispatchT', p, f, a, k),
         cwPc' \in {[cwPc EXCEPT ![p] = "idle"], [cwPc EXCEPT ![p] = "release"]},
         cwOut' \in {cwOut, [cwOut EXCEPT ![p] = NoOutcome]}
  PROVE  DispatchInv'
<1>1. /\ dispatchT' \in OrderedTopics(DispatchParts, BudgetedDispatch)
      /\ \A q \in DispatchParts \ {p} : dispatchT'[q] = dispatchT[q]
  BY DEF Moved
<1>2. /\ cwPc' \in [DispatchParts -> CallPcs]
      /\ cwPc'[p] \in {"idle", "release"}
      /\ \A q \in DispatchParts \ {p} : cwPc'[q] = cwPc[q]
  BY DEF DispatchInv, CallPcs
<1>3. /\ cwOut' \in [DispatchParts -> BudgetedStatus \cup {NoOutcome}]
      /\ \A q \in DispatchParts \ {p} : cwOut'[q] = cwOut[q]
  BY DEF DispatchInv
<1> QED BY <1>1, <1>2, <1>3 DEF DispatchInv, HoldsDispatch

\* A step of a call worker keeps the invariant.
LEMMA CallWorkerKeeps ==
  ASSUME PipelineInv, NEW p \in DispatchParts,
         CallWorkerStep(p) \/ CWCrash(p) \/ CWShutdown(p) \/ CWClose(p) \/ CWFlush(p)
  PROVE  PipelineInv'
<1> DEFINE same == /\ UNCHANGED <<retryT, storeVars, swPc, rwPc, trig>>
                   /\ UNCHANGED statusT
<1>1. /\ DispatchInv /\ StatusInv /\ StoreInv
      /\ dispatchT \in OrderedTopics(DispatchParts, BudgetedDispatch)
      /\ statusT \in OrderedTopics(StatusParts, BudgetedStatus)
      /\ cwPc \in [DispatchParts -> CallPcs]
      /\ cwOut \in [DispatchParts -> BudgetedStatus \cup {NoOutcome}]
      /\ slots \in Nat /\ faults \in FaultLists /\ stopping \subseteq Consumers
  BY DEF PipelineInv, DispatchInv, StatusInv, StoreInv
<1>2. CW(p) \in Consumers
  BY DEF CW, Consumers
<1>3. CASE CWFetch(p)
  <2>1. same /\ UNCHANGED <<slots, stopping, cwOut>> /\ faults' \in FaultLists
    BY <1>1, <1>3 DEF CWFetch, NoFault
  <2>2. HasNext(dispatchT[p]) /\ dispatchT' = FetchMessage(dispatchT, p)
    BY <1>3 DEF CWFetch
  <2>3. Moved(DispatchParts, BudgetedDispatch, dispatchT, dispatchT', p,
              dispatchT[p].fetched + 1, dispatchT[p].acked, dispatchT[p].committed)
    BY <1>1, <2>2, FetchKeepsOrder
  <2>4. /\ cwPc' \in [DispatchParts -> CallPcs] /\ cwPc'[p] = "acquire"
        /\ \A q \in DispatchParts \ {p} : cwPc'[q] = cwPc[q]
    BY <1>1, <1>3 DEF CWFetch, CWGoto, CallPcs
  <2>5. dispatchT[p].fetched \in Nat
    BY <1>1 DEF OrderedTopics, Topics, Partition
  <2>6. DispatchInv'
    BY <1>1, <2>1, <2>3, <2>4, <2>5 DEF DispatchInv, HoldsDispatch, Moved
  <2> QED BY <1>1, <2>1, <2>6, CallWorkerFrame
<1>4. CASE CWAcquire(p)
  <2>1. same /\ UNCHANGED <<dispatchT, stopping, cwOut>>
    BY <1>4 DEF CWAcquire, topicVars
  <2>2. slots' \in Nat /\ faults' \in FaultLists
    BY <1>1, <1>4, FaultType DEF CWAcquire, AcquireSlot
  <2>3. cwPc[p] = "acquire" /\ cwPc' \in [DispatchParts -> CallPcs]
        /\ cwPc'[p] \in {"dial", "idle"} /\ \A q \in DispatchParts \ {p} : cwPc'[q] = cwPc[q]
    BY <1>1, <1>4 DEF CWAcquire, CWGoto, CallPcs
  <2>4. DispatchInv'
    BY <1>1, <2>1, <2>3 DEF DispatchInv, HoldsDispatch
  <2> QED BY <1>1, <2>1, <2>2, <2>4, CallWorkerFrame
<1>5. CASE CWDial(p)
  <2>1. same /\ UNCHANGED <<dispatchT, slots, stopping>> /\ faults' \in FaultLists
    BY <1>1, <1>5 DEF CWDial, topicVars, NoFault
  <2>2. cwPc[p] = "dial" /\ cwPc' \in [DispatchParts -> CallPcs]
        /\ cwPc'[p] = "publish" /\ \A q \in DispatchParts \ {p} : cwPc'[q] = cwPc[q]
    BY <1>1, <1>5 DEF CWDial, CWGoto, CallPcs
  <2>3. dispatchT[p].fetched > 0
    BY <1>1, <2>2 DEF DispatchInv, HoldsDispatch
  <2>4. InFlight(dispatchT[p]) \in BudgetedDispatch
    BY <1>1, <2>3, InFlightWritten
  <2>5. PICK r \in PlaceCall : cwOut' = [cwOut EXCEPT ![p] = StatusOf(InFlight(dispatchT[p]), r)]
    BY <1>5 DEF CWDial
  <2>6. /\ cwOut'[p] \in BudgetedStatus
        /\ cwOut'[p].call = InFlight(dispatchT[p]).call
        /\ cwOut'[p].attempt = InFlight(dispatchT[p]).attempt
        /\ \A q \in DispatchParts \ {p} : cwOut'[q] = cwOut[q]
        /\ cwOut' \in [DispatchParts -> BudgetedStatus \cup {NoOutcome}]
    BY <1>1, <2>4, <2>5, StatusOfBudgeted
  <2>7. DispatchInv'
    BY <1>1, <2>1, <2>2, <2>3, <2>6 DEF DispatchInv, HoldsDispatch
  <2> QED BY <1>1, <2>1, <2>7, CallWorkerFrame
<1>6. CASE CWPublish(p)
  <2>1. /\ UNCHANGED <<retryT, storeVars, swPc, rwPc, trig>> /\ UNCHANGED <<dispatchT, slots, stopping>>
        /\ faults' \in FaultLists
    BY <1>1, <1>6, FaultType DEF CWPublish
  <2>2. cwPc[p] = "publish" /\ cwPc' \in [DispatchParts -> CallPcs]
        /\ cwPc'[p] = "commit" /\ \A q \in DispatchParts \ {p} : cwPc'[q] = cwPc[q]
    BY <1>1, <1>6 DEF CWPublish, CWGoto, CallPcs
  <2>3. /\ cwOut' \in [DispatchParts -> BudgetedStatus \cup {NoOutcome}]
        /\ \A q \in DispatchParts \ {p} : cwOut'[q] = cwOut[q]
    BY <1>1, <1>6 DEF CWPublish
  <2>4. cwOut[p] \in BudgetedStatus
    BY <1>1, <2>2 DEF DispatchInv
  <2>5. /\ statusT' \in OrderedTopics(StatusParts, BudgetedStatus)
        /\ \A q \in StatusParts : statusT'[q].fetched = statusT[q].fetched
    <3>1. CASE UNCHANGED statusT
      BY <1>1, <3>1
    <3>2. CASE \E q \in StatusParts : statusT' = WriteMessages(statusT, q, cwOut[p])
      <4>1. Appended(StatusParts, BudgetedStatus, statusT, statusT', cwOut[p])
        BY <1>1, <2>4, <3>2, WriteKeepsOrder
      <4> QED BY <4>1 DEF Appended
    <3> QED BY <1>6, <3>1, <3>2 DEF CWPublish
  <2>6. DispatchInv'
    BY <1>1, <2>1, <2>2, <2>3 DEF DispatchInv, HoldsDispatch
  <2> QED BY <1>1, <2>1, <2>5, <2>6, CallWorkerFrame
<1>7. CASE CWCommit(p)
  <2>1. same /\ UNCHANGED <<slots, stopping, cwOut>> /\ faults' \in FaultLists
    BY <1>1, <1>7 DEF CWCommit, NoFault
  <2>2. cwPc' \in {[cwPc EXCEPT ![p] = "idle"], [cwPc EXCEPT ![p] = "release"]}
    BY <1>7 DEF CWCommit, CWGoto
  <2>3. CASE dispatchT' = CommitMessages(dispatchT, p)
    <3>1. DispatchInv'
      BY <1>1, <2>1, <2>2, <2>3, CommitKeepsOrder, CallWorkerLetsGo
    <3> QED BY <1>1, <2>1, <3>1, CallWorkerFrame
  <2>4. CASE UNCHANGED dispatchT
    <3>1. DispatchInv'
      BY <1>1, <2>1, <2>2, <2>4 DEF DispatchInv, HoldsDispatch, CallPcs
    <3> QED BY <1>1, <2>1, <3>1, CallWorkerFrame
  <2> QED BY <1>7, <2>3, <2>4 DEF CWCommit
<1>8. CASE CWRelease(p)
  <2>1. same /\ UNCHANGED <<dispatchT, stopping, cwOut>>
    BY <1>8 DEF CWRelease, topicVars
  <2>2. slots' \in Nat /\ faults' \in FaultLists
    BY <1>1, <1>8, FaultType DEF CWRelease, ReleaseSlot
  <2>3. cwPc' \in [DispatchParts -> CallPcs]
        /\ cwPc'[p] = "idle" /\ \A q \in DispatchParts \ {p} : cwPc'[q] = cwPc[q]
    BY <1>1, <1>8 DEF CWRelease, CWGoto, CallPcs
  <2>4. DispatchInv'
    BY <1>1, <2>1, <2>3 DEF DispatchInv, HoldsDispatch
  <2> QED BY <1>1, <2>1, <2>2, <2>4, CallWorkerFrame
<1>9. CASE CWCrash(p)
  <2>1. same /\ UNCHANGED slots /\ stopping' \subseteq Consumers /\ faults' \in FaultLists
    BY <1>1, <1>9, FaultType DEF CWCrash
  <2>2. DispatchInv'
    BY <1>1, <1>9, RejoinKeepsOrder, CallWorkerLetsGo DEF CWCrash, CWGoto
  <2> QED BY <1>1, <2>1, <2>2, CallWorkerFrame
<1>10. CASE CWShutdown(p)
  <2>1. same /\ UNCHANGED <<slots, dispatchT, cwPc, cwOut>> /\ stopping' \subseteq Consumers
        /\ faults' \in FaultLists
    BY <1>1, <1>2, <1>10, FaultType DEF CWShutdown, workerVars, topicVars
  <2>2. DispatchInv'
    BY <1>1, <2>1 DEF DispatchInv, HoldsDispatch
  <2> QED BY <1>1, <2>1, <2>2, CallWorkerFrame
<1>11. CASE CWClose(p)
  <2>1. same /\ UNCHANGED <<slots, cwPc, cwOut>> /\ stopping' \subseteq Consumers
        /\ faults' \in FaultLists /\ cwPc[p] = "idle"
    BY <1>1, <1>11 DEF CWClose, NoFault, workerVars
  <2>2. cwPc' = [cwPc EXCEPT ![p] = "idle"]
    BY <1>1, <2>1
  <2>3. DispatchInv'
    BY <1>1, <1>11, <2>1, <2>2, CloseKeepsOrder, CallWorkerLetsGo DEF CWClose
  <2> QED BY <1>1, <2>1, <2>3, CallWorkerFrame
<1>12. CASE CWFlush(p)
  <2>1. same /\ UNCHANGED <<slots, stopping, cwPc, cwOut>> /\ faults' \in FaultLists
    BY <1>1, <1>12 DEF CWFlush, NoFault, workerVars
  <2>2. Moved(DispatchParts, BudgetedDispatch, dispatchT, dispatchT', p,
              dispatchT[p].fetched, dispatchT[p].acked, dispatchT[p].acked)
    BY <1>1, <1>12, FlushKeepsOrder DEF CWFlush
  <2>3. \A q \in DispatchParts : dispatchT'[q].fetched = dispatchT[q].fetched
                                 /\ InFlight(dispatchT'[q]) = InFlight(dispatchT[q])
    BY <2>2 DEF Moved, InFlight
  <2>4. DispatchInv'
    BY <1>1, <2>1, <2>2, <2>3 DEF DispatchInv, HoldsDispatch, Moved
  <2> QED BY <1>1, <2>1, <2>4, CallWorkerFrame
<1> QED BY <1>3, <1>4, <1>5, <1>6, <1>7, <1>8, <1>9, <1>10, <1>11, <1>12 DEF CallWorkerStep

\* What a status worker leaves alone in every step keeps its part of the invariant.
LEMMA StatusWorkerFrame ==
  ASSUME PipelineInv, StatusInv', calls' \in [Calls -> CallRow],
         attemptRows' \subseteq Calls \X Nat, stats' \in StatsRow,
         faults' \in FaultLists, stopping' \subseteq Consumers,
         retryT' \in OrderedTopics(RetryLanes, BudgetedRetry),
         \A l \in RetryLanes : retryT'[l].fetched = retryT[l].fetched,
         UNCHANGED <<dispatchT, cwPc, cwOut, rwPc, trig, slots>>
  PROVE  PipelineInv'
BY DEF PipelineInv, DispatchInv, RetryInv, StoreInv, HoldsDispatch

\* A step of a status worker keeps the invariant.
LEMMA StatusWorkerKeeps ==
  ASSUME PipelineInv, NEW p \in StatusParts,
         StatusWorkerStep(p) \/ SWCrash(p) \/ SWShutdown(p) \/ SWClose(p) \/ SWFlush(p)
  PROVE  PipelineInv'
<1> DEFINE same == UNCHANGED <<dispatchT, cwPc, cwOut, rwPc, trig, slots>>
           stores == UNCHANGED <<retryT, calls, attemptRows, stats>>
<1>1. /\ StatusInv
      /\ statusT \in OrderedTopics(StatusParts, BudgetedStatus)
      /\ retryT \in OrderedTopics(RetryLanes, BudgetedRetry)
      /\ swPc \in [StatusParts -> StatusPcs]
      /\ calls \in [Calls -> CallRow] /\ attemptRows \subseteq Calls \X Nat /\ stats \in StatsRow
      /\ faults \in FaultLists /\ stopping \subseteq Consumers
  BY DEF PipelineInv, StatusInv, RetryInv, StoreInv
<1>2. SW(p) \in Consumers
  BY DEF SW, Consumers
<1>3. ASSUME swPc[p] # "idle"
      PROVE  /\ SWMsg(p) \in BudgetedStatus
             /\ SWMsg(p).call \in Calls /\ SWMsg(p).attempt \in Nat
             /\ SWMsg(p).status \in FinalStatuses
  <2>1. SWMsg(p) \in BudgetedStatus
    BY <1>1, <1>3, InFlightWritten DEF SWMsg, StatusInv
  <2> QED BY <2>1 DEF BudgetedStatus, StatusMessage
<1>4. ASSUME NEW pc \in StatusPcs, SWGoto(p, pc), swPc[p] # "idle", UNCHANGED statusT
      PROVE  StatusInv'
  BY <1>1, <1>4 DEF StatusInv, SWGoto
<1>5. ASSUME NEW f, NEW a, NEW k, SWGoto(p, "idle"),
             Moved(StatusParts, BudgetedStatus, statusT, statusT', p, f, a, k)
      PROVE  StatusInv'
  BY <1>1, <1>5 DEF StatusInv, SWGoto, Moved, StatusPcs
<1>6. CASE SWFetch(p)
  <2>1. same /\ stores /\ UNCHANGED stopping /\ faults' \in FaultLists
    BY <1>1, <1>6 DEF SWFetch, NoFault, storeVars
  <2>2. Moved(StatusParts, BudgetedStatus, statusT, statusT', p,
              statusT[p].fetched + 1, statusT[p].acked, statusT[p].committed)
    BY <1>1, <1>6, FetchKeepsOrder DEF SWFetch
  <2>3. statusT[p].fetched \in Nat
    BY <1>1 DEF OrderedTopics, Topics, Partition
  <2>4. StatusInv'
    BY <1>1, <1>6, <2>2, <2>3 DEF SWFetch, SWGoto, StatusInv, StatusPcs, Moved
  <2> QED BY <1>1, <2>1, <2>4, StatusWorkerFrame
<1>7. CASE SWUpdate(p)
  <2>1. /\ same /\ UNCHANGED <<statusT, retryT, attemptRows, stats, stopping>>
        /\ faults' \in FaultLists /\ swPc[p] = "update"
    BY <1>1, <1>7, FaultType DEF SWUpdate, topicVars
  <2>2. UpdatedCalls(SWMsg(p)) \in [Calls -> CallRow]
    BY <1>1, <1>3, <2>1 DEF UpdatedCalls, CallRow
  <2>3. StatusInv'
    BY <1>4, <1>7, <2>1 DEF SWUpdate, StatusPcs
  <2>4. calls' \in [Calls -> CallRow]
    BY <1>1, <1>7, <2>2 DEF SWUpdate
  <2> QED BY <1>1, <2>1, <2>3, <2>4, StatusWorkerFrame
<1>8. CASE SWAppend(p)
  <2>1. /\ same /\ UNCHANGED <<statusT, retryT, calls, stats, stopping>>
        /\ faults' \in FaultLists /\ swPc[p] = "append"
    BY <1>1, <1>8, FaultType DEF SWAppend, topicVars
  <2>2. attemptRows' \subseteq Calls \X Nat
    BY <1>1, <1>3, <1>8, <2>1 DEF SWAppend, AttemptRow
  <2>3. StatusInv'
    BY <1>4, <1>8, <2>1 DEF SWAppend, StatusPcs
  <2> QED BY <1>1, <2>1, <2>2, <2>3, StatusWorkerFrame
<1>9. CASE SWStats(p)
  <2>1. /\ same /\ UNCHANGED <<statusT, retryT, calls, attemptRows, stopping>>
        /\ faults' \in FaultLists /\ swPc[p] = "stats"
    BY <1>1, <1>9, FaultType DEF SWStats, topicVars
  <2>2. ApplyDelta(StatsDelta(SWMsg(p))) \in StatsRow
    BY <1>1, <1>3, <2>1, DeltaTypes, ApplyDeltaType
  <2>3. StatusInv'
    BY <1>4, <1>9, <2>1 DEF SWStats, StatusPcs
  <2>4. stats' \in StatsRow
    BY <1>1, <1>9, <2>2 DEF SWStats
  <2> QED BY <1>1, <2>1, <2>3, <2>4, StatusWorkerFrame
<1>10. CASE SWRetry(p)
  <2>1. /\ same /\ UNCHANGED <<statusT, calls, attemptRows, stats, stopping>>
        /\ faults' \in FaultLists /\ swPc[p] = "retry"
    BY <1>1, <1>10, FaultType DEF SWRetry, storeVars
  <2>2. StatusInv'
    BY <1>4, <1>10, <2>1 DEF SWRetry, StatusPcs
  <2>3. /\ retryT' \in OrderedTopics(RetryLanes, BudgetedRetry)
        /\ \A l \in RetryLanes : retryT'[l].fetched = retryT[l].fetched
    <3>1. CASE UNCHANGED retryT
      BY <1>1, <3>1
    <3>2. CASE /\ SWMsg(p).retryable /\ HasRetryTopic(SWMsg(p).attempt)
               /\ ScheduleRetry(SWMsg(p))
      <4>1. PICK q \in RetryParts :
              retryT' = WriteMessages(retryT, <<SWMsg(p).attempt, q>>, RetryOf(SWMsg(p)))
        BY <3>2 DEF ScheduleRetry
      <4>2. <<SWMsg(p).attempt, q>> \in RetryLanes
        BY <3>2, <4>1 DEF HasRetryTopic, RetryLanes
      <4>3. RetryOf(SWMsg(p)) \in BudgetedRetry
        BY <1>3, <2>1, <3>2, RetryOfBudgeted
      <4>4. Appended(RetryLanes, BudgetedRetry, retryT, retryT', RetryOf(SWMsg(p)))
        BY <1>1, <4>1, <4>2, <4>3, WriteKeepsOrder
      <4> QED BY <4>4 DEF Appended
    <3> QED BY <1>10, <3>1, <3>2 DEF SWRetry
  <2> QED BY <1>1, <2>1, <2>2, <2>3, StatusWorkerFrame
<1>11. CASE SWCommit(p)
  <2>1. same /\ stores /\ UNCHANGED stopping /\ faults' \in FaultLists /\ swPc[p] = "commit"
    BY <1>1, <1>11 DEF SWCommit, NoFault, storeVars
  <2>2. StatusInv'
    <3>1. CASE statusT' = CommitMessages(statusT, p)
      BY <1>1, <1>5, <1>11, <3>1, CommitKeepsOrder DEF SWCommit
    <3>2. CASE UNCHANGED statusT
      BY <1>4, <1>11, <2>1, <3>2 DEF SWCommit, StatusPcs
    <3> QED BY <1>11, <3>1, <3>2 DEF SWCommit
  <2> QED BY <1>1, <2>1, <2>2, StatusWorkerFrame
<1>12. CASE SWCrash(p)
  <2>1. same /\ stores /\ stopping' \subseteq Consumers /\ faults' \in FaultLists
    BY <1>1, <1>12, FaultType DEF SWCrash, storeVars
  <2>2. StatusInv'
    BY <1>1, <1>5, <1>12, RejoinKeepsOrder DEF SWCrash
  <2> QED BY <1>1, <2>1, <2>2, StatusWorkerFrame
<1>13. CASE SWShutdown(p)
  <2>1. same /\ stores /\ stopping' \subseteq Consumers /\ faults' \in FaultLists /\ UNCHANGED <<statusT, swPc>>
    BY <1>1, <1>2, <1>13, FaultType DEF SWShutdown, storeVars, topicVars, workerVars
  <2>2. StatusInv'
    BY <1>1, <2>1 DEF StatusInv
  <2> QED BY <1>1, <2>1, <2>2, StatusWorkerFrame
<1>14. CASE SWClose(p)
  <2>1. same /\ stores /\ stopping' \subseteq Consumers /\ faults' \in FaultLists
    BY <1>1, <1>14 DEF SWClose, NoFault, storeVars, workerVars
  <2>2. SWGoto(p, "idle")
    BY <1>1, <1>14 DEF SWClose, SWGoto, workerVars
  <2>3. StatusInv'
    BY <1>1, <1>5, <1>14, <2>2, CloseKeepsOrder DEF SWClose
  <2> QED BY <1>1, <2>1, <2>3, StatusWorkerFrame
<1>15. CASE SWFlush(p)
  <2>1. same /\ stores /\ UNCHANGED stopping /\ faults' \in FaultLists /\ UNCHANGED swPc
    BY <1>1, <1>15 DEF SWFlush, NoFault, storeVars, workerVars
  <2>2. Moved(StatusParts, BudgetedStatus, statusT, statusT', p,
              statusT[p].fetched, statusT[p].acked, statusT[p].acked)
    BY <1>1, <1>15, FlushKeepsOrder DEF SWFlush
  <2>3. StatusInv'
    BY <1>1, <2>1, <2>2 DEF StatusInv, Moved
  <2> QED BY <1>1, <2>1, <2>3, StatusWorkerFrame
<1> QED BY <1>6, <1>7, <1>8, <1>9, <1>10, <1>11, <1>12, <1>13, <1>14, <1>15 DEF StatusWorkerStep

\* What a retry worker leaves alone in every step keeps its part of the invariant.
LEMMA RetryWorkerFrame ==
  ASSUME PipelineInv, RetryInv', DispatchInv', faults' \in FaultLists, stopping' \subseteq Consumers,
         UNCHANGED <<statusT, storeVars, swPc, trig, slots>>
  PROVE  PipelineInv'
BY DEF PipelineInv, StatusInv, StoreInv, storeVars

\* A step of a retry worker keeps the invariant.
LEMMA RetryWorkerKeeps ==
  ASSUME PipelineInv, NEW l \in RetryLanes,
         RetryWorkerStep(l) \/ RWCrash(l) \/ RWShutdown(l) \/ RWClose(l) \/ RWFlush(l)
  PROVE  PipelineInv'
<1> DEFINE same == UNCHANGED <<statusT, storeVars, swPc, trig, slots>>
           dispatch == UNCHANGED <<dispatchT, cwPc, cwOut>>
<1>1. /\ RetryInv /\ DispatchInv
      /\ retryT \in OrderedTopics(RetryLanes, BudgetedRetry)
      /\ rwPc \in [RetryLanes -> RetryPcs]
      /\ faults \in FaultLists /\ stopping \subseteq Consumers
  BY DEF PipelineInv, RetryInv, StoreInv
<1>2. RW(l) \in Consumers
  BY DEF RW, Consumers
<1>3. ASSUME dispatch PROVE DispatchInv'
  BY <1>1, <1>3 DEF DispatchInv, HoldsDispatch
<1>4. ASSUME NEW pc \in RetryPcs, RWGoto(l, pc), rwPc[l] # "idle", UNCHANGED retryT
      PROVE  RetryInv'
  BY <1>1, <1>4 DEF RetryInv, RWGoto
<1>5. ASSUME NEW f, NEW a, NEW k, RWGoto(l, "idle"),
             Moved(RetryLanes, BudgetedRetry, retryT, retryT', l, f, a, k)
      PROVE  RetryInv'
  BY <1>1, <1>5 DEF RetryInv, RWGoto, Moved, RetryPcs
<1>6. CASE RWFetch(l)
  <2>1. same /\ dispatch /\ UNCHANGED stopping /\ faults' \in FaultLists
    BY <1>1, <1>6 DEF RWFetch, NoFault
  <2>2. Moved(RetryLanes, BudgetedRetry, retryT, retryT', l,
              retryT[l].fetched + 1, retryT[l].acked, retryT[l].committed)
    BY <1>1, <1>6, FetchKeepsOrder DEF RWFetch
  <2>3. retryT[l].fetched \in Nat
    BY <1>1 DEF OrderedTopics, Topics, Partition
  <2>4. RetryInv'
    BY <1>1, <1>6, <2>2, <2>3 DEF RWFetch, RWGoto, RetryInv, RetryPcs, Moved
  <2> QED BY <1>1, <1>3, <2>1, <2>4, RetryWorkerFrame
<1>7. CASE RWWait(l)
  <2>1. same /\ dispatch /\ UNCHANGED stopping /\ faults' \in FaultLists /\ rwPc[l] = "wait"
    BY <1>1, <1>7 DEF RWWait, NoFault
  <2>2. RetryInv'
    <3>1. CASE retryT' = CommitMessages(retryT, l) /\ RWGoto(l, "idle")
      BY <1>1, <1>5, <3>1, CommitKeepsOrder
    <3>2. CASE UNCHANGED retryT
      BY <1>4, <1>7, <2>1, <3>2 DEF RWWait, RetryPcs
    <3> QED BY <1>7, <3>1, <3>2 DEF RWWait
  <2> QED BY <1>1, <1>3, <2>1, <2>2, RetryWorkerFrame
<1>8. CASE RWDispatch(l)
  <2>1. same /\ UNCHANGED <<retryT, cwPc, cwOut, stopping>> /\ faults' \in FaultLists /\ rwPc[l] = "dispatch"
    BY <1>1, <1>8, FaultType DEF RWDispatch
  <2>2. RetryInv'
    BY <1>4, <1>8, <2>1 DEF RWDispatch, RetryPcs
  <2>3. InFlight(retryT[l]) \in BudgetedRetry
    BY <1>1, <2>1, InFlightWritten DEF RetryInv
  <2>4. Redispatch(InFlight(retryT[l])) \in BudgetedDispatch
    BY <2>3, RedispatchBudgeted
  <2>5. DispatchInv'
    <3>1. CASE UNCHANGED dispatchT
      BY <1>3, <2>1, <3>1
    <3>2. CASE \E p \in DispatchParts :
                 dispatchT' = WriteMessages(dispatchT, p, Redispatch(InFlight(retryT[l])))
      BY <1>1, <2>1, <2>4, <3>2, DispatchAppend
    <3> QED BY <1>8, <3>1, <3>2 DEF RWDispatch
  <2> QED BY <1>1, <2>1, <2>2, <2>5, RetryWorkerFrame
<1>9. CASE RWCommit(l)
  <2>1. same /\ dispatch /\ UNCHANGED stopping /\ faults' \in FaultLists /\ rwPc[l] = "commit"
    BY <1>1, <1>9 DEF RWCommit, NoFault
  <2>2. RetryInv'
    <3>1. CASE retryT' = CommitMessages(retryT, l)
      BY <1>1, <1>5, <1>9, <3>1, CommitKeepsOrder DEF RWCommit
    <3>2. CASE UNCHANGED retryT
      BY <1>4, <1>9, <2>1, <3>2 DEF RWCommit, RetryPcs
    <3> QED BY <1>9, <3>1, <3>2 DEF RWCommit
  <2> QED BY <1>1, <1>3, <2>1, <2>2, RetryWorkerFrame
<1>10. CASE RWCrash(l)
  <2>1. same /\ dispatch /\ stopping' \subseteq Consumers /\ faults' \in FaultLists
    BY <1>1, <1>10, FaultType DEF RWCrash
  <2>2. RetryInv'
    BY <1>1, <1>5, <1>10, RejoinKeepsOrder DEF RWCrash
  <2> QED BY <1>1, <1>3, <2>1, <2>2, RetryWorkerFrame
<1>11. CASE RWShutdown(l)
  <2>1. /\ same /\ dispatch /\ stopping' \subseteq Consumers /\ faults' \in FaultLists
        /\ UNCHANGED <<retryT, rwPc>>
    BY <1>1, <1>2, <1>11, FaultType DEF RWShutdown, topicVars, workerVars
  <2>2. RetryInv'
    BY <1>1, <2>1 DEF RetryInv
  <2> QED BY <1>1, <1>3, <2>1, <2>2, RetryWorkerFrame
<1>12. CASE RWClose(l)
  <2>1. same /\ dispatch /\ stopping' \subseteq Consumers /\ faults' \in FaultLists
    BY <1>1, <1>12 DEF RWClose, NoFault, workerVars
  <2>2. RWGoto(l, "idle")
    BY <1>1, <1>12 DEF RWClose, RWGoto, workerVars
  <2>3. RetryInv'
    BY <1>1, <1>5, <1>12, <2>2, CloseKeepsOrder DEF RWClose
  <2> QED BY <1>1, <1>3, <2>1, <2>3, RetryWorkerFrame
<1>13. CASE RWFlush(l)
  <2>1. same /\ dispatch /\ UNCHANGED stopping /\ faults' \in FaultLists /\ UNCHANGED rwPc
    BY <1>1, <1>13 DEF RWFlush, NoFault, workerVars
  <2>2. Moved(RetryLanes, BudgetedRetry, retryT, retryT', l,
              retryT[l].fetched, retryT[l].acked, retryT[l].acked)
    BY <1>1, <1>13, FlushKeepsOrder DEF RWFlush
  <2>3. RetryInv'
    BY <1>1, <2>1, <2>2 DEF RetryInv, Moved
  <2> QED BY <1>1, <1>3, <2>1, <2>3, RetryWorkerFrame
<1> QED BY <1>6, <1>7, <1>8, <1>9, <1>10, <1>11, <1>12, <1>13 DEF RetryWorkerStep

\* Every step of the pipeline keeps the invariant.
LEMMA NextKeepsPipeline == PipelineInv /\ [Next]_vars => PipelineInv'
<1> SUFFICES ASSUME PipelineInv, [Next]_vars PROVE PipelineInv'
  OBVIOUS
<1>1. CASE UNCHANGED vars
  BY <1>1 DEF vars, topicVars, storeVars, workerVars, PipelineInv, DispatchInv, StatusInv,
              RetryInv, StoreInv, HoldsDispatch
<1>2. CASE \E c \in Calls : TriggerCall(c) \/ CrashCaller(c)
  BY <1>2, TriggerKeeps
<1>3. CASE WorkerStep
  BY <1>3, CallWorkerKeeps, StatusWorkerKeeps, RetryWorkerKeeps DEF WorkerStep
<1>4. CASE WorkerRestart
  BY <1>4, CallWorkerKeeps, StatusWorkerKeeps, RetryWorkerKeeps DEF WorkerRestart
<1>5. CASE KeyExpires
  BY <1>5 DEF KeyExpires, NoFault, topicVars, storeVars, workerVars, PipelineInv, DispatchInv,
              StatusInv, RetryInv, StoreInv, HoldsDispatch
<1> QED BY <1>1, <1>2, <1>3, <1>4, <1>5 DEF Next, Idle

\* The inductive invariant behind the theorems about any faults.
THEOREM PipelineInvariant == Spec => []PipelineInv
<1>1. Init => PipelineInv
  BY InitPipeline
<1>2. PipelineInv /\ [Next]_vars => PipelineInv'
  BY NextKeepsPipeline
<1> QED BY <1>1, <1>2, PTL DEF Spec

\* Type correctness of the whole pipeline (TriggerCall, the three workers, the topics
\* and the stores) in every behaviour, whatever faults happen.
THEOREM TypeCorrect == Spec => []TypeOK
<1>1. PipelineInv => TypeOK
  <2> SUFFICES ASSUME PipelineInv PROVE TypeOK
    OBVIOUS
  <2>1. /\ BudgetedDispatch \subseteq DispatchMessage(Calls)
        /\ BudgetedRetry \subseteq DispatchMessage(Calls)
        /\ BudgetedStatus \subseteq StatusMessage(Calls)
    BY DEF BudgetedDispatch, BudgetedRetry, BudgetedStatus
  <2>2. dispatchT \in [DispatchParts -> Partition(DispatchMessage(Calls))]
    BY <2>1, WidenTopic DEF PipelineInv, DispatchInv
  <2>3. statusT \in [StatusParts -> Partition(StatusMessage(Calls))]
    BY <2>1, WidenTopic DEF PipelineInv, StatusInv
  <2>4. retryT \in [RetryLanes -> Partition(DispatchMessage(Calls))]
    BY <2>1, WidenTopic DEF PipelineInv, RetryInv
  <2>5. cwOut \in [DispatchParts -> StatusMessage(Calls) \cup {NoOutcome}]
    BY <2>1 DEF PipelineInv, DispatchInv
  <2> QED BY <2>2, <2>3, <2>4, <2>5 DEF TypeOK, PipelineInv, DispatchInv, StatusInv, RetryInv, StoreInv
<1> QED BY <1>1, PipelineInvariant, PTL

-----------------------------------------------------------------------------
(* What each service writes *)

\* The topics are well formed.
LEMMA TopicTypes ==
  ASSUME PipelineInv
  PROVE  /\ dispatchT \in OrderedTopics(DispatchParts, BudgetedDispatch)
         /\ statusT \in OrderedTopics(StatusParts, BudgetedStatus)
         /\ retryT \in OrderedTopics(RetryLanes, BudgetedRetry)
BY DEF PipelineInv, DispatchInv, StatusInv, RetryInv

\* TriggerCall writes at most the first dispatch of its call.
LEMMA TriggerWrites ==
  ASSUME PipelineInv, NEW c \in Calls, TriggerCall(c) \/ CrashCaller(c)
  PROVE  /\ UNCHANGED <<statusT, retryT, attemptRows, cwPc, cwOut, swPc, rwPc, stopping>>
         /\ \/ UNCHANGED dispatchT
            \/ Appended(DispatchParts, BudgetedDispatch, dispatchT, dispatchT', FirstDispatch(c))
<1>1. CASE EnqueueCall(c)
  <2>1. \/ UNCHANGED dispatchT
        \/ \E p \in DispatchParts : dispatchT' = WriteMessages(dispatchT, p, FirstDispatch(c))
    BY <1>1 DEF EnqueueCall
  <2>2. \/ UNCHANGED dispatchT
        \/ Appended(DispatchParts, BudgetedDispatch, dispatchT, dispatchT', FirstDispatch(c))
    BY <2>1, TopicTypes, FirstDispatchBudgeted, WriteKeepsOrder
  <2> QED BY <1>1, <2>2 DEF EnqueueCall, storeVars, workerVars
<1>2. CASE CreateCall(c) \/ CountCall(c) \/ UndoPending(c) \/ CrashCaller(c)
  BY <1>2 DEF CreateCall, CountCall, UndoPending, CrashCaller, topicVars, storeVars, workerVars
<1> QED BY <1>1, <1>2 DEF TriggerCall, TriggerCallStep

\* A call worker writes at most the outcome of the dispatch it holds.
LEMMA CallWorkerWrites ==
  ASSUME PipelineInv, NEW p \in DispatchParts,
         CallWorkerStep(p) \/ CWCrash(p) \/ CWShutdown(p) \/ CWClose(p) \/ CWFlush(p)
  PROVE  /\ UNCHANGED <<retryT, attemptRows, swPc, rwPc>>
         /\ Written(dispatchT') = Written(dispatchT)
         /\ \/ UNCHANGED statusT
            \/ /\ cwPc[p] = "publish"
               /\ Appended(StatusParts, BudgetedStatus, statusT, statusT', cwOut[p])
<1>1. /\ dispatchT \in OrderedTopics(DispatchParts, BudgetedDispatch)
      /\ statusT \in OrderedTopics(StatusParts, BudgetedStatus)
  BY TopicTypes
<1>2. CASE CWPublish(p)
  <2>1. cwOut[p] \in BudgetedStatus /\ cwPc[p] = "publish"
    BY <1>2 DEF CWPublish, PipelineInv, DispatchInv
  <2>2. \/ UNCHANGED statusT
        \/ Appended(StatusParts, BudgetedStatus, statusT, statusT', cwOut[p])
    BY <1>1, <1>2, <2>1, WriteKeepsOrder DEF CWPublish
  <2> QED BY <1>2, <2>1, <2>2 DEF CWPublish, storeVars
<1>3. CASE CWFetch(p) \/ CWCommit(p) \/ CWCrash(p) \/ CWClose(p) \/ CWFlush(p)
  <2>1. CASE CWFetch(p)
    BY <1>1, <2>1, FetchKeepsOrder DEF CWFetch, Moved, storeVars
  <2>2. CASE CWCommit(p)
    BY <1>1, <2>2, CommitKeepsOrder DEF CWCommit, Moved, storeVars
  <2>3. CASE CWCrash(p)
    BY <1>1, <2>3, RejoinKeepsOrder DEF CWCrash, Moved, storeVars
  <2>4. CASE CWClose(p)
    BY <1>1, <2>4, CloseKeepsOrder DEF CWClose, Moved, storeVars, workerVars
  <2>5. CASE CWFlush(p)
    BY <1>1, <2>5, FlushKeepsOrder DEF CWFlush, Moved, storeVars, workerVars
  <2> QED BY <1>3, <2>1, <2>2, <2>3, <2>4, <2>5
<1>4. CASE CWAcquire(p) \/ CWDial(p) \/ CWRelease(p) \/ CWShutdown(p)
  BY <1>4 DEF CWAcquire, CWDial, CWRelease, CWShutdown, topicVars, storeVars, workerVars
<1> QED BY <1>2, <1>3, <1>4 DEF CallWorkerStep

\* A status worker writes at most the retry that the status it holds asks for.
LEMMA StatusWorkerWrites ==
  ASSUME PipelineInv, NEW p \in StatusParts,
         StatusWorkerStep(p) \/ SWCrash(p) \/ SWShutdown(p) \/ SWClose(p) \/ SWFlush(p)
  PROVE  /\ UNCHANGED <<dispatchT, cwPc, cwOut, rwPc>>
         /\ Written(statusT') = Written(statusT)
         /\ attemptRows \subseteq attemptRows'
         /\ \/ UNCHANGED retryT
            \/ /\ swPc[p] = "retry" /\ SWMsg(p).retryable
               /\ Appended(RetryLanes, BudgetedRetry, retryT, retryT', RetryOf(SWMsg(p)))
<1>1. /\ statusT \in OrderedTopics(StatusParts, BudgetedStatus)
      /\ retryT \in OrderedTopics(RetryLanes, BudgetedRetry)
  BY TopicTypes
<1>2. CASE SWRetry(p)
  <2>1. swPc[p] = "retry" /\ SWMsg(p) \in BudgetedStatus
    BY <1>1, <1>2, InFlightWritten DEF SWRetry, SWMsg, PipelineInv, StatusInv
  <2>2. \/ UNCHANGED retryT
        \/ /\ SWMsg(p).retryable
           /\ Appended(RetryLanes, BudgetedRetry, retryT, retryT', RetryOf(SWMsg(p)))
    <3>1. CASE UNCHANGED retryT
      BY <3>1
    <3>2. CASE /\ SWMsg(p).retryable /\ HasRetryTopic(SWMsg(p).attempt)
               /\ ScheduleRetry(SWMsg(p))
      <4>1. PICK q \in RetryParts :
              retryT' = WriteMessages(retryT, <<SWMsg(p).attempt, q>>, RetryOf(SWMsg(p)))
        BY <3>2 DEF ScheduleRetry
      <4>2. <<SWMsg(p).attempt, q>> \in RetryLanes
        BY <3>2 DEF HasRetryTopic, RetryLanes
      <4>3. RetryOf(SWMsg(p)) \in BudgetedRetry
        BY <2>1, <3>2, RetryOfBudgeted
      <4> QED BY <1>1, <3>2, <4>1, <4>2, <4>3, WriteKeepsOrder
    <3> QED BY <1>2, <3>1, <3>2 DEF SWRetry
  <2> QED BY <1>2, <2>1, <2>2 DEF SWRetry, storeVars
<1>3. CASE SWFetch(p) \/ SWCommit(p) \/ SWCrash(p) \/ SWClose(p) \/ SWFlush(p)
  <2>1. CASE SWFetch(p)
    BY <1>1, <2>1, FetchKeepsOrder DEF SWFetch, Moved, storeVars
  <2>2. CASE SWCommit(p)
    BY <1>1, <2>2, CommitKeepsOrder DEF SWCommit, Moved, storeVars
  <2>3. CASE SWCrash(p)
    BY <1>1, <2>3, RejoinKeepsOrder DEF SWCrash, Moved, storeVars
  <2>4. CASE SWClose(p)
    BY <1>1, <2>4, CloseKeepsOrder DEF SWClose, Moved, storeVars, workerVars
  <2>5. CASE SWFlush(p)
    BY <1>1, <2>5, FlushKeepsOrder DEF SWFlush, Moved, storeVars, workerVars
  <2> QED BY <1>3, <2>1, <2>2, <2>3, <2>4, <2>5
<1>4. CASE SWUpdate(p) \/ SWAppend(p) \/ SWStats(p) \/ SWShutdown(p)
  BY <1>4 DEF SWUpdate, SWAppend, SWStats, SWShutdown, topicVars, storeVars, workerVars
<1> QED BY <1>2, <1>3, <1>4 DEF StatusWorkerStep

\* A retry worker writes at most the dispatch embedded in the retry it holds.
LEMMA RetryWorkerWrites ==
  ASSUME PipelineInv, NEW l \in RetryLanes,
         RetryWorkerStep(l) \/ RWCrash(l) \/ RWShutdown(l) \/ RWClose(l) \/ RWFlush(l)
  PROVE  /\ UNCHANGED <<statusT, attemptRows, cwPc, cwOut, swPc>>
         /\ Written(retryT') = Written(retryT)
         /\ \/ UNCHANGED dispatchT
            \/ /\ rwPc[l] = "dispatch"
               /\ Appended(DispatchParts, BudgetedDispatch, dispatchT, dispatchT',
                           Redispatch(InFlight(retryT[l])))
<1>1. /\ dispatchT \in OrderedTopics(DispatchParts, BudgetedDispatch)
      /\ retryT \in OrderedTopics(RetryLanes, BudgetedRetry)
  BY TopicTypes
<1>2. CASE RWDispatch(l)
  <2>1. rwPc[l] = "dispatch" /\ InFlight(retryT[l]) \in BudgetedRetry
    BY <1>1, <1>2, InFlightWritten DEF RWDispatch, PipelineInv, RetryInv
  <2>2. Redispatch(InFlight(retryT[l])) \in BudgetedDispatch
    BY <2>1, RedispatchBudgeted
  <2>3. \/ UNCHANGED dispatchT
        \/ \E p \in DispatchParts :
             dispatchT' = WriteMessages(dispatchT, p, Redispatch(InFlight(retryT[l])))
    BY <1>2 DEF RWDispatch
  <2>4. \/ UNCHANGED dispatchT
        \/ Appended(DispatchParts, BudgetedDispatch, dispatchT, dispatchT',
                    Redispatch(InFlight(retryT[l])))
    BY <1>1, <2>2, <2>3, WriteKeepsOrder
  <2> QED BY <1>2, <2>1, <2>4 DEF RWDispatch, storeVars
<1>3. CASE RWFetch(l) \/ RWWait(l) \/ RWCommit(l) \/ RWCrash(l) \/ RWClose(l) \/ RWFlush(l)
  <2>1. CASE RWFetch(l)
    BY <1>1, <2>1, FetchKeepsOrder DEF RWFetch, Moved, storeVars
  <2>2. CASE RWWait(l)
    BY <1>1, <2>2, CommitKeepsOrder DEF RWWait, Moved, storeVars
  <2>3. CASE RWCommit(l)
    BY <1>1, <2>3, CommitKeepsOrder DEF RWCommit, Moved, storeVars
  <2>4. CASE RWCrash(l)
    BY <1>1, <2>4, RejoinKeepsOrder DEF RWCrash, Moved, storeVars
  <2>5. CASE RWClose(l)
    BY <1>1, <2>5, CloseKeepsOrder DEF RWClose, Moved, storeVars, workerVars
  <2>6. CASE RWFlush(l)
    BY <1>1, <2>6, FlushKeepsOrder DEF RWFlush, Moved, storeVars, workerVars
  <2> QED BY <1>3, <2>1, <2>2, <2>3, <2>4, <2>5, <2>6
<1>4. CASE RWShutdown(l)
  BY <1>4 DEF RWShutdown, topicVars, storeVars, workerVars
<1> QED BY <1>2, <1>3, <1>4 DEF RetryWorkerStep

-----------------------------------------------------------------------------
\* Every step that writes a message has the message it is made from at hand.
LEMMA NextKeepsProvenance ==
  ASSUME PipelineInv, ProvenanceInv, [Next]_vars
  PROVE  ProvenanceInv'
<1>1. CASE UNCHANGED <<dispatchT, statusT, retryT>>
  BY <1>1 DEF ProvenanceInv, DispatchOf, FailureBefore
<1>2. ASSUME NEW c \in Calls, TriggerCall(c) \/ CrashCaller(c)
      PROVE  ProvenanceInv'
  <2>1. CASE Appended(DispatchParts, BudgetedDispatch, dispatchT, dispatchT', FirstDispatch(c))
    <3>1. Written(dispatchT') = Written(dispatchT) \cup {FirstDispatch(c)}
      BY <2>1 DEF Appended
    <3>2. FirstDispatch(c).attempt = 1
      BY DEF FirstDispatch
    <3> QED BY <1>2, <3>1, <3>2, TriggerWrites DEF ProvenanceInv, DispatchOf, FailureBefore
  <2> QED BY <1>1, <1>2, <2>1, TriggerWrites
<1>3. ASSUME NEW p \in DispatchParts,
             CallWorkerStep(p) \/ CWCrash(p) \/ CWShutdown(p) \/ CWClose(p) \/ CWFlush(p)
      PROVE  ProvenanceInv'
  <2>1. UNCHANGED retryT /\ Written(dispatchT') = Written(dispatchT)
    BY <1>3, CallWorkerWrites
  <2>2. CASE UNCHANGED statusT
    BY <2>1, <2>2 DEF ProvenanceInv, DispatchOf, FailureBefore
  <2>3. CASE /\ cwPc[p] = "publish"
             /\ Appended(StatusParts, BudgetedStatus, statusT, statusT', cwOut[p])
    <3>1. Written(statusT') = Written(statusT) \cup {cwOut[p]}
      BY <2>3 DEF Appended
    <3>2. /\ cwOut[p].call = InFlight(dispatchT[p]).call
          /\ cwOut[p].attempt = InFlight(dispatchT[p]).attempt
          /\ dispatchT[p].fetched > 0
      BY <2>3 DEF PipelineInv, DispatchInv, HoldsDispatch
    <3>3. InFlight(dispatchT[p]) \in Written(dispatchT)
      BY <3>2, TopicTypes, InFlightWritten
    <3>4. DispatchOf(cwOut[p])
      BY <3>2, <3>3 DEF DispatchOf
    <3> QED BY <2>1, <3>1, <3>4 DEF ProvenanceInv, DispatchOf, FailureBefore
  <2> QED BY <1>3, <2>2, <2>3, CallWorkerWrites
<1>4. ASSUME NEW p \in StatusParts,
             StatusWorkerStep(p) \/ SWCrash(p) \/ SWShutdown(p) \/ SWClose(p) \/ SWFlush(p)
      PROVE  ProvenanceInv'
  <2>1. UNCHANGED dispatchT /\ Written(statusT') = Written(statusT)
    BY <1>4, StatusWorkerWrites
  <2>2. CASE UNCHANGED retryT
    BY <2>1, <2>2 DEF ProvenanceInv, DispatchOf, FailureBefore
  <2>3. CASE /\ swPc[p] = "retry" /\ SWMsg(p).retryable
             /\ Appended(RetryLanes, BudgetedRetry, retryT, retryT', RetryOf(SWMsg(p)))
    <3>1. Written(retryT') = Written(retryT) \cup {RetryOf(SWMsg(p))}
      BY <2>3 DEF Appended
    <3>2. SWMsg(p) \in Written(statusT) /\ SWMsg(p) \in BudgetedStatus
      BY <2>3, TopicTypes, InFlightWritten DEF SWMsg, PipelineInv, StatusInv
    <3>3. /\ RetryOf(SWMsg(p)).call = SWMsg(p).call
          /\ RetryOf(SWMsg(p)).attempt = SWMsg(p).attempt + 1
      BY <2>3, <3>2, RetryOfBudgeted
    <3>4. SWMsg(p).status = "failed" /\ SWMsg(p).attempt \in Nat
      BY <2>3, <3>2 DEF BudgetedStatus, StatusMessage
    <3>5. SWMsg(p).attempt = RetryOf(SWMsg(p)).attempt - 1
      BY <3>3, <3>4
    <3>6. FailureBefore(RetryOf(SWMsg(p)))
      BY <2>3, <3>2, <3>3, <3>4, <3>5 DEF FailureBefore
    <3> QED BY <2>1, <3>1, <3>6 DEF ProvenanceInv, DispatchOf, FailureBefore
  <2> QED BY <1>4, <2>2, <2>3, StatusWorkerWrites
<1>5. ASSUME NEW l \in RetryLanes,
             RetryWorkerStep(l) \/ RWCrash(l) \/ RWShutdown(l) \/ RWClose(l) \/ RWFlush(l)
      PROVE  ProvenanceInv'
  <2>1. UNCHANGED statusT /\ Written(retryT') = Written(retryT)
    BY <1>5, RetryWorkerWrites
  <2>2. CASE UNCHANGED dispatchT
    BY <2>1, <2>2 DEF ProvenanceInv, DispatchOf, FailureBefore
  <2>3. CASE /\ rwPc[l] = "dispatch"
             /\ Appended(DispatchParts, BudgetedDispatch, dispatchT, dispatchT',
                         Redispatch(InFlight(retryT[l])))
    <3> DEFINE r == InFlight(retryT[l])
    <3>1. Written(dispatchT') = Written(dispatchT) \cup {Redispatch(r)}
      BY <2>3 DEF Appended
    <3>2. r \in Written(retryT) /\ r \in BudgetedRetry
      BY <2>3, TopicTypes, InFlightWritten DEF PipelineInv, RetryInv
    <3>3. Redispatch(r).call = r.call /\ Redispatch(r).attempt = r.attempt
      BY <3>2, RedispatchBudgeted
    <3>4. FailureBefore(r)
      BY <3>2 DEF ProvenanceInv
    <3>5. FailureBefore(Redispatch(r))
      BY <3>3, <3>4 DEF FailureBefore
    <3> QED BY <2>1, <3>1, <3>5 DEF ProvenanceInv, DispatchOf, FailureBefore
  <2> QED BY <1>5, <2>2, <2>3, RetryWorkerWrites
<1>6. CASE KeyExpires
  BY <1>1, <1>6 DEF KeyExpires, topicVars
<1>7. CASE UNCHANGED vars
  BY <1>1, <1>7 DEF vars, topicVars
<1> QED BY <1>2, <1>3, <1>4, <1>5, <1>6, <1>7 DEF Next, WorkerStep, WorkerRestart, Idle

\* Attempt n + 1 of a call is dispatched only after attempt n was dispatched and its
\* failure was published as retryable: no redelivery, crash or error makes the
\* pipeline skip an attempt number or retry what did not fail.
THEOREM RetriesHaveCauses == Spec => []RetryFollowsFailure
<1>1. Init => ProvenanceInv
  <2> SUFFICES ASSUME Init PROVE ProvenanceInv
    OBVIOUS
  <2>1. Written(dispatchT) = {} /\ Written(statusT) = {} /\ Written(retryT) = {}
    BY EmptyTopic DEF Init
  <2> QED BY <2>1 DEF ProvenanceInv
<1>2. PipelineInv /\ ProvenanceInv /\ [Next]_vars => ProvenanceInv'
  BY NextKeepsProvenance
<1>3. PipelineInv /\ ProvenanceInv => RetryFollowsFailure
  <2> SUFFICES ASSUME PipelineInv, ProvenanceInv, NEW m \in Written(dispatchT), m.attempt > 1
               PROVE  /\ FailureBefore(m)
                      /\ \E d \in Written(dispatchT) : d.call = m.call /\ d.attempt = m.attempt - 1
    BY DEF RetryFollowsFailure, FailureBefore
  <2>1. FailureBefore(m)
    BY DEF ProvenanceInv
  <2>2. PICK s \in Written(statusT) : s.call = m.call /\ s.attempt = m.attempt - 1
    BY <2>1 DEF FailureBefore
  <2>3. DispatchOf(s)
    BY DEF ProvenanceInv
  <2> QED BY <2>1, <2>2, <2>3 DEF DispatchOf
<1> QED BY <1>1, <1>2, <1>3, PipelineInvariant, PTL DEF Spec

-----------------------------------------------------------------------------
(***************************************************************************)
(* Nothing is lost between the services but what an error costs: one       *)
(* message at most for each error of a store, of Redis or of Kafka, and    *)
(* none for a crash.  The argument counts the messages that consumers have *)
(* given up, whether or not their offsets are committed yet: a worker      *)
(* gives up a message only in a step that reports an error, what has been  *)
(* handed on stays handed on, and a crash goes back to a committed offset, *)
(* which is before the message the worker held.                            *)
(***************************************************************************)

\* What the next stages have received so far only grows.
Grows ==
  /\ Written(dispatchT) \subseteq Written(dispatchT')
  /\ Written(statusT) \subseteq Written(statusT')
  /\ Written(retryT) \subseteq Written(retryT')
  /\ attemptRows \subseteq attemptRows'

\* The step is an error that some store, Redis or Kafka reports.
Costs == \E k \in FaultKinds \ {"crash"} : Fault(k)

\* What was handed on stays handed on.
LEMMA HandedOnStays ==
  ASSUME Grows
  PROVE  /\ \A d : HasStatus(d) => HasStatus(d)'
         /\ \A m : StatusApplied(m) => StatusApplied(m)'
         /\ \A r : Redispatched(r) => Redispatched(r)'
<1>1. \A d : HasStatus(d) => HasStatus(d)'
  BY DEF Grows, HasStatus
<1>2. \A m : StatusApplied(m) => StatusApplied(m)'
  BY DEF Grows, StatusApplied
<1>3. \A r : Redispatched(r) => Redispatched(r)'
  BY DEF Grows, Redispatched
<1> QED BY <1>1, <1>2, <1>3

\* While nobody is told to stop, an operation fails only at the price of a fault.
LEMMA FailingCosts ==
  ASSUME stopping = {}, NEW k, k # "crash", NEW w, Failing(k, w)
  PROVE  Costs
BY DEF Failing, Fault, Costs

\* The offsets of a partition.
LEMMA Offsets ==
  ASSUME NEW P, NEW M, NEW t \in OrderedTopics(P, M), NEW p \in P
  PROVE  /\ t[p].fetched \in Nat /\ t[p].acked \in Nat /\ t[p].committed \in Nat
         /\ t[p].committed <= t[p].acked /\ t[p].acked <= t[p].fetched
         /\ t[p].fetched <= Len(t[p].log) /\ Len(t[p].log) \in Nat
<1>1. t[p] \in Partition(M) /\ Ordered(t[p])
  BY DEF OrderedTopics, Topics
<1> QED BY <1>1 DEF Partition, Ordered

-----------------------------------------------------------------------------
(* Call workers *)

\* To bound what is given up it is enough to look at every offset.
LEMMA FewerDispatches ==
  ASSUME NEW Y,
         \A p \in DispatchParts : \A i \in 1..dispatchT'[p].fetched : GaveUpDispatch(p, i)' =>
            (i \in 1..dispatchT[p].fetched /\ GaveUpDispatch(p, i)) \/ <<p, i>> \in Y
  PROVE  DispatchesGivenUp' \subseteq DispatchesGivenUp \cup Y
<1> SUFFICES ASSUME NEW x \in DispatchesGivenUp'
             PROVE  x \in DispatchesGivenUp \cup Y
  OBVIOUS
<1>1. PICK p \in DispatchParts : \E i \in 1..dispatchT'[p].fetched : x = <<p, i>> /\ GaveUpDispatch(p, i)'
  BY DEF DispatchesGivenUp
<1>2. PICK i \in 1..dispatchT'[p].fetched : x = <<p, i>> /\ GaveUpDispatch(p, i)'
  BY <1>1
<1>3. CASE <<p, i>> \in Y
  BY <1>2, <1>3
<1>4. CASE i \in 1..dispatchT[p].fetched /\ GaveUpDispatch(p, i)
  BY <1>2, <1>4 DEF DispatchesGivenUp
<1> QED BY <1>2, <1>3, <1>4

\* What other steps may do to a dispatch partition gives up none of its messages.
LEMMA DispatchFrame ==
  ASSUME PipelineInv, Grows, NEW p \in DispatchParts, cwPc'[p] = cwPc[p],
         \/ dispatchT'[p] = dispatchT[p]
         \/ \E m : Appended(DispatchParts, BudgetedDispatch, dispatchT, dispatchT', m)
  PROVE  /\ dispatchT'[p].fetched = dispatchT[p].fetched /\ dispatchT'[p].acked = dispatchT[p].acked
         /\ HoldsDispatch(p)' = HoldsDispatch(p)
         /\ \A i \in 1..dispatchT[p].fetched : GaveUpDispatch(p, i)' => GaveUpDispatch(p, i)
<1>1. \A d : HasStatus(d) => HasStatus(d)'
  BY HandedOnStays
<1>2. /\ dispatchT'[p].fetched = dispatchT[p].fetched /\ dispatchT'[p].acked = dispatchT[p].acked
      /\ \A i \in 1..dispatchT[p].fetched : dispatchT'[p].log[i] = dispatchT[p].log[i]
  BY TopicTypes, Offsets DEF Appended
<1>3. HoldsDispatch(p)' = HoldsDispatch(p)
  BY DEF HoldsDispatch
<1>4. ASSUME NEW i \in 1..dispatchT[p].fetched, GaveUpDispatch(p, i)'
      PROVE  GaveUpDispatch(p, i)
  <2>1. ~HasStatus(dispatchT[p].log[i])'
    BY <1>2, <1>4 DEF GaveUpDispatch, HasStatus
  <2>2. ~HasStatus(dispatchT[p].log[i])
    BY <1>2, <2>1, HandedOnStays DEF HasStatus
  <2> QED BY <1>2, <1>4, <2>2 DEF GaveUpDispatch
<1> QED BY <1>2, <1>3, <1>4

\* A call worker gives up a dispatch only when the slot or the publishing fails.
LEMMA CallWorkerGivesUp ==
  ASSUME PipelineInv, HeldUnacked, stopping = {}, NEW p \in DispatchParts,
         CallWorkerStep(p) \/ CWCrash(p) \/ CWFlush(p)
  PROVE  /\ Grows /\ stopping' = {}
         /\ \A q \in DispatchParts : HoldsDispatch(q)' => dispatchT'[q].acked < dispatchT'[q].fetched
         /\ \/ DispatchesGivenUp' \subseteq DispatchesGivenUp
            \/ Costs /\ \E y : DispatchesGivenUp' \subseteq DispatchesGivenUp \cup {y}
<1> DEFINE f == dispatchT[p].fetched
           Stays(i) == i \in 1..f /\ GaveUpDispatch(p, i)
<1>1. /\ dispatchT \in OrderedTopics(DispatchParts, BudgetedDispatch)
      /\ cwPc \in [DispatchParts -> CallPcs] /\ DispatchInv
      /\ HoldsDispatch(p) => dispatchT[p].acked < dispatchT[p].fetched
  BY TopicTypes DEF PipelineInv, DispatchInv, HeldUnacked
<1>2. Grows
  BY CallWorkerWrites DEF Grows, Appended
<1>3. \A d : HasStatus(d) => HasStatus(d)'
  BY <1>2, HandedOnStays
<1>4. /\ f \in Nat /\ dispatchT[p].acked \in Nat /\ dispatchT[p].committed \in Nat
      /\ dispatchT[p].committed <= dispatchT[p].acked /\ dispatchT[p].acked <= f
  BY <1>1, Offsets
<1>6. stopping' = {}
  BY DEF CallWorkerStep, CWFetch, CWAcquire, CWDial, CWPublish, CWCommit, CWRelease,
         CWCrash, CWFlush
<1>7. \A q \in DispatchParts \ {p} : dispatchT'[q] = dispatchT[q] /\ cwPc'[q] = cwPc[q]
  <2>1. CASE CWFetch(p)
    BY <1>1, <2>1, FetchKeepsOrder DEF CWFetch, CWGoto, Moved
  <2>2. CASE CWAcquire(p) \/ CWDial(p) \/ CWPublish(p) \/ CWRelease(p)
    BY <1>1, <2>2 DEF CWAcquire, CWDial, CWPublish, CWRelease, CWGoto, topicVars
  <2>3. CASE CWCommit(p)
    BY <1>1, <2>3, CommitKeepsOrder DEF CWCommit, CWGoto, Moved
  <2>4. CASE CWCrash(p)
    BY <1>1, <2>4, RejoinKeepsOrder DEF CWCrash, CWGoto, Moved
  <2>5. CASE CWFlush(p)
    BY <1>1, <2>5, FlushKeepsOrder DEF CWFlush, workerVars, Moved
  <2> QED BY <2>1, <2>2, <2>3, <2>4, <2>5 DEF CallWorkerStep
<1>8. \A q \in DispatchParts \ {p} :
        /\ dispatchT'[q].fetched = dispatchT[q].fetched
        /\ HoldsDispatch(q)' => dispatchT'[q].acked < dispatchT'[q].fetched
        /\ \A i \in 1..dispatchT[q].fetched : GaveUpDispatch(q, i)' => GaveUpDispatch(q, i)
  BY <1>2, <1>7, DispatchFrame DEF HeldUnacked
<1>9. /\ HoldsDispatch(p)' => dispatchT'[p].acked < dispatchT'[p].fetched
      /\ \/ \A i \in 1..dispatchT'[p].fetched : GaveUpDispatch(p, i)' => Stays(i)
         \/ Costs /\ \A i \in 1..dispatchT'[p].fetched : GaveUpDispatch(p, i)' => Stays(i) \/ i = f
  <2>1. CASE CWFetch(p)
    <3>1. Moved(DispatchParts, BudgetedDispatch, dispatchT, dispatchT', p,
                f + 1, dispatchT[p].acked, dispatchT[p].committed)
      BY <1>1, <2>1, FetchKeepsOrder DEF CWFetch
    <3>2. cwPc[p] = "idle" /\ cwPc'[p] = "acquire" /\ UNCHANGED statusT
      BY <1>1, <2>1 DEF CWFetch, CWGoto
    <3> QED BY <1>4, <3>1, <3>2 DEF GaveUpDispatch, HoldsDispatch, Moved, HasStatus
  <2>2. CASE CWAcquire(p)
    <3>1. /\ cwPc[p] = "acquire" /\ UNCHANGED <<dispatchT, statusT>>
          /\ cwPc'[p] = "dial" \/ (cwPc'[p] = "idle" /\ Costs)
      BY <1>1, <2>2, FailingCosts DEF CWAcquire, CWGoto, topicVars
    <3> QED BY <1>1, <1>4, <3>1 DEF GaveUpDispatch, HoldsDispatch, HasStatus
  <2>3. CASE CWDial(p)
    <3>1. cwPc[p] = "dial" /\ cwPc'[p] = "publish" /\ UNCHANGED <<dispatchT, statusT>>
      BY <1>1, <2>3 DEF CWDial, CWGoto, topicVars
    <3> QED BY <1>1, <1>4, <3>1 DEF GaveUpDispatch, HoldsDispatch, HasStatus
  <2>4. CASE CWPublish(p)
    <3>1. cwPc[p] = "publish" /\ cwPc'[p] = "commit" /\ UNCHANGED dispatchT
      BY <1>1, <2>4 DEF CWPublish, CWGoto
    <3>2. ASSUME NEW i \in 1..f, i # f, GaveUpDispatch(p, i)'
          PROVE  GaveUpDispatch(p, i)
      <4>1. ~HasStatus(dispatchT[p].log[i])'
        BY <3>1, <3>2 DEF GaveUpDispatch, HasStatus
      <4>2. ~HasStatus(dispatchT[p].log[i])
        BY <1>3, <3>1, <4>1 DEF HasStatus
      <4> QED BY <3>2, <4>2 DEF GaveUpDispatch
    <3>3. CASE Failing("kafka", CW(p))
      <4>1. Costs
        BY <3>3, FailingCosts
      <4> QED BY <1>1, <3>1, <3>2, <4>1 DEF HoldsDispatch
    <3>4. CASE \E q \in StatusParts : statusT' = WriteMessages(statusT, q, cwOut[p])
      <4>1. cwOut[p] \in BudgetedStatus
        BY <1>1, <3>1 DEF DispatchInv
      <4>2. Appended(StatusParts, BudgetedStatus, statusT, statusT', cwOut[p])
        BY <3>4, <4>1, TopicTypes, WriteKeepsOrder
      <4>3. cwOut[p] \in Written(statusT')
        BY <4>2 DEF Appended
      <4>4. /\ cwOut[p].call = dispatchT[p].log[f].call
            /\ cwOut[p].attempt = dispatchT[p].log[f].attempt
        BY <1>1, <3>1 DEF DispatchInv, InFlight
      <4>5. ~GaveUpDispatch(p, f)'
        BY <3>1, <4>3, <4>4 DEF GaveUpDispatch, HasStatus
      <4> QED BY <1>1, <3>1, <3>2, <4>5 DEF HoldsDispatch
    <3> QED BY <2>4, <3>3, <3>4 DEF CWPublish
  <2>5. CASE CWCommit(p)
    <3>1. Moved(DispatchParts, BudgetedDispatch, dispatchT, dispatchT', p,
                f, f, dispatchT[p].committed)
      BY <1>1, <2>5, CommitKeepsOrder DEF CWCommit
    <3>2. cwPc[p] = "commit" /\ cwPc'[p] \in {"idle", "release"} /\ UNCHANGED statusT
      BY <1>1, <2>5 DEF CWCommit, CWGoto
    <3> QED BY <3>1, <3>2 DEF GaveUpDispatch, HoldsDispatch, Moved, HasStatus
  <2>6. CASE CWRelease(p)
    <3>1. cwPc[p] = "release" /\ cwPc'[p] = "idle" /\ UNCHANGED <<dispatchT, statusT>>
      BY <1>1, <2>6 DEF CWRelease, CWGoto, topicVars
    <3> QED BY <1>1, <1>4, <3>1 DEF GaveUpDispatch, HoldsDispatch, HasStatus
  <2>7. CASE CWCrash(p)
    <3>1. Moved(DispatchParts, BudgetedDispatch, dispatchT, dispatchT', p,
                dispatchT[p].committed, dispatchT[p].committed, dispatchT[p].committed)
      BY <1>1, <2>7, RejoinKeepsOrder DEF CWCrash
    <3>2. cwPc'[p] = "idle" /\ UNCHANGED statusT
      BY <1>1, <2>7 DEF CWCrash, CWGoto
    <3>3. \A i \in 1..dispatchT[p].committed :
             i \in 1..f /\ (i = f => cwPc[p] \notin {"acquire", "dial", "publish"})
      BY <1>1, <1>4 DEF HoldsDispatch
    <3> QED BY <3>1, <3>2, <3>3 DEF GaveUpDispatch, HoldsDispatch, Moved, HasStatus
  <2>8. CASE CWFlush(p)
    <3>1. Moved(DispatchParts, BudgetedDispatch, dispatchT, dispatchT', p,
                f, dispatchT[p].acked, dispatchT[p].acked)
      BY <1>1, <2>8, FlushKeepsOrder DEF CWFlush
    <3>2. UNCHANGED <<cwPc, statusT>>
      BY <2>8 DEF CWFlush, workerVars
    <3> QED BY <1>1, <3>1, <3>2 DEF GaveUpDispatch, HoldsDispatch, Moved, HasStatus
  <2> QED BY <2>1, <2>2, <2>3, <2>4, <2>5, <2>6, <2>7, <2>8 DEF CallWorkerStep
<1>10. CASE \A i \in 1..dispatchT'[p].fetched : GaveUpDispatch(p, i)' => Stays(i)
  <2>1. DispatchesGivenUp' \subseteq DispatchesGivenUp \cup {}
    BY <1>8, <1>10, FewerDispatches
  <2> QED BY <1>2, <1>6, <1>8, <1>9, <2>1
<1>11. CASE Costs /\ \A i \in 1..dispatchT'[p].fetched : GaveUpDispatch(p, i)' => Stays(i) \/ i = f
  <2>1. DispatchesGivenUp' \subseteq DispatchesGivenUp \cup {<<p, f>>}
    BY <1>8, <1>11, FewerDispatches
  <2> QED BY <1>2, <1>6, <1>8, <1>9, <1>11, <2>1
<1> QED BY <1>9, <1>10, <1>11

-----------------------------------------------------------------------------
(* Status workers *)

LEMMA FewerStatuses ==
  ASSUME NEW Y,
         \A p \in StatusParts : \A i \in 1..statusT'[p].fetched : GaveUpStatus(p, i)' =>
            (i \in 1..statusT[p].fetched /\ GaveUpStatus(p, i)) \/ <<p, i>> \in Y
  PROVE  StatusesGivenUp' \subseteq StatusesGivenUp \cup Y
<1> SUFFICES ASSUME NEW x \in StatusesGivenUp'
             PROVE  x \in StatusesGivenUp \cup Y
  OBVIOUS
<1>1. PICK p \in StatusParts : \E i \in 1..statusT'[p].fetched : x = <<p, i>> /\ GaveUpStatus(p, i)'
  BY DEF StatusesGivenUp
<1>2. PICK i \in 1..statusT'[p].fetched : x = <<p, i>> /\ GaveUpStatus(p, i)'
  BY <1>1
<1>3. CASE <<p, i>> \in Y
  BY <1>2, <1>3
<1>4. CASE i \in 1..statusT[p].fetched /\ GaveUpStatus(p, i)
  BY <1>2, <1>4 DEF StatusesGivenUp
<1> QED BY <1>2, <1>3, <1>4

\* A partition whose worker does not move keeps what it has given up, or has it handed on.
LEMMA StatusFrame ==
  ASSUME PipelineInv, Grows, NEW p \in StatusParts, swPc'[p] = swPc[p],
         \/ statusT'[p] = statusT[p]
         \/ \E m : Appended(StatusParts, BudgetedStatus, statusT, statusT', m)
  PROVE  /\ statusT'[p].fetched = statusT[p].fetched /\ statusT'[p].acked = statusT[p].acked
         /\ \A i \in 1..statusT[p].fetched : GaveUpStatus(p, i)' => GaveUpStatus(p, i)
<1>1. attemptRows \subseteq attemptRows' /\ \A m : StatusApplied(m) => StatusApplied(m)'
  BY HandedOnStays DEF Grows
<1>2. /\ statusT'[p].fetched = statusT[p].fetched /\ statusT'[p].acked = statusT[p].acked
      /\ \A i \in 1..statusT[p].fetched : statusT'[p].log[i] = statusT[p].log[i]
  BY TopicTypes, Offsets DEF Appended
<1>3. ASSUME NEW i \in 1..statusT[p].fetched, GaveUpStatus(p, i)'
      PROVE  GaveUpStatus(p, i)
  <2>1. AttemptRow(statusT[p].log[i])' = AttemptRow(statusT[p].log[i])
    BY <1>2 DEF AttemptRow
  <2>2. StatusApplied(statusT[p].log[i]) => StatusApplied(statusT[p].log[i])'
    BY <1>1, <1>2 DEF StatusApplied
  <2> QED BY <1>1, <1>2, <1>3, <2>1, <2>2 DEF GaveUpStatus
<1> QED BY <1>2, <1>3

\* A status worker gives up a status only when the attempt row or the retry fails.
LEMMA StatusWorkerGivesUp ==
  ASSUME PipelineInv, HeldUnacked, stopping = {}, NEW p \in StatusParts,
         StatusWorkerStep(p) \/ SWCrash(p) \/ SWFlush(p)
  PROVE  /\ Grows /\ stopping' = {}
         /\ \A q \in StatusParts : swPc'[q] # "idle" => statusT'[q].acked < statusT'[q].fetched
         /\ \/ StatusesGivenUp' \subseteq StatusesGivenUp
            \/ Costs /\ \E y : StatusesGivenUp' \subseteq StatusesGivenUp \cup {y}
<1> DEFINE f == statusT[p].fetched
           Stays(i) == i \in 1..f /\ GaveUpStatus(p, i)
<1>1. /\ statusT \in OrderedTopics(StatusParts, BudgetedStatus)
      /\ retryT \in OrderedTopics(RetryLanes, BudgetedRetry)
      /\ swPc \in [StatusParts -> StatusPcs] /\ StatusInv
      /\ swPc[p] # "idle" => statusT[p].acked < statusT[p].fetched
  BY TopicTypes DEF PipelineInv, StatusInv, HeldUnacked
<1>2. Grows
  BY StatusWorkerWrites DEF Grows, Appended
<1>3. attemptRows \subseteq attemptRows' /\ \A m : StatusApplied(m) => StatusApplied(m)'
  BY <1>2, HandedOnStays DEF Grows
<1>4. /\ f \in Nat /\ statusT[p].acked \in Nat /\ statusT[p].committed \in Nat
      /\ statusT[p].committed <= statusT[p].acked /\ statusT[p].acked <= f
  BY <1>1, Offsets
<1>6. stopping' = {}
  BY DEF StatusWorkerStep, SWFetch, SWUpdate, SWAppend, SWStats, SWRetry, SWCommit,
         SWCrash, SWFlush
<1>7. \A q \in StatusParts \ {p} : statusT'[q] = statusT[q] /\ swPc'[q] = swPc[q]
  <2>1. CASE SWFetch(p)
    BY <1>1, <2>1, FetchKeepsOrder DEF SWFetch, SWGoto, Moved
  <2>2. CASE SWUpdate(p) \/ SWAppend(p) \/ SWStats(p) \/ SWRetry(p)
    BY <1>1, <2>2 DEF SWUpdate, SWAppend, SWStats, SWRetry, SWGoto, topicVars
  <2>3. CASE SWCommit(p)
    BY <1>1, <2>3, CommitKeepsOrder DEF SWCommit, SWGoto, Moved
  <2>4. CASE SWCrash(p)
    BY <1>1, <2>4, RejoinKeepsOrder DEF SWCrash, SWGoto, Moved
  <2>5. CASE SWFlush(p)
    BY <1>1, <2>5, FlushKeepsOrder DEF SWFlush, workerVars, Moved
  <2> QED BY <2>1, <2>2, <2>3, <2>4, <2>5 DEF StatusWorkerStep
<1>8. \A q \in StatusParts \ {p} :
        /\ statusT'[q].fetched = statusT[q].fetched
        /\ swPc'[q] # "idle" => statusT'[q].acked < statusT'[q].fetched
        /\ \A i \in 1..statusT[q].fetched : GaveUpStatus(q, i)' => GaveUpStatus(q, i)
  BY <1>2, <1>7, StatusFrame DEF HeldUnacked
<1>12. ASSUME UNCHANGED statusT, NEW i \in 1..f, i # f, GaveUpStatus(p, i)'
       PROVE  GaveUpStatus(p, i)
  <2>1. ~StatusApplied(statusT[p].log[i])'
    BY <1>12 DEF GaveUpStatus, StatusApplied
  <2>2. ~StatusApplied(statusT[p].log[i])
    BY <1>3, <1>12, <2>1 DEF StatusApplied
  <2> QED BY <1>12, <2>2 DEF GaveUpStatus
<1>9. /\ swPc'[p] # "idle" => statusT'[p].acked < statusT'[p].fetched
      /\ \/ \A i \in 1..statusT'[p].fetched : GaveUpStatus(p, i)' => Stays(i)
         \/ Costs /\ \A i \in 1..statusT'[p].fetched : GaveUpStatus(p, i)' => Stays(i) \/ i = f
  <2>1. CASE SWFetch(p)
    <3>1. Moved(StatusParts, BudgetedStatus, statusT, statusT', p,
                f + 1, statusT[p].acked, statusT[p].committed)
      BY <1>1, <2>1, FetchKeepsOrder DEF SWFetch
    <3>2. swPc[p] = "idle" /\ swPc'[p] = "update" /\ UNCHANGED <<attemptRows, retryT>>
      BY <1>1, <2>1 DEF SWFetch, SWGoto, storeVars
    <3> QED BY <1>4, <3>1, <3>2 DEF GaveUpStatus, Moved, StatusApplied
  <2>2. CASE SWUpdate(p)
    <3>1. swPc[p] = "update" /\ swPc'[p] = "append" /\ UNCHANGED statusT
      BY <1>1, <2>2 DEF SWUpdate, SWGoto, topicVars
    <3>2. ~GaveUpStatus(p, f)'
      BY <3>1 DEF GaveUpStatus
    <3> QED BY <1>1, <1>12, <3>1, <3>2
  <2>3. CASE SWAppend(p)
    <3>1. swPc[p] = "append" /\ swPc'[p] = "stats" /\ UNCHANGED statusT
      BY <1>1, <2>3 DEF SWAppend, SWGoto, topicVars
    <3>2. CASE Failing("scylla", SW(p))
      <4>1. Costs
        BY <3>2, FailingCosts
      <4> QED BY <1>1, <1>12, <3>1, <4>1
    <3>3. CASE attemptRows' = attemptRows \cup {AttemptRow(SWMsg(p))}
      <4>1. ~GaveUpStatus(p, f)'
        BY <3>1, <3>3 DEF GaveUpStatus, SWMsg, InFlight, AttemptRow
      <4> QED BY <1>1, <1>12, <3>1, <4>1
    <3> QED BY <2>3, <3>2, <3>3 DEF SWAppend
  <2>4. CASE SWStats(p)
    <3>1. swPc[p] = "stats" /\ swPc'[p] = "retry" /\ UNCHANGED <<statusT, attemptRows>>
      BY <1>1, <2>4 DEF SWStats, SWGoto, topicVars
    <3>2. GaveUpStatus(p, f)' => GaveUpStatus(p, f)
      BY <3>1 DEF GaveUpStatus, AttemptRow
    <3> QED BY <1>1, <1>12, <3>1, <3>2
  <2>5. CASE SWRetry(p)
    <3>1. swPc[p] = "retry" /\ swPc'[p] = "commit" /\ UNCHANGED <<statusT, attemptRows>>
      BY <1>1, <2>5 DEF SWRetry, SWGoto, storeVars
    <3>2. CASE Failing("kafka", SW(p))
      <4>1. Costs
        BY <3>2, FailingCosts
      <4> QED BY <1>1, <1>12, <3>1, <4>1
    <3>3. CASE ~Failing("kafka", SW(p))
      <4>1. SWMsg(p) \in BudgetedStatus /\ SWMsg(p) = statusT[p].log[f]
        BY <1>1, <3>1, InFlightWritten DEF SWMsg, StatusInv, InFlight
      <4>2. SWMsg(p).retryable /\ HasRetryTopic(SWMsg(p).attempt)
              => RetryOf(SWMsg(p)) \in Written(retryT')
        <5> SUFFICES ASSUME SWMsg(p).retryable, HasRetryTopic(SWMsg(p).attempt)
                     PROVE  RetryOf(SWMsg(p)) \in Written(retryT')
          OBVIOUS
        <5>1. ScheduleRetry(SWMsg(p))
          BY <2>5, <3>3 DEF SWRetry
        <5>2. PICK q \in RetryParts :
                retryT' = WriteMessages(retryT, <<SWMsg(p).attempt, q>>, RetryOf(SWMsg(p)))
          BY <5>1 DEF ScheduleRetry
        <5>3. <<SWMsg(p).attempt, q>> \in RetryLanes
          BY DEF HasRetryTopic, RetryLanes
        <5>4. RetryOf(SWMsg(p)) \in BudgetedRetry
          BY <4>1, RetryOfBudgeted
        <5>5. Appended(RetryLanes, BudgetedRetry, retryT, retryT', RetryOf(SWMsg(p)))
          BY <1>1, <5>2, <5>3, <5>4, WriteKeepsOrder
        <5> QED BY <5>5 DEF Appended
      <4>3. AttemptRow(statusT[p].log[f]) \in attemptRows => StatusApplied(statusT[p].log[f])'
        BY <3>1, <4>1, <4>2 DEF StatusApplied, AttemptRow, RetryOf, HasRetryTopic
      <4>4. GaveUpStatus(p, f)' => GaveUpStatus(p, f)
        BY <3>1, <4>3 DEF GaveUpStatus, StatusApplied
      <4> QED BY <1>1, <1>12, <3>1, <4>4
    <3> QED BY <3>2, <3>3
  <2>6. CASE SWCommit(p)
    <3>1. Moved(StatusParts, BudgetedStatus, statusT, statusT', p, f, f, statusT[p].committed)
      BY <1>1, <2>6, CommitKeepsOrder DEF SWCommit
    <3>2. swPc[p] = "commit" /\ swPc'[p] = "idle" /\ UNCHANGED <<attemptRows, retryT>>
      BY <1>1, <2>6 DEF SWCommit, SWGoto, storeVars
    <3> QED BY <3>1, <3>2 DEF GaveUpStatus, Moved, StatusApplied
  <2>7. CASE SWCrash(p)
    <3>1. Moved(StatusParts, BudgetedStatus, statusT, statusT', p,
                statusT[p].committed, statusT[p].committed, statusT[p].committed)
      BY <1>1, <2>7, RejoinKeepsOrder DEF SWCrash
    <3>2. swPc'[p] = "idle" /\ UNCHANGED <<attemptRows, retryT>>
      BY <1>1, <2>7 DEF SWCrash, SWGoto, storeVars
    <3>3. \A i \in 1..statusT[p].committed : i \in 1..f /\ (i = f => swPc[p] = "idle")
      BY <1>1, <1>4
    <3> QED BY <3>1, <3>2, <3>3 DEF GaveUpStatus, Moved, StatusApplied
  <2>8. CASE SWFlush(p)
    <3>1. Moved(StatusParts, BudgetedStatus, statusT, statusT', p,
                f, statusT[p].acked, statusT[p].acked)
      BY <1>1, <2>8, FlushKeepsOrder DEF SWFlush
    <3>2. UNCHANGED <<swPc, attemptRows, retryT>>
      BY <2>8 DEF SWFlush, workerVars, storeVars
    <3> QED BY <1>1, <3>1, <3>2 DEF GaveUpStatus, Moved, StatusApplied, AttemptRow
  <2> QED BY <2>1, <2>2, <2>3, <2>4, <2>5, <2>6, <2>7, <2>8 DEF StatusWorkerStep
<1>10. CASE \A i \in 1..statusT'[p].fetched : GaveUpStatus(p, i)' => Stays(i)
  <2>1. StatusesGivenUp' \subseteq StatusesGivenUp \cup {}
    BY <1>8, <1>10, FewerStatuses
  <2> QED BY <1>2, <1>6, <1>8, <1>9, <2>1
<1>11. CASE Costs /\ \A i \in 1..statusT'[p].fetched : GaveUpStatus(p, i)' => Stays(i) \/ i = f
  <2>1. StatusesGivenUp' \subseteq StatusesGivenUp \cup {<<p, f>>}
    BY <1>8, <1>11, FewerStatuses
  <2> QED BY <1>2, <1>6, <1>8, <1>9, <1>11, <2>1
<1> QED BY <1>9, <1>10, <1>11

-----------------------------------------------------------------------------
(* Retry workers *)

LEMMA FewerRetries ==
  ASSUME NEW Y,
         \A l \in RetryLanes : \A i \in 1..retryT'[l].fetched : GaveUpRetry(l, i)' =>
            (i \in 1..retryT[l].fetched /\ GaveUpRetry(l, i)) \/ <<l, i>> \in Y
  PROVE  RetriesGivenUp' \subseteq RetriesGivenUp \cup Y
<1> SUFFICES ASSUME NEW x \in RetriesGivenUp'
             PROVE  x \in RetriesGivenUp \cup Y
  OBVIOUS
<1>1. PICK l \in RetryLanes : \E i \in 1..retryT'[l].fetched : x = <<l, i>> /\ GaveUpRetry(l, i)'
  BY DEF RetriesGivenUp
<1>2. PICK i \in 1..retryT'[l].fetched : x = <<l, i>> /\ GaveUpRetry(l, i)'
  BY <1>1
<1>3. CASE <<l, i>> \in Y
  BY <1>2, <1>3
<1>4. CASE i \in 1..retryT[l].fetched /\ GaveUpRetry(l, i)
  BY <1>2, <1>4 DEF RetriesGivenUp
<1> QED BY <1>2, <1>3, <1>4

\* A lane whose worker does not move keeps what it has given up, or has it handed on.
LEMMA RetryFrame ==
  ASSUME PipelineInv, Grows, NEW l \in RetryLanes, rwPc'[l] = rwPc[l],
         \/ retryT'[l] = retryT[l]
         \/ \E m : Appended(RetryLanes, BudgetedRetry, retryT, retryT', m)
  PROVE  /\ retryT'[l].fetched = retryT[l].fetched /\ retryT'[l].acked = retryT[l].acked
         /\ \A i \in 1..retryT[l].fetched : GaveUpRetry(l, i)' => GaveUpRetry(l, i)
<1>1. Written(dispatchT) \subseteq Written(dispatchT')
  BY DEF Grows
<1>2. /\ retryT'[l].fetched = retryT[l].fetched /\ retryT'[l].acked = retryT[l].acked
      /\ \A i \in 1..retryT[l].fetched : retryT'[l].log[i] = retryT[l].log[i]
  BY TopicTypes, Offsets DEF Appended
<1>3. ASSUME NEW i \in 1..retryT[l].fetched, GaveUpRetry(l, i)'
      PROVE  GaveUpRetry(l, i)
  BY <1>1, <1>2, <1>3 DEF GaveUpRetry, Redispatched
<1> QED BY <1>2, <1>3

\* A retry worker gives up a retry only when the dispatch fails.
LEMMA RetryWorkerGivesUp ==
  ASSUME PipelineInv, HeldUnacked, stopping = {}, NEW l \in RetryLanes,
         RetryWorkerStep(l) \/ RWCrash(l) \/ RWFlush(l)
  PROVE  /\ Grows /\ stopping' = {}
         /\ \A k \in RetryLanes : rwPc'[k] # "idle" => retryT'[k].acked < retryT'[k].fetched
         /\ \/ RetriesGivenUp' \subseteq RetriesGivenUp
            \/ Costs /\ \E y : RetriesGivenUp' \subseteq RetriesGivenUp \cup {y}
<1> DEFINE f == retryT[l].fetched
           Stays(i) == i \in 1..f /\ GaveUpRetry(l, i)
<1>1. /\ retryT \in OrderedTopics(RetryLanes, BudgetedRetry)
      /\ dispatchT \in OrderedTopics(DispatchParts, BudgetedDispatch)
      /\ rwPc \in [RetryLanes -> RetryPcs] /\ RetryInv
      /\ rwPc[l] # "idle" => retryT[l].acked < retryT[l].fetched
  BY TopicTypes DEF PipelineInv, RetryInv, HeldUnacked
<1>2. Grows
  BY RetryWorkerWrites DEF Grows, Appended
<1>3. Written(dispatchT) \subseteq Written(dispatchT')
  BY <1>2 DEF Grows
<1>4. /\ f \in Nat /\ retryT[l].acked \in Nat /\ retryT[l].committed \in Nat
      /\ retryT[l].committed <= retryT[l].acked /\ retryT[l].acked <= f
  BY <1>1, Offsets
<1>6. stopping' = {}
  BY DEF RetryWorkerStep, RWFetch, RWWait, RWDispatch, RWCommit, RWCrash, RWFlush
<1>7. \A k \in RetryLanes \ {l} : retryT'[k] = retryT[k] /\ rwPc'[k] = rwPc[k]
  <2>1. CASE RWFetch(l)
    BY <1>1, <2>1, FetchKeepsOrder DEF RWFetch, RWGoto, Moved
  <2>2. CASE RWWait(l) \/ RWDispatch(l)
    BY <1>1, <2>2 DEF RWWait, RWDispatch, RWGoto
  <2>3. CASE RWCommit(l)
    BY <1>1, <2>3, CommitKeepsOrder DEF RWCommit, RWGoto, Moved
  <2>4. CASE RWCrash(l)
    BY <1>1, <2>4, RejoinKeepsOrder DEF RWCrash, RWGoto, Moved
  <2>5. CASE RWFlush(l)
    BY <1>1, <2>5, FlushKeepsOrder DEF RWFlush, workerVars, Moved
  <2> QED BY <2>1, <2>2, <2>3, <2>4, <2>5 DEF RetryWorkerStep
<1>8. \A k \in RetryLanes \ {l} :
        /\ retryT'[k].fetched = retryT[k].fetched
        /\ rwPc'[k] # "idle" => retryT'[k].acked < retryT'[k].fetched
        /\ \A i \in 1..retryT[k].fetched : GaveUpRetry(k, i)' => GaveUpRetry(k, i)
  BY <1>2, <1>7, RetryFrame DEF HeldUnacked
<1>9. /\ rwPc'[l] # "idle" => retryT'[l].acked < retryT'[l].fetched
      /\ \/ \A i \in 1..retryT'[l].fetched : GaveUpRetry(l, i)' => Stays(i)
         \/ Costs /\ \A i \in 1..retryT'[l].fetched : GaveUpRetry(l, i)' => Stays(i) \/ i = f
  <2>1. CASE RWFetch(l)
    <3>1. Moved(RetryLanes, BudgetedRetry, retryT, retryT', l,
                f + 1, retryT[l].acked, retryT[l].committed)
      BY <1>1, <2>1, FetchKeepsOrder DEF RWFetch
    <3>2. rwPc[l] = "idle" /\ rwPc'[l] = "wait" /\ UNCHANGED dispatchT
      BY <1>1, <2>1 DEF RWFetch, RWGoto
    <3> QED BY <1>4, <3>1, <3>2 DEF GaveUpRetry, Redispatched, Moved
  <2>2. CASE RWWait(l)
    <3>1. rwPc[l] = "wait" /\ rwPc'[l] = "dispatch" /\ UNCHANGED <<retryT, dispatchT>>
      BY <1>1, <2>2 DEF RWWait, RWGoto
    <3> QED BY <1>1, <3>1 DEF GaveUpRetry, Redispatched
  <2>3. CASE RWDispatch(l)
    <3>1. rwPc[l] = "dispatch" /\ UNCHANGED retryT
      BY <2>3 DEF RWDispatch
    <3>2. ASSUME NEW i \in 1..f, i # f, GaveUpRetry(l, i)'
          PROVE  GaveUpRetry(l, i)
      BY <1>3, <3>1, <3>2 DEF GaveUpRetry, Redispatched
    <3>3. CASE Failing("kafka", RW(l)) /\ RWGoto(l, "idle")
      <4>1. Costs /\ rwPc'[l] = "idle"
        BY <1>1, <3>3, FailingCosts DEF RWGoto
      <4> QED BY <3>1, <3>2, <4>1
    <3>4. CASE /\ \E p \in DispatchParts :
                    dispatchT' = WriteMessages(dispatchT, p, Redispatch(InFlight(retryT[l])))
               /\ RWGoto(l, "commit")
      <4>1. rwPc'[l] = "commit"
        BY <1>1, <3>4 DEF RWGoto
      <4>2. InFlight(retryT[l]) \in BudgetedRetry
        BY <1>1, <3>1, InFlightWritten DEF RetryInv
      <4>3. Redispatch(InFlight(retryT[l])) \in BudgetedDispatch
        BY <4>2, RedispatchBudgeted
      <4>4. Appended(DispatchParts, BudgetedDispatch, dispatchT, dispatchT',
                     Redispatch(InFlight(retryT[l])))
        BY <1>1, <3>4, <4>3, WriteKeepsOrder
      <4>5. ~GaveUpRetry(l, f)'
        BY <3>1, <4>4 DEF Appended, GaveUpRetry, Redispatched, InFlight
      <4> QED BY <1>1, <3>1, <3>2, <4>5
    <3> QED BY <2>3, <3>3, <3>4 DEF RWDispatch
  <2>4. CASE RWCommit(l)
    <3>1. Moved(RetryLanes, BudgetedRetry, retryT, retryT', l, f, f, retryT[l].committed)
      BY <1>1, <2>4, CommitKeepsOrder DEF RWCommit
    <3>2. rwPc[l] = "commit" /\ rwPc'[l] = "idle" /\ UNCHANGED dispatchT
      BY <1>1, <2>4 DEF RWCommit, RWGoto
    <3> QED BY <3>1, <3>2 DEF GaveUpRetry, Redispatched, Moved
  <2>5. CASE RWCrash(l)
    <3>1. Moved(RetryLanes, BudgetedRetry, retryT, retryT', l,
                retryT[l].committed, retryT[l].committed, retryT[l].committed)
      BY <1>1, <2>5, RejoinKeepsOrder DEF RWCrash
    <3>2. rwPc'[l] = "idle" /\ UNCHANGED dispatchT
      BY <1>1, <2>5 DEF RWCrash, RWGoto
    <3>3. \A i \in 1..retryT[l].committed : i \in 1..f /\ (i = f => rwPc[l] = "idle")
      BY <1>1, <1>4
    <3> QED BY <3>1, <3>2, <3>3 DEF GaveUpRetry, Redispatched, Moved
  <2>6. CASE RWFlush(l)
    <3>1. Moved(RetryLanes, BudgetedRetry, retryT, retryT', l,
                f, retryT[l].acked, retryT[l].acked)
      BY <1>1, <2>6, FlushKeepsOrder DEF RWFlush
    <3>2. UNCHANGED <<rwPc, dispatchT>>
      BY <2>6 DEF RWFlush, workerVars
    <3> QED BY <1>1, <3>1, <3>2 DEF GaveUpRetry, Redispatched, Moved
  <2> QED BY <2>1, <2>2, <2>3, <2>4, <2>5, <2>6 DEF RetryWorkerStep
<1>10. CASE \A i \in 1..retryT'[l].fetched : GaveUpRetry(l, i)' => Stays(i)
  <2>1. RetriesGivenUp' \subseteq RetriesGivenUp \cup {}
    BY <1>8, <1>10, FewerRetries
  <2> QED BY <1>2, <1>6, <1>8, <1>9, <2>1
<1>11. CASE Costs /\ \A i \in 1..retryT'[l].fetched : GaveUpRetry(l, i)' => Stays(i) \/ i = f
  <2>1. RetriesGivenUp' \subseteq RetriesGivenUp \cup {<<l, f>>}
    BY <1>8, <1>11, FewerRetries
  <2> QED BY <1>2, <1>6, <1>8, <1>9, <1>11, <2>1
<1> QED BY <1>9, <1>10, <1>11

-----------------------------------------------------------------------------
(* The pipeline *)

\* A step has one fault at most, and only of a kind that may happen.
LEMMA StepFaults ==
  ASSUME [Next]_vars
  PROVE  UNCHANGED faults \/ \E k \in FaultKinds : Fault(k)
<1> USE DEF NoFault
<1>1. \A k : Fault(k) => k \in FaultKinds
  BY DEF Fault
<1>2. \A k, w : Failing(k, w) => UNCHANGED faults \/ Fault(k)
  BY DEF Failing
<1>3. ASSUME NEW c \in Calls, TriggerCall(c) \/ CrashCaller(c)
      PROVE  UNCHANGED faults \/ \E k \in FaultKinds : Fault(k)
  BY <1>1, <1>3 DEF TriggerCall, TriggerCallStep, CreateCall, CountCall, EnqueueCall, UndoPending, CrashCaller
<1>4. ASSUME NEW p \in DispatchParts,
             CallWorkerStep(p) \/ CWCrash(p) \/ CWShutdown(p) \/ CWClose(p) \/ CWFlush(p)
      PROVE  UNCHANGED faults \/ \E k \in FaultKinds : Fault(k)
  BY <1>1, <1>2, <1>4 DEF CallWorkerStep, CWFetch, CWAcquire, CWDial, CWPublish, CWCommit, CWRelease,
     CWCrash, CWShutdown, CWClose, CWFlush
<1>5. ASSUME NEW p \in StatusParts,
             StatusWorkerStep(p) \/ SWCrash(p) \/ SWShutdown(p) \/ SWClose(p) \/ SWFlush(p)
      PROVE  UNCHANGED faults \/ \E k \in FaultKinds : Fault(k)
  BY <1>1, <1>2, <1>5 DEF StatusWorkerStep, SWFetch, SWUpdate, SWAppend, SWStats, SWRetry, SWCommit,
     SWCrash, SWShutdown, SWClose, SWFlush
<1>6. ASSUME NEW l \in RetryLanes,
             RetryWorkerStep(l) \/ RWCrash(l) \/ RWShutdown(l) \/ RWClose(l) \/ RWFlush(l)
      PROVE  UNCHANGED faults \/ \E k \in FaultKinds : Fault(k)
  BY <1>1, <1>2, <1>6 DEF RetryWorkerStep, RWFetch, RWWait, RWDispatch, RWCommit, RWCrash, RWShutdown,
     RWClose, RWFlush
<1>7. CASE KeyExpires \/ UNCHANGED vars
  BY <1>7 DEF KeyExpires, vars
<1> QED BY <1>3, <1>4, <1>5, <1>6, <1>7 DEF Next, WorkerStep, WorkerRestart, Idle

\* There are finitely many errors.
LEMMA ErrorsFinite ==
  ASSUME faults \in Seq(FaultKinds)
  PROVE  /\ IsFiniteSet(Errors) /\ Cardinality(Errors) \in Nat
         /\ Errors \subseteq 1..Len(faults) /\ Len(faults) \in Nat
<1>1. DOMAIN faults = 1..Len(faults) /\ Len(faults) \in Nat
  OBVIOUS
<1>2. IsFiniteSet(1..Len(faults))
  BY <1>1, FS_Interval
<1>3. Errors \subseteq 1..Len(faults)
  BY <1>1 DEF Errors
<1> QED BY <1>1, <1>2, <1>3, FS_Subset, FS_CardinalityType

\* Errors are counted as they happen.
LEMMA ErrorCount ==
  ASSUME faults \in Seq(FaultKinds), UNCHANGED faults \/ \E k \in FaultKinds : Fault(k)
  PROVE  /\ faults' \in Seq(FaultKinds)
         /\ NoShutdown' => NoShutdown /\ ~Fault("shutdown")
         /\ Cardinality(Errors) \in Nat /\ Cardinality(Errors') \in Nat
         /\ Cardinality(Errors) <= Cardinality(Errors')
         /\ Costs => Cardinality(Errors') = Cardinality(Errors) + 1
<1>1. IsFiniteSet(Errors) /\ Errors \subseteq 1..Len(faults) /\ Len(faults) \in Nat
  BY ErrorsFinite
<1>2. Cardinality(Errors) \in Nat
  BY ErrorsFinite
<1>3. CASE UNCHANGED faults
  <2>1. ~Costs /\ ~Fault("shutdown")
    <3>1. \A k : Fault(k) => Len(faults') = Len(faults) + 1
      BY DEF Fault
    <3> QED BY <1>1, <1>3, <3>1 DEF Costs
  <2> QED BY <1>2, <1>3, <2>1 DEF Errors, NoShutdown
<1>4. ASSUME NEW k \in FaultKinds, Fault(k)
      PROVE  /\ faults' \in Seq(FaultKinds)
             /\ NoShutdown' => NoShutdown /\ ~Fault("shutdown")
             /\ Cardinality(Errors') \in Nat
             /\ Cardinality(Errors) <= Cardinality(Errors')
             /\ Costs => Cardinality(Errors') = Cardinality(Errors) + 1
  <2>1. faults' = Append(faults, k)
    BY <1>4 DEF Fault
  <2>2. /\ faults' \in Seq(FaultKinds) /\ Len(faults') = Len(faults) + 1
        /\ faults'[Len(faults) + 1] = k /\ \A i \in 1..Len(faults) : faults'[i] = faults[i]
        /\ DOMAIN faults' = 1..(Len(faults) + 1) /\ DOMAIN faults = 1..Len(faults)
    BY <2>1
  <2>3. \A j \in FaultKinds : Fault(j) => j = k
    <3>1. \A j : Fault(j) => faults'[Len(faults) + 1] = j
      BY DEF Fault
    <3> QED BY <2>2, <3>1
  <2>4. NoShutdown' => NoShutdown /\ ~Fault("shutdown")
    <3>1. Fault("shutdown") => k = "shutdown"
      BY <2>3 DEF Fault
    <3> QED BY <1>1, <2>2, <3>1 DEF NoShutdown
  <2>5. CASE k = "crash"
    <3>1. Errors' = Errors
      BY <1>1, <2>2, <2>5 DEF Errors
    <3>2. ~Costs
      BY <2>3, <2>5 DEF Costs
    <3> QED BY <1>2, <2>2, <2>4, <3>1, <3>2
  <2>6. CASE k # "crash"
    <3>1. Errors' = Errors \cup {Len(faults) + 1}
      BY <1>1, <2>2, <2>6 DEF Errors
    <3>2. Len(faults) + 1 \notin Errors
      BY <1>1
    <3>3. Cardinality(Errors') = Cardinality(Errors) + 1
      BY <1>1, <3>1, <3>2, FS_AddElement
    <3> QED BY <1>2, <2>2, <2>4, <3>3
  <2> QED BY <2>5, <2>6
<1> QED BY <1>2, <1>3, <1>4

\* Every message a step gives up is paid for by an error of its own.
LEMMA NextKeepsHandoff ==
  ASSUME PipelineInv, HandoffInv, [Next]_vars
  PROVE  HandoffInv'
<1> DEFINE D == DispatchesGivenUp
           S == StatusesGivenUp
           R == RetriesGivenUp
           Paid == /\ stopping' = {} /\ HeldUnacked'
                   /\ \/ D' \subseteq D /\ S' \subseteq S /\ R' \subseteq R
                      \/ /\ Costs
                         /\ \E y : \/ D' \subseteq D \cup {y} /\ S' \subseteq S /\ R' \subseteq R
                                   \/ D' \subseteq D /\ S' \subseteq S \cup {y} /\ R' \subseteq R
                                   \/ D' \subseteq D /\ S' \subseteq S /\ R' \subseteq R \cup {y}
<1>1. faults \in Seq(FaultKinds) /\ (UNCHANGED faults \/ \E k \in FaultKinds : Fault(k))
  BY StepFaults DEF HandoffInv
<1>2. SUFFICES ASSUME NoShutdown'
               PROVE  HandoffInv'
  BY <1>1, ErrorCount DEF HandoffInv
<1>3. NoShutdown /\ ~Fault("shutdown")
  BY <1>1, <1>2, ErrorCount
<1>4. /\ stopping = {} /\ HeldUnacked
      /\ IsFiniteSet(D) /\ IsFiniteSet(S) /\ IsFiniteSet(R)
      /\ Cardinality(D) + Cardinality(S) + Cardinality(R) <= Cardinality(Errors)
  BY <1>3 DEF HandoffInv, GivenUpFinite
<1>5. /\ \A p : ~CWShutdown(p) /\ ~CWClose(p)
      /\ \A p : ~SWShutdown(p) /\ ~SWClose(p)
      /\ \A l : ~RWShutdown(l) /\ ~RWClose(l)
  BY <1>3, <1>4 DEF CWShutdown, CWClose, SWShutdown, SWClose, RWShutdown, RWClose
<1>6. ASSUME Grows, UNCHANGED cwPc,
             \/ UNCHANGED dispatchT
             \/ \E m : Appended(DispatchParts, BudgetedDispatch, dispatchT, dispatchT', m)
      PROVE  /\ D' \subseteq D
             /\ \A p \in DispatchParts : HoldsDispatch(p)' => dispatchT'[p].acked < dispatchT'[p].fetched
  <2>1. \A p \in DispatchParts :
           /\ dispatchT'[p].fetched = dispatchT[p].fetched /\ dispatchT'[p].acked = dispatchT[p].acked
           /\ HoldsDispatch(p)' = HoldsDispatch(p)
           /\ \A i \in 1..dispatchT[p].fetched : GaveUpDispatch(p, i)' => GaveUpDispatch(p, i)
    BY <1>6, DispatchFrame
  <2>2. D' \subseteq D \cup {}
    BY <2>1, FewerDispatches
  <2> QED BY <1>4, <2>1, <2>2 DEF HeldUnacked
<1>7. ASSUME Grows, UNCHANGED swPc,
             \/ UNCHANGED statusT
             \/ \E m : Appended(StatusParts, BudgetedStatus, statusT, statusT', m)
      PROVE  /\ S' \subseteq S
             /\ \A p \in StatusParts : swPc'[p] # "idle" => statusT'[p].acked < statusT'[p].fetched
  <2>1. \A p \in StatusParts :
           /\ statusT'[p].fetched = statusT[p].fetched /\ statusT'[p].acked = statusT[p].acked
           /\ \A i \in 1..statusT[p].fetched : GaveUpStatus(p, i)' => GaveUpStatus(p, i)
    BY <1>7, StatusFrame
  <2>2. S' \subseteq S \cup {}
    BY <2>1, FewerStatuses
  <2> QED BY <1>4, <1>7, <2>1, <2>2 DEF HeldUnacked
<1>8. ASSUME Grows, UNCHANGED rwPc,
             \/ UNCHANGED retryT
             \/ \E m : Appended(RetryLanes, BudgetedRetry, retryT, retryT', m)
      PROVE  /\ R' \subseteq R
             /\ \A l \in RetryLanes : rwPc'[l] # "idle" => retryT'[l].acked < retryT'[l].fetched
  <2>1. \A l \in RetryLanes :
           /\ retryT'[l].fetched = retryT[l].fetched /\ retryT'[l].acked = retryT[l].acked
           /\ \A i \in 1..retryT[l].fetched : GaveUpRetry(l, i)' => GaveUpRetry(l, i)
    BY <1>8, RetryFrame
  <2>2. R' \subseteq R \cup {}
    BY <2>1, FewerRetries
  <2> QED BY <1>4, <1>8, <2>1, <2>2 DEF HeldUnacked
<1> HIDE DEF D, S, R
<1>9. ASSUME UNCHANGED <<dispatchT, statusT, retryT, attemptRows, cwPc, swPc, rwPc, stopping>>
      PROVE  Paid
  <2>1. Grows
    BY <1>9 DEF Grows
  <2> QED BY <1>4, <1>6, <1>7, <1>8, <1>9, <2>1 DEF HeldUnacked
<1>10. ASSUME NEW c \in Calls, TriggerCall(c) \/ CrashCaller(c)
       PROVE  Paid
  <2>1. /\ UNCHANGED <<statusT, retryT, attemptRows, cwPc, swPc, rwPc, stopping>>
        /\ \/ UNCHANGED dispatchT
           \/ Appended(DispatchParts, BudgetedDispatch, dispatchT, dispatchT', FirstDispatch(c))
    BY <1>10, TriggerWrites
  <2>2. Grows
    BY <2>1 DEF Grows, Appended
  <2> QED BY <1>4, <1>6, <1>7, <1>8, <2>1, <2>2 DEF HeldUnacked
<1>11. ASSUME NEW p \in DispatchParts, CallWorkerStep(p) \/ CWCrash(p) \/ CWFlush(p)
       PROVE  Paid
  <2>1. /\ Grows /\ stopping' = {}
        /\ \A q \in DispatchParts : HoldsDispatch(q)' => dispatchT'[q].acked < dispatchT'[q].fetched
        /\ D' \subseteq D \/ (Costs /\ \E y : D' \subseteq D \cup {y})
    BY <1>4, <1>11, CallWorkerGivesUp DEF D
  <2>2. /\ UNCHANGED <<retryT, swPc, rwPc>>
        /\ \/ UNCHANGED statusT
           \/ Appended(StatusParts, BudgetedStatus, statusT, statusT', cwOut[p])
    BY <1>11, CallWorkerWrites
  <2> QED BY <1>7, <1>8, <2>1, <2>2 DEF HeldUnacked
<1>12. ASSUME NEW p \in StatusParts, StatusWorkerStep(p) \/ SWCrash(p) \/ SWFlush(p)
       PROVE  Paid
  <2>1. /\ Grows /\ stopping' = {}
        /\ \A q \in StatusParts : swPc'[q] # "idle" => statusT'[q].acked < statusT'[q].fetched
        /\ S' \subseteq S \/ (Costs /\ \E y : S' \subseteq S \cup {y})
    BY <1>4, <1>12, StatusWorkerGivesUp DEF S
  <2>2. /\ UNCHANGED <<dispatchT, cwPc, rwPc>>
        /\ \/ UNCHANGED retryT
           \/ Appended(RetryLanes, BudgetedRetry, retryT, retryT', RetryOf(SWMsg(p)))
    BY <1>12, StatusWorkerWrites
  <2> QED BY <1>6, <1>8, <2>1, <2>2 DEF HeldUnacked
<1>13. ASSUME NEW l \in RetryLanes, RetryWorkerStep(l) \/ RWCrash(l) \/ RWFlush(l)
       PROVE  Paid
  <2>1. /\ Grows /\ stopping' = {}
        /\ \A k \in RetryLanes : rwPc'[k] # "idle" => retryT'[k].acked < retryT'[k].fetched
        /\ R' \subseteq R \/ (Costs /\ \E y : R' \subseteq R \cup {y})
    BY <1>4, <1>13, RetryWorkerGivesUp DEF R
  <2>2. /\ UNCHANGED <<statusT, cwPc, swPc>>
        /\ \/ UNCHANGED dispatchT
           \/ Appended(DispatchParts, BudgetedDispatch, dispatchT, dispatchT',
                       Redispatch(InFlight(retryT[l])))
    BY <1>13, RetryWorkerWrites
  <2> QED BY <1>6, <1>7, <2>1, <2>2 DEF HeldUnacked
<1>14. KeyExpires => Paid
  BY <1>9 DEF KeyExpires, topicVars, storeVars, workerVars
<1>15. UNCHANGED vars => Paid
  BY <1>9 DEF vars, topicVars, storeVars, workerVars
<1>16. Paid
  BY <1>5, <1>10, <1>11, <1>12, <1>13, <1>14, <1>15 DEF Next, WorkerStep, WorkerRestart, Idle
<1>17. /\ IsFiniteSet(D') /\ IsFiniteSet(S') /\ IsFiniteSet(R')
       /\ Cardinality(D') + Cardinality(S') + Cardinality(R') <= Cardinality(Errors')
  <2>1. /\ Cardinality(Errors) \in Nat /\ Cardinality(Errors') \in Nat
        /\ Cardinality(Errors) <= Cardinality(Errors')
        /\ Costs => Cardinality(Errors') = Cardinality(Errors) + 1
    BY <1>1, ErrorCount
  <2> DEFINE Same(X, Y) == /\ IsFiniteSet(Y) /\ Cardinality(Y) \in Nat
                           /\ Cardinality(Y) <= Cardinality(X)
             More(X, Y) == /\ IsFiniteSet(Y) /\ Cardinality(Y) \in Nat
                           /\ Cardinality(Y) <= Cardinality(X) + 1
  <2>2. /\ Cardinality(D) \in Nat
        /\ D' \subseteq D => Same(D, D')
        /\ \A y : D' \subseteq D \cup {y} => More(D, D')
    BY <1>4, OneMore
  <2>3. /\ Cardinality(S) \in Nat
        /\ S' \subseteq S => Same(S, S')
        /\ \A y : S' \subseteq S \cup {y} => More(S, S')
    BY <1>4, OneMore
  <2>4. /\ Cardinality(R) \in Nat
        /\ R' \subseteq R => Same(R, R')
        /\ \A y : R' \subseteq R \cup {y} => More(R, R')
    BY <1>4, OneMore
  <2> HIDE DEF Same, More
  <2>5. \/ Same(D, D') /\ Same(S, S') /\ Same(R, R')
        \/ /\ Costs
           /\ \/ More(D, D') /\ Same(S, S') /\ Same(R, R')
              \/ Same(D, D') /\ More(S, S') /\ Same(R, R')
              \/ Same(D, D') /\ Same(S, S') /\ More(R, R')
    BY <1>16, <2>2, <2>3, <2>4, Zenon
  <2> HIDE DEF Paid
  <2> QED BY <1>4, <2>1, <2>2, <2>3, <2>4, <2>5 DEF Same, More
<1> QED BY <1>1, <1>16, <1>17, ErrorCount DEF HandoffInv, GivenUpFinite, D, S, R

\* A message that is committed and not handed on is given up.
LEMMA CommittedGivenUp ==
  ASSUME PipelineInv, HeldUnacked
  PROVE  /\ \A p \in DispatchParts : \A i \in 1..dispatchT[p].committed :
              ~HasStatus(dispatchT[p].log[i]) => <<p, i>> \in DispatchesGivenUp
         /\ \A p \in StatusParts : \A i \in 1..statusT[p].committed :
              ~StatusApplied(statusT[p].log[i]) => <<p, i>> \in StatusesGivenUp
         /\ \A l \in RetryLanes : \A i \in 1..retryT[l].committed :
              ~Redispatched(retryT[l].log[i]) => <<l, i>> \in RetriesGivenUp
<1>1. ASSUME NEW p \in DispatchParts, NEW i \in 1..dispatchT[p].committed,
             ~HasStatus(dispatchT[p].log[i])
      PROVE  <<p, i>> \in DispatchesGivenUp
  <2>1. i \in 1..dispatchT[p].fetched /\ (i = dispatchT[p].fetched => ~HoldsDispatch(p))
    BY TopicTypes, Offsets DEF HeldUnacked
  <2>2. GaveUpDispatch(p, i)
    BY <1>1, <2>1 DEF GaveUpDispatch, HoldsDispatch
  <2> QED BY <2>1, <2>2 DEF DispatchesGivenUp
<1>2. ASSUME NEW p \in StatusParts, NEW i \in 1..statusT[p].committed,
             ~StatusApplied(statusT[p].log[i])
      PROVE  <<p, i>> \in StatusesGivenUp
  <2>1. i \in 1..statusT[p].fetched /\ (i = statusT[p].fetched => swPc[p] = "idle")
    BY TopicTypes, Offsets DEF HeldUnacked
  <2>2. GaveUpStatus(p, i)
    BY <1>2, <2>1 DEF GaveUpStatus
  <2> QED BY <2>1, <2>2 DEF StatusesGivenUp
<1>3. ASSUME NEW l \in RetryLanes, NEW i \in 1..retryT[l].committed,
             ~Redispatched(retryT[l].log[i])
      PROVE  <<l, i>> \in RetriesGivenUp
  <2>1. i \in 1..retryT[l].fetched /\ (i = retryT[l].fetched => rwPc[l] = "idle")
    BY TopicTypes, Offsets DEF HeldUnacked
  <2>2. GaveUpRetry(l, i)
    BY <1>3, <2>1 DEF GaveUpRetry
  <2> QED BY <2>1, <2>2 DEF RetriesGivenUp
<1> QED BY <1>1, <1>2, <1>3

LEMMA InitHandoff == Init => HandoffInv
<1> SUFFICES ASSUME Init PROVE HandoffInv
  OBVIOUS
<1>1. DispatchesGivenUp = {} /\ StatusesGivenUp = {} /\ RetriesGivenUp = {}
  BY DEF Init, EmptyPartition, DispatchesGivenUp, StatusesGivenUp, RetriesGivenUp
<1>2. HeldUnacked
  BY DEF Init, HeldUnacked, HoldsDispatch
<1>3. faults = << >> /\ stopping = {}
  BY DEF Init
<1>4. faults \in Seq(FaultKinds) /\ Errors = {}
  BY <1>3 DEF Errors
<1>5. IsFiniteSet({}) /\ Cardinality({}) = 0
  BY FS_EmptySet
<1> QED BY <1>1, <1>2, <1>3, <1>4, <1>5 DEF HandoffInv, GivenUpFinite

\* A message is given up only at the price of an error of its own, whatever processes crash
\* and whatever operations fail.
THEOREM HandoffInvariant == Spec => [](PipelineInv /\ HandoffInv)
<1>1. PipelineInv /\ HandoffInv /\ [Next]_vars => HandoffInv'
  BY NextKeepsHandoff
<1> QED BY <1>1, InitHandoff, PipelineInvariant, PTL DEF Spec

\* Each error of a store, of Redis or of Kafka costs at most one message, over all three
\* topics, and a crash costs none, as long as no worker is told to stop.
THEOREM LossesStayBounded == Spec => []LossBounded
<1>1. PipelineInv /\ HandoffInv => LossBounded
  <2> SUFFICES ASSUME PipelineInv, HandoffInv, NoShutdown
               PROVE  Losses <= Cardinality(Errors)
    BY DEF LossBounded, NoShutdown, Errors
  <2>1. /\ HeldUnacked
        /\ IsFiniteSet(DispatchesGivenUp) /\ IsFiniteSet(StatusesGivenUp)
        /\ IsFiniteSet(RetriesGivenUp) /\ faults \in Seq(FaultKinds)
        /\ Cardinality(DispatchesGivenUp) + Cardinality(StatusesGivenUp)
              + Cardinality(RetriesGivenUp) <= Cardinality(Errors)
    BY DEF HandoffInv, GivenUpFinite
  <2>2. DOMAIN dispatchT = DispatchParts /\ DOMAIN statusT = StatusParts /\ DOMAIN retryT = RetryLanes
    BY TopicTypes DEF OrderedTopics, Topics
  <2>3. LostOf(dispatchT, HasStatus) \in Nat /\ Cardinality(DispatchesGivenUp) \in Nat
        /\ LostOf(dispatchT, HasStatus) <= Cardinality(DispatchesGivenUp)
    <3> DEFINE L == UNION {{<<p, i>> : i \in {j \in 1..dispatchT[p].committed :
                                               ~HasStatus(dispatchT[p].log[j])}}
                           : p \in DOMAIN dispatchT}
    <3>1. L \subseteq DispatchesGivenUp
      BY <2>1, <2>2, CommittedGivenUp
    <3>2. LostOf(dispatchT, HasStatus) = Cardinality(L)
      BY DEF LostOf
    <3> HIDE DEF L
    <3> QED BY <2>1, <3>1, <3>2, OneMore
  <2>4. LostOf(statusT, StatusApplied) \in Nat /\ Cardinality(StatusesGivenUp) \in Nat
        /\ LostOf(statusT, StatusApplied) <= Cardinality(StatusesGivenUp)
    <3> DEFINE L == UNION {{<<p, i>> : i \in {j \in 1..statusT[p].committed :
                                               ~StatusApplied(statusT[p].log[j])}}
                           : p \in DOMAIN statusT}
    <3>1. L \subseteq StatusesGivenUp
      BY <2>1, <2>2, CommittedGivenUp
    <3>2. LostOf(statusT, StatusApplied) = Cardinality(L)
      BY DEF LostOf
    <3> HIDE DEF L
    <3> QED BY <2>1, <3>1, <3>2, OneMore
  <2>5. LostOf(retryT, Redispatched) \in Nat /\ Cardinality(RetriesGivenUp) \in Nat
        /\ LostOf(retryT, Redispatched) <= Cardinality(RetriesGivenUp)
    <3> DEFINE L == UNION {{<<p, i>> : i \in {j \in 1..retryT[p].committed :
                                               ~Redispatched(retryT[p].log[j])}}
                           : p \in DOMAIN retryT}
    <3>1. L \subseteq RetriesGivenUp
      BY <2>1, <2>2, CommittedGivenUp
    <3>2. LostOf(retryT, Redispatched) = Cardinality(L)
      BY DEF LostOf
    <3> HIDE DEF L
    <3> QED BY <2>1, <3>1, <3>2, OneMore
  <2>6. Cardinality(Errors) \in Nat
    BY <2>1, ErrorsFinite
  <2> QED BY <2>1, <2>3, <2>4, <2>5, <2>6 DEF Losses
<1> QED BY <1>1, HandoffInvariant, PTL

\* If processes crash, any number of them and at any point, but no operation reports
\* an error and nobody is shut down, no call is lost between the services: every
\* committed dispatch has its outcome on the status topic, every committed status is
\* recorded and its retry scheduled, and every committed retry is dispatched again.
THEOREM NoLossUnderCrashes ==
  ASSUME FaultKinds \subseteq {"crash"}
  PROVE  Spec => []NoCallLost
<1>1. PipelineInv /\ HandoffInv => NoCallLost
  <2> SUFFICES ASSUME PipelineInv, HandoffInv PROVE NoCallLost
    OBVIOUS
  <2>1. \A i \in DOMAIN faults : faults[i] = "crash"
    <3>1. faults \in Seq(FaultKinds)
      BY DEF HandoffInv
    <3>2. \A i \in DOMAIN faults : faults[i] \in FaultKinds
      BY <3>1
    <3> QED BY <3>2
  <2>2. NoShutdown /\ Errors = {}
    BY <2>1 DEF NoShutdown, Errors
  <2>3. /\ HeldUnacked
        /\ IsFiniteSet(DispatchesGivenUp) /\ IsFiniteSet(StatusesGivenUp)
        /\ IsFiniteSet(RetriesGivenUp)
        /\ Cardinality(DispatchesGivenUp) + Cardinality(StatusesGivenUp)
              + Cardinality(RetriesGivenUp) <= 0
    BY <2>2, FS_EmptySet DEF HandoffInv, GivenUpFinite
  <2>4. /\ Cardinality(DispatchesGivenUp) = 0 /\ Cardinality(StatusesGivenUp) = 0
        /\ Cardinality(RetriesGivenUp) = 0
    BY <2>3, FS_CardinalityType
  <2>5. DispatchesGivenUp = {} /\ StatusesGivenUp = {} /\ RetriesGivenUp = {}
    BY <2>3, <2>4, FS_EmptySet
  <2>6. CommittedDispatchHasStatus
    BY <2>3, <2>5, CommittedGivenUp DEF CommittedDispatchHasStatus, HasStatus
  <2>7. CommittedStatusIsApplied
    BY <2>3, <2>5, CommittedGivenUp DEF CommittedStatusIsApplied
  <2>8. CommittedRetryIsRedispatched
    BY <2>3, <2>5, CommittedGivenUp DEF CommittedRetryIsRedispatched, Redispatched
  <2> QED BY <2>6, <2>7, <2>8 DEF NoCallLost
<1> QED BY <1>1, HandoffInvariant, PTL
=============================================================================
