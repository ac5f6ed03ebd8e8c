-------------------------- MODULE LifecycleProofs --------------------------
(***************************************************************************)
(* Fault-free operation: the pipeline implements CallLifecycle, as far as  *)
(* safety goes, and when it comes to rest the statistics row, the call     *)
(* rows and the attempt rows tell the same story.  The argument follows    *)
(* each attempt of a call through the places its messages have on the      *)
(* three topics: every attempt has one message on each topic at most, and  *)
(* at any time one message of a call is still to be worked on at most.     *)
(***************************************************************************)
EXTENDS CallPipelineProofs

-----------------------------------------------------------------------------
(* The invariant *)

\* The places of a topic, partition and offset, and the messages there.
Places(topic) == UNION {{<<p, i>> : i \in DOMAIN topic[p].log} : p \in DOMAIN topic}
At(topic, x) == topic[x[1]].log[x[2]]

\* Two messages are about the same attempt of the same call.
Same(m, n) == m.call = n.call /\ m.attempt = n.attempt
Holds(topic, m) == \E x \in Places(topic) : Same(At(topic, x), m)
OnceEach(topic) == \A x, y \in Places(topic) : Same(At(topic, x), At(topic, y)) => x = y

\* A dispatch whose outcome is still to be published, and a retry still to be dispatched.
Unpublished(x) ==
  \/ x[2] > dispatchT[x[1]].fetched
  \/ x[2] = dispatchT[x[1]].fetched /\ cwPc[x[1]] \in {"acquire", "dial", "publish"}
Unsent(x) ==
  \/ x[2] > retryT[x[1]].fetched
  \/ x[2] = retryT[x[1]].fetched /\ rwPc[x[1]] \in {"wait", "dispatch"}

\* How many of the four writes for a status have been made.
Writes(pc) == CASE pc = "update" -> 0 [] pc = "append" -> 1 [] pc = "stats" -> 2
                [] pc = "retry" -> 3 [] OTHER -> 4
Done(x) ==
  IF x[2] > statusT[x[1]].fetched THEN 0
  ELSE IF x[2] < statusT[x[1]].fetched THEN 4 ELSE Writes(swPc[x[1]])

\* A dispatch has an outcome just when it is published; one that is not belongs to the
\* attempt the row of the call waits for.
DispatchFlow(x) ==
  LET d == At(dispatchT, x)
  IN  /\ trig[d.call] = "accepted"
      /\ Unpublished(x) <=> ~Holds(statusT, d)
      /\ Unpublished(x) => d.attempt = calls[d.call].attempts + 1
      /\ d.attempt > 1 => d.maxAttempts = 0 /\ Holds(retryT, d)

\* The same of a retry, which is scheduled by a failure.
RetryFlow(x) ==
  LET r == At(retryT, x)
  IN  /\ Unsent(x) <=> ~Holds(dispatchT, r)
      /\ Unsent(x) => r.attempt = calls[r.call].attempts + 1
      /\ \E y \in Places(statusT) : At(statusT, y).retryable /\ Same(r, RetryOf(At(statusT, y)))

\* What the four writes for a status leave behind.
StatusFlow(x) ==
  LET s == At(statusT, x)
      n == calls[s.call].attempts
  IN  /\ Holds(dispatchT, s)
      /\ s.retryable => s.attempt = 1
      /\ Done(x) = 0 => s.attempt = n + 1
      /\ Done(x) > 0 => s.attempt <= n
      /\ Done(x) \in 1..3 => s.attempt = n
      /\ s.attempt = n => calls[s.call].status = s.status
      /\ AttemptRow(s) \in attemptRows <=> Done(x) >= 2
      /\ Holds(retryT, RetryOf(s)) <=> Done(x) = 4 /\ s.retryable /\ HasRetryTopic(s.attempt)

\* How far a request is, and which outcomes the row of its call has had.
RowFlow(c) ==
  /\ trig[c] \in {"ready", "count", "dispatch", "accepted"}
  /\ calls[c].status = "absent" <=> trig[c] = "ready"
  /\ trig[c] # "accepted" => calls[c].attempts = 0
  /\ trig[c] = "accepted" => Holds(dispatchT, FirstDispatch(c))
  /\ calls[c].attempts = 0 => calls[c].status \notin FinalStatuses
  /\ \A n \in 1..calls[c].attempts :
        \E x \in Places(statusT) : At(statusT, x).call = c /\ At(statusT, x).attempt = n

\* What a call worker is about to publish asks for a retry of a first attempt only: a
\* message that was dispatched again carries no attempt limit.
OutcomeFlow ==
  \A p \in DispatchParts : cwPc[p] = "publish" => (cwOut[p].retryable => cwOut[p].attempt = 1)

MessageFlow ==
  /\ OnceEach(dispatchT) /\ OnceEach(statusT) /\ OnceEach(retryT)
  /\ \A x \in Places(dispatchT) : DispatchFlow(x)
  /\ \A x \in Places(retryT) : RetryFlow(x)
  /\ \A x \in Places(statusT) : StatusFlow(x)
  /\ \A c \in Calls : RowFlow(c)
  /\ \A r \in attemptRows : \E x \in Places(statusT) : AttemptRow(At(statusT, x)) = r

FlowInv == stopping = {} /\ OutcomeFlow /\ MessageFlow

\* The calls and attempts the statistics row has counted.
Counted(x) == Done(x) >= 3
TotalOf == {c \in Calls : trig[c] \in {"dispatch", "accepted"}}
CompletedOf ==
  {c \in Calls : \E x \in Places(statusT) :
     Counted(x) /\ At(statusT, x).call = c /\ At(statusT, x).status = "completed"}
FailedOf ==
  {c \in Calls : \E x \in Places(statusT) :
     /\ Counted(x) /\ At(statusT, x).call = c
     /\ At(statusT, x).status = "failed" /\ ~At(statusT, x).retryable}
RetriesOf ==
  {r \in Calls \X Nat : r[2] > 1 /\ \E x \in Places(statusT) : Counted(x) /\ AttemptRow(At(statusT, x)) = r}

StatsInv ==
  /\ IsFiniteSet(TotalOf) /\ IsFiniteSet(CompletedOf) /\ IsFiniteSet(FailedOf) /\ IsFiniteSet(RetriesOf)
  /\ stats = StatsOf(Cardinality(TotalOf), Cardinality(CompletedOf), Cardinality(FailedOf),
                     Cardinality(TotalOf) - Cardinality(CompletedOf) - Cardinality(FailedOf),
                     Cardinality(RetriesOf))

-----------------------------------------------------------------------------
(* The places of a topic *)

\* A place is an offset in the log of a partition.
LEMMA PlaceFacts ==
  ASSUME NEW P, NEW M, NEW t \in OrderedTopics(P, M)
  PROVE  /\ \A x \in Places(t) : /\ x = <<x[1], x[2]>> /\ x[1] \in P
                                 /\ x[2] \in 1..Len(t[x[1]].log)
                                 /\ At(t, x) \in M /\ At(t, x) \in Written(t)
         /\ \A p \in P : \A i \in 1..Len(t[p].log) : <<p, i>> \in Places(t)
         /\ \A m \in Written(t) : \E x \in Places(t) : At(t, x) = m
<1>1. t \in Topics(P, M) /\ DOMAIN t = P
  BY DEF OrderedTopics, Topics
<1>2. \A p \in P : DOMAIN t[p].log = 1..Len(t[p].log)
  BY <1>1 DEF Topics, Partition
<1>3. \A p \in P : \A i \in 1..Len(t[p].log) : <<p, i>> \in Places(t)
  BY <1>1, <1>2 DEF Places
<1>4. \A x \in Places(t) : \E p \in P : \E i \in 1..Len(t[p].log) : x = <<p, i>>
  BY <1>1, <1>2 DEF Places
<1>5. ASSUME NEW x \in Places(t)
      PROVE  /\ x = <<x[1], x[2]>> /\ x[1] \in P /\ x[2] \in 1..Len(t[x[1]].log)
             /\ At(t, x) \in M /\ At(t, x) \in Written(t)
  <2>a. PICK p \in P : \E i \in 1..Len(t[p].log) : x = <<p, i>>
    BY <1>4
  <2>1. PICK i \in 1..Len(t[p].log) : x = <<p, i>>
    BY <2>a
  <2>2. x[1] = p /\ x[2] = i
    BY <2>1
  <2>3. t[p].log[i] \in Written(t) /\ t[p].log[i] \in M
    BY <1>1, <2>1, WrittenMember
  <2> QED BY <2>1, <2>2, <2>3 DEF At
<1>6. ASSUME NEW m \in Written(t) PROVE \E x \in Places(t) : At(t, x) = m
  <2>1. PICK p \in P : \E i \in 1..Len(t[p].log) : m = t[p].log[i]
    BY <1>1, WrittenMember
  <2>2. PICK i \in 1..Len(t[p].log) : m = t[p].log[i]
    BY <2>1
  <2>3. <<p, i>> \in Places(t) /\ At(t, <<p, i>>) = m
    BY <1>3, <2>2 DEF At
  <2> QED BY <2>3
<1> QED BY <1>3, <1>5, <1>6

\* What a reader does to a topic, and what a writer does.
Kept(t, u) ==
  /\ Places(u) = Places(t)
  /\ \A x \in Places(t) : At(u, x) = At(t, x)
Grown(t, u, z, m) ==
  /\ z \notin Places(t) /\ Places(u) = Places(t) \cup {z} /\ At(u, z) = m
  /\ \A x \in Places(t) : At(u, x) = At(t, x)

\* Moving the offsets of a topic keeps its places.
LEMMA MovedKeepsPlaces ==
  ASSUME NEW P, NEW M, NEW t \in OrderedTopics(P, M), NEW u \in OrderedTopics(P, M),
         \A q \in P : u[q].log = t[q].log
  PROVE  Kept(t, u)
<1>1. DOMAIN t = P /\ DOMAIN u = P
  BY DEF OrderedTopics, Topics
<1>2. Places(u) = Places(t)
  BY <1>1 DEF Places
<1>3. \A x \in Places(t) : x[1] \in P
  BY PlaceFacts
<1> QED BY <1>2, <1>3 DEF Kept, At

\* A written message gets one new place, beyond what has been fetched.
LEMMA WriteGrowsPlaces ==
  ASSUME NEW P, NEW M, NEW t \in OrderedTopics(P, M), NEW p \in P, NEW m \in M, NEW u,
         u = WriteMessages(t, p, m)
  PROVE  \E z : /\ Grown(t, u, z, m)
                /\ z[1] \in P /\ z[2] > t[z[1]].fetched
                /\ \A q \in P : u[q].fetched = t[q].fetched
<1>1. t \in Topics(P, M) /\ DOMAIN t = P /\ \A q \in P : Ordered(t[q])
  BY DEF OrderedTopics, Topics
<1>2. \A q \in P : t[q] \in Partition(M) /\ t[q].log \in Seq(M) /\ Len(t[q].log) \in Nat
                   /\ t[q].fetched \in Nat
  BY <1>1 DEF Topics, Partition
<1>3. u = [t EXCEPT ![p] = [t[p] EXCEPT !.log = Append(t[p].log, m)]]
  BY DEF WriteMessages
<1>4. u[p].log = Append(t[p].log, m) /\ \A q \in P : q # p => u[q] = t[q]
  BY <1>1, <1>2, <1>3 DEF Topics, Partition
<1>5. /\ Len(u[p].log) = Len(t[p].log) + 1
      /\ \A i \in 1..Len(t[p].log) : u[p].log[i] = t[p].log[i]
      /\ u[p].log[Len(t[p].log) + 1] = m
  BY <1>2, <1>4
<1>6. u \in OrderedTopics(P, M) /\ \A q \in P : u[q].fetched = t[q].fetched
  BY WriteKeepsOrder DEF Appended
<1> DEFINE n == Len(t[p].log) + 1
           z == <<p, n>>
<1>7. n \in Nat /\ n > t[p].fetched /\ n \notin 1..Len(t[p].log) /\ n \in 1..Len(u[p].log)
      /\ z[1] = p /\ z[2] = n
  BY <1>1, <1>2, <1>5 DEF Ordered
<1> HIDE DEF n
<1>8. z \notin Places(t)
  BY <1>7, PlaceFacts
<1>9. z \in Places(u) /\ At(u, z) = m
  BY <1>5, <1>6, <1>7, PlaceFacts DEF At, n
<1>10. ASSUME NEW x \in Places(t) PROVE x \in Places(u) /\ At(u, x) = At(t, x)
  <2>1. x = <<x[1], x[2]>> /\ x[1] \in P /\ x[2] \in 1..Len(t[x[1]].log)
    BY PlaceFacts
  <2>2. x[2] \in 1..Len(u[x[1]].log) /\ u[x[1]].log[x[2]] = t[x[1]].log[x[2]]
    <3>1. CASE x[1] = p
      BY <1>2, <1>5, <2>1, <3>1
    <3>2. CASE x[1] # p
      BY <1>4, <2>1, <3>2
    <3> QED BY <3>1, <3>2
  <2>3. <<x[1], x[2]>> \in Places(u)
    BY <1>6, <2>1, <2>2, PlaceFacts
  <2> QED BY <2>1, <2>2, <2>3 DEF At
<1>11. ASSUME NEW x \in Places(u), x # z PROVE x \in Places(t)
  <2>1. x = <<x[1], x[2]>> /\ x[1] \in P /\ x[2] \in 1..Len(u[x[1]].log)
    BY <1>6, PlaceFacts
  <2>2. x[2] \in 1..Len(t[x[1]].log)
    <3>1. CASE x[1] = p
      <4>1. x[2] # n
        BY <1>11, <2>1, <3>1
      <4> QED BY <1>2, <1>5, <2>1, <3>1, <4>1 DEF n
    <3>2. CASE x[1] # p
      BY <1>4, <2>1, <3>2
    <3> QED BY <3>1, <3>2
  <2>3. <<x[1], x[2]>> \in Places(t)
    BY <2>1, <2>2, PlaceFacts
  <2> QED BY <2>1, <2>3
<1>12. Places(u) = Places(t) \cup {z}
  BY <1>9, <1>10, <1>11
<1>13. Grown(t, u, z, m)
  BY <1>8, <1>9, <1>10, <1>12 DEF Grown
<1> QED BY <1>6, <1>7, <1>13

-----------------------------------------------------------------------------
(* What a step does to the topics *)

\* The dispatch topic and the call workers: nothing comes or is done; m comes; the dispatch
\* at z is done.
SameDispatch ==
  /\ Kept(dispatchT, dispatchT')
  /\ \A x \in Places(dispatchT) : Unpublished(x)' <=> Unpublished(x)
DispatchAdds(z, m) ==
  /\ Grown(dispatchT, dispatchT', z, m) /\ Unpublished(z)'
  /\ \A x \in Places(dispatchT) : Unpublished(x)' <=> Unpublished(x)
DispatchDone(z) ==
  /\ Kept(dispatchT, dispatchT') /\ z \in Places(dispatchT)
  /\ Unpublished(z) /\ ~Unpublished(z)'
  /\ \A x \in Places(dispatchT) : x # z => (Unpublished(x)' <=> Unpublished(x))

\* The same of the retry topics and the retry workers.
SameRetry ==
  /\ Kept(retryT, retryT')
  /\ \A x \in Places(retryT) : Unsent(x)' <=> Unsent(x)
RetryAdds(z, m) ==
  /\ Grown(retryT, retryT', z, m) /\ Unsent(z)'
  /\ \A x \in Places(retryT) : Unsent(x)' <=> Unsent(x)
RetryDone(z) ==
  /\ Kept(retryT, retryT') /\ z \in Places(retryT)
  /\ Unsent(z) /\ ~Unsent(z)'
  /\ \A x \in Places(retryT) : x # z => (Unsent(x)' <=> Unsent(x))

\* And of the status topic and the status workers, which do the k-th of their writes.
SameStatus ==
  /\ Kept(statusT, statusT')
  /\ \A x \in Places(statusT) : Done(x)' = Done(x)
StatusAdds(z, m) ==
  /\ Grown(statusT, statusT', z, m) /\ Done(z)' = 0
  /\ \A x \in Places(statusT) : Done(x)' = Done(x)
StatusStep(z, k) ==
  /\ Kept(statusT, statusT') /\ z \in Places(statusT)
  /\ Done(z) = k /\ Done(z)' = k + 1
  /\ \A x \in Places(statusT) : x # z => Done(x)' = Done(x)

\* The types the steps below rest on.
LEMMA Typed ==
  ASSUME PipelineInv
  PROVE  /\ dispatchT \in OrderedTopics(DispatchParts, BudgetedDispatch)
         /\ statusT \in OrderedTopics(StatusParts, BudgetedStatus)
         /\ retryT \in OrderedTopics(RetryLanes, BudgetedRetry)
         /\ cwPc \in [DispatchParts -> CallPcs]
         /\ swPc \in [StatusParts -> StatusPcs]
         /\ rwPc \in [RetryLanes -> RetryPcs]
         /\ \A p \in DispatchParts : dispatchT[p].fetched \in Nat
         /\ \A p \in StatusParts : statusT[p].fetched \in Nat
         /\ \A l \in RetryLanes : retryT[l].fetched \in Nat
<1>1. /\ dispatchT \in OrderedTopics(DispatchParts, BudgetedDispatch)
      /\ statusT \in OrderedTopics(StatusParts, BudgetedStatus)
      /\ retryT \in OrderedTopics(RetryLanes, BudgetedRetry)
      /\ cwPc \in [DispatchParts -> CallPcs]
      /\ swPc \in [StatusParts -> StatusPcs]
      /\ rwPc \in [RetryLanes -> RetryPcs]
  BY DEF PipelineInv, DispatchInv, StatusInv, RetryInv
<1>2. \A P, M : \A t \in OrderedTopics(P, M) : \A p \in P : t[p].fetched \in Nat
  BY DEF OrderedTopics, Topics, Partition
<1> QED BY <1>1, <1>2

\* Nothing changes on a topic that is left alone with its workers.
LEMMA LeftAlone ==
  /\ UNCHANGED <<dispatchT, cwPc>> => SameDispatch
  /\ UNCHANGED <<statusT, swPc>> => SameStatus
  /\ UNCHANGED <<retryT, rwPc>> => SameRetry
BY DEF SameDispatch, SameStatus, SameRetry, Kept, Unpublished, Done, Unsent

\* A dispatch is written.
LEMMA DispatchWritten ==
  ASSUME PipelineInv, NEW p \in DispatchParts, NEW m \in BudgetedDispatch,
         dispatchT' = WriteMessages(dispatchT, p, m), UNCHANGED cwPc
  PROVE  \E z : DispatchAdds(z, m)
<1>1. dispatchT \in OrderedTopics(DispatchParts, BudgetedDispatch)
  BY Typed
<1>2. PICK z : /\ Grown(dispatchT, dispatchT', z, m)
               /\ z[1] \in DispatchParts /\ z[2] > dispatchT[z[1]].fetched
               /\ \A q \in DispatchParts : dispatchT'[q].fetched = dispatchT[q].fetched
  BY <1>1, WriteGrowsPlaces
<1>3. \A x \in Places(dispatchT) : x[1] \in DispatchParts
  BY <1>1, PlaceFacts
<1>4. Unpublished(z)'
  BY <1>2 DEF Unpublished
<1>5. \A x \in Places(dispatchT) : Unpublished(x)' <=> Unpublished(x)
  BY <1>2, <1>3 DEF Unpublished
<1> QED BY <1>2, <1>4, <1>5 DEF DispatchAdds

\* A status is written.
LEMMA StatusWritten ==
  ASSUME PipelineInv, NEW p \in StatusParts, NEW m \in BudgetedStatus,
         statusT' = WriteMessages(statusT, p, m), UNCHANGED swPc
  PROVE  \E z : StatusAdds(z, m)
<1>1. statusT \in OrderedTopics(StatusParts, BudgetedStatus)
  BY Typed
<1>2. PICK z : /\ Grown(statusT, statusT', z, m)
               /\ z[1] \in StatusParts /\ z[2] > statusT[z[1]].fetched
               /\ \A q \in StatusParts : statusT'[q].fetched = statusT[q].fetched
  BY <1>1, WriteGrowsPlaces
<1>3. \A x \in Places(statusT) : x[1] \in StatusParts
  BY <1>1, PlaceFacts
<1>4. Done(z)' = 0
  BY <1>2 DEF Done
<1>5. \A x \in Places(statusT) : Done(x)' = Done(x)
  BY <1>2, <1>3 DEF Done
<1> QED BY <1>2, <1>4, <1>5 DEF StatusAdds

\* A retry is written.
LEMMA RetryWritten ==
  ASSUME PipelineInv, NEW p \in RetryLanes, NEW m \in BudgetedRetry,
         retryT' = WriteMessages(retryT, p, m), UNCHANGED rwPc
  PROVE  \E z : RetryAdds(z, m)
<1>1. retryT \in OrderedTopics(RetryLanes, BudgetedRetry)
  BY Typed
<1>2. PICK z : /\ Grown(retryT, retryT', z, m)
               /\ z[1] \in RetryLanes /\ z[2] > retryT[z[1]].fetched
               /\ \A q \in RetryLanes : retryT'[q].fetched = retryT[q].fetched
  BY <1>1, WriteGrowsPlaces
<1>3. \A x \in Places(retryT) : x[1] \in RetryLanes
  BY <1>1, PlaceFacts
<1>4. Unsent(z)'
  BY <1>2 DEF Unsent
<1>5. \A x \in Places(retryT) : Unsent(x)' <=> Unsent(x)
  BY <1>2, <1>3 DEF Unsent
<1> QED BY <1>2, <1>4, <1>5 DEF RetryAdds

-----------------------------------------------------------------------------
(* What a step does to the messages it works on *)

\* A call worker fetches, moves on, or lets go of a dispatch by publishing its outcome.
LEMMA DispatchRead ==
  ASSUME PipelineInv, NEW p \in DispatchParts,
         dispatchT' \in OrderedTopics(DispatchParts, BudgetedDispatch),
         \A q \in DispatchParts : dispatchT'[q].log = dispatchT[q].log,
         \A q \in DispatchParts : q # p => dispatchT'[q].fetched = dispatchT[q].fetched /\ cwPc'[q] = cwPc[q]
  PROVE  LET f == dispatchT[p].fetched
             g == dispatchT'[p].fetched
             busy == cwPc[p] \in {"acquire", "dial", "publish"}
             then == cwPc'[p] \in {"acquire", "dial", "publish"}
         IN  /\ g = f /\ (then <=> busy) => SameDispatch
             /\ g = f + 1 /\ ~busy /\ then => SameDispatch
             /\ f > 0 /\ g = f /\ busy /\ ~then =>
                  \E z : DispatchDone(z) /\ At(dispatchT, z) = InFlight(dispatchT[p])
<1>1. dispatchT \in OrderedTopics(DispatchParts, BudgetedDispatch) /\ dispatchT[p].fetched \in Nat
  BY Typed
<1>2. Kept(dispatchT, dispatchT')
  BY <1>1, MovedKeepsPlaces
<1>3. \A x \in Places(dispatchT) : /\ x[2] \in Nat
                                   /\ x[1] # p => (Unpublished(x)' <=> Unpublished(x))
  <2>1. \A x \in Places(dispatchT) : x[1] \in DispatchParts /\ x[2] \in Nat
    BY <1>1, PlaceFacts
  <2> QED BY <2>1 DEF Unpublished
<1> DEFINE f == dispatchT[p].fetched
           g == dispatchT'[p].fetched
           busy == cwPc[p] \in {"acquire", "dial", "publish"}
           then == cwPc'[p] \in {"acquire", "dial", "publish"}
<1>4. ASSUME NEW x \in Places(dispatchT), x[1] = p
      PROVE  /\ Unpublished(x) <=> (x[2] > f \/ (x[2] = f /\ busy))
             /\ Unpublished(x)' <=> (x[2] > g \/ (x[2] = g /\ then))
  BY <1>4 DEF Unpublished
<1> HIDE DEF f, g, busy, then
<1>5. g = f /\ (then <=> busy) => SameDispatch
  BY <1>2, <1>3, <1>4 DEF SameDispatch
<1>6. f \in Nat
  BY <1>1 DEF f
<1>7. g = f + 1 /\ ~busy /\ then => SameDispatch
  BY <1>2, <1>3, <1>4, <1>6 DEF SameDispatch
<1>8. ASSUME f > 0, g = f, busy, ~then
      PROVE  \E z : DispatchDone(z) /\ At(dispatchT, z) = InFlight(dispatchT[p])
  <2>0. PICK z : z = <<p, f>>
    OBVIOUS
  <2>1. z[1] = p /\ z[2] = f
    BY <2>0
  <2>2. f \in 1..Len(dispatchT[p].log)
    BY <1>1, <1>8, InFlightWritten DEF f
  <2>3. z \in Places(dispatchT)
    BY <1>1, <2>0, <2>2, PlaceFacts
  <2>4. At(dispatchT, z) = InFlight(dispatchT[p])
    BY <2>1 DEF At, InFlight, f
  <2>5. Unpublished(z) /\ ~Unpublished(z)'
    BY <1>4, <1>6, <1>8, <2>1, <2>3
  <2>6. \A x \in Places(dispatchT) : x # z => (Unpublished(x)' <=> Unpublished(x))
    <3> SUFFICES ASSUME NEW x \in Places(dispatchT), x # z PROVE Unpublished(x)' <=> Unpublished(x)
      OBVIOUS
    <3>1. CASE x[1] = p
      <4>1. x[2] # f /\ x[2] \in Nat
        <5>1. x = <<x[1], x[2]>>
          BY <1>1, PlaceFacts
        <5> QED BY <1>3, <2>0, <3>1, <5>1
      <4> QED BY <1>4, <1>6, <1>8, <3>1, <4>1
    <3>2. CASE x[1] # p
      BY <1>3, <3>2
    <3> QED BY <3>1, <3>2
  <2>7. DispatchDone(z)
    BY <1>2, <2>3, <2>5, <2>6 DEF DispatchDone
  <2> QED BY <2>4, <2>7
<1> QED BY <1>5, <1>7, <1>8 DEF f, g, busy, then

\* A retry worker fetches, moves on, or lets go of a retry by dispatching it.
LEMMA RetryRead ==
  ASSUME PipelineInv, NEW p \in RetryLanes,
         retryT' \in OrderedTopics(RetryLanes, BudgetedRetry),
         \A q \in RetryLanes : retryT'[q].log = retryT[q].log,
         \A q \in RetryLanes : q # p => retryT'[q].fetched = retryT[q].fetched /\ rwPc'[q] = rwPc[q]
  PROVE  LET f == retryT[p].fetched
             g == retryT'[p].fetched
             busy == rwPc[p] \in {"wait", "dispatch"}
             then == rwPc'[p] \in {"wait", "dispatch"}
         IN  /\ g = f /\ (then <=> busy) => SameRetry
             /\ g = f + 1 /\ ~busy /\ then => SameRetry
             /\ f > 0 /\ g = f /\ busy /\ ~then =>
                  \E z : RetryDone(z) /\ At(retryT, z) = InFlight(retryT[p])
<1>1. retryT \in OrderedTopics(RetryLanes, BudgetedRetry) /\ retryT[p].fetched \in Nat
  BY Typed
<1>2. Kept(retryT, retryT')
  BY <1>1, MovedKeepsPlaces
<1>3. \A x \in Places(retryT) : /\ x[2] \in Nat
                                /\ x[1] # p => (Unsent(x)' <=> Unsent(x))
  <2>1. \A x \in Places(retryT) : x[1] \in RetryLanes /\ x[2] \in Nat
    BY <1>1, PlaceFacts
  <2> QED BY <2>1 DEF Unsent
<1> DEFINE f == retryT[p].fetched
           g == retryT'[p].fetched
           busy == rwPc[p] \in {"wait", "dispatch"}
           then == rwPc'[p] \in {"wait", "dispatch"}
<1>4. ASSUME NEW x \in Places(retryT), x[1] = p
      PROVE  /\ Unsent(x) <=> (x[2] > f \/ (x[2] = f /\ busy))
             /\ Unsent(x)' <=> (x[2] > g \/ (x[2] = g /\ then))
  BY <1>4 DEF Unsent
<1> HIDE DEF f, g, busy, then
<1>5. g = f /\ (then <=> busy) => SameRetry
  BY <1>2, <1>3, <1>4 DEF SameRetry
<1>6. f \in Nat
  BY <1>1 DEF f
<1>7. g = f + 1 /\ ~busy /\ then => SameRetry
  BY <1>2, <1>3, <1>4, <1>6 DEF SameRetry
<1>8. ASSUME f > 0, g = f, busy, ~then
      PROVE  \E z : RetryDone(z) /\ At(retryT, z) = InFlight(retryT[p])
  <2>0. PICK z : z = <<p, f>>
    OBVIOUS
  <2>1. z[1] = p /\ z[2] = f
    BY <2>0
  <2>2. f \in 1..Len(retryT[p].log)
    BY <1>1, <1>8, InFlightWritten DEF f
  <2>3. z \in Places(retryT)
    BY <1>1, <2>0, <2>2, PlaceFacts
  <2>4. At(retryT, z) = InFlight(retryT[p])
    BY <2>1 DEF At, InFlight, f
  <2>5. Unsent(z) /\ ~Unsent(z)'
    BY <1>4, <1>6, <1>8, <2>1, <2>3
  <2>6. \A x \in Places(retryT) : x # z => (Unsent(x)' <=> Unsent(x))
    <3> SUFFICES ASSUME NEW x \in Places(retryT), x # z PROVE Unsent(x)' <=> Unsent(x)
      OBVIOUS
    <3>1. CASE x[1] = p
      <4>1. x[2] # f /\ x[2] \in Nat
        <5>1. x = <<x[1], x[2]>>
          BY <1>1, PlaceFacts
        <5> QED BY <1>3, <2>0, <3>1, <5>1
      <4> QED BY <1>4, <1>6, <1>8, <3>1, <4>1
    <3>2. CASE x[1] # p
      BY <1>3, <3>2
    <3> QED BY <3>1, <3>2
  <2>7. RetryDone(z)
    BY <1>2, <2>3, <2>5, <2>6 DEF RetryDone
  <2> QED BY <2>4, <2>7
<1> QED BY <1>5, <1>7, <1>8 DEF f, g, busy, then

\* A status worker fetches, moves on, or does one of its writes.
LEMMA StatusRead ==
  ASSUME PipelineInv, NEW p \in StatusParts,
         statusT' \in OrderedTopics(StatusParts, BudgetedStatus),
         \A q \in StatusParts : statusT'[q].log = statusT[q].log,
         \A q \in StatusParts : q # p => statusT'[q].fetched = statusT[q].fetched /\ swPc'[q] = swPc[q]
  PROVE  LET f == statusT[p].fetched
             g == statusT'[p].fetched
             k == Writes(swPc[p])
             l == Writes(swPc'[p])
         IN  /\ g = f /\ l = k => SameStatus
             /\ g = f + 1 /\ k = 4 /\ l = 0 => SameStatus
             /\ f > 0 /\ g = f /\ l = k + 1 =>
                  \E z : StatusStep(z, k) /\ At(statusT, z) = InFlight(statusT[p])
<1>1. statusT \in OrderedTopics(StatusParts, BudgetedStatus) /\ statusT[p].fetched \in Nat
  BY Typed
<1>2. Kept(statusT, statusT')
  BY <1>1, MovedKeepsPlaces
<1>3. \A x \in Places(statusT) : /\ x[2] \in Nat
                                 /\ x[1] # p => Done(x)' = Done(x)
  <2>1. \A x \in Places(statusT) : x[1] \in StatusParts /\ x[2] \in Nat
    BY <1>1, PlaceFacts
  <2> QED BY <2>1 DEF Done
<1> DEFINE f == statusT[p].fetched
           g == statusT'[p].fetched
           k == Writes(swPc[p])
           l == Writes(swPc'[p])
<1>4. ASSUME NEW x \in Places(statusT), x[1] = p
      PROVE  /\ Done(x) = IF x[2] > f THEN 0 ELSE IF x[2] < f THEN 4 ELSE k
             /\ Done(x)' = IF x[2] > g THEN 0 ELSE IF x[2] < g THEN 4 ELSE l
  BY <1>4 DEF Done
<1> HIDE DEF f, g, k, l
<1>5. g = f /\ l = k => SameStatus
  BY <1>2, <1>3, <1>4 DEF SameStatus
<1>6. f \in Nat
  BY <1>1 DEF f
<1>7. g = f + 1 /\ k = 4 /\ l = 0 => SameStatus
  BY <1>2, <1>3, <1>4, <1>6 DEF SameStatus
<1>8. ASSUME f > 0, g = f, l = k + 1
      PROVE  \E z : StatusStep(z, k) /\ At(statusT, z) = InFlight(statusT[p])
  <2>0. PICK z : z = <<p, f>>
    OBVIOUS
  <2>1. z[1] = p /\ z[2] = f
    BY <2>0
  <2>2. f \in 1..Len(statusT[p].log)
    BY <1>1, <1>8, InFlightWritten DEF f
  <2>3. z \in Places(statusT)
    BY <1>1, <2>0, <2>2, PlaceFacts
  <2>4. At(statusT, z) = InFlight(statusT[p])
    BY <2>1 DEF At, InFlight, f
  <2>5. Done(z) = k /\ Done(z)' = k + 1
    BY <1>4, <1>6, <1>8, <2>1, <2>3
  <2>6. \A x \in Places(statusT) : x # z => Done(x)' = Done(x)
    <3> SUFFICES ASSUME NEW x \in Places(statusT), x # z PROVE Done(x)' = Done(x)
      OBVIOUS
    <3>1. CASE x[1] = p
      <4>1. x[2] # f /\ x[2] \in Nat
        <5>1. x = <<x[1], x[2]>>
          BY <1>1, PlaceFacts
        <5> QED BY <1>3, <2>0, <3>1, <5>1
      <4> QED BY <1>4, <1>6, <1>8, <3>1, <4>1
    <3>2. CASE x[1] # p
      BY <1>3, <3>2
    <3> QED BY <3>1, <3>2
  <2>7. StatusStep(z, k)
    BY <1>2, <2>3, <2>5, <2>6 DEF StatusStep
  <2> QED BY <2>4, <2>7
<1> QED BY <1>5, <1>7, <1>8 DEF f, g, k, l

-----------------------------------------------------------------------------
(* The steps of fault-free operation *)

Quiet == SameDispatch /\ SameStatus /\ SameRetry /\ UNCHANGED <<calls, attemptRows, stats, trig>>

\* TriggerCall.
Created(c) ==
  /\ trig[c] = "ready" /\ trig' = [trig EXCEPT ![c] = "count"]
  /\ calls' = [calls EXCEPT ![c] = QueuedRow]
  /\ SameDispatch /\ SameStatus /\ SameRetry /\ UNCHANGED <<attemptRows, stats>>
Totalled(c) ==
  /\ trig[c] = "count" /\ trig' = [trig EXCEPT ![c] = "dispatch"]
  /\ stats' = ApplyDelta(CountDelta)
  /\ SameDispatch /\ SameStatus /\ SameRetry /\ UNCHANGED <<calls, attemptRows>>
Enqueued(c, z) ==
  /\ trig[c] = "dispatch" /\ trig' = [trig EXCEPT ![c] = "accepted"]
  /\ DispatchAdds(z, FirstDispatch(c))
  /\ SameStatus /\ SameRetry /\ UNCHANGED <<calls, attemptRows, stats>>

\* The call worker: status m for the dispatch at z is written at y.
Published(z, y, m) ==
  /\ DispatchDone(z) /\ StatusAdds(y, m)
  /\ m \in BudgetedStatus /\ Same(m, At(dispatchT, z)) /\ (m.retryable => m.attempt = 1)
  /\ SameRetry /\ UNCHANGED <<calls, attemptRows, stats, trig>>

\* The status worker, with the status at z.
Updated(z) ==
  /\ StatusStep(z, 0) /\ calls' = UpdatedCalls(At(statusT, z))
  /\ SameDispatch /\ SameRetry /\ UNCHANGED <<attemptRows, stats, trig>>
Recorded(z) ==
  /\ StatusStep(z, 1) /\ attemptRows' = attemptRows \cup {AttemptRow(At(statusT, z))}
  /\ SameDispatch /\ SameRetry /\ UNCHANGED <<calls, stats, trig>>
Tallied(z) ==
  /\ StatusStep(z, 2) /\ stats' = ApplyDelta(StatsDelta(At(statusT, z)))
  /\ SameDispatch /\ SameRetry /\ UNCHANGED <<calls, attemptRows, trig>>
Scheduled(z, y) ==
  /\ StatusStep(z, 3)
  /\ At(statusT, z).retryable /\ HasRetryTopic(At(statusT, z).attempt)
  /\ RetryAdds(y, RetryOf(At(statusT, z)))
  /\ SameDispatch /\ UNCHANGED <<calls, attemptRows, stats, trig>>
NotScheduled(z) ==
  /\ StatusStep(z, 3)
  /\ ~(At(statusT, z).retryable /\ HasRetryTopic(At(statusT, z).attempt))
  /\ SameDispatch /\ SameRetry /\ UNCHANGED <<calls, attemptRows, stats, trig>>

\* The retry worker: the retry at z is dispatched to y.
Sent(z, y) ==
  /\ RetryDone(z) /\ DispatchAdds(y, Redispatch(At(retryT, z)))
  /\ SameStatus /\ UNCHANGED <<calls, attemptRows, stats, trig>>

FlowStep ==
  \/ Quiet
  \/ \E c \in Calls : Created(c) \/ Totalled(c) \/ \E z : Enqueued(c, z)
  \/ \E z, y, m : Published(z, y, m)
  \/ \E z : Updated(z) \/ Recorded(z) \/ Tallied(z) \/ NotScheduled(z)
  \/ \E z, y : Scheduled(z, y) \/ Sent(z, y)

\* In a step without a fault no operation fails.
LEMMA NothingFails ==
  ASSUME PipelineInv, UNCHANGED faults, stopping = {}
  PROVE  \A k, w : ~Fault(k) /\ ~Failing(k, w)
<1>1. Len(faults) \in Nat
  BY DEF PipelineInv, StoreInv, FaultLists
<1>2. \A k : Fault(k) => Len(faults') = Len(faults) + 1
  BY DEF PipelineInv, StoreInv, FaultLists, Fault
<1>3. \A k : ~Fault(k)
  BY <1>1, <1>2
<1> QED BY <1>3 DEF Failing

\* A redispatched message carries no limit, so its outcome is not retryable.
LimitGone == \A x \in Places(dispatchT) : At(dispatchT, x).attempt > 1 => At(dispatchT, x).maxAttempts = 0

\* The steps of the call service.
LEMMA TriggerFlows ==
  ASSUME PipelineInv, UNCHANGED faults, stopping = {}, OutcomeFlow, NEW c \in Calls,
         trig[c] # "undo", TriggerCall(c) \/ CrashCaller(c)
  PROVE  FlowStep /\ OutcomeFlow' /\ stopping' = {}
<1>1. \A k : ~Fault(k)
  BY NothingFails
<1>2. CASE CreateCall(c)
  <2>1. UNCHANGED <<topicVars, workerVars>> /\ UNCHANGED <<attemptRows, stats, stopping>>
    BY <1>2 DEF CreateCall
  <2>2. SameDispatch /\ SameStatus /\ SameRetry
    BY <2>1, LeftAlone DEF topicVars, workerVars
  <2>3. Created(c)
    BY <1>1, <1>2, <2>1, <2>2 DEF CreateCall, Created
  <2> QED BY <2>1, <2>3 DEF FlowStep, OutcomeFlow, workerVars
<1>3. CASE CountCall(c)
  <2>1. UNCHANGED <<topicVars, workerVars>> /\ UNCHANGED <<calls, attemptRows, stopping>>
    BY <1>3 DEF CountCall
  <2>2. SameDispatch /\ SameStatus /\ SameRetry
    BY <2>1, LeftAlone DEF topicVars, workerVars
  <2>3. Totalled(c)
    BY <1>1, <1>3, <2>1, <2>2 DEF CountCall, Totalled
  <2> QED BY <2>1, <2>3 DEF FlowStep, OutcomeFlow, workerVars
<1>4. CASE EnqueueCall(c)
  <2>1. UNCHANGED <<statusT, retryT, storeVars, workerVars>> /\ UNCHANGED stopping
    BY <1>4 DEF EnqueueCall
  <2>2. SameStatus /\ SameRetry
    BY <2>1, LeftAlone DEF workerVars
  <2>3. PICK p \in DispatchParts : dispatchT' = WriteMessages(dispatchT, p, FirstDispatch(c))
    BY <1>1, <1>4 DEF EnqueueCall
  <2>4. PICK z : DispatchAdds(z, FirstDispatch(c))
    BY <2>1, <2>3, FirstDispatchBudgeted, DispatchWritten DEF workerVars
  <2>5. Enqueued(c, z)
    BY <1>1, <1>4, <2>1, <2>2, <2>4 DEF EnqueueCall, Enqueued, storeVars
  <2> QED BY <2>1, <2>5 DEF FlowStep, OutcomeFlow, workerVars
<1>5. ~UndoPending(c) /\ ~CrashCaller(c)
  BY <1>1 DEF UndoPending, CrashCaller
<1> QED BY <1>2, <1>3, <1>4, <1>5 DEF TriggerCall, TriggerCallStep

\* A step of a call worker is quiet or publishes the outcome of its dispatch.
LEMMA CallWorkerFlows ==
  ASSUME PipelineInv, UNCHANGED faults, stopping = {}, OutcomeFlow, LimitGone,
         NEW p \in DispatchParts,
         CallWorkerStep(p) \/ CWFlush(p) \/ CWCrash(p) \/ CWShutdown(p) \/ CWClose(p)
  PROVE  FlowStep /\ OutcomeFlow' /\ stopping' = {}
<1> DEFINE busy(pc) == pc \in {"acquire", "dial", "publish"}
           same == /\ UNCHANGED <<statusT, swPc>> /\ UNCHANGED <<retryT, rwPc>>
                   /\ UNCHANGED <<calls, attemptRows, stats, trig>> /\ UNCHANGED stopping
<1>1. \A k, w : ~Fault(k) /\ ~Failing(k, w)
  BY NothingFails
<1>2. /\ dispatchT \in OrderedTopics(DispatchParts, BudgetedDispatch)
      /\ dispatchT[p].fetched \in Nat /\ cwPc \in [DispatchParts -> CallPcs]
  BY Typed
<1>3. ASSUME same, SameDispatch PROVE FlowStep /\ stopping' = {}
  BY <1>3, LeftAlone DEF FlowStep, Quiet
<1>4. ASSUME cwOut' = cwOut, cwPc'[p] # "publish",
             \A q \in DispatchParts : q # p => cwPc'[q] = cwPc[q]
      PROVE  OutcomeFlow'
  BY <1>4 DEF OutcomeFlow
<1>5. CASE CWFetch(p)
  <2>1. same /\ cwOut' = cwOut /\ cwPc[p] = "idle"
    BY <1>5 DEF CWFetch, storeVars
  <2>2. Moved(DispatchParts, BudgetedDispatch, dispatchT, dispatchT', p,
              dispatchT[p].fetched + 1, dispatchT[p].acked, dispatchT[p].committed)
    BY <1>2, <1>5, FetchKeepsOrder DEF CWFetch
  <2>3. cwPc'[p] = "acquire" /\ \A q \in DispatchParts : q # p => cwPc'[q] = cwPc[q]
    BY <1>2, <1>5 DEF CWFetch, CWGoto
  <2>4. SameDispatch
    BY <2>1, <2>2, <2>3, DispatchRead DEF Moved
  <2> QED BY <1>3, <1>4, <2>1, <2>3, <2>4
<1>6. CASE CWAcquire(p)
  <2>1. same /\ UNCHANGED <<dispatchT, cwOut>> /\ cwPc[p] = "acquire"
    BY <1>6 DEF CWAcquire, storeVars, topicVars
  <2>2. cwPc'[p] = "dial" /\ \A q \in DispatchParts : q # p => cwPc'[q] = cwPc[q]
    BY <1>1, <1>2, <1>6 DEF CWAcquire, CWGoto
  <2>3. SameDispatch
    BY <1>2, <2>1, <2>2, DispatchRead
  <2> QED BY <1>3, <1>4, <2>1, <2>2, <2>3
<1>7. CASE CWDial(p)
  <2>1. same /\ UNCHANGED dispatchT /\ cwPc[p] = "dial"
    BY <1>7 DEF CWDial, storeVars, topicVars
  <2>2. cwPc'[p] = "publish" /\ \A q \in DispatchParts : q # p => cwPc'[q] = cwPc[q]
    BY <1>2, <1>7 DEF CWDial, CWGoto
  <2>3. SameDispatch
    BY <1>2, <2>1, <2>2, DispatchRead
  <2> DEFINE d == InFlight(dispatchT[p])
  <2>4. d \in BudgetedDispatch /\ (d.attempt > 1 => d.maxAttempts = 0)
    <3>1. dispatchT[p].fetched > 0
      BY <2>1 DEF PipelineInv, DispatchInv, HoldsDispatch
    <3>2. d \in Written(dispatchT) /\ d \in BudgetedDispatch
      BY <1>2, <3>1, InFlightWritten
    <3>3. \E x \in Places(dispatchT) : At(dispatchT, x) = d
      BY <1>2, <3>2, PlaceFacts
    <3> QED BY <3>2, <3>3 DEF LimitGone
  <2>5. PICK r \in PlaceCall : cwOut' = [cwOut EXCEPT ![p] = StatusOf(d, r)]
    BY <1>7 DEF CWDial
  <2>6. cwOut'[p] = StatusOf(d, r) /\ \A q \in DispatchParts : q # p => cwOut'[q] = cwOut[q]
    BY <2>5 DEF PipelineInv, DispatchInv
  <2>7. StatusOf(d, r).retryable => StatusOf(d, r).attempt = 1
    <3> HIDE DEF d
    <3>1. d.attempt \in Nat /\ d.attempt >= 1 /\ d.maxAttempts \in Nat
      BY <2>4 DEF BudgetedDispatch, DispatchMessage
    <3>2. StatusOf(d, r).retryable => d.attempt < d.maxAttempts
      BY DEF StatusOf
    <3>3. StatusOf(d, r).attempt = d.attempt
      BY DEF StatusOf
    <3> QED BY <2>4, <3>1, <3>2, <3>3
  <2>8. OutcomeFlow'
    <3> HIDE DEF d
    <3> QED BY <2>2, <2>6, <2>7 DEF OutcomeFlow
  <2> QED BY <1>3, <2>1, <2>3, <2>8
<1>8. CASE CWPublish(p)
  <2>1. /\ UNCHANGED <<retryT, rwPc>> /\ UNCHANGED <<calls, attemptRows, stats, trig>>
        /\ UNCHANGED <<dispatchT, stopping>> /\ UNCHANGED swPc /\ cwPc[p] = "publish"
    BY <1>8 DEF CWPublish, storeVars
  <2>2. cwPc'[p] = "commit" /\ \A q \in DispatchParts : q # p => cwPc'[q] = cwPc[q]
    BY <1>2, <1>8 DEF CWPublish, CWGoto
  <2>3. /\ dispatchT[p].fetched > 0 /\ cwOut[p] \in BudgetedStatus
        /\ cwOut[p].call = InFlight(dispatchT[p]).call
        /\ cwOut[p].attempt = InFlight(dispatchT[p]).attempt
    BY <2>1 DEF PipelineInv, DispatchInv, HoldsDispatch
  <2>4. PICK z : DispatchDone(z) /\ At(dispatchT, z) = InFlight(dispatchT[p])
    BY <1>2, <2>1, <2>2, <2>3, DispatchRead
  <2>5. PICK q \in StatusParts : statusT' = WriteMessages(statusT, q, cwOut[p])
    BY <1>1, <1>8 DEF CWPublish
  <2>6. PICK m : m = cwOut[p]
    OBVIOUS
  <2>7. PICK y : StatusAdds(y, m)
    BY <2>1, <2>3, <2>5, <2>6, StatusWritten
  <2>8. Published(z, y, m)
    <3>1. SameRetry
      BY <2>1, LeftAlone
    <3>2. m \in BudgetedStatus /\ Same(m, At(dispatchT, z))
      BY <2>3, <2>4, <2>6 DEF Same
    <3>3. m.retryable => m.attempt = 1
      BY <2>1, <2>6 DEF OutcomeFlow
    <3> QED BY <2>1, <2>4, <2>7, <3>1, <3>2, <3>3 DEF Published
  <2>9. \A q1 \in DispatchParts : q1 # p => cwOut'[q1] = cwOut[q1]
    BY <1>8 DEF CWPublish, PipelineInv, DispatchInv
  <2>10. OutcomeFlow'
    BY <2>2, <2>9 DEF OutcomeFlow
  <2> QED BY <2>1, <2>8, <2>10 DEF FlowStep
<1>9. CASE CWCommit(p)
  <2>1. same /\ cwOut' = cwOut /\ cwPc[p] = "commit" /\ dispatchT' = CommitMessages(dispatchT, p)
    BY <1>9 DEF CWCommit, storeVars
  <2>2. Moved(DispatchParts, BudgetedDispatch, dispatchT, dispatchT', p,
              dispatchT[p].fetched, dispatchT[p].fetched, dispatchT[p].committed)
    BY <1>2, <2>1, CommitKeepsOrder
  <2>3. cwPc'[p] \in {"idle", "release"} /\ \A q \in DispatchParts : q # p => cwPc'[q] = cwPc[q]
    <3>1. PICK pc \in {"idle", "release"} : cwPc' = [cwPc EXCEPT ![p] = pc]
      BY <1>9 DEF CWCommit, CWGoto
    <3> QED BY <1>2, <3>1
  <2>4. SameDispatch
    BY <2>1, <2>2, <2>3, DispatchRead DEF Moved
  <2> QED BY <1>3, <1>4, <2>1, <2>3, <2>4
<1>10. CASE CWRelease(p)
  <2>1. same /\ UNCHANGED <<dispatchT, cwOut>> /\ cwPc[p] = "release"
    BY <1>10 DEF CWRelease, storeVars, topicVars
  <2>2. cwPc'[p] = "idle" /\ \A q \in DispatchParts : q # p => cwPc'[q] = cwPc[q]
    BY <1>2, <1>10 DEF CWRelease, CWGoto
  <2>3. SameDispatch
    BY <1>2, <2>1, <2>2, DispatchRead
  <2> QED BY <1>3, <1>4, <2>1, <2>2, <2>3
<1>11. CASE CWFlush(p)
  <2>1. same /\ UNCHANGED <<cwPc, cwOut>> /\ dispatchT' = FlushCommits(dispatchT, p)
    BY <1>11 DEF CWFlush, storeVars, workerVars
  <2>2. Moved(DispatchParts, BudgetedDispatch, dispatchT, dispatchT', p,
              dispatchT[p].fetched, dispatchT[p].acked, dispatchT[p].acked)
    BY <1>2, <2>1, FlushKeepsOrder
  <2>3. SameDispatch
    BY <2>1, <2>2, DispatchRead DEF Moved
  <2>4. OutcomeFlow'
    BY <2>1 DEF OutcomeFlow
  <2> QED BY <1>3, <2>1, <2>3, <2>4
<1>12. ~CWCrash(p) /\ ~CWShutdown(p) /\ ~CWClose(p)
  BY <1>1 DEF CWCrash, CWShutdown, CWClose
<1> QED BY <1>5, <1>6, <1>7, <1>8, <1>9, <1>10, <1>11, <1>12 DEF CallWorkerStep

\* The writes a status worker has made, step by step.
LEMMA WritesAt ==
  /\ Writes("idle") = 4 /\ Writes("update") = 0 /\ Writes("append") = 1
  /\ Writes("stats") = 2 /\ Writes("retry") = 3 /\ Writes("commit") = 4
BY DEF Writes

\* A step of a status worker is quiet or does one of its four writes.
LEMMA StatusWorkerFlows ==
  ASSUME PipelineInv, UNCHANGED faults, stopping = {}, OutcomeFlow, NEW p \in StatusParts,
         StatusWorkerStep(p) \/ SWFlush(p) \/ SWCrash(p) \/ SWShutdown(p) \/ SWClose(p)
  PROVE  FlowStep /\ OutcomeFlow' /\ stopping' = {}
<1> DEFINE frame == /\ UNCHANGED <<dispatchT, cwPc>> /\ UNCHANGED <<cwOut, rwPc>>
                    /\ UNCHANGED <<trig, stopping>>
           msg == SWMsg(p)
<1>1. \A k, w : ~Fault(k) /\ ~Failing(k, w)
  BY NothingFails
<1>2. /\ statusT \in OrderedTopics(StatusParts, BudgetedStatus)
      /\ statusT[p].fetched \in Nat /\ swPc \in [StatusParts -> StatusPcs]
  BY Typed
<1>3. ASSUME frame PROVE SameDispatch /\ OutcomeFlow' /\ stopping' = {} /\ UNCHANGED trig
                         /\ (UNCHANGED retryT => SameRetry)
  BY <1>3, LeftAlone DEF OutcomeFlow
<1>4. swPc[p] # "idle" => statusT[p].fetched > 0
  BY DEF PipelineInv, StatusInv
<1>5. ASSUME UNCHANGED statusT, \A q \in StatusParts : q # p => swPc'[q] = swPc[q],
             swPc[p] # "idle", Writes(swPc'[p]) = Writes(swPc[p]) + 1
      PROVE  \E z : StatusStep(z, Writes(swPc[p])) /\ At(statusT, z) = msg
  <2>1. \E z : StatusStep(z, Writes(swPc[p])) /\ At(statusT, z) = InFlight(statusT[p])
    BY <1>2, <1>4, <1>5, StatusRead
  <2> QED BY <2>1 DEF SWMsg
<1> HIDE DEF msg
<1>6. CASE SWFetch(p)
  <2>1. /\ frame /\ UNCHANGED retryT /\ UNCHANGED <<calls, attemptRows, stats>> /\ swPc[p] = "idle"
        /\ swPc' = [swPc EXCEPT ![p] = "update"]
    BY <1>6 DEF SWFetch, SWGoto, storeVars
  <2>2. Moved(StatusParts, BudgetedStatus, statusT, statusT', p,
              statusT[p].fetched + 1, statusT[p].acked, statusT[p].committed)
    BY <1>2, <1>6, FetchKeepsOrder DEF SWFetch
  <2>3. swPc'[p] = "update" /\ \A q \in StatusParts : q # p => swPc'[q] = swPc[q]
    BY <1>2, <2>1
  <2>4. SameStatus
    BY <2>1, <2>2, <2>3, StatusRead, WritesAt DEF Moved
  <2> QED BY <1>3, <2>1, <2>4 DEF FlowStep, Quiet
<1>7. CASE SWUpdate(p)
  <2>1. /\ frame /\ UNCHANGED <<statusT, retryT>> /\ UNCHANGED <<attemptRows, stats>>
        /\ swPc[p] = "update" /\ swPc' = [swPc EXCEPT ![p] = "append"]
    BY <1>7 DEF SWUpdate, SWGoto, topicVars
  <2>2. calls' = UpdatedCalls(msg)
    BY <1>1, <1>7 DEF SWUpdate, msg
  <2>3. PICK z : StatusStep(z, 0) /\ At(statusT, z) = msg
    <3>1. swPc'[p] = "append" /\ \A q \in StatusParts : q # p => swPc'[q] = swPc[q]
      BY <1>2, <2>1
    <3>2. Writes(swPc[p]) = 0 /\ Writes(swPc'[p]) = 1
      BY <2>1, <3>1, WritesAt
    <3> QED BY <1>5, <2>1, <3>1, <3>2
  <2>4. calls' = UpdatedCalls(At(statusT, z))
    BY <2>2, <2>3
  <2>5. Updated(z)
    BY <1>3, <2>1, <2>3, <2>4 DEF Updated
  <2> QED BY <1>3, <2>1, <2>5 DEF FlowStep
<1>8. CASE SWAppend(p)
  <2>1. /\ frame /\ UNCHANGED <<statusT, retryT>> /\ UNCHANGED <<calls, stats>>
        /\ swPc[p] = "append" /\ swPc' = [swPc EXCEPT ![p] = "stats"]
    BY <1>8 DEF SWAppend, SWGoto, topicVars
  <2>2. attemptRows' = attemptRows \cup {AttemptRow(msg)}
    BY <1>1, <1>8 DEF SWAppend, msg
  <2>3. PICK z : StatusStep(z, 1) /\ At(statusT, z) = msg
    <3>1. swPc'[p] = "stats" /\ \A q \in StatusParts : q # p => swPc'[q] = swPc[q]
      BY <1>2, <2>1
    <3>2. Writes(swPc[p]) = 1 /\ Writes(swPc'[p]) = 2
      BY <2>1, <3>1, WritesAt
    <3> QED BY <1>5, <2>1, <3>1, <3>2
  <2>4. Recorded(z)
    BY <1>3, <2>1, <2>2, <2>3 DEF Recorded
  <2> QED BY <1>3, <2>1, <2>4 DEF FlowStep
<1>9. CASE SWStats(p)
  <2>1. /\ frame /\ UNCHANGED <<statusT, retryT>> /\ UNCHANGED <<calls, attemptRows>>
        /\ swPc[p] = "stats" /\ swPc' = [swPc EXCEPT ![p] = "retry"]
    BY <1>9 DEF SWStats, SWGoto, topicVars
  <2>2. stats' = ApplyDelta(StatsDelta(msg))
    BY <1>1, <1>9 DEF SWStats, msg
  <2>3. PICK z : StatusStep(z, 2) /\ At(statusT, z) = msg
    <3>1. swPc'[p] = "retry" /\ \A q \in StatusParts : q # p => swPc'[q] = swPc[q]
      BY <1>2, <2>1
    <3>2. Writes(swPc[p]) = 2 /\ Writes(swPc'[p]) = 3
      BY <2>1, <3>1, WritesAt
    <3> QED BY <1>5, <2>1, <3>1, <3>2
  <2>4. stats' = ApplyDelta(StatsDelta(At(statusT, z)))
    BY <2>2, <2>3
  <2>5. Tallied(z)
    BY <1>3, <2>1, <2>3, <2>4 DEF Tallied
  <2> QED BY <1>3, <2>1, <2>5 DEF FlowStep
<1>10. CASE SWRetry(p)
  <2>1. /\ frame /\ UNCHANGED statusT /\ UNCHANGED <<calls, attemptRows, stats>>
        /\ swPc[p] = "retry" /\ swPc' = [swPc EXCEPT ![p] = "commit"]
    BY <1>10 DEF SWRetry, SWGoto, storeVars
  <2> DEFINE sends == msg.retryable /\ HasRetryTopic(msg.attempt)
  <2>2. \/ ~sends /\ UNCHANGED retryT
        \/ sends /\ ScheduleRetry(msg)
    BY <1>1, <1>10 DEF SWRetry, msg
  <2>3. PICK z : StatusStep(z, 3) /\ At(statusT, z) = msg
    <3>1. swPc'[p] = "commit" /\ \A q \in StatusParts : q # p => swPc'[q] = swPc[q]
      BY <1>2, <2>1
    <3>2. Writes(swPc[p]) = 3 /\ Writes(swPc'[p]) = 4
      BY <2>1, <3>1, WritesAt
    <3> QED BY <1>5, <2>1, <3>1, <3>2
  <2>4. CASE ~sends /\ UNCHANGED retryT
    <3>1. NotScheduled(z)
      BY <1>3, <2>1, <2>3, <2>4 DEF NotScheduled
    <3> QED BY <1>3, <2>1, <3>1 DEF FlowStep
  <2>5. CASE sends /\ ScheduleRetry(msg)
    <3>1. msg \in BudgetedStatus
      BY <1>2, <2>3, PlaceFacts DEF StatusStep
    <3>2. RetryOf(msg) \in BudgetedRetry
      BY <2>5, <3>1, RetryOfBudgeted
    <3>3. PICK q \in RetryParts : retryT' = WriteMessages(retryT, <<msg.attempt, q>>, RetryOf(msg))
      BY <2>5 DEF ScheduleRetry
    <3>4. <<msg.attempt, q>> \in RetryLanes
      BY <2>5 DEF RetryLanes, HasRetryTopic
    <3>5. PICK y : RetryAdds(y, RetryOf(msg))
      BY <2>1, <3>2, <3>3, <3>4, RetryWritten
    <3>6. RetryAdds(y, RetryOf(At(statusT, z)))
      BY <2>3, <3>5 DEF RetryAdds
    <3>7. Scheduled(z, y)
      BY <1>3, <2>1, <2>3, <2>5, <3>6 DEF Scheduled
    <3> QED BY <1>3, <2>1, <3>7 DEF FlowStep
  <2> QED BY <2>2, <2>4, <2>5
<1>11. CASE SWCommit(p)
  <2>1. /\ frame /\ UNCHANGED retryT /\ UNCHANGED <<calls, attemptRows, stats>> /\ swPc[p] = "commit"
        /\ swPc' = [swPc EXCEPT ![p] = "idle"] /\ statusT' = CommitMessages(statusT, p)
    BY <1>11 DEF SWCommit, SWGoto, storeVars
  <2>2. Moved(StatusParts, BudgetedStatus, statusT, statusT', p,
              statusT[p].fetched, statusT[p].fetched, statusT[p].committed)
    BY <1>2, <2>1, CommitKeepsOrder
  <2>3. swPc'[p] = "idle" /\ \A q \in StatusParts : q # p => swPc'[q] = swPc[q]
    BY <1>2, <2>1
  <2>4. SameStatus
    BY <2>1, <2>2, <2>3, StatusRead, WritesAt DEF Moved
  <2> QED BY <1>3, <2>1, <2>4 DEF FlowStep, Quiet
<1>12. CASE SWFlush(p)
  <2>1. /\ frame /\ UNCHANGED <<retryT, swPc>> /\ UNCHANGED <<calls, attemptRows, stats>>
        /\ statusT' = FlushCommits(statusT, p)
    BY <1>12 DEF SWFlush, workerVars, storeVars
  <2>2. Moved(StatusParts, BudgetedStatus, statusT, statusT', p,
              statusT[p].fetched, statusT[p].acked, statusT[p].acked)
    BY <1>2, <2>1, FlushKeepsOrder
  <2>3. SameStatus
    BY <2>1, <2>2, StatusRead DEF Moved
  <2> QED BY <1>3, <2>1, <2>3 DEF FlowStep, Quiet
<1>13. ~SWCrash(p) /\ ~SWShutdown(p) /\ ~SWClose(p)
  BY <1>1 DEF SWCrash, SWShutdown, SWClose
<1> QED BY <1>6, <1>7, <1>8, <1>9, <1>10, <1>11, <1>12, <1>13 DEF StatusWorkerStep

\* A step of a retry worker is quiet or dispatches its retry.
LEMMA RetryWorkerFlows ==
  ASSUME PipelineInv, UNCHANGED faults, stopping = {}, OutcomeFlow, NEW l \in RetryLanes,
         RetryWorkerStep(l) \/ RWFlush(l) \/ RWCrash(l) \/ RWShutdown(l) \/ RWClose(l)
  PROVE  FlowStep /\ OutcomeFlow' /\ stopping' = {}
<1> DEFINE same == /\ UNCHANGED <<statusT, swPc>> /\ UNCHANGED <<cwPc, cwOut>>
                   /\ UNCHANGED <<calls, attemptRows, stats, trig>> /\ UNCHANGED stopping
<1>1. \A k, w : ~Fault(k) /\ ~Failing(k, w)
  BY NothingFails
<1>2. /\ retryT \in OrderedTopics(RetryLanes, BudgetedRetry)
      /\ retryT[l].fetched \in Nat /\ rwPc \in [RetryLanes -> RetryPcs]
  BY Typed
<1>3. ASSUME same PROVE OutcomeFlow' /\ stopping' = {} /\ SameStatus
  BY <1>3, LeftAlone DEF OutcomeFlow
<1>4. ASSUME same, UNCHANGED dispatchT, SameRetry PROVE FlowStep
  BY <1>3, <1>4, LeftAlone DEF FlowStep, Quiet
<1>5. CASE RWFetch(l)
  <2>1. /\ same /\ UNCHANGED dispatchT /\ rwPc[l] = "idle" /\ rwPc' = [rwPc EXCEPT ![l] = "wait"]
    BY <1>5 DEF RWFetch, RWGoto, storeVars
  <2>2. Moved(RetryLanes, BudgetedRetry, retryT, retryT', l,
              retryT[l].fetched + 1, retryT[l].acked, retryT[l].committed)
    BY <1>2, <1>5, FetchKeepsOrder DEF RWFetch
  <2>3. rwPc'[l] = "wait" /\ \A q \in RetryLanes : q # l => rwPc'[q] = rwPc[q]
    BY <1>2, <2>1
  <2>4. SameRetry
    BY <2>1, <2>2, <2>3, RetryRead DEF Moved
  <2> QED BY <1>3, <1>4, <2>1, <2>4
<1>6. CASE RWWait(l)
  <2>1. /\ same /\ UNCHANGED <<dispatchT, retryT>> /\ rwPc[l] = "wait"
        /\ rwPc' = [rwPc EXCEPT ![l] = "dispatch"]
    BY <1>6 DEF RWWait, RWGoto, storeVars
  <2>2. rwPc'[l] = "dispatch" /\ \A q \in RetryLanes : q # l => rwPc'[q] = rwPc[q]
    BY <1>2, <2>1
  <2>3. SameRetry
    BY <1>2, <2>1, <2>2, RetryRead
  <2> QED BY <1>3, <1>4, <2>1, <2>3
<1>7. CASE RWDispatch(l)
  <2>1. /\ same /\ UNCHANGED retryT /\ rwPc[l] = "dispatch"
        /\ rwPc' = [rwPc EXCEPT ![l] = "commit"]
    BY <1>1, <1>7 DEF RWDispatch, RWGoto, storeVars
  <2>2. rwPc'[l] = "commit" /\ \A q \in RetryLanes : q # l => rwPc'[q] = rwPc[q]
    BY <1>2, <2>1
  <2>3. retryT[l].fetched > 0
    BY <2>1 DEF PipelineInv, RetryInv
  <2>4. PICK z : RetryDone(z) /\ At(retryT, z) = InFlight(retryT[l])
    BY <1>2, <2>1, <2>2, <2>3, RetryRead
  <2> DEFINE d == Redispatch(InFlight(retryT[l]))
  <2>5. PICK p \in DispatchParts : dispatchT' = WriteMessages(dispatchT, p, d)
    BY <1>1, <1>7 DEF RWDispatch
  <2>6. d \in BudgetedDispatch
    BY <1>2, <2>3, InFlightWritten, RedispatchBudgeted
  <2>7. PICK y : DispatchAdds(y, d)
    <3> HIDE DEF d
    <3> QED BY <2>1, <2>5, <2>6, DispatchWritten
  <2>8. DispatchAdds(y, Redispatch(At(retryT, z)))
    BY <2>4, <2>7 DEF DispatchAdds
  <2>9. Sent(z, y)
    BY <1>3, <2>1, <2>4, <2>8 DEF Sent
  <2> QED BY <1>3, <2>1, <2>9 DEF FlowStep
<1>8. CASE RWCommit(l)
  <2>1. /\ same /\ UNCHANGED dispatchT /\ rwPc[l] = "commit"
        /\ rwPc' = [rwPc EXCEPT ![l] = "idle"] /\ retryT' = CommitMessages(retryT, l)
    BY <1>8 DEF RWCommit, RWGoto, storeVars
  <2>2. Moved(RetryLanes, BudgetedRetry, retryT, retryT', l,
              retryT[l].fetched, retryT[l].fetched, retryT[l].committed)
    BY <1>2, <2>1, CommitKeepsOrder
  <2>3. rwPc'[l] = "idle" /\ \A q \in RetryLanes : q # l => rwPc'[q] = rwPc[q]
    BY <1>2, <2>1
  <2>4. SameRetry
    BY <2>1, <2>2, <2>3, RetryRead DEF Moved
  <2> QED BY <1>3, <1>4, <2>1, <2>4
<1>9. CASE RWFlush(l)
  <2>1. /\ same /\ UNCHANGED <<dispatchT, rwPc>> /\ retryT' = FlushCommits(retryT, l)
    BY <1>9 DEF RWFlush, workerVars, storeVars
  <2>2. Moved(RetryLanes, BudgetedRetry, retryT, retryT', l,
              retryT[l].fetched, retryT[l].acked, retryT[l].acked)
    BY <1>2, <2>1, FlushKeepsOrder
  <2>3. SameRetry
    BY <2>1, <2>2, RetryRead DEF Moved
  <2> QED BY <1>3, <1>4, <2>1, <2>3
<1>10. ~RWCrash(l) /\ ~RWShutdown(l) /\ ~RWClose(l)
  BY <1>1 DEF RWCrash, RWShutdown, RWClose
<1> QED BY <1>5, <1>6, <1>7, <1>8, <1>9, <1>10 DEF RetryWorkerStep

\* While nothing fails every step is one of those of FlowStep.
LEMMA StepFlows ==
  ASSUME PipelineInv, UNCHANGED faults, stopping = {}, OutcomeFlow, LimitGone,
         \A c \in Calls : trig[c] # "undo", [Next]_vars
  PROVE  FlowStep /\ OutcomeFlow' /\ stopping' = {}
<1>1. ASSUME UNCHANGED vars PROVE FlowStep /\ OutcomeFlow' /\ stopping' = {}
  <2>1. /\ UNCHANGED <<dispatchT, cwPc>> /\ UNCHANGED <<statusT, swPc>> /\ UNCHANGED <<retryT, rwPc>>
        /\ UNCHANGED <<calls, attemptRows, stats, trig>> /\ UNCHANGED <<cwOut, stopping>>
    BY <1>1 DEF vars, topicVars, storeVars, workerVars
  <2> QED BY <2>1, LeftAlone DEF FlowStep, Quiet, OutcomeFlow
<1>2. CASE KeyExpires
  <2>1. /\ UNCHANGED <<dispatchT, cwPc>> /\ UNCHANGED <<statusT, swPc>> /\ UNCHANGED <<retryT, rwPc>>
        /\ UNCHANGED <<calls, attemptRows, stats, trig>> /\ UNCHANGED <<cwOut, stopping>>
    BY <1>2 DEF KeyExpires, topicVars, storeVars, workerVars
  <2> QED BY <2>1, LeftAlone DEF FlowStep, Quiet, OutcomeFlow
<1>3. CASE \E c \in Calls : TriggerCall(c) \/ CrashCaller(c)
  BY <1>3, TriggerFlows
<1>4. CASE WorkerStep
  BY <1>4, CallWorkerFlows, StatusWorkerFlows, RetryWorkerFlows DEF WorkerStep
<1>5. CASE WorkerRestart
  BY <1>5, CallWorkerFlows, StatusWorkerFlows, RetryWorkerFlows DEF WorkerRestart
<1>6. CASE Idle
  BY <1>1, <1>6 DEF Idle
<1> QED BY <1>1, <1>2, <1>3, <1>4, <1>5, <1>6 DEF Next

-----------------------------------------------------------------------------
(* Every step keeps the invariant *)

\* What a topic holds after a step.
LEMMA HoldsKept ==
  ASSUME NEW t, NEW u, Kept(t, u)
  PROVE  /\ \A m : Holds(u, m) <=> Holds(t, m)
         /\ OnceEach(t) => OnceEach(u)
BY DEF Kept, Holds, OnceEach

\* What a topic holds after a write.
LEMMA HoldsGrown ==
  ASSUME NEW t, NEW u, NEW z, NEW w, Grown(t, u, z, w)
  PROVE  /\ \A m : Holds(u, m) <=> Holds(t, m) \/ Same(w, m)
         /\ OnceEach(t) /\ ~Holds(t, w) => OnceEach(u)
<1>1. \A m : Holds(u, m) <=> Holds(t, m) \/ Same(w, m)
  BY DEF Grown, Holds
<1>2. ASSUME OnceEach(t), ~Holds(t, w), NEW x \in Places(u), NEW y \in Places(u),
             Same(At(u, x), At(u, y))
      PROVE  x = y
  BY <1>2 DEF Grown, Holds, OnceEach, Same
<1> QED BY <1>1, <1>2 DEF OnceEach

\* The fields of the messages.
LEMMA Fields ==
  /\ \A m : RetryOf(m).call = m.call /\ RetryOf(m).attempt = m.attempt + 1
  /\ \A c : FirstDispatch(c).call = c /\ FirstDispatch(c).attempt = 1
  /\ \A r : /\ Redispatch(r).call = r.call /\ Redispatch(r).attempt = r.attempt
            /\ Redispatch(r).maxAttempts = 0
BY DEF RetryOf, MarshalRetry, RetryMessage, NextDispatch, FirstDispatch, Redispatch, UnmarshalRetry

\* The types of what is at the places, and of the rows.
LEMMA FlowTypes ==
  ASSUME PipelineInv
  PROVE  /\ \A x \in Places(dispatchT) : /\ At(dispatchT, x).call \in Calls
                                         /\ At(dispatchT, x).attempt \in Nat
                                         /\ At(dispatchT, x).attempt >= 1
         /\ \A x \in Places(retryT) : /\ At(retryT, x).call \in Calls
                                      /\ At(retryT, x).attempt \in Nat
                                      /\ At(retryT, x).attempt > 1
         /\ \A x \in Places(statusT) : /\ At(statusT, x).call \in Calls
                                       /\ At(statusT, x).attempt \in Nat
                                       /\ At(statusT, x).attempt >= 1
                                       /\ At(statusT, x).status \in FinalStatuses
                                       /\ Done(x) \in 0..4
         /\ \A c \in Calls : calls[c].attempts \in Nat
         /\ trig \in [Calls -> TrigPcs] /\ calls \in [Calls -> CallRow]
<1>1. /\ \A x \in Places(dispatchT) : At(dispatchT, x) \in BudgetedDispatch
      /\ \A x \in Places(statusT) : At(statusT, x) \in BudgetedStatus
      /\ \A x \in Places(retryT) : At(retryT, x) \in BudgetedRetry
  BY Typed, PlaceFacts
<1>2. /\ \A m \in BudgetedDispatch : m.call \in Calls /\ m.attempt \in Nat /\ m.attempt >= 1
      /\ \A m \in BudgetedRetry : m.call \in Calls /\ m.attempt \in Nat /\ m.attempt > 1
      /\ \A m \in BudgetedStatus : /\ m.call \in Calls /\ m.attempt \in Nat /\ m.attempt >= 1
                                   /\ m.status \in FinalStatuses
  BY DEF BudgetedDispatch, BudgetedRetry, BudgetedStatus, DispatchMessage, StatusMessage
<1>3. \A pc : Writes(pc) \in 0..4
  BY DEF Writes
<1>4. \A x : Done(x) \in 0..4
  BY <1>3 DEF Done
<1>5. trig \in [Calls -> TrigPcs] /\ calls \in [Calls -> CallRow]
  BY DEF PipelineInv, StoreInv
<1>6. \A c \in Calls : calls[c].attempts \in Nat
  BY <1>5 DEF CallRow
<1> QED BY <1>1, <1>2, <1>4, <1>5, <1>6

\* A call whose request is not accepted has no message anywhere.
LEMMA Untouched ==
  ASSUME PipelineInv, MessageFlow, NEW c \in Calls, trig[c] # "accepted"
  PROVE  /\ \A x \in Places(dispatchT) : At(dispatchT, x).call # c
         /\ \A x \in Places(statusT) : At(statusT, x).call # c
         /\ \A x \in Places(retryT) : At(retryT, x).call # c
<1>1. \A x \in Places(dispatchT) : At(dispatchT, x).call # c
  BY DEF MessageFlow, DispatchFlow
<1>2. \A x \in Places(statusT) : At(statusT, x).call # c
  BY <1>1 DEF MessageFlow, StatusFlow, Holds, Same
<1>3. \A x \in Places(retryT) : At(retryT, x).call # c
  BY <1>2, Fields DEF MessageFlow, RetryFlow, Same
<1> QED BY <1>1, <1>2, <1>3

\* Steps that leave the topics alone, but for the progress of their workers.
LEMMA QuietKeeps ==
  ASSUME PipelineInv, MessageFlow, Quiet \/ \E z : Tallied(z) 
  PROVE  MessageFlow'
<1>1. /\ Kept(dispatchT, dispatchT') /\ Kept(statusT, statusT') /\ Kept(retryT, retryT')
      /\ UNCHANGED <<calls, attemptRows, trig>>
      /\ \A x \in Places(dispatchT) : Unpublished(x)' <=> Unpublished(x)
      /\ \A x \in Places(retryT) : Unsent(x)' <=> Unsent(x)
  BY DEF Quiet, Tallied, SameDispatch, SameStatus, SameRetry, StatusStep
<1>2. \A x \in Places(statusT) : \/ Done(x)' = Done(x)
                                 \/ Done(x) = 2 /\ Done(x)' = 3
  BY DEF Quiet, Tallied, SameStatus, StatusStep
<1>3. /\ \A m : Holds(dispatchT, m)' <=> Holds(dispatchT, m)
      /\ \A m : Holds(statusT, m)' <=> Holds(statusT, m)
      /\ \A m : Holds(retryT, m)' <=> Holds(retryT, m)
      /\ OnceEach(dispatchT)' /\ OnceEach(statusT)' /\ OnceEach(retryT)'
  BY <1>1, HoldsKept DEF MessageFlow
<1>4. \A x \in Places(dispatchT)' : DispatchFlow(x)'
  BY <1>1, <1>3 DEF Kept, MessageFlow, DispatchFlow
<1>5. \A x \in Places(retryT)' : RetryFlow(x)'
  BY <1>1, <1>3 DEF Kept, MessageFlow, RetryFlow
<1>6. \A x \in Places(statusT)' : StatusFlow(x)'
  BY <1>1, <1>2, <1>3, FlowTypes DEF Kept, MessageFlow, StatusFlow
<1>7. \A c \in Calls : RowFlow(c)'
  BY <1>1, <1>3 DEF Kept, MessageFlow, RowFlow
<1>8. \A r \in attemptRows' : \E x \in Places(statusT)' : AttemptRow(At(statusT, x))' = r
  BY <1>1 DEF Kept, MessageFlow
<1> QED BY <1>3, <1>4, <1>5, <1>6, <1>7, <1>8 DEF MessageFlow

\* A new row, or a new count: the call has no message yet.
LEMMA TriggerKeepsFlow ==
  ASSUME PipelineInv, MessageFlow, NEW c \in Calls, Created(c) \/ Totalled(c)
  PROVE  MessageFlow'
<1>1. /\ Kept(dispatchT, dispatchT') /\ Kept(statusT, statusT') /\ Kept(retryT, retryT')
      /\ UNCHANGED attemptRows /\ trig[c] \in {"ready", "count"}
      /\ \A x \in Places(dispatchT) : Unpublished(x)' <=> Unpublished(x)
      /\ \A x \in Places(retryT) : Unsent(x)' <=> Unsent(x)
      /\ \A x \in Places(statusT) : Done(x)' = Done(x)
  BY DEF Created, Totalled, SameDispatch, SameStatus, SameRetry
<1>2. /\ \A x \in Places(dispatchT) : At(dispatchT, x).call \in Calls \ {c}
      /\ \A x \in Places(statusT) : At(statusT, x).call \in Calls \ {c}
      /\ \A x \in Places(retryT) : At(retryT, x).call \in Calls \ {c}
  BY <1>1, Untouched, FlowTypes
<1>3. \A b \in Calls \ {c} : trig'[b] = trig[b] /\ calls'[b] = calls[b]
  BY FlowTypes DEF Created, Totalled
<1>4. /\ \A m : Holds(dispatchT, m)' <=> Holds(dispatchT, m)
      /\ \A m : Holds(statusT, m)' <=> Holds(statusT, m)
      /\ \A m : Holds(retryT, m)' <=> Holds(retryT, m)
      /\ OnceEach(dispatchT)' /\ OnceEach(statusT)' /\ OnceEach(retryT)'
  BY <1>1, HoldsKept DEF MessageFlow
<1>5. \A x \in Places(dispatchT)' : DispatchFlow(x)'
  BY <1>1, <1>2, <1>3, <1>4 DEF Kept, MessageFlow, DispatchFlow
<1>6. \A x \in Places(retryT)' : RetryFlow(x)'
  BY <1>1, <1>2, <1>3, <1>4 DEF Kept, MessageFlow, RetryFlow
<1>7. \A x \in Places(statusT)' : StatusFlow(x)'
  BY <1>1, <1>2, <1>3, <1>4 DEF Kept, MessageFlow, StatusFlow
<1>8. \A b \in Calls \ {c} : RowFlow(b)'
  BY <1>1, <1>3, <1>4 DEF Kept, MessageFlow, RowFlow
<1>9. RowFlow(c)'
  <2>1. RowFlow(c)
    BY DEF MessageFlow
  <2>2. calls'[c].attempts = 0 /\ trig'[c] \in {"count", "dispatch"} /\ calls'[c].status # "absent"
        /\ calls'[c].status \notin FinalStatuses
    <3>1. CASE Created(c)
      BY <3>1, FlowTypes DEF Created, QueuedRow, FinalStatuses
    <3>2. CASE Totalled(c)
      BY <3>2, <2>1, FlowTypes DEF Totalled, RowFlow
    <3> QED BY <3>1, <3>2
  <2> QED BY <2>2 DEF RowFlow
<1>10. \A r \in attemptRows' : \E x \in Places(statusT)' : AttemptRow(At(statusT, x))' = r
  BY <1>1 DEF Kept, MessageFlow
<1>11. \A b \in Calls : RowFlow(b)'
  BY <1>8, <1>9
<1> QED BY <1>4, <1>5, <1>6, <1>7, <1>10, <1>11 DEF MessageFlow

\* The first dispatch of a call.
LEMMA EnqueueKeepsFlow ==
  ASSUME PipelineInv, MessageFlow, NEW c \in Calls, NEW z, Enqueued(c, z)
  PROVE  MessageFlow'
<1> DEFINE first == FirstDispatch(c)
<1>1. /\ Grown(dispatchT, dispatchT', z, first) /\ Kept(statusT, statusT') /\ Kept(retryT, retryT')
      /\ UNCHANGED <<calls, attemptRows>> /\ trig[c] = "dispatch"
      /\ Unpublished(z)'
      /\ \A x \in Places(dispatchT) : Unpublished(x)' <=> Unpublished(x)
      /\ \A x \in Places(retryT) : Unsent(x)' <=> Unsent(x)
      /\ \A x \in Places(statusT) : Done(x)' = Done(x)
  BY DEF Enqueued, DispatchAdds, SameStatus, SameRetry
<1>2. /\ \A x \in Places(dispatchT) : At(dispatchT, x).call \in Calls \ {c}
      /\ \A x \in Places(statusT) : At(statusT, x).call \in Calls \ {c}
      /\ \A x \in Places(retryT) : At(retryT, x).call \in Calls \ {c}
  BY <1>1, Untouched, FlowTypes
<1>3. trig'[c] = "accepted" /\ \A b \in Calls \ {c} : trig'[b] = trig[b]
  BY FlowTypes DEF Enqueued
<1>4. first.call = c /\ first.attempt = 1
  BY Fields
<1> HIDE DEF first
<1>5. ~Holds(dispatchT, first) /\ ~Holds(statusT, first)
  BY <1>2, <1>4 DEF Holds, Same
<1>6. /\ \A m : Holds(dispatchT, m)' <=> Holds(dispatchT, m) \/ Same(first, m)
      /\ \A m : Holds(statusT, m)' <=> Holds(statusT, m)
      /\ \A m : Holds(retryT, m)' <=> Holds(retryT, m)
      /\ OnceEach(dispatchT)' /\ OnceEach(statusT)' /\ OnceEach(retryT)'
  BY <1>1, <1>5, HoldsKept, HoldsGrown DEF MessageFlow
<1>7. calls[c].attempts = 0
  BY <1>1 DEF MessageFlow, RowFlow
<1>8. \A x \in Places(dispatchT) : DispatchFlow(x)'
  BY <1>1, <1>2, <1>3, <1>6 DEF Grown, MessageFlow, DispatchFlow
<1>9. DispatchFlow(z)'
  <2>1. At(dispatchT, z)' = first
    BY <1>1 DEF Grown
  <2> QED BY <1>1, <1>3, <1>4, <1>5, <1>6, <1>7, <2>1 DEF DispatchFlow
<1>10. \A x \in Places(dispatchT)' : DispatchFlow(x)'
  BY <1>1, <1>8, <1>9 DEF Grown
<1>11. \A x \in Places(retryT)' : RetryFlow(x)'
  <2>1. \A x \in Places(retryT) : ~Same(first, At(retryT, x))
    BY <1>2, <1>4 DEF Same
  <2> QED BY <1>1, <1>2, <1>6, <2>1 DEF Kept, MessageFlow, RetryFlow
<1>12. \A x \in Places(statusT)' : StatusFlow(x)'
  BY <1>1, <1>6 DEF Kept, MessageFlow, StatusFlow
<1>13. \A b \in Calls : RowFlow(b)'
  <2>1. Holds(dispatchT, first)'
    BY <1>6 DEF Same
  <2>2. \A b \in Calls \ {c} : RowFlow(b)'
    BY <1>1, <1>3, <1>6 DEF Kept, MessageFlow, RowFlow
  <2>3. RowFlow(c)'
    BY <1>1, <1>3, <1>7, <2>1 DEF MessageFlow, RowFlow, first
  <2> QED BY <2>2, <2>3
<1>14. \A r \in attemptRows' : \E x \in Places(statusT)' : AttemptRow(At(statusT, x))' = r
  BY <1>1 DEF Kept, MessageFlow
<1> QED BY <1>6, <1>10, <1>11, <1>12, <1>13, <1>14 DEF MessageFlow

\* The outcome of a dispatch is published.
LEMMA PublishKeepsFlow ==
  ASSUME PipelineInv, MessageFlow, NEW z, NEW y, NEW m, Published(z, y, m)
  PROVE  MessageFlow'
<1> DEFINE d == At(dispatchT, z)
<1>1. /\ Kept(dispatchT, dispatchT') /\ Grown(statusT, statusT', y, m) /\ Kept(retryT, retryT')
      /\ UNCHANGED <<calls, attemptRows, trig>>
      /\ z \in Places(dispatchT) /\ Unpublished(z) /\ ~Unpublished(z)' /\ Done(y)' = 0
      /\ Same(m, d) /\ (m.retryable => m.attempt = 1)
      /\ \A x \in Places(dispatchT) : x # z => (Unpublished(x)' <=> Unpublished(x))
      /\ \A x \in Places(retryT) : Unsent(x)' <=> Unsent(x)
      /\ \A x \in Places(statusT) : Done(x)' = Done(x)
  BY DEF Published, DispatchDone, StatusAdds, SameRetry
<1>2. DispatchFlow(z)
  BY <1>1 DEF MessageFlow
<1>3. /\ m.call \in Calls /\ m.attempt \in Nat /\ m.attempt = calls[m.call].attempts + 1
      /\ calls[m.call].attempts \in Nat /\ ~Holds(statusT, m)
  BY <1>1, <1>2, FlowTypes DEF DispatchFlow, Same, Holds
<1>4. /\ \A n : Holds(dispatchT, n)' <=> Holds(dispatchT, n)
      /\ \A n : Holds(statusT, n)' <=> Holds(statusT, n) \/ Same(m, n)
      /\ \A n : Holds(retryT, n)' <=> Holds(retryT, n)
      /\ OnceEach(dispatchT)' /\ OnceEach(statusT)' /\ OnceEach(retryT)'
  BY <1>1, <1>3, HoldsKept, HoldsGrown DEF MessageFlow
<1>5. \A x \in Places(dispatchT)' : DispatchFlow(x)'
  <2>1. ASSUME NEW x \in Places(dispatchT), x # z PROVE ~Same(m, At(dispatchT, x))
    BY <1>1, <2>1 DEF MessageFlow, OnceEach, Same
  <2>2. ASSUME NEW x \in Places(dispatchT), x # z PROVE DispatchFlow(x)'
    BY <1>1, <1>4, <2>1, <2>2 DEF Kept, MessageFlow, DispatchFlow
  <2>3. DispatchFlow(z)'
    BY <1>1, <1>2, <1>4 DEF Kept, DispatchFlow
  <2> QED BY <1>1, <2>2, <2>3 DEF Kept
<1>6. \A x \in Places(retryT)' : RetryFlow(x)'
  BY <1>1, <1>4 DEF Kept, Grown, MessageFlow, RetryFlow
<1>7. \A x \in Places(statusT) : StatusFlow(x)'
  BY <1>1, <1>4 DEF Grown, MessageFlow, StatusFlow
<1>8. StatusFlow(y)'
  <2>1. At(statusT, y)' = m
    BY <1>1 DEF Grown
  <2>2. Holds(dispatchT, m)'
    BY <1>1, <1>4 DEF Holds, Same
  <2>3. AttemptRow(m) \notin attemptRows
    BY <1>3 DEF MessageFlow, AttemptRow, Holds, Same
  <2>4. ~Holds(retryT, RetryOf(m))
    <3>1. SUFFICES ASSUME NEW x \in Places(retryT), Same(At(retryT, x), RetryOf(m)) PROVE FALSE
      BY DEF Holds
    <3>2. PICK w \in Places(statusT) : Same(At(retryT, x), RetryOf(At(statusT, w)))
      BY DEF MessageFlow, RetryFlow
    <3>3. Same(At(statusT, w), m)
      <4>1. At(statusT, w).call = m.call /\ At(statusT, w).attempt + 1 = m.attempt + 1
        BY <3>1, <3>2, Fields DEF Same
      <4>2. At(statusT, w).attempt \in Nat
        BY <3>2, FlowTypes
      <4> QED BY <1>3, <4>1, <4>2 DEF Same
    <3> QED BY <1>3, <3>2, <3>3 DEF Holds
  <2>5. ~Holds(retryT, RetryOf(m))'
    BY <1>4, <2>4
  <2> QED BY <1>1, <1>3, <2>1, <2>2, <2>3, <2>5 DEF StatusFlow
<1>9. \A x \in Places(statusT)' : StatusFlow(x)'
  BY <1>1, <1>7, <1>8 DEF Grown
<1>10. \A c \in Calls : RowFlow(c)'
  BY <1>1, <1>4 DEF Grown, MessageFlow, RowFlow
<1>11. \A r \in attemptRows' : \E x \in Places(statusT)' : AttemptRow(At(statusT, x))' = r
  BY <1>1 DEF Grown, MessageFlow
<1> QED BY <1>4, <1>5, <1>6, <1>9, <1>10, <1>11 DEF MessageFlow

\* An attempt that has been followed by another was retryable, and all is done for it.
LEMMA EarlierDone ==
  ASSUME PipelineInv, MessageFlow, NEW x \in Places(statusT), NEW w \in Places(dispatchT),
         At(dispatchT, w).call = At(statusT, x).call,
         At(dispatchT, w).attempt = At(statusT, x).attempt + 1
  PROVE  Done(x) = 4 /\ At(statusT, x).retryable
<1>1. At(statusT, x).attempt \in Nat /\ At(statusT, x).attempt >= 1
  BY FlowTypes
<1>2. Holds(retryT, At(dispatchT, w))
  BY <1>1 DEF MessageFlow, DispatchFlow
<1>3. Holds(retryT, RetryOf(At(statusT, x)))
  BY <1>2, Fields DEF Holds, Same
<1> QED BY <1>3 DEF MessageFlow, StatusFlow

\* The row of a call shows its next attempt.
LEMMA UpdateKeepsFlow ==
  ASSUME PipelineInv, MessageFlow, NEW z, Updated(z)
  PROVE  MessageFlow'
<1> DEFINE s == At(statusT, z)
           c == s.call
           n == calls[c].attempts
<1>1. /\ Kept(dispatchT, dispatchT') /\ Kept(statusT, statusT') /\ Kept(retryT, retryT')
      /\ UNCHANGED <<attemptRows, trig>> /\ calls' = UpdatedCalls(s)
      /\ z \in Places(statusT) /\ Done(z) = 0 /\ Done(z)' = 1
      /\ \A x \in Places(dispatchT) : Unpublished(x)' <=> Unpublished(x)
      /\ \A x \in Places(retryT) : Unsent(x)' <=> Unsent(x)
      /\ \A x \in Places(statusT) : x # z => Done(x)' = Done(x)
  BY DEF Updated, StatusStep, SameDispatch, SameRetry
<1>2. StatusFlow(z) /\ c \in Calls /\ s.attempt \in Nat /\ s.attempt >= 1 /\ n \in Nat
      /\ s.status \in FinalStatuses
  BY <1>1, FlowTypes DEF MessageFlow
<1>3. s.attempt = n + 1 /\ Holds(dispatchT, s) /\ AttemptRow(s) \notin attemptRows
      /\ ~Holds(retryT, RetryOf(s))
  BY <1>1, <1>2 DEF StatusFlow
<1>4. trig[c] = "accepted"
  BY <1>2, <1>3, Untouched DEF Holds, Same
<1>5. /\ calls'[c] = [status |-> s.status, attempts |-> s.attempt]
      /\ \A b \in Calls \ {c} : calls'[b] = calls[b]
  <2>1. calls[c].status # "absent"
    BY <1>2, <1>4 DEF MessageFlow, RowFlow
  <2> QED BY <1>1, <1>2, <2>1, FlowTypes DEF UpdatedCalls
<1>6. calls'[c].attempts = n + 1 /\ calls'[c].status = s.status
  BY <1>3, <1>5
<1>7. /\ \A m : Holds(dispatchT, m)' <=> Holds(dispatchT, m)
      /\ \A m : Holds(statusT, m)' <=> Holds(statusT, m)
      /\ \A m : Holds(retryT, m)' <=> Holds(retryT, m)
      /\ OnceEach(dispatchT)' /\ OnceEach(statusT)' /\ OnceEach(retryT)'
  BY <1>1, HoldsKept DEF MessageFlow
<1>8. \A x \in Places(dispatchT) : Unpublished(x) => At(dispatchT, x).call # c
  <2> SUFFICES ASSUME NEW x \in Places(dispatchT), Unpublished(x), At(dispatchT, x).call = c
               PROVE  FALSE
    OBVIOUS
  <2>1. At(dispatchT, x).attempt = n + 1 /\ ~Holds(statusT, At(dispatchT, x))
    BY DEF MessageFlow, DispatchFlow
  <2> QED BY <1>1, <1>3, <2>1 DEF Holds, Same
<1>9. \A x \in Places(retryT) : Unsent(x) => At(retryT, x).call # c
  <2> SUFFICES ASSUME NEW x \in Places(retryT), Unsent(x), At(retryT, x).call = c
               PROVE  FALSE
    OBVIOUS
  <2>1. At(retryT, x).attempt = n + 1 /\ ~Holds(dispatchT, At(retryT, x))
    BY DEF MessageFlow, RetryFlow
  <2> QED BY <1>3, <2>1 DEF Holds, Same
<1>10. \A x \in Places(statusT) : x # z /\ At(statusT, x).call = c =>
           Done(x) = 4 /\ At(statusT, x).attempt <= n
  <2> SUFFICES ASSUME NEW x \in Places(statusT), x # z, At(statusT, x).call = c
               PROVE  Done(x) = 4 /\ At(statusT, x).attempt <= n
    OBVIOUS
  <2>1. StatusFlow(x) /\ At(statusT, x).attempt \in Nat /\ Done(x) \in 0..4
    BY FlowTypes DEF MessageFlow
  <2>2. Done(x) # 0
    <3>1. At(statusT, x).attempt # s.attempt
      BY <1>1 DEF MessageFlow, OnceEach, Same
    <3> QED BY <1>3, <2>1, <3>1 DEF StatusFlow
  <2>3. At(statusT, x).attempt <= n
    BY <2>1, <2>2 DEF StatusFlow
  <2>4. Done(x) \notin 1..3
    <3>1. SUFFICES ASSUME At(statusT, x).attempt = n PROVE Done(x) = 4
      BY <2>1 DEF StatusFlow
    <3>2. PICK w \in Places(dispatchT) : Same(At(dispatchT, w), s)
      BY <1>3 DEF Holds
    <3> QED BY <1>3, <3>1, <3>2, EarlierDone DEF Same
  <2> QED BY <2>1, <2>2, <2>3, <2>4
<1> HIDE DEF s, c, n
<1>11. \A x \in Places(dispatchT)' : DispatchFlow(x)'
  <2>1. \A x \in Places(dispatchT) : Unpublished(x) => At(dispatchT, x).call \in Calls \ {c}
    BY <1>8, FlowTypes
  <2> QED BY <1>1, <1>5, <1>7, <2>1 DEF Kept, MessageFlow, DispatchFlow
<1>12. \A x \in Places(retryT)' : RetryFlow(x)'
  <2>1. \A x \in Places(retryT) : Unsent(x) => At(retryT, x).call \in Calls \ {c}
    BY <1>9, FlowTypes
  <2> QED BY <1>1, <1>5, <1>7, <2>1 DEF Kept, MessageFlow, RetryFlow
<1>13. \A x \in Places(statusT)' : StatusFlow(x)'
  <2>1. StatusFlow(z)'
    <3>1. At(statusT, z)' = s
      BY <1>1 DEF Kept, s
    <3>2. calls'[s.call].attempts = s.attempt /\ calls'[s.call].status = s.status
      BY <1>3, <1>6 DEF c
    <3> QED BY <1>1, <1>2, <1>3, <1>7, <3>1, <3>2 DEF StatusFlow, s
  <2>2. ASSUME NEW x \in Places(statusT), x # z, At(statusT, x).call = c
        PROVE  StatusFlow(x)'
    <3>1. StatusFlow(x) /\ Done(x) = 4 /\ Done(x)' = 4 /\ At(statusT, x).attempt <= n
      BY <1>1, <1>10, <2>2 DEF MessageFlow
    <3>2. At(statusT, x)' = At(statusT, x) /\ At(statusT, x).attempt \in Nat
      BY <1>1, FlowTypes DEF Kept
    <3>3. calls'[At(statusT, x).call].attempts = n + 1
      BY <1>6, <2>2
    <3> QED BY <1>1, <1>2, <1>7, <3>1, <3>2, <3>3 DEF StatusFlow
  <2>3. ASSUME NEW x \in Places(statusT), x # z, At(statusT, x).call # c
        PROVE  StatusFlow(x)'
    <3>1. StatusFlow(x) /\ Done(x)' = Done(x) /\ At(statusT, x)' = At(statusT, x)
      BY <1>1, <2>3 DEF MessageFlow, Kept
    <3>2. calls'[At(statusT, x).call] = calls[At(statusT, x).call]
      BY <1>5, <2>3, FlowTypes
    <3> QED BY <1>1, <1>7, <3>1, <3>2 DEF StatusFlow
  <2> QED BY <1>1, <2>1, <2>2, <2>3 DEF Kept
<1>14. \A b \in Calls : RowFlow(b)'
  <2>1. ASSUME NEW b \in Calls, b # c PROVE RowFlow(b)'
    BY <1>1, <1>5, <1>7, <2>1 DEF Kept, MessageFlow, RowFlow
  <2>2. ASSUME NEW b \in Calls, b = c PROVE RowFlow(b)'
    <3>1. RowFlow(b) /\ calls[b].attempts = n
      BY <2>2 DEF MessageFlow, n
    <3>2. ASSUME NEW i \in 1..(n + 1)
          PROVE  \E x \in Places(statusT) : At(statusT, x).call = b /\ At(statusT, x).attempt = i
      <4>1. CASE i = n + 1
        BY <1>1, <1>3, <2>2, <4>1 DEF c, s
      <4>2. CASE i \in 1..n
        BY <3>1, <4>2 DEF RowFlow
      <4> QED BY <1>2, <4>1, <4>2
    <3>3. \A i \in 1..calls'[b].attempts : \E x \in Places(statusT)' :
             At(statusT, x)'.call = b /\ At(statusT, x)'.attempt = i
      BY <1>1, <1>6, <2>2, <3>2 DEF Kept
    <3>4. calls'[b].attempts # 0 /\ calls'[b].status \in FinalStatuses /\ calls'[b].status # "absent"
      BY <1>2, <1>6, <2>2 DEF FinalStatuses
    <3>5. trig[b] = "accepted" /\ trig'[b] = "accepted"
      BY <1>1, <1>4, <2>2
    <3>6. Holds(dispatchT, FirstDispatch(b))'
      BY <1>7, <3>1, <3>5 DEF RowFlow
    <3> QED BY <3>3, <3>4, <3>5, <3>6 DEF RowFlow
  <2> QED BY <2>1, <2>2
<1>15. \A r \in attemptRows' : \E x \in Places(statusT)' : AttemptRow(At(statusT, x))' = r
  BY <1>1 DEF Kept, MessageFlow
<1> QED BY <1>7, <1>11, <1>12, <1>13, <1>14, <1>15 DEF MessageFlow

\* The attempt is recorded.
LEMMA RecordKeepsFlow ==
  ASSUME PipelineInv, MessageFlow, NEW z, Recorded(z)
  PROVE  MessageFlow'
<1> DEFINE s == At(statusT, z)
<1>1. /\ Kept(dispatchT, dispatchT') /\ Kept(statusT, statusT') /\ Kept(retryT, retryT')
      /\ UNCHANGED <<calls, trig>> /\ attemptRows' = attemptRows \cup {AttemptRow(s)}
      /\ z \in Places(statusT) /\ Done(z) = 1 /\ Done(z)' = 2
      /\ \A x \in Places(dispatchT) : Unpublished(x)' <=> Unpublished(x)
      /\ \A x \in Places(retryT) : Unsent(x)' <=> Unsent(x)
      /\ \A x \in Places(statusT) : x # z => Done(x)' = Done(x)
  BY DEF Recorded, StatusStep, SameDispatch, SameRetry
<1>2. /\ \A m : Holds(dispatchT, m)' <=> Holds(dispatchT, m)
      /\ \A m : Holds(statusT, m)' <=> Holds(statusT, m)
      /\ \A m : Holds(retryT, m)' <=> Holds(retryT, m)
      /\ OnceEach(dispatchT)' /\ OnceEach(statusT)' /\ OnceEach(retryT)'
  BY <1>1, HoldsKept DEF MessageFlow
<1>3. \A x \in Places(statusT) : x # z => AttemptRow(At(statusT, x)) # AttemptRow(s)
  BY <1>1 DEF MessageFlow, OnceEach, Same, AttemptRow
<1>4. \A x \in Places(dispatchT)' : DispatchFlow(x)'
  BY <1>1, <1>2 DEF Kept, MessageFlow, DispatchFlow
<1>5. \A x \in Places(retryT)' : RetryFlow(x)'
  BY <1>1, <1>2 DEF Kept, MessageFlow, RetryFlow
<1>6. \A x \in Places(statusT)' : StatusFlow(x)'
  <2>1. ASSUME NEW x \in Places(statusT), x # z PROVE StatusFlow(x)'
    <3>1. StatusFlow(x) /\ Done(x)' = Done(x) /\ At(statusT, x)' = At(statusT, x)
      BY <1>1, <2>1 DEF MessageFlow, Kept
    <3>2. AttemptRow(At(statusT, x)) \in attemptRows' <=> AttemptRow(At(statusT, x)) \in attemptRows
      BY <1>1, <1>3, <2>1
    <3> QED BY <1>1, <1>2, <3>1, <3>2 DEF StatusFlow
  <2>2. StatusFlow(z)'
    <3>1. StatusFlow(z) /\ At(statusT, z)' = At(statusT, z)
      BY <1>1 DEF MessageFlow, Kept
    <3>2. AttemptRow(At(statusT, z)) \in attemptRows'
      BY <1>1
    <3> QED BY <1>1, <1>2, <3>1, <3>2 DEF StatusFlow
  <2> QED BY <1>1, <2>1, <2>2 DEF Kept
<1>7. \A c \in Calls : RowFlow(c)'
  BY <1>1, <1>2 DEF Kept, MessageFlow, RowFlow
<1>8. \A r \in attemptRows' : \E x \in Places(statusT)' : AttemptRow(At(statusT, x))' = r
  BY <1>1 DEF Kept, MessageFlow
<1> QED BY <1>2, <1>4, <1>5, <1>6, <1>7, <1>8 DEF MessageFlow

\* Messages whose retries are about the same attempt are about the same attempt.
LEMMA RetriedSame ==
  ASSUME NEW a, NEW b, a.attempt \in Nat, b.attempt \in Nat, Same(RetryOf(a), RetryOf(b))
  PROVE  Same(a, b)
<1>1. a.call = b.call /\ a.attempt + 1 = b.attempt + 1
  BY Fields DEF Same
<1> QED BY <1>1 DEF Same

\* A status that asks for no retry, or for one no topic takes, is done.
LEMMA EndKeepsFlow ==
  ASSUME PipelineInv, MessageFlow, NEW z, NotScheduled(z)
  PROVE  MessageFlow'
<1>1. /\ Kept(dispatchT, dispatchT') /\ Kept(statusT, statusT') /\ Kept(retryT, retryT')
      /\ UNCHANGED <<calls, attemptRows, trig>>
      /\ z \in Places(statusT) /\ Done(z) = 3 /\ Done(z)' = 4
      /\ ~(At(statusT, z).retryable /\ HasRetryTopic(At(statusT, z).attempt))
      /\ \A x \in Places(dispatchT) : Unpublished(x)' <=> Unpublished(x)
      /\ \A x \in Places(retryT) : Unsent(x)' <=> Unsent(x)
      /\ \A x \in Places(statusT) : x # z => Done(x)' = Done(x)
  BY DEF NotScheduled, StatusStep, SameDispatch, SameRetry
<1>2. /\ \A m : Holds(dispatchT, m)' <=> Holds(dispatchT, m)
      /\ \A m : Holds(statusT, m)' <=> Holds(statusT, m)
      /\ \A m : Holds(retryT, m)' <=> Holds(retryT, m)
      /\ OnceEach(dispatchT)' /\ OnceEach(statusT)' /\ OnceEach(retryT)'
  BY <1>1, HoldsKept DEF MessageFlow
<1>3. \A x \in Places(dispatchT)' : DispatchFlow(x)'
  BY <1>1, <1>2 DEF Kept, MessageFlow, DispatchFlow
<1>4. \A x \in Places(retryT)' : RetryFlow(x)'
  BY <1>1, <1>2 DEF Kept, MessageFlow, RetryFlow
<1>5. \A x \in Places(statusT)' : StatusFlow(x)'
  <2>1. ASSUME NEW x \in Places(statusT), x # z PROVE StatusFlow(x)'
    <3>1. StatusFlow(x) /\ Done(x)' = Done(x) /\ At(statusT, x)' = At(statusT, x)
      BY <1>1, <2>1 DEF MessageFlow, Kept
    <3> QED BY <1>1, <1>2, <3>1 DEF StatusFlow
  <2>2. StatusFlow(z)'
    <3>1. StatusFlow(z) /\ At(statusT, z)' = At(statusT, z)
      BY <1>1 DEF MessageFlow, Kept
    <3> QED BY <1>1, <1>2, <3>1 DEF StatusFlow
  <2> QED BY <1>1, <2>1, <2>2 DEF Kept
<1>6. \A c \in Calls : RowFlow(c)'
  BY <1>1, <1>2 DEF Kept, MessageFlow, RowFlow
<1>7. \A r \in attemptRows' : \E x \in Places(statusT)' : AttemptRow(At(statusT, x))' = r
  BY <1>1 DEF Kept, MessageFlow
<1> QED BY <1>2, <1>3, <1>4, <1>5, <1>6, <1>7 DEF MessageFlow

\* A retry is scheduled.
LEMMA ScheduleKeepsFlow ==
  ASSUME PipelineInv, MessageFlow, NEW z, NEW y, Scheduled(z, y)
  PROVE  MessageFlow'
<1>0. PICK s : s = At(statusT, z)
  OBVIOUS
<1>1. /\ Kept(dispatchT, dispatchT') /\ Kept(statusT, statusT')
      /\ Grown(retryT, retryT', y, RetryOf(s)) /\ Unsent(y)'
      /\ UNCHANGED <<calls, attemptRows, trig>>
      /\ z \in Places(statusT) /\ Done(z) = 3 /\ Done(z)' = 4
      /\ s.retryable /\ HasRetryTopic(s.attempt)
      /\ \A x \in Places(dispatchT) : Unpublished(x)' <=> Unpublished(x)
      /\ \A x \in Places(retryT) : Unsent(x)' <=> Unsent(x)
      /\ \A x \in Places(statusT) : x # z => Done(x)' = Done(x)
  BY <1>0 DEF Scheduled, StatusStep, SameDispatch, RetryAdds
<1>2. /\ StatusFlow(z) /\ s.call \in Calls /\ s.attempt \in Nat /\ s.attempt >= 1
  BY <1>0, <1>1, FlowTypes DEF MessageFlow
<1>3. ~Holds(retryT, RetryOf(s)) /\ s.attempt = calls[s.call].attempts
  BY <1>0, <1>1, <1>2 DEF StatusFlow
<1>4. /\ \A m : Holds(dispatchT, m)' <=> Holds(dispatchT, m)
      /\ \A m : Holds(statusT, m)' <=> Holds(statusT, m)
      /\ \A m : Holds(retryT, m)' <=> Holds(retryT, m) \/ Same(RetryOf(s), m)
      /\ OnceEach(dispatchT)' /\ OnceEach(statusT)' /\ OnceEach(retryT)'
  BY <1>1, <1>3, HoldsKept, HoldsGrown DEF MessageFlow
<1>5. \A x \in Places(dispatchT)' : DispatchFlow(x)'
  BY <1>1, <1>4 DEF Kept, MessageFlow, DispatchFlow
<1>6. \A x \in Places(retryT) : RetryFlow(x)'
  BY <1>1, <1>4 DEF Grown, Kept, MessageFlow, RetryFlow
<1>7. RetryFlow(y)'
  <2>1. At(retryT, y)' = RetryOf(s)
    BY <1>1 DEF Grown
  <2>2. ~Holds(dispatchT, RetryOf(s))
    <3>1. SUFFICES ASSUME NEW w \in Places(dispatchT), Same(At(dispatchT, w), RetryOf(s)) PROVE FALSE
      BY DEF Holds
    <3>2. At(dispatchT, w).call = s.call /\ At(dispatchT, w).attempt = s.attempt + 1
      BY <3>1, Fields DEF Same
    <3>3. Done(z) = 4
      BY <1>0, <1>1, <3>2, EarlierDone
    <3> QED BY <1>1, <3>3
  <2>3. RetryOf(s).call = s.call /\ RetryOf(s).attempt = s.attempt + 1
    BY Fields
  <2>4. At(statusT, z)' = s /\ z \in Places(statusT)'
    BY <1>0, <1>1 DEF Kept
  <2>5. \E x \in Places(statusT)' : At(statusT, x)'.retryable /\ Same(RetryOf(s), RetryOf(At(statusT, x)'))
    BY <1>1, <2>4 DEF Same
  <2> QED BY <1>1, <1>3, <1>4, <2>1, <2>2, <2>3, <2>5 DEF RetryFlow
<1>8. \A x \in Places(retryT)' : RetryFlow(x)'
  BY <1>1, <1>6, <1>7 DEF Grown
<1>9. \A x \in Places(statusT)' : StatusFlow(x)'
  <2>1. ASSUME NEW x \in Places(statusT), x # z PROVE StatusFlow(x)'
    <3>1. StatusFlow(x) /\ Done(x)' = Done(x) /\ At(statusT, x)' = At(statusT, x)
      BY <1>1, <2>1 DEF MessageFlow, Kept
    <3>2. ~Same(RetryOf(s), RetryOf(At(statusT, x)))
      <4>1. ~Same(s, At(statusT, x))
        BY <1>0, <1>1, <2>1 DEF MessageFlow, OnceEach
      <4>2. At(statusT, x).attempt \in Nat
        BY FlowTypes
      <4> QED BY <1>2, <4>1, <4>2, RetriedSame
    <3>3. Holds(retryT, RetryOf(At(statusT, x)))' <=> Holds(retryT, RetryOf(At(statusT, x)))
      BY <1>4, <3>1, <3>2
    <3> QED BY <1>1, <1>4, <3>1, <3>3 DEF StatusFlow
  <2>2. StatusFlow(z)'
    <3>1. At(statusT, z)' = s /\ At(statusT, z) = s
      BY <1>0, <1>1 DEF Kept
    <3>2. Holds(retryT, RetryOf(s))'
      BY <1>4 DEF Same
    <3> QED BY <1>1, <1>2, <1>4, <3>1, <3>2 DEF StatusFlow
  <2> QED BY <1>1, <2>1, <2>2 DEF Kept
<1>10. \A c \in Calls : RowFlow(c)'
  BY <1>1, <1>4 DEF Kept, MessageFlow, RowFlow
<1>11. \A r \in attemptRows' : \E x \in Places(statusT)' : AttemptRow(At(statusT, x))' = r
  BY <1>1 DEF Kept, MessageFlow
<1> QED BY <1>4, <1>5, <1>8, <1>9, <1>10, <1>11 DEF MessageFlow

\* A retry is dispatched.
LEMMA SendKeepsFlow ==
  ASSUME PipelineInv, MessageFlow, NEW z, NEW y, Sent(z, y)
  PROVE  MessageFlow'
<1>0. PICK r : r = At(retryT, z)
  OBVIOUS
<1> DEFINE d == Redispatch(r)
<1>1. /\ Grown(dispatchT, dispatchT', y, d) /\ Kept(statusT, statusT') /\ Kept(retryT, retryT')
      /\ UNCHANGED <<calls, attemptRows, trig>>
      /\ z \in Places(retryT) /\ Unsent(z) /\ ~Unsent(z)' /\ Unpublished(y)'
      /\ \A x \in Places(dispatchT) : Unpublished(x)' <=> Unpublished(x)
      /\ \A x \in Places(retryT) : x # z => (Unsent(x)' <=> Unsent(x))
      /\ \A x \in Places(statusT) : Done(x)' = Done(x)
  BY <1>0 DEF Sent, RetryDone, DispatchAdds, SameStatus
<1>2. d.call = r.call /\ d.attempt = r.attempt /\ d.maxAttempts = 0
  BY Fields
<1> HIDE DEF d
<1>3. RetryFlow(z) /\ r.call \in Calls /\ r.attempt \in Nat /\ r.attempt > 1
  BY <1>0, <1>1, FlowTypes DEF MessageFlow
<1>4. ~Holds(dispatchT, d) /\ r.attempt = calls[r.call].attempts + 1
  BY <1>0, <1>1, <1>2, <1>3 DEF RetryFlow, Holds, Same
<1>5. ~Holds(statusT, d)
  BY <1>4 DEF MessageFlow, StatusFlow, Holds, Same
<1>6. trig[r.call] = "accepted"
  BY <1>0, <1>1, <1>3, Untouched
<1>7. /\ \A m : Holds(dispatchT, m)' <=> Holds(dispatchT, m) \/ Same(d, m)
      /\ \A m : Holds(statusT, m)' <=> Holds(statusT, m)
      /\ \A m : Holds(retryT, m)' <=> Holds(retryT, m)
      /\ OnceEach(dispatchT)' /\ OnceEach(statusT)' /\ OnceEach(retryT)'
  BY <1>1, <1>4, HoldsKept, HoldsGrown DEF MessageFlow
<1>8. \A x \in Places(dispatchT) : DispatchFlow(x)'
  BY <1>1, <1>7 DEF Grown, MessageFlow, DispatchFlow
<1>9. DispatchFlow(y)'
  <2>1. At(dispatchT, y)' = d
    BY <1>1 DEF Grown
  <2>2. Holds(retryT, d)'
    BY <1>0, <1>1, <1>2, <1>7 DEF Holds, Same
  <2> QED BY <1>1, <1>2, <1>4, <1>5, <1>6, <1>7, <2>1, <2>2 DEF DispatchFlow
<1>10. \A x \in Places(dispatchT)' : DispatchFlow(x)'
  BY <1>1, <1>8, <1>9 DEF Grown
<1>11. \A x \in Places(retryT)' : RetryFlow(x)'
  <2>1. ASSUME NEW x \in Places(retryT), x # z PROVE RetryFlow(x)'
    <3>1. RetryFlow(x) /\ At(retryT, x)' = At(retryT, x) /\ (Unsent(x)' <=> Unsent(x))
      BY <1>1, <2>1 DEF MessageFlow, Kept
    <3>2. ~Same(d, At(retryT, x))
      BY <1>0, <1>1, <1>2, <2>1 DEF MessageFlow, OnceEach, Same
    <3> QED BY <1>1, <1>7, <3>1, <3>2 DEF RetryFlow, Kept
  <2>2. RetryFlow(z)'
    <3>1. At(retryT, z)' = r /\ At(retryT, z) = r
      BY <1>0, <1>1 DEF Kept
    <3>2. Holds(dispatchT, r)'
      BY <1>2, <1>7 DEF Same
    <3> QED BY <1>1, <1>3, <1>7, <3>1, <3>2 DEF RetryFlow, Kept
  <2> QED BY <1>1, <2>1, <2>2 DEF Kept
<1>12. \A x \in Places(statusT)' : StatusFlow(x)'
  BY <1>1, <1>7 DEF Kept, MessageFlow, StatusFlow
<1>13. \A c \in Calls : RowFlow(c)'
  BY <1>1, <1>7 DEF Kept, MessageFlow, RowFlow
<1>14. \A q \in attemptRows' : \E x \in Places(statusT)' : AttemptRow(At(statusT, x))' = q
  BY <1>1 DEF Kept, MessageFlow
<1> QED BY <1>7, <1>10, <1>11, <1>12, <1>13, <1>14 DEF MessageFlow

\* The invariant of fault-free operation.
LEMMA NextKeepsFlow ==
  ASSUME PipelineInv, UNCHANGED faults, FlowInv, [Next]_vars
  PROVE  FlowInv' /\ FlowStep
<1>1. LimitGone
  BY DEF FlowInv, MessageFlow, DispatchFlow, LimitGone
<1>2. \A c \in Calls : trig[c] # "undo"
  BY DEF FlowInv, MessageFlow, RowFlow
<1>3. FlowStep /\ OutcomeFlow' /\ stopping' = {}
  BY <1>1, <1>2, StepFlows DEF FlowInv
<1>4. MessageFlow
  BY DEF FlowInv
<1>5. MessageFlow'
  BY <1>3, <1>4, QuietKeeps, TriggerKeepsFlow, EnqueueKeepsFlow, PublishKeepsFlow, UpdateKeepsFlow,
     RecordKeepsFlow, EndKeepsFlow, ScheduleKeepsFlow, SendKeepsFlow DEF FlowStep
<1> QED BY <1>3, <1>5 DEF FlowInv

\* At first there is no message.
LEMMA InitFlow == Init => FlowInv
<1> SUFFICES ASSUME Init PROVE FlowInv
  OBVIOUS
<1>1. Places(dispatchT) = {} /\ Places(statusT) = {} /\ Places(retryT) = {}
  BY DEF Init, EmptyPartition, Places
<1>2. OutcomeFlow
  BY DEF Init, OutcomeFlow
<1>3. \A c \in Calls : RowFlow(c)
  BY DEF Init, RowFlow, FinalStatuses
<1>4. attemptRows = {} /\ stopping = {}
  BY DEF Init
<1> QED BY <1>1, <1>2, <1>3, <1>4 DEF FlowInv, MessageFlow, OnceEach

\* A list of faults that is empty after a step was empty before.
LEMMA FirstFault ==
  ASSUME PipelineInv, [Next]_vars, faults' = <<>>
  PROVE  UNCHANGED faults
<1>1. ASSUME NEW k \in FaultKinds, Fault(k) PROVE FALSE
  <2>1. faults \in FaultLists /\ faults' = Append(faults, k) /\ k \in AllFaultKinds
    BY <1>1, ConstantsAssumption DEF PipelineInv, StoreInv, Fault
  <2>2. Len(faults') = Len(faults) + 1 /\ Len(faults) \in Nat
    BY <2>1 DEF FaultLists
  <2>3. Len(faults') = 0
    OBVIOUS
  <2> QED BY <2>2, <2>3
<1> QED BY <1>1, StepFaults

FlowUntilFault == faults = <<>> => FlowInv

\* While nothing fails every attempt has one message on each topic at most, and its messages
\* agree with the stores.
THEOREM FlowInvariant == Spec => [](PipelineInv /\ FlowUntilFault)
<1>1. Init => PipelineInv /\ FlowUntilFault
  BY InitPipeline, InitFlow DEF FlowUntilFault
<1>2. PipelineInv /\ FlowUntilFault /\ [Next]_vars => (PipelineInv /\ FlowUntilFault)'
  <2> SUFFICES ASSUME PipelineInv, FlowUntilFault, [Next]_vars, faults' = <<>>
               PROVE  PipelineInv' /\ FlowInv'
    BY NextKeepsPipeline DEF FlowUntilFault
  <2>1. UNCHANGED faults
    BY FirstFault
  <2> QED BY <2>1, NextKeepsPipeline, NextKeepsFlow DEF FlowUntilFault
<1> QED BY <1>1, <1>2, PTL DEF Spec

\* Where nothing can fail, nothing has.
LEMMA FaultlessFlow ==
  ASSUME FaultKinds = {}
  PROVE  Spec => [](PipelineInv /\ FlowInv /\ faults = <<>>)
<1>1. Init => faults = <<>>
  BY DEF Init
<1>2. faults = <<>> /\ [Next]_vars => (faults = <<>>)'
  BY StepFaults
<1>3. PipelineInv /\ FlowUntilFault /\ faults = <<>> => PipelineInv /\ FlowInv /\ faults = <<>>
  BY DEF FlowUntilFault
<1> QED BY <1>1, <1>2, <1>3, FlowInvariant, PTL DEF Spec

\* Whatever is redelivered and whatever fails, no attempt is numbered beyond the retry policy
\* (worker/call line 110), and until something fails a call is dispatched at most as often as
\* its policy allows.
THEOREM WithinBudget == Spec => []AttemptBudget
<1>1. ASSUME PipelineInv, NEW m \in Written(dispatchT) PROVE m.attempt \in 1..Allowed(m.call)
  <2>1. dispatchT \in Topics(DispatchParts, BudgetedDispatch)
    BY <1>1 DEF PipelineInv, DispatchInv, OrderedTopics
  <2>2. m \in BudgetedDispatch
    BY <1>1, <2>1, WrittenMember
  <2>3. /\ m.call \in Calls /\ m.attempt \in Nat /\ m.attempt >= 1
        /\ m.attempt = 1 \/ m.attempt <= MaxAttempts[m.call]
    BY <2>2 DEF BudgetedDispatch, DispatchMessage
  <2>4. MaxAttempts[m.call] \in Nat
    BY <2>3, ConstantsAssumption
  <2> QED BY <2>3, <2>4 DEF Allowed
<1>2. ASSUME PipelineInv, FlowInv, NEW c \in Calls
      PROVE  Cardinality(DispatchesOf(c)) <= Allowed(c)
  <2>1. dispatchT \in OrderedTopics(DispatchParts, BudgetedDispatch) /\ DOMAIN dispatchT = DispatchParts
    BY <1>2 DEF PipelineInv, DispatchInv, OrderedTopics, Topics
  <2>2. ASSUME NEW x \in DispatchesOf(c)
        PROVE  /\ x \in Places(dispatchT) /\ At(dispatchT, x).call = c
               /\ At(dispatchT, x).attempt \in 1..Allowed(c)
    <3>1. PICK p \in DispatchParts : \E i \in DOMAIN dispatchT[p].log :
             x = <<p, i>> /\ dispatchT[p].log[i].call = c
      BY DEF DispatchesOf
    <3>2. PICK i \in DOMAIN dispatchT[p].log : x = <<p, i>> /\ dispatchT[p].log[i].call = c
      BY <3>1
    <3>3. x \in Places(dispatchT) /\ At(dispatchT, x).call = c
      BY <2>1, <3>2 DEF Places, At
    <3>4. At(dispatchT, x) \in Written(dispatchT)
      BY <2>1, <3>3, PlaceFacts
    <3> QED BY <1>1, <1>2, <3>3, <3>4
  <2>3. \A x, y \in DispatchesOf(c) : At(dispatchT, x).attempt = At(dispatchT, y).attempt => x = y
    BY <1>2, <2>2 DEF FlowInv, MessageFlow, OnceEach, Same
  <2> DEFINE f == [x \in DispatchesOf(c) |-> At(dispatchT, x).attempt]
  <2>4. f \in Injection(DispatchesOf(c), 1..Allowed(c))
    BY <2>2, <2>3 DEF Injection, IsInjective
  <2>5. Allowed(c) \in Nat
    BY ConstantsAssumption DEF Allowed
  <2>6. IsFiniteSet(1..Allowed(c)) /\ Cardinality(1..Allowed(c)) = Allowed(c)
    BY <2>5, FS_Interval
  <2> QED BY <2>4, <2>6, FS_Injection
<1>3. PipelineInv /\ FlowUntilFault => AttemptBudget
  BY <1>1, <1>2 DEF AttemptBudget, FlowUntilFault
<1> QED BY <1>3, FlowInvariant, PTL

-----------------------------------------------------------------------------
(* The pipeline follows the lifecycle *)

\* The last outcome of a call, by its place.
LEMMA SettledAt ==
  ASSUME PipelineInv, MessageFlow, NEW c \in Calls
  PROVE  Settled(c) <=> \E x \in Places(statusT) : /\ At(statusT, x).call = c
                                                    /\ ~At(statusT, x).retryable
                                                    /\ At(statusT, x).attempt = calls[c].attempts
<1>1. statusT \in OrderedTopics(StatusParts, BudgetedStatus)
  BY Typed
<1>2. calls[c] = [status |-> calls[c].status, attempts |-> calls[c].attempts]
  BY FlowTypes DEF CallRow
<1>3. ASSUME Settled(c)
      PROVE  \E x \in Places(statusT) : /\ At(statusT, x).call = c /\ ~At(statusT, x).retryable
                                        /\ At(statusT, x).attempt = calls[c].attempts
  <2>1. PICK m \in Written(statusT) : /\ m.call = c /\ ~m.retryable
                                      /\ calls[c] = [status |-> m.status, attempts |-> m.attempt]
    BY <1>3 DEF Settled
  <2>2. PICK x \in Places(statusT) : At(statusT, x) = m
    BY <1>1, PlaceFacts
  <2> QED BY <2>1, <2>2
<1>4. ASSUME NEW x \in Places(statusT), At(statusT, x).call = c, ~At(statusT, x).retryable,
             At(statusT, x).attempt = calls[c].attempts
      PROVE  Settled(c)
  <2>1. At(statusT, x).status = calls[c].status
    BY <1>4 DEF MessageFlow, StatusFlow
  <2>2. At(statusT, x) \in Written(statusT)
    BY <1>1, PlaceFacts
  <2>3. calls[c] = [status |-> At(statusT, x).status, attempts |-> At(statusT, x).attempt]
    BY <1>2, <1>4, <2>1
  <2> QED BY <1>4, <2>2, <2>3 DEF Settled
<1> QED BY <1>3, <1>4

\* The same before and after a step.
SettledPlace ==
  \A c \in Calls : Settled(c) <=> \E x \in Places(statusT) : /\ At(statusT, x).call = c
                                                             /\ ~At(statusT, x).retryable
                                                             /\ At(statusT, x).attempt = calls[c].attempts

\* It holds in a state.
LEMMA SettledPlaces == PipelineInv /\ MessageFlow => SettledPlace
BY SettledAt DEF SettledPlace

\* It holds in the next one.
LEMMA SettledPlacesNext == (PipelineInv /\ MessageFlow => SettledPlace)'
BY SettledPlaces, PTL

\* Steps that write no row settle no call.
LEMMA RowsKeepSettled ==
  ASSUME PipelineInv, PipelineInv', MessageFlow, MessageFlow', UNCHANGED calls,
         Kept(statusT, statusT') \/ \E z, y, m : Published(z, y, m), NEW c \in Calls
  PROVE  Settled(c)' <=> Settled(c)
<1> DEFINE at(x) == /\ At(statusT, x).call = c /\ ~At(statusT, x).retryable
                    /\ At(statusT, x).attempt = calls[c].attempts
<1>1. Settled(c) <=> \E x \in Places(statusT) : at(x)
  BY SettledAt
<1>2. Settled(c)' <=> \E x \in Places(statusT)' : at(x)'
  BY SettledPlacesNext DEF SettledPlace
<1>3. CASE Kept(statusT, statusT')
  BY <1>1, <1>2, <1>3 DEF Kept
<1>4. ASSUME NEW z, NEW y, NEW m, Published(z, y, m)
      PROVE  Settled(c)' <=> Settled(c)
  <2>1. Grown(statusT, statusT', y, m) /\ z \in Places(dispatchT) /\ Unpublished(z)
        /\ Same(m, At(dispatchT, z))
    BY <1>4 DEF Published, StatusAdds, DispatchDone
  <2>2. m.call = c => m.attempt = calls[c].attempts + 1 /\ calls[c].attempts \in Nat
    BY <2>1, FlowTypes DEF MessageFlow, DispatchFlow, Same
  <2>3. ~at(y)'
    BY <2>1, <2>2 DEF Grown
  <2>4. \A x \in Places(statusT) : at(x)' <=> at(x)
    BY <2>1 DEF Grown
  <2>5. Places(statusT)' = Places(statusT) \cup {y}
    BY <2>1 DEF Grown
  <2> HIDE DEF at
  <2> QED BY <1>1, <1>2, <2>3, <2>4, <2>5
<1> QED BY <1>3, <1>4

\* The row of an attempt is the next one, of a call that is not settled; it settles the call
\* unless the outcome is to be retried.
LEMMA UpdateSettles ==
  ASSUME PipelineInv, PipelineInv', MessageFlow, MessageFlow', NEW z, Updated(z),
         NEW s, s = At(statusT, z)
  PROVE  /\ s.call \in Calls /\ calls[s.call].status # "absent" /\ ~Settled(s.call)
         /\ calls' = [calls EXCEPT ![s.call] = [status |-> s.status, attempts |-> @.attempts + 1]]
         /\ Settled(s.call)' <=> ~s.retryable
         /\ \A c \in Calls : c # s.call => (Settled(c)' <=> Settled(c))
         /\ s \in BudgetedStatus /\ s.attempt = calls[s.call].attempts + 1
<1> DEFINE n == calls[s.call].attempts
<1>1. /\ Kept(statusT, statusT') /\ calls' = UpdatedCalls(s)
      /\ z \in Places(statusT) /\ Done(z) = 0
  BY DEF Updated, StatusStep
<1>2. /\ s.call \in Calls /\ s.attempt \in Nat /\ s.attempt >= 1 /\ n \in Nat
      /\ StatusFlow(z) /\ s.attempt = n + 1 /\ Holds(dispatchT, s)
  BY <1>1, FlowTypes DEF MessageFlow, StatusFlow
<1>3. calls[s.call].status # "absent"
  <2>1. trig[s.call] = "accepted"
    BY <1>2, Untouched DEF Holds, Same
  <2> QED BY <1>2, <2>1 DEF MessageFlow, RowFlow
<1>4. calls' = [calls EXCEPT ![s.call] = [status |-> s.status, attempts |-> n + 1]]
  BY <1>1, <1>2, <1>3, FlowTypes DEF UpdatedCalls
<1>5. calls'[s.call].attempts = n + 1 /\ \A c \in Calls : c # s.call => calls'[c] = calls[c]
  BY <1>2, <1>4, FlowTypes
<1>6. PICK w \in Places(dispatchT) : Same(At(dispatchT, w), s)
  BY <1>2 DEF Holds
<1>7. ~Settled(s.call)
  <2>1. SUFFICES ASSUME NEW x \in Places(statusT), At(statusT, x).call = s.call,
                        ~At(statusT, x).retryable, At(statusT, x).attempt = n
                 PROVE  FALSE
    BY <1>2, SettledAt
  <2>2. At(dispatchT, w).call = At(statusT, x).call
        /\ At(dispatchT, w).attempt = At(statusT, x).attempt + 1
    BY <1>2, <1>6, <2>1 DEF Same
  <2> QED BY <2>1, <2>2, EarlierDone
<1>8. Settled(s.call)' <=> ~s.retryable
  <2>1. PICK c \in Calls : c = s.call
    BY <1>2
  <2>2. Settled(c)' <=> \E x \in Places(statusT) : /\ At(statusT, x).call = c
                                                   /\ ~At(statusT, x).retryable
                                                   /\ At(statusT, x).attempt = n + 1
    <3>1. Settled(c)' <=> \E x \in Places(statusT)' : /\ At(statusT, x)'.call = c
                                                      /\ ~At(statusT, x)'.retryable
                                                      /\ At(statusT, x)'.attempt = calls'[c].attempts
      BY SettledPlacesNext DEF SettledPlace
    <3> QED BY <1>1, <1>5, <2>1, <3>1 DEF Kept
  <2>3. \A x \in Places(statusT) : At(statusT, x).call = c /\ At(statusT, x).attempt = n + 1 => x = z
    BY <1>1, <1>2, <2>1 DEF MessageFlow, OnceEach, Same
  <2>4. Settled(c)' <=> ~s.retryable
    BY <1>1, <1>2, <2>1, <2>2, <2>3
  <2> QED BY <2>1, <2>4
<1>9. ASSUME NEW c \in Calls, c # s.call PROVE Settled(c)' <=> Settled(c)
  <2>1. Settled(c) <=> \E x \in Places(statusT) : /\ At(statusT, x).call = c
                                                  /\ ~At(statusT, x).retryable
                                                  /\ At(statusT, x).attempt = calls[c].attempts
    BY SettledAt
  <2>2. Settled(c)' <=> \E x \in Places(statusT)' : /\ At(statusT, x)'.call = c
                                                    /\ ~At(statusT, x)'.retryable
                                                    /\ At(statusT, x)'.attempt = calls'[c].attempts
    BY SettledPlacesNext DEF SettledPlace
  <2> QED BY <1>1, <1>5, <1>9, <2>1, <2>2 DEF Kept
<1>10. s \in BudgetedStatus
  BY <1>1, Typed, PlaceFacts
<1> QED BY <1>2, <1>3, <1>4, <1>7, <1>8, <1>9, <1>10

\* Every step of the pipeline is a step of the lifecycle, or none.
LEMMA StepRefines ==
  ASSUME PipelineInv, PipelineInv', MessageFlow, MessageFlow', FlowStep
  PROVE  [Lifecycle!Next]_(Lifecycle!vars)
<1> DEFINE settled == {c \in Calls : Settled(c)}
<1>1. ASSUME UNCHANGED calls, Kept(statusT, statusT') \/ \E z, y, m : Published(z, y, m)
      PROVE  UNCHANGED Lifecycle!vars
  <2>1. \A c \in Calls : Settled(c)' <=> Settled(c)
    BY <1>1, RowsKeepSettled
  <2>2. settled' = settled
    BY <2>1
  <2> QED BY <1>1, <2>2 DEF Lifecycle!vars
<1>2. ASSUME NEW c \in Calls, Created(c) PROVE Lifecycle!Next
  <2>1. Kept(statusT, statusT') /\ trig[c] = "ready" /\ calls' = [calls EXCEPT ![c] = QueuedRow]
    BY <1>2 DEF Created, SameStatus
  <2>2. calls[c].status = "absent" /\ calls[c].attempts = 0
    BY <2>1 DEF MessageFlow, RowFlow
  <2>3. calls' = [calls EXCEPT ![c].status = "queued"]
    <3>1. [calls[c] EXCEPT !.status = "queued"] = QueuedRow
      BY <2>2, FlowTypes DEF QueuedRow, CallRow
    <3> QED BY <2>1, <3>1
  <2>4. \A b \in Calls \ {c} : calls'[b] = calls[b]
    BY <2>1, FlowTypes
  <2>5. \A x \in Places(statusT) : At(statusT, x).call # c
    BY <2>1, Untouched
  <2>6. ASSUME NEW b \in Calls PROVE Settled(b)' <=> Settled(b)
    <3>1. Settled(b) <=> \E x \in Places(statusT) : /\ At(statusT, x).call = b
                                                    /\ ~At(statusT, x).retryable
                                                    /\ At(statusT, x).attempt = calls[b].attempts
      BY SettledAt
    <3>2. Settled(b)' <=> \E x \in Places(statusT)' : /\ At(statusT, x)'.call = b
                                                      /\ ~At(statusT, x)'.retryable
                                                      /\ At(statusT, x)'.attempt = calls'[b].attempts
      BY SettledPlacesNext DEF SettledPlace
    <3>3. CASE b = c
      BY <2>1, <2>5, <3>1, <3>2, <3>3 DEF Kept
    <3>4. CASE b # c
      BY <2>1, <2>4, <3>1, <3>2, <3>4 DEF Kept
    <3> QED BY <3>3, <3>4
  <2>7. settled' = settled
    BY <2>6
  <2>8. Lifecycle!Create(c)
    BY <2>2, <2>3, <2>7 DEF Lifecycle!Create
  <2> QED BY <2>8 DEF Lifecycle!Next
<1>3. ASSUME NEW z, Updated(z) PROVE Lifecycle!Next
  <2>1. PICK s : s = At(statusT, z)
    OBVIOUS
  <2>2. /\ s.call \in Calls /\ calls[s.call].status # "absent" /\ ~Settled(s.call)
        /\ calls' = [calls EXCEPT ![s.call] = [status |-> s.status, attempts |-> @.attempts + 1]]
        /\ Settled(s.call)' <=> ~s.retryable
        /\ \A c \in Calls : c # s.call => (Settled(c)' <=> Settled(c))
        /\ s \in BudgetedStatus /\ s.attempt = calls[s.call].attempts + 1
    BY <1>3, <2>1, UpdateSettles
  <2>3. s.call \notin settled
    BY <2>2
  <2>4. ~s.retryable => settled' = settled \cup {s.call}
    BY <2>2
  <2>5. s.retryable => settled' = settled
    BY <2>2
  <2>6. s.status \in FinalStatuses /\ (s.retryable => s.status = "failed" /\ s.attempt < MaxAttempts[s.call])
    BY <2>2 DEF BudgetedStatus, StatusMessage
  <2> HIDE DEF settled
  <2>7. CASE s.status = "completed"
    <3>1. ~s.retryable
      BY <2>6, <2>7
    <3>2. settled' = settled \cup {s.call}
      BY <2>4, <3>1
    <3>3. Lifecycle!Succeed(s.call)
      BY <2>2, <2>3, <2>7, <3>2 DEF Lifecycle!Succeed, settled
    <3> QED BY <2>2, <3>3 DEF Lifecycle!Next, Lifecycle!Attempt
  <2>8. CASE s.status = "failed"
    <3>1. settled' = settled \cup {s.call} \/ (calls[s.call].attempts + 1 < MaxAttempts[s.call] /\ settled' = settled)
      BY <2>2, <2>4, <2>5, <2>6
    <3>2. Lifecycle!Fail(s.call)
      BY <2>2, <2>3, <2>8, <3>1 DEF Lifecycle!Fail, settled
    <3> QED BY <2>2, <3>2 DEF Lifecycle!Next, Lifecycle!Attempt
  <2> QED BY <2>6, <2>7, <2>8 DEF FinalStatuses
<1>4. ASSUME \/ Quiet \/ (\E c \in Calls : Totalled(c) \/ \E z : Enqueued(c, z))
             \/ (\E z, y, m : Published(z, y, m))
             \/ (\E z : Recorded(z) \/ Tallied(z) \/ NotScheduled(z))
             \/ (\E z, y : Scheduled(z, y) \/ Sent(z, y))
      PROVE  UNCHANGED calls /\ (Kept(statusT, statusT') \/ \E z, y, m : Published(z, y, m))
  BY <1>4 DEF Quiet, Totalled, Enqueued, Published, Recorded, Tallied, NotScheduled, Scheduled, Sent,
              SameStatus, StatusStep
<1> QED BY <1>1, <1>2, <1>3, <1>4 DEF FlowStep

\* While nothing fails a call goes through its attempts in order and once each to one last
\* outcome (TriggerCall, worker/call, worker/status and worker/retry together): the safety
\* part of ImplementsLifecycle, which adds that it gets there.
THEOREM PipelineFollowsLifecycle ==
  ASSUME FaultKinds = {}
  PROVE  Spec => Lifecycle!SafetySpec
<1>1. Init => Lifecycle!Init
  <2> SUFFICES ASSUME Init PROVE Lifecycle!Init
    OBVIOUS
  <2>1. Written(statusT) = {}
    BY EmptyTopic DEF Init
  <2>2. {c \in Calls : Settled(c)} = {}
    BY <2>1 DEF Settled
  <2>3. calls = [c \in Calls |-> [status |-> "absent", attempts |-> 0]]
    BY DEF Init
  <2> QED BY <2>2, <2>3 DEF Lifecycle!Init
<1>2. PipelineInv /\ FlowInv /\ [Next]_vars => [Lifecycle!Next]_(Lifecycle!vars)
  <2> SUFFICES ASSUME PipelineInv, FlowInv, [Next]_vars PROVE [Lifecycle!Next]_(Lifecycle!vars)
    OBVIOUS
  <2>1. UNCHANGED faults
    BY StepFaults
  <2>2. PipelineInv' /\ FlowInv' /\ FlowStep
    BY <2>1, NextKeepsPipeline, NextKeepsFlow
  <2> QED BY <2>2, StepRefines DEF FlowInv
<1> QED BY <1>1, <1>2, FaultlessFlow, PTL DEF Spec, Lifecycle!SafetySpec

-----------------------------------------------------------------------------
(* The statistics row *)

\* An outcome that asks for no further attempt is the last.
LEMMA FinalIsLast ==
  ASSUME PipelineInv, MessageFlow, NEW x \in Places(statusT), ~At(statusT, x).retryable
  PROVE  calls[At(statusT, x).call].attempts <= At(statusT, x).attempt
<1> DEFINE c == At(statusT, x).call
           a == At(statusT, x).attempt
           n == calls[c].attempts
<1>1. c \in Calls /\ a \in Nat /\ a >= 1 /\ n \in Nat
  BY FlowTypes
<1>2. SUFFICES ASSUME a < n PROVE FALSE
  BY <1>1
<1>3. PICK y \in Places(statusT) : At(statusT, y).call = c /\ At(statusT, y).attempt = a + 1
  <2>1. a + 1 \in 1..n /\ RowFlow(c)
    BY <1>1, <1>2 DEF MessageFlow
  <2> QED BY <2>1 DEF RowFlow
<1>4. PICK w \in Places(dispatchT) : Same(At(dispatchT, w), At(statusT, y))
  BY DEF MessageFlow, StatusFlow, Holds
<1> QED BY <1>3, <1>4, EarlierDone DEF Same

\* The statistics row after a delta, column by column.
LEMMA DeltaAdds ==
  ASSUME NEW t \in Int, NEW c \in Int, NEW f \in Int, NEW p \in Int, NEW r \in Int,
         NEW t1 \in Int, NEW c1 \in Int, NEW f1 \in Int, NEW p1 \in Int, NEW r1 \in Int,
         stats = StatsOf(t, c, f, p, r)
  PROVE  ApplyDelta(StatsOf(t1, c1, f1, p1, r1)) = StatsOf(t + t1, c + c1, f + f1, p + p1, r + r1)
BY DEF ApplyDelta, StatsOf

\* One of the parts of the statistics row, and what a step adds to it.
Gains(A, B, k) ==
  /\ IsFiniteSet(B) /\ Cardinality(A) \in Nat /\ Cardinality(B) \in Nat
  /\ Cardinality(B) = Cardinality(A) + k

\* A part gains nothing, or one element.
LEMMA GainsOne ==
  ASSUME NEW A, NEW B, IsFiniteSet(A)
  PROVE  /\ B = A => Gains(A, B, 0)
         /\ \A x : x \notin A /\ B = A \cup {x} => Gains(A, B, 1)
<1>1. Cardinality(A) \in Nat
  BY FS_CardinalityType
<1>2. ASSUME NEW x, x \notin A, B = A \cup {x} PROVE Gains(A, B, 1)
  <2>1. IsFiniteSet(B) /\ Cardinality(B) = Cardinality(A) + 1
    BY <1>2, FS_AddElement
  <2> QED BY <1>1, <2>1 DEF Gains
<1> QED BY <1>1, <1>2 DEF Gains

\* A step that counts nothing.
LEMMA CountsNothing ==
  ASSUME StatsInv, UNCHANGED stats, TotalOf' = TotalOf, CompletedOf' = CompletedOf,
         FailedOf' = FailedOf, RetriesOf' = RetriesOf
  PROVE  StatsInv'
BY DEF StatsInv

\* What has been counted, when no status goes from uncounted to counted.
LEMMA CountedSame ==
  ASSUME \/ Kept(statusT, statusT') /\ \A x \in Places(statusT) : Counted(x)' <=> Counted(x)
         \/ \E y, m : /\ Grown(statusT, statusT', y, m) /\ ~Counted(y)'
                      /\ \A x \in Places(statusT) : Counted(x)' <=> Counted(x)
  PROVE  CompletedOf' = CompletedOf /\ FailedOf' = FailedOf /\ RetriesOf' = RetriesOf
<1>1. ASSUME NEW x \in Places(statusT), Counted(x)
      PROVE  x \in Places(statusT)' /\ Counted(x)' /\ At(statusT, x)' = At(statusT, x)
  BY <1>1 DEF Kept, Grown
<1>2. ASSUME NEW x \in Places(statusT)', Counted(x)'
      PROVE  x \in Places(statusT) /\ Counted(x) /\ At(statusT, x)' = At(statusT, x)
  BY <1>2 DEF Kept, Grown
<1>3. CompletedOf' = CompletedOf
  BY <1>1, <1>2 DEF CompletedOf
<1>4. FailedOf' = FailedOf
  BY <1>1, <1>2 DEF FailedOf
<1>5. RetriesOf' = RetriesOf
  BY <1>1, <1>2 DEF RetriesOf, AttemptRow
<1> QED BY <1>3, <1>4, <1>5

\* The total counts a call when its request does.
LEMMA TotalKeepsStats ==
  ASSUME PipelineInv, StatsInv, NEW c \in Calls, Totalled(c)
  PROVE  StatsInv'
<1>1. /\ Kept(statusT, statusT') /\ \A x \in Places(statusT) : Counted(x)' <=> Counted(x)
      /\ trig[c] = "count" /\ trig' = [trig EXCEPT ![c] = "dispatch"]
      /\ stats' = ApplyDelta(CountDelta)
  BY DEF Totalled, SameStatus, Counted
<1>2. CompletedOf' = CompletedOf /\ FailedOf' = FailedOf /\ RetriesOf' = RetriesOf
  BY <1>1, CountedSame
<1>3. TotalOf' = TotalOf \cup {c} /\ c \notin TotalOf
  BY <1>1, FlowTypes DEF TotalOf
<1>4. /\ IsFiniteSet(TotalOf) /\ IsFiniteSet(CompletedOf) /\ IsFiniteSet(FailedOf) /\ IsFiniteSet(RetriesOf)
  BY DEF StatsInv
<1> DEFINE T == Cardinality(TotalOf)
           C == Cardinality(CompletedOf)
           F == Cardinality(FailedOf)
           R == Cardinality(RetriesOf)
<1>5. T \in Nat /\ C \in Nat /\ F \in Nat /\ R \in Nat
  BY <1>4, FS_CardinalityType
<1>6. Gains(TotalOf, TotalOf', 1)
  BY <1>3, <1>4, GainsOne
<1>7. stats = StatsOf(T, C, F, T - C - F, R)
  BY DEF StatsInv
<1>8. IsFiniteSet(TotalOf') /\ Cardinality(TotalOf') = T + 1
  BY <1>6 DEF Gains
<1> HIDE DEF T, C, F, R
<1>9. stats' = StatsOf(T + 1, C + 0, F + 0, (T - C - F) + 1, R + 0)
  BY <1>1, <1>5, <1>7, DeltaAdds DEF CountDelta
<1>10. PICK N : N = T + 1
  OBVIOUS
<1>11. (T - C - F) + 1 = N - C - F /\ C + 0 = C /\ F + 0 = F /\ R + 0 = R
  BY <1>5, <1>10
<1>12. stats' = StatsOf(N, C, F, N - C - F, R)
  BY <1>9, <1>10, <1>11
<1>13. /\ Cardinality(TotalOf)' = N /\ Cardinality(CompletedOf)' = C
       /\ Cardinality(FailedOf)' = F /\ Cardinality(RetriesOf)' = R
  BY <1>2, <1>8, <1>10 DEF C, F, R
<1>14. /\ IsFiniteSet(TotalOf)' /\ IsFiniteSet(CompletedOf)'
       /\ IsFiniteSet(FailedOf)' /\ IsFiniteSet(RetriesOf)'
  BY <1>2, <1>4, <1>8
<1> QED BY <1>12, <1>13, <1>14 DEF StatsInv

\* A status is counted once, and a last outcome is the only one of its call.
LEMMA TallyCounts ==
  ASSUME PipelineInv, MessageFlow, NEW z, Tallied(z), NEW s, s = At(statusT, z)
  PROVE  /\ s.call \in Calls /\ s \in BudgetedStatus
         /\ IF s.status = "completed" THEN s.call \notin CompletedOf /\ CompletedOf' = CompletedOf \cup {s.call}
                                      ELSE CompletedOf' = CompletedOf
         /\ IF s.status = "failed" /\ ~s.retryable
              THEN s.call \notin FailedOf /\ FailedOf' = FailedOf \cup {s.call}
              ELSE FailedOf' = FailedOf
         /\ IF s.attempt > 1 THEN AttemptRow(s) \notin RetriesOf /\ RetriesOf' = RetriesOf \cup {AttemptRow(s)}
                             ELSE RetriesOf' = RetriesOf
<1>1. /\ Kept(statusT, statusT') /\ z \in Places(statusT) /\ Done(z) = 2 /\ Done(z)' = 3
      /\ \A x \in Places(statusT) : x # z => Done(x)' = Done(x)
  BY DEF Tallied, StatusStep
<1>2. /\ s.call \in Calls /\ s.attempt \in Nat /\ StatusFlow(z)
      /\ s.attempt = calls[s.call].attempts /\ s \in BudgetedStatus
  <2>1. s \in BudgetedStatus
    BY <1>1, Typed, PlaceFacts
  <2> QED BY <1>1, <2>1, FlowTypes DEF MessageFlow, StatusFlow
<1>3. ASSUME NEW x \in Places(statusT)
      PROVE  (Counted(x)' <=> Counted(x) \/ x = z) /\ At(statusT, x)' = At(statusT, x)
  BY <1>1 DEF Kept, Counted
<1>4. ~Counted(z) /\ Places(statusT)' = Places(statusT)
  BY <1>1 DEF Counted, Kept
\* Another counted status of the call belongs to an earlier attempt, which was retryable.
<1>5. \A x \in Places(statusT) : Counted(x) /\ At(statusT, x).call = s.call => At(statusT, x).retryable
  <2> SUFFICES ASSUME NEW x \in Places(statusT), Counted(x), At(statusT, x).call = s.call,
                      ~At(statusT, x).retryable
               PROVE  FALSE
    OBVIOUS
  <2>1. s.attempt <= At(statusT, x).attempt
    BY <1>2, FinalIsLast
  <2>2. At(statusT, x).attempt <= s.attempt
    BY <1>2, FlowTypes DEF MessageFlow, StatusFlow, Counted
  <2>3. x = z
    BY <1>1, <1>2, <2>1, <2>2, FlowTypes DEF MessageFlow, OnceEach, Same
  <2> QED BY <1>4, <2>3
<1>6. \A x \in Places(statusT) : At(statusT, x).retryable => At(statusT, x).status # "completed"
  <2>1. \A x \in Places(statusT) : At(statusT, x) \in BudgetedStatus
    BY Typed, PlaceFacts
  <2> QED BY <2>1 DEF BudgetedStatus
<1>7. s.call \notin CompletedOf /\ s.call \notin FailedOf
  BY <1>5, <1>6 DEF CompletedOf, FailedOf
<1>8. IF s.status = "completed" THEN CompletedOf' = CompletedOf \cup {s.call}
                                ELSE CompletedOf' = CompletedOf
  BY <1>1, <1>2, <1>3, <1>4 DEF CompletedOf
<1>9. IF s.status = "failed" /\ ~s.retryable THEN FailedOf' = FailedOf \cup {s.call}
                                             ELSE FailedOf' = FailedOf
  BY <1>1, <1>2, <1>3, <1>4 DEF FailedOf
<1>10. AttemptRow(s) \notin RetriesOf
  <2>1. \A x \in Places(statusT) : Counted(x) => AttemptRow(At(statusT, x)) # AttemptRow(s)
    BY <1>1, <1>4 DEF AttemptRow, MessageFlow, OnceEach, Same
  <2> QED BY <2>1 DEF RetriesOf
<1>11. IF s.attempt > 1 THEN RetriesOf' = RetriesOf \cup {AttemptRow(s)} ELSE RetriesOf' = RetriesOf
  <2>1. AttemptRow(s) \in Calls \X Nat /\ AttemptRow(s)[2] = s.attempt
    BY <1>2 DEF AttemptRow
  <2>2. ASSUME NEW r PROVE r \in RetriesOf' <=> r \in RetriesOf \/ (s.attempt > 1 /\ r = AttemptRow(s))
    <3>1. r \in RetriesOf' <=> /\ r \in Calls \X Nat /\ r[2] > 1
                              /\ \E x \in Places(statusT) : Counted(x)' /\ AttemptRow(At(statusT, x)) = r
      BY <1>3, <1>4 DEF RetriesOf
    <3>2. (\E x \in Places(statusT) : Counted(x)' /\ AttemptRow(At(statusT, x)) = r)
            <=> \/ \E x \in Places(statusT) : Counted(x) /\ AttemptRow(At(statusT, x)) = r
                \/ r = AttemptRow(s)
      BY <1>1, <1>3
    <3> QED BY <2>1, <3>1, <3>2 DEF RetriesOf
  <2> QED BY <2>2
<1> QED BY <1>2, <1>7, <1>8, <1>9, <1>10, <1>11

\* The outcome of an attempt is counted.
LEMMA TallyKeepsStats ==
  ASSUME PipelineInv, MessageFlow, StatsInv, NEW z, Tallied(z)
  PROVE  StatsInv'
<1>1. PICK s : s = At(statusT, z)
  OBVIOUS
<1> DEFINE T == Cardinality(TotalOf)
           C == Cardinality(CompletedOf)
           F == Cardinality(FailedOf)
           R == Cardinality(RetriesOf)
           c == IF s.status = "completed" THEN 1 ELSE 0
           f == IF s.status = "failed" /\ ~s.retryable THEN 1 ELSE 0
           r == IF s.attempt > 1 THEN 1 ELSE 0
<1>2. /\ IsFiniteSet(TotalOf) /\ IsFiniteSet(CompletedOf) /\ IsFiniteSet(FailedOf) /\ IsFiniteSet(RetriesOf)
      /\ stats = StatsOf(T, C, F, T - C - F, R)
  BY DEF StatsInv
<1>3. T \in Nat /\ C \in Nat /\ F \in Nat /\ R \in Nat
  BY <1>2, FS_CardinalityType
<1>4. Gains(CompletedOf, CompletedOf', c)
  <2>1. CASE s.status = "completed"
    BY <1>1, <1>2, <2>1, TallyCounts, GainsOne
  <2>2. CASE s.status # "completed"
    BY <1>1, <1>2, <2>2, TallyCounts, GainsOne
  <2> QED BY <2>1, <2>2
<1>5. Gains(FailedOf, FailedOf', f)
  <2>1. CASE s.status = "failed" /\ ~s.retryable
    BY <1>1, <1>2, <2>1, TallyCounts, GainsOne
  <2>2. CASE ~(s.status = "failed" /\ ~s.retryable)
    BY <1>1, <1>2, <2>2, TallyCounts, GainsOne
  <2> QED BY <2>1, <2>2
<1>6. Gains(RetriesOf, RetriesOf', r)
  <2>1. CASE s.attempt > 1
    BY <1>1, <1>2, <2>1, TallyCounts, GainsOne
  <2>2. CASE ~(s.attempt > 1)
    BY <1>1, <1>2, <2>2, TallyCounts, GainsOne
  <2> QED BY <2>1, <2>2
<1>7. TotalOf' = TotalOf
  BY DEF Tallied, TotalOf
<1>8. stats' = ApplyDelta(StatsOf(0, c, f, -(c + f), r))
  BY <1>1 DEF Tallied, StatsDelta
<1>9. c \in Nat /\ f \in Nat /\ r \in Nat
  OBVIOUS
<1>10. /\ Cardinality(TotalOf)' = T /\ Cardinality(CompletedOf)' = C + c
       /\ Cardinality(FailedOf)' = F + f /\ Cardinality(RetriesOf)' = R + r
  BY <1>4, <1>5, <1>6, <1>7 DEF Gains
<1>11. /\ IsFiniteSet(TotalOf)' /\ IsFiniteSet(CompletedOf)'
       /\ IsFiniteSet(FailedOf)' /\ IsFiniteSet(RetriesOf)'
  BY <1>2, <1>4, <1>5, <1>6, <1>7 DEF Gains
<1> HIDE DEF T, C, F, R, c, f, r
<1>12. stats' = StatsOf(T + 0, C + c, F + f, (T - C - F) + (-(c + f)), R + r)
  BY <1>2, <1>3, <1>8, <1>9, DeltaAdds
<1>13. T + 0 = T /\ (T - C - F) + (-(c + f)) = T - (C + c) - (F + f)
  BY <1>3, <1>9
<1>14. stats' = StatsOf(T, C + c, F + f, T - (C + c) - (F + f), R + r)
  BY <1>12, <1>13
<1> QED BY <1>10, <1>11, <1>14 DEF StatsInv

\* The other steps count nothing.
LEMMA RestKeepsStats ==
  ASSUME PipelineInv, StatsInv, FlowStep,
         ~\E c \in Calls : Totalled(c), ~\E z : Tallied(z)
  PROVE  StatsInv'
<1>1. UNCHANGED stats
  BY DEF FlowStep, Quiet, Created, Enqueued, Published, Updated, Recorded, NotScheduled, Scheduled, Sent
<1>2. TotalOf' = TotalOf
  <2>1. CASE UNCHANGED trig
    BY <2>1 DEF TotalOf
  <2>2. ASSUME NEW c \in Calls, Created(c) PROVE TotalOf' = TotalOf
    BY <2>2, FlowTypes DEF Created, TotalOf
  <2>3. ASSUME NEW c \in Calls, NEW z, Enqueued(c, z) PROVE TotalOf' = TotalOf
    BY <2>3, FlowTypes DEF Enqueued, TotalOf
  <2>4. \/ UNCHANGED trig
        \/ \E c \in Calls : Created(c) \/ \E z : Enqueued(c, z)
    BY DEF FlowStep, Quiet, Published, Updated, Recorded, NotScheduled, Scheduled, Sent
  <2> QED BY <2>1, <2>2, <2>3, <2>4
<1>3. \/ SameStatus
      \/ \E z, y, m : Published(z, y, m)
      \/ \E z : StatusStep(z, 0) \/ StatusStep(z, 1) \/ StatusStep(z, 3)
  BY DEF FlowStep, Quiet, Created, Enqueued, Updated, Recorded, NotScheduled, Scheduled, Sent
<1>4. ASSUME SameStatus PROVE CompletedOf' = CompletedOf /\ FailedOf' = FailedOf /\ RetriesOf' = RetriesOf
  BY <1>4, CountedSame DEF SameStatus, Counted
<1>5. ASSUME NEW z, StatusStep(z, 0) \/ StatusStep(z, 1) \/ StatusStep(z, 3)
      PROVE  CompletedOf' = CompletedOf /\ FailedOf' = FailedOf /\ RetriesOf' = RetriesOf
  BY <1>5, CountedSame DEF StatusStep, Counted
<1>6. ASSUME NEW z, NEW y, NEW m, Published(z, y, m)
      PROVE  CompletedOf' = CompletedOf /\ FailedOf' = FailedOf /\ RetriesOf' = RetriesOf
  <2>1. /\ Grown(statusT, statusT', y, m) /\ ~Counted(y)'
        /\ \A x \in Places(statusT) : Counted(x)' <=> Counted(x)
    BY <1>6 DEF Published, StatusAdds, Counted
  <2> QED BY <2>1, CountedSame
<1> QED BY <1>1, <1>2, <1>3, <1>4, <1>5, <1>6, CountsNothing

\* Any step keeps the row the count of what has been done.
LEMMA NextKeepsStats ==
  ASSUME PipelineInv, MessageFlow, StatsInv, FlowStep
  PROVE  StatsInv'
<1>1. CASE \E c \in Calls : Totalled(c)
  BY <1>1, TotalKeepsStats
<1>2. CASE \E z : Tallied(z)
  BY <1>2, TallyKeepsStats
<1>3. CASE ~(\E c \in Calls : Totalled(c)) /\ ~\E z : Tallied(z)
  BY <1>3, RestKeepsStats
<1> QED BY <1>1, <1>2, <1>3

\* At first nothing is counted.
LEMMA InitStats ==
  ASSUME Init
  PROVE  StatsInv
<1>1. Places(statusT) = {}
  BY DEF Init, Places, EmptyPartition
<1>2. TotalOf = {} /\ CompletedOf = {} /\ FailedOf = {} /\ RetriesOf = {}
  BY <1>1 DEF Init, TotalOf, CompletedOf, FailedOf, RetriesOf
<1>3. stats = StatsOf(0, 0, 0, 0, 0)
  BY DEF Init
<1>4. IsFiniteSet({}) /\ Cardinality({}) = 0
  BY FS_EmptySet
<1> QED BY <1>2, <1>3, <1>4 DEF StatsInv

-----------------------------------------------------------------------------
(* At rest *)

\* Nothing is left to be published, dispatched again or written for a status.
AtRest ==
  /\ \A x \in Places(dispatchT) : ~Unpublished(x)
  /\ \A x \in Places(retryT) : ~Unsent(x)
  /\ \A x \in Places(statusT) : Done(x) = 4
  /\ \A c \in Calls : trig[c] \in {"ready", "accepted"}

\* Idle consumers that have fetched every message have done everything.
LEMMA QuiescentAtRest ==
  ASSUME PipelineInv, MessageFlow, Quiescent
  PROVE  AtRest
<1>1. ASSUME NEW P, NEW M, NEW t \in OrderedTopics(P, M), \A p \in P : ~HasNext(t[p])
      PROVE  \A x \in Places(t) : /\ x[1] \in P /\ x[2] \in Nat /\ t[x[1]].fetched \in Nat
                                  /\ x[2] <= t[x[1]].fetched
  <2>1. \A p \in P : t[p].fetched \in Nat /\ Len(t[p].log) \in Nat
    BY DEF OrderedTopics, Topics, Partition
  <2>2. \A x \in Places(t) : x[1] \in P /\ x[2] \in 1..Len(t[x[1]].log)
    BY PlaceFacts
  <2> QED BY <1>1, <2>1, <2>2 DEF HasNext
<1>2. \A x \in Places(dispatchT) : ~Unpublished(x)
  <2>1. \A p \in DispatchParts : cwPc[p] = "idle" /\ ~HasNext(dispatchT[p])
    BY DEF Quiescent
  <2>2. dispatchT \in OrderedTopics(DispatchParts, BudgetedDispatch)
    BY Typed
  <2>3. \A x \in Places(dispatchT) : /\ x[1] \in DispatchParts /\ x[2] \in Nat
                                     /\ dispatchT[x[1]].fetched \in Nat
                                     /\ x[2] <= dispatchT[x[1]].fetched
    BY <1>1, <2>1, <2>2
  <2> QED BY <2>1, <2>3 DEF Unpublished
<1>3. \A x \in Places(retryT) : ~Unsent(x)
  <2>1. \A l \in RetryLanes : rwPc[l] = "idle" /\ ~HasNext(retryT[l])
    BY DEF Quiescent
  <2>2. retryT \in OrderedTopics(RetryLanes, BudgetedRetry)
    BY Typed
  <2>3. \A x \in Places(retryT) : /\ x[1] \in RetryLanes /\ x[2] \in Nat
                                  /\ retryT[x[1]].fetched \in Nat
                                  /\ x[2] <= retryT[x[1]].fetched
    BY <1>1, <2>1, <2>2
  <2> QED BY <2>1, <2>3 DEF Unsent
<1>4. \A x \in Places(statusT) : Done(x) = 4
  <2>1. \A p \in StatusParts : swPc[p] = "idle" /\ ~HasNext(statusT[p])
    BY DEF Quiescent
  <2>2. statusT \in OrderedTopics(StatusParts, BudgetedStatus)
    BY Typed
  <2>3. \A x \in Places(statusT) : /\ x[1] \in StatusParts /\ x[2] \in Nat
                                   /\ statusT[x[1]].fetched \in Nat
                                   /\ x[2] <= statusT[x[1]].fetched
    BY <1>1, <2>1, <2>2
  <2>4. Writes("idle") = 4
    BY DEF Writes
  <2> QED BY <2>1, <2>3, <2>4 DEF Done
<1>5. \A c \in Calls : trig[c] \in {"ready", "accepted"}
  BY DEF Quiescent, MessageFlow, RowFlow
<1> QED BY <1>2, <1>3, <1>4, <1>5 DEF AtRest

\* A dispatch has had its outcome written to the row of its call.
LEMMA RestAttempts ==
  ASSUME PipelineInv, MessageFlow, AtRest, NEW w \in Places(dispatchT)
  PROVE  At(dispatchT, w).attempt <= calls[At(dispatchT, w).call].attempts
<1>1. PICK x \in Places(statusT) : Same(At(statusT, x), At(dispatchT, w))
  BY DEF AtRest, MessageFlow, DispatchFlow, Holds
<1>2. Done(x) = 4 /\ StatusFlow(x)
  BY DEF AtRest, MessageFlow
<1>3. At(statusT, x).attempt <= calls[At(statusT, x).call].attempts
  BY <1>2 DEF StatusFlow
<1> QED BY <1>1, <1>3 DEF Same

\* The last outcome of an accepted call asks for no further attempt: a retryable one would
\* have been scheduled, dispatched and given an outcome of its own.
LEMMA RestSettled ==
  ASSUME PipelineInv, MessageFlow, AtRest, NumRetryTopics > 0, NEW c \in Calls, trig[c] = "accepted"
  PROVE  \E x \in Places(statusT) :
           /\ At(statusT, x).call = c /\ ~At(statusT, x).retryable
           /\ At(statusT, x).attempt = calls[c].attempts
           /\ At(statusT, x).status = calls[c].status
<1> DEFINE n == calls[c].attempts
<1>1. n \in Nat /\ RowFlow(c)
  BY FlowTypes DEF MessageFlow
<1>2. PICK w \in Places(dispatchT) : Same(At(dispatchT, w), FirstDispatch(c))
  BY <1>1 DEF RowFlow, Holds
<1>3. At(dispatchT, w).call = c /\ At(dispatchT, w).attempt = 1
  BY <1>2 DEF Same, FirstDispatch
<1>4. n >= 1
  BY <1>1, <1>3, RestAttempts
<1>5. PICK x \in Places(statusT) : At(statusT, x).call = c /\ At(statusT, x).attempt = n
  <2>1. n \in 1..n
    BY <1>1, <1>4
  <2> QED BY <1>1, <2>1 DEF RowFlow
<1>6. StatusFlow(x) /\ Done(x) = 4
  BY DEF MessageFlow, AtRest
<1>7. At(statusT, x).status = calls[c].status
  BY <1>5, <1>6 DEF StatusFlow
<1>8. ASSUME At(statusT, x).retryable PROVE FALSE
  <2>1. At(statusT, x).attempt = 1 /\ HasRetryTopic(1)
    BY <1>6, <1>8, ConstantsAssumption DEF StatusFlow, HasRetryTopic
  <2>2. PICK y \in Places(retryT) : Same(At(retryT, y), RetryOf(At(statusT, x)))
    BY <1>6, <1>8, <2>1 DEF StatusFlow, Holds
  <2>3. RetryOf(At(statusT, x)).call = c /\ RetryOf(At(statusT, x)).attempt = n + 1
    BY <1>5 DEF RetryOf, MarshalRetry, RetryMessage, NextDispatch
  <2>4. PICK v \in Places(dispatchT) : Same(At(dispatchT, v), At(retryT, y))
    BY DEF AtRest, MessageFlow, RetryFlow, Holds
  <2>5. At(dispatchT, v).call = c /\ At(dispatchT, v).attempt = n + 1
    BY <2>2, <2>3, <2>4 DEF Same
  <2> QED BY <1>1, <2>5, RestAttempts
<1> QED BY <1>5, <1>7, <1>8

\* What the statistics row has counted is what the call rows show.
LEMMA RestOutcomes ==
  ASSUME PipelineInv, MessageFlow, AtRest, NumRetryTopics > 0
  PROVE  /\ TotalOf = {c \in Calls : trig[c] = "accepted"}
         /\ CompletedOf = CallsWith("completed")
         /\ FailedOf = CallsWith("failed")
         /\ TotalOf = CompletedOf \cup FailedOf
         /\ CompletedOf \cap FailedOf = {}
<1>1. TotalOf = {c \in Calls : trig[c] = "accepted"}
  BY DEF TotalOf, AtRest
\* A counted outcome that is final is the one the row shows.
<1>2. ASSUME NEW x \in Places(statusT), ~At(statusT, x).retryable
      PROVE  At(statusT, x).status = calls[At(statusT, x).call].status
  <2>1. calls[At(statusT, x).call].attempts <= At(statusT, x).attempt
    BY <1>2, FinalIsLast
  <2>2. Done(x) = 4 /\ StatusFlow(x)
    BY DEF AtRest, MessageFlow
  <2>3. At(statusT, x).attempt <= calls[At(statusT, x).call].attempts
    BY <2>2 DEF StatusFlow
  <2>4. At(statusT, x).attempt = calls[At(statusT, x).call].attempts
    BY <2>1, <2>3, FlowTypes
  <2> QED BY <2>2, <2>4 DEF StatusFlow
<1>3. \A x \in Places(statusT) : Counted(x) /\ (At(statusT, x).status = "completed" => ~At(statusT, x).retryable)
  <2>1. \A x \in Places(statusT) : At(statusT, x) \in BudgetedStatus
    BY Typed, PlaceFacts
  <2> QED BY <2>1 DEF AtRest, Counted, BudgetedStatus
<1>4. ASSUME NEW c \in Calls, calls[c].status \in FinalStatuses PROVE trig[c] = "accepted"
  <2>1. RowFlow(c) /\ trig[c] \in {"ready", "accepted"}
    BY DEF MessageFlow, AtRest
  <2>2. calls[c].status # "absent"
    BY <1>4 DEF FinalStatuses
  <2> QED BY <2>1, <2>2 DEF RowFlow
<1>5. \A c \in Calls : trig[c] = "accepted" =>
        \E x \in Places(statusT) : /\ At(statusT, x).call = c /\ ~At(statusT, x).retryable
                                   /\ At(statusT, x).status = calls[c].status
  BY RestSettled
<1>6. CompletedOf = CallsWith("completed")
  <2>1. ASSUME NEW c \in CompletedOf PROVE c \in CallsWith("completed")
    BY <1>2, <1>3 DEF CompletedOf, CallsWith
  <2>2. ASSUME NEW c \in CallsWith("completed") PROVE c \in CompletedOf
    <3>1. c \in Calls /\ calls[c].status = "completed" /\ trig[c] = "accepted"
      BY <1>4 DEF CallsWith, FinalStatuses
    <3> QED BY <1>3, <1>5, <3>1 DEF CompletedOf
  <2> QED BY <2>1, <2>2
<1>7. FailedOf = CallsWith("failed")
  <2>1. ASSUME NEW c \in FailedOf PROVE c \in CallsWith("failed")
    BY <1>2, <1>3 DEF FailedOf, CallsWith
  <2>2. ASSUME NEW c \in CallsWith("failed") PROVE c \in FailedOf
    <3>1. c \in Calls /\ calls[c].status = "failed" /\ trig[c] = "accepted"
      BY <1>4 DEF CallsWith, FinalStatuses
    <3> QED BY <1>3, <1>5, <3>1 DEF FailedOf
  <2> QED BY <2>1, <2>2
<1>8. \A c \in Calls : trig[c] = "accepted" <=> calls[c].status \in {"completed", "failed"}
  <2>1. \A c \in Calls : trig[c] = "accepted" => calls[c].status \in FinalStatuses
    BY <1>5, FlowTypes
  <2> QED BY <1>4, <2>1 DEF FinalStatuses
<1>9. TotalOf = CallsWith("completed") \cup CallsWith("failed")
  BY <1>1, <1>8 DEF CallsWith
<1>10. CallsWith("completed") \cap CallsWith("failed") = {}
  BY DEF CallsWith
<1> QED BY <1>1, <1>6, <1>7, <1>9, <1>10

\* Every attempt of every call has its row, and the row is counted as a retry after the first.
LEMMA RestAttemptRows ==
  ASSUME PipelineInv, MessageFlow, AtRest
  PROVE  /\ RetriesOf = {r \in attemptRows : r[2] > 1}
         /\ attemptRows = UNION {{<<c, n>> : n \in 1..calls[c].attempts} : c \in Calls}
<1>1. ASSUME NEW x \in Places(statusT)
      PROVE  /\ Counted(x) /\ AttemptRow(At(statusT, x)) \in attemptRows
             /\ At(statusT, x).call \in Calls /\ At(statusT, x).attempt \in Nat
             /\ At(statusT, x).attempt \in 1..calls[At(statusT, x).call].attempts
  BY FlowTypes DEF AtRest, MessageFlow, StatusFlow, Counted
<1>2. ASSUME NEW r
      PROVE  r \in attemptRows <=> \E x \in Places(statusT) : AttemptRow(At(statusT, x)) = r
  BY <1>1 DEF MessageFlow
<1>3. \A x \in Places(statusT) : AttemptRow(At(statusT, x)) \in Calls \X Nat
  BY <1>1 DEF AttemptRow
<1>4. RetriesOf = {r \in attemptRows : r[2] > 1}
  BY <1>1, <1>2, <1>3 DEF RetriesOf
<1>5. ASSUME NEW c \in Calls, NEW n \in 1..calls[c].attempts PROVE <<c, n>> \in attemptRows
  <2>1. PICK x \in Places(statusT) : At(statusT, x).call = c /\ At(statusT, x).attempt = n
    BY DEF MessageFlow, RowFlow
  <2> QED BY <1>2, <2>1 DEF AttemptRow
<1>6. ASSUME NEW r \in attemptRows PROVE \E c \in Calls : \E n \in 1..calls[c].attempts : r = <<c, n>>
  <2>1. PICK x \in Places(statusT) : AttemptRow(At(statusT, x)) = r
    BY <1>2
  <2> QED BY <1>1, <2>1 DEF AttemptRow
<1>7. attemptRows = UNION {{<<c, n>> : n \in 1..calls[c].attempts} : c \in Calls}
  BY <1>5, <1>6
<1> QED BY <1>4, <1>7

\* So the row agrees with the others.
LEMMA RestAgrees ==
  ASSUME PipelineInv, MessageFlow, StatsInv, NumRetryTopics > 0
  PROVE  QuiescentStatsAgree
<1> SUFFICES ASSUME Quiescent
             PROVE  /\ stats = [total     |-> Cardinality({c \in Calls : trig[c] = "accepted"}),
                                completed |-> Cardinality(CallsWith("completed")),
                                failed    |-> Cardinality(CallsWith("failed")),
                                pending   |-> 0,
                                retries   |-> Cardinality({r \in attemptRows : r[2] > 1})]
                    /\ attemptRows = UNION {{<<c, n>> : n \in 1..calls[c].attempts} : c \in Calls}
  BY DEF QuiescentStatsAgree
<1>1. AtRest
  BY QuiescentAtRest
<1>2. /\ IsFiniteSet(CompletedOf) /\ IsFiniteSet(FailedOf)
      /\ stats = StatsOf(Cardinality(TotalOf), Cardinality(CompletedOf), Cardinality(FailedOf),
                         Cardinality(TotalOf) - Cardinality(CompletedOf) - Cardinality(FailedOf),
                         Cardinality(RetriesOf))
  BY DEF StatsInv
<1>3. TotalOf = CompletedOf \cup FailedOf /\ CompletedOf \cap FailedOf = {}
  BY <1>1, RestOutcomes
<1>4. Cardinality(TotalOf) - Cardinality(CompletedOf) - Cardinality(FailedOf) = 0
  <2> DEFINE C == Cardinality(CompletedOf)
             F == Cardinality(FailedOf)
  <2>1. C \in Nat /\ F \in Nat
    BY <1>2, FS_CardinalityType
  <2>2. Cardinality(CompletedOf \cup FailedOf) = C + F - Cardinality(CompletedOf \cap FailedOf)
    BY <1>2, FS_Union
  <2>3. Cardinality(TotalOf) = C + F - 0
    BY <1>3, <2>2, FS_EmptySet
  <2> HIDE DEF C, F
  <2>4. (C + F - 0) - C - F = 0
    BY <2>1
  <2> QED BY <2>3, <2>4 DEF C, F
<1>5. stats = StatsOf(Cardinality({c \in Calls : trig[c] = "accepted"}), Cardinality(CallsWith("completed")),
                      Cardinality(CallsWith("failed")), 0, Cardinality({r \in attemptRows : r[2] > 1}))
  BY <1>1, <1>2, <1>4, RestOutcomes, RestAttemptRows
<1>6. attemptRows = UNION {{<<c, n>> : n \in 1..calls[c].attempts} : c \in Calls}
  BY <1>1, RestAttemptRows
<1> QED BY <1>5, <1>6 DEF StatsOf

\* While nothing fails and there is a retry topic (configs/config.yaml has five), the
\* statistics row, the call rows and the attempt rows agree whenever the pipeline comes to
\* rest (TriggerCall, worker/status): with every accepted call counted as completed or
\* failed, and no attempt lost or counted twice.  Without a retry topic a retryable failure
\* would stay pending.
THEOREM StatsAgreeAtRest ==
  ASSUME FaultKinds = {}, NumRetryTopics > 0
  PROVE  Spec => []QuiescentStatsAgree
<1>1. Init => StatsInv
  BY InitStats
<1>2. PipelineInv /\ FlowInv /\ StatsInv /\ [Next]_vars => StatsInv'
  <2> SUFFICES ASSUME PipelineInv, FlowInv, StatsInv, [Next]_vars PROVE StatsInv'
    OBVIOUS
  <2>1. UNCHANGED faults
    BY StepFaults
  <2>2. MessageFlow /\ FlowStep
    BY <2>1, NextKeepsFlow DEF FlowInv
  <2> QED BY <2>2, NextKeepsStats
<1>3. PipelineInv /\ FlowInv /\ StatsInv => QuiescentStatsAgree
  BY RestAgrees DEF FlowInv
<1> QED BY <1>1, <1>2, <1>3, FaultlessFlow, PTL DEF Spec
=============================================================================
