---------------------------- MODULE CallPipeline ----------------------------
(***************************************************************************)
(* The life of the calls of one campaign: TriggerCall, the call workers,   *)
(* the status workers and the retry workers, joined by the dispatch, the   *)
(* status and the retry topics, with the faults the code has to live with. *)
(***************************************************************************)
EXTENDS CallService, CallWorker, StatusWorker, RetryWorker, FiniteSets

\* Nothing is being handled and no reader has a message to fetch.
Quiescent ==
  /\ \A c \in Calls : trig[c] \in {"ready", "accepted", "rejected"}
  /\ \A p \in DispatchParts : cwPc[p] = "idle" /\ ~HasNext(dispatchT[p])
  /\ \A p \in StatusParts : swPc[p] = "idle" /\ ~HasNext(statusT[p])
  /\ \A l \in RetryLanes : rwPc[l] = "idle" /\ ~HasNext(retryT[l])

\* The services wait for the next request.
Idle == Quiescent /\ UNCHANGED vars

WorkerStep ==
  \/ \E p \in DispatchParts : CallWorkerStep(p) \/ CWFlush(p)
  \/ \E p \in StatusParts : StatusWorkerStep(p) \/ SWFlush(p)
  \/ \E l \in RetryLanes : RetryWorkerStep(l) \/ RWFlush(l)

WorkerRestart ==
  \/ \E p \in DispatchParts : CWCrash(p) \/ CWShutdown(p) \/ CWClose(p)
  \/ \E p \in StatusParts : SWCrash(p) \/ SWShutdown(p) \/ SWClose(p)
  \/ \E l \in RetryLanes : RWCrash(l) \/ RWShutdown(l) \/ RWClose(l)

Next ==
  \/ \E c \in Calls : TriggerCall(c) \/ CrashCaller(c)
  \/ WorkerStep
  \/ WorkerRestart
  \/ KeyExpires
  \/ Idle

Spec == Init /\ [][Next]_vars

(***************************************************************************)
(* Fairness: a request that has begun and a running consumer keep taking   *)
(* steps.  The counter is sure to expire only while it is at the limit:    *)
(* then nobody acquires a slot, nobody renews the TTL, and it runs out.    *)
(***************************************************************************)
Fairness ==
  /\ \A c \in Calls : WF_vars(TriggerCallStep(c))
  /\ \A p \in DispatchParts : WF_vars(CallWorkerStep(p))
  /\ \A p \in StatusParts : WF_vars(StatusWorkerStep(p))
  /\ \A l \in RetryLanes : WF_vars(RetryWorkerStep(l))
  /\ WF_vars(KeyExpires /\ ~SlotFree)

FairSpec == Spec /\ Fairness

-----------------------------------------------------------------------------
(* Properties *)

\* Every variable has its type.  The counters of the statistics row may go below
\* zero; the Redis counter may not, although its key expires under its holders.
TypeOK ==
  /\ dispatchT \in [DispatchParts -> Partition(DispatchMessage(Calls))]
  /\ statusT \in [StatusParts -> Partition(StatusMessage(Calls))]
  /\ retryT \in [RetryLanes -> Partition(DispatchMessage(Calls))]
  /\ trig \in [Calls -> TrigPcs]
  /\ cwPc \in [DispatchParts -> CallPcs]
  /\ cwOut \in [DispatchParts -> StatusMessage(Calls) \cup {NoOutcome}]
  /\ swPc \in [StatusParts -> StatusPcs]
  /\ rwPc \in [RetryLanes -> RetryPcs]
  /\ calls \in [Calls -> CallRow]
  /\ attemptRows \subseteq Calls \X Nat
  /\ stats \in StatsRow
  /\ slots \in Nat
  /\ stopping \subseteq Consumers
  /\ faults \in FaultLists

\* The attempts the policy of a call allows; the first one is never held back.
Allowed(c) == IF MaxAttempts[c] > 1 THEN MaxAttempts[c] ELSE 1

\* The messages on the dispatch topic that order an attempt of call c.
DispatchesOf(c) ==
  UNION {{<<p, i>> : i \in {j \in DOMAIN dispatchT[p].log : dispatchT[p].log[j].call = c}}
         : p \in DispatchParts}

\* Whatever is redelivered or fails, no attempt has a number beyond what the retry policy
\* allows (worker/call: Retryable only below MaxAttempts).  A redelivery or a write that
\* went through in spite of its error may repeat an attempt under the number it had; until
\* something fails nothing is repeated, and a call is dispatched at most as often as allowed.
AttemptBudget ==
  /\ \A m \in Written(dispatchT) : m.attempt \in 1..Allowed(m.call)
  /\ faults = <<>> => \A c \in Calls : Cardinality(DispatchesOf(c)) <= Allowed(c)

\* A repeated attempt has a cause: attempt n + 1 of a call is dispatched only if the
\* outcome of attempt n was published as a retryable failure, and attempt n was
\* dispatched in its turn (status worker line 110, retry worker line 112).
RetryFollowsFailure ==
  \A m \in Written(dispatchT) : m.attempt > 1 =>
     /\ \E s \in Written(statusT) :
           /\ s.call = m.call /\ s.attempt = m.attempt - 1
           /\ s.status = "failed" /\ s.retryable
     /\ \E d \in Written(dispatchT) : d.call = m.call /\ d.attempt = m.attempt - 1

\* A dispatch message the broker will not redeliver has left its outcome on the
\* status topic (worker/call: publish before commit).
CommittedDispatchHasStatus ==
  \A p \in DispatchParts : \A i \in 1..dispatchT[p].committed :
     \E s \in Written(statusT) :
        /\ s.call = dispatchT[p].log[i].call
        /\ s.attempt = dispatchT[p].log[i].attempt

\* What a consumed status message owes: the attempt is recorded, and a retry is
\* scheduled if it asks for one and there is a topic for it.
StatusApplied(m) ==
  /\ AttemptRow(m) \in attemptRows
  /\ m.retryable /\ HasRetryTopic(m.attempt) => RetryOf(m) \in Written(retryT)

\* A status message the broker will not redeliver has been applied (worker/status:
\* the commit comes after the writes).
CommittedStatusIsApplied ==
  \A p \in StatusParts : \A i \in 1..statusT[p].committed : StatusApplied(statusT[p].log[i])

\* A retry the broker will not redeliver is back on the dispatch topic (worker/retry:
\* DispatchCall before commit).  ARCHITECTURE.md: "The Retry Worker ensures that failed calls
\* are not lost and are retried"; a shutdown breaks it.
CommittedRetryIsRedispatched ==
  \A l \in RetryLanes : \A i \in 1..retryT[l].committed :
     Redispatch(retryT[l].log[i]) \in Written(dispatchT)

\* No call is lost between the services: whatever a consumer group has moved past
\* has been handed to the next stage.
NoCallLost ==
  CommittedDispatchHasStatus /\ CommittedStatusIsApplied /\ CommittedRetryIsRedispatched

HasStatus(d) ==
  \E s \in Written(statusT) : s.call = d.call /\ s.attempt = d.attempt

Redispatched(r) == Redispatch(r) \in Written(dispatchT)

\* How many messages of a topic its group has moved past without handing them on.
LostOf(topic, HandedOn(_)) ==
  Cardinality(UNION {{<<p, i>> : i \in {j \in 1..topic[p].committed : ~HandedOn(topic[p].log[j])}}
                     : p \in DOMAIN topic})

Losses == LostOf(dispatchT, HasStatus) + LostOf(statusT, StatusApplied) + LostOf(retryT, Redispatched)

\* An error of a store, of Redis or of Kafka costs one message at most, on whatever topic and
\* whatever else it makes the workers skip, log or do again; a death costs none.  A worker
\* that is told to stop may lose what it still reads (worker/retry line 108).
LossBounded ==
  (\A i \in DOMAIN faults : faults[i] # "shutdown")
     => Losses <= Cardinality({i \in DOMAIN faults : faults[i] # "crash"})

CallsWith(status) == {c \in Calls : calls[c].status = status}

\* When nothing is in progress the statistics row, the call rows and the attempt
\* rows tell the same story (TriggerCall, worker/status: separate stores, no
\* transaction spans them).
QuiescentStatsAgree ==
  Quiescent =>
    /\ stats = [total     |-> Cardinality({c \in Calls : trig[c] = "accepted"}),
                completed |-> Cardinality(CallsWith("completed")),
                failed    |-> Cardinality(CallsWith("failed")),
                pending   |-> 0,
                retries   |-> Cardinality({r \in attemptRows : r[2] > 1})]
    /\ attemptRows = UNION {{<<c, n>> : n \in 1..calls[c].attempts} : c \in Calls}

\* The call row shows an outcome that asks for no further attempt.
Settled(c) ==
  \E m \in Written(statusT) :
     /\ m.call = c /\ ~m.retryable
     /\ calls[c] = [status |-> m.status, attempts |-> m.attempt]

\* The topics, the workers and what they know are hidden.
Lifecycle == INSTANCE CallLifecycle WITH
  Calls <- Calls, MaxAttempts <- MaxAttempts, calls <- calls,
  settled <- {c \in Calls : Settled(c)}

\* While nothing fails a call goes through its attempts in order and once each to one last
\* outcome, although the statuses of one call are spread over partitions that different
\* workers handle, and UpdateCallStatus overwrites whatever it finds.
ImplementsLifecycle == Lifecycle!LifecycleSpec

\* A call whose trigger succeeded is settled sooner or later, also when workers die
\* in between and the slots they held are lost until the key expires.
AcceptedCallsSettle == \A c \in Calls : (trig[c] = "accepted") ~> Settled(c)

\* ARCHITECTURE.md: the retry cycle "continues until the call is successful or has
\* reached its maximum number of retries".
FailsOnlyWhenExhausted ==
  \A s \in Written(statusT) :
     s.status = "failed" /\ ~s.retryable => s.attempt >= MaxAttempts[s.call]

-----------------------------------------------------------------------------
(* Inductive strengthenings of the properties above *)

\* What holds of every message on a topic: attempts are numbered from one, the limit
\* a message carries is never above the policy's, and only a failure that leaves
\* budget is retryable.
BudgetedDispatch ==
  {m \in DispatchMessage(Calls) :
     /\ m.attempt >= 1
     /\ m.attempt = 1 \/ m.attempt <= MaxAttempts[m.call]
     /\ m.maxAttempts <= MaxAttempts[m.call]}

BudgetedStatus ==
  {m \in StatusMessage(Calls) :
     /\ m.attempt >= 1
     /\ m.maxAttempts <= MaxAttempts[m.call]
     /\ m.retryable => m.status = "failed" /\ m.attempt < MaxAttempts[m.call]}

BudgetedRetry ==
  {m \in DispatchMessage(Calls) : m.attempt > 1 /\ m.attempt <= MaxAttempts[m.call]}

HoldsDispatch(p) == cwPc[p] \in {"acquire", "dial", "publish", "commit"}

DispatchInv ==
  /\ dispatchT \in OrderedTopics(DispatchParts, BudgetedDispatch)
  /\ cwPc \in [DispatchParts -> CallPcs]
  /\ cwOut \in [DispatchParts -> BudgetedStatus \cup {NoOutcome}]
  /\ \A p \in DispatchParts :
        /\ HoldsDispatch(p) => dispatchT[p].fetched > 0
        /\ cwPc[p] = "publish" =>
             /\ cwOut[p] \in BudgetedStatus
             /\ cwOut[p].call = InFlight(dispatchT[p]).call
             /\ cwOut[p].attempt = InFlight(dispatchT[p]).attempt

StatusInv ==
  /\ statusT \in OrderedTopics(StatusParts, BudgetedStatus)
  /\ swPc \in [StatusParts -> StatusPcs]
  /\ \A p \in StatusParts : swPc[p] # "idle" => statusT[p].fetched > 0

RetryInv ==
  /\ retryT \in OrderedTopics(RetryLanes, BudgetedRetry)
  /\ rwPc \in [RetryLanes -> RetryPcs]
  /\ \A l \in RetryLanes : rwPc[l] # "idle" => retryT[l].fetched > 0

StoreInv ==
  /\ trig \in [Calls -> TrigPcs]
  /\ calls \in [Calls -> CallRow]
  /\ attemptRows \subseteq Calls \X Nat
  /\ stats \in StatsRow
  /\ slots \in Nat
  /\ stopping \subseteq Consumers
  /\ faults \in FaultLists

PipelineInv == DispatchInv /\ StatusInv /\ RetryInv /\ StoreInv

\* Where messages come from.
FailureBefore(m) ==
  \E s \in Written(statusT) :
     /\ s.call = m.call /\ s.attempt = m.attempt - 1
     /\ s.status = "failed" /\ s.retryable

DispatchOf(s) ==
  \E d \in Written(dispatchT) : d.call = s.call /\ d.attempt = s.attempt

ProvenanceInv ==
  /\ \A s \in Written(statusT) : DispatchOf(s)
  /\ \A r \in Written(retryT) : FailureBefore(r)
  /\ \A d \in Written(dispatchT) : d.attempt > 1 => FailureBefore(d)

\* The messages that consumers have given up: fetched, past the step that hands them on and
\* not handed on.  A status is handed on in two steps.
GaveUpDispatch(p, i) ==
  /\ i = dispatchT[p].fetched => cwPc[p] \notin {"acquire", "dial", "publish"}
  /\ ~HasStatus(dispatchT[p].log[i])

GaveUpStatus(p, i) ==
  IF i = statusT[p].fetched /\ swPc[p] \in {"update", "append", "stats", "retry"}
    THEN swPc[p] \in {"stats", "retry"} /\ AttemptRow(statusT[p].log[i]) \notin attemptRows
    ELSE ~StatusApplied(statusT[p].log[i])

GaveUpRetry(l, i) ==
  /\ i = retryT[l].fetched => rwPc[l] \notin {"wait", "dispatch"}
  /\ ~Redispatched(retryT[l].log[i])

DispatchesGivenUp ==
  UNION {{<<p, i>> : i \in {j \in 1..dispatchT[p].fetched : GaveUpDispatch(p, j)}} : p \in DispatchParts}
StatusesGivenUp ==
  UNION {{<<p, i>> : i \in {j \in 1..statusT[p].fetched : GaveUpStatus(p, j)}} : p \in StatusParts}
RetriesGivenUp ==
  UNION {{<<l, i>> : i \in {j \in 1..retryT[l].fetched : GaveUpRetry(l, j)}} : l \in RetryLanes}

\* The message a worker holds is not acked.
HeldUnacked ==
  /\ \A p \in DispatchParts : HoldsDispatch(p) => dispatchT[p].acked < dispatchT[p].fetched
  /\ \A p \in StatusParts : swPc[p] # "idle" => statusT[p].acked < statusT[p].fetched
  /\ \A l \in RetryLanes : rwPc[l] # "idle" => retryT[l].acked < retryT[l].fetched

NoShutdown == \A i \in DOMAIN faults : faults[i] # "shutdown"
Errors == {i \in DOMAIN faults : faults[i] # "crash"}

GivenUpFinite ==
  IsFiniteSet(DispatchesGivenUp) /\ IsFiniteSet(StatusesGivenUp) /\ IsFiniteSet(RetriesGivenUp)

\* Every message given up is paid for by an error of its own.
HandoffInv ==
  /\ faults \in Seq(FaultKinds)
  /\ NoShutdown =>
       /\ stopping = {}
       /\ HeldUnacked
       /\ GivenUpFinite
       /\ Cardinality(DispatchesGivenUp) + Cardinality(StatusesGivenUp) + Cardinality(RetriesGivenUp)
             <= Cardinality(Errors)
=============================================================================
