--------------------------- MODULE PipelineState ---------------------------
(***************************************************************************)
(* The state shared by the services that carry one campaign's calls: the   *)
(* Kafka topics, the call store, the campaign's statistics row and its     *)
(* Redis slot counter, and the progress of each TriggerCall and each       *)
(* consumer.                                                               *)
(*                                                                         *)
(* Every partition has a consumer of its own.  A worker process that is    *)
(* assigned several partitions handles them one after the other, which is  *)
(* one of the interleavings of the consumers here.                         *)
(***************************************************************************)
EXTENDS Kafka, Messages

CONSTANTS
  Calls,           \* call ids TriggerCall may create (each is used once)
  DispatchParts,   \* partitions of the call dispatch topic
  StatusParts,     \* partitions of the status topic
  RetryParts,      \* partitions of each retry topic
  NumRetryTopics,  \* how many retry topics are configured
  MaxAttempts,     \* per call, RetryPolicy.MaxAttempts when it was triggered
  Limit,           \* the campaign's concurrency limit, 0 for none
  FaultKinds,      \* which kinds of fault may happen
  MaxFaults        \* bound: how many faults a behaviour may have

AllFaultKinds == {"crash", "shutdown", "kafka", "redis", "scylla", "postgres"}

ASSUME ConstantsAssumption ==
  /\ NumRetryTopics \in Nat
  /\ MaxAttempts \in [Calls -> Nat]
  /\ Limit \in Nat
  /\ FaultKinds \subseteq AllFaultKinds
  /\ MaxFaults \in Nat

\* One retry consumer per partition of each retry topic.
RetryLanes == (1..NumRetryTopics) \X RetryParts

Consumers == ({"call"} \X DispatchParts) \cup ({"status"} \X StatusParts)
             \cup ({"retry"} \X RetryLanes)

VARIABLES
  dispatchT,    \* the dispatch topic
  statusT,      \* the status topic
  retryT,       \* the retry topics, by lane
  trig,         \* progress of the TriggerCall that creates the call
  cwPc, cwOut,  \* call workers: next step, and the status message to publish
  swPc,         \* status workers: next step
  rwPc,         \* retry workers: next step
  calls,        \* Scylla calls_by_campaign: status and attempt_count
  attemptRows,  \* Scylla call_attempts: primary keys present
  stats,        \* Postgres campaign_statistics row
  slots,        \* Redis counter of the campaign
  stopping,     \* consumers whose context has been cancelled
  faults        \* kinds of the faults so far

topicVars    == <<dispatchT, statusT, retryT>>
storeVars    == <<calls, attemptRows, stats>>
workerVars   == <<cwPc, cwOut, swPc, rwPc>>
vars == <<topicVars, storeVars, workerVars, trig, slots, stopping, faults>>

TrigPcs == {"ready", "count", "dispatch", "undo", "accepted", "rejected"}
CallPcs == {"idle", "acquire", "dial", "publish", "commit", "release"}
StatusPcs == {"idle", "update", "append", "stats", "retry", "commit"}
RetryPcs == {"idle", "wait", "dispatch", "commit"}

NoOutcome == [call |-> "none"]

CallRow == [status : {"absent", "queued"} \cup FinalStatuses, attempts : Nat]
StatsRow == [total : Int, completed : Int, failed : Int, pending : Int, retries : Int]
StatsOf(total, completed, failed, pending, retries) ==
  [total |-> total, completed |-> completed, failed |-> failed,
   pending |-> pending, retries |-> retries]

Init ==
  /\ dispatchT = [p \in DispatchParts |-> EmptyPartition]
  /\ statusT = [p \in StatusParts |-> EmptyPartition]
  /\ retryT = [l \in RetryLanes |-> EmptyPartition]
  /\ trig = [c \in Calls |-> "ready"]
  /\ cwPc = [p \in DispatchParts |-> "idle"]
  /\ cwOut = [p \in DispatchParts |-> NoOutcome]
  /\ swPc = [p \in StatusParts |-> "idle"]
  /\ rwPc = [l \in RetryLanes |-> "idle"]
  /\ calls = [c \in Calls |-> [status |-> "absent", attempts |-> 0]]
  /\ attemptRows = {}
  /\ stats = StatsOf(0, 0, 0, 0, 0)
  /\ slots = 0
  /\ stopping = {}
  /\ faults = <<>>

-----------------------------------------------------------------------------
(***************************************************************************)
(* A fault of the given kind, counted against the bound.                   *)
(***************************************************************************)
FaultLists == Seq(AllFaultKinds)

Fault(kind) ==
  /\ kind \in FaultKinds
  /\ Len(faults) < MaxFaults
  /\ faults' = Append(faults, kind)

NoFault == UNCHANGED faults

\* An operation of consumer w may fail because its backend does, or because the
\* context it was given is cancelled (shutdown).
Failing(kind, w) == Fault(kind) \/ (w \in stopping /\ NoFault)

\* The statistics row after ApplyDelta; the update is one atomic SQL statement.
ApplyDelta(delta) == [f \in DOMAIN stats |-> stats[f] + delta[f]]
=============================================================================
