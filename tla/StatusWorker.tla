---------------------------- MODULE StatusWorker ----------------------------
(***************************************************************************)
(* The status worker (internal/worker/status/worker.go): one consumer per  *)
(* partition of the status topic.  Each message goes through four writes   *)
(* to three stores.  An error of any of them is logged, and the worker     *)
(* goes on to the next write and commits the message at the end, so a      *)
(* write that fails after it took effect looks like one that succeeded.    *)
(***************************************************************************)
EXTENDS PipelineState

SW(p) == <<"status", p>>

SWMsg(p) == InFlight(statusT[p])

SWGoto(p, pc) == swPc' = [swPc EXCEPT ![p] = pc]

SWFetch(p) ==
  /\ swPc[p] = "idle"
  /\ HasNext(statusT[p])
  /\ statusT' = FetchMessage(statusT, p)
  /\ SWGoto(p, "update")
  /\ NoFault
  /\ UNCHANGED <<dispatchT, retryT, storeVars, cwPc, cwOut, rwPc, trig, slots, stopping>>

\* UpdateCallStatus overwrites the row, whatever it holds; a missing row is an error.
UpdatedCalls(msg) ==
  [calls EXCEPT ![msg.call] =
     IF @.status = "absent" THEN @
     ELSE [status |-> msg.status, attempts |-> msg.attempt]]

SWUpdate(p) ==
  /\ swPc[p] = "update"
  /\ \/ NoFault /\ calls' = UpdatedCalls(SWMsg(p))
     \/ Failing("scylla", SW(p)) /\ UNCHANGED calls
  /\ SWGoto(p, "append")
  /\ UNCHANGED <<topicVars, attemptRows, stats, cwPc, cwOut, rwPc, trig, slots, stopping>>

\* AppendAttempt is an upsert on (call_id, attempt_number).
AttemptRow(msg) == <<msg.call, msg.attempt>>

SWAppend(p) ==
  LET rows == attemptRows \cup {AttemptRow(SWMsg(p))}
  IN  /\ swPc[p] = "append"
      /\ \/ NoFault /\ attemptRows' = rows
         \/ Failing("scylla", SW(p)) /\ UNCHANGED attemptRows
      /\ SWGoto(p, "stats")
      /\ UNCHANGED <<topicVars, calls, stats, cwPc, cwOut, rwPc, trig, slots, stopping>>

\* Altered form: every failure is counted, also one that will be retried.
DeltaEveryFailure(msg) ==
  LET completed == IF msg.status = "completed" THEN 1 ELSE 0
      failed    == IF msg.status = "failed" THEN 1 ELSE 0
      retries   == IF msg.attempt > 1 THEN 1 ELSE 0
  IN  StatsOf(0, completed, failed, -(completed + failed), retries)

StatsDelta(msg) ==
  LET completed == IF msg.status = "completed" THEN 1 ELSE 0
      failed    == IF msg.status = "failed" /\ ~msg.retryable THEN 1 ELSE 0
      retries   == IF msg.attempt > 1 THEN 1 ELSE 0
  IN  StatsOf(0, completed, failed, -(completed + failed), retries)

SWStats(p) ==
  LET updated == ApplyDelta(StatsDelta(SWMsg(p)))
  IN  /\ swPc[p] = "stats"
      /\ \/ NoFault /\ stats' = updated
         \/ Failing("postgres", SW(p)) /\ UNCHANGED stats
      /\ SWGoto(p, "retry")
      /\ UNCHANGED <<topicVars, calls, attemptRows, cwPc, cwOut, rwPc, trig, slots, stopping>>

NextDispatch(msg) ==
  [call |-> msg.call, attempt |-> msg.attempt + 1, maxAttempts |-> msg.maxAttempts]

RetryOf(msg) == MarshalRetry(RetryMessage(NextDispatch(msg), msg.maxAttempts))

\* ScheduleRetry writes to the retry topic of the attempt, if there is one.
HasRetryTopic(attempt) == attempt \in 1..NumRetryTopics

ScheduleRetry(msg) ==
  \E q \in RetryParts : retryT' = WriteMessages(retryT, <<msg.attempt, q>>, RetryOf(msg))

SWRetry(p) ==
  LET msg   == SWMsg(p)
      sends == msg.retryable /\ HasRetryTopic(msg.attempt)
  IN  /\ swPc[p] = "retry"
      /\ \/ ~sends /\ NoFault /\ UNCHANGED retryT
         \/ sends /\ NoFault /\ ScheduleRetry(msg)
         \/ sends /\ Failing("kafka", SW(p)) /\ UNCHANGED retryT
      /\ SWGoto(p, "commit")
      /\ UNCHANGED <<dispatchT, statusT, storeVars, cwPc, cwOut, rwPc, trig, slots, stopping>>

SWCommit(p) ==
  /\ swPc[p] = "commit"
  /\ \/ statusT' = CommitMessages(statusT, p)
     \/ SW(p) \in stopping /\ UNCHANGED statusT
  /\ SWGoto(p, "idle")
  /\ NoFault
  /\ UNCHANGED <<dispatchT, retryT, storeVars, cwPc, cwOut, rwPc, trig, slots, stopping>>

StatusWorkerStep(p) ==
  \/ SWFetch(p) \/ SWUpdate(p) \/ SWAppend(p)
  \/ SWStats(p) \/ SWRetry(p) \/ SWCommit(p)

SWCrash(p) ==
  /\ Fault("crash")
  /\ statusT' = Rejoin(statusT, p)
  /\ SWGoto(p, "idle")
  /\ stopping' = stopping \ {SW(p)}
  /\ UNCHANGED <<dispatchT, retryT, storeVars, cwPc, cwOut, rwPc, trig, slots>>

SWShutdown(p) ==
  /\ SW(p) \notin stopping
  /\ Fault("shutdown")
  /\ stopping' = stopping \cup {SW(p)}
  /\ UNCHANGED <<topicVars, storeVars, workerVars, trig, slots>>

SWClose(p) ==
  /\ SW(p) \in stopping
  /\ swPc[p] = "idle"
  /\ statusT' = CloseAndRejoin(statusT, p)
  /\ stopping' = stopping \ {SW(p)}
  /\ NoFault
  /\ UNCHANGED <<dispatchT, retryT, storeVars, workerVars, trig, slots>>

SWFlush(p) ==
  /\ statusT[p].committed # statusT[p].acked
  /\ statusT' = FlushCommits(statusT, p)
  /\ NoFault
  /\ UNCHANGED <<dispatchT, retryT, storeVars, workerVars, trig, slots, stopping>>
=============================================================================
