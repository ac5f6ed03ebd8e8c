---------------------------- MODULE CallService ----------------------------
(***************************************************************************)
(* TriggerCall of internal/service/call/service.go, run by the API for a   *)
(* request and by the scheduler for a target.  The checks before the first *)
(* write (phone number, campaign, target list) return without an effect;   *)
(* a call that passes them goes through three writes to three stores.      *)
(***************************************************************************)
EXTENDS PipelineState

CountDelta == StatsOf(1, 0, 0, 1, 0)
UndoDelta  == StatsOf(0, 0, 0, -1, 0)

QueuedRow == [status |-> "queued", attempts |-> 0]

FirstDispatch(c) == [call |-> c, attempt |-> 1, maxAttempts |-> MaxAttempts[c]]

\* CreateCall.  On an error the row may or may not be there; the caller gets the error.
CreateCall(c) ==
  /\ trig[c] = "ready"
  /\ \/ /\ NoFault
        /\ calls' = [calls EXCEPT ![c] = QueuedRow]
        /\ trig' = [trig EXCEPT ![c] = "count"]
     \/ /\ Fault("scylla")
        /\ calls' \in {calls, [calls EXCEPT ![c] = QueuedRow]}
        /\ trig' = [trig EXCEPT ![c] = "rejected"]
  /\ UNCHANGED <<topicVars, attemptRows, stats, workerVars, slots, stopping>>

CountCall(c) ==
  /\ trig[c] = "count"
  /\ \/ /\ NoFault
        /\ stats' = ApplyDelta(CountDelta)
        /\ trig' = [trig EXCEPT ![c] = "dispatch"]
     \/ /\ Fault("postgres")
        /\ stats' \in {stats, ApplyDelta(CountDelta)}
        /\ trig' = [trig EXCEPT ![c] = "rejected"]
  /\ UNCHANGED <<topicVars, calls, attemptRows, workerVars, slots, stopping>>

\* DispatchCall.  A write that reports an error may still have reached the broker.  When
\* the error is that the caller's context was cancelled, the undo fails with it.
EnqueueCall(c) ==
  /\ trig[c] = "dispatch"
  /\ \/ /\ NoFault
        /\ \E p \in DispatchParts :
              dispatchT' = WriteMessages(dispatchT, p, FirstDispatch(c))
        /\ trig' = [trig EXCEPT ![c] = "accepted"]
     \/ /\ Fault("kafka")
        /\ \/ UNCHANGED dispatchT
           \/ \E p \in DispatchParts :
                 dispatchT' = WriteMessages(dispatchT, p, FirstDispatch(c))
        /\ \E next \in {"undo", "rejected"} : trig' = [trig EXCEPT ![c] = next]
  /\ UNCHANGED <<statusT, retryT, storeVars, workerVars, slots, stopping>>

\* After a dispatch error the pending counter is taken back; its own error is dropped.
UndoPending(c) ==
  /\ trig[c] = "undo"
  /\ \/ NoFault /\ stats' = ApplyDelta(UndoDelta)
     \/ Fault("postgres") /\ stats' \in {stats, ApplyDelta(UndoDelta)}
  /\ trig' = [trig EXCEPT ![c] = "rejected"]
  /\ UNCHANGED <<topicVars, calls, attemptRows, workerVars, slots, stopping>>

\* The process dies between two of the writes; nobody takes the request over.
CrashCaller(c) ==
  /\ trig[c] \in {"count", "dispatch", "undo"}
  /\ Fault("crash")
  /\ trig' = [trig EXCEPT ![c] = "rejected"]
  /\ UNCHANGED <<topicVars, storeVars, workerVars, slots, stopping>>

\* The rest of a TriggerCall that has started.
TriggerCallStep(c) == CountCall(c) \/ EnqueueCall(c) \/ UndoPending(c)

TriggerCall(c) == CreateCall(c) \/ TriggerCallStep(c)
=============================================================================
