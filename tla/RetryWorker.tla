---------------------------- MODULE RetryWorker ----------------------------
(***************************************************************************)
(* The retry worker (internal/worker/retry/worker.go): one consumer per    *)
(* retry topic and partition.  It sleeps until the time the message names, *)
(* puts the embedded dispatch message back on the dispatch topic, and      *)
(* commits.  Time is not modelled: a sleep may end at any moment.          *)
(***************************************************************************)
EXTENDS PipelineState

RW(l) == <<"retry", l>>

RWGoto(l, pc) == rwPc' = [rwPc EXCEPT ![l] = pc]

RWFetch(l) ==
  /\ rwPc[l] = "idle"
  /\ HasNext(retryT[l])
  /\ retryT' = FetchMessage(retryT, l)
  /\ RWGoto(l, "wait")
  /\ NoFault
  /\ UNCHANGED <<dispatchT, statusT, storeVars, cwPc, cwOut, swPc, trig, slots, stopping>>

\* Altered form: the message is committed when its time has come, before the dispatch.
RWWaitThenCommit(l) ==
  /\ rwPc[l] = "wait"
  /\ retryT' = CommitMessages(retryT, l)
  /\ RWGoto(l, "dispatch")
  /\ NoFault
  /\ UNCHANGED <<dispatchT, statusT, storeVars, cwPc, cwOut, swPc, trig, slots, stopping>>

\* sleepUntil.  When the context is cancelled first, the message is committed
\* (or, if the cancelled commit loses its race, left) without being dispatched.
RWWait(l) ==
  /\ rwPc[l] = "wait"
  /\ \/ RWGoto(l, "dispatch") /\ UNCHANGED retryT
     \/ /\ RW(l) \in stopping
        /\ RWGoto(l, "idle")
        /\ retryT' \in {retryT, CommitMessages(retryT, l)}
  /\ NoFault
  /\ UNCHANGED <<dispatchT, statusT, storeVars, cwPc, cwOut, swPc, trig, slots, stopping>>

\* Altered form: the attempt is numbered again here, although the status worker has
\* done it.
RedispatchRenumbered(json) ==
  [call |-> json.call, attempt |-> json.attempt + 1, maxAttempts |-> json.maxAttempts]

Redispatch(json) == UnmarshalRetry(json).dispatch

\* An error leaves the message uncommitted and goes on with the next one.
RWDispatch(l) ==
  LET write(p) == WriteMessages(dispatchT, p, Redispatch(InFlight(retryT[l])))
  IN  /\ rwPc[l] = "dispatch"
      /\ \/ /\ NoFault
            /\ \E p \in DispatchParts : dispatchT' = write(p)
            /\ RWGoto(l, "commit")
         \/ /\ Failing("kafka", RW(l))
            /\ UNCHANGED dispatchT \/ \E p \in DispatchParts : dispatchT' = write(p)
            /\ RWGoto(l, "idle")
      /\ UNCHANGED <<statusT, retryT, storeVars, cwPc, cwOut, swPc, trig, slots, stopping>>

RWCommit(l) ==
  /\ rwPc[l] = "commit"
  /\ \/ retryT' = CommitMessages(retryT, l)
     \/ RW(l) \in stopping /\ UNCHANGED retryT
  /\ RWGoto(l, "idle")
  /\ NoFault
  /\ UNCHANGED <<dispatchT, statusT, storeVars, cwPc, cwOut, swPc, trig, slots, stopping>>

RetryWorkerStep(l) == RWFetch(l) \/ RWWait(l) \/ RWDispatch(l) \/ RWCommit(l)

RWCrash(l) ==
  /\ Fault("crash")
  /\ retryT' = Rejoin(retryT, l)
  /\ RWGoto(l, "idle")
  /\ stopping' = stopping \ {RW(l)}
  /\ UNCHANGED <<dispatchT, statusT, storeVars, cwPc, cwOut, swPc, trig, slots>>

RWShutdown(l) ==
  /\ RW(l) \notin stopping
  /\ Fault("shutdown")
  /\ stopping' = stopping \cup {RW(l)}
  /\ UNCHANGED <<topicVars, storeVars, workerVars, trig, slots>>

RWClose(l) ==
  /\ RW(l) \in stopping
  /\ rwPc[l] = "idle"
  /\ retryT' = CloseAndRejoin(retryT, l)
  /\ stopping' = stopping \ {RW(l)}
  /\ NoFault
  /\ UNCHANGED <<dispatchT, statusT, storeVars, workerVars, trig, slots>>

RWFlush(l) ==
  /\ retryT[l].committed # retryT[l].acked
  /\ retryT' = FlushCommits(retryT, l)
  /\ NoFault
  /\ UNCHANGED <<dispatchT, statusT, storeVars, workerVars, trig, slots, stopping>>
=============================================================================
