----------------------------- MODULE CallWorker -----------------------------
(***************************************************************************)
(* The call worker (internal/worker/call/worker.go): one consumer per      *)
(* partition of the dispatch topic.  processMessage waits for one of the   *)
(* campaign's slots, places the call, publishes the outcome, commits the   *)
(* message and gives the slot back.                                        *)
(***************************************************************************)
EXTENDS PipelineState

CW(p) == <<"call", p>>

CWGoto(p, pc) == cwPc' = [cwPc EXCEPT ![p] = pc]

\* Altered form: ReadMessage, which commits what it hands out.
CWRead(p) ==
  /\ cwPc[p] = "idle"
  /\ HasNext(dispatchT[p])
  /\ dispatchT' = CommitMessages(FetchMessage(dispatchT, p), p)
  /\ CWGoto(p, "acquire")
  /\ NoFault
  /\ UNCHANGED <<statusT, retryT, storeVars, cwOut, swPc, rwPc, trig, slots, stopping>>

CWFetch(p) ==
  /\ cwPc[p] = "idle"
  /\ HasNext(dispatchT[p])
  /\ dispatchT' = FetchMessage(dispatchT, p)
  /\ CWGoto(p, "acquire")
  /\ NoFault
  /\ UNCHANGED <<statusT, retryT, storeVars, cwOut, swPc, rwPc, trig, slots, stopping>>

\* The Lua script of Limiter.Acquire, one atomic step in Redis.
SlotFree == Limit = 0 \/ slots < Limit
AcquireSlot == IF Limit = 0 THEN slots ELSE slots + 1

\* Altered form: no test for an expired counter.
ReleaseUnchecked == slots - 1

\* The Lua script of Limiter.Release.
ReleaseSlot == IF slots <= 0 THEN 0 ELSE slots - 1

\* waitForSlot.  A worker that finds no free slot polls again.  An error ends
\* processMessage without a commit, and the script may have run nevertheless.
CWAcquire(p) ==
  /\ cwPc[p] = "acquire"
  /\ \/ /\ NoFault
        /\ SlotFree
        /\ slots' = AcquireSlot
        /\ CWGoto(p, "dial")
     \/ /\ Limit # 0
        /\ Failing("redis", CW(p))
        /\ UNCHANGED slots \/ (SlotFree /\ slots' = AcquireSlot)
        /\ CWGoto(p, "idle")
  /\ UNCHANGED <<topicVars, storeVars, cwOut, swPc, rwPc, trig, stopping>>

CWDial(p) ==
  /\ cwPc[p] = "dial"
  /\ \E result \in PlaceCall :
        cwOut' = [cwOut EXCEPT ![p] = StatusOf(InFlight(dispatchT[p]), result)]
  /\ CWGoto(p, "publish")
  /\ NoFault
  /\ UNCHANGED <<topicVars, storeVars, swPc, rwPc, trig, slots, stopping>>

\* PublishStatus.  An error is logged and the message is committed all the same.
CWPublish(p) ==
  /\ cwPc[p] = "publish"
  /\ \/ /\ NoFault
        /\ \E q \in StatusParts : statusT' = WriteMessages(statusT, q, cwOut[p])
     \/ /\ Failing("kafka", CW(p))
        /\ UNCHANGED statusT
  /\ cwOut' = [cwOut EXCEPT ![p] = NoOutcome]
  /\ CWGoto(p, "commit")
  /\ UNCHANGED <<dispatchT, retryT, storeVars, swPc, rwPc, trig, slots, stopping>>

\* With a cancelled context the offset may not be queued.
CWCommit(p) ==
  /\ cwPc[p] = "commit"
  /\ \/ dispatchT' = CommitMessages(dispatchT, p)
     \/ CW(p) \in stopping /\ UNCHANGED dispatchT
  /\ CWGoto(p, IF Limit = 0 THEN "idle" ELSE "release")
  /\ NoFault
  /\ UNCHANGED <<statusT, retryT, storeVars, cwOut, swPc, rwPc, trig, slots, stopping>>

\* The deferred release runs with a context of its own; its error is logged.
CWRelease(p) ==
  /\ cwPc[p] = "release"
  /\ \/ NoFault /\ slots' = ReleaseSlot
     \/ Fault("redis") /\ UNCHANGED slots
  /\ CWGoto(p, "idle")
  /\ UNCHANGED <<topicVars, storeVars, cwOut, swPc, rwPc, trig, stopping>>

CallWorkerStep(p) ==
  \/ CWFetch(p) \/ CWAcquire(p) \/ CWDial(p)
  \/ CWPublish(p) \/ CWCommit(p) \/ CWRelease(p)

\* The process dies; a slot it holds stays counted in Redis.
CWCrash(p) ==
  /\ Fault("crash")
  /\ dispatchT' = Rejoin(dispatchT, p)
  /\ CWGoto(p, "idle")
  /\ cwOut' = [cwOut EXCEPT ![p] = NoOutcome]
  /\ stopping' = stopping \ {CW(p)}
  /\ UNCHANGED <<statusT, retryT, storeVars, swPc, rwPc, trig, slots>>

CWShutdown(p) ==
  /\ CW(p) \notin stopping
  /\ Fault("shutdown")
  /\ stopping' = stopping \cup {CW(p)}
  /\ UNCHANGED <<topicVars, storeVars, workerVars, trig, slots>>

\* Run returns when FetchMessage reports the cancelled context.
CWClose(p) ==
  /\ CW(p) \in stopping
  /\ cwPc[p] = "idle"
  /\ dispatchT' = CloseAndRejoin(dispatchT, p)
  /\ stopping' = stopping \ {CW(p)}
  /\ NoFault
  /\ UNCHANGED <<statusT, retryT, storeVars, workerVars, trig, slots>>

CWFlush(p) ==
  /\ dispatchT[p].committed # dispatchT[p].acked
  /\ dispatchT' = FlushCommits(dispatchT, p)
  /\ NoFault
  /\ UNCHANGED <<statusT, retryT, storeVars, workerVars, trig, slots, stopping>>

\* Altered form: the key has no TTL.
KeyStays == FALSE /\ UNCHANGED vars

(***************************************************************************)
(* Redis drops the counter when its TTL runs out.  Acquire renews the TTL, *)
(* Release does not; how long that takes against how long a slot is held   *)
(* is the subject of module Limiter, so here it may happen at any time.    *)
(***************************************************************************)
KeyExpires ==
  /\ slots > 0
  /\ slots' = 0
  /\ NoFault
  /\ UNCHANGED <<topicVars, storeVars, workerVars, trig, stopping>>
=============================================================================
