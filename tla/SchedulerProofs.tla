-------------------------- MODULE SchedulerProofs --------------------------
(***************************************************************************)
(* Safety of the scheduler for any number of targets, any batch size and   *)
(* any number of faults.                                                   *)
(***************************************************************************)
EXTENDS Scheduler, CountingProofs, TLAPS

LEMMA InitiallyTyped == Init => VariablesTyped
<1> SUFFICES ASSUME Init PROVE VariablesTyped
  OBVIOUS
<1>1. /\ state \in [Targets -> {"absent", "pending", "queued"}]
      /\ dials \in [Targets -> Nat]
      /\ pc \in [Schedulers -> Pcs]
  BY DEF Init, Pcs
<1>2. /\ batch \in [Schedulers -> SUBSET Targets]
      /\ failed \in [Schedulers -> SUBSET Targets]
  BY DEF Init
<1> QED
  BY <1>1, <1>2 DEF Init, VariablesTyped

LEMMA SchedulerTypeStep ==
  ASSUME VariablesTyped, [Next]_vars
  PROVE  VariablesTyped'
<1> USE SchedulerAssumption DEF VariablesTyped, envVars, Pcs
<1>1. ASSUME NEW T \in SUBSET Targets, AddTargets(T)
      PROVE  VariablesTyped'
  BY <1>1 DEF AddTargets
<1>2. CASE DueChanges
  BY <1>2 DEF DueChanges
<1>3. CASE RetryTopicsChange
  BY <1>3 DEF RetryTopicsChange
<1>4. ASSUME NEW s \in Schedulers, HasPendingRetries(s)
      PROVE  VariablesTyped'
  BY <1>4 DEF HasPendingRetries, Goto
<1>5. ASSUME NEW s \in Schedulers, ListCampaigns(s)
      PROVE  VariablesTyped'
  BY <1>5 DEF ListCampaigns, Goto, NoFault, Failing, Fault
<1>6. ASSUME NEW s \in Schedulers, NextBatchForScheduling(s)
      PROVE  VariablesTyped'
  <2>1. \A B \in NextBatches : B \subseteq Targets
    BY DEF NextBatches, Pending
  <2>2. batch' \in [Schedulers -> SUBSET Targets] /\ pc' \in [Schedulers -> Pcs]
    BY <1>6, <2>1 DEF NextBatchForScheduling, Goto
  <2> QED
    BY <1>6, <2>2 DEF NextBatchForScheduling, NoFault, Failing, Fault
<1>7. ASSUME NEW s \in Schedulers, MarkScheduled(s)
      PROVE  VariablesTyped'
  BY <1>7 DEF MarkScheduled, Marked, Goto, NoFault, Failing, Fault
<1>8. ASSUME NEW s \in Schedulers, TriggerCall(s)
      PROVE  VariablesTyped'
  BY <1>8 DEF TriggerCall, CallTarget, RefuseTarget, Goto, NoFault, Failing, Fault
<1>9. ASSUME NEW s \in Schedulers, ResetFailed(s)
      PROVE  VariablesTyped'
  BY <1>9 DEF ResetFailed, Goto, NoFault, Failing, Fault
<1>10. ASSUME NEW s \in Schedulers, Crash(s) \/ Shutdown(s) \/ Restart(s)
       PROVE  VariablesTyped'
  BY <1>10 DEF Crash, Shutdown, Restart, Goto, Fault
<1>11. CASE UNCHANGED vars
  BY <1>11 DEF vars
<1> QED
  BY <1>1, <1>2, <1>3, <1>4, <1>5, <1>6, <1>7, <1>8, <1>9, <1>10, <1>11 DEF Next, Tick

-----------------------------------------------------------------------------
\* The hands of the schedulers are empty outside of a batch.
LEMMA HandsStep ==
  ASSUME VariablesTyped, HandsInv, [Next]_vars
  PROVE  HandsInv'
<1> USE DEF VariablesTyped, HandsInv, Pcs, envVars
<1>1. ASSUME NEW s \in Schedulers, HasPendingRetries(s) \/ ListCampaigns(s)
      PROVE  HandsInv'
  BY <1>1 DEF HasPendingRetries, ListCampaigns, Goto
<1>2. ASSUME NEW s \in Schedulers, NextBatchForScheduling(s)
      PROVE  HandsInv'
  BY <1>2 DEF NextBatchForScheduling, Goto
<1>3. ASSUME NEW s \in Schedulers, MarkScheduled(s)
      PROVE  HandsInv'
  BY <1>3 DEF MarkScheduled, Goto
<1>4. ASSUME NEW s \in Schedulers, TriggerCall(s)
      PROVE  HandsInv'
  <2>1. PICK t \in batch[s] :
           /\ failed' \in {failed, [failed EXCEPT ![s] = @ \cup {t}]}
           /\ batch' = [batch EXCEPT ![s] = @ \ {t}]
           /\ Goto(s, IF batch[s] # {t} THEN "trigger"
                      ELSE IF failed'[s] = {} THEN "idle" ELSE "reset")
    BY <1>4 DEF TriggerCall, CallTarget, RefuseTarget
  <2> QED
    BY <1>4, <2>1 DEF TriggerCall, Goto
<1>5. ASSUME NEW s \in Schedulers, ResetFailed(s)
      PROVE  HandsInv'
  BY <1>5 DEF ResetFailed, Goto
<1>6. ASSUME NEW s \in Schedulers, Crash(s)
      PROVE  HandsInv'
  BY <1>6 DEF Crash, Goto
<1>7. CASE UNCHANGED <<pc, batch, failed>>
  BY <1>7
<1> QED
  BY <1>1, <1>2, <1>3, <1>4, <1>5, <1>6, <1>7
     DEF Next, Tick, AddTargets, DueChanges, RetryTopicsChange, Shutdown, Restart, vars

\* Type correctness and empty hands outside of a batch, under every kind of fault.
THEOREM SchedulerTypeCorrect == Spec => []SchedulerTypeOK
<1>1. Init => SchedulerTypeOK
  BY InitiallyTyped DEF Init, SchedulerTypeOK, HandsInv
<1>2. SchedulerTypeOK /\ [Next]_vars => SchedulerTypeOK'
  BY SchedulerTypeStep, HandsStep DEF SchedulerTypeOK
<1> QED
  BY <1>1, <1>2, PTL DEF Spec

-----------------------------------------------------------------------------
\* With clean rejections as the only faults, an operation that fails is a rejection.
LEMMA OnlyRejections ==
  ASSUME FaultKinds \subseteq {"reject"}, stopping = {}, NEW s
  PROVE  /\ ~Failing("postgres", s) /\ ~Failing("kafka", s)
         /\ ~Crash(s) /\ ~Shutdown(s) /\ ~Restart(s)
BY DEF Failing, Fault, Crash, Shutdown, Restart

\* What TriggerCall does then: it dials the target, or puts it with the failed ones.
LEMMA CleanTrigger ==
  ASSUME FaultKinds \subseteq {"reject"}, stopping = {},
         NEW s \in Schedulers, TriggerCall(s)
  PROVE  \E t \in batch[s] :
            /\ \/ dials' = [dials EXCEPT ![t] = @ + 1] /\ failed' = failed
               \/ dials' = dials /\ failed' = [failed EXCEPT ![s] = @ \cup {t}]
            /\ batch' = [batch EXCEPT ![s] = @ \ {t}]
            /\ pc' \in {[pc EXCEPT ![s] = step] : step \in {"trigger", "idle", "reset"}}
            /\ state' = state /\ stopping' = stopping
BY OnlyRejections DEF TriggerCall, CallTarget, RefuseTarget, Goto

LEMMA KeptStep ==
  ASSUME FaultKinds \subseteq {"reject"}, KeptInv, [Next]_vars
  PROVE  KeptInv'
<1>1. VariablesTyped' /\ HandsInv'
  BY SchedulerTypeStep, HandsStep DEF KeptInv
<1>2. stopping' = {} /\ NoTargetForgotten'
  <2> USE DEF KeptInv, VariablesTyped, HandsInv, NoTargetForgotten, Forgotten, envVars
  <2>1. ASSUME NEW T \in SUBSET Targets, AddTargets(T)
        PROVE  stopping' = {} /\ NoTargetForgotten'
    BY <2>1 DEF AddTargets
  <2>2. ASSUME NEW s \in Schedulers, HasPendingRetries(s) \/ ListCampaigns(s)
        PROVE  stopping' = {} /\ NoTargetForgotten'
    BY <2>2 DEF HasPendingRetries, ListCampaigns
  <2>3. ASSUME NEW s \in Schedulers, NextBatchForScheduling(s)
        PROVE  stopping' = {} /\ NoTargetForgotten'
    <3>1. PICK B \in NextBatches : batch' = [batch EXCEPT ![s] = B]
      BY <2>3, OnlyRejections DEF NextBatchForScheduling
    <3>2. batch[s] = {}
      BY <2>3 DEF NextBatchForScheduling
    <3> QED
      BY <2>3, <3>1, <3>2 DEF NextBatchForScheduling
  <2>4. ASSUME NEW s \in Schedulers, MarkScheduled(s)
        PROVE  stopping' = {} /\ NoTargetForgotten'
    BY <2>4, OnlyRejections DEF MarkScheduled, Marked
  <2>5. ASSUME NEW s \in Schedulers, TriggerCall(s)
        PROVE  stopping' = {} /\ NoTargetForgotten'
    BY <2>5, CleanTrigger
  <2>6. ASSUME NEW s \in Schedulers, ResetFailed(s)
        PROVE  stopping' = {} /\ NoTargetForgotten'
    BY <2>6, OnlyRejections DEF ResetFailed
  <2>7. CASE UNCHANGED <<state, dials, batch, failed, stopping>>
    BY <2>7
  <2> QED
    BY <2>1, <2>2, <2>3, <2>4, <2>5, <2>6, <2>7, OnlyRejections
       DEF Next, Tick, DueChanges, RetryTopicsChange, vars
<1> QED
  BY <1>1, <1>2 DEF KeptInv

\* While the only faults are triggers that fail before the dispatch, no number of
\* schedulers makes the others forget a target.
THEOREM MarkedTargetsHandled ==
  ASSUME FaultKinds \subseteq {"reject"}
  PROVE  Spec => []NoTargetForgotten
<1>1. Init => KeptInv
  BY InitiallyTyped DEF Init, KeptInv, HandsInv, NoTargetForgotten, Forgotten
<1>2. KeptInv /\ [Next]_vars => KeptInv'
  BY KeptStep
<1>3. KeptInv => NoTargetForgotten
  BY DEF KeptInv
<1> QED
  BY <1>1, <1>2, <1>3, PTL DEF Spec

-----------------------------------------------------------------------------
LEMMA OnceStep ==
  ASSUME FaultKinds \subseteq {"reject"}, \A s, u \in Schedulers : s = u,
         OnceInv, [Next]_vars
  PROVE  OnceInv'
<1> DEFINE Once == /\ stopping = {}
                   /\ \A t \in Targets :
                         /\ dials[t] <= 1
                         /\ dials[t] = 1 =>
                              /\ state[t] = "queued"
                              /\ \A s \in Schedulers : t \notin batch[s] \cup failed[s]
                   /\ \A s \in Schedulers :
                         pc[s] = "trigger" => \A t \in batch[s] : state[t] = "queued"
<1>1. VariablesTyped' /\ HandsInv'
  BY SchedulerTypeStep, HandsStep DEF OnceInv
<1>2. Once'
  <2> USE DEF OnceInv, VariablesTyped, HandsInv, envVars
  <2>1. ASSUME NEW T \in SUBSET Targets, AddTargets(T)
        PROVE  Once'
    BY <2>1 DEF AddTargets
  <2>2. ASSUME NEW s \in Schedulers, HasPendingRetries(s) \/ ListCampaigns(s)
        PROVE  Once'
    BY <2>2 DEF HasPendingRetries, ListCampaigns, Goto
  <2>3. ASSUME NEW s \in Schedulers, NextBatchForScheduling(s)
        PROVE  Once'
    <3>1. PICK B \in NextBatches :
             /\ batch' = [batch EXCEPT ![s] = B]
             /\ pc' = [pc EXCEPT ![s] = IF B = {} THEN "idle" ELSE "mark"]
      BY <2>3, OnlyRejections DEF NextBatchForScheduling, Goto
    <3>2. \A t \in B : t \in Targets /\ state[t] = "pending"
      BY DEF NextBatches, Pending
    <3> QED
      BY <2>3, <3>1, <3>2 DEF NextBatchForScheduling
  <2>4. ASSUME NEW s \in Schedulers, MarkScheduled(s)
        PROVE  Once'
    BY <2>4, OnlyRejections DEF MarkScheduled, Marked, Goto
  <2>5. ASSUME NEW s \in Schedulers, TriggerCall(s)
        PROVE  Once'
    <3>1. PICK t \in batch[s] :
            /\ \/ dials' = [dials EXCEPT ![t] = @ + 1] /\ failed' = failed
               \/ dials' = dials /\ failed' = [failed EXCEPT ![s] = @ \cup {t}]
            /\ batch' = [batch EXCEPT ![s] = @ \ {t}]
            /\ state' = state /\ stopping' = stopping
      BY <2>5, CleanTrigger
    <3>2. pc[s] = "trigger" /\ state[t] = "queued" /\ t \in Targets
      BY <2>5, <3>1 DEF TriggerCall
    <3>3. dials[t] = 0
      BY <3>1, <3>2
    <3>4. t \notin failed[s]
      BY <3>1
    <3>5. CASE dials' = [dials EXCEPT ![t] = @ + 1] /\ failed' = failed
      BY <3>1, <3>2, <3>3, <3>4, <3>5
    <3>6. CASE dials' = dials /\ failed' = [failed EXCEPT ![s] = @ \cup {t}]
      BY <3>1, <3>2, <3>3, <3>6
    <3> QED
      BY <3>1, <3>5, <3>6
  <2>6. ASSUME NEW s \in Schedulers, ResetFailed(s)
        PROVE  Once'
    BY <2>6, OnlyRejections DEF ResetFailed, Goto
  <2>7. CASE UNCHANGED <<state, dials, pc, batch, failed, stopping>>
    BY <2>7
  <2> QED
    BY <2>1, <2>2, <2>3, <2>4, <2>5, <2>6, <2>7, OnlyRejections
       DEF Next, Tick, DueChanges, RetryTopicsChange, vars
<1> QED
  BY <1>1, <1>2 DEF OnceInv

\* A single scheduler never dials a target twice, although it puts failed ones back.
THEOREM OneSchedulerDialsOnce ==
  ASSUME FaultKinds \subseteq {"reject"}, \A s, u \in Schedulers : s = u
  PROVE  Spec => []DialledAtMostOnce
<1>1. Init => OnceInv
  BY InitiallyTyped DEF Init, OnceInv, HandsInv
<1>2. OnceInv /\ [Next]_vars => OnceInv'
  BY OnceStep
<1>3. OnceInv => DialledAtMostOnce
  BY DEF OnceInv, DialledAtMostOnce
<1> QED
  BY <1>1, <1>2, <1>3, PTL DEF Spec

-----------------------------------------------------------------------------
(* How often a target is dialled.  A step leaves a target's dials, its wait and
   its holders alone or takes from them, unless it marks the target, dials it or
   puts it back; who may put it back grows with a fault only. *)

Calm(t) ==
  /\ dials'[t] = dials[t]
  /\ state[t] = "queued" => state'[t] = "queued"
  /\ Holders(t)' \subseteq Holders(t)

Marking(t) == dials'[t] = dials[t] /\ state[t] # "queued" /\ state'[t] = "queued"

Dialling(t) ==
  /\ dials'[t] = dials[t] + 1 /\ state'[t] = state[t]
  /\ \E s \in Holders(t) : Holders(t)' \subseteq Holders(t) \ {s}

Freely(t) == faults' = faults /\ Undoers(t)' \subseteq Undoers(t)

AtACost(t) ==
  /\ faults' = faults + 1
  /\ \E s \in Schedulers : Undoers(t)' \subseteq Undoers(t) \cup {s}

PuttingBack(t) ==
  /\ faults' = faults
  /\ dials'[t] = dials[t]
  /\ Holders(t)' \subseteq Holders(t)
  /\ \E s \in Undoers(t) : Undoers(t)' \subseteq Undoers(t) \ {s}

\* A failing operation costs a fault, or its scheduler has been told to stop.
LEMMA FailingCost ==
  ASSUME NEW kind, NEW s, Failing(kind, s)
  PROVE  faults' = faults + 1 \/ (faults' = faults /\ s \in stopping)
BY DEF Failing, Fault, NoFault

LEMMA EarlySteps ==
  ASSUME VariablesTyped, HandsInv, NEW t \in Targets, NEW s \in Schedulers,
         HasPendingRetries(s) \/ ListCampaigns(s) \/ NextBatchForScheduling(s)
  PROVE  Calm(t) /\ (Freely(t) \/ AtACost(t))
<1> USE DEF VariablesTyped, HandsInv, Pcs, envVars
<1>1. dials' = dials /\ state' = state /\ failed' = failed /\ stopping' = stopping
  BY DEF HasPendingRetries, ListCampaigns, NextBatchForScheduling
<1>2. faults' = faults \/ faults' = faults + 1
  BY DEF HasPendingRetries, ListCampaigns, NextBatchForScheduling, Failing, Fault, NoFault
<1>3. \A u \in Schedulers : u # s => pc'[u] = pc[u] /\ batch'[u] = batch[u]
  BY DEF HasPendingRetries, ListCampaigns, NextBatchForScheduling, Goto
<1>4. pc'[s] # "trigger"
  BY DEF HasPendingRetries, ListCampaigns, NextBatchForScheduling, Goto
<1>5. s \in stopping => pc[s] # "idle"
  BY DEF HasPendingRetries, ListCampaigns, NextBatchForScheduling
<1>6. t \in batch'[s] => state[t] # "queued"
  <2>1. \A B \in NextBatches : \A u \in B : state[u] = "pending"
    BY DEF NextBatches, Pending
  <2> QED
    BY <2>1 DEF HasPendingRetries, ListCampaigns, NextBatchForScheduling
<1>7. Holders(t)' \subseteq Holders(t)
  BY <1>1, <1>3, <1>4, <1>6 DEF Holders
<1>8. Undoers(t)' \subseteq Undoers(t)
  BY <1>1, <1>3, <1>5 DEF Undoers
<1> QED
  BY <1>1, <1>2, <1>7, <1>8 DEF Calm, Freely, AtACost

LEMMA MarkSteps ==
  ASSUME VariablesTyped, HandsInv, NEW t \in Targets, NEW s \in Schedulers,
         MarkScheduled(s)
  PROVE  (Calm(t) \/ Marking(t)) /\ (Freely(t) \/ AtACost(t))
<1> USE DEF VariablesTyped, HandsInv, Pcs, envVars
<1>1. /\ pc[s] = "mark" /\ dials' = dials /\ failed' = failed /\ stopping' = stopping
      /\ state' \in {state, Marked(s)}
  BY DEF MarkScheduled
<1>2. faults' = faults \/ faults' = faults + 1
  BY DEF MarkScheduled, Failing, Fault, NoFault
<1>3. \A u \in Schedulers : u # s => pc'[u] = pc[u] /\ batch'[u] = batch[u]
  BY DEF MarkScheduled, Goto
<1>4. \/ batch'[s] = {}
      \/ batch'[s] = batch[s] /\ state' = Marked(s)
  BY DEF MarkScheduled
<1>5. Undoers(t)' \subseteq Undoers(t)
  BY <1>1, <1>3 DEF Undoers
<1>6. state'[t] \in {state[t], "queued"}
  BY <1>1 DEF Marked
<1>7. ASSUME state'[t] # state[t]
      PROVE  Marking(t)
  BY <1>1, <1>6, <1>7 DEF Marking
<1>8. ASSUME state'[t] = state[t]
      PROVE  Calm(t)
  <2>1. t \in batch'[s] => state[t] = "queued"
    BY <1>4, <1>8 DEF Marked
  <2>2. Holders(t)' \subseteq Holders(t)
    BY <1>1, <1>3, <1>4, <1>8, <2>1 DEF Holders
  <2> QED
    BY <1>1, <1>8, <2>2 DEF Calm
<1> QED
  BY <1>2, <1>5, <1>7, <1>8 DEF Freely, AtACost

LEMMA TriggerSteps ==
  ASSUME VariablesTyped, HandsInv, NEW t \in Targets \ Refused, NEW s \in Schedulers,
         TriggerCall(s)
  PROVE  (Calm(t) \/ Dialling(t)) /\ (Freely(t) \/ AtACost(t))
<1> USE DEF VariablesTyped, HandsInv, Pcs, envVars
<1>1. PICK b \in batch[s] :
        /\ \/ /\ faults' = faults /\ failed' = failed
           \/ /\ \/ faults' = faults + 1
                 \/ faults' = faults /\ (s \in stopping \/ b \in Refused)
              /\ failed' = [failed EXCEPT ![s] = @ \cup {b}]
        /\ dials' \in {dials, [dials EXCEPT ![b] = @ + 1]}
        /\ batch' = [batch EXCEPT ![s] = @ \ {b}]
        /\ pc' = [pc EXCEPT ![s] = IF batch[s] # {b} THEN "trigger"
                                   ELSE IF failed'[s] = {} THEN "idle" ELSE "reset"]
  BY FailingCost DEF TriggerCall, CallTarget, RefuseTarget, Goto, NoFault
<1>2. pc[s] = "trigger" /\ state' = state /\ stopping' = stopping /\ b \in Targets
  BY DEF TriggerCall
<1>3. \A u \in Schedulers : u # s =>
         pc'[u] = pc[u] /\ batch'[u] = batch[u] /\ failed'[u] = failed[u]
  BY <1>1
<1>4. batch'[s] = batch[s] \ {b} /\ (pc'[s] = "trigger" \/ batch'[s] = {})
  BY <1>1
<1>5. Holders(t)' \subseteq Holders(t)
  BY <1>2, <1>3, <1>4 DEF Holders
<1>6. Calm(t) \/ Dialling(t)
  <2>1. CASE dials'[t] = dials[t]
    BY <1>2, <1>5, <2>1 DEF Calm
  <2>2. CASE dials'[t] # dials[t]
    <3>1. t = b /\ dials'[t] = dials[t] + 1
      BY <1>1, <1>2, <2>2
    <3>2. s \in Holders(t) /\ s \notin Holders(t)'
      BY <1>2, <1>4, <3>1 DEF Holders
    <3> QED
      BY <1>2, <1>5, <3>1, <3>2 DEF Dialling
  <2> QED
    BY <2>1, <2>2
<1>7. Freely(t) \/ AtACost(t)
  <2>1. Undoers(t)' \subseteq Undoers(t) \cup {s}
    BY <1>2, <1>3 DEF Undoers
  <2>2. CASE failed' = failed \/ s \in stopping \/ b \in Refused
    <3>0. t \in failed'[s] => t \in failed[s] \/ s \in stopping
      BY <1>1, <2>2
    <3>1. Undoers(t)' \subseteq Undoers(t)
      BY <1>2, <1>3, <3>0 DEF Undoers
    <3> QED
      BY <1>1, <2>1, <3>1 DEF Freely, AtACost
  <2>3. CASE faults' = faults + 1
    BY <2>1, <2>3 DEF AtACost
  <2> QED
    BY <1>1, <2>2, <2>3
<1> QED
  BY <1>6, <1>7

LEMMA ResetSteps ==
  ASSUME VariablesTyped, HandsInv, NEW t \in Targets, NEW s \in Schedulers,
         ResetFailed(s)
  PROVE  (Calm(t) /\ (Freely(t) \/ AtACost(t))) \/ PuttingBack(t)
<1> USE DEF VariablesTyped, HandsInv, Pcs, envVars
<1>1. /\ pc[s] = "reset" /\ dials' = dials /\ batch' = batch /\ stopping' = stopping
      /\ pc'[s] = "idle" /\ failed'[s] = {} /\ batch[s] = {}
  BY DEF ResetFailed, Goto
<1>2. \A u \in Schedulers : u # s => pc'[u] = pc[u] /\ failed'[u] = failed[u]
  BY DEF ResetFailed, Goto
<1>3. \/ /\ faults' = faults
         /\ state' = [u \in Targets |-> IF u \in failed[s] THEN "pending" ELSE state[u]]
      \/ (faults' = faults \/ faults' = faults + 1) /\ state' = state
  BY DEF ResetFailed, Failing, Fault, NoFault
<1>4. Holders(t)' \subseteq Holders(t)
  BY <1>1, <1>2, <1>3 DEF Holders
<1>5. Undoers(t)' \subseteq Undoers(t) /\ s \notin Undoers(t)'
  BY <1>1, <1>2 DEF Undoers
<1>6. CASE state'[t] = state[t]
  BY <1>1, <1>3, <1>4, <1>5, <1>6 DEF Calm, Freely, AtACost
<1>7. CASE state'[t] # state[t]
  <2>1. faults' = faults /\ s \in Undoers(t)
    BY <1>3, <1>7 DEF Undoers
  <2> QED
    BY <1>1, <1>4, <1>5, <2>1 DEF PuttingBack
<1> QED
  BY <1>6, <1>7

LEMMA StopSteps ==
  ASSUME VariablesTyped, HandsInv, NEW t \in Targets, NEW s \in Schedulers,
         Crash(s) \/ Shutdown(s) \/ Restart(s)
  PROVE  Calm(t) /\ (Freely(t) \/ AtACost(t))
<1> USE DEF VariablesTyped, HandsInv, Pcs, envVars
<1>1. Holders(t)' \subseteq Holders(t)
  BY DEF Crash, Shutdown, Restart, Goto, Holders
<1>2. Undoers(t)' \subseteq Undoers(t) \cup {s}
  BY DEF Crash, Shutdown, Restart, Goto, Undoers
<1>3. Restart(s) => Undoers(t)' \subseteq Undoers(t)
  BY DEF Restart, Undoers
<1> QED
  BY <1>1, <1>2, <1>3 DEF Crash, Shutdown, Restart, Fault, Calm, Freely, AtACost

\* Every step is of one of the kinds above, for every target.
LEMMA DialSteps ==
  ASSUME VariablesTyped, HandsInv, [Next]_vars, NEW t \in Targets \ Refused
  PROVE  \/ (Calm(t) \/ Marking(t) \/ Dialling(t)) /\ (Freely(t) \/ AtACost(t))
         \/ PuttingBack(t)
<1>1. ASSUME NEW T \in SUBSET Targets, AddTargets(T)
      PROVE  Calm(t) /\ Freely(t)
  BY <1>1 DEF AddTargets, VariablesTyped, Calm, Freely, Holders, Undoers, envVars
<1>2. CASE UNCHANGED <<state, dials, pc, batch, failed, stopping, faults>>
  BY <1>2 DEF Calm, Freely, Holders, Undoers
<1> QED
  BY <1>1, <1>2, EarlySteps, MarkSteps, TriggerSteps, ResetSteps, StopSteps
     DEF Next, Tick, DueChanges, RetryTopicsChange, vars

LEMMA DialBudgetStep ==
  ASSUME DialInv, [Next]_vars
  PROVE  DialBudget'
<1> DEFINE N == Cardinality(Schedulers)
<1>1. SUFFICES ASSUME NEW t \in Targets \ Refused
               PROVE  dials'[t] + Waiting(t)' + Cardinality(Holders(t)')
                                + N * Cardinality(Undoers(t)') <= N * (1 + faults')
  BY DEF DialBudget
<1> DEFINE H == Holders(t)  H2 == Holders(t)'  U == Undoers(t)  U2 == Undoers(t)'
<1>2. /\ H \in SUBSET Schedulers /\ H2 \in SUBSET Schedulers
      /\ U \in SUBSET Schedulers /\ U2 \in SUBSET Schedulers
  BY DEF Holders, Undoers
<1> HIDE DEF H, H2, U, U2
<1>3. /\ N \in Nat /\ Cardinality(H) \in Nat /\ Cardinality(H2) \in Nat
      /\ Cardinality(U) \in Nat /\ Cardinality(U2) \in Nat
      /\ Cardinality(H2) <= N
  BY <1>2, Counts, SchedulerAssumption
<1>4. /\ dials[t] \in Nat /\ dials'[t] \in Nat /\ faults \in Nat /\ faults' \in Nat
      /\ Waiting(t) = (IF state[t] = "queued" THEN 0 ELSE N)
      /\ Waiting(t)' = (IF state'[t] = "queued" THEN 0 ELSE N)
  BY SchedulerTypeStep DEF DialInv, VariablesTyped, Waiting
<1> DEFINE w == Waiting(t)  w2 == Waiting(t)'  h == Cardinality(H)  h2 == Cardinality(H2)
           u == Cardinality(U)  u2 == Cardinality(U2)
<1>5. dials[t] + w + h + N * u <= N * (1 + faults)
  BY DEF DialInv, DialBudget, H, U
<1> HIDE DEF N, w, w2, h, h2, u, u2
<1>6. /\ Calm(t) => dials'[t] + w2 + h2 <= dials[t] + w + h
      /\ Marking(t) => dials'[t] + w2 + h2 <= dials[t] + w + h
      /\ Dialling(t) => dials'[t] + w2 + h2 <= dials[t] + w + h
      /\ PuttingBack(t) => dials'[t] + w2 + h2 <= dials[t] + w + h + N
  <2>1. ASSUME H2 \subseteq H PROVE h2 <= h
    BY <1>2, <2>1, Counts, SchedulerAssumption DEF h, h2
  <2>2. ASSUME NEW s \in H, H2 \subseteq H \ {s} PROVE h2 <= h - 1
    BY <1>2, <2>2, Counts, SchedulerAssumption DEF h, h2
  <2>3. h \in Nat /\ h2 \in Nat /\ h2 <= N /\ N \in Nat
    BY <1>3 DEF h, h2, N
  <2>4. w = (IF state[t] = "queued" THEN 0 ELSE N) /\ w2 = (IF state'[t] = "queued" THEN 0 ELSE N)
    BY <1>4 DEF w, w2, N
  <2>5. Calm(t) => dials'[t] + w2 + h2 <= dials[t] + w + h
    BY <1>4, <2>1, <2>3, <2>4 DEF Calm, H, H2
  <2>6. Marking(t) => dials'[t] + w2 + h2 <= dials[t] + w + h
    BY <1>4, <2>3, <2>4 DEF Marking
  <2>7. Dialling(t) => dials'[t] + w2 + h2 <= dials[t] + w + h
    BY <1>4, <2>2, <2>3, <2>4 DEF Dialling, H, H2
  <2>8. PuttingBack(t) => dials'[t] + w2 + h2 <= dials[t] + w + h + N
    BY <1>4, <2>1, <2>3, <2>4 DEF PuttingBack, H, H2
  <2> QED
    BY <2>5, <2>6, <2>7, <2>8
<1>7. /\ Freely(t) => u2 <= u
      /\ AtACost(t) => u2 <= u + 1
      /\ PuttingBack(t) => u2 <= u - 1
  BY <1>2, Counts, SchedulerAssumption DEF Freely, AtACost, PuttingBack, u, u2, U, U2
<1>8. /\ w \in Nat /\ w2 \in Nat /\ h \in Nat /\ h2 \in Nat /\ N \in Nat
      /\ u \in Nat /\ u2 \in Nat
  BY <1>3, <1>4 DEF w, w2, h, h2, u, u2, N
<1>9. /\ N * u2 \in Nat /\ N * u \in Nat
      /\ u2 <= u => N * u2 <= N * u
      /\ u2 <= u + 1 => N * u2 <= N * u + N
      /\ u2 <= u - 1 => N * u2 <= N * u - N
  BY <1>8, Multiples
<1>10. N * (1 + faults) \in Nat /\ N * (1 + (faults + 1)) = N * (1 + faults) + N
  BY <1>4, <1>8
<1>11. dials'[t] + w2 + h2 + N * u2 <= N * (1 + faults')
  <2>1. CASE (Calm(t) \/ Marking(t) \/ Dialling(t)) /\ Freely(t)
    BY <1>4, <1>5, <1>6, <1>7, <1>8, <1>9, <1>10, <2>1 DEF Freely
  <2>2. CASE (Calm(t) \/ Marking(t) \/ Dialling(t)) /\ AtACost(t)
    BY <1>4, <1>5, <1>6, <1>7, <1>8, <1>9, <1>10, <2>2 DEF AtACost
  <2>3. CASE PuttingBack(t)
    BY <1>4, <1>5, <1>6, <1>7, <1>8, <1>9, <1>10, <2>3 DEF PuttingBack
  <2> QED
    BY DialSteps, <2>1, <2>2, <2>3 DEF DialInv
<1> QED
  BY <1>11 DEF w2, h2, u2, H2, U2, N

\* A target without a number is never dialled.
LEMMA RefusedStep ==
  ASSUME VariablesTyped, \A t \in Refused : dials[t] = 0, [Next]_vars
  PROVE  \A t \in Refused : dials'[t] = 0
<1>1. ASSUME NEW s \in Schedulers, TriggerCall(s)
      PROVE  \A t \in Refused : dials'[t] = 0
  <2>1. PICK b \in batch[s] :
          \/ dials' = dials
          \/ b \notin Refused /\ dials' = [dials EXCEPT ![b] = @ + 1]
    BY <1>1 DEF TriggerCall, CallTarget, RefuseTarget
  <2> QED
    BY <2>1, SchedulerAssumption DEF VariablesTyped
<1> QED
  BY <1>1
     DEF Next, Tick, AddTargets, DueChanges, RetryTopicsChange, HasPendingRetries, ListCampaigns,
         NextBatchForScheduling, MarkScheduled, ResetFailed, Crash, Shutdown, Restart, vars

\* Whatever fails or stops, and however many schedulers run, a target is dialled at
\* most once by each of them, and once more by each for every fault.
THEOREM DialsStayBounded == Spec => []DialsBounded
<1> DEFINE N == Cardinality(Schedulers)
<1>1. Init => DialInv
  <2> SUFFICES ASSUME Init PROVE DialInv
    OBVIOUS
  <2>1. N \in Nat
    BY SchedulerAssumption, FS_CardinalityType
  <2>2. \A t \in Targets : Holders(t) = {} /\ Undoers(t) = {}
    BY DEF Init, Holders, Undoers
  <2>3. \A t \in Targets : Waiting(t) \in {0, N} /\ dials[t] = 0 /\ faults = 0
    BY DEF Init, Waiting
  <2>4. N * 0 = 0 /\ N * (1 + 0) = N
    BY <2>1
  <2>5. \A t \in Targets : Cardinality(Holders(t)) = 0 /\ Cardinality(Undoers(t)) = 0
    BY <2>2, FS_EmptySet
  <2> HIDE DEF N
  <2>6. \A t \in Targets :
           dials[t] + Waiting(t) + Cardinality(Holders(t)) + N * Cardinality(Undoers(t))
             <= N * (1 + faults)
    BY <2>1, <2>3, <2>4, <2>5
  <2>7. DialBudget
    BY <2>6 DEF DialBudget, N
  <2> QED
    BY <2>7, InitiallyTyped, SchedulerAssumption DEF Init, DialInv, HandsInv
<1>2. DialInv /\ [Next]_vars => DialInv'
  BY SchedulerTypeStep, HandsStep, DialBudgetStep, RefusedStep DEF DialInv
<1>3. DialInv => DialsBounded
  <2> SUFFICES ASSUME DialInv, NEW t \in Targets PROVE dials[t] <= N * (1 + faults)
    BY DEF DialsBounded
  <2>1. Holders(t) \in SUBSET Schedulers /\ Undoers(t) \in SUBSET Schedulers
    BY DEF Holders, Undoers
  <2>2. /\ N \in Nat /\ Cardinality(Holders(t)) \in Nat /\ Cardinality(Undoers(t)) \in Nat
    BY <2>1, Counts, SchedulerAssumption
  <2>3. N * Cardinality(Undoers(t)) \in Nat
    BY <2>2, Multiples
  <2>4. dials[t] \in Nat /\ Waiting(t) \in Nat /\ N * (1 + faults) \in Nat
    BY <2>2 DEF DialInv, VariablesTyped, Waiting
  <2>5. CASE t \in Refused
    BY <2>4, <2>5 DEF DialInv
  <2>6. CASE t \notin Refused
    BY <2>2, <2>3, <2>4, <2>6 DEF DialInv, DialBudget
  <2> QED
    BY <2>5, <2>6
<1> QED
  BY <1>1, <1>2, <1>3, PTL DEF Spec

-----------------------------------------------------------------------------
(* How many targets are forgotten.  Only a fault, or a scheduler that stops in
   the middle of a tick, leaves targets behind: those in one pair of hands. *)

Lost == {t \in Targets : Forgotten(t)}
Hands(s) == batch[s] \cup failed[s]

Keeping == Lost' \subseteq Lost /\ Dying' \subseteq Dying /\ faults' \in {faults, faults + 1}

Dropping(s) ==
  /\ Lost' \subseteq Lost \cup Hands(s)
  /\ \/ faults' = faults + 1 /\ Dying' \subseteq Dying
     \/ faults' = faults /\ s \in Dying /\ Dying' \subseteq Dying \ {s}

Stopping(s) == Lost' \subseteq Lost /\ Dying' \subseteq Dying \cup {s} /\ faults' = faults + 1

\* A scheduler's hands never hold more than a batch.
LEMMA HandsBounded ==
  ASSUME VariablesTyped, HandsInv, ForgetBudget, [Next]_vars, NEW s \in Schedulers
  PROVE  Cardinality(Hands(s)') <= MaxBatchSize
<1> USE DEF VariablesTyped
<1>1. Hands(s) \in SUBSET Targets /\ Hands(s)' \in SUBSET Targets
  BY SchedulerTypeStep DEF Hands
<1>2. \/ Hands(s)' \subseteq Hands(s)
      \/ \E B \in NextBatches : Hands(s)' = B
  <2>1. ASSUME NEW u \in Schedulers, NextBatchForScheduling(u)
        PROVE  Hands(s)' \subseteq Hands(s) \/ \E B \in NextBatches : Hands(s)' = B
    BY <2>1 DEF NextBatchForScheduling, Hands, HandsInv
  <2>2. ASSUME NEW u \in Schedulers, TriggerCall(u)
        PROVE  Hands(s)' \subseteq Hands(s)
    BY <2>2 DEF TriggerCall, CallTarget, RefuseTarget, Hands
  <2>3. ASSUME NEW u \in Schedulers,
               MarkScheduled(u) \/ ResetFailed(u) \/ Crash(u)
        PROVE  Hands(s)' \subseteq Hands(s)
    BY <2>3 DEF MarkScheduled, ResetFailed, Crash, Hands
  <2>4. CASE UNCHANGED <<batch, failed>>
    BY <2>4 DEF Hands
  <2> QED
    BY <2>1, <2>2, <2>3, <2>4
       DEF Next, Tick, AddTargets, DueChanges, RetryTopicsChange, HasPendingRetries,
           ListCampaigns, Shutdown, Restart, vars
<1>3. \A B \in NextBatches : Cardinality(B) <= MaxBatchSize
  <2>1. Pending \in SUBSET Targets
    BY DEF Pending
  <2>2. Cardinality(Pending) \in Nat
    BY <2>1, PartsCounted, SchedulerAssumption
  <2> QED
    BY <2>2, SchedulerAssumption DEF NextBatches
<1>4. Cardinality(Hands(s)) <= MaxBatchSize
  BY DEF ForgetBudget, Hands
<1>5. CASE Hands(s)' \subseteq Hands(s)
  <2>1. /\ Cardinality(Hands(s)') <= Cardinality(Hands(s))
        /\ Cardinality(Hands(s)') \in Nat /\ Cardinality(Hands(s)) \in Nat
    BY <1>1, <1>5, Counts, SchedulerAssumption
  <2> QED
    BY <1>4, <2>1, SchedulerAssumption
<1> QED
  BY <1>2, <1>3, <1>5

LEMMA ForgetSteps ==
  ASSUME VariablesTyped, HandsInv, [Next]_vars
  PROVE  Keeping \/ \E s \in Schedulers : Dropping(s) \/ Stopping(s)
<1> USE DEF VariablesTyped, HandsInv, Pcs, envVars
<1>1. ASSUME NEW T \in SUBSET Targets, AddTargets(T)
      PROVE  Keeping
  BY <1>1 DEF AddTargets, Keeping, Lost, Forgotten, Dying
<1>2. ASSUME NEW s \in Schedulers,
             HasPendingRetries(s) \/ ListCampaigns(s) \/ NextBatchForScheduling(s)
      PROVE  Keeping
  <2>1. dials' = dials /\ state' = state /\ failed' = failed /\ stopping' = stopping
    BY <1>2 DEF HasPendingRetries, ListCampaigns, NextBatchForScheduling
  <2>2. \A u \in Schedulers : batch[u] \subseteq batch'[u] /\ (u # s => pc'[u] = pc[u])
    BY <1>2 DEF HasPendingRetries, ListCampaigns, NextBatchForScheduling, Goto
  <2>3. s \in stopping => pc[s] # "idle"
    BY <1>2 DEF HasPendingRetries, ListCampaigns, NextBatchForScheduling
  <2>4. faults' \in {faults, faults + 1}
    BY <1>2 DEF HasPendingRetries, ListCampaigns, NextBatchForScheduling, Failing, Fault, NoFault
  <2>5. Lost' \subseteq Lost
    BY <2>1, <2>2 DEF Lost, Forgotten
  <2>6. Dying' \subseteq Dying
    BY <2>1, <2>2, <2>3 DEF Dying
  <2> QED
    BY <2>4, <2>5, <2>6 DEF Keeping
<1>3. ASSUME NEW s \in Schedulers, MarkScheduled(s)
      PROVE  Keeping \/ Dropping(s)
  <2>1. /\ dials' = dials /\ failed' = failed /\ stopping' = stopping /\ pc[s] = "mark"
        /\ \A u \in Schedulers : u # s => pc'[u] = pc[u] /\ batch'[u] = batch[u]
    BY <1>3 DEF MarkScheduled, Goto
  <2>2. \A t \in Targets : t \notin batch[s] => state'[t] = state[t]
    BY <1>3 DEF MarkScheduled, Marked
  <2>3. Lost' \subseteq Lost \cup Hands(s) /\ Dying' \subseteq Dying
    BY <2>1, <2>2 DEF Lost, Forgotten, Hands, Dying
  <2>4. CASE NoFault /\ batch' = batch
    <3>1. Lost' \subseteq Lost
      BY <2>1, <2>2, <2>4 DEF Lost, Forgotten
    <3> QED
      BY <2>3, <2>4, <3>1 DEF Keeping, NoFault
  <2>5. CASE Failing("postgres", s) /\ Goto(s, "idle")
    <3>1. s \notin Dying'
      BY <2>5 DEF Dying, Goto
    <3>2. s \in stopping => s \in Dying
      BY <2>1 DEF Dying
    <3> QED
      BY <2>3, <2>5, <3>1, <3>2, FailingCost DEF Dropping
  <2> QED
    BY <1>3, <2>4, <2>5 DEF MarkScheduled
<1>4. ASSUME NEW s \in Schedulers, TriggerCall(s)
      PROVE  Keeping
  <2>1. PICK b \in batch[s] :
          /\ \/ dials' = [dials EXCEPT ![b] = @ + 1] /\ failed' = failed
             \/ /\ dials' \in {dials, [dials EXCEPT ![b] = @ + 1]}
                /\ failed' = [failed EXCEPT ![s] = @ \cup {b}]
          /\ batch' = [batch EXCEPT ![s] = @ \ {b}]
    BY <1>4 DEF TriggerCall, CallTarget, RefuseTarget
  <2>2. /\ pc[s] = "trigger" /\ state' = state /\ stopping' = stopping /\ b \in Targets
        /\ \A u \in Schedulers : u # s => pc'[u] = pc[u]
    BY <1>4 DEF TriggerCall, Goto
  <2>3. faults' \in {faults, faults + 1}
    BY <1>4 DEF TriggerCall, CallTarget, RefuseTarget, Failing, Fault, NoFault
  <2>4. Lost' \subseteq Lost
    <3>1. \A t \in Targets : t # b => dials'[t] = dials[t]
      BY <2>1
    <3>2. \A t \in Targets : t # b =>
             \A u \in Schedulers : t \in batch[u] \cup failed[u] => t \in batch'[u] \cup failed'[u]
      BY <2>1
    <3>3. ~Forgotten(b)'
      BY <2>1, <2>2 DEF Forgotten
    <3> QED
      BY <2>2, <3>1, <3>2, <3>3 DEF Lost, Forgotten
  <2>5. Dying' \subseteq Dying
    BY <2>2 DEF Dying
  <2> QED
    BY <2>3, <2>4, <2>5 DEF Keeping
<1>5. ASSUME NEW s \in Schedulers, ResetFailed(s)
      PROVE  Keeping \/ Dropping(s)
  <2>1. /\ dials' = dials /\ batch' = batch /\ stopping' = stopping /\ pc[s] = "reset"
        /\ \A u \in Schedulers : u # s => pc'[u] = pc[u] /\ failed'[u] = failed[u]
        /\ pc'[s] = "idle"
    BY <1>5 DEF ResetFailed, Goto
  <2>2. Dying' \subseteq Dying \ {s} /\ (s \in stopping => s \in Dying)
    BY <2>1 DEF Dying
  <2>3. CASE /\ NoFault
             /\ state' = [t \in Targets |-> IF t \in failed[s] THEN "pending" ELSE state[t]]
    <3>1. Lost' \subseteq Lost
      BY <2>1, <2>3 DEF Lost, Forgotten
    <3> QED
      BY <2>2, <2>3, <3>1 DEF Keeping, NoFault
  <2>4. CASE Failing("postgres", s) /\ state' = state
    <3>1. Lost' \subseteq Lost \cup Hands(s)
      BY <2>1, <2>4 DEF Lost, Forgotten, Hands
    <3> QED
      BY <2>2, <2>4, <3>1, FailingCost DEF Dropping
  <2> QED
    BY <1>5, <2>3, <2>4 DEF ResetFailed
<1>6. ASSUME NEW s \in Schedulers, Crash(s)
      PROVE  Dropping(s)
  <2>1. Lost' \subseteq Lost \cup Hands(s)
    BY <1>6 DEF Crash, Lost, Forgotten, Hands
  <2>2. Dying' \subseteq Dying
    BY <1>6 DEF Crash, Goto, Dying
  <2> QED
    BY <1>6, <2>1, <2>2 DEF Crash, Fault, Dropping
<1>7. ASSUME NEW s \in Schedulers, Shutdown(s)
      PROVE  Stopping(s)
  BY <1>7 DEF Shutdown, Fault, Stopping, Lost, Forgotten, Dying
<1>8. ASSUME NEW s \in Schedulers, Restart(s)
      PROVE  Keeping
  BY <1>8 DEF Restart, Keeping, Lost, Forgotten, Dying
<1>9. CASE UNCHANGED <<state, dials, pc, batch, failed, stopping, faults>>
  BY <1>9 DEF Keeping, Lost, Forgotten, Dying
<1> QED
  BY <1>1, <1>2, <1>3, <1>4, <1>5, <1>6, <1>7, <1>8, <1>9
     DEF Next, Tick, DueChanges, RetryTopicsChange, vars

LEMMA ForgetBudgetStep ==
  ASSUME ForgetInv, [Next]_vars
  PROVE  ForgetBudget'
<1> DEFINE b == MaxBatchSize  l == Cardinality(Lost)  l2 == Cardinality(Lost')
           d == Cardinality(Dying)  d2 == Cardinality(Dying')
<1>1. VariablesTyped /\ HandsInv /\ VariablesTyped'
  BY SchedulerTypeStep DEF ForgetInv
<1>2. /\ Lost \in SUBSET Targets /\ Lost' \in SUBSET Targets
      /\ Dying \in SUBSET Schedulers /\ Dying' \in SUBSET Schedulers
  BY <1>1 DEF Lost, Dying, VariablesTyped
<1>3. l \in Nat /\ l2 \in Nat /\ d \in Nat /\ d2 \in Nat /\ b \in Nat
  BY <1>2, PartsCounted, SchedulerAssumption
<1>4. faults \in Nat /\ faults' \in Nat
  BY <1>1 DEF VariablesTyped
<1>5. l + b * d <= b * faults
  BY DEF ForgetInv, ForgetBudget, Lost
<1>6. /\ b * d \in Nat /\ b * d2 \in Nat /\ b * faults \in Nat
      /\ b * (faults + 1) = b * faults + b
      /\ d2 <= d => b * d2 <= b * d
      /\ d2 <= d + 1 => b * d2 <= b * d + b
      /\ d2 <= d - 1 => b * d2 <= b * d - b
  BY <1>3, <1>4, Multiples
<1>7. /\ Lost' \subseteq Lost => l2 <= l
      /\ Dying' \subseteq Dying => d2 <= d
      /\ \A s \in Dying : Dying' \subseteq Dying \ {s} => d2 <= d - 1
      /\ \A s \in Schedulers : Dying' \subseteq Dying \cup {s} => d2 <= d + 1
  BY <1>2, Counts, SchedulerAssumption
<1>8. \A s \in Schedulers : Lost' \subseteq Lost \cup Hands(s) => l2 <= l + b
  <2> TAKE s \in Schedulers
  <2> HAVE Lost' \subseteq Lost \cup Hands(s)
  <2>1. Hands(s) \in SUBSET Targets
    BY <1>1 DEF VariablesTyped, Hands
  <2>2. IsFiniteSet(Lost) /\ IsFiniteSet(Hands(s)) /\ Cardinality(Hands(s)) \in Nat
    BY <1>2, <2>1, PartsCounted, SchedulerAssumption
  <2>3. /\ IsFiniteSet(Lost \cup Hands(s))
        /\ Cardinality(Lost \cup Hands(s)) <= l + Cardinality(Hands(s))
        /\ Cardinality(Lost \cup Hands(s)) \in Nat
    BY <2>2, UnionCount
  <2>4. l2 <= Cardinality(Lost \cup Hands(s))
    BY <2>3, FS_Subset
  <2>5. Cardinality(Hands(s)) <= b
    BY DEF ForgetInv, ForgetBudget, Hands
  <2> QED
    BY <1>3, <2>2, <2>3, <2>4, <2>5
<1> DEFINE x == b * d  x2 == b * d2  y == b * faults  y2 == b * faults'
<1> HIDE DEF l, l2, d, d2
<1>9. /\ x \in Nat /\ x2 \in Nat /\ y \in Nat /\ l + x <= y
      /\ d2 <= d => x2 <= x
      /\ d2 <= d + 1 => x2 <= x + b
      /\ d2 <= d - 1 => x2 <= x - b
      /\ faults' = faults => y2 = y
      /\ faults' = faults + 1 => y2 = y + b
  BY <1>5, <1>6
<1> HIDE DEF b, x, x2, y, y2
<1>10. l2 + x2 <= y2
  <2>1. CASE Keeping
    BY <1>3, <1>7, <1>9, <2>1 DEF Keeping
  <2>2. ASSUME NEW s \in Schedulers, Dropping(s)
        PROVE  l2 + x2 <= y2
    BY <1>3, <1>7, <1>8, <1>9, <2>2 DEF Dropping
  <2>3. ASSUME NEW s \in Schedulers, Stopping(s)
        PROVE  l2 + x2 <= y2
    BY <1>3, <1>7, <1>9, <2>3 DEF Stopping
  <2> QED
    BY <1>1, <2>1, <2>2, <2>3, ForgetSteps
<1>11. \A s \in Schedulers : Cardinality(Hands(s)') <= MaxBatchSize
  BY <1>1, HandsBounded DEF ForgetInv
<1> QED
  BY <1>10, <1>11 DEF ForgetBudget, b, l2, d2, x2, y2, Lost, Hands

\* However many schedulers run, a fault costs no more than one batch of targets.
THEOREM ForgottenStayBounded == Spec => []ForgottenBounded
<1>1. Init => ForgetInv
  <2> SUFFICES ASSUME Init PROVE ForgetInv
    OBVIOUS
  <2>1. /\ {t \in Targets : Forgotten(t)} = {} /\ Dying = {} /\ faults = 0
        /\ \A s \in Schedulers : batch[s] \cup failed[s] = {}
    BY DEF Init, Forgotten, Dying
  <2>2. MaxBatchSize \in Nat /\ MaxBatchSize * 0 = 0
    BY SchedulerAssumption
  <2>3. /\ Cardinality({t \in Targets : Forgotten(t)}) = 0 /\ Cardinality(Dying) = 0
        /\ \A s \in Schedulers : Cardinality(batch[s] \cup failed[s]) = 0
    BY <2>1, FS_EmptySet
  <2>4. ForgetBudget
    BY <2>1, <2>2, <2>3 DEF ForgetBudget
  <2> QED
    BY <2>4, InitiallyTyped DEF Init, ForgetInv, HandsInv
<1>2. ForgetInv /\ [Next]_vars => ForgetInv'
  BY SchedulerTypeStep, HandsStep, ForgetBudgetStep DEF ForgetInv
<1>3. ForgetInv => ForgottenBounded
  <2> SUFFICES ASSUME ForgetInv PROVE ForgottenBounded
    OBVIOUS
  <2>1. Lost \in SUBSET Targets /\ Dying \in SUBSET Schedulers
    BY DEF Lost, Dying, ForgetInv, VariablesTyped
  <2>2. Cardinality(Lost) \in Nat /\ Cardinality(Dying) \in Nat /\ MaxBatchSize \in Nat
    BY <2>1, PartsCounted, SchedulerAssumption
  <2>3. MaxBatchSize * Cardinality(Dying) \in Nat /\ MaxBatchSize * faults \in Nat
    BY <2>2, Multiples DEF ForgetInv, VariablesTyped
  <2>4. Cardinality(Lost) + MaxBatchSize * Cardinality(Dying) <= MaxBatchSize * faults
    BY DEF ForgetInv, ForgetBudget, Lost
  <2> QED
    BY <2>2, <2>3, <2>4 DEF ForgottenBounded, Lost
<1> QED
  BY <1>1, <1>2, <1>3, PTL DEF Spec
=============================================================================
