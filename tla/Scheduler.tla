----------------------------- MODULE Scheduler -----------------------------
(***************************************************************************)
(* The scheduler (internal/scheduler/scheduler.go) for one campaign: each  *)
(* tick reads a batch of pending targets, marks it queued, triggers a call *)
(* for each, and puts the ones that failed back.  Several instances may    *)
(* run; none takes a lock.  TriggerCall is one step here: what matters to  *)
(* the scheduler is whether a dispatch message was written and whether an  *)
(* error came back (its own writes are in module CallService).             *)
(***************************************************************************)
EXTENDS Integers, FiniteSets

CONSTANTS
  Schedulers,   \* scheduler processes
  Targets,      \* rows of campaign_targets, now or later
  CreatedAt,    \* when each is created
  Refused,      \* those without a phone number, which TriggerCall refuses every time
  MaxBatchSize, \* Scheduler.MaxBatchSize
  FaultKinds,   \* which kinds of fault may happen
  MaxFaults     \* bound: how many faults a behaviour may have

ASSUME SchedulerAssumption ==
  /\ IsFiniteSet(Schedulers)
  /\ IsFiniteSet(Targets)
  /\ CreatedAt \in [Targets -> Nat]
  /\ Refused \subseteq Targets
  /\ MaxBatchSize \in Nat \ {0}
  /\ FaultKinds \subseteq {"reject", "kafka", "postgres", "shutdown", "crash"}
  /\ MaxFaults \in Nat

VARIABLES
  state,     \* state column of each target
  dials,     \* dispatch messages written for each target
  due,       \* the campaign is in progress and now is within its business hours
  retained,  \* a retry topic retains a message, handled or not
  pc,        \* next step of each scheduler
  batch,     \* targets it has still to trigger
  failed,    \* targets of this batch it could not trigger
  stopping,  \* schedulers whose context has been cancelled
  faults     \* faults so far

envVars == <<due, retained>>
vars == <<state, dials, envVars, pc, batch, failed, stopping, faults>>

Pcs == {"idle", "list", "fetch", "mark", "trigger", "reset"}

Init ==
  /\ state \in [Targets -> {"absent", "pending"}]
  /\ dials = [t \in Targets |-> 0]
  /\ due = FALSE
  /\ retained = FALSE
  /\ pc = [s \in Schedulers |-> "idle"]
  /\ batch = [s \in Schedulers |-> {}]
  /\ failed = [s \in Schedulers |-> {}]
  /\ stopping = {}
  /\ faults = 0

Fault(kind) == kind \in FaultKinds /\ faults < MaxFaults /\ faults' = faults + 1
NoFault == UNCHANGED faults

\* A call fails because its backend does, or because the context is cancelled.
Failing(kind, s) == Fault(kind) \/ (s \in stopping /\ NoFault)

Goto(s, step) == pc' = [pc EXCEPT ![s] = step]

Pending == {t \in Targets : state[t] = "pending"}

-----------------------------------------------------------------------------
(* The surroundings: requests to the campaign service, the clock, the retry
   topics. *)

AddTargets(T) ==
  /\ T # {} /\ \A t \in T : state[t] = "absent"
  /\ state' = [t \in Targets |-> IF t \in T THEN "pending" ELSE state[t]]
  /\ UNCHANGED <<dials, envVars, pc, batch, failed, stopping, faults>>

\* The campaign is started or paused, or a window of its hours opens or closes.
DueChanges ==
  /\ due' = ~due
  /\ UNCHANGED <<state, dials, retained, pc, batch, failed, stopping, faults>>

\* A retry is scheduled, or the retention time of the last one is over.
RetryTopicsChange ==
  /\ retained' = ~retained
  /\ UNCHANGED <<state, dials, due, pc, batch, failed, stopping, faults>>

-----------------------------------------------------------------------------
(* One tick *)

(***************************************************************************)
(* hasPendingRetries reads with consumer groups that never commit and so   *)
(* start at the first retained message: it finds one whenever the topics   *)
(* retain any, unless 200 ms do not suffice to get it.                     *)
(***************************************************************************)
HasPendingRetries(s) ==
  /\ pc[s] = "idle"
  /\ s \notin stopping
  /\ \/ Goto(s, "list")
     \/ retained /\ UNCHANGED pc
  /\ UNCHANGED <<state, dials, envVars, batch, failed, stopping, faults>>

\* ListByStatus and the business hours check.
ListCampaigns(s) ==
  /\ pc[s] = "list"
  /\ \/ NoFault /\ Goto(s, IF due THEN "fetch" ELSE "idle")
     \/ Failing("postgres", s) /\ Goto(s, "idle")
  /\ UNCHANGED <<state, dials, envVars, batch, failed, stopping>>

\* Altered form: a batch waits for enough targets to be full.
BatchesOnlyFull ==
  {B \in SUBSET Pending :
     Cardinality(B) = IF Cardinality(Pending) < MaxBatchSize THEN 0 ELSE MaxBatchSize}

\* The oldest pending targets; those created together come in any order.
NextBatches ==
  {B \in SUBSET Pending :
     /\ Cardinality(B) = IF Cardinality(Pending) <= MaxBatchSize
                         THEN Cardinality(Pending) ELSE MaxBatchSize
     /\ \A b \in B, t \in Pending \ B : CreatedAt[b] <= CreatedAt[t]}

NextBatchForScheduling(s) ==
  /\ pc[s] = "fetch"
  /\ \/ /\ NoFault
        /\ \E B \in NextBatches :
              /\ batch' = [batch EXCEPT ![s] = B]
              /\ Goto(s, IF B = {} THEN "idle" ELSE "mark")
     \/ Failing("postgres", s) /\ Goto(s, "idle") /\ UNCHANGED batch
  /\ UNCHANGED <<state, dials, envVars, failed, stopping>>

\* Altered forms: the UPDATE finds no row, or does not name the ids.
MarkedNone(s) == state
MarkedAll(s) == [t \in Targets |-> IF t \in Pending THEN "queued" ELSE state[t]]

\* The UPDATE names the ids only: it marks a target whatever its state is by now.
Marked(s) == [t \in Targets |-> IF t \in batch[s] THEN "queued" ELSE state[t]]

\* After an error the batch is given up, though the update may have been made.
MarkScheduled(s) ==
  /\ pc[s] = "mark"
  /\ \/ NoFault /\ state' = Marked(s) /\ Goto(s, "trigger") /\ UNCHANGED batch
     \/ /\ Failing("postgres", s)
        /\ state' \in {state, Marked(s)}
        /\ Goto(s, "idle")
        /\ batch' = [batch EXCEPT ![s] = {}]
  /\ UNCHANGED <<dials, envVars, failed, stopping>>

\* A call is dispatched, or there is an error before the dispatch, or the dispatch itself
\* reports one and may have been made.
CallTarget(s, t) ==
  LET dialled == [dials EXCEPT ![t] = @ + 1]
  IN  \/ NoFault /\ dials' = dialled /\ UNCHANGED failed
      \/ /\ \/ Failing("reject", s) /\ UNCHANGED dials
            \/ Failing("kafka", s) /\ dials' \in {dials, dialled}
         /\ failed' = [failed EXCEPT ![s] = @ \cup {t}]

\* Without a phone number there is no call, and nothing has to go wrong for that.
RefuseTarget(s, t) ==
  NoFault /\ UNCHANGED dials /\ failed' = [failed EXCEPT ![s] = @ \cup {t}]

\* TriggerCall of one target of the batch.
TriggerCall(s) ==
  /\ pc[s] = "trigger"
  /\ \E t \in batch[s] :
        /\ IF t \in Refused THEN RefuseTarget(s, t) ELSE CallTarget(s, t)
        /\ batch' = [batch EXCEPT ![s] = @ \ {t}]
        /\ Goto(s, IF batch[s] # {t} THEN "trigger"
                   ELSE IF failed'[s] = {} THEN "idle" ELSE "reset")
  /\ UNCHANGED <<state, envVars, stopping>>

\* Altered form: the failed targets are put in a state of their own.
ResetToFailed(s) ==
  /\ pc[s] = "reset"
  /\ state' = [t \in Targets |-> IF t \in failed[s] THEN "failed" ELSE state[t]]
  /\ failed' = [failed EXCEPT ![s] = {}]
  /\ Goto(s, "idle")
  /\ UNCHANGED <<dials, envVars, batch, stopping, faults>>

\* SetState of the failed targets; its error is logged.
ResetFailed(s) ==
  /\ pc[s] = "reset"
  /\ \/ /\ NoFault
        /\ state' = [t \in Targets |-> IF t \in failed[s] THEN "pending" ELSE state[t]]
     \/ Failing("postgres", s) /\ UNCHANGED state
  /\ failed' = [failed EXCEPT ![s] = {}]
  /\ Goto(s, "idle")
  /\ UNCHANGED <<dials, envVars, batch, stopping>>

Tick(s) ==
  \/ HasPendingRetries(s) \/ ListCampaigns(s) \/ NextBatchForScheduling(s)
  \/ MarkScheduled(s) \/ TriggerCall(s) \/ ResetFailed(s)

-----------------------------------------------------------------------------
(* Stops and restarts *)

Crash(s) ==
  /\ Fault("crash")
  /\ Goto(s, "idle")
  /\ batch' = [batch EXCEPT ![s] = {}]
  /\ failed' = [failed EXCEPT ![s] = {}]
  /\ stopping' = stopping \ {s}
  /\ UNCHANGED <<state, dials, envVars>>

Shutdown(s) ==
  /\ s \notin stopping
  /\ Fault("shutdown")
  /\ stopping' = stopping \cup {s}
  /\ UNCHANGED <<state, dials, envVars, pc, batch, failed>>

Restart(s) ==
  /\ s \in stopping
  /\ pc[s] = "idle"
  /\ stopping' = stopping \ {s}
  /\ UNCHANGED <<state, dials, envVars, pc, batch, failed, faults>>

Next ==
  \/ \E T \in SUBSET Targets : AddTargets(T)
  \/ DueChanges \/ RetryTopicsChange
  \/ \E s \in Schedulers : Tick(s) \/ Crash(s) \/ Shutdown(s) \/ Restart(s)

Spec == Init /\ [][Next]_vars

\* The ticker keeps ticking.
FairSpec == Spec /\ \A s \in Schedulers : WF_vars(Tick(s))

-----------------------------------------------------------------------------
(* Properties *)

VariablesTyped ==
  /\ state \in [Targets -> {"absent", "pending", "queued"}]
  /\ dials \in [Targets -> Nat]
  /\ due \in BOOLEAN /\ retained \in BOOLEAN
  /\ pc \in [Schedulers -> Pcs]
  /\ batch \in [Schedulers -> SUBSET Targets]
  /\ failed \in [Schedulers -> SUBSET Targets]
  /\ stopping \subseteq Schedulers
  /\ faults \in Nat

\* Targets are in a scheduler's hands only between fetch and reset.
HandsInv ==
  \A s \in Schedulers :
     /\ pc[s] \notin {"mark", "trigger"} => batch[s] = {}
     /\ pc[s] \notin {"trigger", "reset"} => failed[s] = {}
     /\ batch[s] \cap failed[s] = {}

\* Every variable has its type, and a scheduler holds targets only while it handles them:
\* none is left over from a tick that broke off (tick: the batch and failed are its own).
SchedulerTypeOK == VariablesTyped /\ HandsInv

\* A queued target nobody has dialled, and nobody is going to dial or to put back.
Forgotten(t) ==
  /\ state[t] = "queued" /\ dials[t] = 0
  /\ \A s \in Schedulers : t \notin batch[s] \cup failed[s]

\* However the schedulers overtake each other, a marked target is dialled or put back
\* (tick: mark, trigger, reset).
NoTargetForgotten == \A t \in Targets : ~Forgotten(t)

\* A fault costs no more than the batch it hits: a crash, a shutdown or an error in
\* the middle of a tick (tick: no state says which targets are in whose hands).
ForgottenBounded == Cardinality({t \in Targets : Forgotten(t)}) <= MaxBatchSize * faults

\* A target is dialled at most once by every scheduler that read it before it was
\* marked, and a fault lets each of them do so once more.
DialsBounded == \A t \in Targets : dials[t] <= Cardinality(Schedulers) * (1 + faults)

\* ARCHITECTURE.md: "Uses a distributed lock (via Redis) to ensure that only one
\* instance of the scheduler is active at a time, preventing duplicate call dispatches."
DialledAtMostOnce == \A t \in Targets : dials[t] <= 1

\* The targets that are refused every time may fill every batch before this one's turn.
Crowded(t) == Cardinality({r \in Refused : CreatedAt[r] <= CreatedAt[t]}) >= MaxBatchSize

\* Once the campaign keeps running within its hours and no retry is retained, a pending
\* target with a phone number is dialled, unless a fault makes the schedulers forget it.
\* Targets without a number go back and forth between pending and queued for ever, and
\* the others get past them as long as they do not fill the batch (NextBatchForScheduling:
\* oldest first; TriggerCall: "phone number is required"; Create does not ask for one).
PendingTargetsDialled ==
  <>[](due /\ ~retained) =>
     \A t \in Targets \ Refused :
        ~Crowded(t) => (state[t] = "pending") ~> (dials[t] > 0 \/ Forgotten(t))

-----------------------------------------------------------------------------
(* Inductive strengthenings *)

\* When triggers only fail cleanly nobody stops, and no target is forgotten.
KeptInv == VariablesTyped /\ HandsInv /\ stopping = {} /\ NoTargetForgotten

\* With one scheduler, what has been dialled is queued and out of its hands, and what
\* it is about to dial is queued.
OnceInv ==
  /\ VariablesTyped /\ HandsInv /\ stopping = {}
  /\ \A t \in Targets :
        /\ dials[t] <= 1
        /\ dials[t] = 1 =>
             /\ state[t] = "queued"
             /\ \A s \in Schedulers : t \notin batch[s] \cup failed[s]
  /\ \A s \in Schedulers : pc[s] = "trigger" => \A t \in batch[s] : state[t] = "queued"

\* The schedulers about to dial a target, or able to do so once its mark is made.
Holders(t) ==
  {s \in Schedulers : t \in batch[s] /\ (pc[s] = "trigger" \/ state[t] = "queued")}

\* The schedulers that may still put a target back into the pending ones.
Undoers(t) ==
  {s \in Schedulers : t \in failed[s] \/ (s \in stopping /\ pc[s] # "idle")}

\* What the schedulers may still dial of a target, on top of what they have dialled:
\* once each while it waits, once for each holder, once each for every undoer.
Waiting(t) == IF state[t] = "queued" THEN 0 ELSE Cardinality(Schedulers)
DialBudget ==
  \A t \in Targets \ Refused :
     dials[t] + Waiting(t) + Cardinality(Holders(t))
              + Cardinality(Schedulers) * Cardinality(Undoers(t))
       <= Cardinality(Schedulers) * (1 + faults)
DialInv ==
  VariablesTyped /\ HandsInv /\ DialBudget /\ \A t \in Refused : dials[t] = 0

\* The schedulers that go on with a tick although they have been told to stop.
Dying == {s \in stopping : pc[s] # "idle"}

\* A fault may leave one batch behind, and each dying scheduler leaves at most one.
ForgetBudget ==
  /\ \A s \in Schedulers : Cardinality(batch[s] \cup failed[s]) <= MaxBatchSize
  /\ Cardinality({t \in Targets : Forgotten(t)}) + MaxBatchSize * Cardinality(Dying)
       <= MaxBatchSize * faults
ForgetInv == VariablesTyped /\ HandsInv /\ ForgetBudget
=============================================================================
