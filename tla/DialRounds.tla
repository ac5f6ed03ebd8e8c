----------------------------- MODULE DialRounds -----------------------------
(***************************************************************************)
(* The rounds of one scheduler over several campaigns (tick of             *)
(* internal/scheduler/scheduler.go), while time goes by and requests start *)
(* and pause the campaigns and change their hours.  A round works on the   *)
(* time and the list it began with.  What becomes of single targets is in  *)
(* module Scheduler; here they are counted.  No retries are pending.       *)
(***************************************************************************)
EXTENDS BusinessHours, Sequences, FiniteSets

CONSTANTS
  Campaigns,
  Zone,                \* time zone of each campaign, as in BusinessHours
  HourLists,           \* business hours each campaign may have
  WorkerCount,         \* Scheduler.WorkerCount
  CampaignsPerWorker,  \* 10 in the code
  DefaultFetchLimit,   \* 100 in the code
  MaxBatchSize,        \* Scheduler.MaxBatchSize
  MaxTargets,          \* bound: pending targets of a campaign
  MaxFaults            \* bound: how many faults a behaviour may have

ASSUME RoundsAssumption ==
  /\ IsFiniteSet(Campaigns)
  /\ Zone \in [Campaigns -> SUBSET Int]
  /\ HourLists \in [Campaigns -> SUBSET SUBSET Windows]
  /\ {WorkerCount, CampaignsPerWorker, DefaultFetchLimit, MaxTargets, MaxFaults} \subseteq Nat
  /\ DefaultFetchLimit > 0
  /\ MaxBatchSize \in Nat \ {0}

VARIABLES
  now,       \* the time, in UTC
  running,   \* campaigns whose status is in_progress
  hours,     \* its business hours
  updated,   \* place of each campaign in the order of updated_at, oldest first
  targets,   \* number of its targets that are pending
  pc,        \* next step of the round
  nowUTC,    \* when the round began
  round,     \* campaigns it has still to handle, with their hours
  left,      \* targets of the first of them it has still to trigger
  failed,    \* those it could not trigger
  paused,    \* history: dials of each campaign since it was last running
  closed,    \* history: dials of it since it was last open or its hours were changed
  faults     \* faults so far

campaignVars == <<running, hours, updated>>
roundVars == <<pc, nowUTC, round, left, failed>>
history == <<paused, closed>>
vars == <<now, campaignVars, targets, roundVars, history, faults>>

Pcs == {"idle", "list", "next", "dial"}

\* It is within the campaign's hours.
Open(c) == IsWithinBusinessHours(now, hours[c], Zone[c])

Init ==
  /\ now = 0
  /\ running = {}
  /\ hours = [c \in Campaigns |-> {}]
  /\ updated \in {place \in [Campaigns -> 1 .. Cardinality(Campaigns)] :
                    \A c, d \in Campaigns : place[c] = place[d] => c = d}
  /\ targets = [c \in Campaigns |-> MaxTargets]
  /\ pc = "idle"
  /\ nowUTC = 0
  /\ round = <<>>
  /\ left = 0
  /\ failed = 0
  /\ paused = [c \in Campaigns |-> 0]
  /\ closed = [c \in Campaigns |-> 0]
  /\ faults = 0

Fault == faults < MaxFaults /\ faults' = faults + 1
NoFault == UNCHANGED faults

-----------------------------------------------------------------------------
(* The surroundings *)

ClockTick ==
  /\ now' = (now + 1) % WeekLength
  /\ closed' = [c \in Campaigns |->
                 IF IsWithinBusinessHours(now', hours[c], Zone[c]) THEN 0 ELSE closed[c]]
  /\ UNCHANGED <<campaignVars, targets, roundVars, paused, faults>>

\* Every write of the row makes it the latest (trigger trg_campaigns_updated).
Touch(c) ==
  updated' = [d \in Campaigns |->
                IF d = c THEN Cardinality(Campaigns)
                ELSE IF updated[d] > updated[c] THEN updated[d] - 1 ELSE updated[d]]

Start(c) ==
  /\ c \notin running
  /\ running' = running \cup {c}
  /\ Touch(c)
  /\ paused' = [paused EXCEPT ![c] = 0]
  /\ UNCHANGED <<now, hours, targets, roundVars, closed, faults>>

\* Pause, or Complete: the campaign is started again or never.
Pause(c) ==
  /\ running' = running \ {c}
  /\ Touch(c)
  /\ UNCHANGED <<now, hours, targets, roundVars, history, faults>>

UpdateHours(c) ==
  /\ \E h \in HourLists[c] : hours' = [hours EXCEPT ![c] = h]
  /\ Touch(c)
  /\ closed' = [closed EXCEPT ![c] = 0]
  /\ UNCHANGED <<now, running, targets, roundVars, paused, faults>>

AddTarget(c) ==
  /\ targets[c] < MaxTargets
  /\ targets' = [targets EXCEPT ![c] = @ + 1]
  /\ UNCHANGED <<now, campaignVars, roundVars, history, faults>>

-----------------------------------------------------------------------------
(* A round *)

CampaignFetchLimit ==
  LET limit == WorkerCount * CampaignsPerWorker
  IN  2 * (IF limit <= 0 THEN DefaultFetchLimit ELSE limit)

\* How many campaigns of C have not been written for longer than this one.
Ahead(C, c) == Cardinality({d \in C : updated[d] < updated[c]})

\* The campaigns of C that have not been written for longest, as many as the limit allows.
OldestOf(C, limit) ==
  LET n     == IF Cardinality(C) < limit THEN Cardinality(C) ELSE limit
      lists == {list \in [1 .. n -> C] : \A i \in 1 .. n : Ahead(C, list[i]) = i - 1}
  IN  {[i \in 1 .. n |-> [id |-> list[i], hours |-> hours[list[i]]]] : list \in lists}

\* Altered forms: the status is not looked at; the limit is not doubled.
ListedRunningOrNot == OldestOf(Campaigns, CampaignFetchLimit)
ListedHalf == OldestOf(running, CampaignFetchLimit \div 2)

\* What ListByStatus reads; there is just one such list.
Listed == OldestOf(running, CampaignFetchLimit)

BeginRound ==
  /\ pc = "idle"
  /\ pc' = "list"
  /\ nowUTC' = now
  /\ UNCHANGED <<now, campaignVars, targets, round, left, failed, history, faults>>

ListByStatus ==
  /\ pc = "list"
  /\ \/ NoFault /\ round' \in Listed /\ pc' = "next"
     \/ Fault /\ pc' = "idle" /\ UNCHANGED round
  /\ nowUTC' = IF pc' = "idle" THEN 0 ELSE nowUTC
  /\ UNCHANGED <<now, campaignVars, targets, left, failed, history>>

EndRound ==
  /\ pc = "next" /\ round = <<>>
  /\ pc' = "idle" /\ nowUTC' = 0
  /\ UNCHANGED <<now, campaignVars, targets, round, left, failed, history, faults>>

\* Altered form: the hours are not looked at.
MayDialAlways(campaign) == TRUE

\* The hours are those of the listing, the time is when the round began.
MayDial(campaign) == IsWithinBusinessHours(nowUTC, campaign.hours, Zone[campaign.id])

\* Altered form: a batch is always full.
BatchFull(c) == MaxBatchSize

\* NextBatchForScheduling: a batch, or what there is.
Batch(c) == IF targets[c] < MaxBatchSize THEN targets[c] ELSE MaxBatchSize

\* If the campaign may be dialled a batch is fetched and marked.  An error of either skips
\* the campaign, and one of the mark may have marked the batch nevertheless.
BeginCampaign ==
  LET c     == Head(round).id
      open  == MayDial(Head(round))
      batch == Batch(c)
      taken == [targets EXCEPT ![c] = @ - batch]
  IN  /\ pc = "next" /\ round # <<>>
      /\ \/ /\ open /\ batch > 0
            /\ NoFault
            /\ targets' = taken
            /\ left' = batch
            /\ pc' = "dial"
            /\ UNCHANGED round
         \/ /\ \/ ~(open /\ batch > 0) /\ NoFault /\ UNCHANGED targets
               \/ open /\ Fault /\ targets' \in {targets, taken}
            /\ round' = Tail(round)
            /\ UNCHANGED <<pc, left>>
      /\ UNCHANGED <<now, campaignVars, nowUTC, failed, history>>

Dialled(c) ==
  /\ paused' = [paused EXCEPT ![c] = IF c \in running THEN @ ELSE @ + 1]
  /\ closed' = [closed EXCEPT ![c] = IF Open(c) THEN @ ELSE @ + 1]

\* TriggerCall does not look at the campaign's status or hours.  It refuses a target without a
\* phone number; a call that is reported as failed otherwise may be made nevertheless.
DialTarget ==
  LET c == Head(round).id
  IN  /\ pc = "dial" /\ left > 0
      /\ \/ NoFault /\ Dialled(c) /\ UNCHANGED failed
         \/ NoFault /\ failed' = failed + 1 /\ UNCHANGED history
         \/ Fault /\ failed' = failed + 1 /\ (UNCHANGED history \/ Dialled(c))
      /\ left' = left - 1
      /\ UNCHANGED <<now, campaignVars, targets, pc, nowUTC, round>>

\* The failed targets are put back, unless that fails too.
EndCampaign ==
  LET c == Head(round).id
  IN  /\ pc = "dial" /\ left = 0
      /\ \/ NoFault /\ targets' = [targets EXCEPT ![c] = @ + failed]
         \/ failed > 0 /\ Fault /\ UNCHANGED targets
      /\ failed' = 0
      /\ round' = Tail(round)
      /\ pc' = "next"
      /\ UNCHANGED <<now, campaignVars, nowUTC, left, history>>

RoundStep == ListByStatus \/ EndRound \/ BeginCampaign \/ DialTarget \/ EndCampaign

Request(c) == Start(c) \/ Pause(c) \/ UpdateHours(c) \/ AddTarget(c)

Next == ClockTick \/ BeginRound \/ RoundStep \/ \E c \in Campaigns : Request(c)

Spec == Init /\ [][Next]_vars

\* The ticker begins a round when the last one is over, and a round goes on.
Fairness == WF_vars(BeginRound) /\ WF_vars(RoundStep)

FairSpec == Spec /\ Fairness

-----------------------------------------------------------------------------
(* Properties *)

\* Every variable has its type.
RoundsTypeOK ==
  /\ now \in Minutes /\ nowUTC \in Minutes
  /\ running \subseteq Campaigns
  /\ hours \in [Campaigns -> SUBSET Windows]
  /\ updated \in [Campaigns -> Nat]
  /\ targets \in [Campaigns -> Nat]
  /\ pc \in Pcs
  /\ round \in Seq([id : Campaigns, hours : SUBSET Windows])
  /\ left \in Nat /\ failed \in Nat
  /\ paused \in [Campaigns -> Nat] /\ closed \in [Campaigns -> Nat]
  /\ faults \in Nat

\* A campaign is open exactly while one of its windows is, whatever the zone and also when
\* a window spans midnight or the end of the week (isWithinBusinessHours); a window the table
\* accepts is the same when it is read back (Replace, List).
HoursFollowTheWeek ==
  /\ \A w \in Windows, c \in Campaigns : \A offset \in Zone[c] :
        IsWithinBusinessHours(now, {w}, {offset}) <=> Covers(w, LocalTime(now, offset))
  /\ IsWithinBusinessHours(now, {}, {})
  /\ \A w \in Windows : StorableWindow(w) => ListedWindow(StoredWindow(w)) = w

\* After a campaign is paused or completed it is dialled for one batch more at most, however
\* long the round takes (tick lists the campaigns once).
PausedDialsBounded == \A c \in Campaigns : paused[c] <= MaxBatchSize

\* After its hours are over it is dialled for one batch more at most (tick reads the clock
\* once), although by README.md it "only dispatches work inside permitted windows".
\* Hours that change between the clock and the listing are another matter.
ClosedDialsBounded == \A c \in Campaigns : closed[c] <= MaxBatchSize

InHand(c) == pc = "dial" /\ Head(round).id = c

\* A campaign that keeps running around the clock, and that fits into the listing, gets its
\* turn again and again as long as it has pending targets, whatever is done to the others.
FittingCampaignsServed ==
  \A c \in Campaigns :
     <>[](c \in running /\ hours[c] = {} /\ Ahead(running, c) < CampaignFetchLimit)
        => []<>(targets[c] = 0 \/ InHand(c))

-----------------------------------------------------------------------------
(* Inductive strengthenings *)

\* The entries of the round whose campaigns it has not begun.
Rest == IF pc = "dial" THEN 2 .. Len(round) ELSE 1 .. Len(round)

\* No campaign is listed twice; one is in hand while it is dialled.
RoundInv ==
  /\ \A i, j \in 1 .. Len(round) : round[i].id = round[j].id => i = j
  /\ pc \in {"idle", "list"} => round = <<>>
  /\ pc = "dial" => round # <<>>

\* A campaign the round has not begun was running when it was listed, and what is left of
\* the batch in hand is left of the bound as well.
PausedInv ==
  /\ \A c \in running : paused[c] = 0
  /\ \A i \in Rest : paused[round[i].id] = 0
  /\ pc = "dial" => paused[Head(round).id] + left <= MaxBatchSize

\* The same for the hours, which are looked at with the time of the round's beginning.
ClosedInv ==
  /\ \A c \in Campaigns : Open(c) => closed[c] = 0
  /\ pc = "list" =>
       \A c \in Campaigns : IsWithinBusinessHours(nowUTC, hours[c], Zone[c]) => closed[c] = 0
  /\ \A i \in Rest : MayDial(round[i]) => closed[round[i].id] = 0
  /\ pc = "dial" => closed[Head(round).id] + left <= MaxBatchSize

DialsInv ==
  /\ RoundsTypeOK /\ RoundInv
  /\ PausedInv /\ PausedDialsBounded
  /\ ClosedInv /\ ClosedDialsBounded
=============================================================================
