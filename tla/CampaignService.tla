-------------------------- MODULE CampaignService --------------------------
(***************************************************************************)
(* The campaign service (internal/service/campaign/service.go) and its     *)
(* PostgreSQL tables, for the campaigns of one name: campaigns_name is     *)
(* unique, so there is at most one row.  Requests are handled concurrently *)
(* by any number of API processes; every statement or transaction is one   *)
(* step, and nothing spans two of them.                                    *)
(*                                                                         *)
(* Name, description, time zone, jitter and concurrency go the way of the  *)
(* retry policy and are left out, and so are the time stamps, which steer  *)
(* nothing (toDomain drops them, so that every update erases them).  A     *)
(* business hour window is reduced to its minutes, a target to its phone   *)
(* number.  Nil pointers of a request are empty sets, others singletons.   *)
(***************************************************************************)
EXTENDS Integers, FiniteSets

CONSTANTS
  Clients,     \* requests that may be under way at a time
  Phones,      \* phone numbers
  HourLists,   \* business_hours of the requests: sets of windows
  Policies,    \* retry_policy of the requests
  TicksPerMs,  \* units of a time.Duration in a millisecond
  BaseDelay,   \* default of RetryPolicy.BaseDelay
  MaxDelay,    \* default of RetryPolicy.MaxDelay
  MaxFaults    \* bound: how many faults a behaviour may have

RetryPolicies == [maxAttempts : Int, baseDelay : Int, maxDelay : Int]

ASSUME CampaignAssumption ==
  /\ Policies \subseteq RetryPolicies
  /\ TicksPerMs \in Nat \ {0}
  /\ BaseDelay \in Nat \ {0}
  /\ MaxDelay \in Nat \ {0}
  /\ MaxFaults \in Nat

VARIABLES
  row,         \* row of campaigns, status "absent" when there is none
  hours,       \* rows of campaign_business_hours
  stats,       \* there is a row of campaign_statistics
  targets,     \* phone numbers with a row of campaign_targets
  req,         \* request each client has under way
  registered,  \* history: phone numbers the campaign was created with
  asked,       \* history: hours asked for by its creation and its updates
  settled,     \* history: last status acknowledged to a client no other one raced
  faults       \* faults so far

tables == <<row, hours, stats, targets>>
history == <<registered, asked, settled>>
vars == <<tables, req, history, faults>>

Statuses == {"pending", "in_progress", "paused", "completed"}
StatusOps == {"start", "pause", "complete"}
Ops == StatusOps \cup {"none", "create", "update", "addTargets"}
Steps == {"idle", "insert", "hours", "stats", "targets", "read", "write", "list"}

Optional(S) == {{}} \cup {{x} : x \in S}
ZeroPolicy == [maxAttempts |-> 0, baseDelay |-> 0, maxDelay |-> 0]
NoCampaign == [status |-> "absent", policy |-> ZeroPolicy]

NewRequest(op, step, policy, hrs, phones) ==
  [op |-> op, step |-> step, policy |-> policy, hours |-> hrs, phones |-> phones,
   copy |-> NoCampaign]
NoRequest == NewRequest("none", "idle", {}, {}, {})

Init ==
  /\ row = NoCampaign
  /\ hours = {}
  /\ stats = FALSE
  /\ targets = {}
  /\ req = [c \in Clients |-> NoRequest]
  /\ registered = {}
  /\ asked = {}
  /\ settled = "unknown"
  /\ faults = 0

Fault == faults < MaxFaults /\ faults' = faults + 1
NoFault == UNCHANGED faults

Goto(c, step) == req' = [req EXCEPT ![c].step = step]
Answer(c) == req' = [req EXCEPT ![c] = NoRequest]

-----------------------------------------------------------------------------
(* What the service and the tables make of a request *)

\* Altered form: an upper delay below the lower one is kept.
NormalizeRetryUnordered(p) ==
  [maxAttempts |-> IF p.maxAttempts <= 0 THEN 5 ELSE p.maxAttempts,
   baseDelay   |-> IF p.baseDelay <= 0 THEN BaseDelay ELSE p.baseDelay,
   maxDelay    |-> IF p.maxDelay <= 0 THEN MaxDelay ELSE p.maxDelay]

NormalizeRetry(p) ==
  LET base == IF p.baseDelay <= 0 THEN BaseDelay ELSE p.baseDelay
      upper == IF p.maxDelay <= 0 THEN MaxDelay ELSE p.maxDelay
  IN  [maxAttempts |-> IF p.maxAttempts <= 0 THEN 5 ELSE p.maxAttempts,
       baseDelay   |-> base,
       maxDelay    |-> IF upper < base THEN base ELSE upper]

\* Delays are stored as whole milliseconds.
StoredPolicy(p) ==
  [p EXCEPT !.baseDelay = @ \div TicksPerMs, !.maxDelay = @ \div TicksPerMs]
LoadedPolicy(p) ==
  [p EXCEPT !.baseDelay = @ * TicksPerMs, !.maxDelay = @ * TicksPerMs]

ToDomain(r) == [r EXCEPT !.policy = LoadedPolicy(@)]

\* validateCreateInput: a window has a positive duration, and may span midnight.
ValidHours(hrs) == \A w \in hrs : w.start # w.end

\* A CHECK constraint of campaign_business_hours.  It stands for the two others, on the day
\* of the week and against repeated windows: a list that breaks one is refused as a whole.
StorableHours(hrs) == \A w \in hrs : w.start < w.end

Created(q) ==
  LET policy == IF q.policy = {} THEN ZeroPolicy ELSE CHOOSE p \in q.policy : TRUE
  IN  [NoCampaign EXCEPT !.status = "pending",
                         !.policy = StoredPolicy(NormalizeRetry(policy))]

\* Altered forms: an update that makes the row from the request alone, and a start that
\* writes a status of its own.
StatusAfterAnew(q) ==
  CASE q.op = "update" -> "pending"
    [] q.op = "start" -> "in_progress"
    [] q.op = "pause" -> "paused"
    [] q.op = "complete" -> "completed"
StatusAfterRunning(q) ==
  CASE q.op = "update" -> q.copy.status
    [] q.op = "start" -> "running"
    [] q.op = "pause" -> "paused"
    [] q.op = "complete" -> "completed"

StatusAfter(q) ==
  CASE q.op = "update" -> q.copy.status
    [] q.op = "start" -> "in_progress"
    [] q.op = "pause" -> "paused"
    [] q.op = "complete" -> "completed"

\* The whole row is written back, made of the copy read before.
Written(q) ==
  LET policy == IF q.policy = {} THEN q.copy.policy
                ELSE NormalizeRetry(CHOOSE p \in q.policy : TRUE)
  IN  [status |-> StatusAfter(q), policy |-> StoredPolicy(policy)]

-----------------------------------------------------------------------------
(* Requests *)

CreateRequests ==
  {NewRequest("create", "insert", p, {h}, t) :
     p \in Optional(Policies), h \in {l \in HourLists : ValidHours(l)}, t \in SUBSET Phones}
UpdateRequests ==
  {NewRequest("update", "read", p, h, {}) :
     p \in Optional(Policies), h \in Optional(HourLists)}
StatusRequests == {NewRequest(op, "read", {}, {}, {}) : op \in StatusOps}
TargetRequests ==
  {NewRequest("addTargets", "list", {}, {}, t) : t \in (SUBSET Phones) \ {{}}}

\* A request that is refused as it stands changes nothing and is left out.
Receive(c) ==
  /\ req[c].step = "idle"
  /\ \E q \in CreateRequests \cup UpdateRequests \cup StatusRequests \cup TargetRequests :
        /\ req' = [req EXCEPT ![c] = q]
        /\ settled' = IF q.op \in StatusOps THEN "unknown" ELSE settled
  /\ UNCHANGED <<tables, registered, asked, faults>>

\* A request that has still to write the row.
Writing(c) == req[c].step \in {"read", "write"}

\* A status is acknowledged; it is settled unless another request may yet overwrite it.
Acknowledge(c, status) ==
  settled' = IF \E d \in Clients \ {c} : Writing(d) THEN "unknown" ELSE status

\* The process dies, or a statement fails that has had no effect.  That a statement has
\* its effect and an error is reported nevertheless is part of each action below.
Abandon(c) ==
  /\ req[c].step # "idle"
  /\ Fault
  /\ Answer(c)
  /\ UNCHANGED <<tables, history>>

-----------------------------------------------------------------------------
(* Create *)

InsertCampaign(c) ==
  LET q == req[c]
  IN  /\ q.step = "insert"
      /\ \/ /\ row.status = "absent"
            /\ row' = Created(q)
            /\ registered' = q.phones
            /\ asked' = q.hours
            /\ \/ NoFault /\ Goto(c, "hours")
               \/ Fault /\ Answer(c)
         \/ /\ row.status # "absent"
            /\ NoFault
            /\ Answer(c)
            /\ UNCHANGED <<row, registered, asked>>
      /\ UNCHANGED <<hours, stats, targets, settled>>

\* Altered form: hours that cannot be stored are only logged.
ReplaceHoursLogged(c) ==
  /\ req[c].step = "hours"
  /\ hours' = IF StorableHours(CHOOSE h \in req[c].hours : TRUE)
              THEN CHOOSE h \in req[c].hours : TRUE ELSE hours
  /\ NoFault
  /\ IF req[c].op = "create" THEN Goto(c, "stats") ELSE Answer(c)
  /\ UNCHANGED <<row, stats, targets, history>>

\* One transaction, for Create and Update.
ReplaceHours(c) ==
  /\ req[c].step = "hours"
  /\ \E h \in req[c].hours :
        \/ /\ StorableHours(h)
           /\ hours' = h
           /\ \/ /\ NoFault
                 /\ IF req[c].op = "create" THEN Goto(c, "stats") ELSE Answer(c)
              \/ Fault /\ Answer(c)
        \/ ~StorableHours(h) /\ NoFault /\ Answer(c) /\ UNCHANGED hours
  /\ UNCHANGED <<row, stats, targets, history>>

EnsureStatistics(c) ==
  /\ req[c].step = "stats"
  /\ stats' = TRUE
  /\ \/ /\ NoFault
        /\ IF req[c].phones = {} THEN Answer(c) ELSE Goto(c, "targets")
     \/ Fault /\ Answer(c)
  /\ UNCHANGED <<row, hours, targets, history>>

\* BulkInsert, for Create and AddTargets.
InsertTargets(c) ==
  /\ req[c].step = "targets"
  /\ targets' = targets \cup req[c].phones
  /\ NoFault \/ Fault
  /\ Answer(c)
  /\ UNCHANGED <<row, hours, stats, history>>

-----------------------------------------------------------------------------
(* Update, Start, Pause, Complete *)

\* Altered form: a start looks only at whether the campaign is running.
GetUnlessRunning(c) ==
  /\ req[c].step = "read"
  /\ NoFault
  /\ IF row.status = "absent" \/ (req[c].op = "start" /\ row.status = "in_progress")
     THEN Answer(c)
     ELSE req' = [req EXCEPT ![c].step = "write", ![c].copy = ToDomain(row)]
  /\ UNCHANGED <<tables, history>>

Get(c) ==
  LET q == req[c]
  IN  /\ q.step = "read"
      /\ NoFault
      /\ \/ /\ \/ row.status = "absent"
               \/ q.op = "start" /\ row.status = "completed"
            /\ Answer(c)
            /\ UNCHANGED settled
         \/ /\ q.op = "start" /\ row.status = "in_progress"
            /\ Answer(c)
            /\ Acknowledge(c, "in_progress")
         \/ /\ row.status # "absent"
            /\ q.op = "start" => row.status \notin {"in_progress", "completed"}
            /\ req' = [req EXCEPT ![c].step = "write", ![c].copy = ToDomain(row)]
            /\ UNCHANGED settled
      /\ UNCHANGED <<tables, registered, asked>>

UpdateRow(c) ==
  LET q == req[c]
  IN  /\ q.step = "write"
      /\ row' = Written(q)
      /\ asked' = asked \cup q.hours
      /\ \/ /\ NoFault
            /\ IF q.hours = {} THEN Answer(c) ELSE Goto(c, "hours")
            /\ IF q.op \in StatusOps THEN Acknowledge(c, StatusAfter(q))
               ELSE UNCHANGED settled
         \/ Fault /\ Answer(c) /\ UNCHANGED settled
      /\ UNCHANGED <<hours, stats, targets, registered>>

-----------------------------------------------------------------------------
(* AddTargets *)

\* Altered form: only checks that the campaign has targets.
ListTargetsUnchecked(c) ==
  /\ req[c].step = "list"
  /\ NoFault
  /\ IF targets # {} THEN Goto(c, "targets") ELSE Answer(c)
  /\ UNCHANGED <<tables, history>>

\* ListByCampaign returns the first 10000 rows: all of them, or only some.
ListTargets(c) ==
  /\ req[c].step = "list"
  /\ NoFault
  /\ \E existing \in SUBSET targets :
        /\ targets # {} => existing # {}
        /\ IF existing # {} /\ req[c].phones \subseteq existing
           THEN Goto(c, "targets") ELSE Answer(c)
  /\ UNCHANGED <<tables, history>>

-----------------------------------------------------------------------------
Handle(c) ==
  \/ InsertCampaign(c) \/ ReplaceHours(c) \/ EnsureStatistics(c) \/ InsertTargets(c)
  \/ Get(c) \/ UpdateRow(c) \/ ListTargets(c)

Next == \E c \in Clients : Receive(c) \/ Handle(c) \/ Abandon(c)

Spec == Init /\ [][Next]_vars

-----------------------------------------------------------------------------
(* Properties *)

Rows == [status : Statuses \cup {"absent"}, policy : RetryPolicies]
Requests ==
  [op : Ops, step : Steps, policy : Optional(Policies), hours : Optional(HourLists),
   phones : SUBSET Phones, copy : Rows]

\* Every variable has its type.
CampaignTypeOK ==
  /\ row \in Rows
  /\ hours \in HourLists \cup {{}}
  /\ stats \in BOOLEAN
  /\ targets \subseteq Phones
  /\ req \in [Clients -> Requests]
  /\ registered \subseteq Phones
  /\ asked \subseteq HourLists
  /\ settled \in Statuses \cup {"unknown"}
  /\ faults \in Nat

\* A status change acknowledged while no other request was about to write the row stays
\* until the next status change is asked for, whatever updates come later and however
\* they overlap (Update writes back the status it read).
SettledStatusHolds == settled # "unknown" => row.status = settled

\* README.md: the targets endpoint "only accepts phone numbers that were part of the
\* original campaign registration".  It compares with what is stored, not with what was
\* registered, while Create may be under way or have failed half-way.
TargetsRegistered == targets \subseteq registered

\* A campaign has targets to dial only when its statistics row is there and its hours are
\* some it was asked to have: one whose creation broke off, and which may be started
\* nevertheless, is not dialled around the clock (Create stores the targets last).
HoursBeforeTargets == targets # {} => stats /\ hours \in asked

Usable(p) == p.maxAttempts >= 1 /\ p.baseDelay \in 0 .. p.maxDelay

\* Whatever requests leave out or set too low, the stored policy allows an attempt and its
\* delays are ordered, however often it was rounded (normalizeRetry, campaignRecord).
PolicyUsable == row.status # "absent" => Usable(row.policy)

\* A completed campaign is not opened again by a request that saw it completed, except by a
\* pause, from where it may be started (Start refuses it, Update keeps its status).
CompletedLeftByPause ==
  [][row.status = "completed" /\ row'.status # "completed" =>
        \E c \in Clients :
           /\ req[c].step = "write" /\ req'[c].step # "write"
           /\ req[c].op = "pause" \/ req[c].copy.status # "completed"]_vars

\* service_test.go: "expected midnight-crossing business hours to pass": while nothing
\* fails, a creation whose hours passed validation gets beyond storing them.
ValidHoursAreStored ==
  [][\A c \in Clients :
        req[c].op = "create" /\ req[c].step = "hours" /\ req'[c].step # "hours"
           => req'[c].step = "stats" \/ faults' # faults]_vars

-----------------------------------------------------------------------------
(* Inductive strengthening *)

\* How far a creation has come shows in the tables; targets are on their way only to a
\* campaign that registered them and has its hours.
StagesInv ==
  /\ row.status = "absent" => targets = {}
  /\ \A c \in Clients :
        LET q == req[c]
        IN  /\ q.step \in {"hours", "stats", "targets"} => row.status # "absent"
            /\ q.op = "create" /\ q.step # "insert" =>
                 row.status # "absent" /\ registered = q.phones
            /\ q.step = "hours" => q.hours \subseteq asked
            /\ q.step = "stats" => hours \in asked
            /\ q.step = "targets" => stats /\ hours \in asked /\ q.phones \subseteq registered
            /\ q.step \in {"insert", "stats"} => q.op = "create"

\* Whoever may still write the row after a settled status is an update that keeps it.
KeepersInv ==
  settled # "unknown" =>
     \A c \in Clients : Writing(c) =>
        /\ req[c].op = "update"
        /\ req[c].step = "write" => req[c].copy.status = settled

\* An update or status change past its read has a copy of a row that exists.
CopiesInv ==
  \A c \in Clients :
     /\ Writing(c) => req[c].op \in StatusOps \cup {"update"}
     /\ req[c].step = "write" =>
          /\ row.status # "absent" /\ req[c].copy.status # "absent"
          /\ req[c].op = "start" => req[c].copy.status # "completed"

\* A policy about to be written back is usable in the units of the copy as well.
PoliciesInv ==
  /\ PolicyUsable
  /\ \A c \in Clients : req[c].step = "write" => Usable(req[c].copy.policy)

CampaignInv ==
  /\ CampaignTypeOK /\ StagesInv /\ KeepersInv /\ CopiesInv
  /\ SettledStatusHolds /\ TargetsRegistered /\ HoursBeforeTargets
=============================================================================
