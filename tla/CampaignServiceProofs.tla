----------------------- MODULE CampaignServiceProofs -----------------------
(***************************************************************************)
(* Safety of the campaign service for any number of concurrent requests    *)
(* and any number of faults, and of the delays that follow from the retry  *)
(* policy it stores, for every width of a Duration.                        *)
(***************************************************************************)
EXTENDS RetryBackoff, WellFoundedInduction, TLAPS

-----------------------------------------------------------------------------
(* The operators *)

LEMMA PolicyTypes ==
  ASSUME NEW p \in RetryPolicies
  PROVE  /\ NormalizeRetry(p) \in RetryPolicies
         /\ StoredPolicy(p) \in RetryPolicies
         /\ LoadedPolicy(p) \in RetryPolicies
<1> USE CampaignAssumption DEF RetryPolicies
<1>1. NormalizeRetry(p) \in RetryPolicies
  BY DEF NormalizeRetry
<1>2. \A n \in Int : n \div TicksPerMs \in Int /\ n * TicksPerMs \in Int
  OBVIOUS
<1>3. StoredPolicy(p) \in RetryPolicies
  BY <1>2 DEF StoredPolicy
<1>4. LoadedPolicy(p) \in RetryPolicies
  BY <1>2 DEF LoadedPolicy
<1> QED
  BY <1>1, <1>3, <1>4

\* A normalised policy is usable.
LEMMA NormalizedIsUsable ==
  ASSUME NEW p \in RetryPolicies
  PROVE  Usable(NormalizeRetry(p))
<1> DEFINE n == NormalizeRetry(p)
<1>1. n \in RetryPolicies
  BY PolicyTypes
<1>2. /\ n.maxAttempts = IF p.maxAttempts <= 0 THEN 5 ELSE p.maxAttempts
      /\ n.baseDelay = IF p.baseDelay <= 0 THEN BaseDelay ELSE p.baseDelay
      /\ LET upper == IF p.maxDelay <= 0 THEN MaxDelay ELSE p.maxDelay
         IN  n.maxDelay = IF upper < n.baseDelay THEN n.baseDelay ELSE upper
  BY DEF NormalizeRetry
<1>3. p.maxAttempts \in Int /\ p.baseDelay \in Int /\ p.maxDelay \in Int
  BY DEF RetryPolicies
<1> HIDE DEF n
<1>4. Usable(n)
  BY <1>1, <1>2, <1>3, CampaignAssumption DEF Usable
<1> QED
  BY <1>4 DEF n

\* A usable policy stays usable when it is rounded to milliseconds and when it is read.
LEMMA UsableStaysUsable ==
  ASSUME NEW p \in RetryPolicies, Usable(p)
  PROVE  Usable(StoredPolicy(p)) /\ Usable(LoadedPolicy(p))
<1>1. /\ p.maxAttempts \in Int /\ p.maxAttempts >= 1
      /\ p.baseDelay \in Nat /\ p.maxDelay \in Nat /\ p.baseDelay <= p.maxDelay
  BY DEF Usable, RetryPolicies
<1>2. ASSUME NEW a \in Nat, NEW b \in Nat, a <= b
      PROVE  /\ a \div TicksPerMs \in Nat /\ b \div TicksPerMs \in Nat
             /\ a \div TicksPerMs <= b \div TicksPerMs
  BY <1>2, CampaignAssumption
<1>3. ASSUME NEW a \in Nat, NEW b \in Nat, a <= b
      PROVE  /\ a * TicksPerMs \in Nat /\ b * TicksPerMs \in Nat
             /\ a * TicksPerMs <= b * TicksPerMs
  BY <1>3, CampaignAssumption
<1>4. /\ StoredPolicy(p).maxAttempts = p.maxAttempts
      /\ StoredPolicy(p).baseDelay = p.baseDelay \div TicksPerMs
      /\ StoredPolicy(p).maxDelay = p.maxDelay \div TicksPerMs
  BY DEF StoredPolicy, RetryPolicies
<1>5. /\ LoadedPolicy(p).maxAttempts = p.maxAttempts
      /\ LoadedPolicy(p).baseDelay = p.baseDelay * TicksPerMs
      /\ LoadedPolicy(p).maxDelay = p.maxDelay * TicksPerMs
  BY DEF LoadedPolicy, RetryPolicies
<1>6. Usable(StoredPolicy(p))
  BY <1>1, <1>2, <1>4 DEF Usable
<1>7. Usable(LoadedPolicy(p))
  BY <1>1, <1>3, <1>5 DEF Usable
<1> QED
  BY <1>6, <1>7

\* What is read, created and written is a row.
LEMMA RowTypes ==
  ASSUME CampaignTypeOK, CopiesInv, NEW c \in Clients
  PROVE  /\ Created(req[c]) \in Rows /\ Created(req[c]).status = "pending"
         /\ ToDomain(row) \in Rows /\ ToDomain(row).status = row.status
         /\ req[c].step = "write" =>
              /\ StatusAfter(req[c]) \in Statuses
              /\ Written(req[c]) \in Rows /\ Written(req[c]).status = StatusAfter(req[c])
<1> DEFINE q == req[c]
<1>1. q \in Requests /\ row \in Rows
  BY DEF CampaignTypeOK
<1>2. /\ NoCampaign \in Rows
      /\ ZeroPolicy \in RetryPolicies
  BY DEF NoCampaign, Rows, ZeroPolicy, RetryPolicies
<1>3. q.policy # {} => (CHOOSE p \in q.policy : TRUE) \in RetryPolicies
  BY <1>1, CampaignAssumption DEF Requests, Optional
<1> HIDE DEF q
<1>4. Created(q) \in Rows /\ Created(q).status = "pending"
  BY <1>2, <1>3, PolicyTypes DEF Created, Rows, Statuses
<1>5. ToDomain(row) \in Rows /\ ToDomain(row).status = row.status
  BY <1>1, PolicyTypes DEF ToDomain, Rows
<1>6. ASSUME q.step = "write"
      PROVE  /\ StatusAfter(q) \in Statuses
             /\ Written(q) \in Rows /\ Written(q).status = StatusAfter(q)
  <2>1. StatusAfter(q) \in Statuses
    BY <1>1, <1>6 DEF CopiesInv, Writing, StatusOps, StatusAfter, Statuses, Requests, Rows, q
  <2>2. q.copy \in Rows
    BY <1>1 DEF Requests
  <2>3. (IF q.policy = {} THEN q.copy.policy
         ELSE NormalizeRetry(CHOOSE p \in q.policy : TRUE)) \in RetryPolicies
    BY <1>3, <2>2, PolicyTypes DEF Rows
  <2> QED
    BY <2>1, <2>3, PolicyTypes DEF Written, Rows
<1> QED
  BY <1>4, <1>5, <1>6 DEF q

\* A new request, or none, has the type of a request.
LEMMA RequestTypes ==
  /\ NoRequest \in Requests
  /\ \A q \in CreateRequests \cup UpdateRequests \cup StatusRequests \cup TargetRequests :
       /\ q \in Requests
       /\ q.step \in {"insert", "read", "list"}
       /\ q.step = "insert" => q.op = "create"
       /\ q.op = "create" => q.step = "insert"
       /\ q.step = "read" => q.op \in StatusOps \cup {"update"}
<1> USE DEF NewRequest, Requests, Rows, Ops, Steps, StatusOps
<1>1. NoCampaign \in Rows
  BY DEF NoCampaign, ZeroPolicy, RetryPolicies
<1>2. NoRequest \in Requests
  BY <1>1 DEF NoRequest, Optional
<1>3. \A h \in HourLists : {h} \in Optional(HourLists)
  BY DEF Optional
<1>4. {} \in Optional(HourLists) /\ {} \in Optional(Policies)
  BY DEF Optional
<1>5. \A q \in CreateRequests : q \in Requests /\ q.step = "insert" /\ q.op = "create"
  BY <1>1, <1>3, <1>4 DEF CreateRequests
<1>6. \A q \in UpdateRequests : q \in Requests /\ q.step = "read" /\ q.op = "update"
  BY <1>1, <1>4 DEF UpdateRequests
<1>7. \A q \in StatusRequests : q \in Requests /\ q.step = "read" /\ q.op \in StatusOps
  BY <1>1, <1>4 DEF StatusRequests
<1>8. \A q \in TargetRequests : q \in Requests /\ q.step = "list" /\ q.op = "addTargets"
  BY <1>1, <1>4 DEF TargetRequests
<1> QED
  BY <1>2, <1>5, <1>6, <1>7, <1>8

-----------------------------------------------------------------------------
(* The invariant *)

LEMMA CampaignInitial == Init => CampaignInv
<1> SUFFICES ASSUME Init PROVE CampaignInv
  OBVIOUS
<1>1. NoCampaign \in Rows /\ NoCampaign.status = "absent"
  BY DEF NoCampaign, Rows, ZeroPolicy, RetryPolicies
<1>2. \A c \in Clients : /\ req[c] = NoRequest
                         /\ req[c].step = "idle" /\ req[c].op = "none"
  BY DEF Init, NoRequest, NewRequest
<1>3. CampaignTypeOK
  BY <1>1, RequestTypes DEF Init, CampaignTypeOK
<1> QED
  BY <1>1, <1>2, <1>3 DEF Init, CampaignInv, StagesInv, KeepersInv, CopiesInv, Writing,
     SettledStatusHolds, TargetsRegistered, HoursBeforeTargets

\* Ending a request takes nothing away from the invariant.
LEMMA AbandonKeeps ==
  ASSUME CampaignInv, NEW c \in Clients, Abandon(c)
  PROVE  CampaignInv'
<1> USE DEF CampaignInv
<1>1. /\ req' \in [Clients -> Requests]
      /\ \A d \in Clients : req'[d] = IF d = c THEN NoRequest ELSE req[d]
      /\ NoRequest.step = "idle" /\ NoRequest.op = "none"
  BY RequestTypes DEF Abandon, Answer, CampaignTypeOK, NoRequest, NewRequest
<1>2. CampaignTypeOK'
  BY <1>1, CampaignAssumption DEF CampaignTypeOK, Abandon, Fault, tables, history
<1>3. StagesInv'
  BY <1>1 DEF StagesInv, Abandon, tables, history
<1>4. KeepersInv' /\ CopiesInv'
  BY <1>1 DEF KeepersInv, CopiesInv, Writing, Abandon, tables, history
<1> QED
  BY <1>2, <1>3, <1>4 DEF Abandon, tables, history,
     SettledStatusHolds, TargetsRegistered, HoursBeforeTargets

LEMMA ReceiveKeeps ==
  ASSUME CampaignInv, NEW c \in Clients, Receive(c)
  PROVE  CampaignInv'
<1> USE DEF CampaignInv
<1>1. PICK q \in CreateRequests \cup UpdateRequests \cup StatusRequests \cup TargetRequests :
         /\ req' = [req EXCEPT ![c] = q]
         /\ settled' = IF q.op \in StatusOps THEN "unknown" ELSE settled
  BY DEF Receive
<1>2. /\ q \in Requests
      /\ q.step \in {"insert", "read", "list"}
      /\ q.step = "insert" => q.op = "create"
      /\ q.op = "create" => q.step = "insert"
      /\ q.step = "read" => q.op \in StatusOps \cup {"update"}
  BY RequestTypes
<1>3. /\ req' \in [Clients -> Requests]
      /\ \A d \in Clients : req'[d] = IF d = c THEN q ELSE req[d]
  BY <1>1, <1>2 DEF CampaignTypeOK
<1>4. UNCHANGED <<row, hours, stats, targets, registered, asked, faults>>
  BY DEF Receive, tables
<1>5. CampaignTypeOK'
  BY <1>1, <1>3, <1>4 DEF CampaignTypeOK
<1>6. StagesInv'
  BY <1>2, <1>3, <1>4 DEF StagesInv
<1>7. KeepersInv' /\ CopiesInv'
  BY <1>1, <1>2, <1>3, <1>4 DEF KeepersInv, CopiesInv, Writing, StatusOps
<1> QED
  BY <1>1, <1>4, <1>5, <1>6, <1>7 DEF
     SettledStatusHolds, TargetsRegistered, HoursBeforeTargets

LEMMA InsertCampaignKeeps ==
  ASSUME CampaignInv, NEW c \in Clients, InsertCampaign(c)
  PROVE  CampaignInv'
<1> USE DEF CampaignInv
<1> DEFINE q == req[c]
<1>1. q \in Requests /\ q.step = "insert" /\ q.op = "create"
  BY DEF CampaignTypeOK, InsertCampaign, StagesInv
<1>2. /\ NoRequest \in Requests
      /\ NoRequest.step = "idle" /\ NoRequest.op = "none"
  BY RequestTypes DEF NoRequest, NewRequest
<1>3. /\ req' \in [Clients -> Requests]
      /\ \A d \in Clients \ {c} : req'[d] = req[d]
      /\ \/ req'[c] = NoRequest
         \/ /\ row.status = "absent"
            /\ req'[c].step = "hours" /\ req'[c].op = "create"
            /\ req'[c].hours = q.hours /\ req'[c].phones = q.phones
  BY <1>1, <1>2 DEF InsertCampaign, Goto, Answer, CampaignTypeOK, Requests, Steps
<1>4. UNCHANGED <<hours, stats, targets, settled>>
  BY DEF InsertCampaign
<1>5. \/ /\ row.status = "absent"
         /\ row' \in Rows /\ row'.status = "pending"
         /\ registered' = q.phones /\ asked' = q.hours
      \/ UNCHANGED <<row, registered, asked>> /\ req'[c] = NoRequest
  BY <1>1, RowTypes DEF InsertCampaign, Answer, CampaignTypeOK
<1>6. CampaignTypeOK'
  BY <1>1, <1>3, <1>4, <1>5, CampaignAssumption
     DEF CampaignTypeOK, InsertCampaign, Fault, NoFault, Requests, Optional
<1> HIDE DEF q
<1>7. row.status = "absent" => settled = "unknown"
  BY DEF SettledStatusHolds, CampaignTypeOK, Statuses
<1>8. \A d \in Clients : row.status = "absent" => req[d].step # "write"
  BY DEF CopiesInv
<1>9. row.status = "absent" =>
        /\ targets = {}
        /\ \A d \in Clients : req[d].step \notin {"hours", "stats", "targets"}
  <2> SUFFICES ASSUME row.status = "absent", NEW d \in Clients
               PROVE  targets = {} /\ req[d].step \notin {"hours", "stats", "targets"}
    OBVIOUS
  <2> QED
    BY DEF StagesInv
<1>10. StagesInv'
  BY <1>2, <1>3, <1>4, <1>5, <1>9 DEF StagesInv
<1>11. KeepersInv' /\ CopiesInv'
  BY <1>2, <1>3, <1>4, <1>5, <1>7, <1>8 DEF KeepersInv, CopiesInv, Writing
<1> QED
  BY <1>4, <1>5, <1>6, <1>7, <1>9, <1>10, <1>11 DEF
     SettledStatusHolds, TargetsRegistered, HoursBeforeTargets

LEMMA ReplaceHoursKeeps ==
  ASSUME CampaignInv, NEW c \in Clients, ReplaceHours(c)
  PROVE  CampaignInv'
<1> USE DEF CampaignInv
<1> DEFINE q == req[c]
<1>1. q \in Requests /\ q.step = "hours" /\ q.hours \subseteq asked
  BY DEF CampaignTypeOK, ReplaceHours, StagesInv
<1>2. /\ NoRequest \in Requests
      /\ NoRequest.step = "idle" /\ NoRequest.op = "none"
  BY RequestTypes DEF NoRequest, NewRequest
<1>3. hours' = hours \/ hours' \in asked
  BY <1>1 DEF ReplaceHours
<1>4. /\ req' \in [Clients -> Requests]
      /\ \A d \in Clients \ {c} : req'[d] = req[d]
      /\ \/ req'[c] = NoRequest
         \/ /\ q.op = "create" /\ hours' \in asked
            /\ req'[c].step = "stats" /\ req'[c].op = "create"
            /\ req'[c].phones = q.phones
  BY <1>1, <1>2 DEF ReplaceHours, Goto, Answer, CampaignTypeOK, Requests, Steps
<1>5. UNCHANGED <<row, stats, targets, registered, asked, settled>>
  BY DEF ReplaceHours, history
<1>6. CampaignTypeOK'
  BY <1>3, <1>4, <1>5, CampaignAssumption DEF CampaignTypeOK, ReplaceHours, Fault, NoFault
<1>7. StagesInv'
  BY <1>1, <1>2, <1>3, <1>4, <1>5 DEF StagesInv
<1>8. KeepersInv' /\ CopiesInv'
  BY <1>2, <1>4, <1>5 DEF KeepersInv, CopiesInv, Writing
<1> QED
  BY <1>3, <1>5, <1>6, <1>7, <1>8 DEF
     SettledStatusHolds, TargetsRegistered, HoursBeforeTargets

LEMMA EnsureStatisticsKeeps ==
  ASSUME CampaignInv, NEW c \in Clients, EnsureStatistics(c)
  PROVE  CampaignInv'
<1> USE DEF CampaignInv
<1> DEFINE q == req[c]
<1>1. /\ q \in Requests /\ q.step = "stats" /\ q.op = "create"
      /\ hours \in asked /\ registered = q.phones /\ row.status # "absent"
  BY DEF CampaignTypeOK, EnsureStatistics, StagesInv
<1>2. /\ NoRequest \in Requests
      /\ NoRequest.step = "idle" /\ NoRequest.op = "none"
  BY RequestTypes DEF NoRequest, NewRequest
<1>3. /\ req' \in [Clients -> Requests]
      /\ \A d \in Clients \ {c} : req'[d] = req[d]
      /\ \/ req'[c] = NoRequest
         \/ req'[c].step = "targets" /\ req'[c].op = "create" /\ req'[c].phones = q.phones
  BY <1>1, <1>2 DEF EnsureStatistics, Goto, Answer, CampaignTypeOK, Requests, Steps
<1>4. UNCHANGED <<row, hours, targets, registered, asked, settled>> /\ stats' = TRUE
  BY DEF EnsureStatistics, history
<1>5. CampaignTypeOK'
  BY <1>3, <1>4, CampaignAssumption DEF CampaignTypeOK, EnsureStatistics, Fault, NoFault
<1>6. StagesInv'
  BY <1>1, <1>2, <1>3, <1>4 DEF StagesInv
<1>7. KeepersInv' /\ CopiesInv'
  BY <1>2, <1>3, <1>4 DEF KeepersInv, CopiesInv, Writing
<1> QED
  BY <1>4, <1>5, <1>6, <1>7 DEF SettledStatusHolds, TargetsRegistered, HoursBeforeTargets

LEMMA InsertTargetsKeeps ==
  ASSUME CampaignInv, NEW c \in Clients, InsertTargets(c)
  PROVE  CampaignInv'
<1> USE DEF CampaignInv
<1> DEFINE q == req[c]
<1>1. /\ q \in Requests /\ q.step = "targets"
      /\ stats /\ hours \in asked /\ q.phones \subseteq registered /\ row.status # "absent"
  BY DEF CampaignTypeOK, InsertTargets, StagesInv
<1>2. /\ NoRequest \in Requests
      /\ NoRequest.step = "idle" /\ NoRequest.op = "none"
  BY RequestTypes DEF NoRequest, NewRequest
<1>3. /\ req' \in [Clients -> Requests]
      /\ \A d \in Clients : req'[d] = IF d = c THEN NoRequest ELSE req[d]
  BY <1>2 DEF InsertTargets, Answer, CampaignTypeOK
<1>4. /\ UNCHANGED <<row, hours, stats, registered, asked, settled>>
      /\ targets' = targets \cup q.phones
  BY DEF InsertTargets, history
<1>5. CampaignTypeOK'
  BY <1>1, <1>3, <1>4, CampaignAssumption
     DEF CampaignTypeOK, InsertTargets, Fault, NoFault, Requests
<1>6. StagesInv'
  BY <1>1, <1>2, <1>3, <1>4 DEF StagesInv
<1>7. KeepersInv' /\ CopiesInv'
  BY <1>2, <1>3, <1>4 DEF KeepersInv, CopiesInv, Writing
<1> QED
  BY <1>1, <1>4, <1>5, <1>6, <1>7 DEF
     SettledStatusHolds, TargetsRegistered, HoursBeforeTargets

LEMMA GetKeeps ==
  ASSUME CampaignInv, NEW c \in Clients, Get(c)
  PROVE  CampaignInv'
<1> USE DEF CampaignInv
<1> DEFINE q == req[c]
<1>1. /\ q \in Requests /\ q.step = "read" /\ q.op \in StatusOps \cup {"update"}
      /\ row \in Rows /\ ToDomain(row) \in Rows /\ ToDomain(row).status = row.status
  BY RowTypes DEF CampaignTypeOK, Get, CopiesInv, Writing
<1>2. /\ NoRequest \in Requests
      /\ NoRequest.step = "idle" /\ NoRequest.op = "none"
  BY RequestTypes DEF NoRequest, NewRequest
<1>3. /\ req' \in [Clients -> Requests]
      /\ \A d \in Clients \ {c} : req'[d] = req[d]
      /\ \/ req'[c] = NoRequest
         \/ /\ row.status # "absent" /\ settled' = settled
            /\ req'[c].step = "write" /\ req'[c].op = q.op
            /\ req'[c].copy.status = row.status
            /\ q.op = "start" => row.status # "completed"
  BY <1>1, <1>2 DEF Get, Answer, CampaignTypeOK, Requests, Steps
<1>4. UNCHANGED <<row, hours, stats, targets, registered, asked, faults>>
  BY DEF Get, NoFault, tables
<1>5. \/ settled' = settled
      \/ settled' = "unknown"
      \/ /\ settled' = "in_progress" /\ row.status = "in_progress"
         /\ req'[c] = NoRequest
         /\ \A d \in Clients \ {c} : ~Writing(d)
  BY DEF Get, Acknowledge, Answer, CampaignTypeOK
<1>6. CampaignTypeOK'
  BY <1>3, <1>4, <1>5 DEF CampaignTypeOK, Statuses
<1>7. StagesInv'
  BY <1>1, <1>2, <1>3, <1>4 DEF StagesInv, StatusOps
<1>8. CopiesInv'
  BY <1>1, <1>2, <1>3, <1>4 DEF CopiesInv, Writing
<1>9. SettledStatusHolds'
  BY <1>4, <1>5 DEF SettledStatusHolds
<1>10. KeepersInv'
  BY <1>1, <1>2, <1>3, <1>4, <1>5 DEF KeepersInv, Writing, SettledStatusHolds
<1> QED
  BY <1>4, <1>6, <1>7, <1>8, <1>9, <1>10 DEF TargetsRegistered, HoursBeforeTargets

LEMMA UpdateRowKeeps ==
  ASSUME CampaignInv, NEW c \in Clients, UpdateRow(c)
  PROVE  CampaignInv'
<1> USE DEF CampaignInv
<1> DEFINE q == req[c]
<1>1. /\ q \in Requests /\ q.step = "write" /\ q.op \in StatusOps \cup {"update"}
      /\ row.status # "absent"
      /\ StatusAfter(q) \in Statuses
      /\ Written(q) \in Rows /\ Written(q).status = StatusAfter(q)
  BY RowTypes DEF CampaignTypeOK, UpdateRow, CopiesInv, Writing
<1>2. /\ NoRequest \in Requests
      /\ NoRequest.step = "idle" /\ NoRequest.op = "none"
  BY RequestTypes DEF NoRequest, NewRequest
<1>3. /\ req' \in [Clients -> Requests]
      /\ \A d \in Clients \ {c} : req'[d] = req[d]
      /\ \/ req'[c] = NoRequest
         \/ req'[c].step = "hours" /\ req'[c].op = q.op /\ req'[c].hours = q.hours
  BY <1>1, <1>2 DEF UpdateRow, Goto, Answer, CampaignTypeOK, Requests, Steps
<1>4. /\ UNCHANGED <<hours, stats, targets, registered>>
      /\ row' = Written(q) /\ asked' = asked \cup q.hours
  BY DEF UpdateRow
<1>5. row'.status \in Statuses /\ row'.status # "absent"
  BY <1>1, <1>4 DEF Statuses
<1>6. \/ settled' = settled
      \/ settled' = "unknown"
      \/ settled' = StatusAfter(q) /\ \A d \in Clients \ {c} : ~Writing(d)
  BY DEF UpdateRow, Acknowledge
<1>7. CampaignTypeOK'
  BY <1>1, <1>3, <1>4, <1>6, CampaignAssumption
     DEF CampaignTypeOK, UpdateRow, Fault, NoFault, Requests, Optional
<1>8. StagesInv'
  BY <1>1, <1>2, <1>3, <1>4, <1>5 DEF StagesInv, StatusOps
<1>9. CopiesInv'
  BY <1>1, <1>2, <1>3, <1>5 DEF CopiesInv, Writing
<1>10. settled # "unknown" => StatusAfter(q) = settled
  BY <1>1 DEF KeepersInv, Writing, StatusAfter, StatusOps
<1>11. SettledStatusHolds'
  BY <1>1, <1>4, <1>6, <1>10 DEF SettledStatusHolds
<1>12. KeepersInv'
  BY <1>2, <1>3, <1>6 DEF KeepersInv, Writing
<1> QED
  BY <1>4, <1>7, <1>8, <1>9, <1>11, <1>12 DEF TargetsRegistered, HoursBeforeTargets

LEMMA ListTargetsKeeps ==
  ASSUME CampaignInv, NEW c \in Clients, ListTargets(c)
  PROVE  CampaignInv'
<1> USE DEF CampaignInv
<1> DEFINE q == req[c]
<1>1. q \in Requests /\ q.step = "list"
  BY DEF CampaignTypeOK, ListTargets
<1>2. /\ NoRequest \in Requests
      /\ NoRequest.step = "idle" /\ NoRequest.op = "none"
  BY RequestTypes DEF NoRequest, NewRequest
<1>3. /\ req' \in [Clients -> Requests]
      /\ \A d \in Clients \ {c} : req'[d] = req[d]
      /\ \/ req'[c] = NoRequest
         \/ /\ targets # {} /\ q.phones \subseteq targets
            /\ req'[c].step = "targets" /\ req'[c].op = q.op
            /\ req'[c].phones = q.phones
  BY <1>1, <1>2 DEF ListTargets, Goto, Answer, CampaignTypeOK, Requests, Steps
<1>4. UNCHANGED <<row, hours, stats, targets, registered, asked, settled, faults>>
  BY DEF ListTargets, NoFault, tables, history
<1>5. CampaignTypeOK'
  BY <1>3, <1>4 DEF CampaignTypeOK
<1>6. StagesInv'
  BY <1>1, <1>2, <1>3, <1>4 DEF StagesInv, TargetsRegistered, HoursBeforeTargets
<1>7. KeepersInv' /\ CopiesInv'
  BY <1>2, <1>3, <1>4 DEF KeepersInv, CopiesInv, Writing
<1> QED
  BY <1>4, <1>5, <1>6, <1>7 DEF SettledStatusHolds, TargetsRegistered, HoursBeforeTargets

\* The inductive invariant of the campaign service: how far each request has come shows
\* in the tables, whatever other requests and faults do in between.
THEOREM CampaignInvariant == Spec => []CampaignInv
<1>1. ASSUME CampaignInv, [Next]_vars
      PROVE  CampaignInv'
  <2>1. CASE UNCHANGED vars
    BY <1>1, <2>1 DEF vars, tables, history, CampaignInv, CampaignTypeOK, StagesInv,
       KeepersInv, CopiesInv, Writing, SettledStatusHolds, TargetsRegistered,
       HoursBeforeTargets
  <2>2. CASE Next
    BY <1>1, <2>2, ReceiveKeeps, AbandonKeeps, InsertCampaignKeeps, ReplaceHoursKeeps,
       EnsureStatisticsKeeps, InsertTargetsKeeps, GetKeeps, UpdateRowKeeps,
       ListTargetsKeeps DEF Next, Handle
  <2> QED
    BY <1>1, <2>1, <2>2
<1> QED
  BY <1>1, CampaignInitial, PTL DEF Spec

\* Every variable of the campaign service keeps its type.
THEOREM CampaignTypeCorrect == Spec => []CampaignTypeOK
BY CampaignInvariant, PTL DEF CampaignInv

\* An acknowledged status change that raced no other writer of the row stays until the
\* next one is asked for: later Updates write back the status they read.
THEOREM AcknowledgedStatusStays == Spec => []SettledStatusHolds
BY CampaignInvariant, PTL DEF CampaignInv

\* AddTargets stores only numbers of the list the campaign was created with.
THEOREM OnlyRegisteredTargets == Spec => []TargetsRegistered
BY CampaignInvariant, PTL DEF CampaignInv

\* Create stores the targets last: no campaign has targets without the hours and the
\* statistics row it was asked to have.
THEOREM TargetsStoredLast == Spec => []HoursBeforeTargets
BY CampaignInvariant, PTL DEF CampaignInv

\* The stored retry policy is usable whatever requests leave out or set too low, however
\* they overlap: what is written back was usable when it was read.
THEOREM PolicyStaysUsable == Spec => []PolicyUsable
<1>1. Init => PoliciesInv
  BY DEF Init, PoliciesInv, PolicyUsable, NoCampaign, NoRequest, NewRequest
<1>2. ASSUME CampaignInv, PoliciesInv, [Next]_vars
      PROVE  PoliciesInv'
  <2> USE DEF PoliciesInv, PolicyUsable
  <2>1. ASSUME NEW c \in Clients, InsertCampaign(c)
        PROVE  PoliciesInv'
    <3>1. row' = row \/ row' = Created(req[c])
      BY <2>1 DEF InsertCampaign
    <3>2. Usable(Created(req[c]).policy)
      <4> DEFINE p == IF req[c].policy = {} THEN ZeroPolicy
                      ELSE CHOOSE x \in req[c].policy : TRUE
      <4>1. req[c].policy \in Optional(Policies)
        BY <1>2 DEF CampaignInv, CampaignTypeOK, Requests
      <4>2. p \in RetryPolicies
        BY <4>1, CampaignAssumption DEF Optional, ZeroPolicy, RetryPolicies
      <4>3. Created(req[c]).policy = StoredPolicy(NormalizeRetry(p))
        BY DEF Created, NoCampaign
      <4> HIDE DEF p
      <4> QED
        BY <4>2, <4>3, PolicyTypes, NormalizedIsUsable, UsableStaysUsable
    <3>3. \A d \in Clients : req'[d].step = "write" => req'[d] = req[d]
      BY <1>2, <2>1 DEF InsertCampaign, Goto, Answer, NoRequest, NewRequest, CampaignInv,
         CampaignTypeOK, Requests
    <3> QED
      BY <1>2, <3>1, <3>2, <3>3
  <2>2. ASSUME NEW c \in Clients, UpdateRow(c)
        PROVE  PoliciesInv'
    <3> DEFINE p == IF req[c].policy = {} THEN req[c].copy.policy
                    ELSE NormalizeRetry(CHOOSE x \in req[c].policy : TRUE)
    <3>1. /\ req[c].policy \in Optional(Policies) /\ req[c].copy.policy \in RetryPolicies
          /\ Usable(req[c].copy.policy)
      BY <1>2, <2>2 DEF UpdateRow, CampaignInv, CampaignTypeOK, Requests, Rows
    <3>2. req[c].policy # {} => (CHOOSE x \in req[c].policy : TRUE) \in RetryPolicies
      BY <3>1, CampaignAssumption DEF Optional
    <3>3. p \in RetryPolicies /\ Usable(p)
      BY <3>1, <3>2, PolicyTypes, NormalizedIsUsable
    <3>4. row'.policy = StoredPolicy(p)
      BY <2>2 DEF UpdateRow, Written
    <3>5. \A d \in Clients : req'[d].step = "write" => req'[d] = req[d]
      BY <1>2, <2>2 DEF UpdateRow, Goto, Answer, NoRequest, NewRequest, CampaignInv,
         CampaignTypeOK, Requests
    <3> HIDE DEF p
    <3> QED
      BY <1>2, <3>3, <3>4, <3>5, UsableStaysUsable
  <2>3. ASSUME NEW c \in Clients, Get(c)
        PROVE  PoliciesInv'
    <3>1. row' = row
      BY <2>3 DEF Get, tables
    <3>2. row.status # "absent" => Usable(ToDomain(row).policy)
      <4>1. row.policy \in RetryPolicies /\ ToDomain(row).policy = LoadedPolicy(row.policy)
        BY <1>2 DEF CampaignInv, CampaignTypeOK, Rows, ToDomain
      <4> QED
        BY <1>2, <4>1, UsableStaysUsable
    <3>3. \A d \in Clients : req'[d].step = "write" =>
             \/ req'[d] = req[d]
             \/ row.status # "absent" /\ req'[d].copy = ToDomain(row)
      BY <1>2, <2>3 DEF Get, Answer, NoRequest, NewRequest, CampaignInv, CampaignTypeOK,
         Requests
    <3> QED
      BY <1>2, <3>1, <3>2, <3>3
  <2>4. ASSUME NEW c \in Clients, Receive(c)
        PROVE  PoliciesInv'
    <3>1. row' = row
      BY <2>4 DEF Receive, tables
    <3>2. \A d \in Clients : req'[d].step = "write" => req'[d] = req[d]
      BY <1>2, <2>4, RequestTypes DEF Receive, CampaignInv, CampaignTypeOK
    <3> QED
      BY <1>2, <3>1, <3>2
  <2>5. ASSUME NEW c \in Clients,
               \/ ReplaceHours(c) \/ EnsureStatistics(c) \/ InsertTargets(c)
               \/ ListTargets(c) \/ Abandon(c)
        PROVE  PoliciesInv'
    <3>1. row' = row
      BY <2>5 DEF ReplaceHours, EnsureStatistics, InsertTargets, ListTargets, Abandon, tables
    <3>2. \A d \in Clients : req'[d].step = "write" => req'[d] = req[d]
      BY <1>2, <2>5 DEF ReplaceHours, EnsureStatistics, InsertTargets, ListTargets, Abandon,
         Goto, Answer, NoRequest, NewRequest, CampaignInv, CampaignTypeOK, Requests
    <3> QED
      BY <1>2, <3>1, <3>2
  <2>6. CASE UNCHANGED vars
    BY <1>2, <2>6 DEF vars, tables
  <2> QED
    BY <1>2, <2>1, <2>2, <2>3, <2>4, <2>5, <2>6 DEF Next, Handle
<1>3. PoliciesInv => PolicyUsable
  BY DEF PoliciesInv
<1> QED
  BY <1>1, <1>2, <1>3, CampaignInvariant, PTL DEF Spec
-----------------------------------------------------------------------------
(* The row and its copies *)

\* Only a creation and the write of a copy change the row, and only Get makes a copy.
LEMMA WhoWritesTheRow ==
  ASSUME CampaignInv, [Next]_vars
  PROVE  /\ \/ UNCHANGED row
            \/ \E c \in Clients : InsertCampaign(c) /\ row' = Created(req[c])
            \/ \E c \in Clients : UpdateRow(c)
         /\ \A c \in Clients :
               req'[c].copy \in {req[c].copy, NoCampaign, ToDomain(row)}
<1> USE DEF Goto, Answer, NoRequest, NewRequest, CampaignInv, CampaignTypeOK, Requests
<1>1. ASSUME NEW c \in Clients, Receive(c)
      PROVE  UNCHANGED row /\ req' \in [Clients -> Requests] /\ req'[c].copy = NoCampaign
             /\ \A d \in Clients \ {c} : req'[d] = req[d]
  <2>1. \A q \in CreateRequests \cup UpdateRequests \cup StatusRequests \cup TargetRequests :
           q.copy = NoCampaign /\ q \in Requests
    BY RequestTypes DEF CreateRequests, UpdateRequests, StatusRequests, TargetRequests
  <2> QED
    BY <1>1, <2>1 DEF Receive, tables
<1>2. ASSUME NEW c \in Clients, InsertCampaign(c)
      PROVE  /\ UNCHANGED row \/ row' = Created(req[c])
             /\ \A d \in Clients : req'[d].copy \in {req[d].copy, NoCampaign}
  BY <1>2 DEF InsertCampaign
<1>3. ASSUME NEW c \in Clients, UpdateRow(c)
      PROVE  \A d \in Clients : req'[d].copy \in {req[d].copy, NoCampaign}
  BY <1>3 DEF UpdateRow
<1>4. ASSUME NEW c \in Clients, Get(c)
      PROVE  UNCHANGED row
             /\ \A d \in Clients : req'[d].copy \in {req[d].copy, NoCampaign, ToDomain(row)}
  BY <1>4 DEF Get, tables
<1>5. ASSUME NEW c \in Clients,
             \/ ReplaceHours(c) \/ EnsureStatistics(c) \/ InsertTargets(c)
             \/ ListTargets(c) \/ Abandon(c)
      PROVE  UNCHANGED row /\ \A d \in Clients : req'[d].copy \in {req[d].copy, NoCampaign}
  BY <1>5 DEF ReplaceHours, EnsureStatistics, InsertTargets, ListTargets, Abandon, tables
<1>6. CASE UNCHANGED vars
  BY <1>6 DEF vars, tables
<1> QED
  BY <1>1, <1>2, <1>3, <1>4, <1>5, <1>6 DEF Next, Handle

\* A campaign that is completed is opened again only by a pause or by a request that read it
\* before it was completed.
THEOREM CompletionLasts == Spec => CompletedLeftByPause
<1> DEFINE Opened ==
      row.status = "completed" /\ row'.status # "completed" =>
        \E c \in Clients :
           /\ req[c].step = "write" /\ req'[c].step # "write"
           /\ req[c].op = "pause" \/ req[c].copy.status # "completed"
<1>1. ASSUME CampaignInv, [Next]_vars
      PROVE  [Opened]_vars
  <2> SUFFICES ASSUME row.status = "completed", row'.status # "completed"
               PROVE  Opened
    OBVIOUS
  <2>1. PICK c \in Clients : UpdateRow(c)
    <3>1. ASSUME NEW c \in Clients, InsertCampaign(c), row' = Created(req[c])
          PROVE  FALSE
      BY <3>1 DEF InsertCampaign
    <3> QED
      BY <1>1, <3>1, WhoWritesTheRow
  <2>2. req[c].step = "write" /\ row'.status = StatusAfter(req[c])
    BY <2>1 DEF UpdateRow, Written
  <2>3. req'[c].step # "write"
    BY <1>1, <2>1 DEF UpdateRow, Goto, Answer, NoRequest, NewRequest, CampaignInv,
       CampaignTypeOK, Requests
  <2>4. req[c].op \in StatusOps \cup {"update"} /\ req[c].copy.status # "absent"
    BY <1>1, <2>2 DEF CampaignInv, CopiesInv, Writing
  <2>5. req[c].op = "start" => req[c].copy.status # "completed"
    BY <1>1, <2>2 DEF CampaignInv, CopiesInv
  <2> QED
    BY <2>2, <2>3, <2>4, <2>5 DEF StatusAfter, StatusOps
<1> QED
  BY <1>1, CampaignInvariant, PTL DEF Spec, CompletedLeftByPause

-----------------------------------------------------------------------------
(* Powers of two.  Induction is by the least counterexample. *)

\* A set of natural numbers has a least one, if any.
LEMMA LeastNumber ==
  ASSUME NEW S, S \subseteq Nat, S # {}
  PROVE  \E m \in S : \A k \in S : m <= k
<1> DEFINE R == OpToRel(<, Nat)
<1>1. IsWellFoundedOn(R, Nat)
  BY NatLessThanWellFounded, Zenon
<1>2. \A k, m \in Nat : k < m => <<k, m>> \in R
  BY DEF OpToRel
<1> HIDE DEF R
<1>3. PICK m \in S : \A k \in S : ~(<<k, m>> \in R)
  BY <1>1, WFMin
<1>4. \A k \in S : ~(k < m)
  BY <1>2, <1>3
<1> QED BY <1>4

\* The first n + 1 powers of two.
Powers(n, g) == g \in [0..n -> Nat] /\ g[0] = 1 /\ \A k \in 1..n : g[k] = 2 * g[k - 1]

\* There are such.
LEMMA PowersExist == \A n \in Nat : \E g : Powers(n, g)
<1> DEFINE S == {n \in Nat : ~\E g : Powers(n, g)}
<1>1. SUFFICES ASSUME S # {} PROVE FALSE
  OBVIOUS
<1>2. PICK m \in S : \A k \in S : m <= k
  BY <1>1, LeastNumber
<1>3. CASE m = 0
  <2>1. Powers(0, [k \in 0..0 |-> 1])
    BY DEF Powers
  <2> QED BY <1>2, <1>3, <2>1
<1>4. CASE m # 0
  <2>1. m - 1 \in Nat /\ m - 1 \notin S
    BY <1>2, <1>4
  <2>2. PICK g : Powers(m - 1, g)
    BY <2>1
  <2> DEFINE h == [k \in 0..m |-> IF k = m THEN 2 * g[m - 1] ELSE g[k]]
  <2>3. \A k \in 0..m : k # m => k \in 0..(m - 1)
    BY <2>1
  <2>4. h \in [0..m -> Nat] /\ h[0] = 1
    BY <1>4, <2>1, <2>2, <2>3 DEF Powers
  <2>5. ASSUME NEW k \in 1..m PROVE h[k] = 2 * h[k - 1]
    <3>1. CASE k = m
      BY <2>1, <3>1
    <3>2. CASE k # m
      BY <2>1, <2>2, <3>2 DEF Powers
    <3> QED BY <3>1, <3>2
  <2>6. Powers(m, h)
    BY <2>4, <2>5 DEF Powers
  <2> QED BY <1>2, <2>6
<1> QED BY <1>3, <1>4

\* They are the beginning of one another.
LEMMA PowersAgree ==
  ASSUME NEW n \in Nat, NEW m \in Nat, NEW g, NEW h, Powers(n, g), Powers(m, h)
  PROVE  \A k \in Nat : k <= n /\ k <= m => g[k] = h[k]
<1> DEFINE S == {k \in Nat : k <= n /\ k <= m /\ g[k] # h[k]}
<1>1. SUFFICES ASSUME S # {} PROVE FALSE
  OBVIOUS
<1>2. PICK k \in S : \A j \in S : k <= j
  BY <1>1, LeastNumber
<1>3. k # 0
  BY <1>2 DEF Powers
<1>4. k - 1 \in Nat /\ k - 1 <= n /\ k - 1 <= m /\ k - 1 \notin S
  BY <1>2, <1>3
<1>5. g[k - 1] = h[k - 1]
  BY <1>4
<1>6. k \in 1..n /\ k \in 1..m
  BY <1>2, <1>3
<1> QED BY <1>2, <1>5, <1>6 DEF Powers

\* Pow2 is what it says.
LEMMA Pow2Unfolds ==
  /\ Pow2[0] = 1
  /\ \A n \in Nat : Pow2[n] \in Nat \ {0} /\ Pow2[n + 1] = 2 * Pow2[n]
<1> DEFINE some(n) == CHOOSE g : Powers(n, g)
           f == [n \in Nat |-> some(n)[n]]
           body(e) == [n \in Nat |-> IF n = 0 THEN 1 ELSE 2 * e[n - 1]]
<1>1. ASSUME NEW n \in Nat PROVE Powers(n, some(n))
  BY PowersExist
<1> HIDE DEF some
<1>2. ASSUME NEW n \in Nat, n # 0 PROVE f[n] = 2 * f[n - 1]
  <2>1. n - 1 \in Nat /\ n \in 1..n
    BY <1>2
  <2>2. some(n)[n] = 2 * some(n)[n - 1]
    BY <1>1, <2>1 DEF Powers
  <2>3. some(n)[n - 1] = some(n - 1)[n - 1]
    BY <1>1, <2>1, PowersAgree
  <2> QED BY <2>1, <2>2, <2>3
<1>3. f[0] = 1
  BY <1>1 DEF Powers
<1>4. f = body(f)
  BY <1>2, <1>3
<1>5. Pow2 = body(Pow2)
  BY <1>4 DEF Pow2
<1> HIDE DEF f
<1>6. Pow2[0] = 1
  BY <1>5
<1>7. \A n \in Nat : Pow2[n + 1] = 2 * Pow2[n]
  BY <1>5
<1>8. \A n \in Nat : Pow2[n] \in Nat \ {0}
  <2> DEFINE S == {n \in Nat : Pow2[n] \notin Nat \ {0}}
  <2>1. SUFFICES ASSUME S # {} PROVE FALSE
    OBVIOUS
  <2>2. PICK m \in S : \A k \in S : m <= k
    BY <2>1, LeastNumber
  <2>3. m # 0
    BY <1>6, <2>2
  <2>4. m - 1 \in Nat /\ m - 1 \notin S
    BY <2>2, <2>3
  <2>5. Pow2[m - 1] \in Nat \ {0} /\ Pow2[m] = 2 * Pow2[m - 1]
    BY <1>7, <2>4
  <2> QED BY <2>2, <2>5
<1> QED BY <1>6, <1>7, <1>8

-----------------------------------------------------------------------------
(* Delays *)

\* The range of a Duration.
LEMMA DurationRange == Largest \in Nat /\ Pow2[DurationBits] = 2 * (Largest + 1)
<1>1. DurationBits - 1 \in Nat /\ (DurationBits - 1) + 1 = DurationBits
  BY BackoffAssumption
<1>2. Pow2[DurationBits - 1] \in Nat \ {0} /\ Pow2[DurationBits] = 2 * Pow2[DurationBits - 1]
  BY <1>1, Pow2Unfolds
<1> QED BY <1>2 DEF Largest

\* What fits stays as it is; what is too large gets smaller.
LEMMA Wraps ==
  ASSUME NEW n \in Int
  PROVE  /\ Wrap(n) \in Int
         /\ n \in Durations => Wrap(n) = n
         /\ n >= 0 => Wrap(n) <= n
<1> DEFINE M == 2 * (Largest + 1)
           x == n + Largest + 1
<1>1. Largest \in Nat /\ M \in Nat /\ M > 0 /\ x \in Int
  BY DurationRange
<1>2. Wrap(n) = (x % M) - Largest - 1
  BY DurationRange DEF Wrap
<1> HIDE DEF M, x
<1>3. x % M \in Int
  BY <1>1
<1>4. x \in 0..(M - 1) => x % M = x
  BY <1>1
<1>5. x >= 0 => x % M <= x
  BY <1>1
<1>6. Wrap(n) \in Int
  BY <1>1, <1>2, <1>3
<1>7. n \in Durations => Wrap(n) = n
  BY <1>1, <1>2, <1>4 DEF Durations, M, x
<1>8. n >= 0 => Wrap(n) <= n
  BY <1>1, <1>2, <1>3, <1>5 DEF x
<1> QED BY <1>6, <1>7, <1>8

\* The lower and the upper delay are positive.
LEMMA DelayTypes ==
  ASSUME NEW p \in RetryPolicies, Usable(p)
  PROVE  Base(p) \in Nat \ {0} /\ Cap(p) \in Nat \ {0}
<1>1. p.baseDelay \in Nat /\ p.maxDelay \in Nat
  BY DEF RetryPolicies, Usable
<1>2. ASSUME NEW n \in Nat \ {0} PROVE n * TicksPerMs \in Nat \ {0}
  BY <1>2, CampaignAssumption
<1> QED BY <1>1, <1>2, CampaignAssumption DEF Base, Cap

\* Delays before jitter.
LEMMA DelaysCapped ==
  ASSUME NEW p \in RetryPolicies, Usable(p), NEW attempt \in Nat \ {0}, NEW d \in Delays(p, attempt)
  PROVE  /\ d \in Int /\ d <= Cap(p)
         /\ Fits(p, attempt) => /\ d = Lesser(Pow2[attempt - 1] * Base(p), Cap(p))
                                /\ d \in 1..Largest /\ d >= Lesser(Base(p), Cap(p))
<1> DEFINE b == Base(p)
           c == Cap(p)
           e == Pow2[attempt - 1]
<1>1. b \in Nat \ {0} /\ c \in Nat \ {0} /\ e \in Nat \ {0} /\ Largest \in Nat
  BY DelayTypes, Pow2Unfolds, DurationRange
<1>2. PICK m \in ToDuration(e) : d = Lesser(Wrap(m * b), c)
  BY DEF Delays, Multipliers
<1>3. m \in Int
  BY <1>1, <1>2 DEF ToDuration, Durations
<1> HIDE DEF b, c, e
<1>4. m * b \in Int
  BY <1>1, <1>3
<1>5. Wrap(m * b) \in Int
  BY <1>4, Wraps
<1>6. d \in Int /\ d <= c
  BY <1>1, <1>2, <1>5 DEF Lesser
<1>7. ASSUME e * b <= Largest
      PROVE  d = Lesser(e * b, c) /\ d \in 1..Largest /\ d >= Lesser(b, c)
  <2>1. e * b \in Nat /\ e <= e * b /\ b <= e * b
    BY <1>1
  <2>2. e \in Durations /\ e * b \in Durations
    BY <1>1, <1>7, <2>1 DEF Durations
  <2>3. m = e
    BY <1>2, <2>2 DEF ToDuration
  <2>4. Wrap(e * b) = e * b
    BY <2>1, <2>2, Wraps
  <2>5. d = Lesser(e * b, c)
    BY <1>2, <2>3, <2>4
  <2> QED BY <1>1, <1>7, <2>1, <2>5 DEF Lesser
<1> QED BY <1>6, <1>7 DEF b, c, e, Fits

\* Half of a jitter of up to two is a part of a delay at most as long as the delay.
LEMMA ShareBounds ==
  ASSUME NEW d \in Nat, NEW c \in Nat, d <= c, NEW half \in Nat, half <= JitterParts,
         NEW parts \in -half..half
  PROVE  /\ Share(d, parts) \in -d..d
         /\ Share(d, parts) <= Share(c, half)
<1> DEFINE J == JitterParts
<1>1. J \in Nat \ {0} /\ parts \in Int
  BY BackoffAssumption
<1> HIDE DEF J
<1>2. ASSUME NEW n \in Nat, NEW m \in Nat, n <= m
      PROVE  n \div J \in Nat /\ m \div J \in Nat /\ n \div J <= m \div J
  BY <1>1, <1>2
<1>3. ASSUME NEW n \in Nat, n <= d * J PROVE n \div J <= d
  BY <1>1, <1>3
<1>4. c * half \in Nat /\ Share(c, half) = (c * half) \div J
  BY <1>1 DEF Share, J
<1>5. (c * half) \div J \in Nat
  BY <1>2, <1>4
<1>6. CASE parts >= 0
  <2>1. d * parts \in Nat
    BY <1>1, <1>6
  <2>2. d * parts <= d * J
    BY <1>1, <1>6 DEF J
  <2>3. d * parts <= c * half
    <3>1. d * parts <= c * parts
      BY <1>1, <1>6
    <3>2. c * parts <= c * half
      BY <1>1, <1>6
    <3>3. c * parts \in Int /\ d * parts \in Int /\ c * half \in Int
      BY <1>1
    <3> QED BY <3>1, <3>2, <3>3
  <2>4. Share(d, parts) = (d * parts) \div J
    BY <2>1 DEF Share, J
  <2>5. (d * parts) \div J \in Nat /\ (d * parts) \div J <= (c * half) \div J
    BY <1>2, <1>4, <2>1, <2>3
  <2>6. (d * parts) \div J <= d
    BY <1>3, <2>1, <2>2
  <2> QED BY <1>4, <2>4, <2>5, <2>6
<1>7. CASE parts < 0
  <2>1. PICK k : k = -parts
    OBVIOUS
  <2>2. k \in Nat /\ k <= J /\ parts = -k
    BY <1>1, <1>7, <2>1 DEF J
  <2>3. d * k \in Nat /\ d * k <= d * J
    BY <1>1, <2>2
  <2>4. d * parts = -(d * k)
    BY <2>2
  <2>5. (d * k) \div J \in Nat /\ (d * k) \div J <= d
    BY <1>2, <1>3, <2>3
  <2>6. Share(d, parts) \in Int /\ Share(d, parts) <= 0 /\ Share(d, parts) >= -d
    <3>1. CASE d * k = 0
      <4>1. d * parts = 0
        BY <2>4, <3>1
      <4>2. 0 \div J = 0
        BY <1>1
      <4> QED BY <4>1, <4>2 DEF Share, J
    <3>2. CASE d * k # 0
      <4>1. ~(d * parts >= 0) /\ -(d * parts) = d * k
        BY <2>3, <2>4, <3>2
      <4>2. Share(d, parts) = -((d * k) \div J)
        BY <4>1 DEF Share, J
      <4> QED BY <2>5, <4>2
    <3> QED BY <3>1, <3>2
  <2> QED BY <1>4, <1>5, <2>6
<1> QED BY <1>1, <1>6, <1>7

\* The delays of a usable policy keep to it.
LEMMA UsableIsPaced ==
  ASSUME NEW p \in RetryPolicies, Usable(p)
  PROVE  Paced(p)
<1> SUFFICES ASSUME NEW attempt \in 1..DurationBits + 1, NEW jitter \in Jitters,
                    NEW d \in NextDelays(p, attempt, jitter)
             PROVE  /\ jitter = 0 => d <= Cap(p)
                    /\ jitter <= 2 * JitterParts /\ Fits(p, attempt) =>
                         d <= Greater(Base(p), Cap(p) + Share(Cap(p), jitter \div 2))
                    /\ jitter > 0 => d >= Base(p)
                    /\ Fits(p, attempt) => d >= Lesser(Base(p), Cap(p))
                    /\ jitter = 0 /\ Fits(p, attempt + 1) =>
                         \A next \in NextDelays(p, attempt + 1, 0) : d <= next
  BY DEF Paced
<1> DEFINE b == Base(p)
           c == Cap(p)
           half == jitter \div 2
<1>1. /\ attempt \in Nat \ {0} /\ attempt + 1 \in Nat \ {0} /\ jitter \in Nat /\ JitterParts \in Nat \ {0}
      /\ half \in Nat /\ (jitter <= 2 * JitterParts => half <= JitterParts)
  BY BackoffAssumption
<1>2. b \in Nat \ {0} /\ c \in Nat \ {0} /\ Largest \in Nat
  BY DelayTypes, DurationRange
<1>3. c + Share(c, half) >= c /\ c + Share(c, half) \in Int
  <2>1. c * half \in Nat
    BY <1>1, <1>2
  <2>2. (c * half) \div JitterParts \in Nat
    BY <1>1, <2>1
  <2>3. Share(c, half) = (c * half) \div JitterParts
    BY <2>1 DEF Share
  <2> QED BY <1>2, <2>2, <2>3
<1>4. CASE jitter = 0
  <2>1. d \in Delays(p, attempt)
    BY <1>4 DEF NextDelays
  <2>2. d \in Int /\ d <= c
    BY <1>1, <2>1, DelaysCapped
  <2>3. Fits(p, attempt) => d >= Lesser(b, c)
    BY <1>1, <2>1, DelaysCapped
  <2>4. d <= Greater(b, c + Share(c, half))
    BY <1>2, <1>3, <2>2 DEF Greater
  <2>5. ASSUME Fits(p, attempt + 1), NEW next \in NextDelays(p, attempt + 1, 0) PROVE d <= next
    <3>1. next \in Delays(p, attempt + 1)
      BY DEF NextDelays
    <3>2. PICK e : e = Pow2[attempt - 1]
      OBVIOUS
    <3>3. e \in Nat \ {0} /\ Pow2[(attempt + 1) - 1] = 2 * e
      <4>1. attempt - 1 \in Nat /\ (attempt - 1) + 1 = attempt /\ (attempt + 1) - 1 = attempt
        BY <1>1
      <4> QED BY <3>2, <4>1, Pow2Unfolds
    <3>4. e * b \in Nat /\ (2 * e) * b = 2 * (e * b)
      BY <1>2, <3>3
    <3>5. next = Lesser((2 * e) * b, c) /\ (2 * e) * b <= Largest
      BY <1>1, <2>5, <3>1, <3>3, DelaysCapped DEF Fits
    <3>6. Fits(p, attempt)
      <4>1. PICK f \in Nat : f = e * b
        BY <3>4
      <4>2. 2 * f <= Largest
        BY <3>4, <3>5, <4>1
      <4>3. f <= Largest
        BY <1>2, <4>2
      <4> QED BY <3>2, <4>1, <4>3 DEF Fits
    <3>7. d = Lesser(e * b, c)
      BY <1>1, <2>1, <3>2, <3>6, DelaysCapped
    <3> HIDE DEF b, c
    <3> QED BY <1>2, <3>4, <3>5, <3>7 DEF Lesser
  <2> QED BY <1>4, <2>2, <2>3, <2>4, <2>5
<1>5. CASE jitter # 0
  <2>1. PICK g \in Delays(p, attempt), parts \in -half..half :
           \E n \in ToDuration(Share(g, parts)) : d = Greater(b, Wrap(g + n))
    BY <1>5 DEF NextDelays
  <2>2. PICK n \in ToDuration(Share(g, parts)) : d = Greater(b, Wrap(g + n))
    BY <2>1
  <2>3. g \in Int /\ g <= c
    BY <1>1, DelaysCapped
  <2>4. n \in Int
    <3>1. parts \in Int /\ g * parts \in Int
      BY <1>1, <2>3
    <3>2. Share(g, parts) \in Int
      BY <1>1, <3>1 DEF Share
    <3> QED BY <1>2, <3>2 DEF ToDuration, Durations
  <2>5. Wrap(g + n) \in Int
    BY <2>3, <2>4, Wraps
  <2>6. d \in Int /\ d >= b
    BY <1>2, <2>2, <2>5 DEF Greater
  <2>7. ASSUME jitter <= 2 * JitterParts, Fits(p, attempt)
        PROVE  d <= Greater(b, c + Share(c, half))
    <3>1. g \in 1..Largest
      BY <1>1, <2>7, DelaysCapped
    <3>2. PICK s : s = Share(g, parts)
      OBVIOUS
    <3>3. s \in -g..g /\ s <= Share(c, half)
      <4> HIDE DEF half, c
      <4>1. g \in Nat /\ c \in Nat /\ g <= c /\ half \in Nat /\ half <= JitterParts
        BY <1>1, <1>2, <2>3, <2>7, <3>1
      <4>2. Share(g, parts) \in -g..g /\ Share(g, parts) <= Share(c, half)
        BY <4>1, ShareBounds
      <4> QED BY <3>2, <4>2
    <3>4. s \in Durations
      BY <1>2, <3>1, <3>3 DEF Durations
    <3>5. n = s
      BY <3>2, <3>4 DEF ToDuration
    <3>6. Wrap(g + n) <= g + n
      <4>1. g + n \in Int /\ g + n >= 0
        BY <3>1, <3>3, <3>5
      <4> QED BY <4>1, Wraps
    <3>7. Share(c, half) \in Int
      <4>1. c * half \in Nat
        BY <1>1, <1>2
      <4> QED BY <1>1, <4>1 DEF Share
    <3>8. Wrap(g + n) <= c + Share(c, half)
      BY <1>2, <2>3, <2>5, <3>1, <3>3, <3>5, <3>6, <3>7
    <3> HIDE DEF b, c, half
    <3> QED BY <1>2, <1>3, <2>2, <2>5, <3>8 DEF Greater
  <2> QED BY <1>2, <1>5, <2>6, <2>7 DEF Lesser
<1> QED BY <1>4, <1>5

\* Writing back what was read changes nothing.
LEMMA StoredAsLoaded ==
  ASSUME NEW p \in RetryPolicies
  PROVE  StoredPolicy(LoadedPolicy(p)) = p
<1>1. \A n \in Int : n * TicksPerMs \in Int /\ (n * TicksPerMs) \div TicksPerMs = n
  BY CampaignAssumption
<1>2. p.baseDelay \in Int /\ p.maxDelay \in Int
  BY DEF RetryPolicies
<1> QED BY <1>1, <1>2 DEF StoredPolicy, LoadedPolicy, RetryPolicies

\* A policy that a request asks for is stored as a usable one.
LEMMA StoredIsUsable ==
  ASSUME NEW p \in StoredPolicies
  PROVE  p \in RetryPolicies /\ Usable(p)
<1>1. PICK q \in Policies \cup {ZeroPolicy} : p = StoredPolicy(NormalizeRetry(q))
  BY DEF StoredPolicies
<1>2. q \in RetryPolicies
  BY CampaignAssumption DEF ZeroPolicy, RetryPolicies
<1> QED BY <1>1, <1>2, PolicyTypes, NormalizedIsUsable, UsableStaysUsable

\* What is created or written back is a policy some request asked for.
LEMMA AskedStep ==
  ASSUME CampaignInv, AskedInv, [Next]_vars
  PROVE  AskedInv'
<1>1. ASSUME NEW c \in Clients
      PROVE  req'[c].copy.status # "absent" =>
               \E p \in StoredPolicies : req'[c].copy.policy = LoadedPolicy(p)
  <2>1. req'[c].copy \in {req[c].copy, NoCampaign, ToDomain(row)}
    BY WhoWritesTheRow
  <2>2. NoCampaign.status = "absent"
    BY DEF NoCampaign
  <2>3. ToDomain(row).status = row.status /\ ToDomain(row).policy = LoadedPolicy(row.policy)
    BY DEF ToDomain, CampaignInv, CampaignTypeOK, Rows
  <2> QED BY <2>1, <2>2, <2>3 DEF AskedInv
<1>2. ASSUME NEW c \in Clients
      PROVE  /\ req[c].policy \in Optional(Policies)
             /\ req[c].policy # {} => (CHOOSE p \in req[c].policy : TRUE) \in Policies
  BY DEF CampaignInv, CampaignTypeOK, Requests, Optional
<1>3. ASSUME NEW c \in Clients, row' = Created(req[c])
      PROVE  row'.policy \in StoredPolicies
  <2> DEFINE q == IF req[c].policy = {} THEN ZeroPolicy ELSE CHOOSE p \in req[c].policy : TRUE
  <2>1. q \in Policies \cup {ZeroPolicy}
    BY <1>2
  <2>2. row'.policy = StoredPolicy(NormalizeRetry(q))
    BY <1>3 DEF Created, NoCampaign
  <2> HIDE DEF q
  <2> QED BY <2>1, <2>2 DEF StoredPolicies
<1>4. ASSUME NEW c \in Clients, UpdateRow(c)
      PROVE  row'.policy \in StoredPolicies
  <2>1. req[c].step = "write" /\ row' = Written(req[c])
    BY <1>4 DEF UpdateRow
  <2>2. CASE req[c].policy = {}
    <3>1. PICK p \in StoredPolicies : req[c].copy.policy = LoadedPolicy(p)
      BY <2>1 DEF AskedInv, CampaignInv, CopiesInv
    <3>2. row'.policy = StoredPolicy(LoadedPolicy(p))
      BY <2>1, <2>2, <3>1 DEF Written
    <3> QED BY <3>2, StoredIsUsable, StoredAsLoaded
  <2>3. CASE req[c].policy # {}
    <3>1. row'.policy = StoredPolicy(NormalizeRetry(CHOOSE p \in req[c].policy : TRUE))
      BY <2>1, <2>3 DEF Written
    <3> QED BY <1>2, <2>3, <3>1 DEF StoredPolicies
  <2> QED BY <2>2, <2>3
<1>5. row'.status # "absent" => row'.policy \in StoredPolicies
  BY <1>3, <1>4, WhoWritesTheRow DEF AskedInv
<1> QED BY <1>1, <1>5 DEF AskedInv

\* Whatever requests overlap, the stored policy is one that some request asked for, and the
\* delays computeNextAttempt makes of it keep to it as far as a Duration reaches, for every
\* width of a Duration and every jitter.
THEOREM DelaysKeepToPolicy == Spec => []RetryDelaysBounded
<1>1. Init => AskedInv
  BY DEF Init, AskedInv, NoCampaign, NoRequest, NewRequest
<1>2. AskedInv => RetryDelaysBounded
  BY StoredIsUsable, UsableIsPaced DEF AskedInv, RetryDelaysBounded, PacedPolicies
<1>3. CampaignInv /\ AskedInv /\ [Next]_vars => AskedInv'
  BY AskedStep
<1> QED BY <1>1, <1>2, <1>3, CampaignInvariant, PTL DEF Spec
=============================================================================
