# Verification of the outbound call campaign platform

TLA+ specifications of the services in this repository, checked with TLC on small
instances and, for the results listed below, proved with TLAPS for every value of
the constants.

## The system

Campaigns are lists of phone numbers to dial. Five processes share PostgreSQL,
ScyllaDB, Redis and Kafka:

| Part | State | Operations | Talks to |
|---|---|---|---|
| HTTP API (`internal/api`, `cmd/api`) | none | requests on campaigns, targets and calls | campaign service, call service |
| Campaign service (`internal/service/campaign`) | `campaigns`, `business_hours`, `campaign_targets`, `campaign_statistics` (PostgreSQL) | Create, Update, Start, Pause, Complete, AddTargets | PostgreSQL only |
| Scheduler (`internal/scheduler`) | target states | `tick`: look for pending retries, list campaigns, compare with their business hours, fetch targets, mark them, trigger calls | retry topics, PostgreSQL, call service |
| Call service (`internal/service/call`) | none | `TriggerCall`: call row, statistics delta, dispatch message | ScyllaDB, PostgreSQL, dispatch topic |
| Call worker (`internal/worker/call`) | message in hand, slot held | `processMessage`: wait for a slot, dial, publish, commit, release | dispatch topic, Redis, status topic |
| Limiter (`internal/service/concurrency`) | one Redis counter per campaign, with a TTL | Acquire, Release (Lua scripts) | Redis |
| Status worker (`internal/worker/status`) | message in hand | update call, append attempt, apply delta, schedule retry, commit | status topic, ScyllaDB, PostgreSQL, retry topics |
| Retry worker (`internal/worker/retry`) | message in hand | wait for the due time, dispatch again, commit | retry topics, dispatch topic |
| Call store (`internal/repository/scylla`) | `calls_by_campaign` (the row), `calls_by_status` (an index), `call_attempts` | CreateCall, UpdateCallStatus (five statements over two tables), AppendAttempt | ScyllaDB |
| Kafka (`internal/queue`) | logs, group offsets | write, fetch, commit (batched), rejoin | |

A call travels `TriggerCall → dispatch topic → call worker → status topic → status
worker`, and from there either rests or goes on `→ retry topic n → retry worker →
dispatch topic` as attempt n + 1.

What is hard here is that no transaction spans two of the stores, that every consumer
may be stopped or die between any two of its writes, that offsets are flushed some
time after they are committed, that messages of one call are spread over partitions
(the writers' `LeastBytes` balancer ignores the key), and that slots are counted by a
key that may expire. The full list, at the lines where it matters, is under `hazards`
in `PROJECT.json`.

What makes each part correct:

- pipeline: no accepted call is lost, each is settled, the numbers of its attempts stay
  within the retry policy and none is repeated until something fails, each retry has a
  cause and comes in its order, an error costs one message at most, statistics agree with
  the call rows;
- limiter: never more calls at once than the limit, and slots come back;
- scheduler: every pending target of a running campaign that has a phone number is dialled,
  and not again and again; what a fault makes it forget is bounded; a pause or the end of the business
  hours takes effect soon, and campaigns do not starve each other;
- campaign service: an acknowledged status change is not undone by a later update, only
  registered numbers become targets, a creation that breaks off leaves nothing that is
  dialled at the wrong time, the retry policy stays usable, completed campaigns stay
  completed;
- retry delays: within the policy, and without jitter never shorter than the lesser of its
  lower delay and the cap;
- call store: an update that succeeded took effect, once; the status index holds a call
  under exactly its status, and recovers when an update broke off.

## Modules

| Module | Models |
|---|---|
| `Kafka` | a topic as partitions with a log and the offsets *fetched*, *acked* (queued by `CommitMessages`) and *committed* (flushed) |
| `Messages` | the three message types reduced to their control fields, the JSON round trip of `RetryMessage`, the provider's results, the status message made of a result |
| `PipelineState` | constants, variables and initial state shared by the services; faults; the statistics update |
| `CallService` | `TriggerCall` |
| `CallWorker` | `processMessage`, `waitForSlot` and the lifecycle of the consumer |
| `StatusWorker` | the loop of the status worker |
| `RetryWorker` | the loop of the retry worker |
| `CallPipeline` | composition, fairness, properties, inductive invariants |
| `CallLifecycle` | what the pipeline promises about calls while nothing fails (abstract specification) |
| `CallStore` | `CreateCall` and `UpdateCallStatus`, statement by statement over both tables |
| `CallRegister` | the register the row of a call stands for (abstract specification) |
| `Limiter` | Acquire and Release with the TTL in discrete time |
| `CampaignSlots` | the semaphore the limiter stands for (abstract specification) |
| `Scheduler` | `tick` for one campaign, several schedulers, the surroundings they see |
| `BusinessHours` | how windows are stored and read, `isWithinBusinessHours`, and what is meant by them |
| `DialRounds` | `tick` over several campaigns: clock, listing, hours, batches, dials |
| `CampaignService` | requests on one campaign, each as its sequence of SQL statements |
| `RetryBackoff` | `computeNextAttempt` for the policies `CampaignService` stores |
| `MCCallPipeline`, `MCLimiter`, `MCScheduler`, `MCDialRounds`, `MCCampaignService`, `MCCallStore` | instances for TLC |
| `CallPipelineProofs`, `LifecycleProofs`, `LimiterProofs`, `SchedulerProofs`, `DialRoundsProofs`, `CampaignServiceProofs`, `CallStoreProofs` | theorems, with the lemmas they rest on |
| `CountingProofs` | lemmas on the sizes of finite sets and on multiples, which all the bounds use |

Compositions: `CallPipeline` joins the services of the pipeline over shared topics and
stores; `RetryBackoff` takes the policies from `CampaignService`; `DialRounds` uses
`BusinessHours`. Refinements: `CallPipeline` implements `CallLifecycle`, `CallStore`
implements `CallRegister`, `Limiter` implements `CampaignSlots`. The register is what
`StatusWorker` assumes of a call row when it overwrites it in one step.

Every call a handler makes to a backend is one action, because another process may
act between two of them; the program counters `cwPc`, `swPc`, `rwPc` and `trig` say
which call comes next. Each partition has a consumer of its own: a process that owns
several partitions handles them in turn, which is one of the interleavings. A call
that reports an error may have taken effect; where the handler goes on either way, an
error after the effect is the same as success and has no disjunct of its own.

A fault is of one of six kinds: `crash` (the process dies and the next group member
starts at the committed offset), `shutdown` (the context is cancelled, any later call
may then fail, and `Close` flushes), and an error of `kafka`, `redis`, `scylla` or
`postgres`. `FaultKinds` chooses the kinds, `MaxFaults` bounds their number.

Abstracted: identifiers, phone numbers, metadata, durations and time stamps; undecodable
messages (only these services write to the topics); tracing and logging. Time is
modelled in `Limiter` and `DialRounds`; in the pipeline a wait may end, and the Redis key may
expire, at any moment, which covers every timing. One campaign is modelled; campaigns
share nothing but the consumers' attention.

In `CampaignService` each request under way is a record of what was asked, the step it
is at and the copy of the row it has read. Requests of any kind overlap; a fault ends one
after a statement that took effect or before it. Three history variables (`registered`,
`asked`, `settled`) record what was asked for and acknowledged and are read by no
action. Since the name of a campaign is unique, a second Create of the same name ends at
its first statement. Reads of `ListByCampaign` stop at 10000 rows and may therefore see
only some of the targets. The time stamps of a campaign are left out: `toDomain` drops them,
every update erases them, and no decision is taken from them. Of the constraints on
`business_hours` only `end_minute > start_minute` is modelled; the range of the day and the
UNIQUE constraint make a creation fail at the same statement and in the same way.

In `Scheduler` the targets of `Refused` have no phone number. `Create` stores them, because
nothing asks for one, and `TriggerCall` refuses them every time, without any fault: such a
target goes from pending to queued and back with every tick. Other rejections before the
dispatch are faults of kind `reject`. A campaign is supposed to have at most as many targets
as its repository lists.

In `CallService` a cancelled request fails its write to Kafka and then the undoing of the
call row as well, which is one fault.

`CallStore` follows one call; statements on different calls touch different rows. An
`UPDATE` in ScyllaDB makes a row where there is none, so an index entry is `absent`,
`bare` (made by the UPDATE, without a phone number) or `full`. An update may be called
with any outcome at any time, which covers redelivery, outcomes that overtake each other
and calls dialled twice. The history variables `alone` and `solo` say whether an update
runs, or ran, with no other beside it. Nothing in the repository reads `calls_by_status`;
the properties say what a reader could rely on.

`DialRounds` counts targets and lets requests act between any two steps of a round. The
listing with the hours of its campaigns is one step, and so are fetching and marking a batch,
though the code has a statement for each; the latter two are apart in `Scheduler`. The hours
of a campaign are windows within a day, the only ones its table accepts; that
`isWithinBusinessHours` is right about windows across midnight too is part of
`HoursFollowTheWeek`.
The clock is a minute of a short week; a round reads it once, before it lists the
campaigns. Start, Pause and the change of hours are single steps here, their statements
are in `CampaignService`; a scheduler that dies or is not alone is in `Scheduler`. A zone
is an offset, or none when it cannot be loaded; summer time is left out. `updated` is the
place of each campaign in the order of `updated_at`: the time stamps themselves grow without
bound, and all that `ListByStatus` takes from them is their order. `paused` and
`closed` count the dials of a campaign since it was last running, or open.

In `RetryBackoff` a Duration has `DurationBits` bits and its sums and products wrap around as
in Go. A float beyond the range of an integer becomes the smallest or the largest one,
depending on the processor; both are considered. Powers of two are a recursive function of
the module's own, because the provers know nothing of exponentiation.

Definitions named as an *altered form* are deliberately wrong variants of the definition
that follows them. They are used by no specification; replacing the definition by
one of them must make the property named under `mutants` in `PROJECT.json` fail.

## Runs

`tlc -config <cfg> <module>`; those of the first part pass, the others end in a counterexample.

| Configuration | Bounds | Shows |
|---|---|---|
| `MCPipelineHealthy` | 2 calls (2 and 1 attempts), 1 dispatch, 2 status partitions, no limit, no fault | `QuiescentStatsAgree`, `ImplementsLifecycle` |
| `MCPipelineCrash` | 1 call (2 attempts), limit 1, one crash | `NoCallLost`, `AcceptedCallsSettle` |
| `MCPipelineFaults` | 1 call (2 attempts), 2 retry topics, limit 1, one fault of any kind | `TypeOK`, `AttemptBudget`, `RetryFollowsFailure`, `LossBounded` |
| `MCLimiter` | 3 workers, limit 2, TTL 6, slots held up to 5, unlimited leaks | `LimiterTypeOK`, `ImplementsSlots`, `SlotsComeBack` |
| `MCScheduler` | 2 schedulers, 3 targets, the oldest without a phone number, batches of 2, one fault of any kind | `SchedulerTypeOK`, `ForgottenBounded`, `DialsBounded`, `PendingTargetsDialled` |
| `MCDialRounds` | 2 campaigns, one with hours, a week of 3 days of 2 hours of a minute each, a zone ahead of UTC, batches of 1, one fault | `RoundsTypeOK`, `HoursFollowTheWeek`, `PausedDialsBounded`, `ClosedDialsBounded`, `FittingCampaignsServed` |
| `MCCampaignService` | 2 requests at a time, any number in sequence, 2 phone numbers, 2 lists of hours (one spans midnight), 1 policy, one fault, Durations of 8 bits | `CampaignTypeOK`, `SettledStatusHolds`, `TargetsRegistered`, `HoursBeforeTargets`, `PolicyUsable`, `RetryDelaysBounded`, `CompletedLeftByPause` |
| `MCCallStore` | 3 writers, 2 outcomes, 2 attempts, any number of updates, 2 of them begun beside another, one fault | `StoreTypeOK`, `IndexAgrees`, `DamageBounded`, `SoloUpdateLists`, `ImplementsRegister` |
| `MCRetryBudgetUnused` | 3 attempts allowed, no fault | `FailsOnlyWhenExhausted` is violated: a call is given up after attempt 2 |
| `MCLimiterSlowPublish` | TTL 2, slots held up to 3 | `LimitRespected` is violated |
| `MCSchedulerReplicas` | 2 schedulers, no fault | `DialledAtMostOnce` is violated |
| `MCMidnightHours` | 1 request at a time, no fault | `ValidHoursAreStored` is violated: hours across midnight pass validation and fail the table's constraint after the campaign row is inserted |

Why the bounds are enough to be interesting: two status partitions and two calls let
status workers overtake each other; two attempts send a call once around the cycle,
and because a dispatch that comes back from a retry topic carries an attempt limit of
zero, no call ever goes around twice; two retry topics in the fault run leave room for
a third attempt to be scheduled if the attempt limit were not respected; one
crash suffices for a redelivery at every point, a limit of one for a leaked slot to
block the campaign. `AcceptedCallsSettle` and `ImplementsLifecycle` need a retry topic for
every attempt but the last. Three targets
in batches of two make the scheduler leave one behind and come back for it, and let a
fault hit a batch in the middle. Two requests at a time let every pair of statements
meet in either order, and each is followed by new ones without limit; more at a time are
covered by the proofs. The clients and the phone numbers are symmetric.
`SettledStatusHolds` says nothing of a status change that overlaps an update: that one
may be undone, which is the hazard at `service.go:187`. A week of three days is the
shortest in which the day before differs from the day after; `HoursFollowTheWeek` goes
through all windows of that week at every minute of it. Each campaign is refilled with
targets while it is handled; the same run with batches of two passes as well and takes
five times as long. With 8 bits a delay doubled from 23 ticks wraps around within
the attempts that are tried, and the attempts go on until the multiplier itself does not
fit. Jitters are none, a half and three.

What the properties leave open, because the code does:

- `QuiescentStatsAgree` and `ImplementsLifecycle` are claims about fault-free operation. A
  status worker that dies before its offset is flushed applies the same delta again
  (`ApplyDelta` is not idempotent) and may write an older outcome over a newer one.
- `AttemptBudget` bounds the numbers of attempts, not how often one is repeated: a message
  that is redelivered, or written although its write failed, dials the call again under the
  same number. Until the first fault it bounds the dispatches as well.
- `LossBounded` is weaker than `ARCHITECTURE.md:142`, "The Retry Worker ensures that failed
  calls are not lost and are retried": each error may lose one message. It exempts a
  shutdown, with which TLC finds `CommittedRetryIsRedispatched` violated for a single call.
  A retry worker that is told to stop while it waits commits the retry it did not perform
  (`worker/retry/worker.go:108`), and may do so with several messages one after the other
  before it has closed.
- A retry is dialled whatever the campaign's status and hours are by then; `DialRounds` is
  about new calls.
- `PendingTargetsDialled` exempts a target that has a batch of targets without phone numbers
  before it in the order of creation (`Crowded`). These fill every batch, go back to pending
  and are the oldest again, so that nothing behind them is ever dialled.
- `PausedDialsBounded` and `ClosedDialsBounded` allow one batch for each campaign of a
  round, which is 5000 calls in `configs/config.production.yaml`. The latter is weaker than
  `README.md:50`, by which the scheduler "only dispatches work inside permitted windows": a
  round that outlasts the hours of a campaign dials it after they are over. The list, the
  hours and the clock of a round are read at different moments: hours changed between the
  clock and the listing are compared with a time before the change, and `closed` starts anew
  with every change.
- `FittingCampaignsServed` assumes that the campaign is among the first `CampaignFetchLimit`
  of the listing (80 with the four workers of `configs/config.yaml`). Scheduling a campaign does not touch its
  `updated_at` and no campaign is completed by the system, so of three running campaigns
  and a limit of two the one written last is never served.
- `IndexAgrees` is about updates that neither break off nor overlap. A worker that dies
  between the UPDATE of the row and the INSERT into the index leaves a stale entry; the
  repeated update reads the new status already, so it deletes nothing and makes a bare
  entry only (`SoloUpdateLists`). `DamageBounded` says that it gets no worse.
- `RetryDelaysBounded` goes only as far as the delay fits a Duration: with the default of
  two seconds that ends at attempt 33. After that a delay without jitter may be negative and
  the retry immediate, and with jitter a negative delay may wrap around to one far beyond
  the upper delay. No call gets that far today, since second attempts carry an attempt
  limit of zero. Nothing validates the jitter of a request; the upper bound is claimed for
  jitters of up to two, with which no delay is less than nothing.
- `CompletedLeftByPause` permits the pause of a completed campaign, from where it may be
  started again.

Fairness: a request that has begun continues (`TriggerCallStep`) and a running
consumer takes its next step (weak fairness per consumer; each is a loop that blocks
only on its own message or slot). Faults, shutdowns and offset flushes are not fair.
The key is sure to expire only while the counter is at the limit: then no Acquire
succeeds and nothing renews the TTL. In `Limiter` time passes and the deferred
Release runs. In `Scheduler` the ticker keeps ticking (weak fairness per scheduler), and
in `DialRounds` rounds begin and go on (`BeginRound`, `RoundStep`); that targets are added,
the clock moves or requests arrive is not assumed. `CallLifecycle` promises that a call that was created is attempted until it is
settled, which the pipeline has to show from the fairness of its consumers.
`PendingTargetsDialled` is claimed only of behaviours in which the campaign stays due and
no retry message is retained: a paused campaign rests, and retained retry messages may
stop the scheduler for good.

## What is proved

`tlapm <module>.tla`. Assumptions on the constants are the named ASSUMEs of
`PipelineState`, `Limiter`, `Scheduler`, `BusinessHours`, `DialRounds`, `CampaignService` and
`CallStore`: any set of calls, any partitions, any number of retry topics, attempts and
faults; any finite set of workers, of schedulers and of campaigns; any calendar; any writers
and any finite set of outcomes.

- `TypeCorrect` (`CallPipelineProofs`) and `WithinBudget` (`LifecycleProofs`). The numbers that
  `AttemptBudget` bounds are not inductive alone: a dispatch of attempt n is justified by a retry message, that by a status
  message, that by a dispatch. `PipelineInv` states for every message on every topic
  what it may carry (attempts from one, an attempt limit never above the policy's,
  retryable only when failed and below it), for the outcome a call worker is about to
  publish that it belongs to the message in hand, and for every partition that
  committed ≤ acked ≤ fetched ≤ length, without which a consumer could hold a message
  that is not there. It holds under all six kinds of fault. How many dispatches a call has
  until the first fault comes from `FlowInv` below: each attempt has one place at most on the
  topic, so that its places are as many as its numbers, which are at most those allowed.
- `RetriesHaveCauses` (`CallPipelineProofs`). `ProvenanceInv` follows messages backwards:
  a status has a dispatch, a retry message and a repeated dispatch have a failure
  before them. Logs only grow, so a witness stays a witness.
- `LossesStayBounded` (`CallPipelineProofs`), under all kinds of fault. A lost message is one
  whose offset is committed, but it was lost earlier, when its worker went past the step
  that hands it on. `HandoffInv` therefore counts what was *given up*: fetched, past that
  step, and neither handed on nor waiting to be. There are at most as many such messages
  as errors so far. A step gives up one message at most and only by an error; logs and
  attempt rows only grow, so that what was handed on stays so; and the message a worker
  holds is not acked, so that a crash, which goes back to the committed offset, gives up
  nothing. A status is handed on in two steps (attempt row, retry message) and is given
  up by the first of them that fails, so that failing at both counts twice in errors and
  once in messages. All this supposes that no worker is told to stop, as `LossBounded` does.
- `NoLossUnderCrashes` follows from it for `FaultKinds ⊆ {"crash"}`: without errors nothing
  is given up, and every committed message has been handed on. With a shutdown or a
  backend error the statement is false.
- `FlowInvariant` (`LifecycleProofs`), whatever the faults: `FlowInv` holds until the first of
  them (`FlowUntilFault`). It follows an attempt by
  its *places*, partition and offset, on the three topics. Each attempt has one place at most
  on each (`OnceEach`); a dispatch has a status just when its worker has published, a retry a
  dispatch just when it was sent (`DispatchFlow`, `RetryFlow`); of the four writes for a
  status those and only those are done that its worker is past (`StatusFlow`); and whatever
  still waits belongs to the attempt after the last one in the row. This makes it
  inductive: two messages that both wait would be about the same attempt, hence the same
  message, so that no partition, however slow its worker, has an older outcome for a newer
  row. Only first attempts ask for a retry, since a message dispatched again carries no
  attempt limit. The proof first reduces the actions of all services to eleven kinds of step
  on places (`FlowStep`), and then shows for each kind what it does to the invariant.
- `PipelineFollowsLifecycle` (`LifecycleProofs`), for `FaultKinds = {}`: the pipeline implements
  `CallLifecycle!SafetySpec`, all of `CallLifecycle` but its fairness. Creating the row is
  the step Create, updating it Succeed or Fail, and every other step leaves the row
  and what is settled as they are. A call is settled (`Settled`) once a status that asks for no
  further attempt is in its row, and no such status is published after that.
- `StatsAgreeAtRest` (`LifecycleProofs`), for `FaultKinds = {}` and at least one retry topic
  (`configs/config.yaml` has five): `QuiescentStatsAgree`. `StatsInv` says at any time what the
  row counts: the requests past their count, the calls with a counted success, those with
  a counted failure that is final, and the counted attempts after the first. A status is counted
  once, and a final one is the only one of its call, so that each delta adds one element to
  each of these sets or none. At rest every status is counted and every retryable one was
  dispatched again and answered, so that every accepted call is in exactly one of the
  sets of calls and the numbers agree. Without a retry topic a retryable failure would stay
  pending for ever, which is the hazard at `retry_scheduler.go:28`.
- `LimiterTypeCorrect` (`LimiterProofs`), for every TTL and holding time: the counter stays
  between zero and the limit also when late releases meet an expired key.
- `HoldersStayCounted`, `NeverOverLimit`, `LimiterImplementsSlots` (`LimiterProofs`), for
  `MaxHold < TTL`. The invariant adds to the types that the counter is at least the
  number of holders and that the key has at least `TTL - age` left for each of them.
  The refinement mapping is the set of holders. `MCLimiterSlowPublish` shows that the
  condition is needed, and `MaxHold` is not bounded by the code: `PublishStatus` has no
  timeout.
- `SchedulerTypeCorrect`, and for `FaultKinds ⊆ {"reject"}` (a trigger may fail before its
  dispatch, those without a phone number always do) `MarkedTargetsHandled` for any number of schedulers and
  `OneSchedulerDialsOnce` for one (`SchedulerProofs`). `HandsInv` says that a scheduler
  holds targets only from fetch to reset, so a fetch overwrites nothing, and is part of
  `SchedulerTypeOK`; `OnceInv` adds
  that what was dialled is queued and out of its hands. `MCSchedulerReplicas` shows that
  a second scheduler breaks the latter.
- `DialsStayBounded` and `ForgottenStayBounded` (`SchedulerProofs`), for any number of
  schedulers and every kind of fault. Both invariants are budgets. `DialBudget` adds to the
  dials of a target what may still be dialled: once by each scheduler while it is pending,
  once by each that holds it in a batch, and once by each scheduler for everyone who may
  still put it back (one whose trigger failed, or one told to stop). `ForgetBudget` adds to the
  forgotten targets a batch for each scheduler that goes on with its tick after it was told
  to stop. Each fault raises a budget by what it may cost, and every other step at most
  moves something from what may happen to what has happened.
- `RoundsTypeCorrect`, `HoursAlwaysRight`, `PausedDialsStayBounded` and
  `ClosedDialsStayBounded` (`DialRoundsProofs`), for every calendar, any number of campaigns
  and any limit of the listing. `HoursAlwaysRight` is about `isWithinBusinessHours` alone: it
  splits a window into the part of its day and the part after midnight and compares both
  with the days of the week. For the two bounds `DialsInv` says that a list names no
  campaign twice, that a campaign listed and not begun has not been dialled since it was
  paused, or closed, and that what is left of the batch in hand is left of the bound. No
  campaign is listed twice because the i-th of a list has exactly i - 1 others before it.
- `CampaignInvariant`, and from it `CampaignTypeCorrect`, `AcknowledgedStatusStays`,
  `OnlyRegisteredTargets`, `TargetsStoredLast` and `PolicyStaysUsable`
  (`CampaignServiceProofs`), for any number of clients, any policies and hours and any
  unit of time. `StagesInv` says what the tables hold once a request is at a given step
  (a creation past its insert owns the list of registered numbers, hours are stored
  before statistics and targets), `KeepersInv` that whoever may still write the row after
  a settled status is an update that read this status, `PoliciesInv` that a policy is
  usable in milliseconds and in the units of the copy, so that rounding it again and
  again does no harm. `CompletionLasts` proves the action property `CompletedLeftByPause`; `CopiesInv` says
  for it that a start about to write did not read a completed row.
- `DelaysKeepToPolicy` (`CampaignServiceProofs`), for every width of a Duration, every unit of
  time and any jitters. `AskedInv` says that the row holds a policy some request asked for,
  rounded once: writing back what was read rounds nothing (`StoredAsLoaded`). That such a policy
  is `Paced` is arithmetic on wrapped sums, and on powers of two, whose equations are proved by
  induction: a set of numbers that contradict them would have a least one
  (`LeastNumber`, from `WFMin` of the library).
- `StoreInvariant`, and from it `StoreTypeCorrect`, `SoloUpdatesList`, `IndexFollowsRow` and
  `StoreImplementsRegister` (`CallStoreProofs`). `StoreInv` joins the types; `UpdatesInv` (there
  are updates only of a call that was created, and each knows its outcome and, after its
  read, a status); `SoloInv` (an update nobody overlaps finds the row as it read or wrote
  it), without which `SoloUpdateLists` says nothing about the steps before the return; and
  `IndexInv`, which says for a history without faults and overlaps what the index holds at
  each statement (`Stage`). The refinement maps the five statements to the stages `idle`,
  `called` and `made`, with the UPDATE of the row as the moment it takes effect. The
  assumption that "queued" and "absent" are no outcomes is what the status topic
  guarantees.
- `DamageStaysBounded` (`CallStoreProofs`). `DamageBounded` speaks of a store at rest and
  `DamageInv` of one that is written to: the entries *at risk* are the wrong ones, the row's,
  and the old and new ones of every update under way. They are at most one more than
  twice the faults and overlaps, and when they are as many the row's own entry is right or
  an update is about to make it so (`Mended`), which takes that one off again. An update
  that nobody overlaps puts at risk what it is going to mend itself (`SoloDamage`).

Only model-checked:

- liveness (`AcceptedCallsSettle`, `SlotsComeBack`, `PendingTargetsDialled`,
  `FittingCampaignsServed`) and with it the liveness part of `ImplementsLifecycle`, that a call
  is attempted until it is settled: the provers do not treat liveness under fairness.

`FlowInv` and `StatsInv` were checked as invariants of `MCPipelineHealthy`, and `AskedInv` as one
of `MCCampaignService`, before they were proved.

`LossBounded` with two faults was explored for 13 million states without a violation, not
to the end, before it was proved.

## Not modelled, and what could follow

- A group rebalance that leaves a partition with two owners for a moment: the code sets no
  rebalance listener, so what happens is decided by the Kafka library alone.
- HTTP handlers, configuration, clients, telemetry, scripts: parsing, formatting and
  construction without state of their own. Which requests reach the campaign service is
  in `CampaignService`, settings are CONSTANTS.
- Reads for display: call and attempt lists, statistics, the campaign list (paged by id).
- Summer time, and the retention of topics apart from what the scheduler sees of it.

All invariants and action properties that the passing runs check are proved. What could follow is
a model of two owners of a partition, with the duplicates it leads to, and a weaker form of
`QuiescentStatsAgree` that counts what redelivered deltas add.
