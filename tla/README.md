# simple-alert-proxy: specification and proofs

TLA+ models of `simple-alert-proxy`, the TLC runs that check them on small
instances, and TLAPS proofs for instances of any size. Line numbers refer to
`src/main.rs` and `src/storage.rs` of the repository where no other file is named.

The proxy accepts alert webhooks of several sources, brings them into one form,
decides by its routes who is to be told, stores them in SQLite, and sends them on
to chat and webhook receivers. It makes two promises. An accepted alert is
delivered or visibly given up, whatever crashes, timeouts and restarts happen;
that is kept by several concurrent parts which share one database. And what is
delivered is what the source said: the alert keeps its identity, goes where the
routes say, and is in the message. The models are about both, and about who may
operate the proxy.

## 1. Inventory

One process on a multi-threaded Tokio runtime. All state that survives is in one
SQLite connection behind a mutex (`Storage`), so one storage *method* is atomic
for the other tasks, but a sequence of calls is not, and a method that runs
several statements without a transaction may be cut short by a failing statement
or the end of the process.

| Component | State | Operations | What is hard | Correct if |
|---|---|---|---|---|
| Delivery queue and workers | `delivery_records`, one Tokio task per delivery | queue, replay, attempt, success / retry / dead letter, recovery | unconditional UPDATEs, lost answers, crash between any two steps, replay of a live row | no row is forgotten, verdicts stand, success is only reported after a success, attempts are bounded |
| Notification batching | `notification_batches`, `notification_batch_members`, one worker | join or open a batch, claim, send, finish, recovery | batch and member rows must agree, limits, crash in flight | bounds, order within a key, no stranded batch, every event settled |
| Startup | the process | recover batches, recover rows, prune, start the workers, spawn recovered rows, listen | a start may be refused half-way, with workers running | the recovery paths divide the rows |
| Alert groups and lifecycle | `alert_groups`, `alert_events` | upsert by event, acknowledge, resolve, silence | a resolved alert fires again; two statements without a transaction | acknowledgement lasts for its incident, one group for one alert |
| Escalation | `escalation_tasks`, one worker | schedule, claim, execute, complete, fail, cancel | the worker races the operators; multi-statement methods without transaction | steps in order, once, not after they were stopped |
| Configuration | the file, the environment | validate, templates, routes | what is not refused at the start fails at a delivery | a file that is accepted can be served |
| Webhook intake | one handler for each request | authorize, normalize, plan, store, queue for each event and receiver | an error or crash in the middle leaves a part | the answer is true |
| Normalizers | none | SigNoz and Alertmanager, Grafana, gvmd, n8n, Generic JSON, CloudEvents to `AlertEvent` | inherited labels, splitting, digests | an alert keeps its identity, as far as its source names it |
| Routing, `batch_key` | none | matchers, plan, ownership, key | continuing routes, missing selectors | distinct things get distinct keys |
| Receivers, rendering | none | eight kinds of receiver, templates, limits, secrets | one batch stands for many events | nothing is lost in the message |
| Retention | all alert tables | prune at startup and daily | deletes rows in use | the tables agree |
| Management | users, teams, memberships, sessions | login, logout, user, password, team and membership changes, group operations | checks are read in other calls than what they allow | access is justified, an active admin remains |
| Login limiter | in memory | check, record, clear | check and record are two calls | guesses are bounded |
| TLS, redaction, UI, migrations, advisories | - | I/O and text | - | not modelled, section 7 |

Interactions. A webhook handler stores an event (which creates or updates its
group), and for each receiver adds a row to `delivery_records`, either inside a
batch or with a task of its own, and schedules the route's escalation. A task or
the batch worker sends and records the answer. The escalation worker queues
further rows. Operators replay rows, acknowledge and resolve groups. A restart
finds what the last run committed: first the batches are recovered, then the
remaining rows, then the workers start, then a task is spawned for each row.

`PROJECT.json` lists the hazards of this code, each with its line, and the
properties aimed at it, or the reason why there is none.

## 2. Modules

| Module | Models | Code |
|---|---|---|
| `DeliveryRecords` | the shared table `delivery_records`, the storage methods that write one row, the life of the process | storage.rs 99-112, 288-307, 865-937; main.rs 163-246 |
| `DeliveryPromise` | abstract specification: what is promised of a delivery | - |
| `DeliveryQueue` | unbatched rows: handlers, tasks, recovery | main.rs 1089-1102, 1385-1506, 1562-1607; storage.rs 465-516, 1127-1149 |
| `NotificationBatches` | batched rows: joining, the batch worker, recovery | storage.rs 309-463, 518-673; main.rs 341-432 |
| `DeliverySystem` | both in one process, over the same rows, with the startup order of `build_app` | main.rs 207-246, 1357-1383 |
| `AlertEscalation` | alert groups, operators, escalation chains and their worker | storage.rs 248-286, 675-863, 1045-1095, 1906-1985, 2599-2650; main.rs 319-339, 434-523, 1508-1530 |
| `Management` | users, sessions, teams, the login limiter, the check of every management request | main.rs 91-149, 729-1102, 1665-2073; storage.rs 1287-1438, 2318-2331 |
| `AlertEvents` | the canonical event | alert.rs |
| `AlertInputs` | what each integration makes of a body | grafana.rs, signoz.rs, gvmd.rs, n8n.rs, integration.rs, cloudevents.rs |
| `AlertRouting` | matchers, plans, ownership, batch keys | routing.rs; notification.rs 76-148; main.rs 1330-1355 |
| `ProxyConfig` | the configuration's records and `validate` | config.rs |
| `AlertRendering` | templates and messages of every kind of receiver | template.rs, google_chat.rs, cloudevents_outbound.rs, notification.rs |
| `AlertIntake` | a request's way to its answer, events and work | main.rs 1125-1355, 2083-2118 |
| `AlertPipeline` | start, handlers, attempts, pruner, crash, over the tables | main.rs 207-317, 1284-1530; storage.rs 248-433, 1906-1985, 2652-2808 |
| `DeliveryQueueProofs`, `NotificationBatchesProofs`, `DeliverySystemProofs`, `AlertEscalationProofs`, `ManagementProofs`, `AlertPipelineProofs` | theorems about the module each is named after | - |
| `AlertAnswersProofs` | what the pipeline's answers are worth, on top of `AlertPipelineProofs` | - |
| `AlertContentsProofs` | what becomes of the contents of an alert: its messages, its group, its way through the normalizers, on top of `AlertAnswersProofs` | - |
| `MCDeliveryQueue`, `MCNotificationBatches`, `MCDeliverySystem`, `MCAlertEscalation`, `MCManagement`, `MCAlertPipeline` | constants of the small instances | - |

`AlertPipeline` composes what stands before it in the table: `AlertIntake` and
`AlertRendering` are pure functions of a file and a request, or of a file and
events, and the pipeline's actions apply them. It leaves the retry loop, the claims
and the escalation steps, which `DeliveryQueue`, `NotificationBatches` and
`AlertEscalation` have in detail, at one attempt, one join and one scheduled step.

### How state and actions correspond to the code

* **Rows.** `rec[d]` holds `status` and `attempt_count` of row `d`; ids are given
  out in insertion order. Payloads, error texts and timestamps of rows are left
  out. `next_retry_at` is only displayed by the code; the sleep of a task lives in
  memory, so `Wake` may happen at any time after `RecordRetry`.
* **Tasks.** `task[d][k]` is the program counter and the attempt of the task that
  works on row `d` with idempotency key `k`: key 0 is `simple-alert-proxy-{id}`,
  key `k` the UUID of the `k`-th replay. Steps are cut where the code awaits or
  calls storage: the row is written before the task exists (`queueing`,
  `replaying`), the attempt is recorded before the request (`sending`), and the
  answer is known before the row shows it (`delivered`, `rejected`, `failed`).
* **Requests.** `Send` chooses whether the receiver takes the request and what
  the worker is told. A delivered answer implies that it was taken, a rejection
  that it was not; a failure (timeout, reset, 5xx) says nothing.
* **Failing storage calls.** Under `StorageFails` a write of a running task may
  leave the row as it was; the code logs the error and goes on.
* **Crashes.** `Crash` is possible in every phase, also during startup, and clears
  everything in memory. `RefuseToStart` is the early return of `build_app` for a
  recovered row whose receiver is no longer configured.
* **Configuration.** `max_attempts`, the configured receivers and the escalation
  policy are read again at every start and may differ from run to run.
* **Batches.** `batch[b]` is the batch's row, `member[d]` the member table, `worker`
  the single batch worker, which holds the batch it claimed. `now` is the wall
  clock that `due_at` is compared with. Each storage method is a transaction there
  and is one action.
* **Escalation.** `tasks[t]` is a row of `escalation_tasks`, `worker` the task being
  executed and the rows it has queued so far. The storage methods are not
  transactions: a `Fault` ends one between two of its statements. A crash between
  two statements is a fault followed by `Crash`.
* **Management requests.** `req[h]` is what handler `h` has read so far and the step it
  is at; each storage or limiter method is one action, so that other requests may come
  between. Who a request belongs to, and his roles in the teams (`own`), are read on the
  way in and used later, as in the code; the properties compare what they led to with the
  tables. Time is counted in the units of session
  expiry and lockout.
* **Requests and events.** A request is a record of the fields its normalizer reads. A
  fingerprint or digest is the tuple of the parts it is taken of, so distinct parts give
  distinct values. Every alert of a body carries an id of the source's, which no
  normalizer reads; `Identity` says which ids are one alert to the source.
* **Files.** A configuration is a record of the file's blocks. A matcher's test is the
  set of values that pass it, a template the fields it needs, the shape it gives and its
  size. Sizes are in KiB.
* **Handlers.** `handlers[n]` is the n-th request, its events and work, the item it is at
  and the step within it: the event is stored before its first delivery is queued, the
  delivery before its escalation, the escalation before the task is spawned. A failure
  or crash may come between any two, and between the two statements of
  `store_event_with_team` (`HalfStored`).
* **Messages.** `Outgoing` is what is posted: the top-level fields with their JSON types,
  what it names (events, or instances of SigNoz events), and its size; or why nothing is.
* **Days.** The pruner's clock counts days; `Prune` may come at any time of a day.
* **History variables**, which no action reads: `accepted`, `taken`, `named`,
  `replays` (the audit entries of replays; a guard reads it as a bound only),
  `queued`, `lost`, `origin`, the `incident` of a group, and of `Management`
  `entitled` (the ways in a request deserved at its arrival), `unowned` (the groups
  nobody owned then), `overtaken` (the teams in which its sender's role was changed
  after it had read it), `late` and `torn`.

### The abstract specification

`DeliveryPromise` knows four states of a delivery (none, owed, delivered, given
up) and whether its receiver has taken it in the current round. A delivery is
accepted, then stays owed until it is settled; it may be reported delivered only
if it was received; nothing is received once it is settled; only a replay opens a
new round. `DeliveryQueue`, `NotificationBatches` and `DeliverySystem` each
implement it (`PromiseKept`), with the mapping given at the end of each module.

## 3. Runs

| Run | Instance | Shows |
|---|---|---|
| `queue_careful` | 2 rows, 2 crashes, a replay of each, `max_attempts` 2 and later 2 or 3, fairness | types, `NoOrphan`, `RetriesRemain`, `OneTaskPerRow`, `CountSurvivesACrash`, `PromiseKept`, every row is settled |
| `queue_adverse` | 1 row, overlapping replays, failing storage, limit raised or lowered, a receiver that goes, two crashes or refused starts | a success is still only reported if the receiver took a request (`SucceededMeansTaken`), verdicts still stand |
| `batch_life` | 3 events of one key that fit, fill or overflow a batch, failing storage, a crash, fairness | bounds, counters, member rows, due times, order within a key, bounded attempts, `PromiseKept`; whenever there is a backlog it is cleared (`BacklogIsCleared`) |
| `system_life` | 2 rows of either kind to two receivers, a replay of each, either receiver may go at a restart, two crashes or refused starts, fairness | no row has two owners; the only rows without owner are replayed batch members; `PromiseKept`; every delivery is settled, unless the start is refused for ever or the row was replayed as a batch member or to a receiver this run has not got (`OthersSettled`) |
| `escalation_chain` | 2 groups, 2 events, a crash, a fault, a policy of two steps that may shrink or go, fairness | chains in order and at most once, acknowledgement leaves nothing scheduled, no step starves |
| `management` | 2 names, a team, a group, 2 requests at a time out of 3, two sessions, 5 configurations, 3 databases, a crash, a half-done method | no way in that was not deserved at arrival; operations for teams the sender works for at that moment, but for a role changed after it was read; revocation, bounded guesses, an admin remains |
| `pipeline` | 30 requests of all integrations, two of which come; 4 files that are accepted (one fails later in the start) and one for each rule of `validate`; a failing call or a crash; 3 days | answers are true, identity is stable, groups are those of the keys and the tables agree, messages are whole, and no handler gets stuck |
| `queue_overlap`, `queue_replay_key`, `batch_key`, `system_member_replay`, `escalation_refire` | the smallest instance that shows it | violations, section 6 |

Each property of a passing run has a mutant in `PROJECT.json`: a plausible bug in
one definition, under which TLC finds the property violated in the same run. The
mutants stand next to the definitions they change.

### Bounds, and why they are enough

Every bound is a constant: `MaxDeliveries`, `MaxCrashes`, `MaxReplays`,
`MaxEvents` (of `AlertEscalation`), `MaxRoutes`, `MaxTasks`, `MaxFaults`, `MaxSessions`,
`MaxRequests`, `MaxTroubles`, `MaxSends`, `MaxDay`, `Horizon`. Unbatched rows do not interact except through the startup loops, where
two rows suffice for "one recovered, the other not yet". Two crashes are needed
for a recovery interrupted by a crash, or for a start that is refused (counted as a
crash) after one; a second crash is also what separates
`CountSurvivesACrash` from the stronger claim that does not hold. Two attempts
are the fewest with a retry. Three events are the fewest for a full batch of two
with a successor, and for an oversized event between two small ones. Two groups
are the fewest for one to hold up the other. `Horizon` only limits idle time: while
something waits for its due time, the clock goes on, so it cannot hide a due
batch or step. `MaxTasks` is assumed large enough for every chain.
Two receivers are the fewest for one's missing configuration to stop the other's rows
(`system_life`); two rows of one batch are in `batch_life`.
The limits of a batch are constants: the code reads `max_events` and `max_payload_bytes`
again at every start, and a lowered limit leaves an open batch as large as the old one
allowed, so `WithinBounds` is about runs with one pair of limits.
Of the requests of `pipeline`, two are enough for what needs an earlier one: an alert
that fires and resolves, two that share a batch, a handler that overtakes another,
one that survives its neighbour's pruning, one that comes through two contact points of
Grafana with different group keys, with a fingerprint of its own and without; three days are one more than the shorter
retention, so that a group can outlive its first event. One trouble (a failing call or
the process' end) at each point is enough, since what it leaves behind is then used by
the second request, the attempts and the pruner. `DiscordLines` stands for what fits into
Discord's text, which cuts a list of more instances. `MCAlertPipeline` also assumes, and
TLC evaluates, that each of its broken files is refused (`EveryRuleRefuses`), and the
hypothesis of a theorem about the pipeline, `RequestsListTheirAlerts`. In
`management` a limit of one failure, one unit of lockout and of session life are the
shortest that can be crossed within `Horizon`; two handlers are the fewest that pass the
limiter together.
`CHECK_DEADLOCK` is off only where a cfg says why: a row without a task or a batch
left in flight are states in which the modelled code really has nothing to do.

### Fairness

Weak fairness of each delivery task, of the two workers and of each handler: they
are Tokio tasks, polled as long as they are ready; timers fire; requests end by
the client's timeout; the workers' loops poll every 25 and 50 ms. Weak fairness of
the clock. Weak fairness of the startup: the service is run with
`Restart=on-failure` (docs/SPEC.md:39-40, deploy/systemd), so it is started again
after a crash. Nothing is assumed of senders, operators or receivers: no event
need arrive, no request need succeed.

`Startup` as a whole is fair, not its result: a start may be refused again and
again, as long as a recovered row's receiver is missing, and no row of any receiver is
then delivered by a task. That is why `OthersSettled` excepts a start that is refused for
ever (once `MaxCrashes` is used up, the next refused start is the last).

## 4. Proofs

`DeliveryQueueProofs` proves for any number of rows, crashes, replays, any
receivers, configurations and limits, assuming only `RecordsAssumption` and
`QueueAssumption` (types of the constants):

| Theorem | Statement |
|---|---|
| `TypeCorrect` | `Spec => []TypeOK` |
| `OneTaskAlways` | `Spec => []OneTaskPerRow` |
| `VerdictAlwaysStands` | `Spec => VerdictStands` |
| `SuccessIsReceived` | `Spec => []SucceededMeansTaken` |
| `QueueKeepsPromise` | without overlapping replays, `Spec => PromiseKept`: the queue implements `DeliveryPromise` |
| `RetriesAlwaysRemain` | `Spec => []RetriesRemain` |
| `NeverOrphaned` | `Spec => []NoOrphan` |
| `CountAlwaysSurvives` | `Spec => CountSurvivesACrash` |

None of them is inductive as it stands. The argument goes through five
invariants, each proved to hold initially and to be kept by every action, with the
earlier ones at hand:

1. `Exclusive`: tasks exist only from the spawning phase on, recovered rows only
   during startup, and a row that is not replayed while it is live has at most one
   task, only while it is live, and none before recovery has handed it out. This is
   needed because a second task could settle a row under the first.
2. `Receipts`: a task that knows its request was answered, and a row that says
   succeeded, has a receipt in `accepted`. With overlapping replays the receipt may
   be of an earlier round, which is all `SucceededMeansTaken` claims; without them
   it is of the current round, which the refinement needs.
3. `Budget` (careful operation): the attempt a task is at, and the one recovery
   computed, are within `max_attempts`, and agree with the row's `attempt_count`.
   It is what makes the retry loop's range non-empty.
4. `Owned` (careful operation): a live row has a task, or is still to be recovered
   or spawned in the startup phase the process is in.
5. `Counts`: a task's attempt is not below the row's `attempt_count`, before the row
   was replayed and up to the first crash. `CountSurvivesACrash` follows, since a write
   of the task is what changes the count; a second crash can lower it, which is why the
   property excepts it.

Lemmas isolate what recurs: `WorkerFrame` and `UntouchedRow` (a worker's step
changes its own row only), `TaskTypes`, `RowTypes`, `ReceiptKept`, `BudgetKept`,
`OwnedKept`, and for the refinement `PromiseMapped`, `PromiseValues` and
`SaysTheSame` (an unchanged row is a stutter of the promise).

`NotificationBatchesProofs` proves for any rows, keys, event sizes, bounds, delays and
numbers of crashes, failing storage calls included, assuming only `RecordsAssumption` and
`BatchAssumption` (types of the constants):

| Theorem | Statement |
|---|---|
| `TypeCorrect` | `Spec => []TypeOK` |
| `InFlightAlwaysHeld` | `Spec => []InFlightIsHeld` |
| `AlwaysWithinBounds` | `Spec => []WithinBounds` |
| `CountersAlwaysMatch` | `Spec => []CountersMatchMembers`: events and bytes |
| `MembersAlwaysFollow` | `Spec => []MembersFollowBatch` |
| `AttemptsAlwaysBounded` | `Spec => []AttemptsBounded` |
| `OldestFirst` | `Spec => OldestOfKeyFirst` |
| `WaitNeverExtended` | `Spec => WaitIsNotExtended` |
| `BatchesKeepPromise` | `Spec => PromiseKept`: the batches implement `DeliveryPromise` |
| `BackoffAlwaysBounded` | a backoff lies between the initial and the longest, does not shrink from one failure to the next, and is not changed by the width at which the product saturates |

What has to be added to make them inductive: `Held` (the worker's copy of the batch it
holds is the table's, and while the process runs a batch is in flight exactly if it is held
or lost; no join can reach it then), from which the first, the fifth and the refinement
follow; `IdsInOrder`, `RowsAreMembers` and `MembersHaveBatches` (a new batch is the
youngest, and a row that joins is new, so that the count grows by one); `OverdueInOrder`
(an older pending batch of the same key is already overdue, and due no later than a younger
one, which together with `ORDER BY due_at, id` is why it is claimed first); and `Budget`
(what is left of the attempts in each status: a crash during an attempt uses up its own
unit of the bound). The storage methods that write many rows are stated once by their
effect on each row (`JoinEffect`, `ClaimedRows`, `FinishedRows`, `RecoveredRows`).

The bytes of a batch are a fold over the set of its members, so that a row that joins
changes the term of every sum it is in. No induction theorem with an operator as its
parameter can be instantiated here; the library's `WFMin` can, for the subsets of a finite
set. `SmallestSubset` takes from it that any collection of subsets has a smallest, and a
proof by induction becomes one by the smallest counterexample. In this way the recursive
function behind the fold is shown to exist (`SumExists`), to depend on the rows that are
summed up only (`SumsAgree`), and to grow by the bytes of a row that is added, whichever
row the fold takes first. `BytesMatchMembers` is kept like the count from there.

`DeliverySystemProofs` proves about both kinds of rows in one process, assuming
`RecordsAssumption` and `SystemAssumption` (what the parts assume, and that no storage call
of a task fails; that case is proved on the parts):

| Theorem | Statement |
|---|---|
| `TypeCorrect` | `Spec => []TypeOK` |
| `OneOwnerAlways` | `Spec => []OneOwner` |
| `OnlyReplayedMembersOrphaned` | `Spec => []OrphansAreReplayedMembers` |
| `SystemKeepsPromise` | without overlapping replays, `Spec => PromiseKept`: batched and unbatched rows together implement `DeliveryPromise` |

The theorems of the parts do not carry over, since there nothing else writes the rows.
Each step of an instanced part is first reduced to a *move*: what it does to the rows, the
tasks and the batches of the shared tables (lemma `Steps`; `Boots`, `Restarts`,
`TaskMoves`, `Joins`, `Claims`, `Sends`, `Records` and so on). The invariants are then
kept by every move, one lemma for each group of them:

1. `Divided`: nothing works on rows before the recovery has decided whose they are; a row
   has one task at most and only while it is not settled (`SoleTask`); a member's row
   follows its batch until it is replayed (`Follows`); while the batch is active nothing
   else touches it (`Apart`). `OneOwner` is `Apart`; it needs `Follows`, because a replay
   is kept off an active batch only by the status in the row.
2. `Tended` (careful operation): the budget of `DeliveryQueue`, and an owner for every
   unsettled row *outside any batch*. For a member nothing of the kind holds once it was
   replayed, which is the exception in `OrphansAreReplayedMembers`.
3. `Acknowledged`: an answer that a request was delivered is a receipt of the current
   round, and the batch worker sends exactly the members of its batch. It makes each
   move a step, or a stutter, of the promise.

`AlertEscalationProofs` proves for any groups, policies and numbers of events, routes,
tasks, crashes and faults, assuming only `EscalationAssumption` (types of the constants):

| Theorem | Statement |
|---|---|
| `TypeCorrect` | `Spec => []TypeOK` |
| `ChainAlwaysInOrder` | `Spec => []ChainInOrder` |
| `AcknowledgedAlwaysQuiet` | `Spec => []AcknowledgedIsQuiet` |
| `StepsAlwaysExecutedOnce` | `Spec => []StepsExecutedOnce` |
| `ClaimedAlwaysHeld` | `Spec => []ClaimedIsHeld` |

The types alone are not inductive: `Handling` adds that an open request has a group
and a policy, that a row of the schedule has a group and a step, that task ids have no
gaps, and that the worker's task is `processing`. `TableStep` says once what any step
may do to the table (`EveryTableStep`), and the theorems about chains and
acknowledgement follow from it: `ChainInOrder` with `ChainsNamed` (a chain follows its
first task), since only the worker's task, which no operator can cancel any more, is
succeeded by another; `StepsExecutedOnce` with `CountsAgree` (the worker's count is the
task's, within a step of the policy in use).

`ManagementProofs` proves for any users, teams, groups, sessions, handlers, requests,
configurations and databases of an earlier version, with any number of crashes and of
storage methods that end half-way, assuming `ManagementAssumption` (types of the constants,
finitely many handlers, and that a request carries the arguments its operation has):

| Theorem | Statement |
|---|---|
| `TypeCorrect` | `Spec => []TypeOK` |
| `AdminAlwaysRemains` | `Spec => AdminRemains` |
| `OldSessionsAreRevoked` | `Spec => []PasswordChangeRevokes` |
| `AccessAlwaysJustified` | `Spec => []AccessIsJustified` |
| `OnlyOwnTeamsAlways` | `Spec => []OnlyOwnTeams` |
| `GuessesAlwaysBounded` | `Spec => []GuessesAreBounded` |

`Frame` says once what any step may do to the tables, the process and each handler's
request (`Moves`); everything else is proved from it. `Real` makes the types inductive: a
live session, and a login that is about to open one, belong to a user who has a row, because
no row is ever deleted. `AdminAlwaysRemains` needs no more than the moves: the count of
admins and the update are one storage method. `DoorsClose` says that a request that is
still being authenticated cannot be let in by a door that was shut when it arrived:
sessions are only opened with new ids, and passwords and users only change in ways that
close doors. `GroupsAreKept` says the same of teams: a group never loses its team, so one
that has none now had none at arrival. `RolesAreRead` ties what a request has read to the
tables: its roles are those of the members table, but in teams in which they were changed
since (`overtaken`); every change of a role goes through `SetRole`, which marks the
requests that have read the old one (`RolesStep`). `GuessesLeft` counts, beside the failures of a
name, the handlers that have passed its check and may still add one (`Guessing`).

`AlertPipelineProofs` proves for any files and requests, any teams, and any numbers of
requests, failures, crashes, attempts and days, assuming only `PipelineAssumption` (types of
the constants: the bounds and retention are numbers, and the routes of a file and the
events a normalizer returns are lists):

| Theorem | Statement |
|---|---|
| `TypeCorrect` | `Spec => []TypeOK` |
| `TablesAlwaysAgree` | `Spec => []TablesAgree`, the first part of `StoreIsConsistent` |

`PipelineInvariant` is inductive and has four parts. `HandlersAreReal`: a handler's record
is one that intake can produce, and an open handler belongs to a process that is up, on the
day of its request. `AlertsAreReal`: a group has a key no other has, so that the event being
stored finds at most one, and its count and days bound those of its events, exactly so
before the first failure. `DeliveriesAreReal`: rows have events, batches have rows they share
with no other batch. `InProgress` is what makes them inductive: the events of an open handler
before the item it is at may be stored, the item's own is stored, and on this day, exactly
if it is not to be stored next, and its rows end before the one to be queued. Without it the
second event of a request could be the first once more, a row could join two batches, and
the pruner could take an event between its storing and its first delivery. That a handler's
events never go back is proved of `WorkOn` (`WorkInOrder`), through the recursive functions
`Kept` and `FlattenSeq`, which lemmas unroll up to any place (`KeptByStep`, `JoinedByStep`);
that the pruner leaves a group the first and last of its remaining days, from
`LeastAndGreatest`.

`AlertAnswersProofs` and `AlertContentsProofs` go on from there. They also assume
`ConfigsAreTyped` (in a file, an integration and a receiver are of one of the kinds there
are, and a template without syntax needs nothing) and `TeamsAreNamed` (no team has the
name that stands for none):

| Theorem | Statement |
|---|---|
| `AnswersAlwaysTrue` | if `RequestsListTheirAlerts`, then `Spec => []AnswersAreTrue` |
| `MessagesAlwaysWhole` | `Spec => []MessagesAreWhole` |
| `GroupsAlwaysKeyed` | `Spec => []GroupsAreKeyed`, the second part of `StoreIsConsistent` |
| `StoreAlwaysConsistent` | `Spec => []StoreIsConsistent` |

`RequestsListTheirAlerts` is about the requests: the alerts a request is said to carry are
listed in its body, each once. That no normalizer loses or doubles one is proved.

`AnswerInvariant` adds five parts to `PipelineInvariant`. `RequestsAreReal`: a handler works
on what intake made of its request, and answers 202 only past the end of that work.
`EventDays`: an event has the day of its request, so that what retention removes is as old
as the handler says. `RowsRemain`: an item the handler has passed has its row, unless it may
have expired; between the row and its escalation this is so already. `LiveMembers`: a batch
is under way as long as one of its members is queued, also after the pruner has taken others.
`Tended`: in a running process a queued row outside the batches belongs to a task, unless
its handler failed (500) or is about to queue the row's escalation. The last two are why a
restart loses nothing: rows outside the batches are recovered, those inside are
claimed with their batch, and what pruning leaves of either stays on its side
(`OwnRowsThatStay`). That the work has an item for every planned delivery rests on
`validate`: a route or a default with an unknown receiver is refused (`PlannedReceivers`),
so that `process_generic_events` never passes one over (`WorkIsComplete`), and `IsAuthorized`
comes before every normalizer (`AcceptedIsAuthorized`). This gives `AnswersTrueIfKept`, which
leaves open whether each alert of the request is in one event (`NormalizersKeepAlerts`).

`NormalizersKeep` closes that gap, normalizer by normalizer. Grafana and n8n make one event
of each alert, gvmd, Generic JSON and CloudEvents one event of the body. SigNoz and
Alertmanager sort the alerts by rule: the list of the rules has each of them once
(`OrderedSet`), the group of a rule has the alerts of that rule and no others
(`GroupOfRule`), and an alert has one rule, so that it is in one group (`SigNozCarries`).

`ContentInvariant` adds to `AnswerInvariant` that the rows of a batch have its key, which is
a key (`BatchesAreKeyed`), and that what a task works on is a row of a handler's work
(`WorkersAreReal`). What a row is for and what a handler works on never change, so both survive restarts and
pruning. A
key names a receiver and a status (`KeysTell`), which is why a batch shows the one status
all its events have. The rest of `MessagesAlwaysWhole` is about one message: every event a
handler can hold lists its alerts (`AnswersAreNormal`), and for each kind of receiver what
`Outgoing` makes of any list of such events has that kind's shape and names them all, or
fails for one of the reasons given (`OutgoingIsWhole`).

`IdentityInvariant` adds `EventsAreFiled`: an event is stored in the group of its own key, and
that group has a team if the event has an owner. It is kept because groups are only taken
away when none of their events is left, never change their key, and never lose a team
(`TeamsRemain`). Together with the keys being distinct (`AlertsAreReal`) it makes two events
one group exactly if they have one key (`GroupsAreKeys`), and namespaces start with the
integration, whichever normalizer made them. `GroupsAlwaysKeyed` is about the store and the
tables. Whether a namespace and fingerprint are what the source means by an alert is not in
the code: `IdentityIsStable` compares them with `Identity`, which the instance gives, and
is model-checked.

**Only model-checked:**

* everything about liveness (`EventuallySettled`, `BacklogIsCleared`, `OthersSettled`,
  `StepsAreTaken`, and the absence of deadlock): fairness and ENABLED are beyond the prover;
* `IdentityIsStable`, for the requests of `pipeline`, whose alerts are sent again,
  resolved, split by rule, or grouped in another way;
* the hypothesis `RequestsListTheirAlerts`, for the requests of `pipeline`.

Every other safety invariant and every action property that a passing run checks is
stated by a theorem.

## 5. Conditions under which the strong properties hold

`NoOrphan`, `RetriesRemain` and `OrphansAreReplayedMembers` are claimed for *careful* operation: operators replay
settled rows only, `max_attempts` is not lowered between two runs, and no storage
call of a running task fails. Each condition is needed. A replay of a live row
breaks them (`queue_overlap`). A lowered limit does too: with a row left at
attempt 2 of 3 and `max_attempts` now 2, recovery computes attempt 3, the range
`3..=2` is empty and the task ends without a verdict. After a failed write the row
keeps an old status until the next restart. `SucceededMeansTaken`, `VerdictStands`
and `TypeOK` need none of them.

The pipeline's properties say where the code's promise ends. `AnswersAreTrue` speaks of
202 only: a 500 may leave events, rows, and a row without a task until the next
restart. `StoreIsConsistent` lets a group count an event it does not have, if a call
failed. `IdentityIsStable` takes the alerts of one SigNoz rule for one, as the code does
on purpose, and says nothing of alerts without a rule; it excepts a Grafana alert without a
fingerprint that comes under another group key (`Regrouped`), and says of that one that it
is another group then (section 6). `MessagesAreWhole` excepts
messages a template or Discord's limit decides, and lists the reasons for which an
attempt may be given up before anything is posted: a template that depends on the event
(`group` is undefined for a delivery of its own), a contract's size limit that a batch
within its own bounds exceeds, a secret that is not in the environment, a receiver
of an earlier file. `PasswordChangeRevokes` excepts a sign-in that had verified the old
password before the change, and a change that ended half-way. `OnlyOwnTeams` compares with
the memberships at the moment of the operation; a handler has read them earlier, so it
excepts a role that was changed after it was read (a former member may still finish what
was let in), and, for what is listed, a group nobody owned when the request arrived.
`AccessIsJustified` ends with the admission: what was let in goes on, although its session
expires or its user is disabled meanwhile. `GuessesAreBounded` counts since the last
sign-in or the end of the last lock; a sign-in clears the count, and a lock set meanwhile
with it (section 6).

`OthersSettled` is what is left of liveness across receivers: one unbatched row whose
receiver is missing keeps the rows of all others waiting as long as it is missing
(main.rs:241-243, 1435-1446).

`AcknowledgedIsQuiet` is claimed as long as no storage method was cut short: the
acknowledgement and the cancelation are two commits.

## 6. Where the code and its documents disagree

* `queue_overlap` (main.rs:1571). A row is replayed while its task still retries; the
  replay's first failure writes `retrying` over an `attempt_count` that is already
  at the limit; after a crash the recovered loop is empty and the row stays
  `queued`. SPEC.md:387-390 says that failures end in `dead_letter`.
* `queue_replay_key` (main.rs:1458). A replay that a crash interrupts is resumed with
  the key of the original delivery; N8N.md:108-109 says that a replay has a new one.
* `batch_key` (storage.rs:349). A batch that was in flight at a crash accepts new
  events under a key the receiver may have seen; SPEC.md:662-664 describes the key
  as something to deduplicate by.
* `system_member_replay` (storage.rs:470). A replayed batch member whose replay is
  interrupted belongs to neither recovery path; README.md:27 promises restart-safe
  replay. `OrphansAreReplayedMembers` shows that these rows are the only exception.
* `escalation_refire` (storage.rs:1947). An alert that is resolved by an event keeps
  its scheduled steps, and they are executed when it fires again;
  ALERT_WEBHOOK_GATEWAY_OPENSPEC.md:299-300 says that escalation stops.

Shown by passing runs, whose properties state what the code does instead:

* `IdentityIsStable` (grafana.rs:353). The digest that stands for a missing
  fingerprint includes the group key, so the same alert, sent through another contact
  point under another group key, opens a second group; README.md:850-852 says that
  duplicates from contact points of one organisation converge. With a fingerprint they do.
* `OthersSettled` (main.rs:241-243). One recovered row whose receiver is no longer
  configured keeps the rows of every other receiver from being taken up.

Noted without a run: an escalation task that was claimed when the process ended
stays `processing`, so the rest of its chain is lost (`ClaimedIsHeld` says that
this takes a crash or a fault); `silenced_until` is stored and shown, but no code
suppresses anything because of it. A login that passed the limiter's check before an
account was locked lifts the lock by its success (main.rs:143); SPEC.md:332-333 says that
five failed logins lock an account for 15 minutes. An event that no route selects is answered 202
with `delivered: 0` and is not stored. A file whose regular expressions do not compile,
or that lacks the receiver of a recovered row, is refused after the database was pruned
with its retention. Recovered rows are read before that pruning, so that one past its
retention is sent although its row is gone. A group that was created by a call that
failed before its event was stored is never pruned.

## 7. Not modelled

JSON and TOML decoding, wording and escaping of messages, HTTP itself, TLS, tracing,
redaction and the UI have no state that the properties speak of. Their outcome appears
where it matters, as the answer of a request, the fields and names of a message or the
size of an event. `server.limits` is the guard of `Receive`; the shedding of a request
beyond it leaves nothing, as does every refusal. Tower's layers, SQLite and Tokio are
taken as they are documented. Migrations run once before anything else. Advisory
enrichment writes rows that nothing reads. Passwords are compared as values, without
their hashes. The clocks of the models only go forward; after a clock that is set back,
batches and steps wait longer, which the code does not try to prevent. The backoff of
an unbatched row is left open; that of a batch is computed (`Backoff`) without the limit
of 64 bits, which `BackoffAlwaysBounded` shows to make no difference below the longest
backoff. That this one is afterwards cast to a signed number, so that a configured value of
2^63 ms or more would be due at once, is not modelled. What a regular expression matches, a URL contains or a template renders
is given with the instance, not computed from text.

## 8. Plan

Done: the delivery core (`DeliveryRecords`, `DeliveryPromise`, `DeliveryQueue`,
`NotificationBatches`, `DeliverySystem`), `AlertEscalation`, `Management`, the way from
the configuration and the request to the message and to retention (`AlertPipeline` and
the modules it stands on), and the proofs of section 4. The order was chosen by what the
program is for: first durability of deliveries, then what operators see and stop, then
who they are, then what is stored and sent.

Possible next: a database in which a batch's row cannot be read (main.rs:345); the delay
one slow receiver causes for the others; identity as a theorem about each normalizer, from
what its source promises of fingerprints; batch limits that change from run to run.
