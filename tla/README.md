# ComplianceForge in TLA+

Specifications, model-checking configurations and machine-checked proofs for
the concurrent core of ComplianceForge: the machinery that decides *whether* a
compliance job runs, *how often*, and *whether its message can be lost*, and the
records that overlapping requests must not corrupt: who administers a tenant,
what may be deleted, and which version of a policy is in force.
The specifications follow the Go source under `src/`; `PROJECT.json` maps each
definition to the lines it stands for.

Contents: [inventory](#inventory) · [modules](#modules) · [runs](#runs) ·
[fairness](#fairness) · [assumptions and abstractions](#assumptions-and-abstractions) ·
[proofs](#proofs) · [divergences](#divergences-between-code-and-documentation) ·
[what is not modelled](#what-is-not-modelled) · [plan](#plan)

## Inventory

ComplianceForge is a governance, risk and compliance platform: a Go HTTP/gRPC
API and a Go worker over PostgreSQL, RabbitMQ and Redis, and a browser client.
Several replicas of the API and of the worker run at once. The API mostly
changes one tenant's rows inside SQL transactions, several of which overlap; what
needs more than one step runs in the worker and meets in four places: scheduler
leases, the outbox, the queue with its inbox, and the notification queue.

### How the parts interact

    API / schedulers --Enqueue(tx)--> queue_outbox --Dispatcher--> RabbitMQ
         |    |                                                      |  ^ retry (TTL)
         |    +--EventBus--bridgeEvents--> queue_outbox              v  |
         |                                               SubscribeEnvelope (worker)
         |                                                      |        |
    Coordinator.Run (lease per task) <----systemJob handlers----+   queue_inbox
         |
         +--> periodic tasks: notifications, workflow SLA, regulatory, DSR,
              evidence, exceptions, analytics, reports, calendar, search

### Components

**Scheduler leases** (`internal/pkg/coordination/lease.go`). *State*: one row of
`scheduler_leases` per task with owner, token and `leased_until`; per replica the
lease it believes in, the work goroutine and the heartbeat goroutine.
*Operations*: TryAcquire, Renew, Release, Coordinator.Run. *Hard*: three
concurrent activities per replica; an answer can be lost while its statement is
executed; the lease expires by the database's clock while cancellation is
cooperative. *Correct when*: two replicas work at once only if one was late; no
statement of an earlier run ends or revives the current run's lease; no lease
is held for ever.

**Transactional outbox and dispatcher** (`internal/pkg/queue/outbox.go`,
`outbox_dispatcher.go`). *State*: `queue_outbox` rows (pending, leased,
published, dead) with lease, attempts and deadline; per dispatcher the batch it
carries. *Operations*: Enqueue, ClaimBatch, MarkPublished, MarkFailed, MarkDead,
ReleaseUnattempted, PurgePublishedBefore, DispatchOnce. *Hard*: a batch is
published row by row while its leases run out; marks fail, arrive late or find
another owner; a crash drops the batch. *Correct when*: a row is published only
after a broker confirm, hand-overs to the publisher are bounded although
attempts are refunded, terminal rows are final, and each row settles.

**Queue consumer, retry routing and durable inbox** (`queue.go`, `topology.go`,
`failure.go`, `postgres_inbox.go`). *State*: a primary, a retry, a dead and a
quarantine queue at the broker; `queue_inbox` rows per message and attempt with
lease and fingerprint; per worker the delivery under way. *Operations*: PublishEnvelope,
SubscribeEnvelope (processDelivery, with each of its returns), Begin,
Complete, Forget, PurgeExpired. *Hard*: publish, inbox completion and
acknowledgement are three systems and three steps; sessions break under a
running handler; leases are taken over; the delivery limit counts refused
redeliveries. *Correct when*: an accepted message is never lost before a handler
succeeded, an attempt runs twice at once only after its lease lapsed, and each
message ends.

**In-memory deduplicator** (`idempotency.go`): the same protocol as the inbox in
one process, for tests and single-process use. Not modelled.

**Envelope codec, dispatch by type, trace context** (`envelope.go`,
`dispatcher.go`, `trace.go`): pure data. What matters to the protocol is
represented in Delivery: a delivery may be malformed, and publishing an envelope
again changes its fingerprint.

**Worker process** (`cmd/worker/main.go`): starts the schedulers under leases,
the consumers, the dispatcher and `bridgeEvents`; waits for them on shutdown.
*Hard*: a queue job that runs a system task shares that task's lease with the
scheduler and fails while another replica holds it. Partly modelled (the
environment of SchedulerLease).

**In-process event bus and bridge** (`service/event_bus.go`, `bridgeEvents` in
`cmd/worker/main.go`, and the schedulers that publish). *State*: what the database
says is due or announced; a channel of 64; the event in the bridge's hands; the
rows of the outbox. *Operations*: a scheduler's poll and its Publish, an expiry
that is committed and then published, one that is enqueued in its own
transaction, bridgeEvents' take and Enqueue. *Hard*: Publish drops what does not
fit, and a database error in the bridge ends the worker with all it held in
memory. *Correct when*: what was recorded is in the outbox, on its way, or was
taken by one of these two, by a commit whose answer was lost, or by an event that
is not valid; a deadline within reach of the channel is queued.

**Notification delivery** (`service/notification_delivery.go`,
`repository/notification_repo.go`). *State*: `notifications` rows with status,
lease, retry_count, dead_at, acknowledgement and escalation times; per worker the claimed
batch and the outcomes it has still to record. *Operations*: insertion by
delivery key, claimDueNotifications, deliverClaimedGroup,
completeNotificationDelivery, failNotificationDelivery, createDueEscalations,
Acknowledge, RecordBounce. *Hard*: a provider is called before the row is
updated, a batch shares one lease, bounces and late updates cross, and the
attempt is charged at the claim. *Correct when*: a provider takes a
notification twice only by mishap, what is over stays over, each notification
ends, and each overdue acknowledgement is escalated.

**Notification events** (`notification_engine.go`). *State*: per event its message
in the queue, the run it is in, and the notification rows by event, rule and
recipient. *Operations*: ProcessEvent matches rules, checks the cooldown,
resolves recipients and preferences and stores one notification for each.
*Hard*: the cooldown check is not atomic with the inserts, a run may fail for one
recipient and is repeated as a whole, and a retry meets the cooldown of its own
first try. *Correct when*: nobody gets two notifications for one event and rule,
and only a cooldown keeps anybody from one.

**Tenant administrators and access governance** (`repository/user_admin_repo.go`,
`scim_user_repo.go`, `scim_user_access.go`, `access_admin_repo.go`,
`access_governance_repo.go`, `access_governance_sod_repo.go`). *State*: accounts,
roles, assignments with windows, rules that forbid two roles together, exceptions
from them, and an access review with its findings. *Operations*: the directory's
and SCIM's changes of accounts, role changes, assignment windows, rules and
exceptions, review decisions. *Hard*: the check that an administrator remains and
the change it allows are apart, time and rules take assignments away later, and
two operations do without the organization's lock. *Correct when*: a tenant
keeps an administrator, each conflict is on record, a review revokes exactly
what the reviewer saw.

**Data lifecycle governance** (`repository/data_governance_repo.go`, the triggers
of migrations 000052 and 000056). *State*: retention assignments, pending
exceptions, legal holds and their records, the chain of events, the deleted
records. *Operations*: assign, request and decide an exception, review a
disposition, extend; create and close a hold, place and release a record;
delete. *Hard*: each request checks, appends an event under the chain's lock and
commits, and the deletion trigger reads holds and assignments without a lock.
*Correct when*: the chain has no gap or fork, a held record is not deleted,
an approval is of the due date in force, and overlapping requests act as if each
ran at once.

**Policy documents and their approval** (`service/policy_service.go`,
`repository/policy_repo.go`). *State*: the policy row, its versions, the approval
and retirement workflows, attestations. *Operations*: create a version, edit,
assign, delete, submit, decide a step, publish, acknowledge. *Hard*: the service
checks the status in a statement of its own, before the repository's transaction.
*Correct when*: only approved versions are published, the three tables agree, and
what was released is rewritten by nothing but a request with an old reading.

**Workflow engine and SLA scheduler** (`service/workflow_engine.go`,
`worker/workflow_scheduler.go`): definitions, instances, step executions. No
command constructs the engine and its INSERTs name columns that no migration
creates, so its handlers have no reachable state. Not modelled.

**Periodic lifecycle schedulers** (`worker/*_scheduler.go`, `calendar_worker.go`,
`search_indexer.go`): scan-and-update jobs under a lease each. Their exclusion is
what SchedulerLease establishes; how they announce what they find is EventBridge.
What else their bodies do is not modelled.

**Identity, sessions, MFA** (`identity_*`, `auth_service.go`,
`identity_session_repo.go`): refresh-token rotation with reuse detection,
one-time tokens, lockout counters. *Correct when*: one refresh token yields one
successor. Not modelled yet.

**Policy evaluation** (`abac_engine.go`, `access_policy_service.go`,
`policy_authorizer.go`): a pure function. Not modelled.

**Evidence, exceptions, incidents, data-subject requests**: status machines of a
single row, each transition in one SQL transaction. Not modelled.

**Rate limiting and cache** (`pkg/ratelimit`, `pkg/cache`): Redis script with an
in-memory fallback. Not modelled.

**Storage, e-mail, safe HTTP** adapters, **CRUD services and repositories**,
**HTTP/gRPC API**, **frontend**, **schema, seeds, deployment, observability**:
I/O, request decoding, views and data. Not modelled; the tables' CHECK
constraints of the modelled components are in the type invariants.

The hazards these parts are exposed to, each at its line and with the properties
that watch it, are listed under `hazards` in `PROJECT.json`.

## Modules

| Module | Role |
|---|---|
| `SchedulerLease` | lease row, `Coordinator.Run` of each replica, clock |
| `MCSchedulerLease`, `SchedulerLeaseProofs` | instance for TLC; theorems |
| `Outbox` | `queue_outbox`, the dispatchers |
| `DurableDelivery` | an outbox in front of a queue that keeps `AtLeastOnce` |
| `MCDurableDelivery`, `OutboxProofs` | instance for TLC; theorems about `Outbox` and `DurableDelivery` |
| `AtLeastOnce` | what the queue promises of each accepted message |
| `Delivery` | broker queues, inbox, workers; refines `AtLeastOnce` |
| `MCDelivery`, `DeliveryProofs` | instance for TLC; theorems |
| `NotificationDelivery` | `notifications` rows, delivery workers, escalation |
| `MCNotificationDelivery`, `NotificationProofs` | instance for TLC; theorems |
| `EventBridge` | what is due, the bus, the bridge, the outbox rows |
| `NotificationRules` | `ProcessEvent`, rule by rule and recipient by recipient |
| `MCBridge`, `MCEvents`, `EventProofs` | instances for TLC; theorems about both |
| `Governance`, `GovernanceProofs` | retention, holds, event chain, deletion; theorems |
| `PolicyApproval`, `PolicyApprovalProofs` | one policy and its workflows; theorems |
| `Administrators`, `AdministratorsProofs` | accounts, roles, rules, review; theorems |
| `MCGovernance` | the three above and `NotificationDelivery` in one run |

`MCGovernance`, `MCBridge` and `MCEvents` each check several modules that share no
variable and no constant: a behaviour belongs to one of them, chosen by `part` in
the initial state, and the variables of the others keep theirs. That
nothing is gained or lost by this is the theorem `RunIsOfEachModule` for
`MCGovernance`, by which every theorem about one module holds of the run.

**SchedulerLease.** `row` is the table row with the time left until
`leased_until`; `phase[r]` is the program counter of `Coordinator.Run`
(`starting` TryAcquire is committed but unanswered, `working`, `renewing` /
`renewed` / `refused` the heartbeat's Renew is under way, executed, or refused,
`stopping` the work's context is cancelled, `finished`, `releasing`, `down`).
`request[r]` is a statement on the wire: it is executed (`Execute`) or lost
(`LoseStatement`) at any later time, whatever its sender has become, including after
a cancellation or a crash. Time is a set of countdowns moved by one `Tick`:
the lease's, the heartbeat's (`beat`, a third of the lease), and `due`, by which
a timely replica has its answer or has stopped. The code enforces none of the
latter, so `Tick` may overrun them and then records `late`.

**Outbox.** `row` is the table by message; `mode`, `batch` and `job` are the local
state of one `DispatchOnce`. `ClaimBatch` is one transaction: exhausted leased
rows die, claimable rows are leased with fresh tokens and charged an attempt. A
mark is one `UPDATE` fenced by owner and token (`Matches`); when its caller sees
an error it joins `late` and is executed or dropped at any later time. Deadlines
are one bit per row, `ripe`, which may turn at any moment, also while a
dispatcher still holds the row: every lease length and clock is covered. `confirmed`
and `offers` are history variables.

**Delivery.** `copy` holds what the broker holds: place, message, attempt,
fingerprint, how often it was given back, and the session that has it.
`SessionEnded` gives back all copies of a session and dead-letters those above
the delivery limit. `job[w]` is the delivery `processDelivery` is handling, with
its stage; a job outlives its session (`Connected`) and then acknowledges into
the void, as in the code. `inbox` holds the rows of `queue_inbox`; `lapsed` is one bit
as in Outbox, and a lease that has not lapsed stands for one that was renewed.
Each return path of `processDelivery` is an action: malformed (`RejectMalformed`),
the four outcomes of Begin, handler success or failure, the three outcomes of
Complete, a publish confirmed, repeated in place by `publishWithReconnect`, or
unconfirmed (taken by the broker or not), Forget, markAttemptComplete, Ack and
Nack. `done`, `failed` and `overrun` are history variables.

**AtLeastOnce** is the abstract specification: per message a status *unsent →
owed → succeeded or parked*, where a parked message may still succeed. `Promise`
in Delivery is the refinement mapping.

**NotificationDelivery.** `row` is the table: roots come from events, an
escalation is the record of its parent and channel, which is its delivery key,
so it exists at most once. `hands[w]` is the part of a claimed batch not yet sent,
`job[w]` the outcomes of the group just sent that are still to be recorded: one
`Deliver` is one `Dispatch`, one `RecordOutcome` one `UPDATE`. A worker claims again
only with empty hands, as `deliverDueForTenant` does. `retry_count` grows with each
claim and never shrinks, so its value at the claim (`claim`) stands for the random
`lease_token`. An update whose caller saw an error joins `late`. `due`, `lapsed`
and an *overdue* acknowledgement are one bit each. `Escalate` is the whole
transaction: an inactive channel rolls it back. `sends` and `mishap` are
history variables: how often a provider took a notification, and whether an
attempt overran its lease or its success was lost (an unclear answer, a crash,
a failed update).

**DurableDelivery** adds to `Outbox` what the queue behind it has made of each
message: `Queue` is an instance of `AtLeastOnce` over `status`. `Publishes` joins
`Outbox!Publish` with the queue's Accept: a confirmed publish was accepted, an
unconfirmed one may have been. `Consumes` is everything consumers do, at any time.
`committed` is a history variable: the messages whose Enqueue has committed.
Delivery itself, with its queues and inbox, is put in the place of `AtLeastOnce` by its
refinement, not in a run.

**EventBridge.** `source` says of each occurrence what the database does: it is waiting, due,
or settled, which for an expiry means that it was committed. `sweep` is the poll under way (`StartSweep`, then a `PublishNext` for each
deadline: the IDs are derived, so each poll publishes the same event). `AutoExpire`
commits an exception's expiry, `PublishExpiry` puts it on the bus once; `CommitUnanswered`
is the commit whose answer is lost, after which the scheduler gives up and never comes
back to the row;
`ExpireDueEvidence` enqueues in its own transaction. `bus` is the channel and drops
when it is full. `TakeEvent` and `EnqueueHeld` are the two halves of bridgeEvents'
loop; a message whose row is there is a conflict that does nothing. `DropHeld` is what
the loop logs and skips: an event that NewEnvelope or Validate refuses (of the
deadlines, those in `Unsendable`; of the exceptions, any). `Stop` and
`EnqueueFails` end the process with all it holds in memory; `Purge` removes a
published row. `lost` is a history variable.

**NotificationRules.** `stage` says whether the message of an event is owed, done
or parked; `attempts` counts failed runs. A run holds the rules left, the rule it
is in, the recipients left and whether anything failed. Each statement of the loop
is a step: `SkipRule` and `OpenRule` (the cooldown check), `RuleErrors`, `CreateRecord`
(ON CONFLICT on the delivery key, so at most one row per event, rule and recipient),
`RecipientErrors`, `Finish`, `Abandon`. `Cool` lets a row leave the cooldown, `Return`
enqueues an old event again after its row was purged. `muted` and `raced` are
history variables: by whose rows a run was kept from a rule, and whether runs of one
entity were inside a rule at once.

**Governance.** A clerk's transaction is `Begin` or `ReviewDisposition` (lock
`RowsOf` the request, check `Allowed`), `AppendEvent` (lock the head of the chain) and
`Commit`, which applies the request; `CommitDelete` is the deletion, which appends no
event and has read what it was cleared by without locks; `Rollback` may come at any
point. A review is of what an earlier `ReadAssignment` has shown. `crossed` is a history
variable: the records whose deletion overlapped another request about them.

**PolicyApproval.** `Read` is the service's check where the repository does not
check again; `OpenVersion`, `OpenWorkflow` and `OpenDecision` begin a transaction, with its
advisory or row lock, and `CreateVersion`, `CreateApprovalWorkflow` and
`DecideApproval` commit it. `Publish` locks the policy's row
and is one step. `OpenAnswer` reads which version is published, under the advisory lock
of policy and user, and `AcknowledgePolicy` writes the user's answer for that version:
attested or declined, in place of an earlier one. `overtook` is a history variable: a transaction was committed on a
policy that had left the state it was checked in.

**Administrators.** `Serve` begins an operation (its locks, its checks), `Finish`
commits it, `ChangeFails` ends it without effect, `Pass` is the clock. What an operation
may do is `AccountAllowed`, `RoleAllowed`, `RuleAllowed`, `ReviewAllowed`; what it does,
`Status`, `Grants`, `Roles`, `Rules`, `Exempts`, `Review`, `Findings`. `Effective` is the
database function `effective_user_roles`, and every check reads through it. An
assignment has an incarnation number, so one that was removed and given again is
another one, as its row is. There are several initial states (`AdminInit`): tenants with
an open review, with rules and an approved exception from each, or with neither. `excused` and `raced` are history
variables.


## Runs

| Run | Module | Question | Bounds | Result |
|---|---|---|---|---|
| `lease` | `MCSchedulerLease` | `TypeOK`, `OverlapOnlyIfLate`, `LeaseFenced`, `EveryLeaseEnds` | 2 replicas, 3 tokens, lease 5, answer 1, stop 1, 1 crash | holds |
| `outbox` | `MCDurableDelivery` | `DurableTypeOK`, `NothingCommittedVanishes`, `OffersArePaid`, `TerminalIsFinal` | 2 messages, 2 dispatchers, 3 tokens, 2 attempts, batch 2, 2 inserts, 1 crash, 1 late mark | holds |
| `delivery_safety` | `MCDelivery` | `TypeOK`, `NothingIsLost`, `ExclusiveUnlessOverrun`, `KeepsPromise` | 2 workers, a message published twice, 2 copies, 2 attempts, limit 1, 1 late statement | holds |
| `delivery_liveness` | `MCDelivery` | `EveryMessageEnds` | 1 worker, a valid and a malformed message, 2 copies, 2 fingerprints, prefetch 2 | holds |
| `bridge` | `MCBridge` | EventBridge: `BridgeTypeOK`, `NothingVanishes`, `EveryDeadlineInReachIsQueued`; NotificationDelivery: `EveryNotificationEnds`, `EveryOverdueIsAnswered` | 3 deadlines of which the first is not valid, 1 exception, 1 evidence, channel of 2, 1 end, 1 purge; 1 notification that escalates to 1 channel, 2 workers, 2 retries, 1 late update | holds |
| `events` | `MCEvents` | NotificationRules: `RulesTypeOK`, `NotifiedOnce`, `MissedOnlyByCooldown`, `CooldownUnlessRaced`, `EveryEventIsHandled`; Outbox: `EveryMessageSettles` | 2 events of one entity, 1 rule, 2 recipients, 2 runs, 1 return; 2 messages, 1 dispatcher, 2 tokens | holds |
| `governance` | `MCGovernance` | `TypesOK` and, of Governance, `ChainIsGapless`, `ApprovedAsRead`, `HoldsProtect`, `DeletedWhenCleared`, `AsIfAtOnce`; of PolicyApproval, `HistoryIsLinear`, `ReleasedWasApproved`, `StatusesAgree`, `OnlyStaleEditsRewrite`; of Administrators, `KeepsAnAdministrator`, `ConflictsAreOnRecord`, `AssignedRolesLive`, `RevokedAsReviewed`; of NotificationDelivery, `SendsAreFew`, `TerminalIsFinal` | an asset under review and an evidence, 1 hold, 2 clerks, 4 events; 2 editors, 2 versions, 2 workflows of 2 steps; 2 users, 3 roles of which one is custom, 1 rule, 2 requests at once, 3 changes; 2 notifications of one digest, 2 workers, 2 retries, 1 late update | holds |
| `lease_overlap` | `MCSchedulerLease` | `AtMostOneReplica` | as `lease` | violated |
| `delivery_dead` | `MCDelivery` | `DeadRetainsFailures` | 2 workers, 1 message, 3 copies, limit 4 | violated |
| `notify_stranded` | `MCNotificationDelivery` | `ExhaustedIsDead` | the notifications of `governance` | violated |
| `governance_pending` | `Governance` | `PendingExceptionProtects` | the records of `governance` | violated |
| `policy_edited` | `PolicyApproval` | `PublishedIsNotEdited` | 2 editors, 2 titles, 1 version, 1 workflow of 1 step | violated |

Each property of a passing run is shown to be sensitive by a mutant of the code it
is about (`mutants` in `PROJECT.json`; the mutated operators stand next to the
originals).

*Why the bounds are enough to meet the interesting cases.* Two replicas,
dispatchers, workers, clerks, editors or requests are the least that race; every
lease, lock and overlap in the models is a pairwise affair. Three tokens let two earlier leases be
remembered (by a request or a late mark) while a third is current. Two attempts
distinguish "retry" from "last attempt". One crash or late statement is reused at
every point of a behaviour, so it meets each step once. In `delivery_safety` two copies
suffice for a redelivery beside a duplicate or a retry, and delivery limit 1 lets a
copy be given back once before it is dead-lettered. Fingerprint conflicts and
malformed messages need a second hash or message and are in `delivery_liveness`.
Three deadlines over a channel of two make one fall out of reach, and two enqueues
of one deadline need one purge. Two events of one entity are the least that race
through a cooldown, two recipients the least of which one can fail. Two versions and
two workflows let the second supersede the first. One pair of roles with two windows
makes a conflict that is not yet in force; three changes let one be checked, overtaken
and followed up. A notification is claimed twice (the second claim overtakes
or follows the first) with a second row beside it in the batch and the digest;
escalation adds nothing to the fencing of a single row, so it is in `bridge`, where
the channel may be switched off and on at any time.

All bounds are constants: `MaxCrashes`, `MaxInserts`, `MaxLate` (statements late at
once), `MaxSends` (publications of a message), `Copy` (messages at the broker at
once), `MaxEnds`, `MaxPurges`, `MaxRuns`, `MaxReturns`, `MaxTime`, `MaxEvents`,
`MaxVersions`, `MaxWorkflows`, `MaxSteps`, `Desks`, `Horizon`, `MaxChanges`. The safety
theorems below hold for every value of them.

`CHECK_DEADLOCK FALSE` is set for all but SchedulerLease, which never rests: once the
bounded inserts, publications, retries, events or changes are used up and everything
has settled, the system rests.

Symmetry is used for sets whose members are only compared for equality (messages,
dispatchers, tokens, copies, workers, hashes), only in `outbox`, `delivery_safety` and the
violation runs, never with liveness.


## Fairness

*SchedulerLease*: time passes; work that is awaited returns (without this, `Run`
never releases); `Run`'s own steps follow each other; a free task is acquired by
its ticker; a dead worker is restarted by its supervisor; a statement is
executed or lost, not under way for ever. Nothing is assumed about renewals
arriving or being on time.

*Outbox*: deadlines pass, a dispatcher goes on with its batch, late
statements end, and a row that can be claimed or declared dead again and again
eventually is. The last one is strong fairness and rests on `ORDER BY available_at`
in ClaimBatch: an old row overtakes newer ones. No confirm is assumed; crashes are
bounded, failed marks are not.

*Delivery*: delayed retries expire (TTL), the broker delivers a queued copy it can
deliver again and again (strong fairness: FIFO queue, reconnecting consumers),
a worker takes what it was given and goes on with its job, and a publish is not
retried in place for ever (`PublishRetries` is under no fairness). `publishWithReconnect`
has no limit of its own: it repeats until the broker confirms, refuses for good,
or the worker's context ends, and the assumption is that one of these happens, that
is, that the broker does not stay unreachable while the worker stays up for ever. Nothing is assumed of leases, the
database, crashes, sessions, or of which of the three ends a publish: the message ends
because each return is counted and each retry raises the attempt.

*NotificationDelivery*: deadlines pass, a worker goes on with its batch, late
updates end, and a row that can be claimed, or whose escalation can be created,
again and again eventually is. The last is strong fairness and rests on the
`ORDER BY` of the two queries over the deadline and on the poll in every cycle.
Nothing is assumed of providers, crashes or the success of updates.

*EventBridge*: the schedulers' polls go on, an expiry that was committed is
published unless the process ends first, and the bridge goes on taking and
enqueueing, or skipping what is not valid. Nobody has to settle what is due. A poll
begins with a drained channel: polls are a quarter of an hour apart
(`cmd/worker/main.go:479`), the bridge needs milliseconds for each of at most 64 events.

*NotificationRules*: the queue delivers what it owes (what `EveryMessageEnds` of
Delivery establishes), and a run that has begun goes on. Nothing is assumed of the success of
a statement.

*DurableDelivery*, *Governance*, *PolicyApproval*, *Administrators*: safety only.

## Assumptions and abstractions

* `TimingAssumption`: `Beat + 2*AnswerTime + StopTime < LeaseTime`. This is what
  "timely" must mean for a third-of-lease heartbeat to protect the work; with the
  default lease there is ample room. The code does not check it.
* `DeliveryAssumption`, `OutboxAssumption`, `NoneAssumption`,
  `CrashesAssumption`, `NotificationAssumption`, `OccurrencesAssumption`,
  `UnsendableAssumption`, `BridgeBoundsAssumption`, `RulesAssumption`, `GovernanceAssumption`,
  `AdministratorsAssumption`, `PolicyAssumption`: sorts and bounds of the constants
  only.
* *Outbox*: PurgePublishedBefore does not hit a row still carried by a
  dispatcher or late statement: retention is days, leases are seconds. A
  ClaimBatch whose answer is lost is a crash right after it. Enqueue validates each
  envelope, so ClaimBatch's rollback on a row that does not decode or validate
  (`outbox.go:266-288`) is left out. Tenant scope is data.
* *SchedulerLease*: a replica has one statement on the wire. One of an earlier run that
  is still there when its next run sends another counts as lost: its token matches no
  row any more.
* *Delivery*: the broker's dead-lettering is lossless (quorum queues). A publisher's
  connection pool is abstracted to its three outcomes. Whether a handler's effect is
  idempotent is the handler's business; `done` records that a run was taken for a
  success.
* *NotificationDelivery*: all rules that escalate share the same channels. Which
  notifications of a batch share a digest depends on recipient, channel and
  schedule; any subset of `Digest` may. A provider reports bounces only of what
  it has taken (RecordBounce itself checks nothing). A claim whose answer is
  lost is a crash right after it.
* *DurableDelivery*: a queue that is declared. The broker takes a message before
  its confirm reaches the dispatcher; one that comes again counts as the same,
  which is what the inbox makes of it.
* *NotificationRules*: what the rules match and whom they address is given; the rows
  only grow cold, their delivery is NotificationDelivery. An event is in one run at a
  time, which its inbox lease gives unless a run overruns it (`overrun` in Delivery).
* *EventBridge*: whether the event of a threshold is valid is the same in each poll.
* *Governance, Administrators, PolicyApproval*: READ COMMITTED; a row lock or an
  advisory lock is held to the end of its transaction; a deadlock ends in a
  rollback, which may happen at any time. A request's context carries a database
  *connection*, not a transaction (`database.WithQuerier`), so a service's check
  and the repository's transaction are separate steps.
* *Governance*: the tenant has a policy, so its records need an assignment; a
  record has at most one assignment. *PolicyApproval*: one policy; anybody may
  decide a step; a user's answer is one per version, and one user stands for all, since
  their answers do not meet. *Administrators*: one review at a time; a window begins
  now or later, without the five minutes of grace of `governanceWindow`.
* Values are model values; payloads, wording, logs and metrics are left out.

## Proofs

The theorems hold for every value of the constants allowed by the named
assumptions. Each proof module has one inductive invariant `IInv`, and each
theorem follows from `Init => IInv`, `IInv /\ [Next]_vars => IInv'`, and a
step-wise argument.

**SchedulerLeaseProofs.** `MutualExclusion` needs to know, for every phase, how
much of the lease is left: the invariant relates the row's countdown to the
replica's `beat` and `due` (a working replica that is not late has more than
`beat + AnswerTime + StopTime` of its lease, and so on down to `stopping`), and
says that tokens in hands and on the wire are of their own run. `Fencing`
follows from the token part alone, and `TypeCorrect` from the invariant.

**OutboxProofs.** `PublishedWasConfirmed` is not inductive: a pending *published*
verdict, in a dispatcher's `job` or in a late statement, must itself be vouched for
by a confirm. `IInv == TypeOK /\ Vouched /\ AbsentIsFree /\
PublishedWasConfirmed`, where `AbsentIsFree` says that nothing still carries a
row that is absent, so a re-inserted row meets no old verdict. From it
`NoSilentLoss`; `Finality` is an action property from the same invariant. Refunds
are accounted for apart: what was offered, plus what may still be offered or
refunded, is at most what was charged (`Paid`), from which `OffersNeverUnpaid`.
`DurableDelivery` is composed of specifications that have been dealt with
(`DurableParts`: each of its behaviours is one of `Outbox` and one of `AtLeastOnce`), so `IInv` is
reused as it stands. `DInv` adds that the queue has what was confirmed
(`Believed`), and with `PublishedWasConfirmed` it gives `CommittedIsOwed`: a message
leaves the outbox only when the queue owes it.

**DeliveryProofs.** `NothingIsLost` depends on what a completed row or an acking job
may rely on: that the message is done, parked, or has a live copy of a *higher*
attempt. `Kept(m, a)` says this, and the invariant has it for completed rows
(`RowsKept`), for late completions (`LateKept`) and for jobs past their
publication (`JobsKept`); `Shape` is the typing with what the holder of a copy is.
From it `NoLoss`, `TypeCorrect`, and `Refinement`: each step is one of `AtLeastOnce` or a
stutter under the mapping. `OneRunPerLease` needs that whoever relies on a lease
that has not been overrun owns the row and is alone (`SoleClaims`).

**NotificationProofs.** That a second send needs a mishap follows a notification without mishap
from claim to end (`Clean`): whoever has it in hand holds its live lease and it
has not been sent; an outcome still to be recorded is a success with exactly
one send, or a failure with none; once sent it is delivered, bounced, or its success is
in some worker's `job`; and no late update of it is a success. For an update to end
the right lease, the outcome of a claim must be in one place only
(`OnePerClaim`), claims in hands and on the wire must not be in the future
(`ClaimsCharged`), and a leased row must be open (`LeasedIsOpen`). The last
also gives `TerminalStaysFinal`: what is over has no lease to be named.
That sends never exceed the claims charged is a separate account: sends and the workers
that still hold the notification unsent are together at most `tries` (`Paid`). The two
make up `SendsAreFew`. `SentOnlyIfTaken` needs that pending successes are vouched for
by a send (`Vouched`).

**EventProofs.** EventBridge's loss account is inductive once the types are known:
`BridgeTypeCorrect`, `OnlyRecordedLosses`. The latter says that an expiry that is not in
the outbox nor on its way was lost in one of the recorded ways: an unanswered
commit, a full channel, an event that is not valid, the end of the process. NotificationRules needs what a run relies on
(`RulesInv`): a run is of an owed message (`RunOfOwed`), the recipients it has
passed have their row unless it has failed (`Reached`), a processed event has
its rows or its cooldown (`DoneIsNoted`), an event in its first run has rows of rules that
this run has come to only, so it meets its own cooldown only when it is repeated
(`FirstRun`, `OwnIsRepeated`), and without a race one event of an entity is inside a
rule or has rows in its cooldown (`RecentExists`, `AtMostOneInside`). From it `NoSecondNotification`,
`OnlyCooldownMisses`, `OnlyRacesBreakCooldown` and `RulesTypeCorrect`.

**GovernanceProofs.** A request is checked when it begins and applied when it
commits. What it has checked under its own locks is still true (`ChecksHold`), because
nobody else has these rows (`LocksExclude`); a review can only see what is old
(`SeenIsOld`); the head of the chain is one transaction's (`OneAppends`); and what a
deletion has read without locks is true unless a request about the same record
crossed it (`DeletionCleared`, `PlacedExists`, `CrossingsNoted`). From `GovInv` follow
`ChainNeverForks`, `ApprovalsAreInformed`, `HoldsPreserve`, `DeletionsAreCleared`. That
overlapping requests act as if each had been checked and applied in one step
(`RequestsAreSerial`) is an argument about footprints: two requests that hold
locks at once touch different rows (`Footprint`, `Apart`), so the commit of one leaves the
whole check of the other true (`StillAllowed`), which is inductive on top of `GovInv`.
The module also proves `RunIsOfEachModule` and `EverythingTypeCorrect` for the composed
run.

**PolicyApprovalProofs.** The properties support each other; `PolicyInv` is their
conjunction with what open transactions rely on (`Prepared`), their exclusion
(`OneTransaction`), the state of a workflow under way (`UnderWay`) and the rows
(`RowsFit`). A submission finds no workflow under way, so until it commits nobody decides
and nobody publishes; only the current version may have changed meanwhile. From it
`HistoryStaysLinear`, `ReleasesAreApproved`, `StatusesStayAgreed`, and the action property
`OnlyStaleEditsDo`: a policy that is no draft is edited or deleted only by requests with an
old reading of it, and no step takes a released version back, decides a workflow again,
or removes an answer.

**AdministratorsProofs.** One transaction at a time has the organization's lock
(`OneLock`); what passes meanwhile is time, reactivations and accounts being created
(`OneCreates`), and these leave true what it has checked (`GrantsChecksHold`). The
administrator whom an open transaction counts on (`Spares`) has an assignment that is
permanent and in no enabled rule's way, so neither time nor the others take him
away: `NeverLockedOut`. Conflicts are followed to the assignment or the rule that made
them (`ConflictsTolerated`, with the numbers of both in `NumbersGrow`):
`ConflictsAreExplained`. `AdminInv` adds that accounts that do not exist and roles that are
not given hold nothing (`AbsentHasNothing`, `UngrantedIsEmpty`, `FixedRolesLive`), from
which `AssignmentsAreOfRoles` and `ReviewsRevokeWhatTheySaw`.

*Only model-checked*: liveness (`EveryLeaseEnds`, `EveryMessageSettles`,
`EveryMessageEnds`, `EveryNotificationEnds`, `EveryOverdueIsAnswered`,
`EveryEventIsHandled`, `EveryDeadlineInReachIsQueued`), which is beyond TLAPS here. Every
invariant and every action property of a passing run, and the refinement
`KeepsPromise`, is a theorem.

## Divergences between code and documentation

1. **At most one replica** (`lease_overlap`). The package comment of
   `coordination/lease.go` promises it, without a proviso about time. `Run` starts the
   work when TryAcquire answers and does not compare `ExpiresAt` with the clock, so
   an answer that arrives after `leased_until` starts work beside another replica that
   has acquired the lease since; the first one stops when its first renewal is refused.
   That any overlap needs a replica that is late is `OverlapOnlyIfLate`.
2. **Edits are for drafts only** (`policy_edited`). `Update` refuses others with "editable
   only in draft" (`policy_service.go:110`), and `AssignOwner` is to work "without making
   published content mutable" (lines 123-124). Both read the policy in one statement and
   write every field back in another that asks for no status and no version, so an edit
   that began on the draft rewrites the policy after its publication. That nothing
   else does is `OnlyStaleEditsRewrite`.
3. **The dead queue retains failures** (`delivery_dead`). While the dead worker's
   inbox lease is up, each redelivery is refused and counted, so one crash can
   send a message to the dead queue whose handler never failed. `CrashOnlySpec`
   restricts behaviours to crashes only, with no lease lapsing first, as the
   default backoff and lease lengths do.
4. **Exhausted means dead** (`notify_stranded`). Migration 000044 calls `dead_at`
   the terminal retry exhaustion timestamp. The claim charges `retry_count` and asks
   for `retry_count < max_retries`, while only a recorded failure sets `dead_at`: a
   worker lost in the last attempt leaves a row that nothing selects again.
   `EveryNotificationEnds` therefore has the exception `Stranded`.
5. **A pending exception prevents deletion** (`governance_pending`).
   `docs/data-lifecycle-governance.md:35-43` says so. The trigger looks at the state of
   the assignment, and a review (`ReviewDisposition`) takes an assignment in state
   *exception* and replaces that state whatever exceptions await their decision; an
   approval then clears the record.

Two more observations are built into the models. A policy request can be
overtaken between the service's check and the repository's transaction:
`StatusesAgree` excuses it by `overtook`. And
`assignSCIMViewerRole` consults `effective_user_roles` while the account is still
inactive (`scim_user_access.go:44-63`), so the assignments it looks for are not in force.

## What is not modelled

* *Whole components*: see the inventory. The workflow engine, which nothing
  constructs; policy evaluation, sessions and MFA, the in-memory deduplicator, rate
  limiting and cache; evidence, exception, incident and data-subject status machines,
  each transition of which is one transaction on one row; storage, e-mail, CRUD, API,
  frontend, schema and deployment.
* *Worker*: `systemJob`, a queue job that needs the lease of a task. It composes
  SchedulerLease with Delivery, whose product is too large for a run; it is a
  hazard without a property, as is an inactive channel that holds up a batch of
  escalations, which `EveryOverdueIsAnswered` excuses.
* *Notifications*: which rules match, whom they address, preferences and templates.
* *Governance*: VerifyEventChain (it recomputes hashes), schedules, the policy's own changes,
  descriptions of holds, custodians.
* *Administrators*: creation and cloning of roles, grants on objects, transfer of
  ownership, groups, invitations, imports, a second campaign.
* *PolicyApproval*: who may decide a step, periodic reviews, policy exceptions,
  campaigns, texts and deadlines of attestations, a second policy.

## Plan

Done so far: the delivery chain from a lease or a request to a notification, the three
kinds of governed records, and the proofs above. Next:

1. A refinement of SchedulerLease to an abstract lock, and of Administrators to
   changes made at once, as far as its clock allows.
2. `SessionRotation` (refresh tokens, one successor each) and the in-memory
   deduplicator as a second implementation of the inbox.
3. System jobs: SchedulerLease with `AtLeastOnce` in place of Delivery.
4. `EvidenceObjects`, `RateLimit`, and the status machines of incidents, exceptions and
   data-subject requests.
