# One Mail: models and proofs

One Mail collects the mail of temporary addresses and of external accounts
(Gmail, Outlook, IMAP, POP3) in Cloudflare D1 databases, serves it from a
Cloudflare Worker, and lets a Python agent next to it, the *aggregator*, do
what the Worker cannot: fetch, send and change mail at the providers. This
directory holds TLA+ models of the parts of it that several actors change at
once, TLC runs on small instances, and TLAPS proofs for every instance. Paths
below are relative to the repository's `src/`.

## 1. The system

| Part | State | Operations | With whom, how |
|---|---|---|---|
| Mutation queue, `worker/src/unified/mutation_jobs.ts`, `mutation_claim_legacy.ts` | `mail_mutation_jobs`, the visible columns of `emails` | read/star/move/delete requests; claim (v1, v2); result; prune; purge of an account | browser tabs and agents over HTTP; D1 statements and batches, awaits between them |
| Provider writeback, `aggregator/.../mutation_jobs.py` | none of its own; the mailbox at the provider | IMAP and Graph execution, recovery of an earlier attempt | claims and reports to the queue |
| Send queueing, `worker/src/mails_api/send_mail_api.ts` | `gmail_reroute_idempotency`, `outbound_mail_jobs` | reserve a key, look up, insert, complete, release | callers of the API, who repeat requests |
| Outbound delivery, `worker/src/unified/outbound_jobs.ts`, `aggregator/.../outbound_jobs.py`, `smtp_sender.py`, `oauth_sender.py` | the same job rows; the agent's batch; the provider's Sent folder | claim, send, reconcile, report, retry | Worker, one agent process, SMTP or HTTP provider |
| Fleet registry, `worker/src/fleet/` | one Durable Object: revision, configuration, mailboxes, routes, usage, metric series, budgets, receipts | configure, import, metrics, allocate, confirm, tombstone, read, plan | operators, the metrics collector, the allocator |
| Send reservations, `send_mail_limit_utils.ts`, `send_balance.ts` | reservations, balances | reserve, dispatch, settle, expire, resolve an unknown outcome | callers, scheduler, administrators |
| Mail sync, `aggregator/.../sync.py`, `state.py`, `idle_worker.py` | watermarks, seen sets, IDLE threads | fetch, upload, advance | providers; ingest endpoint |
| Ingest and store, `worker/src/unified/ingest.ts`, `unified_store.ts`, `folders.ts` | `emails`, folders | register and write attachments, idempotent insert, release, identity refresh | sync, Email Routing, GC, mutation queue |
| OAuth tokens, `aggregator/.../token_store.py` | rotating refresh tokens | redeem, rotate, write back | threads of the agent, provider, Worker |
| Quota, `core/d1_quota*.ts`, `aggregator/.../d1_quota.py` | counters, a floor, snapshots in KV | add a delta, publish | all writers |
| Attachment GC and retention, `unified/retention.ts`, `attachments.ts`, `storage_server.py` | `attachment_gc`, objects on the aggregator's disk | queue, lease, delete; delete old read mails | saves that write the same objects again, deletions, overlapping runs |
| Mirror jobs, `unified/mirror_jobs.ts` | `mirror_pending`, `unified_mirror_jobs` | enqueue, reconcile, lease, attempt, back off | the email event, the scheduler, the store |
| Scheduler, `scheduled.ts`; backup | a lock with owner and TTL | cleanup, backup run | cron |
| Federation, accounts, admin API, inbound mail, Telegram, proxies, frontend | mostly none, or one statement per operation | | |

`PROJECT.json` lists every part with its sources and says which are modelled.

What makes the modelled parts hard, and the property that answers it:

* **Every await is an interleaving point.** D1 has no transaction over several
  awaits: a handler reads, awaits, and writes on what it read. The models make
  each statement, or batch, an action and keep what the handler remembers in a
  record of the call.
* **Leases.** An agent may die, or report after its lease was given away
  (`StaleReportChangesNothing`, `SettledNeverResent`), and what it did at the
  provider is then unknown (`AttemptedLocationKept`, `ResentOnlyInDoubt`).
* **Order.** The user's intents on a message must reach the provider in order
  (`OrderingBarrier`), a newer one may replace an older one without any getting
  lost (`NoIntentLost`), the newest one owns what the mailbox shows
  (`NewestIntentShown`), and a move renames the message under the jobs that
  follow (`MoveReidentifiesOpenJobs`). `ImplementsLog` says all of it at once
  about an abstract log of intents.
* **Repeats.** A key must stand for one mail (`KeyAnswersOnce`,
  `AnsweredKeySendsNothing`, `KeySendsOnce`), a registry command must apply once
  though receipts expire (`AppliedOnce`), and a mailbox must not get a second
  home (`OneOwnerTold`).
* **Books that several hands keep.** Counters kept by triggers, limits and a
  balance, beside calls that die, a scheduler that expires reservations and
  operators who give verdicts (`CountersExact`, `QuotaHolds`, `NoFreeMail`,
  `OkMeansAccepted`).
* **Watermarks.** What is below the mark is never fetched again, and the mark is
  written by overlapping rounds that may end anywhere (`PassedOnlyBelowLarge`,
  `SeenIsHandled`).
* **Two stores without a transaction.** Rows name objects on another machine,
  and a collector deletes the objects that no row names, while rows come and go
  (`AttachmentsKept`, `NoOrphan`, `MirrorOwed`).
* **Decisions on data about something else.** Reconciliation may find another
  mail (`SucceededMeansDelivered`), samples describe replaced hardware
  (`SamplesMeasureCurrent`), budgets of siblings are counted late
  (`PlacementFits`).
* **Reaching an end** (`EveryMailSettled`, `UnfinishedKeyResolves`,
  `ReservationsSettle`, `CatchesUp`, `Mirrored`, `Collected`).

## 2. The modules

| Module | Models | Lines | Proofs |
|---|---|---|---|
| `IntentLog` | abstract: the log of intents that users are promised | 97 | |
| `MutationQueue` | requests, claims and results between Worker, users and agents | 758 | `MutationQueue_proofs`, `MutationLog_proofs` |
| `SendIdempotency` | the queueing of a mail under an idempotency key | 338 | `SendIdempotency_proofs` |
| `SendReservation` | sending from the service's own addresses: limits, balance, unknown outcomes | 510 | `SendReservation_proofs` |
| `OutboundDelivery` | sending the queued mails: Worker, agent, network, provider | 403 | `OutboundDelivery_proofs` |
| `FleetRegistry` | the Durable Object and its placement | 353 | `FleetRegistry_proofs` |
| `MailSync` | an account's INBOX copied by poll and IDLE workers | 436 | `MailSync_proofs` |
| `MailStore` | mails with attachments: saving, mirror queue, deletion, collection | 553 | `MailStore_proofs` |
| `MC...` | instances for TLC | | |

`SendIdempotency` and `OutboundDelivery` meet in the rows of
`outbound_mail_jobs`: the first inserts them (its `Settle` stands for the
second), the second starts from a row (its `Enqueue` stands for the first).
`MailSync` and `MailStore` meet in ingest: in the first an upload is one step
with an idempotent INSERT, the second is about what that step does to objects
and rows (its `Send` stands for an upload of the first, repeated at will).
The definitions marked "Faulty variant" are what a plausible slip would make
of the definition that follows; nothing uses them, they document which slip
each property notices. History variables (`answered`, `done`, `told`, `doubt`,
`accepted`, `debited`, `credits`, `spent`, `unapplied`, `skipped`, `deleted`,
and the field `series.on`) record what the code has no memory of.

### MutationQueue and IntentLog

`emails` and `jobs` are the tables; `req`, `claim` and `report` are handlers
between two awaits.

| Action | Code |
|---|---|
| `Load`, `NativeWrite` | `loadMutableEmail` with the checks after it; `updateNativeState` and the native delete |
| `InsertJob`, `SupersedeOlder`, `ProjectDesired` | the three awaits of `queueExternalMutation` |
| `ClaimRecover`, `ClaimSelect`, `ClaimLease` | `claimMutationJobs` / `claimLegacyMutationJobs`: recovery and collapse in one batch, the SELECT, the leasing batch |
| `ReportRead`, `ReportOrder` | the fenced read, then `newerIntentExists` and `Date.now()` |
| `ReportSuperseded` ... `ReportApplied`, `ReportRejected` | the write batches of `reportMutationResult` by verdict and operation, each under its fence |
| `Prune`, `PurgeAccount` | `pruneTerminalJobs`; `/shard/accounts/purge` |

The agent is open: any token may claim at any time and any verdict may be
reported under any token, so nothing is assumed of the Python side. A toggle
may ask for both values. Which of too many candidates a LIMIT keeps is left
open. Pruning may take a terminal row of any age. The SELECT that forms the
claim's answer changes nothing and is part of `ClaimLease`.

`IntentLog` says what the queue is for, without requests, tokens, leases,
attempts or clocks. `MutationQueue` maps its table to it: a row without attempts
is `asked`, an attempted one `tried`, a superseded one `dropped`, any other
terminal one `closed`; move and delete are one kind, `location`; a pruned row is
`forgotten`; the messages alive are the rows of `emails`. `Log!Spec` is the
property `ImplementsLog`: recovery, repeated claims, retries, and the stale
reports are stutters, and no step of the queue does anything to the log that
`IntentLog` does not allow.

### SendIdempotency

`held` is the key table, `rows` the jobs, `call` the calls between two awaits.
`Start` and `Reserve` begin a call after validation (input to the model);
`Lookup`, `FindExisting`, `InsertJob`, `FindWinner`, `Complete` and `Release`
are the awaits of `enqueueExternalSend`; `Die` is the eviction of an isolate.
`Failures` names the statements that may raise an error, with or without having
had their effect. `PruneJob` and `PruneKey` are the 30-day prunes; they do not
fall into a call on the same body or key, which lasts seconds.

### SendReservation

`rows` are the reservations, `count` the counters that triggers keep in
`settings`, `balance` the sender's, `call` and `op` the calls of `sendMail` and
of the operators' verdict between two awaits.

| Action | Code |
|---|---|
| `Begin`, `Sweep`, `LookUp`, `Clear`, `Insert`, `Collide` | `reserveSendMailLimit`: expired reservations go first, then the key, then the INSERT whose trigger enforces the limits |
| `Debit`, `MarkBalanceReserved`, `NoChannel` | the balance, and the refusal when no channel is left |
| `MarkDispatchStarted`, `Dispatch`, `MarkDispatchSucceeded`, `Commit` | around the provider's call; its outcome may be unknown |
| `ReleaseOwn`, `RefundOwn` | the failure path |
| `Resolve`, `ConfirmSent`, `ConfirmRejected`, `RefundResolved` | the operator's verdict on an unknown outcome |
| `Promote`, `ReleaseExpired`, `Purge`, `NextDay` | the scheduler, and time |
| `Die` | a call ends between two awaits, or a D1 error that nothing catches ends it |

Time is the day. Two assumptions replace finer clocks: a reservation's fifteen
minutes (`send_mail_limit_utils.ts:127`) outlive the call that made it
(`Overdue`), and an operator who says "rejected" or "sent" has looked at the
provider (`Knows`). Configured limits do not change during a run, an address is
not deleted, the sendbox copy and the wording of failures are left out, and the
batches of 100 that the scheduler works in are taken as a whole.

### OutboundDelivery

`claim` and `report` are requests on their way or being handled, `agent` the
one outbound drain, `copies` what the provider delivered, `filed` what its Sent
folder shows. A claim goes out twice at most with one token
(`call_with_transport_retry`), a report once. Time is reduced to facts: a lease
is live or not, a job is due or not, and a claim holds the jobs that were due
when it read the clock; clock skew does not arise because only the Worker's
clock is used. `Faults` names what may go wrong (crash, loss, timeout, a lease
that lapses in use), `MaxFaults` how often. OAuth senders have the same outcomes
as SMTP. A third copy and an attempt above `MaxAttempts + 1` are not told apart
from the second and the first above.

### FleetRegistry

One action is the arrival of one command that succeeds: the handler runs in one
storage transaction; a failure rolls back, and a key with a receipt is answered
from it without a write, so neither changes the state. `Accept` is the frame
(receipt, revision, pruning, receipt count) of `Configure`, `Metrics`, `Import`,
`Allocate`, `Confirm` and `Tombstone`. Abstracted: the fleet mode only forbids
commands; audit entries and reservation records are written and never read for
a decision; `operation_count` is the number of receipts; the three daily budgets
are one resource and each allocation demands one unit of it and one byte; the
relation of a report to the last accepted one (same five-minute bucket, next,
gap, regression, invalid) is part of the report; which accounts have a sample
fresh enough is chosen at each placement; ties are broken arbitrarily; sums do
not overflow.

### MailSync

`mark`, `known`, `seen` and `pinned` are the account's part of the state file,
`rows` what ingest stored, `sync` the rounds of the poll and of IDLE workers: a
worker that was told to stop finishes the round it is in
(`idle_worker.py:434-451` with `39-43`, and each worker has a lock of its own),
so rounds overlap.

| Action | Code |
|---|---|
| `BeginPoll`, `BeginWork`, `Connect`, `Disconnect` | a round of the daemon's poll or of an IDLE worker, and the worker's connection |
| `Select`, `Window`, `Upload`, `Advance` | `sync_account` over `fetch_new_messages`, the upload and the commit of the mark |
| `List`, `Store`, `StoreNothing`, `Remember`, `Pin`, `FallBack` | `pop3_source.py` and the fallback of `sync.py` |
| `WindowFails`, `UploadFails`, `Fail`, `Crash` | any step may fail, or be the last |
| `Arrive`, `Renumber`, `ChooseImap` | the provider, and the owner who changes the protocol |

Abstracted: UIDs are consecutive from an offset and no mail is deleted at the
provider; only the INBOX; the second SELECT, what it writes to the state file and
the FETCH of the bodies are one step; each save of the state file is atomic and
the disk does not fail; backoff is left out; two mails always fit the byte budget
of a batch (30 MiB each, 64 MiB together); an upload that fails has stored a
prefix of its chunks; the seen list holds every mail of a run.

### MailStore

`raw`, `pending` and `job` are `raw_mails`, its flag and `unified_mirror_jobs`;
`row` is `emails`, `object` the object store, `gc` the table `attachment_gc`.
`saver` holds the saves under way: the email event or the aggregator's upload of
a mail, and the runs of the mirror queue (`Crons`); `drain` the overlapping runs
of the collector.

| Action | Code |
|---|---|
| `Receive`, `Send` | the email event after its INSERT into `raw_mails`; an upload |
| `Register`, `Refuse`, `Put`, `PutFails`, `InsertRow`, `Release`, `Withhold` | `saveUnifiedEmail`; `attachment_routes.ts` and `insertEmails` |
| `MarkComplete`, `Enqueue`, `Page`, `Reconcile`, `LeaseJob`, `Drop`, `Succeed`, `Retry`, `JobDue` | `mirror_jobs.ts` |
| `Delete`, `Select`, `Retire`, `RemoveRaw` | deletion with its trigger, `cleanupReadEmails`, the removal of delivered mails |
| `ListGarbage`, `LookUp`, `Keep`, `LeaseKey`, `PassOver`, `DeleteObject`, `DeleteFails`, `Close`, `Requeue`, `Finish` | `drainAttachmentGc` |
| `Break`, `Die`, `Stop` | a statement fails; an invocation or process ends |
| `Age`, `Lapse` | the grace period and the lease of the collector pass |

There is no clock. The collector compares `updated_at` for equality with what it
read or wrote; `fence[k]` is the set of runs for which that comparison holds, so
any write clears it. `Age` and `Lapse` state what the periods are there for: a
save ends within the grace of its keys, and a delete request is over when its
lease is. A mirror job's lease is `holder`, the run whose `next_attempt_at` still
stands. The lease and the SELECT before it are one step, a page of the
reconciliation is one mail, a row names all its mail's keys, requests do not land
after their caller's timeout, an ingest that answers without a row (an account
that is being moved or deleted) is `Withhold`, and batch limits are left out.

## 3. The runs

| Run | Shows | Bounds |
|---|---|---|
| `mq_flags` | `NewestIntentShown`, `NoIntentLost`, `StaleReportChangesNothing`: read/unread intents, leases that expire under their holder, prune | two requests that may overlap, three jobs, 2 tokens, two attempts |
| `mq_location` | `OrderingBarrier`, `AttemptedLocationKept`, `MoveReidentifiesOpenJobs`, and `ImplementsLog`: the queue implements `IntentLog`; flags, moves and deletes on an IMAP, Graph or native message, refusals, both endpoints, purge | one request at a time, two jobs, 2 folders, two attempts |
| `si_keys` | `KeyAnswersOnce`, `AnsweredKeySendsNothing` with deaths and reservations whose success is lost | three calls, two bodies, one key, three rows, two faults |
| `si_retry` | `UnfinishedKeyResolves` under `FairSpec` | two calls, two faults |
| `sr_calls` | `CountersExact`, `QuotaHolds`, `KeySendsOnce`, `NoFreeMail`, `OkMeansAccepted`, and `ReservationsSettle` under `FairSpec` | two calls, one key, two bodies, two days of one month, daily limit 1, monthly limit 2, balance 1, one fault |
| `sr_refund` | **violated**: `UnappliedMeansUncredited` | one call, one operator |
| `ob_lease` | `SucceededMeansDelivered`, `SettledNeverResent` | two jobs in a batch, the subject of the first containing that of the second, three tokens, one fault |
| `ob_settle` | `EveryMailSettled` under `FairSpec`, `ResentOnlyInDoubt` with every kind of fault | one job, three tokens, one fault |
| `fleet` | `Servable`, `AppliedOnce`, `OneOwnerTold`, `SamplesMeasureCurrent`, `PlacementFits` | five commands, four keys, two mailboxes, three shards on two accounts, four configurations |
| `ms_sync` | `PassedOnlyBelowLarge`, `SeenIsHandled`, and `CatchesUp` under `FairSpec` | three mails, poll and one worker, batches of two, one change of UIDVALIDITY, one fault |
| `ms_oversize` | **violated**: `NothingLost` | three mails, the poll alone, one fault |
| `st_store` | `AttachmentsKept`, `NoOrphan`, `MirrorOwed`, and `Mirrored`, `Collected` under `FairSpec` | one mail, delivered with one attachment or uploaded with two, one run of the mirror queue beside the event, one of the collector, two faults |

Every passing run of a module also checks its type invariant, once per module.

**Why the bounds are enough.** In the queues a wrong outcome needs two intents,
or one intent and its lease lost and taken again: two tokens, two attempts and
a lease of one tick give that, and a third job in `mq_flags` gives the case of
an intent both superseding and superseded. Two clients in `mq_flags` insert in
one order and write the visible flag in the other; the third intent may be a
request of either. Two subjects of which one
contains the other (`Contained`) are what `ob_lease` needs for a search that
finds another job's mail. Runs of the queue take tokens, folders and clients as
symmetric; they only carry safety properties. One fault at a time, at every
possible point, covers the lost, repeated and late requests of `OutboundDelivery`. The fleet
run's five commands are enough to configure, qualify an account, allocate, and
then change or delete; a qualifying count of one and a retention of no time bring
expiry and eligibility within reach. Its four configurations move, drop and
shrink. In `sr_calls` two calls share a key, a day's last place and the last unit
of the balance, and the second day shares the month; a refund is counted up to
`MaxCredits = 2`, where a second one shows. In `ms_sync` three mails and batches
of two give a window with a rest, with each of the three kinds anywhere in it;
what needs more mails than that (the seen list of 2000) is listed below. In
`st_store` an object is wrong only through its own mail's saves and the
collector, so one mail will do; the event and a run of the mirror queue are two
savers of the same keys, two attachments give a key that is registered while
another is written, and two faults give a save that dies and a retry that fails.
Its safety properties were also checked with two runs of the mirror queue and
with two of the collector, and are proved for any number.

`CHECK_DEADLOCK FALSE` is set where the model, not the system, comes to an end:
in `si_keys`, where a call that would insert one row more than `MaxJobs` stays
where it is; in `fleet`, where nothing is accepted at `MaxEpoch`; in `sr_calls`
and `sr_refund`, where every call has been made and the last day is reached; in
`ms_oversize` and `ms_sync`, whose mailbox is finite; and in `st_store`, where a
delivered mail that is in the inbox, or gone, needs nothing more.

**Assumed in `ob_lease`.** `"lapse"` is not among its faults: a lease outlives
its batch. The code does not ensure that: a lease lasts one minute
(`outbound_jobs.ts:7`) and a batch has up to twenty mails
(`outbound_jobs.py:37`), each with timeouts of its own. When a lease runs out
while the agent works, the report of a mail it did send is refused, another
claim frees the job and the mail is sent again, and `SettledNeverResent` is
false. The run shows what holds in batches that are fast enough; `ob_settle` has
lapses, and there `ResentOnlyInDoubt` counts the jobs they hit as in doubt. What
a settled job keeps with lapses as well is proved as `SettledFinal`: its verdict,
and a mail of its own unless its outcome was in doubt.

**Fairness.** Faults are finite in every run, and no fairness is put on users,
verdicts, providers or deaths.

* `OutboundDelivery!FairSpec`: the drain is called on every tick of the agent's
  loop, handlers that are not lost answer, a request nobody awaits ends, and
  leases and delays pass on their own.
* `SendIdempotency!FairSpec`: a call that does not die takes its next await; a
  client that has no answer goes on sending its request (strong fairness, since
  others may hold the slots of `Calls` at times).
* `SendReservation!FairSpec`: a call runs on or dies, and the scheduler's
  promotion and release of expired reservations come round.
* `MailSync!FairSpec`: the daemon's loop begins rounds for ever, itself or
  through a worker, and every request of a round ends by its timeout.
* `MailStore!FairSpec`: what runs goes on; next attempts and leases come due; the
  scheduler reads each pending mail and leases each due job again and again, and
  the grace period of a queued key passes, however often others get in between
  (strong fairness: a run that is busy, or a save that claims the key, disables
  these at times, but the scheduler comes back every minute and pages through all
  rows in order).

### What the violated runs show

* `ms_oversize`: while it chooses its window, `fetch_new_messages` saves a mark
  as high as an oversize mail's UID (`imap_base.py:137`), before the smaller UIDs
  it has picked are uploaded. If the FETCH of their bodies or the upload fails,
  they are never fetched again, against `sync.py:130` and the test at
  `tests/test_sync.py:667`, whose window has no such mail.
* `sr_refund`: the second statement of `refundResolvedSendMailBalance` binds the
  address id where the query asks for the address's name
  (`send_mail_limit_utils.ts:376`), so the row is not marked as refunded although
  the balance was credited by the first. The operator reads that the refund was
  not applied (`admin_api/send_mail.ts:285`), says "rejected" again, and the
  balance is credited again.

### Other disagreements, without a run

Found while modelling. Each one is either allowed by the model or excluded by a
condition that the text above names.

* *Late result.* `reportMutationResult` asks for newer intents in one await
  (`mutation_jobs.ts:616`) and writes the visible flag in a later batch that is
  fenced on its own job only (759-771). A request in between is overwritten,
  against the comment at line 756. `NewestIntentShown` allows this step by name
  (`LateResult`) and nothing beyond it: the newer intent is then not handed out
  yet, and when it succeeds it is shown again.
* *Late request.* Two requests on a message insert their jobs (198-225) and write
  the visible flag in an await of their own (240), so that the older one may write
  last: the mailbox then shows the older intent, against "the visible row must
  follow the user" at line 232. `NewestIntentShown` allows this step by name
  (`LateRequest`). It may even come after the newer intent has succeeded.
* *Refused intents stay shown.* A flag intent that ends "failed" is not rolled
  back, by design (235-236), so the mailbox may then show what the provider does
  not have. `NewestIntentShown` is about what the user sees of the newest intent,
  not about what the provider has.
* *Identity race.* A request stores in its job (198-225) the identity of a row
  read awaits before. A move recorded in between has already rewritten the open
  jobs (702-721), and the late job is handed out with the old identity, against
  the comment at line 463. `MoveReidentifiesOpenJobs` is about the jobs that are
  there when the move is recorded.
* *Key handed back.* The call that owns a key releases it when its INSERT fails
  (`send_mail_api.ts:911`), while a second call of the same request goes on under
  it. Another body is then accepted under the key, against line 943 and
  `send_mail_limit_utils.ts:424`. The theorems on keys have this condition.
* *Double send.* A search of the Sent folder that fails, or does not find the mail
  yet, is reported as retry (`smtp_sender.py:361`) and the next attempt sends
  again, against the comment at `outbound_jobs.ts:99`.
* *Refund of a failed call.* The failure path releases and refunds without marking
  the row (`send_mail_api.ts:423`), so that a later "rejected" refunds again
  (`admin_api/send_mail.ts:328`). `NoFreeMail` is about mails the provider has.
* *UIDVALIDITY.* After a change one window starts at zero (`imap_base.py:90-95`),
  which is what `tests/test_imap_base.py:112` looks at. But the stored mark is not
  lowered, and it only rises: the next round finds the new value known and
  searches above the old mark again, so that mails with smaller new UIDs that were
  not in that one window are never fetched. Source keys carry the value of the
  first SELECT (`sync.py:110`), so a change between the two SELECTs stores mails
  under a key of the old value. The properties of the mark are therefore about the
  time before a change, and `CatchesUp` counts a mail below the mark as passed.
* *POP3.* The seen list drops its oldest at 2000 (`state.py:11`, 128): in a
  mailbox of more than 2000 mails and a batch the oldest are fetched again for ever
  and the newest starve. A fallback that stores mails and fails before it is
  pinned (`sync.py:252`) lets the next round store them again under IMAP keys;
  the model has that round, but `PassedOnlyBelowLarge` and `SeenIsHandled` do not
  see the duplicate rows. A batch in which no mail can be parsed is fetched again
  for ever, which is why
  `CatchesUp` asks for fewer bad mails than a batch.
* *Expunged in between.* A mail that goes between the FETCH of its size and of its
  body yields an empty row. Not modelled: no mail is deleted at the provider.
* *Back after deletion.* The reconciliation does not look at `mirror_pending`
  again (`mirror_jobs.ts:75`) and a deletion cancels no job, so a mail whose row
  its owner deleted may be mirrored again. The model has these behaviours;
  `MirrorOwed` and `Mirrored` take the row's deletion as an end.
* *Late requests.* A request to the object store is given up after 90 s, a
  deletion after 10 s (`storage_client.ts:3`), and the row of a failed deletion may
  be queued again at once: a deletion that lands after its caller's timeout would
  meet a key that a save has registered since. The model excludes it.
* *Grace.* The sixty minutes of a key count from its own upload, while the rows of
  a chunk of fifteen mails are inserted after all their uploads
  (`uploader.py:101-190`), with retries; `Age` assumes that a save is faster.
* *Shared object store.* The collector looks for references in its own database
  only; with several databases on one store (`docs/d1-dynamic-fleet.md:189`) keys
  must not be shared between them.
* *No bound.* Jobs whose leases are lost again and again are handed out without a
  bound (`mutation_jobs.ts:457`, `outbound_jobs.ts:49`).
* *Another's mail.* Sent-folder reconciliation takes any mail in the window whose
  subject contains this one's for this mail (`smtp_sender.py:329`; the comment at
  line 325 says "exact subject match"). A job in doubt that was not sent is then
  settled as succeeded: `ob_lease` has this case, and `SucceededMeansDelivered`
  says how far it goes.
* *Reconciliation that ends the job.* The docstrings say that an ambiguous outcome
  stays unknown for a retry. But a mailbox without a Sent folder raises
  `OutboundUnsupported` (`smtp_sender.py:264`), and a refused login or token an
  error of its own; neither is caught as a `ReconcileError`, so that a mail that
  may have been delivered ends as "unsupported" or "failed". `Reconcile` has both.

## 4. The proofs

All theorems hold for every value of the constants that satisfies the module's
`ConstantsAssumption`, and `TLC` evaluates these assumptions in the runs.

**`MutationQueue_proofs`**: `TypeCorrect`, `OrderedExecution` (`OrderingBarrier`),
`PicksStayOldest` and `StaleReportsAreRefused` (`StaleReportChangesNothing`).
`OrderingBarrier` is not inductive: that a job is leased in order depends on the
picks made at the SELECT, awaits before. The inductive invariant is
`TypeOK /\ Barrier`, where `Barrier` adds that picks are still the oldest when
their lease batch runs and that handlers know inserted rows only. Only
`ClaimLease` raises an attempt count, and only for picked jobs; terminal rows
stay terminal; new rows are younger than all picks. Every other step "settles"
(lemma `StepSettles`): it raises no count, changes no verdict that is final nor
what a row asks for, and inserts only at the end.

**`MutationLog_proofs`**: `QueueImplementsLog` (`ImplementsLog`), that is
`Spec => Log!Spec`, with `AttemptedLocationStands` and `IntentsAreKept`
(`NoIntentLost`). Every action of the queue has a lemma that says which step of
the log it is, or that it is a stutter; a step that does two things to the log in
one batch (an outcome that also deletes the message) is one action of `IntentLog`.
The difficulty is supersession: requests supersede in an await of their own, by
an id that may itself have been superseded meanwhile, and a report acts on a check
for newer intents made an await earlier. Both are right because an intent that is
replaced always leaves an heir, a newer one of its kind that still stands
(`HeirStands`, `HeirKnown`); the invariant `QueueInv` adds these
two to `Barrier`, with what requests, claims and reports in flight still know of
the rows they read.

Two more results rest on the same invariant. `MovesReidentify`
(`MoveReidentifiesOpenJobs`): the batch that records a move settles the job that
moved the message and rewrites its other open jobs.
`NewestIntentOwnsFlag` (`NewestIntentShown`) has no condition: requests may
overlap. The step that records a success writes the flag in the same batch unless
a newer intent of the kind was there when it looked, and a job that is the newest
has none. What remains is to name every step that could hide the newest intent. A
request writes the flag its own row asks for (`RequestsOwn`), so only one with an
older row can; a native write is on messages without jobs (`ProviderJobs`); a
result of an older intent writes only if its report saw no newer one, and it
still holds its lease, so by `Barrier` no younger job of the message has been
handed out. Nothing is said of what the provider has when the newest intent
failed.

**`OutboundDelivery_proofs`**: `TypeCorrect`, `ResentInDoubt`
(`ResentOnlyInDoubt`), `SettledOnce` (`SettledNeverResent`), `SettledFinal`,
`SuccessHasMail` (`SucceededMeansDelivered`) and `SuccessDelivered`, for any
number of jobs, tokens, attempts and faults. There are three invariants.

* `HoldInv`: what the agent has yet to send is under a live lease of its token
  (`BatchHeld`), an answer that the agent may still take up lists only such jobs
  (`AnswerHeld`), and a result under the token of the current batch is of a job
  the agent has done with (`ReportsDone`). So no report settles what the agent is
  about to send. Jobs that a lapse hit (`Exempt`) are outside of this, hence the
  condition `"lapse" \notin Faults` of `SettledOnce`: after a lapse, a late claim
  request with an older token may lease the job again, and the late report under
  that token then settles it while the agent has it in hand. `SettledFinal` is
  what holds under every fault: the verdict stays, and only a job in doubt is sent
  again.
* `DoubtInv`: a job whose outcome nobody doubts has at most one result on its way
  (`OneReport`), the agent waits for it (`ReportAwaited`) and the row is still
  held for it, so it will be accepted (`ReportHeld`). Therefore the row and the
  agent's position account for every mail that was sent (`MailAccounted`), and a
  job back in the queue that is not in doubt was not sent.
* `MailInv`: what the agent found in the Sent folder was delivered to somebody
  (`FiledDelivered`), and the job of a result "succeeded", on its way or in the
  row, was delivered, or is in doubt and a mail that the search for its subject
  finds was delivered (`ReportedMailed`, `SucceededMailed`). That is
  `SuccessHasMail`, whatever the subjects; that the mail is always the job's own
  needs subjects none of which contains another (`SuccessDelivered`).

**`SendIdempotency_proofs`**: `TypeCorrect`; and under
`"insert" \notin Failures`, `KeyStandsForOneMail` (`KeyAnswersOnce`) and
`AnsweredKeysAreSpent` (`AnsweredKeySendsNothing`). The condition is needed (*Key
handed back* above). The invariant is `SendInv`: every answer is still the key's
row; a body has one row; a call under way works on the body its key was taken
for, and if the key has been filled meanwhile then with the row of that body;
calls past their lookup know that row. Without the error no key is handed back,
hence the row of a key in use keeps its body, and the unique index makes every
call of it end with the same job.

**`SendReservation_proofs`**: `TypeCorrect`, `CountersAreExact`, `QuotaIsKept`,
`OneMailToAKey`, `MailsArePaid` and `OkIsTrue`, for any number of calls, days,
limits, operators and faults. The invariant has five parts: for each reservation,
what its row, its call and the history may be at each await (`SendOK`); for each
operator, that the case in hand is closed and judged rightly (`OpsOK`); live rows
of a key are unique (`UniqueKeys`); each counter is the cardinality of what it
counts (`CountersOK`); and who was told "ok" has a mail (`TellersOK`). A counter
and its set change together or not at all; since the trigger admits an INSERT only
below the limit, `QuotaHolds` is read off the counters.

**`FleetRegistry_proofs`**: `TypeCorrect`, `AlwaysServable` (`Servable`),
`OneOwner` (`OneOwnerTold`), `OnceApplied` (`AppliedOnce`) and `CurrentSamples`
(`SamplesMeasureCurrent`). The invariant `Inv` adds to the types: the mailbox
count is the cardinality of the mailboxes it counts (`CountMatches`; those
imported while being deleted stay counted as long as their route is published,
because a tombstone for them returns early), it fits the configuration
(`CountFits`), the owner of every record is a used and configured shard
(`OwnersUsed`), and routes and answers name the owner on record (`RoutesOwned`,
`ToldOwned`). Uses are never given back and a configuration keeps used shards,
so owners stay configured; published routes are among the counted mailboxes, so
they fit. `AppliedOnce` follows from the revision that each applied command
names; `SamplesMeasureCurrent` from the configuration that drops the series of
every account whose databases changed.

`PlacementsFit` (`PlacementFits`) needs an invariant of its own, `BudgetInv`: the
mailboxes ever allocated on the shards of an account are no more than the
account's budget (`BudgetCovers`). Each allocation adds one to both; deletions
and failed allocations give nothing back; and a configuration can take no shard
that was used to another account, so the set that the budget covers never grows
in another way. The use that a candidate is checked with (`Used`) is at least the
budget and the unit to be taken, and samples only add to it: so the check bounds
the allocations however old the samples are.

**`MailSync_proofs`**: `TypeCorrect`, `MarkPassesHandled` (`PassedOnlyBelowLarge`)
and `SeenMeansHandled` (`SeenIsHandled`), for any number of mails, workers and
faults. For IMAP (`ImapInv`) the state file never knows a later epoch than the
server's; while the first epoch lasts, the mark is a UID that exists, every mail
below it is excused, IMAP keys are UIDs, and each round (`RoundOK`) carries only
mails such that whatever is below the largest of them is excused or among them:
so each round may raise the mark on its own, in any order with others. For POP3
(`PopInv`) a round that stored its mails may remember them.

**`MailStore_proofs`**: `TypeCorrect`, `ObjectsKept` (`AttachmentsKept`),
`NothingOrphaned` (`NoOrphan`) and `MirrorsOwed` (`MirrorOwed`), for any mails,
attachments, overlapping saves and collectors, and faults. `StoreInv` speaks of
one key, one save or one collector at a time. A key that a save claims is known
to no collector, its queue row is fresh (or gone, with the mail's row there), and
its object is written unless it is the one being written (`SaverOK`). What a
collector looked up about a key is so as long as its fence holds, a key it leases
is fenced by it alone, and a key it has removed has no object while the fence
holds (`DrainOK`). A row's objects are there and not leased (`KeyOK`). So a lease
can only be taken on a key that no row names and no save claims, and none of the
two can change before the lease is closed. `OwedOK` is `MirrorOwed` with what
makes it inductive: pending mails and jobs are of mails that came.

**Model-checked only**: the liveness properties (`UnfinishedKeyResolves`,
`ReservationsSettle`, `EveryMailSettled`, `CatchesUp`, `Mirrored`, `Collected`),
since fairness is beyond the prover. Every other property of the passing runs is
stated by a theorem.

## 5. Not modelled

Parts of `PROJECT.json` with the status `not_modelled`: those the plan below
names, and those that are request validation, one statement per operation,
formatting, user interface or scripts: they have no state that several actors
change over more than one step, and make up most of the lines of the repository.
Inside the modelled parts: validation of requests, authorisation, wording of
answers, the contents of mails, schema repair, the token exchange of the OAuth
senders, pruning of finished outbound rows (they are settled, and nothing refers
to them but the key table of `SendIdempotency`, where their pruning is modelled),
Graph and folders other than the INBOX in the synchronisation, identity refresh
in ingest, the purge of bodies and the lock of the retention run.

## 6. Plan

Done of the plan so far: `IntentLog` with its refinement and its proof,
`SendReservation`, `MailSync`, and `MailStore`, which covers the collection of
attachments and the mirror jobs together, since they share the save. What is left:

1. `MailWriteback`: the agent's IMAP and Graph execution with its recovery on
   `attempts > 1`, composed with `MutationQueue`; a delete or move takes effect
   at the provider at most once and on the message the user named, and a verdict
   says what happened.
2. `TokenRotation`: threads that redeem one rotating refresh token, and a
   write-back that fails; the valid token is never lost nor a spent one used.
3. `QuotaCoordinator`: deduplicated deltas, the floor and the publication.
4. The scheduler's lock and backup runs.
5. Abstract specifications with refinements, as `IntentLog` is for the queue: for
   `SendReservation` and `SendIdempotency` together (a key sends one mail and
   answers with it), and for `MailStore` (a mail is there with its attachments).
