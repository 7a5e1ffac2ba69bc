# Formal models of the note agent

TLA+ models, TLC checks and TLAPS proofs for the *xiaohongshu-viral-note-agent-skill*: a
Python service that researches, writes, approves and publishes notes on one or several
accounts, either in one process with files, or as several Pods around PostgreSQL and Redis.

Paths below are relative to `src/src/xhs_skill/` unless they start with `src/`.
`PROJECT.json` says, definition by definition, which lines of the code a definition stands
for ("map"), which runs check which property, which bugs in a definition each property
would notice ("mutants"), and which hazards of the code are covered by what.

## 1. The system

The part whose correctness is hard is the part that acts on the world: a note that was
submitted to the platform cannot be taken back. Around that act the code has several
protocols, each with its own durable state, and all of them are run by asyncio tasks in
processes that may die at any await.

| Component | State it keeps | Operations | What must be right |
|---|---|---|---|
| Distributed publish state machine (`publishing/distributed.py`, `enterprise/postgres.py`) | rows of `enterprise_publish_state`: state, lease owner/token/expiry, cancellation epoch, version | schedule, cancel, claim due rows, start, heartbeat, check cancellation, prepare, mark SUBMITTING, submit, finish, reconcile | the platform is called at most once per row; a worker without the lease writes nothing; an accepted cancellation is never answered by a verdict; final states stay; no row is forgotten |
| Approvals and publication service (`publishing/service.py`, `approvals.py`, `repository.py`, `scheduler.py`) | approval and result files, asyncio tasks of the local scheduler, the account lock | approve, publish, schedule, cancel_schedule, execution of a local schedule | a one-time approval pays for one submission; the daily limit; an approval is bound to the row that exists |
| Browser page, login and publisher (`browser/`, `publishing/creator_studio.py`) | the session of an account, its one page, the encrypted session file | start, status, logout, restore; prepare, submit, preview, health check, syncs | what is clicked on is the draft that was asked for; no browser is left running but by a launch or a close that raises |
| Note generation and gates (`generation/service.py`, `verifiers/`, `publishing/publication_gate.py`, `orchestrator/`) | the note package and its verdict | generate, gate, edit, draft, approve, preflight | what is submitted is backed by evidence, allowed, and its own |
| Durable job queue (`jobs/distributed.py`, `service.py`, `repository.py`, `dlq.py`) | job records and cancel keys in Redis, a stream with a consumer group, a dead-letter stream | submit, cancel, read, claim stale entries, execute, retry, fail, bury, replay | no job is lost; a cancelled job is not completed; every job ends |
| Single-process jobs and their events (`jobs/service.py`, `streaming/broker.py`) | an asyncio queue, running tasks, per-job logs | submit, execute, cancel, shut down; publish, follow, clean up | a promised cancellation happens; a follower sees the end |
| Transactional outbox (`enterprise/outbox.py`, `enterprise/postgres.py`) | rows of `enterprise_outbox` and `enterprise_dead_letters` | transition with event, claim, complete, fail, replay | one event per transition; nothing waits out of reach; every event settles |
| Post-publish metric sync (`operations/post_publish.py`, `repository.py`) | sync tasks with a lease, in PostgreSQL or SQLite | enqueue, claim, finish, retry | finished tasks stay finished; attempts are bounded; nothing stays RUNNING |
| Search and its caches (`research/service.py`, `search/`, `core/cache.py`) | the provider registry, remembered quality, a process and a Redis cache, calls in flight | search, host results, collapse of identical searches | one caller's results stay with it; nobody waits for ever |
| Back-pressure (`api/middleware.py`, `core/concurrency.py`, `core/resilience.py`) | counters and waiters of bulkheads, state of breakers | enter, wait, leave, evict; allow, record | a tenant keeps to its share; a breaker gets out of half-open; nested slots do not lock up |
| Cost ledger (`enterprise/quota.py`, `postgres.py`) | reservations of a tenant | reserve, settle, release, expire | the budget is exceeded only by what is settled beyond what was reserved |
| Enterprise approvals and audit (`enterprise/approvals.py`, `audit.py`, `filelock.py`) | workflows with votes; a hash chain in a file | create, decide, require; append | quorum of different people; the chain has no forks |
| Shared pool (`enterprise/postgres.py`) | a reference count and a lock per database | connect, close | no pool is closed under a store |
| Identity and provisioning (`enterprise/identity.py`, `scim.py`) | cached keys, users | verify; create, replace, patch, delete | a deactivation takes effect; a withdrawn key lapses |
| Agent interfaces (`mcp/`, `a2a/server.py`, `enterprise/policy.py`, `ux/envelope.py`) | a bounded table of tasks | call, cancel, forget; suspend a tenant | a forgotten task stops; suspension stops new work |
| Experiments, bandit, feedback (`operations/`) | experiments, assignments, arms, snapshots, retrospectives | assign, record, analyse, update, judge, plan | a subject keeps its variant; rewards survive; the newest snapshot counts |
| Assets and library (`storage/assets.py`, `operations/assets.py`) | files and rows | upload, delete, import | a recorded file is whole |
| Account analytics (`accounts/`) | analytics, profiles, weight history per Pod and in PostgreSQL | sync, report | an answered sync shows |
| Settings and processes (`core/config.py`, `cli.py`, `core/distributed_lock.py`, `api/app.py`) | settings, processes, account locks | validate, serve, probe, lock | accepted settings give locks that hold across processes |
| Ranking, text building, providers, secrets, routes | none that outlives a call | scoring, templates, HTTP | not modelled (section 6) |

How the parts meet:

* The **interfaces** call the services. `PublishingService` either publishes at once under the
  account lock, starts a local schedule (an asyncio task), or writes a row for the publish
  state machine.
* The **scheduler workers** of any Pod claim due rows, use the browser publisher, and hand a
  verified note to the **metric sync**; its snapshots feed the **feedback** loop.
* A **state transition** of a row and its **outbox** event are one SQL transaction;
  dispatchers hand the event to a handler.
* **Jobs** run handlers that call the other services; their events go to the **event
  streams** the API serves.
* Every HTTP request passes the **back-pressure** of the middleware, every generation and search
  that of its operation and provider; the generation route reserves its cost in the **ledger**.
* All stores of one process share one **pool**.

The hard behaviours, in one place: lease expiry under a worker that is still alive; replies
lost after a commit; interrupts and crashes between any two awaits; a check and the use it
protects separated by awaits; blind writes of a copy read earlier; retries added before the
predecessor is removed; cancellation made of two writes; one browser page driven by several
requests; tables that evict what is still in use. `PROJECT.json` ("hazards") lists them at
their lines, with the properties that would notice each one going wrong and, where no property
does, the reason.

## 2. Modules and plan

| Module | Models | Composed and checked by | Proofs |
|---|---|---|---|
| `PublishOnce` | the promise of a distributed publication, without leases, workers or a database | a property of `PublishState`, a part of `PublishService` | |
| `PublishState` | rows, leases, workers, cancellation, verdicts | `MCSafety`, `MCProgress`, `MCPublishState` | `PublishState_proofs` |
| `PublishService` | approvals, account lock, direct and scheduled publication, on top of what `PublishOnce` promises of rows | `MCComponents` (twice: one process, distributed), `MCPublishService` | `PublishService_proofs` |
| `AccountPage` | the session and the page of an account and everything that drives them | `MCSafety`, `MCAccountPage` | `Operations_proofs` |
| `NoteDelivery` | one note from the request to its submission | `MCComponents`, alone | `Enterprise_proofs` |
| `JobQueue` | job records, stream, workers, cancel, dead letters | `MCJobQueue`, `MCComponents` | `JobQueue_proofs` |
| `LocalJobs` | single-process jobs and the in-memory event broker | `MCProgress` | `Runtime_proofs` |
| `Outbox` | transitions with events, dispatchers, dead letters | `MCDelivery`, `MCOutbox` | `Outbox_proofs` |
| `PostPublishSync` | metric sync tasks, in PostgreSQL and in SQLite | `MCRuntime` | `PostPublishSync_proofs` |
| `SearchFlow` | searches of one process with registry, memory, two caches and single flight | `MCDelivery` | `Runtime_proofs` |
| `Backpressure` | rate limit, bulkheads and breakers on the way of a request | `MCSafety`, `MCRuntime` | `Runtime_proofs` |
| `CostLedger` | reservations against the budget of a tenant | `MCComponents` | `Enterprise_proofs` |
| `Governance` | enterprise approvals and the audit chain of several processes | `MCComponents` | `Enterprise_proofs` |
| `PoolSharing` | the connection pool the stores of a process share | `MCComponents` | `Enterprise_proofs` |
| `Identity` | tokens checked against cached keys; SCIM users | `MCComponents` | `Enterprise_proofs` |
| `Experiments`, `Bandit` | assignments and outcomes; updates of arms | `MCComponents` | `Operations_proofs` |
| `Assets` | uploads, deletions, the library | `MCComponents` | `Operations_proofs` |
| `AccountInsight` | analytics, profiles and history of two Pods | `MCComponents` | `Operations_proofs` |
| `Gateways` | tool calls through MCP and A2A | `MCComponents` | `Enterprise_proofs` |
| `Feedback` | snapshots, attribution, retrospectives, calendar, series | `MCSafety` | `Operations_proofs` |
| `Deployment` | settings, processes, readiness, the account lock | `MCSafety` | `Runtime_proofs` |

**Composition.** Components that interact are composed in the models: `PublishService` uses the
abstract rows of `PublishOnce`, which `PublishState` is shown to implement; `NoteDelivery`
follows a note through four components; `AccountPage` has the publications, the preview, the
login and the syncs of an account on one page; `Gateways` has both doors over one tool service.
Components that share no state are *summed* for the runs instead: a variable `part` says which
component a behaviour belongs to, and the others stay in their initial states (`MCSafety`,
`MCProgress`, `MCDelivery`, `MCRuntime`, `MCComponents`). A sum explores exactly the union of the
components' behaviours, never their product; where a component has a choice of initial states,
the sum fixes it in the behaviours of the others. Parts that are summed with the publication
service twice are instances (`DistributedService`, `Queue`).

**What the plan has left**: theorems about operators that other proofs could use (the plan of a
search, the shares of an experiment); the Redis event broker, whose events may be skipped by a
follower when two publishers overtake each other; SCIM groups; daily job quotas.

### Conventions

* One SQL transaction, one Redis command or script, and the code between two awaits of one
  event loop that really suspend are each one atomic step. Everything else interleaves.
* A guard of the code that a plausible bug would get wrong is an operator of its own. Right
  before it stand faulty variants of it (`ClaimableAnyState` before `Claimable`); no action
  uses them. They are what "mutants" substitutes to see that a property notices.
* Wall-clock time is abstracted. A lease is live until it lapses, which may happen at any
  moment the code does not exclude; a row may be due at any moment.
* Some promises hold only as long as a timeout of the configuration is longer than the work it
  is meant to cover, or as long as no reply is lost. The models do not assume it: the fault is
  an ordinary step, a history variable (`late`, `faults`, `lapsed`, `overtaken`, `meddled`,
  `split`, `disturbed`, `leaseless`, `expired`, `dropped`, `uncounted`, `cut`) records it, and the property says what holds as long
  as it was not recorded.
* `CHECK_DEADLOCK FALSE` is in every configuration: each of these systems may come to rest
  (all rows final, all entries acknowledged), and a bounded one also stops at its bounds.

## 3. The models and what the runs show

Six runs pass and six end in a counterexample on purpose. Of the invariants that section 5 proves for all
values of the constants, the runs keep those that a change of the code would break first.

### PublishOnce

A schedule is `open`, then either withdrawn (`closed`) or `committed`; a committed schedule
is sent at most once and then resolved. Nothing is sent for a schedule that is not
committed.

### PublishState

`row` is the table, one row per publish fingerprint (the table has a unique constraint on
it). `task[w][s]` is the call `_execute_state` of worker `w` on row `s`; its `pc` names the
next await: `claimed`, `started`, `expired`, `checkCancel`, `preparing`, `recheckCancel`,
`marking`, `submitting`, `syncing`, `finishing`, `reconciling`, and the except clauses
`cancelling`, `failing`, `reconcilingFailure`. `issued` counts lease tokens; `submits` and
`notes` are history: calls of `publisher.submit` and notes the platform has.

| Action | Code |
|---|---|
| `Schedule`, `RequestCancel` | `schedule`/`create_publish_state`, `cancel`/`request_publish_cancel` |
| `Claim` | `run_worker`, `claim_due_schedules` (a batch, `FOR UPDATE SKIP LOCKED`) |
| `Start`, `CheckApproval`, `FinishExpired`, `CheckCancel`, `Prepare`, `MarkSubmitting`, `Submit`, `EnqueueSync`, `Finish`, `FinishFailed`, `FinishCancelled`, `Reconcile` | the awaits of `_execute_state`, in order |
| `Heartbeat` | the heartbeat task, `heartbeat_publish_lease` |
| `LeaseLapse`, `CallFails`, `Interrupt`, `Crash` | time, an exception, `asyncio` cancellation, the death of the process |

Every write may commit and still raise or be interrupted (`Write`). `Submit` may raise
before or after the platform took the note.

| Run | Instance | Shows |
|---|---|---|
| `publish_safety` | 3 workers, 1 row, 3 lease tokens, 2 cancellations | one submission; a submitted row never looks unsent; no verdict after an accepted cancellation |
| `publish_progress` | 1 worker with batches of 2 rows, 2 tokens and 1 cancellation each, fair | the protocol implements `PublishOnce`; a due row leaves the states a worker must act on |
| `publish_failed` | 1 worker, 1 row | counterexample: a row can say FAILED while the note exists |

*Bounds.* Rows do not influence each other except through the batch a worker holds, so one
row with three workers covers the contests (two successive takeovers) and two rows cover the
batch. Three tokens allow a worker overtaken twice; two cancellations allow a repeated one.

*Fairness.* `Execute` is weakly fair: a call returns or raises. A lease no live execution
renews lapses in time. Claiming is strongly fair per row: `run_worker` polls in a loop, and a
row that is due again and again is claimed in the end. Nothing is assumed of cancellations,
crashes or schedules. The property excuses a row whose tokens are used up, since the bound
and not the code stops it there.

### JobQueue

`store` and `cancelKey` are the record and the cancel key; `stream` holds every entry ever
added, with a state (`new`, `pending`, `gone`, `trimmed`); `dead` counts dead letters;
`submitter` and `canceller` are the two calls of the API; `exec[x]` is `_process` in slot
`x` of some worker process, with a `pc` per await and a flag saying whether an exception is
caught. `faults` records whether an entry was ever taken from an execution that outlasted the
visibility timeout ("late") and whether the reply of a command that had its effect was ever
lost ("lost"); the constant `FaultKinds` says which of the two may happen in an instance.

| Action | Code |
|---|---|
| `Create`, `Enqueue`, `Refuse`, `SubmitFails` | `JobService.submit` and the capacity script of `enqueue` |
| `CancelLook`, `CancelKey`, `CancelWrite`, `CancelFails` | `JobService.cancel`, `request_cancel`, the script of `cancel` |
| `Deliver`, `Reclaim` | `XREADGROUP`, `_claim_stale` (`XAUTOCLAIM`) |
| `Fetch`, `Check`, `MarkRunning`, `Announce`, `Run`, `Recheck`, `Complete`, `MarkCancelled`, `MarkPending`, `Readd`, `MarkFailed`, `Bury`, `Finish` | `_process`, `_finish_message`, `complete_if_not_cancelled` |
| `CallFails`, `Crash` | an exception without effect, the death or cancellation of an execution |
| `Replay`, `DeleteDeadLetter` | `RedisDeadLetterQueue.replay`, `delete`, `purge`, and the trimming of the dead-letter stream |

| Run | Instance | Shows |
|---|---|---|
| `queue_work` | 2 jobs, 2 slots, capacity 1, 1 retry, 3 entries, 1 dropped execution, no faults, fair | no unfinished job is lost to the queue; a queued job ends and stays ended, but for a record left RUNNING |
| `components`, part "queue" | 1 job, 2 slots, 3 entries, late executions and lost replies | a cancelled job is not completed |
| `queue_replay` | 1 job, 1 slot | counterexample: a replayed dead letter is thrown away unrun |

*A record left RUNNING.* `cancel` sets the key and then writes the record. When it dies between
the two, the key alone ends the job at the worker's next look, and the worker writes the record
itself. A worker that is past its last look is refused by `complete_if_not_cancelled`, sets its
local copy to CANCELLED, publishes the event and removes the entry (`jobs/distributed.py:151-155`):
the record says RUNNING until it expires. `LeftRunning` names that state, and `EveryJobEnds`
excuses it and no other job with a cancel key. A canceller that dies is one whose next step is
never taken: no fairness is assumed of it.

*Bounds.* `MaxEntries` is the number of entries a job needs for its attempts, plus one for a
replay, a duplicate or the second job; `MaxDrops` is one death, which is what separates a
duplicate from a loss. Capacity 1 makes every second entry an excess.

*Fairness.* Each step of `_process` is weakly fair. Delivery or reclaim of an entry is
strongly fair: the worker loop reads in a loop, and looks for stale entries after every batch
and on every twelfth empty poll.

### Outbox

`version` and `expected` are the optimistic lock of `transition_publish_state`; `row` is
the outbox; `letter` the dead letter of an event; `task[w][e]` is `dispatch_one`; `handled`
and `late` are history, the latter set when the lease of an event lapses under a dispatcher
that is still at it. `ReadState` and `Transition` are a caller and its transaction (which it
may repeat after a lost reply); `Claim`, `Handle`, `Complete`, `Fail`, `CallFails`, `Crash` the
dispatcher; `Replay` is `replay_dead_letter`, which no code calls so far but the store offers.
`complete_outbox` and `fail_outbox` name the row by id only, and so do the actions.

| Run | Instance | Shows |
|---|---|---|
| `outbox_delivery` | 2 events, 2 dispatchers with batches of 2, 2 attempts, 1 replay, fair | unless its lease lapsed or its letter was replayed, no delivered event is sent again; every event is delivered, buried, or stuck on its last attempt |
| `outbox_exhausted` | 1 event, 2 dispatchers, fair | counterexample: it can be stuck there for good |

*Bounds.* Two attempts have a first, a retry and the exhaustion; two dispatchers are one that
is overtaken and one that overtakes, and a replay makes a third attempt possible. *Fairness* as
for the publish workers: handlers and transactions return or raise, an abandoned lease lapses,
the loops poll every second.

### PublishService

`approval` is the approval file of each draft, `saved` the submitted results on file, `run`
the publications under way (calls of `publish` and local schedules), `booking` the calls of
`schedule` in distributed mode, `lock` the account lock, `row`/`phase`/`sent` the rows of
the publish state machine, of which only `PublishOnce` is used. `submits` records for each
submission the approval presented and the approval consumed: these are two things in the
code, since `consume_approval` consumes whatever is on file by then. `lapsed` records that the
lock expired under its holder.

| Action | Code |
|---|---|
| `Approve` | `approve`, `save_approval` |
| `Publish`, `Enter`, `Decide`, `Submit`, `Record`, `Sync`, `Fails` | `publish`, `_publish_locked` between its awaits |
| `Book`, `Fire`, `EnterScheduled`, `Cancel` | `schedule` with the in-process scheduler, `_publish_scheduled`, `cancel_schedule` |
| `BookCheck`, `BookCreate`, `BookSave`, `BookFails` | `schedule` in distributed mode |
| `Work`, `Send`, `CancelDistributed` | the workers of the row, and its cancellation |
| `LockLapse`, `Crash` | the TTL of the Redis lock, which nothing renews; the death of the process |

Preflight, prepare and the refusals that depend on time (expiry, interval, lock timeout) are
`Fails`, at any await. Everything happens within one day, so the daily limit is the number
of submitted results on file; FAILED results do not count in the code either.

| Run | Instance | Shows |
|---|---|---|
| `components`, part "service" | 4 drafts of 3 contents, 1 caller, 1 local schedule, limit 2 | while the lock holds, no more submitted results than the limit; even when it does not, an approval pays for one submission |
| `components`, part "distributed" | 2 drafts of one content, 2 bookings, 1 caller | an approval is bound to the row that exists |
| `service_overlimit` | 2 rows, limit 1 | counterexample: rows do not look at the limit |

*Bounds.* Three contents at a limit of two, and two drafts that share a content, are the least
that can violate; a caller may publish again and again, so one of each kind of publication
covers the contests for the lock and the files.

### PostPublishSync

`taskRow` holds the task rows, `batch[w]` what loop `w` claimed and has not ended, each task with
the copy of `attempts` the claim returned, `step[w]` and `current[w]` where it is. `postgres`
is chosen at the start: PostgreSQL or SQLite. `metrics`, `claims` and `overtaken` are history.

| Action | Code |
|---|---|
| `Enqueue` | `enqueue_for_result`, `enqueue_post_publish_sync` |
| `Claim` | `run_once`, `claim_post_publish_sync` of both stores |
| `ReadMetrics`, `Save`, `Complete`, `Fail` | the body of the loop over the batch and its except clause; `finish_post_publish_sync` of both stores |
| `BecomeDue`, `LeaseLapse`, `SyncCrash` | time; death, cancellation, or an exception that leaves the loop |

The two stores differ in what protects the end of a task: PostgreSQL asks for `lease_owner`
and derives the new status from the row, SQLite writes by id and derives it from the copy of
the claim. What depends on this is stated of *sound* tasks: all of them in PostgreSQL, those
never claimed while another loop still had them in SQLite.

| Run | Instance | Shows |
|---|---|---|
| `sync_work` | 2 tasks, 2 loops with batches of 2, 2 attempts, both stores, fair | ended tasks stay ended (sound tasks); every sound task is completed, given up, or stuck on its last attempt |

*Bounds.* Two loops of which one overtakes the other, and batches in which the lease of the
second task lapses while the first is worked on: that is the usual way in which a task is
overtaken here, since one lease covers the whole batch. *Fairness*: calls return or raise,
time passes, and the loops keep claiming in the order of `due_at`, so that no due task waits
for ever.

### AccountPage

One account in one process: `active` and `cookies` are what `LoginFlow` and the session file
hold, `browser` every browser that was launched with its page, `holder` the locks
account-browser, publish-account and publish-preview, `op` the requests under way, `ending` the
browsers a shutdown has in hand, `clicked` what the publish button was clicked on. Three histories
record what goes wrong: `expired` the leases that ended under their holder (300 seconds, which
nothing renews), `meddled` the publications during which another request drove the page that
their lock did not hold back or no longer held back, `dropped` the browsers whose launch or
close raised half-way, or that another login displaced after a lease of account-browser ended.

| Action | Code |
|---|---|
| `Begin`, `TakeSession`, `OpenEditor`, `WriteTitle`, `WriteBody`, `Click`, `ReadResult`, `Raise` | `prepare`, `submit`, `save_draft` of `CreatorStudioPublisher`, and the lock their caller takes (none for a row of the scheduler) |
| `Navigate` | the health check, the analytics and metric syncs |
| `Status`, `StatusLaunch`, `StatusRestored` | `LoginFlow.status`, with the browser it launches and closes to look at a saved session |
| `StartClose`, `StartLaunch`, `StartShow`, `Logout`, `LogoutClose` | `LoginFlow.start` and `logout`: out of the table first, then closed |
| `Shutdown`, `ShutdownClose` | `LoginFlow.shutdown`: the table is cleared, then each browser closed, errors swallowed |
| `PageLeaseLapses` | the lease of a lock ends in Redis and its holder goes on |
| `Scan`, `SessionEnds` | somebody scans a code; the site ends a session |

Every launch and every close is several awaits, any of which may raise or be cancelled: `CloseOf`
leaves the browser closed, or running without a page and with nobody to close it.

`publish_safety`, part "page" (`PageTogether`): a publication with another one, a preview, a health
check, a login or a logout; a scheduled row with a metric sync; a login, a logout and a status; two
browsers, one lease that lapses. What is clicked on is the draft that was to be published, and
the note reported is its own, unless the publication was meddled with: by a request that
publish-account does not hold back, or by another publication once the lease of one of the two has
lapsed. A browser that runs is the one the next request finds, or in the hands of a status, a
logout or the shutdown, unless it was dropped. `page_shared` is a counterexample: two scheduled
rows of one account mix.

### NoteDelivery

`note` is the request, the text and what generation made of it, `verdict` the gate's fields of
the package, `evidence` the claims whose evidence is still valid, `embedder` and `cover` two
facilities that come and go. `Prepare` to `Deliver` are `generate` with its candidates and its
fallback, `Gate` and `FromHot` the two workflows, `CreateDraft`, `ApproveNote` and `SubmitNote` the
three re-verifications. Between them the package is in the hands of its owner, who brings it back
whole (`cli.py`, `publish draft`): `Edit` gives it another text, fewer of the carried notes
(`note.carried`) and of the references, references of his own (`note.own`), and reports that
say what they like. In `components`, part "note" (one claim, one provider, two notes of which one
is carried, one edit): a text that is submitted has only claims with evidence that is valid now, of
the request or the owner's own, no banned phrase, echoes none of the notes left in the package,
and its cover resolves, whatever the reports said. What the gates cannot know is not claimed: a
note the owner took out of the package is no longer compared. `blocked_published` is a
counterexample without any edit: a note that the package never carried may be repeated.

### LocalJobs

`queue` with `putting`, `worker`, `runners`, `flagged`, `record` are the queue and the submissions
that wait for room in it, the pool, `_runners`, `_cancelled` and the repository of `JobService`
without Redis, `phase` its shutdown; `log`, `seqNo`, `age`, `follower` the in-memory broker with its SSE
connections; `promised` the jobs whose cancellation was answered with success. `SubmitJob`,
`PutLater`, `PutTimesOut` are `submit` around its put; `Drop`, `StartJob`, `TaskEnds`, `Settle`
the worker; `CancelRunning`, `CancelPending` the two branches of `cancel`; `Shutdown`,
`StopWorkers`, `ShutdownEnds` the shutdown; `Follow`, `Wake`, `Deliver`, `Disconnect`, `Expire`,
`LazyClean` the events. `publish_progress`, part "jobs" (two jobs, one worker, one follower, a
queue of one, two retained events, fair): a promised cancellation is kept, and a follower that
has seen nothing yet gets to the end of its job.

### SearchFlow

`search` holds every call of `search_hot_notes`, `hostResults` the registry's `client_web`
provider, `remembered` the quality memory, `nearCache` and `farCache` the two caches; `met` is
history: which calls for host results were under way together. `Begin` plans and looks into the
near cache or joins a leader, `ReadFar`, `StoreFar` are Redis, `Shard` one provider, `FinishSearch`
ranking and the near cache; `RedisFails` and `CancelSearch` break a leader and its followers.
`outbox_delivery`, part "search" (two callers, one live provider, one cache entry, reports of few
sources, so that a later call has the key of an earlier one; fair): results a host brought reach no
later call, except one that names the host's provider, `client_web`, without bringing anything, or
that takes its answer from a leader that named it (`Sources`); and every call ends.

### Backpressure

`request` says for every request which slots it holds (`held`), wants (`want`) and which
providers it has left; `circuit` is each provider's breaker; `pool` the per-tenant bulkheads with
the order of eviction. `Arrive` and `Handle` are the middleware, `Attempt`, `Ask`, `Answered`,
`Failed`, `Rested`, `Respond` the candidate or retry loop of a handler; `Proceed`, `WaitTimesOut`
and `CancelRequest` what becomes of a waiter; `Ripen` and `Prune` the clock of a breaker. In
`publish_safety`, part "pressure" (three requests of two tenants, table of one tenant): a tenant
keeps to its share unless its bulkhead was evicted between the two acquisitions of a request
(`split`), and a half-open slot is held by a request that really probes, unless a probe was
cancelled (`leaked`). In `sync_work`, part "pressure" (two requests with nested slots, fair):
every request leaves.

### CostLedger

One reservation each, with its estimate, cost, day and whether it expired; `overrun` is history:
what settlements added beyond what was then held. `components`, part "costs" (three reservations,
limits 2 a day and 3 a month of two days): what counts goes beyond a limit only by overruns.

### Governance

`policy`, `workflow` and `process` (each worker's copy of the workflow between its read and its
write), `trail` with its lock. `components`, part "governance" (two processes, three actors of
whom one has a phishable session, two lines): an approved workflow has its quorum of distinct
approvers, apart from its requester, even when one process saves over another's vote; a vote
in the trail stands and a publication's approval is still one, unless that happened
(`overtaken`). A record reaches the audit file whole, without its newline, or cut off, as its
writer dies or its write fails; all lines but the last verify as a chain. A record without its
newline is taken for a whole one by `_last`, so that the next one lands on its line: from then
on, as after a record that was cut off, every `append` raises and `verify` fails at that line,
until the file is repaired by hand.

### PoolSharing, Identity

`components`, part "pool" (two stores, three calls): a connected store's pool is open, shared and
counted, until the lock left its table while calls waited for it, or a store was closed twice at
once (`disturbed`). Part "identity" (one user, two keys, two SCIM processes, one verifier): a
principal is admitted only as an answered SCIM request left its user, unless a stale copy was
saved over a row (`staleWrite`), and a key withdrawn longer than the cache's TTL is refused. What
follows a disturbance is cut off in the run, since the properties say nothing of it.

### Experiments, Bandit, Assets, AccountInsight

Processes over SQLite, whose statements interleave, and PostgreSQL, whose transactions do.
`components`, parts "experiments" (three callers in two processes, two subjects, two plans):
every answer for a subject is the same variant, also when the plan is stored again; "bandit"
(three senders, two arms, three rewards): with PostgreSQL an absorbed reward is lost only to a
first update that found no row to lock; "assets" (two processes, two uploads): a recorded file is
whole unless a copy of it is under way or was cut short, also when both processes found no file
and copy it at once, the second emptying what the first has written (`StartCopy`); "insight" (three requests to two Pods,
three syncs): as long as syncs do not overlap, every Pod reads the profile of the newest answered
sync or of a later one.

### Gateways

`calls` are the calls with their door, principal and stage, `taskTable` the A2A tasks,
`activeTenants` the tenants that are not suspended. `AskMcp`, `AskA2A`, `TasksRequest` (any other
request to A2A, which cleans up the table before it looks at its method) are the doors, `PassChecks` is scope, authentication level, policy and explicit approval, `Act` and
`Return` the handler and its envelope, `TasksAge` and the guard of the table `_cleanup_tasks`.
The model assumes that policy enforcement is on (`core/config.py`), otherwise a suspension
means nothing. `components`, part "gateways" (a creator at A2A, a publisher at MCP, three
calls, a table of one task): a forgotten task has ended or is being cancelled; for a suspended
tenant a tool acts only if its handler had started before.

### Feedback

`snapshots` are the stored rows, `synced` every snapshot that was ever synced, `durable` says
PostgreSQL. `publish_safety`, part "feedback" (two notes of two accounts, two
instants, clocks of two zones, three snapshots, one retrospective): the advice on file rests on
the newest snapshot of the note that was synced for the account before it was asked for, except
with SQLite and clocks of several zones, and where the same instant of a note came for another
account. Loading `MCSafety` also evaluates the assumption `CalendarKeepsPace`: for every first
day, horizon, pace and some profiles and topics, no seven days of a calendar hold more items than
`posts_per_week`, and no topic follows on itself when there are several.

### Deployment

`settings` is the environment of the deployment, `serving` the processes that run under it,
`localLock` and `redisLock` the lock of one account, `inside` who is in it, `leaseless` who outlived
its lease. The validator looks at `uvicorn_workers` alone; `Serve` starts the processes of a Pod,
any number of them and any number of times (`serve --workers N` overrides the environment, and
several Pods share it), and `StartHelper` a worker, a scheduler or a `publish execute` beside the
API; each has a lock manager of its own. `uncounted` are the processes beyond the number the
validator looked at. `publish_safety`, part "deployment" (two processes, three users of whom two
in one process, eight sets of flags): two users are inside at once only if a lease lapsed, or if
the locks are in memory and two processes serve them; in production, with locks on or with the
browser publisher, only if one of these two is uncounted.

### The bounds of the summed runs

Each instance is the smallest in which its property can be violated by the mutants listed for it
and by the fault it is about: two processes that overtake each other, a table of one entry that
evicts, a limit that two requests reach. Properties with an excuse (`meddled`, `split`, ...) are
reached in states where the excuse does not hold, which the mutants show. Two parts of `components`
have a bound of their own beside their constants: in "governance" the first workflow is created by
`w1` and not by `u2` (`CreatedByOneOfAKind`: the two processes are alike, and so are `u1` and `u2`,
so nothing is lost), and in "identity" one of the two signing keys stays on offer
(`SecondKeyStays`). The page of `publish_safety` has two (`MCAccountPage`): a lease of
publish-account or publish-preview ends only when another request of that kind takes part
(`LapsesAreSeen`: otherwise nothing but the record of the lapse would change), and of two
requests of one kind the first to move is `a` (`FirstIsA`: they are alike). The proofs have none
of these.

An excuse names what the code does not prevent. A property with an excuse does not show that the
code is safe from the hazard; it shows that the hazard is the only way in, and the hazard's note
in `PROJECT.json` says so.

*Fairness of the parts.* `LocalJobs`: workers, followers and a waiting put go on, a task ends; no
fairness of clients or of the shutdown. `SearchFlow`: Redis and providers answer or time out.
`Backpressure`: handlers and providers answer, and the timer of a waiter fires. All of it is what
asyncio and the timeouts of the code give; a system that stops in its initial state satisfies the
fairness of the part it does not run, since nothing fair is enabled there.

## 4. Where the code differs from what it says

Six runs end in a counterexample on purpose; `PROJECT.json` ("findings") quotes the sentence and
the lines for each.

* **Uncertain outcomes become FAILED** (`publish_failed`): `finish_claimed_publish` accepts
  state SUBMITTING, so an exception at or after the submission is not kept for reconciliation.
* **A replayed dead letter has no effect** (`queue_replay`): replay leaves the record FAILED
  and the entry is discarded.
* **An outbox event can be lost on its last attempt** (`outbox_exhausted`): the attempt is
  counted at the claim, and a row whose last attempt has no answer is out of reach of every
  query. The metric sync has the same shape, which `EveryTaskSettles` names as an exception.
* **Rows do not look at the daily limit** (`service_overlimit`).
* **Two due rows of one account mix** (`page_shared`): the rows of a batch are executed together
  on the one page of the account.
* **What generation blocked may be published** (`blocked_published`): a package carries ten of the
  report's notes, and the gates judge it again against those alone.

Other behaviour the models contain, for which no sentence of the repository promises
otherwise, or which only follows from settings one may choose differently:

* A shutdown during a submission writes CANCELLED for a note the platform may have; the
  handler of a noticed cancellation passes the epoch from before the cancellation, so that its
  own WHERE clause rejects the CANCELLED it means to write.
* A job's FAILED record is written before its dead letter, and a death in between leaves none;
  a death between the PENDING record and its entry leaves a job nobody runs. An execution
  overtaken after the visibility timeout writes over its successor's record, and a lost reply
  followed by a death can leave an unfinished job without an entry: why `NoJobForgotten` is
  restricted to `faults = {}`.
* The token of an approval is checked before an await and not again after it, so one token can
  carry two submissions when it is approved anew meanwhile; `publish` looks for a row of the draft
  before it waits for the lock, so that a row and a direct publication of one content do not know
  of each other: why the properties of `PublishService` speak of consumed approvals and of results
  on file.
* In SQLite a loop that was overtaken ends its successor's task and may grant another attempt,
  bandit updates of two processes can lose a reward, and snapshots are sorted as text, whatever
  their zone.
* A cancelled probe of a breaker keeps its half-open slot, and a retrying search sleeps while it
  holds the slots of its operation and its provider.
* The metadata of an asset with the suffix .json is written to the file of its content.
* A sync through the MCP tool stays in the files of the Pod, and the budget tool of MCP reads the
  ledger on files also where the costs are in PostgreSQL.
* Production settings with local locks are accepted for one process, and run as several all the same:
  `serve --workers N`, several Pods, and the worker and scheduler commands beside the API are not
  seen by the validator of the settings (`uncounted`), and each has locks of its own.
* A lease of publish-account lapses after 300 seconds under a publication that takes longer, and two
  publications then drive one page (`expired`); a close that raises half-way, in a logout or in a
  shutdown, leaves a browser that nobody will close (`dropped`).
* An owner may hand in a package without the notes that it was judged against, with evidence of his
  own: the gates verify what the package carries.
* A canceller that dies between the flag and the record, with the worker past its last look at the
  flag, leaves the record RUNNING until it expires: the completion is refused, CANCELLED is written
  on the worker's copy only, and the entry is removed (`LeftRunning`).
* Jobs can be in Redis while their events are in memory; readiness does not ask the Redis of the
  caches; warnings of `doctor` leave it "ready"; the envelope of a broken audit chain says ok.
* A follower that reconnects with an id at or after the terminal event gets heartbeats only.
* With the default days a calendar has three items a week, whatever the pace.
* A report that is empty because every provider failed is cached like any other.

Read in the code and not modelled: the Redis event broker takes a sequence number and appends in
two calls, so that a follower may skip an event that was overtaken; the local table of account locks
may drop a lock that a task is about to take once it is full (`core/distributed_lock.py:35`; the
model has one account, the table `max_tracked_accounts` entries).

## 5. What is proved

Each `*_proofs` module proves its theorems for every value of the constants that satisfies
the named assumptions (finite sets and natural bounds; no bound on the number of workers,
rows, jobs, entries or approvals beyond the constants). Every safety invariant and action
property that a passing run checks is a theorem of the module it belongs to. The theorems are
listed in `PROJECT.json`. In each proof the initial states satisfy an inductive invariant, each
action keeps it (one lemma or step per action), and the property follows from it.

**PublishState.** `IInv` is `TypeInv` (types, and a task that finishes knows its result),
`EpochCountsCancels` and `ObservedEpochIsZero` (why a verdict is refused once a cancellation
was accepted), `SubmitterOwnsRow`, `SubmitterIsFirst` and `AtMostOneSubmit` (a task about to
submit holds the row and nothing was submitted before), `SubmittedNeverLooksUnsent`, and
`ReconcilerSawCancel` with `ReconciliationOnlyAfterCancel`. None of the safety properties is
inductive alone: that there is one submission needs that the submitter owns the row, which
needs that tokens are fresh. `FencedWrites`, `FinalIsFinal` and `AcceptedCancelBarsVerdict` are
action properties from the same invariant. `RefinesPublishOnce` maps each step to a step of
`PublishOnce` or a stutter: `MarkSubmitting` is `Commit`, `Submit` is `Send`, every settling
write is `Withdraw` before the boundary and `Resolve` after it.

**JobQueue.** `IInv` gives the types and relates every execution to its entry: an execution
knows the attempt of its entry, an entry of attempt *a* was preceded by entries of all smaller
attempts, and a job that was not enqueued has none. `CancelWins` follows from the guard of the
completing script. `NothingForgotten` adds `QInv` for as long as `faults = {}`: two slots never
share an entry, an execution's entry is still in the stream, and an unfinished job is *carried*
by an entry that no execution is about to remove without having written a final status or
added the next one. `FaultsStay` makes the case distinction inductive.

**Outbox.** `IInv` consists of the types, one event per transition with `CommittedOnce` and
`AbsentUntouched` (each transition's expected version identifies it), `WaitingIsClaimable`,
`CompletingIsHandled` and `DeliveredWasHandled`, `DeadHasOpenLetter`, and `Exclusive`: unless
the lease lapsed under a dispatcher or a letter exists, a dispatch stands on a PROCESSING row
with a live lease and is the only one.

**PublishService.** `TypeInv` (types and the shape of runs), `LockInv` (unless the lock lapsed, a
run in a locked step holds the lock, and what `Decide` checked is still true until the result is
saved), `PaidInv` (the ids consumed by submissions and by runs about to submit are distinct and
are used up), `BindInv` (what a booking carries and what is bound name the row of the content).
`SavedOnce` and `WithinLimit` follow from `LockInv`, `ConsumedOnce` from `PaidInv`,
`BoundToRealRow` from `BindInv`.

**PostPublishSync.** `IInv` adds to the types and the properties themselves: a loop that works
has its current task in its batch; of tasks never overtaken there is one holder
(`OneHolder`), whose copy of the attempts agrees with the row (`CopiesAreCurrent`), and in
SQLite the row is RUNNING (`HeldIsRunning`); ended rows have no owner (`EndedIsUnowned`); a
loop that completes has saved (`SavedBeforeCompleting`). The steps are first summarised as
three kinds of moves (`TaskMove`, `ClaimMove`, `WorkerMove`), and each preserves each conjunct.
`EndsStay` holds for two reasons: in PostgreSQL nobody owns an ended row, so the fence refuses;
in SQLite nobody has it any more.

**Operations_proofs** has six parts, whose modules share nothing.

* *Bandit.* `BanditIInv`: with PostgreSQL an update that found a row holds its lock, and the row
  is as it was read (`RowHeld`). So only an update that found no row can overwrite one, which is
  the excuse of `RewardsOutliveUpdates`.
* *Experiments.* `AnswersAgree` is not inductive; that every answer is the stored row and rows are
  never replaced (`AnswersAreRows`) is.
* *Assets.* A file that is not whole is being copied or was cut short by a crash, and what has a
  row or will get one has a file: `RecordedFileIsWhole` follows. A copy that ends while another
  one of the same file goes on may leave it partial; the other one is then the excuse
  (`CopyMoves`).
* *AccountInsight.* As long as no syncs overlapped, one is under way at most, and its number is
  not below what was shown (`OneAtATime`); a sync carries the profile of its own analytics.
* *Feedback.* `JudgedOnNewest` speaks of what was synced, the code reads rows. The invariant
  relates the two: what was synced has a row under its key, under its own account unless another
  account synced the same instant, and no key has two rows. The newest row by instant exists
  because a finite set of naturals has a largest member, which is proved by a minimum of the
  well-founded order of the library, without induction.
* *AccountPage.* `PageIInv`: where each request may be and which lock it holds there unless its
  lease has lapsed (`PlacesOK`), which browser a request has in hand to close and that no two have
  the same one (`HandsOK`), that while no lease of account-browser lapsed no browser runs in the
  place where a request is about to register another (`Alone`), and for a publication that nobody
  meddled with what its page shows at each of its steps (`OwnPages`). At each step of another
  request either the publication is recorded as meddled with, or the lock kept the two apart.
  `NoStrayBrowser` is a conjunct of its own: whoever takes the browser out of the table has it in
  hand until the close returns or raises, and what raises is recorded.

**Enterprise_proofs** has six, and one on the sum of the components.

* *NoteDelivery.* The references of a verdict are those that the request was backed with or that
  the owner added; `SubmittedNoteStands` is an action property: the submitting step verifies again
  what it submits, against the evidence of that moment.
* *Gateways.* `GatewayIInv`: only calls under way are cancelled, a running handler of a suspended
  tenant was running when it was suspended (`SuspendedWorkIsOld`), and `ForgottenTasksStop`. Two
  lemmas say what a step that changes one call, or none, has to leave alone.
* *Governance.* Every copy of a workflow that a process is deciding on is pending and `Sound`: its
  state is what its votes amount to. A process that overwrites another's vote therefore saves a
  sound workflow, which is why `ApprovedByQuorum` needs no excuse while `VotesStand` does. Whoever
  writes a line of the trail holds the lock and has read its last, complete line
  (`WriterHasTheEnd`).
* *Identity.* Ids are unique, rows say what the last answered request said unless a stale copy was
  saved (`RowsAsAnswered`), and a cache that has a lapsed key is old (`CachesAge`). That a managed
  name has a first row is again a minimum.
* *PoolSharing.* `PoolIInv == disturbed \/ PoolInOrder`. In order means: who is in a call has the
  lock that is in the table, waits in its line once, nobody else is in it, at most one creates
  a pool, nobody closes a store that is not connected or that somebody else closes, and the
  references are no fewer than the connected stores.
* *CostLedger.* `BudgetIInv` speaks of every day, the ones to come as well: what is settled late
  counts on the day of its reservation. Sums are counted as units (`SumOver` is the number of
  units of all summands), so what a sum becomes when one summand changes is a fact about finite
  sets; a recursive sum would need an induction that the provers lack.
* *The sum.* `SumOfComponents` and the lemmas before it show that a behaviour of `MCComponents` is
  one of each of its components; for the two that it instantiates, the distributed service and
  the queue, the theorems of `PublishService_proofs` and `JobQueue_proofs` are instantiated with
  the same values (`DS`, `QS`), and `SameService` and `SameQueue` say that both instances define
  the same steps. `CancelledStaysSo`, `OneProcessConsumesOnce` and `DistributedBindsToTheRow` are
  the properties in the form that the run checks.

**Runtime_proofs** has four.

* *Deployment.* Processes run only under accepted settings, no more of them than the number that was
  looked at beside the uncounted ones, and who is inside has the key in Redis, or the lock of its
  own process, or has lost its lease. `OneProcessOrRedis` is the arithmetic of
  `validate_production_security`: with local locks in production, at most one process is counted.
* *Backpressure.* `Shape` says which slots a request holds and wants at each of its steps. The pool
  has one bulkhead per tenant, that of all requests of the tenant unless it was evicted under one
  of them (`PoolOK`), so the places a tenant holds are in one bulkhead (`ShareOK`). A probe slot is
  taken by a request that probes.
* *LocalJobs.* No job has two workers; a job has a runner only before anything took it; a promised
  job on a worker is a task that was told to stop (`PromisesOK`).
* *SearchFlow.* `SearchIInv` follows results of the host from the registry to a leader
  (`HostsOK`, `GatheredOK`), to its followers, who have met their leader and everybody it met
  (`FollowersOK`), and into reports; a search that may find anything of the host's reads and
  writes no cache. A report has host results of others only where the call itself or its leader
  (`Sources`) named the host's provider.

**What the proofs need of the constants.** Finite sets of actors where something is counted;
capacities, thresholds and quorums of at least one, other bounds natural; names for "nobody" that
no actor has (`NoArmRowAssumption`, `AssetAssumption`, `WorkersServe`, ...), and names of providers
that are not names of calls (`SearchAssumption`); estimates, prices and limits that are natural,
zero included (`LedgerAssumption`). TLC evaluates every one of them on the runs' values.

**What the proofs corrected.** Two steps were wrong in ways the bounds of the runs hid: a tenant
reinstated and suspended again kept old excuses, and two tenants suspended one after the other
lost some (`Suspend`, `Reinstate`); and a direct publication could touch the page of a scheduled
one without being recorded as meddling (`Touch`, now with `Together`; the run has that
combination of requests since). `Shard` was a CASE with overlapping guards, whose value TLC picks
by order and the logic leaves open.

**Only model-checked.**

* Liveness (`EveryScheduleMovesOn`, `EveryJobEnds`, `EveryEventSettles`, `EveryTaskSettles`,
  `FollowerSeesEnd`, `EverySearchEnds`, `EveryRequestEnds`): ENABLED is beyond the prover.
* The assumption `CalendarKeepsPace` about the calendar, which is a recursion over days, and the
  counterexamples.

## 6. What is not modelled

* Components marked "not_modelled" in `PROJECT.json`: the HTTP routes (each is a call of a service;
  the ones that make several calls are steps of that service's module), ranking and research
  scoring (floating point), text building (templates and word lists), and secrets, data
  protection, retention and plugins (cryptography, pattern matching, single deletions).
* Redis key expiry (`redis_job_ttl_seconds`), inputs, results and events of jobs, the trimming of
  the dead-letter stream, daily job quotas, SCIM groups, the Redis event broker.
* Statistics: confidence intervals, the choice of a bandit arm, the estimators of an account. The
  models keep what is read and written around them.
* Amounts of tokens of the rate limit: a request is admitted or refused.
* `claim_outbox` and `retry_outbox`, the first generation of the outbox calls: no code in
  `src/` calls the second and only a test the first. `from_states` of a transition is
  left to the caller in the model; the version check is what keeps transitions apart.
* asyncpg and redis-py are external: parameters bind and columns decode as the code expects.
  `enterprise/postgres.py:641` serialises a whole row with `json.dumps`; should a timestamp
  in it raise, the settling write fails, which `CallFails` of `Outbox` includes.
* The web pages of the platform: a form holds what was written to it, a session ends when the site
  says so.

