# Verification of the application template

TLA+ modules, TLC configurations and TLAPS proofs for the backend under
`src/backend/app`. They cover

* the machinery every asynchronous operation runs on: durable jobs, the
  transactional outbox, the coordinators, the broker and the sweeps, with four
  users of it: scheduled maintenance, notification e-mail, uploaded documents
  and AI requests;
* what AI requests leave behind: provider copies, scratch uploads, questions
  under a retention policy;
* who is who: platform administrators, invitations and memberships, with WorkOS
  and its webhooks;
* what keeps the tenants apart: the row policies, the database roles and the
  settings every session binds.

Run from this directory:

    tlc -workers 2 -config JobDelivery_safety.cfg MCJobDelivery.tla
    tlapm JobDelivery_proofs.tla

`PROJECT.json` lists the runs, the mutants of each property, the source lines
behind every definition, the hazards and the theorems.

## Inventory

Paths are relative to `src/backend/app`.

| Component | State | Operations | Interacts through |
|---|---|---|---|
| **Durable jobs** `modules/jobs` | `jobs` row (status, attempt count, owner token, dispatch id, execution lease), `job_attempts` ledger, outcome audit rows | `schedule_job`, `claim_dispatch`, `update_progress`, `succeed`, `fail`, `settle_retryable_failure`, `settle_after_retries_exhausted`, `settle_dead_initial_dispatch` | every operation locks the job row; writes the outbox in the same transaction |
| **Execution wrapper** `modules/jobs/execution.py`, `tasks.py` | the stamp in the broker message | claim, run the handler, settle, finalizer | Dramatiq's Retries and TimeLimit middleware |
| **Outbox** `modules/outbox` | `outbox_events` rows: pending, publishing under a claim token, published, dead | create (deduplicated), claim due, reclaim stale | written by jobs and sweeps, claimed by coordinators |
| **Job coordinator** `job_coordinator/loop.py` | claimed events in memory | claim, publish, settle published/dead, release | several replicas; broker between two transactions |
| **Reconciliation** `job_coordinator/reconciliation.py` | cooldown buckets, as deduplication keys | queued sweep, running sweep, maintenance schedule and recovery, outbox retention | scans under a snapshot, then locks |
| **Maintenance runs** `modules/maintenance` | `maintenance_runs` row, session advisory lock, heartbeat task | schedule, claim, heartbeat, complete, settle failure, recover | coordinator, worker event loop, PostgreSQL advisory lock |
| **Notifications, e-mail** `modules/notifications`, `email` | `notification_deliveries` row | create, mark running, return to queue, settle, exhaustion hook | a handler of a durable job; SMTP relay |
| **Files** `modules/files`, `storage`, `scanning` | `files` row, the staging and the final object | upload intent, completion, processing job, deletion, authorised read | requests and a job's handler write one row under different locks; the browser writes the staging object; scanner |
| **AI requests** `ai/execution.py`, `ai/service.py`, `ai/persistence` | a row per dispatch, the month's reservations, the question's text, the job | enqueue, reserve, dispatch with retry and repair, settle, replay, stale sweep | a handler of a durable job; providers |
| **AI routing and provider copies** `ai/registry.py`, `ai/transfer*.py`, `ai/providers`, `ai/persistence/references.py`, `reconciliation.py` | reference rows, the stores' in-memory caches, files at three providers | route, select a mode, find or stage a copy, clean up, reconcile | the dispatch loop; providers that expire files; a maintenance run |
| **AI scratch and retention** `ai/scratch.py`, `ai/persistence/service.py` | scratch rows and objects, settings of the organisations, questions, outputs | intent, signed PUT, completion, ask, retention sweep | object store; a maintenance run |
| **Platform administration** `modules/platform_admin` | administrator grants, the bootstrap sentinel, audit rows | grant, revoke, recover, teardown, bootstrap at first login | advisory lock, but for the bootstrap; `user.deleted` webhooks |
| **Invitations, memberships** `modules/invitations`, `platform_admin` | invitation and membership rows, a copy of each user's address | invite, revoke, link at login, suspend, remove | WorkOS, between the reads and the commit |
| **WorkOS webhooks** `modules/webhooks` | deduplicated event rows | user deleted, user updated, invitation revoked | WorkOS, late, repeated and in any order |
| **Records, feature flags** | a versioned row per record, an override per flag | update, delete; set with a lost insertion race | optimistic version; unique key |
| **Row level security, roles, sessions** `db`, `alembic` | policies, grants, the settings of each transaction | bind, clear, self-commit, rebind; start-up checks | every flow above |
| **Organisations, users, permissions, audit** | configuration and append-only rows | one transaction each | - |
| **API wiring, frontend, deployment** | - | - | - |

### What makes it hard

* *At-least-once everything.* The broker redelivers, duplicates and loses
  messages; a publication may have succeeded although the publisher saw an
  error; WorkOS repeats and reorders its events.
* *Nobody knows who is alive.* A lease expires under a slow worker, which then
  comes back. Owner tokens, dispatch ids and message stamps decide who may still
  write; a late finalizer, a late settlement and a late coordinator are each
  fenced by a different one of them.
* *Five components start, retry or end an attempt*, and each must count against
  one ceiling.
* *Acting on what was seen.* Sweeps scan under a snapshot and lock later;
  sessions keep what they loaded (`expire_on_commit` is off); logins and
  administrators' requests call WorkOS between their reads and their commit;
  a permission is checked before the lock is taken.
* *External effects.* A mail cannot be taken back, a provider charges for an
  answer nobody reads, a file stays at a provider until somebody deletes it.
* *Settings that end with the transaction.* Every commit in the middle of a flow
  unbinds the tenant; a forgotten rebinding makes the policies hide the rows,
  silently, and one that binds too much shows another tenant's.

### What correct means

* jobs: one outcome; ledger, row and audit agree; at most `MAX_ATTEMPTS`
  attempts whoever starts them; a superseded delivery changes nothing; a live
  lease is respected; an accepted job is eventually settled;
* outbox: an unsettled job's event is never lost; a superseded claim changes
  nothing; no unclaimed job is stranded behind a dead event;
* maintenance: one sweep at a time, but for a stray; a superseded worker changes
  nothing; a recovery stays on record; a run is settled but in two named
  situations;
* e-mail: at most one mail; one report of it, which is true unless the delivery
  was overlooked, and a verdict on the job that agrees with it;
* files: one processing job per document; what may be read was accepted by the
  scanner; what a reader may get is never rejected, what was rejected is never
  read; document, job and notification agree;
* AI: a request is executed once and has one output; charges stay within the
  budget while no retry is dearer than reserved; only what every policy allows is dispatched, in the pinned region; no
  uploaded file gets out of the sweep's reach; nothing outlives a retention
  policy, and no live upload is swept;
* people: the last administrator never goes unrecorded; the bootstrap fires
  once; nobody joins without an invitation that was good; one per address is
  open, and it is settled once; what is revoked here is revoked at WorkOS;
* tenants: no session is bound to more than its principal may reach, no
  statement misses the row it is meant for, no row changes its tenant, no
  process serves with a role that leads past the policies.

## Modules and their correspondence to the code

| Module | Models |
|---|---|
| `JobLifecycle` | The abstract specification: what the machinery promises about a job. No broker, outbox or clock. |
| `JobRow` | The `jobs` row, its ledger and its audit rows; one operator per helper of `jobs/service.py`. |
| `Outbox` | The outbox rows of one job and the coordinators' claims. |
| `JobDelivery` | Composition of the two with the broker, the execution wrapper, the finalizer and the sweeps; refines `JobLifecycle`. |
| `Maintenance` | One maintenance run, its workers, the advisory lock, the heartbeats, and what a time limit leaves behind; refines the same `JobLifecycle`. |
| `EmailDelivery` | One e-mail delivery; the job in it *is* `JobLifecycle` (by `INSTANCE`), so what it shows rests on the refinement above. Refines `Mail`. |
| `Mail` | The abstract specification: what a delivery promises to whoever asked for it. No attempts, leases or recovery. |
| `FileLifecycle` | One uploaded document: its row, its two objects, the requests that complete and delete it, and the attempts of its job, which *is* `JobLifecycle` too. Refines `Document`. |
| `Document` | The abstract specification: what the upload pipeline promises about one document. No requests, workers or locks. |
| `AIExecution` | Requests of one organisation, their rows, questions and jobs, the budget, and what the providers charge. |
| `TransferRouting` | Pure: the router, the mode selector and the gate between them. |
| `AITransfers` | One request's copies with three providers, over `TransferRouting`: rows, caches, clean-up and sweep. |
| `ScratchRetention` | Scratch uploads, questions about them, and the retention sweep over the organisations. |
| `Administrators` | Administrators, the bootstrap sentinel and the audit rows, under transactions that may roll back at any point. |
| `Membership` | Invitations here and at WorkOS, memberships, addresses, logins, administrators' requests and webhooks. Refines `Admission`. |
| `Admission` | The abstract specification: admission to an organisation by ticket. No requests, row locks, webhooks or copied addresses. |
| `RowSecurity` | Pure: the policies, grants and column grants, as predicates on settings and rows. |
| `DatabaseRoles` | Pure: which credential a process connects with, and the start-up check. |
| `TenantSession` | Every flow of the API, the workers and the coordinator, as the settings it binds and the rows it means to reach, over the two modules above; record versions and flag overrides. |
| `MC*` | Instances for TLC. |
| `*_proofs` | Theorems. |

How the code appears:

* **Granularity.** A transaction that locks its row is one action. What the code
  does outside a lock is a step of its own: `PublishEvent` lies between
  `ClaimEvent` and the settlement, `Scan...Jobs` is separate from
  `Reconcile...Job`, `Revalidate` from `SendEmail` from `SettleAnswer`. A request
  that holds a lock over a call to WorkOS is several steps, each of which may be
  its last.
* **Jobs.** Jobs do not read each other's rows, so the delivery has one. Shared
  capacity shows only as delay, which every action may have anyway. The AI
  modules have one job for each request, with its lease left out: a running job
  may be taken over at any time, which is more than the code allows.
* **Identities.** Owner tokens are UUIDs that are only compared, each new one
  unlike all before: a counter. A dispatch id is used again when nothing in the
  state refers to it any more. A publisher's name is its claim token.
* **Clocks** are the comparisons made with them: a lease is `live` or `expired`,
  an outbox row has `elapsed` or not, a cooldown bucket is `this` one or the
  `last`. Where durations are compared with each other (`ScratchRetention`) what
  remains of a lifetime counts down and an age counts up.
* **Messages.** A slot is one copy of the job's message and the worker that
  processes it. The stamp written at claim time is kept when the broker retries
  the message and lost when it redelivers its stored copy, as in Dramatiq, whose
  behaviour is modelled from its use here.
* **Failures** are named in the constant `Faults` where they can be told apart;
  elsewhere any request may roll back, any worker die, any call fail, at any
  step. `calm` says that no further failure happens; it is set by an action of
  the fair specifications only.
* **Maintenance.** `asyncio.wait` does not cancel what it waits for. A time limit
  in the middle of a sweep therefore leaves both tasks behind, the heartbeat
  (`orphans`) and the sweep (`strays`), while the wrapper gives up the lock. A
  stray works on without the lock until it returns or meets the closed
  connection, and nobody settles for it.
* **E-mail.** `seen` is the version of the delivery the session read first and
  keeps in its identity map. The answers are `accepted`, `unsent` (retry is
  safe), `unknown` (submission had begun) and `rejected`. When a handler is
  cancelled while it sends, the thread it leaves behind may or may not get the
  mail accepted. `failed_from` is a history: the status in which the exhaustion
  hook found the delivery. `Overlooked` says that it was `running`.
* **Files.** A completion holds the row's lock over three calls to the object
  store. A deletion is three steps with no lock until its `UPDATE`. Bytes are
  identified by their checksum, as in the code; `Foreign` is what a write to the
  bucket by somebody else leaves at the final key. `update_progress` is left
  out: a handler that lost its ownership may scan once more, which is more than
  the code allows.
* **AI requests.** An attempt reads row 1 once and never again, so `seen` is part
  of the handler. `reserve` is two steps, because it locks the settings row and
  then sums the month's spend; `settle` is one step per row, the first row last.
  A dispatch costs 1 by the model that is routed first, and `RetryCost` by the
  one a retry falls back to; `billed` is what the providers charge.
* **Provider copies.** Each handler is a worker process with its stores' caches;
  a copy is a number at a provider. Routing is the code's: limits, threshold,
  residency, exclusions, over small numbers for sizes.
* **Administrators.** A request is admitted by the permission check, locks,
  reads, and commits later or rolls back; the bootstrap of the login path takes
  no advisory lock and relies on the sentinel's key.
* **Memberships.** WorkOS owns invitations and addresses; `users.email` is a copy
  that webhooks refresh in any order. A login's `profile` is the address it was
  authenticated with. A removal deletes the row it read, by its key: once another
  removal has deleted it, it has no one left to remove (`user = None`), whatever
  membership was made since.
* **Sessions.** A step is the code between two commits, rollbacks or points
  where another session matters. It names the statements it issues by the rows
  they are meant for; `missed` collects those the policies hide from it, and the
  properties compare what is bound with what the principal may reach.

## Runs

Twelve runs; the counts are distinct states.

| Run | Question | Instance | States |
|---|---|---|---|
| `delivery_safety` | Does one delivery own the attempt, and does delivery implement the lifecycle? | 2 attempts, 2 message copies, 1 publisher, 1 sweep, all faults but `dead` | 430,479 |
| `delivery_coordinators` | Do superseded claims and dead events do harm? | 1 attempt, 2 publishers, 2 sweeps, `dead`, `loss` | 242,356 |
| `delivery_liveness` | Is an accepted job settled once failures stop? | 2 attempts, 1 copy, 1 publisher, 1 sweep, 5 faults | 118,010 |
| `maintenance` | One sweep at a time but for strays, harmless superseded workers, the lifecycle, settlement but in two named situations | 3 attempts, 2 workers, all faults | 165,668 |
| `email_safety` | At most one mail; does the delivery, where it is not overlooked, implement `Mail`? | 3 attempts, 2 handlers, all faults | 8,322 |
| `files_safety` | One job, clean bytes; does the pipeline implement `Document`? | 2 attempts, 2 handlers, 2 completions, 1 deletion, 2 contents, all faults | 978,808 |
| `ai_execution` | Executed once, one output, within the budget at prices where no retry is dearer | 2 requests (a question tried twice, one with a repair), 2 handlers, 2 starts, a budget for one of them | 2,090,169 |
| `ai_transfers` | Policy, region, agreement of router and selector, reachable files | 14 scenarios of policy and source, 3 providers, 2 regions, 2 handlers and the sweep | 733,278 |
| `scratch_retention` | No resurrected intent, live uploads spared, questions settle, retention drains | 2 organisations, 1 upload, 1 question, 2 changes of policy | 223,738 |
| `administrators` | Recorded lockouts, one bootstrap, recovery only when locked out | 3 accounts, 2 of them configured, 2 open requests | 2,455,884 |
| `membership` | Nobody joins without an invitation, and what is revoked here is revoked at WorkOS; does membership implement `Admission`? | 1 person, 2 addresses, 2 invitations, 2 logins, 2 administrators' requests | 1,820,604 |
| `tenant` | Bounded exposure, no blind statement, tenants kept, served under the policies, no lost update | 9 deployments, 2 API connections, a worker, a coordinator, 2 organisations, 2 users | 143,418 |

### Bounds, and why they are enough

`MAX_ATTEMPTS` is 3 in the code. With two attempts there are a first, a retried or
taken-over, and a refused third one; the coordinator run does not depend on the
count and takes one. Two copies of a message are enough for a duplicate and a
stale finalizer to meet a newer attempt; two publishers for a reclaimed claim,
two sweeps for two coordinators in one bucket; two completions for a repeated
request, one harmful and one harmless content for a staging object that is
rewritten between the check and the copy. `delivery_safety` with two publishers
and two sweeps exceeds six million states, hence the separate coordinator run.

In `AIExecution` two requests of different shape share a budget that holds one
reservation, so that the reservation of the other must be refused while one
executes. In `AITransfers` `MaxUploads` bounds the files ever uploaded. In
`Administrators` three accounts are an actor, a target and somebody who
deactivates one of them meanwhile; two requests are what it takes to race. In
`Membership` two invitations to one address, or one to each, are what logins and
requests of one person can confuse; with two persons TLC does not finish, and
the theorems cover any number. `MaxOpen` bounds the events under way and
`MaxChanges` the changes of address. In `TenantSession` `MaxSessions` bounds the
sessions a connection serves one after another, as a setting would have to
survive into the second one to do harm, `MaxChanges` the changes of address and
`MaxVersion` the record versions. In `ScratchRetention` every duration is the
smallest that keeps the order the configuration guarantees, `MaxAge` is where an
age stops to matter, and `MaxUpdates` bounds the changes of the policy.

`DispatchIds` bounds the ids in use *at one time*. An action that needs a new one
waits while there is none, which would hide behaviour, so each configuration has
enough: `IdsSuffice` in `MCJobDelivery` was checked for each of them. Published
rows nothing refers to are forgotten at the next cooldown (`Forget` in `Outbox`),
but for what the sweeps' queries ask of them. `CooldownPasses` waits for a sweep
that has already seen one bucket begin: a sweep is one statement and a short
transaction, a cooldown minutes.

Symmetry is used for copies, publishers, sweeps, handlers, requests, connections
and accounts that the specifications never tell apart, and only in runs without
liveness; dispatch ids are chosen by `CHOOSE` and are not symmetric. Deadlock is
not checked where the system may stop: a settled job with an empty broker, a
deleted document, a finished request.

### Fairness

Weak fairness only, of what the deployment repeats: coordinators poll and sweep
in every cycle; the broker delivers until a message is settled; a handler ends,
because the task time limit interrupts it; heartbeats beat and clocks advance.
Failures stop at some time (`calm`); before that, none is ever forced. No
fairness is assumed of renewing a lease, of a job's progress, of either outcome
of a handler in particular, or of a worker restart.

`delivery_liveness` excludes dead events, because a job whose retry event is dead
is documented to wait for an operator (`docs/operations.md`), and has one
publisher: with several, weak fairness of each allows them to reclaim from each
other for ever, which a claim lease of minutes against a publication of
milliseconds does not.

`ScratchRetention` is fair to the sweep's steps, to time and to `calm`: the
scheduler starts a retention run in every interval, and `Maintenance` shows what
that takes. Nothing is assumed of clients or workers: `QuestionsSettle` holds
although a question's worker never comes back, because the sweep settles it.

## Proofs

| Module | Theorem | Says |
|---|---|---|
| `JobDelivery_proofs` | `TypeCorrect`, `LedgerCorrect`, `OneOutcome`, `OwnershipCorrect` | types (so the attempt ceiling), ledger = row, one outcome audit row, one holder of the credential in force |
| | `Refinement` | `Spec => Lifecycle!Spec` |
| | `RecoverableCorrect` | an unsettled job's event is in the outbox, if `"dead" \notin Faults` |
| | `DeadEventCorrect` | no dead event leaves an unclaimed job without one, whatever the faults |
| | `LiveLeaseCorrect`, `SupersededCorrect`, `SupersededClaimCorrect` | the three action properties |
| `Isolation_proofs` | `TypeCorrect`, `OwnerCorrect`, `OneSweepCorrect`, `SupersededCorrect`, `RecoveryCorrect`, `LifecycleRefinement` | of `Maintenance`: the safety of the run, for any workers and faults; `OneSweepCorrect` says besides that where no time limit strikes there is no stray, and one sweep without exception |
| | `ExposureAlwaysBounded`, `NeverBlindAlways`, `RowsAlwaysKeepTheirTenant`, `AlwaysServesUnderPolicies`, `NoLostUpdateAlways` | of `TenantSession`: any users, organisations, connections, deployments and grants among the roles |
| `EmailDelivery_proofs` | `TypeCorrect`, `AtMostOneMailCorrect`, `OutcomesAgreeCorrect`, `TerminalFinalCorrect`, `SupersededCorrect` | as in the run, that delivery and job agree (a delivery that is not overlooked also with the mails), and two action properties |
| | `MailRefinement` | `Spec => Promise!Spec`, of `Mail`: one report, one verdict, both true of the mails the provider accepted, where an overlooked delivery counts as one of unknown outcome |
| `FileLifecycle_proofs` | `TypeCorrect`, `ScheduledOnceCorrect`, `TrustedIsCleanCorrect`, `OutcomesAgreeCorrect`, `RejectedCorrect`, `PinnedCorrect` | as in the run, that file, job and notification agree, that a rejection is final, and that only verified bytes are pinned |
| | `DocumentRefinement` | `Spec => Contents!Spec`, of `Document`: a reader gets the pinned bytes or nothing, what he may get is not rejected, the check has one outcome |
| `AIExecution_proofs` | `TypeCorrect`, `ExecutedOnceCorrect`, `OneOutputCorrect` | any finite set of requests, any workers, limits, prices and budget |
| | `AnswerCorrect` | a stored answer and its cost are never overwritten, neither by an overtaken attempt nor by the sweep |
| | `SpendCovers`, `BudgetHolds` | what is recorded covers what is charged, and all charges stay within the budget, if no retry falls back to a dearer model (`NoDearerRetry`) |
| | `Refinement` | `Spec => Lifecycle(r)!Spec` for every request `r` |
| `Administrators_proofs` | `TypeCorrect`, `BootstrapCorrect`, `LockoutCorrect`, `RecoveryCorrect` | any accounts and requests |
| `Membership_proofs` | `TypeCorrect`, `OnePendingCorrect`, `RevokedCorrect`, `SettledOnceCorrect`, `MembershipCorrect` | any people, addresses, invitations, logins, requests, and any number of changes and events |
| | `AdmissionRefinement` | `Spec => Tickets!Spec`, of `Admission`: a ticket is spent or withdrawn once, and only an active member is suspended |
| `AISources_proofs` | `TypeCorrect`, `ExpiredCorrect`, `SparesCorrect` | of `ScratchRetention`: any organisations, uploads, policies and lifetimes, any number of changes of the settings |
| | `CopiesInvariant`, `TransfersTypeInvariant`, `RouterAgrees`, `DispatchPermitted`, `RegionKept`, `UploadsReachable` | of `AITransfers`: any registry of models, any providers, regions, policies, sources and workers |

They hold for every value of the constants under the named assumptions
(`MaxAttempts` positive, the null values not members of their sets, `Faults`
among the known ones, limits that are numbers, finitely many requests, whose
sum is the month's spend). Four theorems have a further hypothesis and state
it: `RecoverableCorrect` that no event is permanently invalid, `SpendCovers` and
`BudgetHolds` that no fallback is dearer than the model routed first, and the
second half of `OneSweepCorrect` that no time limit strikes. The first is a
situation that the documents leave to an operator; the others are in "Where the
code and its documents disagree" below.

So every invariant, action property and refinement that a run checks is proved
too: the run shows it on an instance and finds it broken by its mutant, the
theorem shows it for every instance.

The arguments:

* *Jobs.* `RowInv` ties the ledger to the row: an attempt is open exactly while
  the row is running, under the row's own token. `LedgerMatchesRow` alone is not
  inductive, because the step that opens an attempt must know that the entry
  above the count is empty and that no earlier token equals the new one.
  `HandlerInv` orders the tokens that handlers hold. `AbsentInv` says that nothing
  exists before the row does, which the refinement needs for its first step.
  `CurrentInv` follows the row's dispatch id through the outbox; `UnclaimedInv`
  is what dead events leave of it: a dead event takes the row away only from a
  job that it fails, or from one that was claimed before.
* *Maintenance.* `RowInv`: owner and lease exactly while running, and the owner is
  the attempt count. `DispatchInv`: there are never more events than attempts
  begun, plus one. `WorkerInv`: a sweeping worker holds the lock. Two sweeps then
  exclude each other by the lock alone, whatever the leases do. A stray has no
  lock, and the property excepts it. That strays come from the time limit alone is
  part of `WorkerInv` too, which gives the second half of `OneSweepCorrect`.
* *E-mail.* `SendInv`: at most one handler is between marking the delivery and the
  provider's answer; while it is, no mail was accepted; a queued delivery is known
  to be unsent. The first conjunct is not preserved without the last, nor the last
  without `ViewInv` (what the owner of the job read of the delivery is still there)
  and `OwnInv` (credentials are never given twice). For the refinement, the
  verdict is a function of the report in every state of that invariant, so a step
  that changes one changes both; and mail is accepted while `MaySend` only, hence
  never after a report that says there is none, or that there is one already.
  The hook may report exhaustion in any status. `SaysUnsent` is the part of the
  reports that must be true of the mails: it covers a delivery that the hook found
  queued, which `SendInv` knows to be unsent, and leaves out one found running.
* *Files.* `LockInv`: at most one completion holds the row, which is then pending;
  `RowInv`: a row past its completion has its one job and its pinned bytes.
  `ViewInv` is the center: what the owner of the job has read of the row is still
  true of it, but for a deletion. `ProgressInv` says what an owner that is `marked`
  or `notified` has already written. `CleanInv`: a row that is ready, and an owner
  about to make it so, has harmless bytes, or bytes that are no longer the pinned
  ones. The refinement needs two facts more. An attempt may reject a file that an
  earlier one made ready, and for `Document` only if nobody can read it:
  `LossInv` says that an owner that will reject such a file has seen its bytes
  gone, and they do not come back. `EarlyInv`: a document
  that is not complete was not deleted, and nobody deletes what was never
  offered, so that what a completion accepts was pending.
* *AI requests.* Two attempts may both have a copy of row 1 that says "queued".
  `BeforeOK`: if the request was executed since, the attempt was overtaken, its
  number is below the job's owner, and `reserve` refuses it. `OneExecutor`: one
  handler dispatches or settles; `DispatchingOK` counts a try or a repair for each
  row, so that the next row exists; `SettlingOK` says which rows are left and that
  no row but the winner's has an output. Sweeps that fail rows without the job's
  ownership disturb none of this, because they never write an output.
* *Money.* The budget is a sum over all requests, and no request's own bill says
  what the sum may still become. `LiabilityOf` is what a request may be charged by
  the end of its execution: its reservation while some handler dispatches for it,
  its bill afterwards. `MoneyInv` bounds the sum of the liabilities by the budget.
  The step that locks the settings row then has to know that what it sums, the
  recorded costs, covers all liabilities; nobody comes to owe more until it
  commits, because the lock has one holder. Recorded costs cover the bill
  (`Covered`) also while the rows are settled one by one, the first one last
  (`Paying`): until then the first row keeps the whole reservation. The sums are
  folds over finite sets. The library's induction cannot be instantiated, so the
  facts about them (`SumType`, `SumGrows`, `SumChanges`) are proved by a least
  counterexample, a number, which needs no operator parameter.
* *A request's job.* `Lifecycle(r)` is `JobLifecycle` with one request's job for
  its state. A claim maps to a start, a handler that raises to a requeue or a
  settlement; what happens to other requests, to rows and to money is a stutter.
  `AnswerIsKept` rests on `OneExecutor`: who else writes the row of an answer does
  not touch the answer.
* *Sessions.* `Deployed`: what serves passed the start-up check, and the roles it
  reaches are a set closed under the grants. `Sessions` says of each connection, by
  the place its flow has reached, what it has bound (`BoundAt`), what it carries
  over a commit (`Carries`) and that it missed nothing but a stale invitation
  (`Sees`). `Standings`: settings that carry a tenant or the platform come after
  the moment at which the principal was entitled to them. From the
  bindings the policies, as predicates, give both halves: the row a statement is
  meant for is visible, the rows of others are not. `Editors` and `Histories` are
  the argument of the record versions, `Settlements` that of the dead events.
* *Provider copies.* `Chosen` carries what routing checked, policy, allow-list,
  region and mode, from the route to the call, over staging, persisting and
  minting. `HoldsItsCopy`: the copy at hand is one of the provider that will be
  called; it needs `RowInv` and `CopyInv`, as the copy may come from a row or a
  cache. `PinnedOnce` keeps the excluded models in one region, which makes the
  choice of a later fallback safe. `Progress` orders a handler's phases. Router
  and selector agree by a fact about the operators: what the router returns it
  has asked the selector about (`RouteRules`).
* *Administrators.* `LockInv`: at most one request is past the advisory lock; a
  removal it holds and has not flagged as a lockout leaves another enabled
  administrator; its revocation's user is still one. `EventInv`: who is being
  deactivated cannot sign in any more, hence cannot pass the permission check.
  `LedgerInv` counts sentinels, teardowns and organisations.
* *Memberships.* `RowLocks`: a row that is read `FOR UPDATE` has one holder, and
  is `sent` while a login or a revocation holds it. `RequestsOK` carries what each
  request has learnt to its commit: the login's invitation is addressed to the
  address it was authenticated with; a revocation that has called WorkOS has
  ended the invitation there. `RevokedInv` then gives what "revoked" means.
  `SuspensionInv` is what the refinement needs besides: a request that will
  suspend holds the row of a member who is active, and no other request holds
  that row, so no removal or second suspension comes between. A removal that
  commits takes the row from the others that read it (`RemovalForgets`), which
  changes nothing of what `RequestsOK` says of them.
* *Scratch retention.* `LifeInv`: an object's age, now and as the sweep noted it,
  together with what remains of the upload's lifetime, never exceeds what the
  upload's own policy granted; a tick takes from the one at least what it adds to
  the other, whatever the settings become. `SweepInv`: what a sweep selected as
  expired has no lifetime left, and what it listed was older than the policy it
  had read. An object deleted while its upload lives was therefore older than that
  policy and younger than its own.

Only model-checked: the four liveness properties, `EventuallySettled`,
`SettledUnlessStuck`, `QuestionsSettle` and `RetentionDrains`, because the provers
treat neither fairness nor `ENABLED`.

Attempts at these proofs corrected the models in places where the instances
were too small to tell. Two rows were missing from what a principal may reach
(`Reaches` in `TenantSession`): a worker that is bound to its job's recipient
sees that user's own memberships and invitations, and so does the step of the
first login that writes the bootstrap grant. The code binds both on purpose; the
instance now has founders in both organisations. `ReachableRoles` was an
iteration bounded by the instance's roles and is the least closed set.
`SelectTransferMode` was a `CASE` with overlapping guards, of which TLC takes the
first; the code's order of early returns is now stated.

## Where the code and its documents disagree

In three places the code does not keep what a document, or its own comment, says.
The contract is stated as documented, and the property excepts the case by a name
that says what it is. Each was taken to TLC without its exception, and TLC finds
the violation. They are not runs of their own: the exception stands in the
property of the run that covers the same machinery, and everything around it
stays checked and proved. `PROJECT.json` lists them under `findings`.

* **A stray sweep** (`OneSweepAtATime`). `modules/maintenance/service.py:189`
  promises that "two workers never sweep concurrently", and `execution.py:121`
  that "the work and the lock share one connection lifetime". The task time limit
  cancels the wrapper in `asyncio.wait` (`execution.py:77`), which cancels neither
  task; the `finally` of `_run_locked` releases the lock under the sweep that goes
  on. The next bucket's sweep may begin beside it (`TimeLimitExceeded`,
  `OtherSweepBegins`), and once its heartbeat fails so may the next attempt of the
  same run. The property says that this is the only way: of two sweeps at work one is
  a stray, and whoever is not holds the lock. The heartbeat that is left behind
  renews the lease of a run that nobody will settle: `SettledUnlessStuck` names
  that too. Without a time limit the property holds without the exception
  (`OneSweepCorrect`).
* **An overlooked e-mail** (`ImplementsMail`, `OutcomesAgree`).
  `docs/decisions/0015-email-provider-interface.md:71` reserves
  `attention_required` for a mail whose submission had begun, and
  `docs/operations.md:345` has operators look for nothing else. At the attempt
  ceiling, or through the delayed finalizer, the exhaustion hook settles a
  delivery that is still `running` as `safe_retries_exhausted`
  (`modules/notifications/tasks.py:407`), although the relay may have accepted
  the mail, or may yet. `Mail` demands that an exhausted mail is unsent. `Report`
  maps a delivery that the hook found running (`Overlooked`) to `unknown`, which
  is what the documents demand; with `Overlooked == FALSE` the run violates
  `ImplementsMail`.
* **A dearer retry** (`SpendCoversBilled`, `WithinBudget`).
  `ai/persistence/service.py:569` says that "a retry-heavy execution can never
  collectively overrun the budget". The reservation is the whole policy at the
  price of the model that is routed first (`ai/service.py:1136`), and a retry
  that falls back to a dearer model may cost more. The run's prices and the
  theorems' hypothesis `NoDearerRetry` except it; with
  `RetryCost <- DearerFallback` (`MCAIExecution`) TLC finds both violated.

## Observations

What the models showed besides of the code that a reader of it may not expect.
None contradicts a property above; where a property excepts a situation, this is
the situation.

* Two coordinators' queued sweeps, the second with an older snapshot and in a new
  bucket, replace a dispatch whose replacement has not been published yet
  (`job_coordinator/reconciliation.py:92`): two events for one dispatch, and the
  job is none the worse.
* The finalizer of a duplicate whose deferrals ran out, which carries no stamp,
  fails a job that was never claimed as `job_retries_exhausted`, with all its
  attempts left (`modules/jobs/service.py:1015`).
* A queued maintenance run whose message is lost is found by no sweep: the other
  exception of `SettledUnlessStuck`.
* A worker that dies after a quarantine was written leaves a file that
  `mark_file_processing` refuses with 409 in every later attempt: its job ends as
  exhausted (`modules/files/service.py:664`). The template ships no scanner.
* A question is cleared in a commit of its own before the job is settled
  (`ai/execution.py:485`). After a crash between the two, the next attempt finds
  the question missing, refuses it before it looks at the rows, and fails the job
  of a request that succeeded. `ExecutedOnce` and `SuccessHasOneOutput` are about
  the rows, which stay right.
* An overtaken attempt that is refused before it dispatches, or finds its question
  expired, marks row 1 as failed by its own copy of it ("queued") in a commit that
  no ownership protects (`ai/execution.py:529`), even when another attempt has
  executed the request meanwhile. The answer and its cost stay (`AnswerCorrect`),
  but the row's status "succeeded" may be lost, and a replay then fails the job.
* The router is given no attachments for a source that was only headed
  (`ai/service.py:885`), so it may commit to a model that the selector denies:
  `RouterAgreesWithSelector` is about sources that were read.
* The stores' `delete` looks into its own cache first and skips the copy of
  another worker (`ai/providers/anthropic_upload.py:418`); the row stays and the
  sweep, which has no cache, deletes it.
* The bootstrap grant takes no advisory lock (`modules/platform_admin/service.py:332`).
  A recovery may commit beside it, hence the exception in
  `RecoveryOnlyWhenLockedOut`. The membership that
  `_ensure_bootstrap_organisation` flushes is outside the `try` that catches a
  lost race, so a concurrent first login may end in an error; it rolls back.
* A lost race for the one open invitation of an address ends in a 500: the unique
  index speaks at the flush (`modules/invitations/service.py:201`), before the
  `try` around the commit that answers 409. Both roll back.
* Removal and suspension revoke the invitations sent to the copied
  `users.email` only (`modules/platform_admin/service.py:1222`): one sent to a
  newer address stays good, and its holder can join again.
* A stale `user.updated` hides an invitation from the login of its addressee, whom
  the policy knows by the copy: the exception in `NeverBlind`.
* The retention sweep selects and writes stale questions without a lock
  (`ai/persistence/service.py:1171`): an answer that commits between the two is
  overwritten as failed.
* A persistent error in listing one organisation's scratch namespace ends the
  sweep before the later organisations; `RetentionDrains` assumes that errors
  stop.

## Not modelled

* rows older than the outbox (no dispatch id) and `CANCELLED`, which no code sets;
* several jobs in one sweep: the rollback of a whole batch when one deduplication
  key collides; `cleanup_published_events`, whose retention is days against
  cooldowns of minutes;
* the legacy maintenance message, but as a competing holder of the lock; a failing
  unlock on an interrupted connection; in `ScratchRetention` and `AITransfers`, a
  stray sweep, which may still delete what it had listed, until its next statement
  meets the closed connection;
* in e-mail: deleted delivery rows and invalid contexts (which fail the job before
  anything is sent), the delivery's own attempt counter, audit rows;
* in files: lists, the validation of what an intent declares, processing jobs of a
  wrong type, the life of a download URL after it was signed, objects nobody refers
  to any more. A file whose job fails by exhaustion stays `uploaded` or
  `processing`: no hook is registered for it;
* in AI requests: the synchronous path (one transaction around one call), prompts
  and output validation, the turn of a month, tokens of attachments, which the
  estimate leaves out; a call that times out reports no usage;
* in AI transfers: files nobody knows of (a worker that dies between the upload and
  the insertion of its row leaves one to the provider's own expiry), the batch size
  of the sweep, the bucket's lifecycle race, the page ceiling, URL lifetimes. Of a
  request's rows and budget only what transfers need is repeated there;
* in scratch retention: objects under no policy after a failed deletion or a late
  PUT, which are left to the store's lifecycle; a queued task without variables has
  no expiry, so `QuestionsSettle` is about questions;
* in memberships: the roles an invitation carries, several organisations (the
  policies are in `TenantSession`), creation and update of organisations;
* in sessions: the recovery and teardown commands, `maintenance_runs`,
  `webhook_events` and the platform catalogue, whose policies admit every role that
  has a grant; the migrations' adoption of existing roles; the schema;
* HTTP adapters, settings parsing, logging, rate limits, the frontend, deployment.

## Plan

Done: jobs, outbox and delivery with their abstract lifecycle; maintenance; e-mail,
files and memberships, each with the abstract specification it implements;
administrators; AI execution, transfers and retention; row policies, roles and
sessions. Each has its run, and every safety property of the runs its proof.

Next, in this order:

1. **Lemmas shared between modules**: the handlers of `EmailDelivery` and
   `FileLifecycle` are proved against `JobLifecycle` separately, by the same
   argument about credentials.
2. **Action properties that only proofs state**: nothing but an erasure or a
   retention step removes an output; a membership ends only by a named action.
3. `cleanup_published_events` and a batch of two jobs in `Outbox`, with the
   proofs about `JobDelivery` carried over.
4. The synchronous AI path beside the durable one, in one budget.
