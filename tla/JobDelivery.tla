---------------------------- MODULE JobDelivery ----------------------------
(***************************************************************************)
(* The durable life of one job: the API schedules it, coordinators publish *)
(* its dispatch events to the broker, workers claim it, run its handler    *)
(* and settle it, and the reconciliation sweeps recover what was lost.     *)
(*                                                                         *)
(* Jobs do not read each other's rows, so one job is the unit; what they   *)
(* share (worker and coordinator capacity) appears as arbitrary delay.     *)
(*                                                                         *)
(* A message slot is one copy of the job's broker message together with    *)
(* the worker that is processing it.  Delivery is at least once: a copy    *)
(* may come back while an earlier one is still being processed, in which   *)
(* case two slots run the same job.  The message carries the job id and,   *)
(* after a broker retry, the stamp of the attempt it last claimed.         *)
(***************************************************************************)
EXTENDS JobRow, Outbox

CONSTANTS
    Slots,           \* copies of the message, and so workers busy with this job
    Sweepers,        \* reconciliation passes in flight at once
    Faults           \* the failures that may happen before the system is calm

ASSUME FaultsAssumption ==
    Faults \subseteq {"loss", "crash", "duplicate", "ambiguous", "transient",
                      "settlement", "dead"}

VARIABLES
    msgs,            \* the message copies
    sweeps,          \* the candidate scans whose rows are not yet locked
    keys,            \* cooldown buckets whose reconcile deduplication key exists
    calm             \* no failure happens from now on

vars == <<rowVars, outboxVars, msgs, sweeps, keys, calm>>

\* retry_policy: max_retries
MaxRetries == MaxAttempts - 1

Stamp == [dispatch : DispatchIds \union {NoId}, token : Nat]
NoStamp == [dispatch |-> NoId, token |-> 0]

\* "running" is a handler under the credential "own"; "exhausted" is the
\* message of the retries-exhausted finalizer.
Message == [phase : {"none", "queued", "running", "exhausted"},
            retries : 0..MaxRetries, stamp : Stamp, own : Stamp]
NoMessage == [phase |-> "none", retries |-> 0, stamp |-> NoStamp, own |-> NoStamp]

Sweep == [scan : {"none", "queued", "running"}, bucket : {"this", "last"},
          dispatch : DispatchIds \union {NoId}]
NoSweep == [scan |-> "none", bucket |-> "this", dispatch |-> NoId]

TypeOK ==
    /\ RowTypeOK
    /\ dispatch_id \in DispatchIds \union {NoId}
    /\ OutboxTypeOK
    /\ msgs \in [Slots -> Message]
    /\ sweeps \in [Sweepers -> Sweep]
    /\ keys \in SUBSET {"this", "last"}
    /\ calm \in BOOLEAN

Init ==
    /\ RowInit
    /\ dispatch_id = NoId
    /\ OutboxInit
    /\ msgs = [m \in Slots |-> NoMessage]
    /\ sweeps = [s \in Sweepers |-> NoSweep]
    /\ keys = {}
    /\ calm = FALSE

-----------------------------------------------------------------------------
Fault(kind) == ~calm /\ kind \in Faults

\* A dispatch id is a UUID: one that nothing refers to any more stands for a
\* new one.
InUse ==
    {dispatch_id}
    \union {e \in DispatchIds : outbox[e].status # "none"}
    \union {pubs[c].event : c \in Publishers}
    \union {msgs[m].stamp.dispatch : m \in Slots}
    \union {msgs[m].own.dispatch : m \in Slots}
    \union {sweeps[s].dispatch : s \in Sweepers}
FreshIds == DispatchIds \ InUse
FreshId == CHOOSE e \in DispatchIds : e \notin InUse

\* Mutant of CreateDispatchEvent: the row is written, the event is not.
CreateDispatchEvent_Missing(e, due) == UNCHANGED outboxVars

CreateDispatchEvent(e, due) ==
    /\ outbox' = [outbox EXCEPT ![e] = PendingEvent(due)]
    /\ pubs' = pubs

\* One transaction: the queued row and its due dispatch event.
ScheduleJob ==
    /\ status = "absent"
    /\ FreshIds # {}
    /\ InsertQueued(FreshId)
    /\ CreateDispatchEvent(FreshId, TRUE)
    /\ UNCHANGED <<msgs, sweeps, keys, calm>>

-----------------------------------------------------------------------------
(* What becomes of a message when its processing ends.                     *)

Ack(m) == msgs' = [msgs EXCEPT ![m] = NoMessage]

\* Nobody acknowledged it, so the broker hands out what it has stored, which
\* does not include the stamp of the claim just made.
Redeliver(m) ==
    msgs' = [msgs EXCEPT ![m].phase = "queued", ![m].own = NoStamp]

\* Normally acknowledged; redelivered when the worker dies in between.
EndMessage(m) == Ack(m) \/ (Fault("crash") /\ Redeliver(m))

RetriesLeft(m) == msgs[m].retries < MaxRetries

\* The Retries middleware: another delivery, or the finalizer's message.
BrokerRetry(m, stamp) ==
    msgs' = [msgs EXCEPT ![m] =
        IF RetriesLeft(m)
        THEN [phase |-> "queued", retries |-> msgs[m].retries + 1,
              stamp |-> stamp, own |-> NoStamp]
        ELSE [phase |-> "exhausted", retries |-> 0, stamp |-> stamp,
              own |-> NoStamp]]

-----------------------------------------------------------------------------
(* claim_dispatch, called first for every delivered message.               *)

\* Another attempt holds a live lease, or the job's next dispatch is not due.
Deferred ==
    \/ LiveLease
    \/ /\ status = "queued" /\ dispatch_id # NoId
       /\ outbox[dispatch_id].status = "pending"
       /\ ~outbox[dispatch_id].elapsed

ClaimStale(m) ==
    /\ msgs[m].phase = "queued"
    /\ Terminal
    /\ EndMessage(m)
    /\ UNCHANGED <<rowVars, outboxVars, sweeps, keys, calm>>

\* A short deferral is waited out in the worker (no change of state here), a
\* long one goes back to the broker.
ClaimDeferred(m) ==
    /\ msgs[m].phase = "queued"
    /\ ~Terminal /\ Deferred
    /\ BrokerRetry(m, msgs[m].stamp)
    /\ UNCHANGED <<rowVars, outboxVars, sweeps, keys, calm>>

ClaimExhausted(m) ==
    /\ msgs[m].phase = "queued"
    /\ ~Terminal /\ ~Deferred
    /\ attempt_count >= MaxAttempts
    /\ FailExhausted
    /\ EndMessage(m)
    /\ UNCHANGED <<outboxVars, sweeps, keys, calm>>

ClaimGranted(m) ==
    /\ msgs[m].phase = "queued"
    /\ ~Terminal /\ ~Deferred
    /\ attempt_count < MaxAttempts
    /\ BeginAttempt
    /\ msgs' = [msgs EXCEPT ![m].phase = "running",
                            ![m].own = [dispatch |-> dispatch_id,
                                        token |-> NewToken]]
    /\ UNCHANGED <<outboxVars, sweeps, keys, calm>>

-----------------------------------------------------------------------------
(* The handler, under the credential it captured.                          *)

Owns(m) == VerifyOwner(msgs[m].own.token)

UpdateProgress(m) ==
    /\ msgs[m].phase = "running"
    /\ Owns(m) /\ status = "running"
    /\ RenewLease
    /\ UNCHANGED <<outboxVars, msgs, sweeps, keys, calm>>

Succeed(m) ==
    /\ msgs[m].phase = "running"
    /\ Owns(m) /\ ~Terminal
    /\ SucceedLocked
    /\ EndMessage(m)
    /\ UNCHANGED <<outboxVars, sweeps, keys, calm>>

\* The handler settles the row and raises JobPermanentError, which the
\* middleware does not retry.
Fail(m) ==
    /\ msgs[m].phase = "running"
    /\ Owns(m) /\ ~Terminal
    /\ FailLocked("handler_error", "failed")
    /\ EndMessage(m)
    /\ UNCHANGED <<outboxVars, sweeps, keys, calm>>

\* A settlement that committed although the worker saw an error is retried
\* by the broker, like one that did not commit.
EndSettlement(m) ==
    \/ EndMessage(m)
    \/ Fault("settlement") /\ BrokerRetry(m, msgs[m].own)

SettleRetryableFailure(m) ==
    /\ msgs[m].phase = "running"
    /\ Owns(m) /\ status = "running"
    /\ \/ /\ attempt_count >= MaxAttempts
          /\ FailExhausted
          /\ UNCHANGED outboxVars
       \/ /\ attempt_count < MaxAttempts
          /\ FreshIds # {}
          /\ RequeueForRetry(FreshId)
          /\ CreateDispatchEvent(FreshId, FALSE)
    /\ EndSettlement(m)
    /\ UNCHANGED <<sweeps, keys, calm>>

\* Whatever the handler tries, the owner check or the terminal status stops
\* it; the wrapper acknowledges the message.
SettledStale(m) ==
    /\ msgs[m].phase = "running"
    /\ ~Owns(m) \/ status # "running"
    /\ EndMessage(m)
    /\ UNCHANGED <<rowVars, outboxVars, sweeps, keys, calm>>

\* The retry decision could not be committed, or the time limit interrupted
\* the handler: the broker's own retry is the fallback.
SettlementFails(m) ==
    /\ msgs[m].phase = "running"
    /\ Fault("settlement")
    /\ BrokerRetry(m, msgs[m].own)
    /\ UNCHANGED <<rowVars, outboxVars, sweeps, keys, calm>>

\* The worker dies while the handler runs.
WorkerCrash(m) ==
    /\ msgs[m].phase = "running"
    /\ Fault("crash")
    /\ Redeliver(m)
    /\ UNCHANGED <<rowVars, outboxVars, sweeps, keys, calm>>

\* Mutant of FinalizerMayFail: correlated by the dispatch alone.
FinalizerMayFail_DispatchOnly(m) ==
    /\ ~Terminal /\ ~LiveLease
    /\ msgs[m].stamp.dispatch = dispatch_id

\* settle_after_retries_exhausted, for the attempt the message claimed last;
\* a stamp-less message speaks only for a row that was never claimed.
FinalizerMayFail(m) ==
    /\ ~Terminal
    /\ IF msgs[m].stamp = NoStamp
       THEN owner_token = 0
       ELSE /\ msgs[m].stamp.dispatch = dispatch_id
            /\ msgs[m].stamp.token = owner_token
    /\ ~LiveLease

MarkJobFailedAfterRetries(m) ==
    /\ msgs[m].phase = "exhausted"
    /\ IF FinalizerMayFail(m) THEN FailExhausted ELSE UNCHANGED rowVars
    /\ Ack(m) \/ (Fault("crash") /\ msgs' = msgs)
    /\ UNCHANGED <<outboxVars, sweeps, keys, calm>>

-----------------------------------------------------------------------------
(* The broker.                                                             *)

LoseMessage(m) ==
    /\ msgs[m].phase \in {"queued", "exhausted"}
    /\ Fault("loss")
    /\ Ack(m)
    /\ UNCHANGED <<rowVars, outboxVars, sweeps, keys, calm>>

\* The broker gives a worker up for dead, while its handler still runs.
DuplicateMessage(m) ==
    /\ msgs[m].phase = "running"
    /\ Fault("duplicate")
    /\ \E n \in Slots :
         /\ msgs[n] = NoMessage
         /\ msgs' = [msgs EXCEPT ![n] = [msgs[m] EXCEPT !.phase = "queued",
                                                        !.own = NoStamp]]
    /\ UNCHANGED <<rowVars, outboxVars, sweeps, keys, calm>>

-----------------------------------------------------------------------------
(* The coordinators' claim, publish and settle cycle.                      *)

ClaimEvent(c) ==
    /\ ClaimDueEvents(c) \/ ReclaimStaleClaims(c)
    /\ UNCHANGED <<rowVars, msgs, sweeps, keys, calm>>

EnqueueMessage ==
    LET free == {n \in Slots : msgs[n] = NoMessage}
    IN  /\ free # {}
        /\ msgs' = [msgs EXCEPT ![CHOOSE n \in free : TRUE] =
                        [NoMessage EXCEPT !.phase = "queued"]]

\* The broker may have taken the message although the publisher saw an error;
\* a registry or contract error is permanent and precedes the broker.
PublishEvent(c) ==
    /\ \/ EnqueueMessage /\ PublishReturns(c, "published")
       \/ Fault("ambiguous") /\ EnqueueMessage /\ PublishReturns(c, "transient")
       \/ Fault("transient") /\ msgs' = msgs /\ PublishReturns(c, "transient")
       \/ Fault("dead") /\ msgs' = msgs /\ PublishReturns(c, "dead")
    /\ UNCHANGED <<rowVars, sweeps, keys, calm>>

SettleEventPublished(c) ==
    /\ SettlePublished(c, dispatch_id)
    /\ UNCHANGED <<rowVars, msgs, sweeps, keys, calm>>

\* Mutant of NeverClaimedBehind: counts from the first attempt.
NeverClaimedBehind_OffByOne(event) ==
    dispatch_id = event /\ status = "queued" /\ attempt_count = 1

\* The job still waits for this event and nobody ever claimed it.
NeverClaimedBehind(event) ==
    dispatch_id = event /\ status = "queued" /\ attempt_count = 0

\* The dead event and, when nobody ever claimed the job behind it, that job
\* settle in one transaction.
SettleEventDead(c) ==
    /\ pubs[c].phase = "dead"
    /\ pubs' = [pubs EXCEPT ![c] = Idle]
    /\ IF OwnsClaim(c)
       THEN /\ MarkDead(c)
            /\ IF NeverClaimedBehind(pubs[c].event)
               THEN FailLocked("job_dispatch_invalid", "failed")
               ELSE UNCHANGED rowVars
       ELSE UNCHANGED <<outbox, rowVars>>
    /\ UNCHANGED <<msgs, sweeps, keys, calm>>

ReleaseEvent(c) ==
    /\ ReleaseClaim(c)
    /\ UNCHANGED <<rowVars, msgs, sweeps, keys, calm>>

CoordinatorCrash(c) ==
    /\ Fault("crash")
    /\ DropClaim(c)
    /\ UNCHANGED <<rowVars, msgs, sweeps, keys, calm>>

-----------------------------------------------------------------------------
(* Reconciliation.  A sweep is one statement that finds candidates under   *)
(* its snapshot and then locks their job rows.  A row that another         *)
(* transaction changed in between is locked in its new version and only    *)
(* conditions on the job row itself are evaluated again, so the two halves *)
(* are separate steps.  Its cooldown bucket is the one the cycle began in. *)

NoActiveEvent == ActiveEvents = {}

ScanQueuedJobs(s) ==
    /\ sweeps[s] = NoSweep
    /\ status = "queued"
    /\ PublishedEvents # {}
    /\ \A e \in PublishedEvents : outbox[e].elapsed
    /\ NoActiveEvent
    /\ sweeps' = [sweeps EXCEPT ![s].scan = "queued"]
    /\ UNCHANGED <<rowVars, outboxVars, msgs, keys, calm>>

ScanRunningJobs(s) ==
    /\ sweeps[s] = NoSweep
    /\ status = "running" /\ lease = "expired"
    /\ dispatch_id \in PublishedEvents
    /\ outbox[dispatch_id].elapsed
    /\ NoActiveEvent
    /\ sweeps' = [sweeps EXCEPT ![s].scan = "running", ![s].dispatch = dispatch_id]
    /\ UNCHANGED <<rowVars, outboxVars, msgs, keys, calm>>

\* The replacement event; a second one under the same deduplication key
\* fails the transaction.
Replace(s, Requeue(_)) ==
    IF sweeps[s].bucket \in keys
    THEN UNCHANGED <<rowVars, outboxVars, keys>>
    ELSE /\ FreshIds # {}
         /\ Requeue(FreshId)
         /\ CreateDispatchEvent(FreshId, TRUE)
         /\ keys' = keys \union {sweeps[s].bucket}

\* Mutant of EnforceAttemptCeiling: one attempt too many.
EnforceAttemptCeiling_OffByOne == attempt_count > MaxAttempts

EnforceAttemptCeiling == attempt_count >= MaxAttempts

ReconcileQueuedJob(s) ==
    /\ sweeps[s].scan = "queued"
    /\ sweeps' = [sweeps EXCEPT ![s] = NoSweep]
    /\ \/ /\ status # "queued"
          /\ UNCHANGED <<rowVars, outboxVars, keys>>
       \/ /\ status = "queued" /\ EnforceAttemptCeiling
          /\ FailExhausted
          /\ UNCHANGED <<outboxVars, keys>>
       \/ /\ status = "queued" /\ ~EnforceAttemptCeiling
          /\ Replace(s, Redispatch)
    /\ UNCHANGED <<msgs, calm>>

\* The row as it is once locked.
StillAbandoned(s) ==
    /\ status = "running" /\ lease = "expired"
    /\ dispatch_id = sweeps[s].dispatch

ReconcileRunningJob(s) ==
    /\ sweeps[s].scan = "running"
    /\ sweeps' = [sweeps EXCEPT ![s] = NoSweep]
    /\ \/ /\ ~StillAbandoned(s)
          /\ UNCHANGED <<rowVars, outboxVars, keys>>
       \/ /\ StillAbandoned(s) /\ EnforceAttemptCeiling
          /\ FailExhausted
          /\ UNCHANGED <<outboxVars, keys>>
       \/ /\ StillAbandoned(s) /\ ~EnforceAttemptCeiling
          /\ Replace(s, RequeueAbandoned)
    /\ UNCHANGED <<msgs, calm>>

-----------------------------------------------------------------------------
(* Time.                                                                   *)

LeaseExpires ==
    /\ LiveLease
    /\ lease' = "expired"
    /\ UNCHANGED <<status, attempt_count, owner_token, dispatch_id, error_code,
                   ledger, audits, outboxVars, msgs, sweeps, keys, calm>>

DueTimeArrives ==
    /\ EventElapses
    /\ UNCHANGED <<rowVars, msgs, sweeps, keys, calm>>

\* A cooldown goes by: every published row is now behind the cutoff and the
\* next bucket begins.  No sweep is so slow as to see two buckets begin.
CooldownPasses ==
    /\ \A s \in Sweepers : sweeps[s].bucket = "this"
    /\ keys # {} \/ \E e \in PublishedEvents : ~outbox[e].elapsed
    /\ outbox' = Forget([e \in DispatchIds |->
                            IF e \in PublishedEvents
                            THEN [outbox[e] EXCEPT !.elapsed = TRUE]
                            ELSE outbox[e]], dispatch_id)
    /\ keys' = IF "this" \in keys THEN {"last"} ELSE {}
    /\ sweeps' = [s \in Sweepers |->
                    IF sweeps[s] = NoSweep THEN NoSweep
                    ELSE [sweeps[s] EXCEPT !.bucket = "last"]]
    /\ UNCHANGED <<rowVars, pubs, msgs, calm>>

BecomeCalm ==
    /\ ~calm
    /\ calm' = TRUE
    /\ UNCHANGED <<rowVars, outboxVars, msgs, sweeps, keys>>

-----------------------------------------------------------------------------
ClaimDispatch(m) ==
    ClaimStale(m) \/ ClaimDeferred(m) \/ ClaimExhausted(m) \/ ClaimGranted(m)

HandlerEnds(m) ==
    Succeed(m) \/ Fail(m) \/ SettleRetryableFailure(m) \/ SettledStale(m)

MessageStep(m) ==
    \/ ClaimDispatch(m) \/ HandlerEnds(m)
    \/ UpdateProgress(m) \/ MarkJobFailedAfterRetries(m)
    \/ SettlementFails(m) \/ WorkerCrash(m)
    \/ LoseMessage(m) \/ DuplicateMessage(m)

CoordinatorStep(c) ==
    \/ ClaimEvent(c) \/ PublishEvent(c)
    \/ SettleEventPublished(c) \/ SettleEventDead(c) \/ ReleaseEvent(c)
    \/ CoordinatorCrash(c)

SweepStep(s) ==
    \/ ScanQueuedJobs(s) \/ ReconcileQueuedJob(s)
    \/ ScanRunningJobs(s) \/ ReconcileRunningJob(s)

Next ==
    \/ ScheduleJob
    \/ \E m \in Slots : MessageStep(m)
    \/ \E c \in Publishers : CoordinatorStep(c)
    \/ \E s \in Sweepers : SweepStep(s)
    \/ LeaseExpires \/ DueTimeArrives \/ CooldownPasses

Spec == Init /\ [][Next]_vars

CalmSpec == Init /\ [][Next \/ BecomeCalm]_vars

(***************************************************************************)
(* Fairness.  Failures stop at some point.  A message the broker holds is  *)
(* delivered again until it is settled; a handler ends, because the task   *)
(* time limit interrupts it; coordinators poll and run their sweeps in     *)
(* every cycle; clocks advance.                                            *)
(***************************************************************************)
Fairness ==
    /\ WF_vars(BecomeCalm)
    /\ \A m \in Slots : /\ WF_vars(ClaimDispatch(m))
                        /\ WF_vars(HandlerEnds(m))
                        /\ WF_vars(MarkJobFailedAfterRetries(m))
    /\ \A c \in Publishers : /\ WF_vars(ClaimEvent(c))
                             /\ WF_vars(PublishEvent(c))
                             /\ WF_vars(SettleEventPublished(c))
                             /\ WF_vars(SettleEventDead(c))
                             /\ WF_vars(ReleaseEvent(c))
    /\ \A s \in Sweepers : /\ WF_vars(ScanQueuedJobs(s) \/ ScanRunningJobs(s))
                           /\ WF_vars(ReconcileQueuedJob(s))
                           /\ WF_vars(ReconcileRunningJob(s))
    /\ WF_vars(LeaseExpires)
    /\ WF_vars(DueTimeArrives)
    /\ WF_vars(CooldownPasses)

FairSpec == CalmSpec /\ Fairness

-----------------------------------------------------------------------------
(* Properties (LedgerMatchesRow and OneOutcomeAudited are in JobRow).       *)

\* At most one handler holds the credential in force, so no two deliveries
\* of the job, redelivered, duplicated or taken over, can both settle it;
\* and a credential in force is one that the open attempt was given.
OneHandlerOwns ==
    \A m \in Slots :
      /\ msgs[m].phase = "running"
      /\ msgs[m].own.token = owner_token
      => /\ \A n \in Slots \ {m} : msgs[n].phase = "running" =>
                                      msgs[n].own.token < owner_token
         /\ status = "running" \/ Terminal

\* Whatever is lost (the broker's copy, a worker, a coordinator between claim
\* and settlement), the event an unsettled job is waiting for is still in the
\* outbox: it will be published, or has been, so that a sweep can replace it.
Recoverable ==
    status \in {"queued", "running"} => outbox[dispatch_id].status # "none"

\* A permanently invalid event never leaves a job nobody has claimed waiting
\* without any event: the job fails with it, or another event is still there.
DeadEventStrandsNoUnclaimedJob ==
    status = "queued" /\ attempt_count = 0 =>
      ActiveEvents \union PublishedEvents # {}

\* The attempt a delivery speaks for is no longer the current one: its
\* handler's credential was rotated, or its finalizer's stamp names another
\* dispatch or credential.
Superseded(m) ==
    \/ msgs[m].phase = "running" /\ msgs[m].own.token # owner_token
    \/ /\ msgs[m].phase = "exhausted" /\ msgs[m].stamp # NoStamp
       /\ msgs[m].stamp # [dispatch |-> dispatch_id, token |-> owner_token]

\* A delivery that was superseded (by a takeover, a recovery, a scheduled
\* retry or a newer attempt) changes nothing durable by any later step of
\* its own: neither the row and its ledger nor the outbox.
SupersededDeliveryIsHarmless ==
    [][\A m \in Slots : Superseded(m) /\ msgs'[m] # msgs[m]
                         => UNCHANGED <<rowVars, outbox>>]_vars

\* While an execution lease is live, only the delivery that holds the owner
\* token ends the attempt: no claim, sweep, finalizer or dead event can.
LiveLeaseIsRespected ==
    [][LiveLease /\ (status' # "running" \/ owner_token' # owner_token)
       => \E m \in Slots : /\ msgs[m].phase = "running"
                           /\ msgs[m].own.token = owner_token
                           /\ msgs'[m] # msgs[m]]_vars

\* A coordinator whose publication claim was taken over changes neither the
\* event nor the job when it settles or releases late.
SupersededClaimIsHarmless ==
    [][\A c \in Publishers :
        /\ pubs[c].phase \in {"published", "transient", "dead"}
        /\ ~(/\ outbox[pubs[c].event].status = "publishing"
             /\ outbox[pubs[c].event].claim_token = c)
        /\ pubs'[c] # pubs[c]
        => UNCHANGED <<rowVars, outbox>>]_vars

\* The row's history is a history of the abstract job.
Lifecycle == INSTANCE JobLifecycle WITH
    MaxStarts <- MaxAttempts, state <- status, starts <- attempt_count,
    owner <- owner_token, outcomes <- audits
ImplementsLifecycle == Lifecycle!Spec

\* Once failures stop, an accepted job is eventually settled.
EventuallySettled == (status = "queued") ~> Terminal
=============================================================================
