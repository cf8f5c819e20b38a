------------------------- MODULE JobDelivery_proofs -------------------------
(***************************************************************************)
(* Theorems of JobDelivery, for every set of message copies, publishers,   *)
(* sweepers and dispatch ids, every attempt ceiling and every set of       *)
(* failures: its invariants, that it implements JobLifecycle, and what its *)
(* steps may never do.                                                     *)
(***************************************************************************)
EXTENDS JobDelivery, TLAPS

USE DEF NewToken

-----------------------------------------------------------------------------
(* What each transaction on the job row preserves, whatever calls it: one  *)
(* lemma per operator of JobRow.  RowInv is inductive under these steps.   *)

RowInv == RowTypeOK /\ LedgerMatchesRow /\ OneOutcomeAudited

\* The row before it is inserted satisfies the invariant.
LEMMA RowInitInv == RowInit => RowInv
<1> SUFFICES ASSUME RowInit PROVE RowInv
  OBVIOUS
<1>1. RowTypeOK
  BY MaxAttemptsAssumption
     DEF RowInit, RowTypeOK, JobStatus, ErrorCode, Attempt, NoAttempt, AttemptStatus
<1>2. LedgerMatchesRow
  BY MaxAttemptsAssumption DEF RowInit, LedgerMatchesRow, NoAttempt
<1>3. OneOutcomeAudited
  BY DEF RowInit, OneOutcomeAudited, Terminal
<1> QED
  BY <1>1, <1>2, <1>3 DEF RowInv

\* The invariant reads nothing but the row, its ledger and the audit rows.
LEMMA RowUnchangedInv ==
    ASSUME RowInv,
           UNCHANGED <<status, attempt_count, owner_token, lease, error_code,
                       ledger, audits>>
    PROVE  RowInv'
BY DEF RowInv, RowTypeOK, LedgerMatchesRow, OneOutcomeAudited, Terminal

\* Closing the open attempt leaves a ledger whose attempts carry the same
\* credentials, none of them open; the attempts that were not open are as
\* they were.
LEMMA CloseAttemptLedger ==
    ASSUME RowInv, NEW outcome \in AttemptStatus \ {"none", "running"}
    PROVE  /\ CloseAttempt(outcome) \in [1..MaxAttempts -> Attempt]
           /\ \A n \in 1..MaxAttempts :
                /\ CloseAttempt(outcome)[n].owner_token = ledger[n].owner_token
                /\ CloseAttempt(outcome)[n].status # "running"
                /\ ledger[n].status # "none" => CloseAttempt(outcome)[n].status # "none"
                /\ ledger[n] = NoAttempt => CloseAttempt(outcome)[n] = NoAttempt
<1>1. CloseAttempt(outcome) \in [1..MaxAttempts -> Attempt]
  BY DEF RowInv, RowTypeOK, CloseAttempt, Attempt
<1>2. ASSUME NEW n \in 1..MaxAttempts
      PROVE  /\ CloseAttempt(outcome)[n].owner_token = ledger[n].owner_token
             /\ CloseAttempt(outcome)[n].status # "running"
             /\ ledger[n].status # "none" => CloseAttempt(outcome)[n].status # "none"
             /\ ledger[n] = NoAttempt => CloseAttempt(outcome)[n] = NoAttempt
  <2>1. ledger[n] \in Attempt /\ owner_token \in Nat /\ attempt_count \in 0..MaxAttempts
    BY DEF RowInv, RowTypeOK
  <2>2. CASE n \in RunningAttempt
    <3>1. ledger[n].status = "running"
      BY <2>2 DEF RunningAttempt
    <3>2. CloseAttempt(outcome)[n] = [ledger[n] EXCEPT !.status = outcome]
      BY <2>2 DEF CloseAttempt
    <3> QED
      BY <2>1, <3>1, <3>2 DEF Attempt, NoAttempt
  <2>3. CASE n \notin RunningAttempt
    <3>1. CloseAttempt(outcome)[n] = ledger[n]
      BY <2>3 DEF CloseAttempt
    <3>2. ledger[n].status # "running"
      <4>1. SUFFICES ASSUME ledger[n].status = "running" PROVE FALSE
        OBVIOUS
      <4>2. ledger[n].owner_token = owner_token /\ n = attempt_count
        BY <4>1 DEF RowInv, LedgerMatchesRow
      <4>3. owner_token # 0
        BY <2>1, <4>2 DEF RowInv, LedgerMatchesRow
      <4> QED
        BY <2>3, <4>1, <4>2, <4>3 DEF RunningAttempt
    <3> QED
      BY <3>1, <3>2
  <2> QED
    BY <2>2, <2>3
<1> QED
  BY <1>1, <1>2

\* A ledger whose open attempt was closed suits any row that is not running
\* and whose credential did not go back.
LEMMA ClosedLedgerMatches ==
    ASSUME RowInv, NEW outcome \in AttemptStatus \ {"none", "running"},
           ledger' = CloseAttempt(outcome),
           attempt_count' = attempt_count,
           owner_token' \in {owner_token, owner_token + 1},
           status' # "running", lease' = "none"
    PROVE  LedgerMatchesRow'
<1>1. owner_token \in Nat /\ attempt_count \in 0..MaxAttempts
  BY DEF RowInv, RowTypeOK
<1>2. \A n \in 1..MaxAttempts :
        /\ ledger'[n].owner_token = ledger[n].owner_token
        /\ ledger'[n].status # "running"
        /\ ledger[n].status # "none" => ledger'[n].status # "none"
        /\ ledger[n] = NoAttempt => ledger'[n] = NoAttempt
  BY CloseAttemptLedger
<1>3. \A n \in 1..MaxAttempts :
        /\ n > attempt_count => ledger[n] = NoAttempt
        /\ n <= attempt_count => /\ ledger[n].status # "none"
                                /\ ledger[n].owner_token \in 1..owner_token
        /\ n <= attempt_count =>
             \A k \in 1..(n - 1) : ledger[k].owner_token < ledger[n].owner_token
  BY DEF RowInv, LedgerMatchesRow
<1>4. ASSUME NEW n \in 1..MaxAttempts, n <= attempt_count,
             NEW k \in 1..(n - 1)
      PROVE  ledger'[k].owner_token < ledger'[n].owner_token
  <2>1. k \in 1..MaxAttempts
    BY <1>1, MaxAttemptsAssumption
  <2> QED
    BY <1>2, <1>3, <1>4, <2>1
<1>5. \A n \in 1..MaxAttempts :
        /\ n > attempt_count' => ledger'[n] = NoAttempt
        /\ n <= attempt_count' => /\ ledger'[n].status # "none"
                                 /\ ledger'[n].owner_token \in 1..owner_token'
  BY <1>1, <1>2, <1>3
<1> QED
  BY <1>2, <1>4, <1>5 DEF LedgerMatchesRow

\* A settlement that closes the open attempt and ends the running state.
LEMMA ClosingInv ==
    ASSUME RowInv, NEW outcome \in AttemptStatus \ {"none", "running"},
           ledger' = CloseAttempt(outcome),
           attempt_count' = attempt_count,
           owner_token' \in {owner_token, owner_token + 1},
           lease' = "none", error_code' \in ErrorCode,
           \/ status' = "queued" /\ ~Terminal /\ audits' = audits
           \/ status' \in {"succeeded", "failed"} /\ ~Terminal /\ audits' = audits + 1
    PROVE  RowInv'
<1>1. LedgerMatchesRow'
  <2>1. status' # "running"
    OBVIOUS
  <2> QED
    BY <2>1, ClosedLedgerMatches
<1>2. CloseAttempt(outcome) \in [1..MaxAttempts -> Attempt]
  BY CloseAttemptLedger
<1>3. RowTypeOK'
  BY <1>2 DEF RowInv, RowTypeOK, JobStatus
<1>4. OneOutcomeAudited'
  BY DEF RowInv, OneOutcomeAudited, Terminal
<1> QED
  BY <1>1, <1>3, <1>4 DEF RowInv

-----------------------------------------------------------------------------
(* One lemma per operation of the row.                                     *)

\* schedule_job inserts the row once.
LEMMA InsertQueuedInv ==
    ASSUME RowInv, status = "absent", NEW event, InsertQueued(event)
    PROVE  RowInv'
BY DEF RowInv, RowTypeOK, JobStatus, LedgerMatchesRow, OneOutcomeAudited,
       Terminal, InsertQueued

\* _fail_locked and _settle_exhausted, whoever decides to fail the job.
LEMMA FailLockedInv ==
    ASSUME RowInv, ~Terminal, NEW code \in ErrorCode,
           NEW outcome \in AttemptStatus \ {"none", "running"},
           FailLocked(code, outcome)
    PROVE  RowInv'
<1>1. owner_token' \in {owner_token, owner_token + 1}
  BY DEF FailLocked
<1> QED
  BY <1>1, ClosingInv DEF FailLocked

\* Failing a job for exhausted retries (enforce_attempt_ceiling_locked and the
\* finalizer) keeps the row invariant.
LEMMA FailExhaustedInv ==
    ASSUME RowInv, ~Terminal, FailExhausted
    PROVE  RowInv'
<1>1. "job_retries_exhausted" \in ErrorCode
      /\ "exhausted" \in AttemptStatus \ {"none", "running"}
  BY DEF ErrorCode, AttemptStatus
<1> QED
  BY <1>1, FailLockedInv DEF FailExhausted

\* succeed.
LEMMA SucceedLockedInv ==
    ASSUME RowInv, ~Terminal, SucceedLocked
    PROVE  RowInv'
<1>1. "succeeded" \in AttemptStatus \ {"none", "running"}
  BY DEF AttemptStatus
<1>2. error_code' \in ErrorCode /\ owner_token' \in {owner_token, owner_token + 1}
  BY DEF SucceedLocked, RowInv, RowTypeOK
<1> QED
  BY <1>1, <1>2, ClosingInv DEF SucceedLocked

\* settle_retryable_failure below the ceiling.
LEMMA RequeueForRetryInv ==
    ASSUME RowInv, ~Terminal, NEW event, RequeueForRetry(event)
    PROVE  RowInv'
<1>1. "retry_scheduled" \in AttemptStatus \ {"none", "running"}
  BY DEF AttemptStatus
<1>2. error_code' \in ErrorCode /\ owner_token' \in {owner_token, owner_token + 1}
  BY DEF RequeueForRetry, RowInv, RowTypeOK
<1> QED
  BY <1>1, <1>2, ClosingInv DEF RequeueForRetry

\* reconcile_running_jobs below the ceiling.
LEMMA RequeueAbandonedInv ==
    ASSUME RowInv, ~Terminal, NEW event, RequeueAbandoned(event)
    PROVE  RowInv'
<1>1. "abandoned" \in AttemptStatus \ {"none", "running"}
  BY DEF AttemptStatus
<1>2. error_code' \in ErrorCode /\ owner_token' \in {owner_token, owner_token + 1}
  BY DEF RequeueAbandoned, RowInv, RowTypeOK
<1> QED
  BY <1>1, <1>2, ClosingInv DEF RequeueAbandoned

\* The granted claim of claim_dispatch, from the queue or as a takeover.
LEMMA BeginAttemptInv ==
    ASSUME RowInv, ~Terminal, attempt_count < MaxAttempts, BeginAttempt
    PROVE  RowInv'
<1> DEFINE closed == IF status = "running" THEN CloseAttempt("abandoned") ELSE ledger
           last == attempt_count + 1
           opened == [status |-> "running", owner_token |-> owner_token + 1]
<1>1. /\ owner_token \in Nat /\ attempt_count \in 0..MaxAttempts
      /\ last \in 1..MaxAttempts /\ ledger \in [1..MaxAttempts -> Attempt]
  BY MaxAttemptsAssumption DEF RowInv, RowTypeOK
<1>2. /\ closed \in [1..MaxAttempts -> Attempt]
      /\ \A n \in 1..MaxAttempts :
           /\ closed[n].owner_token = ledger[n].owner_token
           /\ closed[n].status # "running"
           /\ ledger[n].status # "none" => closed[n].status # "none"
           /\ ledger[n] = NoAttempt => closed[n] = NoAttempt
  <2>1. CASE status = "running"
    <3>1. "abandoned" \in AttemptStatus \ {"none", "running"}
      BY DEF AttemptStatus
    <3> QED
      BY <2>1, <3>1, CloseAttemptLedger
  <2>2. CASE status # "running"
    BY <1>1, <2>2 DEF RowInv, LedgerMatchesRow
  <2> QED
    BY <2>1, <2>2
<1>3. /\ ledger' = [closed EXCEPT ![last] = opened]
      /\ status' = "running" /\ lease' = "live" /\ attempt_count' = last
      /\ owner_token' = owner_token + 1 /\ UNCHANGED <<error_code, audits>>
  BY DEF BeginAttempt
<1> HIDE DEF closed
<1>4. ledger'[last] = opened /\ \A n \in 1..MaxAttempts : n # last => ledger'[n] = closed[n]
  BY <1>1, <1>2, <1>3
<1>5. \A n \in 1..MaxAttempts :
        /\ n > attempt_count => ledger[n] = NoAttempt
        /\ n <= attempt_count => /\ ledger[n].status # "none"
                                /\ ledger[n].owner_token \in 1..owner_token
        /\ n <= attempt_count =>
             \A k \in 1..(n - 1) : ledger[k].owner_token < ledger[n].owner_token
  BY DEF RowInv, LedgerMatchesRow
<1>6. ASSUME NEW n \in 1..MaxAttempts
      PROVE  /\ n > last => ledger'[n] = NoAttempt
             /\ n <= last => /\ ledger'[n].status # "none"
                             /\ ledger'[n].owner_token \in 1..(owner_token + 1)
             /\ ledger'[n].status = "running" =>
                   n = last /\ ledger'[n].owner_token = owner_token + 1
  <2>1. CASE n = last
    BY <1>1, <1>4, <2>1
  <2>2. CASE n # last
    BY <1>1, <1>2, <1>4, <1>5, <2>2
  <2> QED
    BY <2>1, <2>2
<1>7. ASSUME NEW n \in 1..MaxAttempts, n <= last, NEW k \in 1..(n - 1)
      PROVE  ledger'[k].owner_token < ledger'[n].owner_token
  <2>1. k \in 1..MaxAttempts /\ k # last /\ k <= attempt_count
    BY <1>1, <1>7, MaxAttemptsAssumption
  <2>2. ledger'[k].owner_token = ledger[k].owner_token
    BY <1>2, <1>4, <2>1
  <2>3. CASE n = last
    BY <1>1, <1>4, <1>5, <2>1, <2>2, <2>3
  <2>4. CASE n # last
    BY <1>1, <1>2, <1>4, <1>5, <1>7, <2>2, <2>4
  <2> QED
    BY <2>3, <2>4
<1>8. LedgerMatchesRow'
  BY <1>1, <1>3, <1>4, <1>6, <1>7 DEF LedgerMatchesRow
<1>9. RowTypeOK'
  <2>1. opened \in Attempt
    BY <1>1 DEF Attempt, AttemptStatus
  <2>2. ledger' \in [1..MaxAttempts -> Attempt]
    BY <1>2, <1>3, <2>1
  <2> QED
    BY <1>1, <1>3, <2>2 DEF RowInv, RowTypeOK, JobStatus
<1>10. OneOutcomeAudited'
  BY <1>3 DEF RowInv, OneOutcomeAudited, Terminal
<1> QED
  BY <1>8, <1>9, <1>10 DEF RowInv

\* update_progress, and the passing of the lease.
LEMMA LeaseChangeInv ==
    ASSUME RowInv, status = "running", lease' \in {"live", "expired"},
           UNCHANGED <<status, attempt_count, owner_token, error_code, ledger,
                       audits>>
    PROVE  RowInv'
<1>1. RowTypeOK'
  BY DEF RowInv, RowTypeOK
<1>2. LedgerMatchesRow'
  BY DEF RowInv, LedgerMatchesRow
<1>3. OneOutcomeAudited'
  BY DEF RowInv, OneOutcomeAudited, Terminal
<1> QED
  BY <1>1, <1>2, <1>3 DEF RowInv

-----------------------------------------------------------------------------
(* The row, its ledger and its audit rows.                                 *)

\* Whatever a delivered message does, through claim_dispatch, the handler,
\* its settlement or the finalizer, it keeps the row invariant.
LEMMA MessageStepRow ==
    ASSUME RowInv, NEW m \in Slots, MessageStep(m)
    PROVE  RowInv'
<1>1. CASE UNCHANGED rowVars
  BY <1>1, RowUnchangedInv DEF rowVars
<1>2. CASE ClaimStale(m) \/ ClaimDeferred(m) \/ SettledStale(m) \/ SettlementFails(m)
           \/ WorkerCrash(m) \/ LoseMessage(m) \/ DuplicateMessage(m)
  BY <1>1, <1>2 DEF ClaimStale, ClaimDeferred, SettledStale, SettlementFails,
                    WorkerCrash, LoseMessage, DuplicateMessage
<1>3. CASE ClaimExhausted(m)
  BY <1>3, FailExhaustedInv DEF ClaimExhausted
<1>4. CASE ClaimGranted(m)
  BY <1>4, BeginAttemptInv DEF ClaimGranted
<1>5. CASE UpdateProgress(m)
  BY <1>5, LeaseChangeInv DEF UpdateProgress, RenewLease
<1>6. CASE Succeed(m)
  BY <1>6, SucceedLockedInv DEF Succeed
<1>7. CASE Fail(m)
  <2>1. "handler_error" \in ErrorCode /\ "failed" \in AttemptStatus \ {"none", "running"}
    BY DEF ErrorCode, AttemptStatus
  <2> QED
    BY <1>7, <2>1, FailLockedInv DEF Fail
<1>8. CASE SettleRetryableFailure(m)
  <2>1. ~Terminal
    BY <1>8 DEF SettleRetryableFailure, Terminal
  <2> QED
    BY <1>8, <2>1, FailExhaustedInv, RequeueForRetryInv DEF SettleRetryableFailure
<1>9. CASE MarkJobFailedAfterRetries(m)
  BY <1>1, <1>9, FailExhaustedInv DEF MarkJobFailedAfterRetries, FinalizerMayFail
<1> QED
  BY <1>2, <1>3, <1>4, <1>5, <1>6, <1>7, <1>8, <1>9
     DEF MessageStep, ClaimDispatch, HandlerEnds

\* A coordinator touches the row only to fail a never-claimed job together
\* with its dead event.
LEMMA CoordinatorStepRow ==
    ASSUME RowInv, NEW c \in Publishers, CoordinatorStep(c)
    PROVE  RowInv'
<1>1. CASE UNCHANGED rowVars
  BY <1>1, RowUnchangedInv DEF rowVars
<1>2. CASE status = "queued" /\ FailLocked("job_dispatch_invalid", "failed")
  <2>1. "job_dispatch_invalid" \in ErrorCode
        /\ "failed" \in AttemptStatus \ {"none", "running"} /\ ~Terminal
    BY <1>2 DEF ErrorCode, AttemptStatus, Terminal
  <2> QED
    BY <1>2, <2>1, FailLockedInv
<1> QED
  BY <1>1, <1>2
     DEF CoordinatorStep, ClaimEvent, PublishEvent, SettleEventPublished,
         SettleEventDead, NeverClaimedBehind, ReleaseEvent, CoordinatorCrash

\* A reconciliation sweep re-dispatches, recovers or fails the row it locks.
LEMMA SweepStepRow ==
    ASSUME RowInv, NEW s \in Sweepers, SweepStep(s)
    PROVE  RowInv'
<1>1. CASE UNCHANGED rowVars
  BY <1>1, RowUnchangedInv DEF rowVars
<1>2. CASE ScanQueuedJobs(s) \/ ScanRunningJobs(s)
  BY <1>1, <1>2 DEF ScanQueuedJobs, ScanRunningJobs
<1>3. CASE ReconcileQueuedJob(s)
  <2>1. CASE status = "queued" /\ FailExhausted
    BY <2>1, FailExhaustedInv DEF Terminal
  <2>2. CASE Redispatch(FreshId)
    BY <2>2, RowUnchangedInv DEF Redispatch
  <2> QED
    BY <1>1, <1>3, <2>1, <2>2 DEF ReconcileQueuedJob, Replace, Redispatch
<1>4. CASE ReconcileRunningJob(s)
  <2>1. CASE status = "running" /\ FailExhausted
    BY <2>1, FailExhaustedInv DEF Terminal
  <2>2. CASE status = "running" /\ RequeueAbandoned(FreshId)
    BY <2>2, RequeueAbandonedInv DEF Terminal
  <2> QED
    BY <1>1, <1>4, <2>1, <2>2 DEF ReconcileRunningJob, Replace, StillAbandoned
<1> QED
  BY <1>2, <1>3, <1>4 DEF SweepStep

\* The row invariant is inductive for the whole system.
LEMMA NextRow ==
    ASSUME RowInv, [Next]_vars
    PROVE  RowInv'
<1>1. CASE UNCHANGED rowVars
  BY <1>1, RowUnchangedInv DEF rowVars
<1>2. CASE ScheduleJob
  BY <1>2, InsertQueuedInv DEF ScheduleJob
<1>3. CASE LeaseExpires
  BY <1>3, LeaseChangeInv DEF LeaseExpires, LiveLease
<1>4. CASE DueTimeArrives \/ CooldownPasses \/ UNCHANGED vars
  BY <1>1, <1>4 DEF DueTimeArrives, CooldownPasses, vars
<1> QED
  BY <1>2, <1>3, <1>4, MessageStepRow, CoordinatorStepRow, SweepStepRow DEF Next

\* The row invariant holds in every reachable state of the delivery.
LEMMA RowCorrect == Spec => []RowInv
<1>1. Init => RowInv
  BY RowInitInv DEF Init
<1>2. RowInv /\ [Next]_vars => RowInv'
  BY NextRow
<1> QED
  BY <1>1, <1>2, PTL DEF Spec

\* The attempt ledger and the job row never disagree, however the five
\* transactions that write them (claim, settlement, finalizer, the two
\* sweeps) interleave, and whatever is lost, duplicated or crashes.
THEOREM LedgerCorrect == Spec => []LedgerMatchesRow
<1>1. RowInv => LedgerMatchesRow
  BY DEF RowInv
<1> QED
  BY <1>1, RowCorrect, PTL

\* A job has exactly one outcome audit row once settled and none before:
\* redelivered, superseded and concurrent settlements never add another.
THEOREM OneOutcome == Spec => []OneOutcomeAudited
<1>1. RowInv => OneOutcomeAudited
  BY DEF RowInv
<1> QED
  BY <1>1, RowCorrect, PTL

-----------------------------------------------------------------------------
(* Types.                                                                  *)

RestTypeOK ==
    /\ dispatch_id \in DispatchIds \union {NoId}
    /\ OutboxTypeOK
    /\ msgs \in [Slots -> Message]
    /\ sweeps \in [Sweepers -> Sweep]
    /\ keys \in SUBSET {"this", "last"}
    /\ calm \in BOOLEAN

\* A dispatch id is drawn only when one is free, so what is drawn is free.
LEMMA FreshIdIsFresh ==
    ASSUME FreshIds # {}
    PROVE  FreshId \in DispatchIds /\ FreshId \notin InUse
BY DEF FreshIds, FreshId

\* The null records, a pending event and the retry limit are of their types.
LEMMA NullsAreTyped ==
    /\ NoEvent \in Event /\ Idle \in Claim
    /\ NoMessage \in Message /\ NoSweep \in Sweep
    /\ NoStamp \in Stamp
    /\ \A due \in BOOLEAN : PendingEvent(due) \in Event
    /\ MaxRetries \in Nat
<1>1. MaxRetries \in Nat
  BY MaxAttemptsAssumption DEF MaxRetries
<1>2. NoStamp \in Stamp
  BY DEF Stamp, NoStamp
<1>3. NoMessage \in Message
  BY <1>1, <1>2 DEF Message, NoMessage
<1>4. NoEvent \in Event /\ Idle \in Claim /\ NoSweep \in Sweep
      /\ \A due \in BOOLEAN : PendingEvent(due) \in Event
  BY DEF NoEvent, Event, Idle, Claim, NoSweep, Sweep, PendingEvent
<1> QED
  BY <1>1, <1>2, <1>3, <1>4

\* Initially every variable has its type.
LEMMA InitTypeOK == Init => TypeOK
<1> SUFFICES ASSUME Init PROVE TypeOK
  OBVIOUS
<1>1. RowTypeOK
  BY RowInitInv DEF Init, RowInv
<1>2. OutboxTypeOK
  BY NullsAreTyped DEF Init, OutboxInit, OutboxTypeOK
<1> QED
  BY <1>1, <1>2, NullsAreTyped DEF Init, TypeOK

\* The five things that can become of a message keep its type.
LEMMA MessageTypes ==
    ASSUME msgs \in [Slots -> Message], NEW m \in Slots,
           \/ EndMessage(m)
           \/ \E stamp \in Stamp : BrokerRetry(m, stamp)
           \/ Redeliver(m)
    PROVE  msgs' \in [Slots -> Message]
<1>1. msgs[m] \in Message
  OBVIOUS
<1>2. CASE msgs' = [msgs EXCEPT ![m] = NoMessage]
  BY <1>2, NullsAreTyped
<1>3. CASE Redeliver(m)
  <2>1. [msgs[m] EXCEPT !.phase = "queued", !.own = NoStamp] \in Message
    BY <1>1, NullsAreTyped DEF Message
  <2>2. msgs' = [msgs EXCEPT ![m] = [msgs[m] EXCEPT !.phase = "queued", !.own = NoStamp]]
    BY <1>3 DEF Redeliver
  <2> QED
    BY <2>1, <2>2
<1>4. ASSUME NEW stamp \in Stamp, BrokerRetry(m, stamp)
      PROVE  msgs' \in [Slots -> Message]
  <2>1. CASE RetriesLeft(m)
    <3>1. [phase |-> "queued", retries |-> msgs[m].retries + 1,
           stamp |-> stamp, own |-> NoStamp] \in Message
      BY <1>1, <2>1, NullsAreTyped DEF Message, RetriesLeft
    <3> QED
      BY <1>4, <2>1, <3>1 DEF BrokerRetry
  <2>2. CASE ~RetriesLeft(m)
    <3>1. [phase |-> "exhausted", retries |-> 0, stamp |-> stamp,
           own |-> NoStamp] \in Message
      BY NullsAreTyped DEF Message
    <3> QED
      BY <1>4, <2>2, <3>1 DEF BrokerRetry
  <2> QED
    BY <2>1, <2>2
<1> QED
  BY <1>2, <1>3, <1>4 DEF EndMessage, Ack

\* create_dispatch_event writes a well-formed outbox row.
LEMMA CreateDispatchEventType ==
    ASSUME OutboxTypeOK, FreshIds # {}, NEW due \in BOOLEAN,
           CreateDispatchEvent(FreshId, due)
    PROVE  OutboxTypeOK'
BY FreshIdIsFresh, NullsAreTyped DEF OutboxTypeOK, CreateDispatchEvent

\* A step of a delivered message keeps everything but the row typed.
LEMMA MessageStepType ==
    ASSUME TypeOK, NEW m \in Slots, MessageStep(m)
    PROVE  RestTypeOK'
<1>1. /\ RestTypeOK /\ msgs[m] \in Message
      /\ msgs[m].stamp \in Stamp /\ msgs[m].own \in Stamp
      /\ owner_token \in Nat /\ attempt_count \in Nat
  BY DEF TypeOK, RestTypeOK, RowTypeOK, Message
<1>2. CASE ClaimStale(m) \/ SettledStale(m) \/ WorkerCrash(m) \/ LoseMessage(m)
  <2>1. EndMessage(m) \/ Redeliver(m)
    BY <1>2 DEF ClaimStale, SettledStale, WorkerCrash, LoseMessage, EndMessage
  <2>2. UNCHANGED <<dispatch_id, outboxVars, sweeps, keys, calm>>
    BY <1>2 DEF ClaimStale, SettledStale, WorkerCrash, LoseMessage, rowVars
  <2> QED
    BY <1>1, <2>1, <2>2, MessageTypes DEF RestTypeOK, OutboxTypeOK, outboxVars
<1>3. CASE ClaimDeferred(m) \/ SettlementFails(m)
  <2>1. \E stamp \in Stamp : BrokerRetry(m, stamp)
    BY <1>1, <1>3 DEF ClaimDeferred, SettlementFails
  <2>2. UNCHANGED <<dispatch_id, outboxVars, sweeps, keys, calm>>
    BY <1>3 DEF ClaimDeferred, SettlementFails, rowVars
  <2> QED
    BY <1>1, <2>1, <2>2, MessageTypes DEF RestTypeOK, OutboxTypeOK, outboxVars
<1>4. CASE ClaimExhausted(m) \/ Succeed(m) \/ Fail(m)
  <2>1. EndMessage(m)
    BY <1>4 DEF ClaimExhausted, Succeed, Fail
  <2>2. UNCHANGED <<dispatch_id, outboxVars, sweeps, keys, calm>>
    BY <1>4 DEF ClaimExhausted, Succeed, Fail, FailExhausted, FailLocked, SucceedLocked
  <2> QED
    BY <1>1, <2>1, <2>2, MessageTypes DEF RestTypeOK, OutboxTypeOK, outboxVars
<1>5. CASE ClaimGranted(m)
  <2>1. [msgs[m] EXCEPT !.phase = "running",
                        !.own = [dispatch |-> dispatch_id, token |-> owner_token + 1]]
          \in Message
    <3> DEFINE own == [dispatch |-> dispatch_id, token |-> owner_token + 1]
    <3>1. own \in Stamp
      BY <1>1 DEF Stamp, RestTypeOK
    <3> HIDE DEF own
    <3>2. [msgs[m] EXCEPT !.phase = "running", !.own = own] \in Message
      BY <1>1, <3>1 DEF Message
    <3> QED
      BY <3>2 DEF own
  <2>2. msgs' \in [Slots -> Message]
    BY <1>1, <1>5, <2>1 DEF ClaimGranted, RestTypeOK
  <2> QED
    BY <1>1, <1>5, <2>2 DEF ClaimGranted, BeginAttempt, RestTypeOK, OutboxTypeOK, outboxVars
<1>6. CASE UpdateProgress(m)
  BY <1>1, <1>6 DEF UpdateProgress, RenewLease, RestTypeOK, OutboxTypeOK, outboxVars
<1>7. CASE SettleRetryableFailure(m)
  <2>1. msgs' \in [Slots -> Message]
    <3>1. EndMessage(m) \/ \E stamp \in Stamp : BrokerRetry(m, stamp)
      BY <1>1, <1>7 DEF SettleRetryableFailure, EndSettlement
    <3> QED
      BY <1>1, <3>1, MessageTypes DEF RestTypeOK
  <2>2. OutboxTypeOK' /\ dispatch_id' \in DispatchIds \union {NoId}
    <3>1. CASE FailExhausted /\ UNCHANGED outboxVars
      BY <1>1, <3>1 DEF FailExhausted, FailLocked, RestTypeOK, OutboxTypeOK, outboxVars
    <3>2. CASE /\ FreshIds # {} /\ RequeueForRetry(FreshId)
               /\ CreateDispatchEvent(FreshId, FALSE)
      BY <1>1, <3>2, FreshIdIsFresh, CreateDispatchEventType
         DEF RequeueForRetry, RestTypeOK
    <3> QED
      BY <1>7, <3>1, <3>2 DEF SettleRetryableFailure
  <2> QED
    BY <1>1, <1>7, <2>1, <2>2 DEF SettleRetryableFailure, RestTypeOK
<1>8. CASE MarkJobFailedAfterRetries(m)
  <2>1. EndMessage(m) \/ msgs' = msgs
    BY <1>8 DEF MarkJobFailedAfterRetries, EndMessage
  <2>2. msgs' \in [Slots -> Message]
    BY <1>1, <2>1, MessageTypes DEF RestTypeOK
  <2>3. UNCHANGED <<dispatch_id, outboxVars, sweeps, keys, calm>>
    BY <1>8 DEF MarkJobFailedAfterRetries, FailExhausted, FailLocked, rowVars
  <2> QED
    BY <1>1, <2>2, <2>3 DEF RestTypeOK, OutboxTypeOK, outboxVars
<1>9. CASE DuplicateMessage(m)
  <2>1. PICK n \in Slots : msgs' = [msgs EXCEPT ![n] = [msgs[m] EXCEPT
                                      !.phase = "queued", !.own = NoStamp]]
    BY <1>9 DEF DuplicateMessage
  <2>2. [msgs[m] EXCEPT !.phase = "queued", !.own = NoStamp] \in Message
    BY <1>1, NullsAreTyped DEF Message
  <2>3. msgs' \in [Slots -> Message]
    BY <1>1, <2>1, <2>2 DEF RestTypeOK
  <2> QED
    BY <1>1, <1>9, <2>3 DEF DuplicateMessage, RestTypeOK, OutboxTypeOK, outboxVars, rowVars
<1> QED
  BY <1>2, <1>3, <1>4, <1>5, <1>6, <1>7, <1>8, <1>9
     DEF MessageStep, ClaimDispatch, HandlerEnds

\* Forgetting history keeps the outbox a set of rows.
LEMMA ForgetType ==
    ASSUME NEW rows \in [DispatchIds -> Event], NEW current
    PROVE  Forget(rows, current) \in [DispatchIds -> Event]
BY NullsAreTyped DEF Forget

\* A step of a coordinator keeps everything but the row typed.
LEMMA CoordinatorStepType ==
    ASSUME TypeOK, NEW c \in Publishers, CoordinatorStep(c)
    PROVE  RestTypeOK'
<1>1. /\ RestTypeOK /\ pubs[c] \in Claim
      /\ outbox \in [DispatchIds -> Event] /\ pubs \in [Publishers -> Claim]
  BY DEF TypeOK, RestTypeOK, OutboxTypeOK
<1>2. CASE ClaimEvent(c)
  <2>1. OutboxTypeOK'
    <3>1. CASE ClaimDueEvents(c)
      <4>1. PICK e \in DispatchIds :
              /\ outbox' = [outbox EXCEPT ![e] = [status |-> "publishing",
                              elapsed |-> FALSE, claim_token |-> c]]
              /\ pubs' = [pubs EXCEPT ![c] = [phase |-> "claimed", event |-> e]]
        BY <3>1 DEF ClaimDueEvents
      <4>2. [status |-> "publishing", elapsed |-> FALSE, claim_token |-> c] \in Event
            /\ [phase |-> "claimed", event |-> e] \in Claim
        BY DEF Event, Claim
      <4> QED
        BY <1>1, <4>1, <4>2 DEF OutboxTypeOK
    <3>2. CASE ReclaimStaleClaims(c)
      <4>1. PICK e \in DispatchIds :
              /\ outbox' = [outbox EXCEPT ![e] = [outbox[e] EXCEPT
                              !.elapsed = FALSE, !.claim_token = c]]
              /\ pubs' = [pubs EXCEPT ![c] = [phase |-> "claimed", event |-> e]]
        BY <3>2, ZenonT(60) DEF ReclaimStaleClaims
      <4>2. [outbox[e] EXCEPT !.elapsed = FALSE, !.claim_token = c] \in Event
            /\ [phase |-> "claimed", event |-> e] \in Claim
        BY <1>1, ZenonT(60) DEF Event, Claim
      <4> QED
        BY <1>1, <4>1, <4>2 DEF OutboxTypeOK
    <3> QED
      BY <1>2, <3>1, <3>2 DEF ClaimEvent
  <2> QED
    BY <1>1, <1>2, <2>1 DEF ClaimEvent, RestTypeOK, rowVars
<1>3. CASE PublishEvent(c)
  <2>1. msgs' \in [Slots -> Message]
    <3>1. CASE EnqueueMessage
      <4>1. PICK n \in Slots : msgs' = [msgs EXCEPT ![n] = [NoMessage EXCEPT !.phase = "queued"]]
        BY <3>1 DEF EnqueueMessage
      <4>2. [NoMessage EXCEPT !.phase = "queued"] \in Message
        BY NullsAreTyped DEF Message
      <4> QED
        BY <1>1, <4>1, <4>2 DEF RestTypeOK
    <3> QED
      BY <1>1, <1>3, <3>1 DEF PublishEvent, RestTypeOK
  <2>2. OutboxTypeOK'
    <3>1. PICK outcome \in {"published", "transient", "dead"} :
            pubs' = [pubs EXCEPT ![c] = [pubs[c] EXCEPT !.phase = outcome]]
            /\ outbox' = outbox
      BY <1>3 DEF PublishEvent, PublishReturns
    <3>2. [pubs[c] EXCEPT !.phase = outcome] \in Claim
      BY <1>1 DEF Claim
    <3> QED
      BY <1>1, <3>1, <3>2 DEF OutboxTypeOK
  <2> QED
    BY <1>1, <1>3, <2>1, <2>2 DEF PublishEvent, RestTypeOK, rowVars
<1>4. CASE \/ SettleEventPublished(c) \/ SettleEventDead(c)
           \/ ReleaseEvent(c) \/ CoordinatorCrash(c)
  <2>1. pubs' = [pubs EXCEPT ![c] = Idle]
    BY <1>4 DEF SettleEventPublished, SettlePublished, SettleEventDead,
                ReleaseEvent, ReleaseClaim, CoordinatorCrash, DropClaim
  <2>2. outbox' \in [DispatchIds -> Event]
    <3>1. CASE SettleEventPublished(c)
      <4> DEFINE row == [status |-> "published", elapsed |-> FALSE,
                         claim_token |-> NoPublisher]
      <4>1. [outbox EXCEPT ![pubs[c].event] = row] \in [DispatchIds -> Event]
        BY <1>1 DEF Event
      <4> QED
        BY <1>1, <3>1, <4>1, ForgetType DEF SettleEventPublished, SettlePublished
    <3>2. CASE SettleEventDead(c)
      BY <1>1, <3>2, NullsAreTyped DEF SettleEventDead, MarkDead
    <3>3. CASE ReleaseEvent(c)
      BY <1>1, <3>3, NullsAreTyped DEF ReleaseEvent, ReleaseClaim
    <3>4. CASE CoordinatorCrash(c)
      BY <1>1, <3>4 DEF CoordinatorCrash, DropClaim
    <3> QED
      BY <1>4, <3>1, <3>2, <3>3, <3>4
  <2>3. UNCHANGED <<dispatch_id, msgs, sweeps, keys, calm>>
    BY <1>4 DEF SettleEventPublished, SettleEventDead, FailLocked, ReleaseEvent,
                CoordinatorCrash, rowVars
  <2> QED
    BY <1>1, <2>1, <2>2, <2>3, NullsAreTyped DEF RestTypeOK, OutboxTypeOK
<1> QED
  BY <1>2, <1>3, <1>4 DEF CoordinatorStep

\* A step of a reconciliation sweep keeps everything but the row typed.
LEMMA SweepStepType ==
    ASSUME TypeOK, NEW s \in Sweepers, SweepStep(s)
    PROVE  RestTypeOK'
<1>1. RestTypeOK /\ sweeps[s] \in Sweep
  BY DEF TypeOK, RestTypeOK
<1>2. CASE ScanQueuedJobs(s)
  <2>1. [sweeps[s] EXCEPT !.scan = "queued"] \in Sweep
    BY <1>1 DEF Sweep
  <2>2. sweeps' \in [Sweepers -> Sweep]
    BY <1>1, <1>2, <2>1 DEF ScanQueuedJobs, RestTypeOK
  <2> QED
    BY <1>1, <1>2, <2>2
       DEF ScanQueuedJobs, RestTypeOK, OutboxTypeOK, outboxVars, rowVars
<1>3. CASE ScanRunningJobs(s)
  <2>1. [sweeps[s] EXCEPT !.scan = "running", !.dispatch = dispatch_id] \in Sweep
    BY <1>1 DEF Sweep, RestTypeOK
  <2>2. sweeps' \in [Sweepers -> Sweep]
    BY <1>1, <1>3, <2>1 DEF ScanRunningJobs, RestTypeOK
  <2> QED
    BY <1>1, <1>3, <2>2
       DEF ScanRunningJobs, RestTypeOK, OutboxTypeOK, outboxVars, rowVars
<1>4. CASE ReconcileQueuedJob(s) \/ ReconcileRunningJob(s)
  <2>1. sweeps' \in [Sweepers -> Sweep] /\ UNCHANGED <<msgs, calm>>
    BY <1>1, <1>4, NullsAreTyped DEF ReconcileQueuedJob, ReconcileRunningJob, RestTypeOK
  <2>2. /\ dispatch_id' \in DispatchIds \union {NoId}
        /\ OutboxTypeOK' /\ keys' \in SUBSET {"this", "last"}
    <3>1. CASE dispatch_id' = dispatch_id /\ UNCHANGED <<outboxVars, keys>>
      BY <1>1, <3>1 DEF RestTypeOK, OutboxTypeOK, outboxVars
    <3>2. CASE /\ FreshIds # {} /\ dispatch_id' = FreshId
               /\ CreateDispatchEvent(FreshId, TRUE)
               /\ keys' = keys \union {sweeps[s].bucket}
      BY <1>1, <3>2, FreshIdIsFresh, CreateDispatchEventType DEF RestTypeOK, Sweep
    <3> QED
      BY <1>4, <3>1, <3>2
         DEF ReconcileQueuedJob, ReconcileRunningJob, Replace, Redispatch,
             RequeueAbandoned, FailExhausted, FailLocked, rowVars
  <2> QED
    BY <1>1, <2>1, <2>2 DEF RestTypeOK
<1> QED
  BY <1>2, <1>3, <1>4 DEF SweepStep

\* Every step keeps the types, given the row invariant.
LEMMA NextType ==
    ASSUME TypeOK, RowInv, [Next]_vars
    PROVE  TypeOK'
<1>1. RestTypeOK
  BY DEF TypeOK, RestTypeOK
<1>2. RowTypeOK'
  BY NextRow DEF RowInv
<1>3. RestTypeOK'
  <2>1. CASE ScheduleJob
    BY <1>1, <2>1, FreshIdIsFresh, CreateDispatchEventType
       DEF ScheduleJob, InsertQueued, RestTypeOK
  <2>2. CASE LeaseExpires
    BY <1>1, <2>2 DEF LeaseExpires, RestTypeOK, OutboxTypeOK, outboxVars
  <2>3. CASE DueTimeArrives
    <3>1. PICK e \in DispatchIds :
            outbox' = [outbox EXCEPT ![e] = [outbox[e] EXCEPT !.elapsed = TRUE]]
      BY <2>3 DEF DueTimeArrives, EventElapses
    <3>2. [outbox[e] EXCEPT !.elapsed = TRUE] \in Event
      BY <1>1 DEF RestTypeOK, OutboxTypeOK, Event
    <3> QED
      BY <1>1, <2>3, <3>1, <3>2
         DEF DueTimeArrives, EventElapses, RestTypeOK, OutboxTypeOK, rowVars
  <2>4. CASE CooldownPasses
    <3> DEFINE rows == [e \in DispatchIds |-> IF e \in PublishedEvents
                                              THEN [outbox[e] EXCEPT !.elapsed = TRUE]
                                              ELSE outbox[e]]
    <3>1. rows \in [DispatchIds -> Event]
      <4>1. \A e \in DispatchIds : [outbox[e] EXCEPT !.elapsed = TRUE] \in Event
        BY <1>1 DEF RestTypeOK, OutboxTypeOK, Event
      <4> QED
        BY <1>1, <4>1 DEF RestTypeOK, OutboxTypeOK
    <3>2. outbox' = Forget(rows, dispatch_id)
      BY <2>4 DEF CooldownPasses
    <3> HIDE DEF rows
    <3>3. outbox' \in [DispatchIds -> Event]
      BY <3>1, <3>2, ForgetType
    <3>4. sweeps' \in [Sweepers -> Sweep]
      <4>1. \A s \in Sweepers : [sweeps[s] EXCEPT !.bucket = "last"] \in Sweep
        BY <1>1 DEF RestTypeOK, Sweep
      <4> QED
        BY <2>4, <4>1, NullsAreTyped DEF CooldownPasses
    <3>5. keys' \in SUBSET {"this", "last"}
      BY <2>4 DEF CooldownPasses
    <3> QED
      BY <1>1, <2>4, <3>3, <3>4, <3>5
         DEF CooldownPasses, RestTypeOK, OutboxTypeOK, rowVars
  <2>5. CASE UNCHANGED vars
    BY <1>1, <2>5 DEF vars, RestTypeOK, OutboxTypeOK, outboxVars, rowVars
  <2> QED
    BY <2>1, <2>2, <2>3, <2>4, <2>5, MessageStepType, CoordinatorStepType,
       SweepStepType DEF Next
<1> QED
  BY <1>2, <1>3 DEF TypeOK, RestTypeOK

\* Every reachable state is well typed: in particular the attempt counter
\* never passes its ceiling, a message is never retried more often than the
\* retry policy says, and every dispatch named anywhere is an outbox row's.
THEOREM TypeCorrect == Spec => []TypeOK
<1>1. Init => TypeOK /\ RowInv
  BY InitTypeOK, RowInitInv DEF Init
<1>2. TypeOK /\ RowInv /\ [Next]_vars => (TypeOK /\ RowInv)'
  BY NextType, NextRow
<1> QED
  BY <1>1, <1>2, PTL DEF Spec

-----------------------------------------------------------------------------
(* Ownership.                                                              *)

\* OneHandlerOwns is not inductive: that a handler holds the credential in
\* force says nothing of the others.  Every handler was given a credential
\* of its own, none newer than the row's.
HandlerInv ==
    /\ status = "absent" => owner_token = 0
    /\ \A m \in Slots : msgs[m].phase = "running" =>
         /\ msgs[m].own.token \in 1..owner_token
         /\ msgs[m].own.token = owner_token => status = "running" \/ Terminal
    /\ \A m, n \in Slots :
         m # n /\ msgs[m].phase = "running" /\ msgs[n].phase = "running"
         => msgs[m].own.token # msgs[n].own.token

\* The handler invariant says that one delivery at most owns the job.
LEMMA HandlerInvImplies == TypeOK /\ HandlerInv => OneHandlerOwns
<1> SUFFICES ASSUME TypeOK, HandlerInv, NEW m \in Slots,
                    msgs[m].phase = "running", msgs[m].own.token = owner_token
             PROVE  /\ \A n \in Slots \ {m} : msgs[n].phase = "running" =>
                                                msgs[n].own.token < owner_token
                    /\ status = "running" \/ Terminal
  BY DEF OneHandlerOwns
<1>1. owner_token \in Nat
  BY DEF TypeOK, RowTypeOK
<1>2. ASSUME NEW n \in Slots \ {m}, msgs[n].phase = "running"
      PROVE  msgs[n].own.token < owner_token
  <2>1. msgs[n].own.token \in 1..owner_token /\ msgs[n].own.token # owner_token
    BY <1>2 DEF HandlerInv
  <2> QED
    BY <1>1, <2>1
<1> QED
  BY <1>2 DEF HandlerInv

\* A step that starts no handler keeps the invariant if it moves the
\* credential only forward, and keeps the row running or settles it as long
\* as the handler with the credential in force goes on.
LEMMA HandlersKept ==
    ASSUME TypeOK, HandlerInv,
           \A n \in Slots : msgs'[n].phase = "running" => msgs'[n] = msgs[n],
           owner_token' \in {owner_token, owner_token + 1},
           status' = "absent" => owner_token' = 0,
           \/ owner_token' = owner_token + 1
           \/ status' = status
           \/ status' \in {"running", "succeeded", "failed"}
           \/ \A n \in Slots : msgs'[n].phase = "running" =>
                                 msgs[n].own.token # owner_token
    PROVE  HandlerInv'
<1>1. owner_token \in Nat
  BY DEF TypeOK, RowTypeOK
<1>2. ASSUME NEW n \in Slots, msgs'[n].phase = "running"
      PROVE  /\ msgs'[n].own.token \in 1..owner_token'
             /\ msgs'[n].own.token = owner_token' => status' = "running" \/ Terminal'
  <2>1. msgs'[n] = msgs[n] /\ msgs[n].phase = "running"
    BY <1>2
  <2>2. /\ msgs[n].own.token \in 1..owner_token
        /\ msgs[n].own.token = owner_token => status = "running" \/ Terminal
    BY <2>1 DEF HandlerInv
  <2> QED
    BY <1>1, <1>2, <2>1, <2>2 DEF Terminal
<1>3. ASSUME NEW m \in Slots, NEW n \in Slots, m # n,
             msgs'[m].phase = "running", msgs'[n].phase = "running"
      PROVE  msgs'[m].own.token # msgs'[n].own.token
  BY <1>3 DEF HandlerInv
<1> QED
  BY <1>2, <1>3 DEF HandlerInv

\* What ends or returns a message starts no handler.
LEMMA EndsHandler ==
    ASSUME TypeOK, NEW m \in Slots,
           \/ EndMessage(m) \/ Redeliver(m)
           \/ \E stamp : BrokerRetry(m, stamp)
    PROVE  /\ \A n \in Slots : msgs'[n].phase = "running" => msgs'[n] = msgs[n] /\ n # m
           /\ msgs'[m].phase # "running"
           /\ \A n \in Slots : n # m => msgs'[n] = msgs[n]
<1>1. msgs \in [Slots -> Message] /\ msgs[m] \in Message
  BY DEF TypeOK
<1>2. CASE msgs' = [msgs EXCEPT ![m] = NoMessage]
  BY <1>1, <1>2 DEF NoMessage
<1>3. CASE Redeliver(m)
  BY <1>1, <1>3 DEF Redeliver, Message
<1>4. CASE \E stamp : BrokerRetry(m, stamp)
  BY <1>1, <1>4 DEF BrokerRetry
<1> QED
  BY <1>2, <1>3, <1>4 DEF EndMessage, Ack

\* A step of a delivered message keeps the handler invariant.
LEMMA MessageStepHandlers ==
    ASSUME TypeOK, HandlerInv, NEW m \in Slots, MessageStep(m)
    PROVE  HandlerInv'
<1>1. /\ owner_token \in Nat /\ msgs \in [Slots -> Message] /\ msgs[m] \in Message
      /\ status = "absent" => owner_token = 0
  BY DEF TypeOK, RowTypeOK, HandlerInv
<1>2. CASE \/ ClaimStale(m) \/ SettledStale(m) \/ WorkerCrash(m) \/ LoseMessage(m)
           \/ ClaimDeferred(m) \/ SettlementFails(m)
  <2>1. UNCHANGED rowVars
    BY <1>2 DEF ClaimStale, SettledStale, WorkerCrash, LoseMessage, ClaimDeferred,
                SettlementFails
  <2>2. EndMessage(m) \/ Redeliver(m) \/ \E stamp : BrokerRetry(m, stamp)
    BY <1>2 DEF ClaimStale, SettledStale, WorkerCrash, LoseMessage, EndMessage,
                ClaimDeferred, SettlementFails
  <2> QED
    BY <1>1, <2>1, <2>2, EndsHandler, HandlersKept DEF rowVars
<1>3. CASE ClaimExhausted(m) \/ Succeed(m) \/ Fail(m)
  <2>1. EndMessage(m) /\ owner_token' = owner_token /\ status' \in {"succeeded", "failed"}
    BY <1>3 DEF ClaimExhausted, Succeed, Fail, FailExhausted, FailLocked, SucceedLocked
  <2> QED
    BY <1>1, <2>1, EndsHandler, HandlersKept
<1>4. CASE ClaimGranted(m)
  <2>1. /\ owner_token' = owner_token + 1 /\ status' = "running"
        /\ msgs'[m].phase = "running" /\ msgs'[m].own.token = owner_token + 1
        /\ \A n \in Slots : n # m => msgs'[n] = msgs[n]
    <3>1. msgs' = [msgs EXCEPT ![m] = [msgs[m] EXCEPT !.phase = "running",
                    !.own = [dispatch |-> dispatch_id, token |-> owner_token + 1]]]
      BY <1>4 DEF ClaimGranted
    <3> QED
      BY <1>1, <1>4, <3>1 DEF ClaimGranted, BeginAttempt, Message
  <2>2. ASSUME NEW n \in Slots, msgs'[n].phase = "running"
        PROVE  /\ msgs'[n].own.token \in 1..(owner_token + 1)
               /\ n # m => msgs'[n].own.token \in 1..owner_token
    BY <1>1, <2>1, <2>2 DEF HandlerInv
  <2>3. ASSUME NEW k \in Slots, NEW n \in Slots, k # n,
               msgs'[k].phase = "running", msgs'[n].phase = "running"
        PROVE  msgs'[k].own.token # msgs'[n].own.token
    <3>1. CASE k # m /\ n # m
      BY <2>1, <2>3, <3>1 DEF HandlerInv
    <3>2. CASE k = m \/ n = m
      BY <1>1, <2>1, <2>2, <2>3, <3>2
    <3> QED
      BY <3>1, <3>2
  <2> QED
    BY <2>1, <2>2, <2>3 DEF HandlerInv
<1>5. CASE UpdateProgress(m)
  BY <1>1, <1>5, HandlersKept DEF UpdateProgress, RenewLease
<1>6. CASE SettleRetryableFailure(m)
  <2>1. EndMessage(m) \/ \E stamp : BrokerRetry(m, stamp)
    BY <1>6 DEF SettleRetryableFailure, EndSettlement
  <2>2. owner_token' = owner_token /\ status' \in {"failed", "queued"}
    BY <1>6 DEF SettleRetryableFailure, FailExhausted, FailLocked, RequeueForRetry
  <2>3. msgs[m].phase = "running" /\ msgs[m].own.token = owner_token
    BY <1>1, <1>6 DEF SettleRetryableFailure, Owns, VerifyOwner, HandlerInv
  <2>4. \A n \in Slots : n # m /\ msgs[n].phase = "running" =>
                            msgs[n].own.token # owner_token
    BY <2>3 DEF HandlerInv
  <2> QED
    BY <1>1, <2>1, <2>2, <2>4, EndsHandler, HandlersKept
<1>7. CASE MarkJobFailedAfterRetries(m)
  <2>1. EndMessage(m) \/ msgs' = msgs
    BY <1>7 DEF MarkJobFailedAfterRetries, EndMessage
  <2>2. \A n \in Slots : msgs'[n].phase = "running" => msgs'[n] = msgs[n]
    BY <2>1, EndsHandler
  <2>3. UNCHANGED rowVars \/ (status' = "failed" /\ owner_token' = owner_token)
    BY <1>7 DEF MarkJobFailedAfterRetries, FailExhausted, FailLocked
  <2> QED
    BY <1>1, <2>2, <2>3, HandlersKept DEF rowVars
<1>8. CASE DuplicateMessage(m)
  <2>1. PICK n \in Slots : msgs' = [msgs EXCEPT ![n] = [msgs[m] EXCEPT
                                      !.phase = "queued", !.own = NoStamp]]
    BY <1>8 DEF DuplicateMessage
  <2>2. \A k \in Slots : msgs'[k].phase = "running" => msgs'[k] = msgs[k]
    BY <1>1, <2>1 DEF Message
  <2> QED
    BY <1>1, <1>8, <2>2, HandlersKept DEF DuplicateMessage, rowVars
<1> QED
  BY <1>2, <1>3, <1>4, <1>5, <1>6, <1>7, <1>8
     DEF MessageStep, ClaimDispatch, HandlerEnds

\* A coordinator starts no handler and moves no credential.
LEMMA CoordinatorStepHandlers ==
    ASSUME TypeOK, HandlerInv, NEW c \in Publishers, CoordinatorStep(c)
    PROVE  HandlerInv'
<1>1. /\ owner_token \in Nat /\ msgs \in [Slots -> Message]
      /\ status = "absent" => owner_token = 0
  BY DEF TypeOK, RowTypeOK, HandlerInv
<1>2. \A n \in Slots : msgs'[n].phase = "running" => msgs'[n] = msgs[n]
  <2>1. CASE EnqueueMessage
    <3>1. PICK n \in Slots : msgs' = [msgs EXCEPT ![n] = [NoMessage EXCEPT !.phase = "queued"]]
      BY <2>1 DEF EnqueueMessage
    <3> QED
      BY <1>1, <3>1 DEF NoMessage
  <2> QED
    BY <2>1 DEF CoordinatorStep, ClaimEvent, PublishEvent, SettleEventPublished,
                SettleEventDead, ReleaseEvent, CoordinatorCrash
<1>3. UNCHANGED rowVars \/ (status' = "failed" /\ owner_token' = owner_token)
  BY DEF CoordinatorStep, ClaimEvent, PublishEvent, SettleEventPublished,
         SettleEventDead, ReleaseEvent, CoordinatorCrash, FailLocked
<1> QED
  BY <1>1, <1>2, <1>3, HandlersKept DEF rowVars

\* A sweep can only rotate the credential away from the running handlers.
LEMMA SweepStepHandlers ==
    ASSUME TypeOK, HandlerInv, NEW s \in Sweepers, SweepStep(s)
    PROVE  HandlerInv'
<1>1. /\ owner_token \in Nat
      /\ status = "absent" => owner_token = 0
  BY DEF TypeOK, RowTypeOK, HandlerInv
<1>2. msgs' = msgs
  BY DEF SweepStep, ScanQueuedJobs, ReconcileQueuedJob, ScanRunningJobs,
         ReconcileRunningJob
<1>3. \/ status' = status /\ owner_token' = owner_token
      \/ status' = "failed" /\ owner_token' = owner_token
      \/ status' = "queued" /\ owner_token' = owner_token + 1
  BY DEF SweepStep, ScanQueuedJobs, ReconcileQueuedJob, ScanRunningJobs,
         ReconcileRunningJob, Replace, Redispatch, RequeueAbandoned,
         FailExhausted, FailLocked, rowVars
<1> QED
  BY <1>1, <1>2, <1>3, HandlersKept

\* Every step keeps the handler invariant.
LEMMA NextHandlers ==
    ASSUME TypeOK, HandlerInv, [Next]_vars
    PROVE  HandlerInv'
<1>1. /\ owner_token \in Nat
      /\ status = "absent" => owner_token = 0
  BY DEF TypeOK, RowTypeOK, HandlerInv
<1>2. CASE ScheduleJob
  <2>1. owner_token = 0 /\ owner_token' = owner_token /\ msgs' = msgs
    BY <1>1, <1>2 DEF ScheduleJob, InsertQueued
  <2>2. \A n \in Slots : msgs[n].phase # "running"
    BY <2>1 DEF HandlerInv
  <2> QED
    BY <2>1, <2>2, HandlersKept
<1>3. CASE LeaseExpires \/ DueTimeArrives \/ CooldownPasses \/ UNCHANGED vars
  <2>1. UNCHANGED <<status, owner_token, msgs>>
    BY <1>3 DEF LeaseExpires, DueTimeArrives, CooldownPasses, vars, rowVars
  <2> QED
    BY <1>1, <2>1, HandlersKept
<1> QED
  BY <1>2, <1>3, MessageStepHandlers, CoordinatorStepHandlers, SweepStepHandlers
     DEF Next

Inv == TypeOK /\ RowInv /\ HandlerInv

\* The types, the row invariant and the handler invariant hold together.
LEMMA InvCorrect == Spec => []Inv
<1>1. Init => Inv
  <2> SUFFICES ASSUME Init PROVE HandlerInv
    BY InitTypeOK, RowInitInv DEF Init, Inv
  <2> QED
    BY DEF Init, RowInit, NoMessage, HandlerInv
<1>2. Inv /\ [Next]_vars => Inv'
  BY NextType, NextRow, NextHandlers DEF Inv
<1> QED
  BY <1>1, <1>2, PTL DEF Spec

\* At most one handler holds the credential in force, so whatever the broker
\* redelivers and however often an attempt is taken over, only one delivery
\* of the job can still settle it.
THEOREM OwnershipCorrect == Spec => []OneHandlerOwns
<1>1. Inv => OneHandlerOwns
  BY HandlerInvImplies DEF Inv
<1> QED
  BY <1>1, InvCorrect, PTL

-----------------------------------------------------------------------------
(* JobDelivery implements JobLifecycle, and what its steps may never do.   *)

\* Until the job is scheduled nothing refers to it.
AbsentInv ==
    status = "absent" =>
      /\ \A m \in Slots : msgs[m].phase = "none"
      /\ \A e \in DispatchIds : outbox[e].status = "none"
      /\ \A c \in Publishers : pubs[c] = Idle

\* The row never becomes absent again.
LEMMA NeverAbsentAgain ==
    ASSUME status # "absent", [Next]_vars
    PROVE  status' # "absent"
<1>1. CASE \E m \in Slots : MessageStep(m)
  BY <1>1 DEF MessageStep, ClaimDispatch, HandlerEnds, ClaimStale, ClaimDeferred,
     ClaimExhausted, ClaimGranted, Succeed, Fail, SettleRetryableFailure,
     SettledStale, UpdateProgress, MarkJobFailedAfterRetries, SettlementFails,
     WorkerCrash, LoseMessage, DuplicateMessage, FailExhausted, FailLocked,
     BeginAttempt, SucceedLocked, RequeueForRetry, RenewLease, rowVars
<1>2. CASE \E c \in Publishers : CoordinatorStep(c)
  BY <1>2 DEF CoordinatorStep, ClaimEvent, PublishEvent, SettleEventPublished,
     SettleEventDead, ReleaseEvent, CoordinatorCrash, FailLocked, rowVars
<1>3. CASE \E s \in Sweepers : SweepStep(s)
  BY <1>3 DEF SweepStep, ScanQueuedJobs, ReconcileQueuedJob, ScanRunningJobs,
     ReconcileRunningJob, Replace, Redispatch, RequeueAbandoned, FailExhausted,
     FailLocked, rowVars
<1>4. CASE ScheduleJob
  BY <1>4 DEF ScheduleJob, InsertQueued
<1>5. CASE LeaseExpires \/ DueTimeArrives \/ CooldownPasses \/ UNCHANGED vars
  BY <1>5 DEF LeaseExpires, DueTimeArrives, CooldownPasses, vars, rowVars
<1> QED
  BY <1>1, <1>2, <1>3, <1>4, <1>5 DEF Next

\* Every step keeps AbsentInv: nothing refers to a job not yet scheduled.
LEMMA NextAbsent ==
    ASSUME TypeOK, AbsentInv, [Next]_vars
    PROVE  AbsentInv'
<1> SUFFICES ASSUME status' = "absent"
             PROVE  /\ \A m \in Slots : msgs'[m].phase = "none"
                    /\ \A e \in DispatchIds : outbox'[e].status = "none"
                    /\ \A c \in Publishers : pubs'[c] = Idle
  BY DEF AbsentInv
<1>1. status = "absent"
  BY NeverAbsentAgain
<1>2. /\ \A m \in Slots : msgs[m].phase = "none"
      /\ \A e \in DispatchIds : outbox[e].status = "none"
      /\ \A c \in Publishers : pubs[c] = Idle
  BY <1>1 DEF AbsentInv
<1>3. PublishedEvents = {} /\ outbox \in [DispatchIds -> Event]
  BY <1>2 DEF PublishedEvents, TypeOK, OutboxTypeOK
<1>4. CASE ScheduleJob
  BY <1>4 DEF ScheduleJob, InsertQueued
<1>5. CASE \E m \in Slots : MessageStep(m)
  BY <1>2, <1>5 DEF MessageStep, ClaimDispatch, HandlerEnds, ClaimStale,
     ClaimDeferred, ClaimExhausted, ClaimGranted, Succeed, Fail,
     SettleRetryableFailure, SettledStale, UpdateProgress,
     MarkJobFailedAfterRetries, SettlementFails, WorkerCrash, LoseMessage,
     DuplicateMessage
<1>6. CASE \E c \in Publishers : CoordinatorStep(c)
  <2>1. PICK c \in Publishers : CoordinatorStep(c)
    BY <1>6
  <2>2. pubs[c].phase = "idle"
    BY <1>2 DEF Idle
  <2>3. ~ClaimEvent(c)
    BY <1>2 DEF ClaimEvent, ClaimDueEvents, ReclaimStaleClaims
  <2>4. ~PublishEvent(c)
    BY <2>2 DEF PublishEvent, PublishReturns
  <2>5. /\ ~SettleEventPublished(c) /\ ~SettleEventDead(c)
        /\ ~ReleaseEvent(c) /\ ~CoordinatorCrash(c)
    BY <2>2 DEF SettleEventPublished, SettlePublished, SettleEventDead,
                ReleaseEvent, ReleaseClaim, CoordinatorCrash, DropClaim
  <2> QED
    BY <2>1, <2>3, <2>4, <2>5 DEF CoordinatorStep
<1>7. CASE \E s \in Sweepers : SweepStep(s)
  BY <1>1, <1>2, <1>7 DEF SweepStep, ScanQueuedJobs, ReconcileQueuedJob,
     ScanRunningJobs, ReconcileRunningJob, StillAbandoned, outboxVars
<1>8. CASE CooldownPasses
  <2> DEFINE rows == [e \in DispatchIds |-> IF e \in PublishedEvents
                                            THEN [outbox[e] EXCEPT !.elapsed = TRUE]
                                            ELSE outbox[e]]
  <2>1. rows = outbox
    BY <1>3
  <2>2. outbox' = Forget(rows, dispatch_id)
    BY <1>8 DEF CooldownPasses
  <2> HIDE DEF rows
  <2>3. \A e \in DispatchIds : outbox'[e].status = "none"
    BY <1>2, <2>1, <2>2 DEF Forget, NoEvent
  <2> QED
    BY <1>2, <1>8, <2>3 DEF CooldownPasses
<1>9. CASE LeaseExpires \/ DueTimeArrives \/ UNCHANGED vars
  BY <1>1, <1>2, <1>9 DEF LeaseExpires, LiveLease, DueTimeArrives, EventElapses,
     vars, outboxVars
<1> QED
  BY <1>4, <1>5, <1>6, <1>7, <1>8, <1>9 DEF Next

FullInv == Inv /\ AbsentInv

\* All the invariants of the delivery hold in every reachable state.
LEMMA FullInvCorrect == Spec => []FullInv
<1>1. Init => AbsentInv
  <2> SUFFICES ASSUME Init PROVE AbsentInv
    OBVIOUS
  <2> QED
    BY DEF Init, OutboxInit, NoMessage, NoEvent, AbsentInv
<1>2. Inv /\ AbsentInv /\ [Next]_vars => AbsentInv'
  BY NextAbsent DEF Inv
<1>3. Spec => []Inv
  BY InvCorrect
<1> QED
  BY <1>1, <1>2, <1>3, PTL DEF Spec, FullInv

-----------------------------------------------------------------------------
(* Refinement.                                                             *)

\* Each operator of the row is a move of the abstract job.
LEMMA LifecycleMoves ==
    /\ status = "absent" /\ InsertQueued(FreshId) => Lifecycle!Accept
    /\ status \in {"queued", "running"} /\ attempt_count < MaxAttempts /\ BeginAttempt
       => Lifecycle!Start
    /\ status = "running" /\ attempt_count < MaxAttempts
       /\ (RequeueForRetry(FreshId) \/ RequeueAbandoned(FreshId)) => Lifecycle!Requeue
    /\ status \in {"queued", "running"} /\ FailExhausted => Lifecycle!Settle
    /\ \A code, outcome : status \in {"queued", "running"} /\ FailLocked(code, outcome)
                          => Lifecycle!Settle
    /\ status = "running" /\ SucceedLocked => Lifecycle!Settle
BY DEF Lifecycle!Accept, InsertQueued, Lifecycle!Start, Lifecycle!Open, BeginAttempt,
       Lifecycle!Requeue, RequeueForRetry, RequeueAbandoned, Lifecycle!Settle,
       FailExhausted, FailLocked, SucceedLocked

\* Every step of the delivery is a move of the abstract job or leaves it alone.
LEMMA StepRefines ==
    ASSUME FullInv, [Next]_vars
    PROVE  [Lifecycle!Next]_(Lifecycle!jobVars)
<1> DEFINE Stutter == UNCHANGED <<status, attempt_count, owner_token, audits>>
           Move == \/ Lifecycle!Accept \/ Lifecycle!Start
                   \/ Lifecycle!Requeue \/ Lifecycle!Settle
<1> SUFFICES Stutter \/ Move
  BY DEF Lifecycle!Next, Lifecycle!jobVars
<1>1. /\ TypeOK /\ HandlerInv /\ AbsentInv
      /\ status \in JobStatus /\ owner_token \in Nat /\ attempt_count \in 0..MaxAttempts
  BY DEF FullInv, Inv, TypeOK, RowTypeOK
<1>2. ~Terminal /\ status # "absent" => status \in {"queued", "running"}
  BY <1>1 DEF Terminal, JobStatus
<1>3. ASSUME NEW m \in Slots, MessageStep(m)
      PROVE  Stutter \/ Move
  <2>1. msgs[m].phase # "none"
    BY <1>3 DEF MessageStep, ClaimDispatch, HandlerEnds, ClaimStale, ClaimDeferred,
       ClaimExhausted, ClaimGranted, Succeed, Fail, SettleRetryableFailure,
       SettledStale, UpdateProgress, MarkJobFailedAfterRetries, SettlementFails,
       WorkerCrash, LoseMessage, DuplicateMessage
  <2>2. status # "absent"
    BY <1>1, <2>1 DEF AbsentInv
  <2>3. msgs[m].phase = "running" /\ Owns(m) /\ ~Terminal => status = "running"
    BY <1>1 DEF Owns, VerifyOwner, HandlerInv
  <2>4. CASE UNCHANGED rowVars
    BY <2>4 DEF rowVars
  <2>5. CASE ClaimExhausted(m)
    BY <1>2, <2>2, <2>5, LifecycleMoves DEF ClaimExhausted
  <2>6. CASE ClaimGranted(m)
    BY <1>2, <2>2, <2>6, LifecycleMoves DEF ClaimGranted
  <2>7. CASE Succeed(m)
    BY <2>3, <2>7, LifecycleMoves DEF Succeed
  <2>8. CASE Fail(m)
    BY <2>3, <2>8, LifecycleMoves DEF Fail
  <2>9. CASE SettleRetryableFailure(m)
    BY <2>9, LifecycleMoves DEF SettleRetryableFailure
  <2>10. CASE MarkJobFailedAfterRetries(m)
    BY <1>2, <2>2, <2>4, <2>10, LifecycleMoves
       DEF MarkJobFailedAfterRetries, FinalizerMayFail
  <2>11. CASE UpdateProgress(m)
    BY <2>11 DEF UpdateProgress, RenewLease
  <2>12. CASE \/ ClaimStale(m) \/ ClaimDeferred(m) \/ SettledStale(m)
              \/ SettlementFails(m) \/ WorkerCrash(m) \/ LoseMessage(m)
              \/ DuplicateMessage(m)
    BY <2>4, <2>12 DEF ClaimStale, ClaimDeferred, SettledStale, SettlementFails,
       WorkerCrash, LoseMessage, DuplicateMessage
  <2> HIDE DEF Stutter, Move
  <2> QED
    BY <1>3, <2>5, <2>6, <2>7, <2>8, <2>9, <2>10, <2>11, <2>12
       DEF MessageStep, ClaimDispatch, HandlerEnds
<1>4. ASSUME NEW c \in Publishers, CoordinatorStep(c)
      PROVE  Stutter \/ Move
  <2>1. UNCHANGED rowVars \/ (status = "queued" /\ FailLocked("job_dispatch_invalid", "failed"))
    BY <1>4 DEF CoordinatorStep, ClaimEvent, PublishEvent, SettleEventPublished,
                SettleEventDead, NeverClaimedBehind, ReleaseEvent, CoordinatorCrash
  <2> QED
    BY <2>1, LifecycleMoves DEF rowVars
<1>5. ASSUME NEW s \in Sweepers, SweepStep(s)
      PROVE  Stutter \/ Move
  <2>1. CASE UNCHANGED rowVars \/ Redispatch(FreshId)
    BY <2>1 DEF rowVars, Redispatch
  <2>2. CASE status \in {"queued", "running"} /\ FailExhausted
    BY <2>2, LifecycleMoves
  <2>3. CASE status = "running" /\ attempt_count < MaxAttempts /\ RequeueAbandoned(FreshId)
    BY <2>3, LifecycleMoves
  <2> HIDE DEF Stutter, Move
  <2>4. CASE ScanQueuedJobs(s) \/ ScanRunningJobs(s)
    BY <2>1, <2>4 DEF ScanQueuedJobs, ScanRunningJobs
  <2>5. CASE ReconcileQueuedJob(s)
    BY <2>1, <2>2, <2>5 DEF ReconcileQueuedJob, Replace
  <2>6. CASE ReconcileRunningJob(s)
    <3>1. ~EnforceAttemptCeiling => attempt_count < MaxAttempts
      BY <1>1, MaxAttemptsAssumption DEF EnforceAttemptCeiling
    <3> QED
      BY <2>1, <2>2, <2>3, <2>6, <3>1 DEF ReconcileRunningJob, Replace, StillAbandoned
  <2> QED
    BY <1>5, <2>4, <2>5, <2>6 DEF SweepStep
<1>6. CASE ScheduleJob
  BY <1>6, LifecycleMoves DEF ScheduleJob
<1>7. CASE LeaseExpires \/ DueTimeArrives \/ CooldownPasses \/ UNCHANGED vars
  BY <1>7 DEF LeaseExpires, DueTimeArrives, CooldownPasses, vars, rowVars
<1> HIDE DEF Stutter, Move
<1> QED
  BY <1>3, <1>4, <1>5, <1>6, <1>7 DEF Next

\* The delivery machinery implements the abstract job: accepted once, started
\* at most MAX_ATTEMPTS times, each time under a credential never used
\* before, requeued only from running, and settled exactly once, with success
\* only from running.
THEOREM Refinement == Spec => ImplementsLifecycle
<1>1. Init => Lifecycle!Init
  BY DEF Init, RowInit, Lifecycle!Init
<1>2. FullInv /\ [Next]_vars => [Lifecycle!Next]_(Lifecycle!jobVars)
  BY StepRefines
<1> QED
  BY <1>1, <1>2, FullInvCorrect, PTL DEF Spec, ImplementsLifecycle, Lifecycle!Spec

-----------------------------------------------------------------------------
(* Recovery.                                                               *)

\* The event an unsettled job waits for is a row of the outbox.  It can
\* leave the outbox only by dying, and no claim is about to report it dead.
CurrentInv ==
    /\ status \in {"queued", "running"} =>
         dispatch_id \in DispatchIds /\ outbox[dispatch_id].status # "none"
    /\ \A c \in Publishers : pubs[c].phase # "dead"

\* Forgetting history never forgets the current event.
LEMMA ForgetKeepsCurrent ==
    ASSUME NEW rows, NEW current \in DispatchIds, rows[current].status # "none"
    PROVE  Forget(rows, current)[current].status # "none"
BY DEF Forget

\* A coordinator that settles no dead event leaves the job's event in the outbox.
LEMMA CoordinatorKeepsEvent ==
    ASSUME outbox \in [DispatchIds -> Event], NEW c \in Publishers, CoordinatorStep(c),
           ~SettleEventDead(c), dispatch_id \in DispatchIds, outbox[dispatch_id].status # "none"
    PROVE  outbox'[dispatch_id].status # "none"
<1>1. CASE ClaimDueEvents(c)
  <2>1. PICK e \in DispatchIds :
          outbox' = [outbox EXCEPT ![e] = [status |-> "publishing",
                                           elapsed |-> FALSE, claim_token |-> c]]
    BY <1>1 DEF ClaimDueEvents
  <2> QED
    BY <2>1
<1>2. CASE ReclaimStaleClaims(c)
  <2>1. PICK e \in DispatchIds :
          outbox' = [outbox EXCEPT ![e].elapsed = FALSE, ![e].claim_token = c]
    BY <1>2 DEF ReclaimStaleClaims
  <2>2. \A d \in DispatchIds : outbox'[d].status = outbox[d].status
    BY <2>1 DEF Event
  <2> QED
    BY <2>2
<1>3. CASE PublishEvent(c) \/ CoordinatorCrash(c)
  BY <1>3 DEF PublishEvent, PublishReturns, CoordinatorCrash, DropClaim
<1>4. CASE SettleEventPublished(c)
  <2> DEFINE row == [status |-> "published", elapsed |-> FALSE,
                     claim_token |-> NoPublisher]
             rows == [outbox EXCEPT ![pubs[c].event] = row]
  <2>1. rows[dispatch_id].status # "none"
    OBVIOUS
  <2>2. outbox' = Forget(rows, dispatch_id) \/ outbox' = outbox
    BY <1>4 DEF SettleEventPublished, SettlePublished
  <2> HIDE DEF rows
  <2> QED
    BY <2>1, <2>2, ForgetKeepsCurrent
<1>5. CASE ReleaseEvent(c)
  BY <1>5 DEF ReleaseEvent, ReleaseClaim, PendingEvent
<1> QED
  BY <1>1, <1>2, <1>3, <1>4, <1>5 DEF CoordinatorStep, ClaimEvent

\* Time takes no event of an unsettled job out of the outbox.
LEMMA TimeKeepsEvent ==
    ASSUME outbox \in [DispatchIds -> Event], DueTimeArrives \/ CooldownPasses,
           dispatch_id \in DispatchIds, outbox[dispatch_id].status # "none"
    PROVE  outbox'[dispatch_id].status # "none"
<1>1. \A e \in DispatchIds : [outbox[e] EXCEPT !.elapsed = TRUE].status = outbox[e].status
  BY DEF Event
<1>2. CASE DueTimeArrives
  <2>1. PICK e \in DispatchIds :
          outbox' = [outbox EXCEPT ![e] = [outbox[e] EXCEPT !.elapsed = TRUE]]
    BY <1>2 DEF DueTimeArrives, EventElapses
  <2> QED
    BY <1>1, <2>1
<1>3. CASE CooldownPasses
  <2> DEFINE rows == [e \in DispatchIds |-> IF e \in PublishedEvents
                                            THEN [outbox[e] EXCEPT !.elapsed = TRUE]
                                            ELSE outbox[e]]
  <2>1. rows[dispatch_id].status = outbox[dispatch_id].status
    BY <1>1
  <2>2. outbox' = Forget(rows, dispatch_id)
    BY <1>3 DEF CooldownPasses
  <2> HIDE DEF rows
  <2> QED
    BY <2>1, <2>2, ForgetKeepsCurrent
<1> QED
  BY <1>2, <1>3

\* A step of a delivered message keeps the awaited event in the outbox.
LEMMA MessageStepCurrent ==
    ASSUME FullInv, CurrentInv, NEW m \in Slots, MessageStep(m)
    PROVE  CurrentInv'
<1>1. /\ status \in JobStatus /\ outbox \in [DispatchIds -> Event]
      /\ pubs \in [Publishers -> Claim] /\ AbsentInv
  BY DEF FullInv, Inv, TypeOK, RowTypeOK, OutboxTypeOK
<1>2. CASE /\ UNCHANGED <<dispatch_id, outboxVars>>
           /\ status' \in {"queued", "running"} => status \in {"queued", "running"}
  BY <1>2 DEF CurrentInv, outboxVars
<1>3. CASE ClaimGranted(m)
  <2>1. status \in {"queued", "running"}
    BY <1>1, <1>3 DEF ClaimGranted, AbsentInv, Terminal, JobStatus
  <2> QED
    BY <1>2, <1>3, <2>1 DEF ClaimGranted, BeginAttempt
<1>4. CASE SettleRetryableFailure(m)
  <2>1. CASE FailExhausted /\ UNCHANGED outboxVars
    BY <1>2, <2>1 DEF FailExhausted, FailLocked
  <2>2. CASE /\ FreshIds # {} /\ RequeueForRetry(FreshId)
             /\ CreateDispatchEvent(FreshId, FALSE)
    BY <1>1, <2>2, FreshIdIsFresh
       DEF RequeueForRetry, CreateDispatchEvent, PendingEvent, CurrentInv
  <2> QED
    BY <1>4, <2>1, <2>2 DEF SettleRetryableFailure
<1>5. CASE ClaimStale(m) \/ ClaimDeferred(m) \/ ClaimExhausted(m) \/ Succeed(m)
           \/ Fail(m) \/ SettledStale(m) \/ UpdateProgress(m)
           \/ MarkJobFailedAfterRetries(m) \/ SettlementFails(m) \/ WorkerCrash(m)
           \/ LoseMessage(m) \/ DuplicateMessage(m)
  <2>1. UNCHANGED <<dispatch_id, outboxVars>>
    BY <1>5 DEF ClaimStale, ClaimDeferred, ClaimExhausted, Succeed, Fail,
       SettledStale, UpdateProgress, MarkJobFailedAfterRetries, SettlementFails,
       WorkerCrash, LoseMessage, DuplicateMessage, FailExhausted, FailLocked,
       SucceedLocked, RenewLease, rowVars
  <2>2. status' = status \/ status' \in {"succeeded", "failed"}
    BY <1>5 DEF ClaimStale, ClaimDeferred, ClaimExhausted, Succeed, Fail,
       SettledStale, UpdateProgress, MarkJobFailedAfterRetries, SettlementFails,
       WorkerCrash, LoseMessage, DuplicateMessage, FailExhausted, FailLocked,
       SucceedLocked, RenewLease, rowVars
  <2> QED
    BY <1>2, <2>1, <2>2
<1> QED
  BY <1>3, <1>4, <1>5 DEF MessageStep, ClaimDispatch, HandlerEnds

\* A coordinator that meets no dead event keeps the awaited event in the outbox.
LEMMA CoordinatorStepCurrent ==
    ASSUME FullInv, CurrentInv, "dead" \notin Faults, NEW c \in Publishers,
           CoordinatorStep(c)
    PROVE  CurrentInv'
<1>1. /\ outbox \in [DispatchIds -> Event]
      /\ pubs \in [Publishers -> Claim]
  BY DEF FullInv, Inv, TypeOK, OutboxTypeOK
<1>2. ~SettleEventDead(c)
  BY DEF SettleEventDead, CurrentInv
<1>3. UNCHANGED <<status, dispatch_id>>
  BY <1>2 DEF CoordinatorStep, ClaimEvent, PublishEvent, SettleEventPublished,
              ReleaseEvent, CoordinatorCrash, rowVars
<1>4. \A b \in Publishers : pubs'[b].phase # "dead"
  <2>1. CASE ClaimEvent(c)
    <3>1. PICK e \in DispatchIds : pubs' = [pubs EXCEPT ![c] = [phase |-> "claimed", event |-> e]]
      BY <2>1 DEF ClaimEvent, ClaimDueEvents, ReclaimStaleClaims
    <3> QED
      BY <1>1, <3>1 DEF CurrentInv
  <2>2. CASE PublishEvent(c)
    <3>1. PICK outcome \in {"published", "transient"} :
            pubs' = [pubs EXCEPT ![c] = [pubs[c] EXCEPT !.phase = outcome]]
      BY <2>2 DEF PublishEvent, PublishReturns, Fault
    <3>2. pubs[c] \in Claim
      BY <1>1
    <3>3. [pubs[c] EXCEPT !.phase = outcome].phase = outcome
      BY <3>2 DEF Claim
    <3> QED
      BY <1>1, <3>1, <3>3 DEF CurrentInv
  <2>3. CASE SettleEventPublished(c) \/ ReleaseEvent(c) \/ CoordinatorCrash(c)
    <3>1. pubs' = [pubs EXCEPT ![c] = Idle]
      BY <2>3 DEF SettleEventPublished, SettlePublished, ReleaseEvent, ReleaseClaim,
                  CoordinatorCrash, DropClaim
    <3> QED
      BY <1>1, <3>1 DEF CurrentInv, Idle
  <2> QED
    BY <1>2, <2>1, <2>2, <2>3 DEF CoordinatorStep
<1>5. dispatch_id \in DispatchIds /\ outbox[dispatch_id].status # "none"
         => outbox'[dispatch_id].status # "none"
  BY <1>1, <1>2, CoordinatorKeepsEvent
<1> QED
  BY <1>3, <1>4, <1>5 DEF CurrentInv

\* Without dead events every step keeps the awaited event in the outbox.
LEMMA NextCurrent ==
    ASSUME FullInv, CurrentInv, "dead" \notin Faults, [Next]_vars
    PROVE  CurrentInv'
<1>1. outbox \in [DispatchIds -> Event]
  BY DEF FullInv, Inv, TypeOK, OutboxTypeOK
<1>2. CASE /\ UNCHANGED <<dispatch_id, outboxVars>>
           /\ status' = status \/ status' = "failed"
  BY <1>2 DEF CurrentInv, outboxVars
<1>3. ASSUME NEW due \in BOOLEAN, FreshIds # {}, dispatch_id' = FreshId,
             CreateDispatchEvent(FreshId, due)
      PROVE  CurrentInv'
  BY <1>1, <1>3, FreshIdIsFresh DEF CreateDispatchEvent, PendingEvent, CurrentInv
<1>4. CASE ScheduleJob
  BY <1>3, <1>4 DEF ScheduleJob, InsertQueued
<1>5. CASE \E s \in Sweepers : SweepStep(s)
  <2>1. PICK s \in Sweepers : SweepStep(s)
    BY <1>5
  <2>2. \/ UNCHANGED <<dispatch_id, outboxVars>> /\ (status' = status \/ status' = "failed")
        \/ /\ FreshIds # {} /\ dispatch_id' = FreshId
           /\ CreateDispatchEvent(FreshId, TRUE)
    BY <2>1 DEF SweepStep, ScanQueuedJobs, ReconcileQueuedJob, ScanRunningJobs,
       ReconcileRunningJob, Replace, Redispatch, RequeueAbandoned, FailExhausted,
       FailLocked, rowVars
  <2> QED
    BY <1>2, <1>3, <2>2
<1>6. CASE DueTimeArrives \/ CooldownPasses
  <2>1. UNCHANGED <<status, dispatch_id, pubs>>
    BY <1>6 DEF DueTimeArrives, EventElapses, CooldownPasses, rowVars
  <2> QED
    BY <1>1, <1>6, <2>1, TimeKeepsEvent DEF CurrentInv
<1>7. CASE LeaseExpires \/ UNCHANGED vars
  BY <1>2, <1>7 DEF LeaseExpires, vars, rowVars
<1> QED
  BY <1>4, <1>5, <1>6, <1>7, MessageStepCurrent, CoordinatorStepCurrent DEF Next

\* Unless an event is permanently invalid, no crash, loss, duplicate, retry
\* or takeover ever leaves an unsettled job without the outbox event that
\* will run it or let a sweep replace it.
THEOREM RecoverableCorrect == "dead" \notin Faults => (Spec => []Recoverable)
<1> SUFFICES ASSUME "dead" \notin Faults PROVE Spec => []Recoverable
  OBVIOUS
<1>1. Init => CurrentInv
  <2> SUFFICES ASSUME Init PROVE CurrentInv
    OBVIOUS
  <2> QED
    BY DEF Init, RowInit, OutboxInit, Idle, CurrentInv
<1>2. FullInv /\ CurrentInv /\ [Next]_vars => CurrentInv'
  BY NextCurrent
<1>3. CurrentInv => Recoverable
  BY DEF CurrentInv, Recoverable
<1> QED
  BY <1>1, <1>2, <1>3, FullInvCorrect, PTL DEF Spec

\* A dead event fails the job it leaves behind if nobody claimed the job: this is
\* the invariant that dead events do not break.
UnclaimedInv ==
    status = "queued" /\ attempt_count = 0 =>
      dispatch_id \in DispatchIds /\ outbox[dispatch_id].status # "none"

LEMMA NextUnclaimed ==
    ASSUME FullInv, UnclaimedInv, [Next]_vars
    PROVE  UnclaimedInv'
<1>1. /\ outbox \in [DispatchIds -> Event] /\ pubs \in [Publishers -> Claim]
      /\ attempt_count \in Nat /\ status \in JobStatus
      /\ status = "running" => attempt_count # 0
  BY MaxAttemptsAssumption
     DEF FullInv, Inv, RowInv, TypeOK, RowTypeOK, OutboxTypeOK, LedgerMatchesRow
<1>2. CASE /\ UNCHANGED <<dispatch_id, outbox>>
           /\ status' # "queued" \/ UNCHANGED <<status, attempt_count>>
  BY <1>2 DEF UnclaimedInv
<1>3. ASSUME NEW due \in BOOLEAN, FreshIds # {}, dispatch_id' = FreshId,
             CreateDispatchEvent(FreshId, due)
      PROVE  UnclaimedInv'
  BY <1>1, <1>3, FreshIdIsFresh DEF CreateDispatchEvent, PendingEvent, UnclaimedInv
<1>4. CASE ScheduleJob
  BY <1>3, <1>4 DEF ScheduleJob, InsertQueued
<1>5. ASSUME NEW m \in Slots, MessageStep(m) PROVE UnclaimedInv'
  <2>1. CASE SettleRetryableFailure(m)
    <3>1. CASE FailExhausted /\ UNCHANGED outboxVars
      BY <1>2, <3>1 DEF FailExhausted, FailLocked, outboxVars
    <3>2. CASE /\ FreshIds # {} /\ RequeueForRetry(FreshId)
               /\ CreateDispatchEvent(FreshId, FALSE)
      BY <1>3, <3>2 DEF RequeueForRetry
    <3> QED
      BY <2>1, <3>1, <3>2 DEF SettleRetryableFailure
  <2>2. CASE ~SettleRetryableFailure(m)
    <3>1. UNCHANGED <<dispatch_id, outbox>>
      BY <1>5, <2>2 DEF MessageStep, ClaimDispatch, HandlerEnds, ClaimStale, ClaimDeferred,
         ClaimExhausted, ClaimGranted, BeginAttempt, Succeed, Fail, SettledStale,
         UpdateProgress, MarkJobFailedAfterRetries, SettlementFails, WorkerCrash,
         LoseMessage, DuplicateMessage, FailExhausted, FailLocked, SucceedLocked,
         RenewLease, rowVars, outboxVars
    <3>2. status' # "queued" \/ UNCHANGED <<status, attempt_count>>
      BY <1>5, <2>2 DEF MessageStep, ClaimDispatch, HandlerEnds, ClaimStale, ClaimDeferred,
         ClaimExhausted, ClaimGranted, BeginAttempt, Succeed, Fail, SettledStale,
         UpdateProgress, MarkJobFailedAfterRetries, SettlementFails, WorkerCrash,
         LoseMessage, DuplicateMessage, FailExhausted, FailLocked, SucceedLocked,
         RenewLease, rowVars, outboxVars
    <3> QED
      BY <1>2, <3>1, <3>2
  <2> QED
    BY <2>1, <2>2
<1>6. ASSUME NEW c \in Publishers, CoordinatorStep(c) PROVE UnclaimedInv'
  <2>1. CASE SettleEventDead(c)
    <3>1. CASE ~OwnsClaim(c)
      BY <1>2, <2>1, <3>1 DEF SettleEventDead, rowVars
    <3>2. CASE OwnsClaim(c) /\ NeverClaimedBehind(pubs[c].event)
      BY <2>1, <3>2 DEF SettleEventDead, FailLocked, UnclaimedInv
    <3>3. CASE OwnsClaim(c) /\ ~NeverClaimedBehind(pubs[c].event)
      <4>1. UNCHANGED <<status, attempt_count, dispatch_id>> /\ MarkDead(c)
        BY <2>1, <3>3 DEF SettleEventDead, rowVars
      <4>2. status = "queued" /\ attempt_count = 0 => dispatch_id # pubs[c].event
        BY <3>3 DEF NeverClaimedBehind
      <4> QED
        BY <1>1, <4>1, <4>2 DEF MarkDead, UnclaimedInv
    <3> QED
      BY <3>1, <3>2, <3>3
  <2>2. CASE ~SettleEventDead(c)
    <3>1. UNCHANGED <<status, attempt_count, dispatch_id>>
      BY <1>6, <2>2 DEF CoordinatorStep, ClaimEvent, PublishEvent, SettleEventPublished,
                        ReleaseEvent, CoordinatorCrash, rowVars
    <3> QED
      BY <1>1, <1>6, <2>2, <3>1, CoordinatorKeepsEvent DEF UnclaimedInv
  <2> QED
    BY <2>1, <2>2
<1>7. ASSUME NEW s \in Sweepers, SweepStep(s) PROVE UnclaimedInv'
  <2>1. \/ /\ UNCHANGED <<dispatch_id, outbox>>
           /\ status' # "queued" \/ UNCHANGED <<status, attempt_count>>
        \/ /\ FreshIds # {} /\ dispatch_id' = FreshId
           /\ CreateDispatchEvent(FreshId, TRUE)
    BY <1>7 DEF SweepStep, ScanQueuedJobs, ReconcileQueuedJob, ScanRunningJobs,
       ReconcileRunningJob, Replace, Redispatch, RequeueAbandoned, FailExhausted,
       FailLocked, rowVars, outboxVars
  <2> QED
    BY <1>2, <1>3, <2>1
<1>8. CASE DueTimeArrives \/ CooldownPasses
  <2>1. UNCHANGED <<status, attempt_count, dispatch_id>>
    BY <1>8 DEF DueTimeArrives, CooldownPasses, rowVars
  <2> QED
    BY <1>1, <1>8, <2>1, TimeKeepsEvent DEF UnclaimedInv
<1>9. CASE LeaseExpires \/ UNCHANGED vars
  BY <1>2, <1>9 DEF LeaseExpires, vars, rowVars, outboxVars
<1> QED
  BY <1>4, <1>5, <1>6, <1>7, <1>8, <1>9 DEF Next

\* Whatever event is found permanently invalid, by whichever coordinator and
\* however late, no job that nobody has claimed is left without an event.
THEOREM DeadEventCorrect == Spec => []DeadEventStrandsNoUnclaimedJob
<1>1. Init => UnclaimedInv
  BY DEF Init, RowInit, UnclaimedInv
<1>2. FullInv /\ UnclaimedInv /\ [Next]_vars => UnclaimedInv'
  BY NextUnclaimed
<1>3. FullInv /\ UnclaimedInv => DeadEventStrandsNoUnclaimedJob
  <2> SUFFICES ASSUME FullInv, UnclaimedInv, status = "queued", attempt_count = 0
               PROVE  ActiveEvents \union PublishedEvents # {}
    BY DEF DeadEventStrandsNoUnclaimedJob
  <2>1. outbox[dispatch_id] \in Event /\ outbox[dispatch_id].status # "none"
    BY DEF FullInv, Inv, TypeOK, OutboxTypeOK, UnclaimedInv
  <2> QED
    BY <2>1 DEF UnclaimedInv, ActiveEvents, PublishedEvents, Event
<1> QED
  BY <1>1, <1>2, <1>3, FullInvCorrect, PTL DEF Spec

-----------------------------------------------------------------------------
(* What a step may never do.                                               *)

\* Only a handler's own settlement gets past the owner check, and the check
\* compares with a credential that is never NULL once a handler exists.
LEMMA OwnerIsCurrent ==
    ASSUME FullInv, NEW m \in Slots, msgs[m].phase = "running"
    PROVE  Owns(m) <=> msgs[m].own.token = owner_token
<1>1. owner_token \in Nat /\ msgs[m].own.token \in 1..owner_token
  BY DEF FullInv, Inv, TypeOK, RowTypeOK, HandlerInv
<1> QED
  BY <1>1 DEF Owns, VerifyOwner

\* One step that ends an attempt under a live lease is its owner's.
LEMMA LiveLeaseStep ==
    ASSUME FullInv, [Next]_vars, LiveLease,
           status' # "running" \/ owner_token' # owner_token
    PROVE  \E m \in Slots : /\ msgs[m].phase = "running"
                            /\ msgs[m].own.token = owner_token
                            /\ msgs'[m] # msgs[m]
<1>1. /\ status = "running" /\ lease = "live" /\ TypeOK
      /\ ~(status' = status /\ owner_token' = owner_token)
  BY DEF LiveLease, FullInv, Inv
<1>2. ASSUME NEW m \in Slots, Succeed(m) \/ Fail(m) \/ SettleRetryableFailure(m)
      PROVE  /\ msgs[m].phase = "running"
             /\ msgs[m].own.token = owner_token
             /\ msgs'[m] # msgs[m]
  <2>1. msgs[m].phase = "running" /\ Owns(m)
    BY <1>2 DEF Succeed, Fail, SettleRetryableFailure
  <2>2. EndMessage(m) \/ \E stamp : BrokerRetry(m, stamp)
    BY <1>2 DEF Succeed, Fail, SettleRetryableFailure, EndSettlement
  <2>3. msgs'[m].phase # "running"
    BY <1>1, <2>2, EndsHandler
  <2> QED
    BY <2>1, <2>3, OwnerIsCurrent
<1>3. ASSUME NEW m \in Slots, MessageStep(m)
      PROVE  Succeed(m) \/ Fail(m) \/ SettleRetryableFailure(m)
  <2>1. ~ClaimExhausted(m) /\ ~ClaimGranted(m)
    BY DEF ClaimExhausted, ClaimGranted, Deferred
  <2>2. ~MarkJobFailedAfterRetries(m)
    BY <1>1 DEF MarkJobFailedAfterRetries, FinalizerMayFail, rowVars
  <2>3. /\ ~ClaimStale(m) /\ ~ClaimDeferred(m) /\ ~SettledStale(m)
        /\ ~UpdateProgress(m) /\ ~SettlementFails(m) /\ ~WorkerCrash(m)
        /\ ~LoseMessage(m) /\ ~DuplicateMessage(m)
    BY <1>1 DEF ClaimStale, ClaimDeferred, SettledStale, UpdateProgress, RenewLease,
       SettlementFails, WorkerCrash, LoseMessage, DuplicateMessage, rowVars
  <2> QED
    BY <1>3, <2>1, <2>2, <2>3 DEF MessageStep, ClaimDispatch, HandlerEnds
<1>4. ASSUME NEW c \in Publishers, CoordinatorStep(c)
      PROVE  FALSE
  BY <1>1, <1>4 DEF CoordinatorStep, ClaimEvent, PublishEvent, SettleEventPublished,
     SettleEventDead, NeverClaimedBehind, ReleaseEvent, CoordinatorCrash, rowVars
<1>5. ASSUME NEW s \in Sweepers, SweepStep(s)
      PROVE  FALSE
  BY <1>1, <1>5 DEF SweepStep, ScanQueuedJobs, ReconcileQueuedJob, ScanRunningJobs,
     ReconcileRunningJob, StillAbandoned, rowVars
<1>6. ~ScheduleJob
  BY <1>1 DEF ScheduleJob
<1>7. ~LeaseExpires /\ ~DueTimeArrives /\ ~CooldownPasses /\ ~(UNCHANGED vars)
  BY <1>1 DEF LeaseExpires, DueTimeArrives, CooldownPasses, vars, rowVars
<1> QED
  BY <1>2, <1>3, <1>4, <1>5, <1>6, <1>7 DEF Next

\* While the lease of an attempt is live, nobody but its own handler ends it:
\* claims defer, the sweep and the finalizer refuse, and a dead event fails
\* only queued jobs.
THEOREM LiveLeaseCorrect == Spec => LiveLeaseIsRespected
<1>1. FullInv /\ [Next]_vars =>
        [LiveLease /\ (status' # "running" \/ owner_token' # owner_token)
         => \E m \in Slots : /\ msgs[m].phase = "running"
                             /\ msgs[m].own.token = owner_token
                             /\ msgs'[m] # msgs[m]]_vars
  BY LiveLeaseStep
<1> QED
  BY <1>1, FullInvCorrect, PTL DEF Spec, LiveLeaseIsRespected

\* One step of a superseded delivery changes neither the row nor the outbox.
LEMMA SupersededStep ==
    ASSUME FullInv, [Next]_vars, NEW m \in Slots, Superseded(m), msgs'[m] # msgs[m]
    PROVE  UNCHANGED <<rowVars, outbox>>
<1>1. /\ TypeOK /\ msgs \in [Slots -> Message]
      /\ msgs[m].phase \in {"running", "exhausted"}
  BY DEF FullInv, Inv, TypeOK, Superseded
<1>2. ASSUME NEW n \in Slots, MessageStep(n)
      PROVE  UNCHANGED <<rowVars, outbox>>
  <2>1. CASE DuplicateMessage(n)
    BY <2>1 DEF DuplicateMessage, outboxVars
  <2>2. CASE n # m /\ ~DuplicateMessage(n)
    <3>1. msgs'[m] = msgs[m]
      BY <1>1, <1>2, <2>2
         DEF MessageStep, ClaimDispatch, HandlerEnds, ClaimStale, ClaimDeferred,
         ClaimExhausted, ClaimGranted, Succeed, Fail, SettleRetryableFailure,
         SettledStale, UpdateProgress, MarkJobFailedAfterRetries, SettlementFails,
         WorkerCrash, LoseMessage, EndSettlement, EndMessage, Ack, Redeliver, BrokerRetry
    <3> QED
      BY <3>1
  <2>3. CASE n = m /\ msgs[m].phase = "running"
    <3>1. ~Owns(m)
      BY <2>3, OwnerIsCurrent DEF Superseded
    <3>2. SettledStale(m) \/ SettlementFails(m) \/ WorkerCrash(m) \/ DuplicateMessage(m)
      BY <1>2, <2>3, <3>1
         DEF MessageStep, ClaimDispatch, HandlerEnds, ClaimStale, ClaimDeferred,
         ClaimExhausted, ClaimGranted, Succeed, Fail, SettleRetryableFailure,
         UpdateProgress, MarkJobFailedAfterRetries, LoseMessage
    <3> QED
      BY <3>2 DEF SettledStale, SettlementFails, WorkerCrash, DuplicateMessage, outboxVars
  <2>4. CASE n = m /\ msgs[m].phase = "exhausted"
    <3>1. ~FinalizerMayFail(m)
      <4>1. msgs[m].stamp \in Stamp /\ msgs[m].stamp # NoStamp
            /\ msgs[m].stamp # [dispatch |-> dispatch_id, token |-> owner_token]
        BY <1>1, <2>4 DEF Superseded, Message
      <4> QED
        BY <4>1 DEF FinalizerMayFail, Stamp
    <3>2. MarkJobFailedAfterRetries(m) \/ LoseMessage(m)
      BY <1>2, <2>4
         DEF MessageStep, ClaimDispatch, HandlerEnds, ClaimStale, ClaimDeferred,
         ClaimExhausted, ClaimGranted, Succeed, Fail, SettleRetryableFailure,
         SettledStale, UpdateProgress, SettlementFails, WorkerCrash, DuplicateMessage
    <3> QED
      BY <3>1, <3>2 DEF MarkJobFailedAfterRetries, LoseMessage, outboxVars
  <2> QED
    BY <1>1, <2>1, <2>2, <2>3, <2>4
<1>3. ASSUME NEW c \in Publishers, CoordinatorStep(c)
      PROVE  FALSE
  <2>1. CASE EnqueueMessage
    <3>1. PICK n \in Slots : /\ msgs[n] = NoMessage
                             /\ msgs' = [msgs EXCEPT ![n] = [NoMessage EXCEPT !.phase = "queued"]]
      BY <2>1 DEF EnqueueMessage
    <3>2. n # m
      BY <1>1, <3>1 DEF NoMessage
    <3> QED
      BY <1>1, <3>1, <3>2
  <2>2. msgs' = msgs \/ EnqueueMessage
    BY <1>3 DEF CoordinatorStep, ClaimEvent, PublishEvent, SettleEventPublished,
                SettleEventDead, ReleaseEvent, CoordinatorCrash
  <2> QED
    BY <2>1, <2>2
<1>4. ASSUME NEW s \in Sweepers, SweepStep(s)
      PROVE  FALSE
  BY <1>4 DEF SweepStep, ScanQueuedJobs, ReconcileQueuedJob, ScanRunningJobs,
     ReconcileRunningJob
<1>5. /\ ~ScheduleJob /\ ~LeaseExpires /\ ~DueTimeArrives /\ ~CooldownPasses
      /\ ~(UNCHANGED vars)
  BY DEF ScheduleJob, LeaseExpires, DueTimeArrives, CooldownPasses, vars
<1> QED
  BY <1>2, <1>3, <1>4, <1>5 DEF Next

\* A delivery whose attempt was superseded (its credential rotated, or its
\* finalizer's stamp out of date) changes neither the row, nor the ledger,
\* nor the outbox by any later step.
THEOREM SupersededCorrect == Spec => SupersededDeliveryIsHarmless
<1>1. FullInv /\ [Next]_vars =>
        [\A m \in Slots : Superseded(m) /\ msgs'[m] # msgs[m]
                           => UNCHANGED <<rowVars, outbox>>]_vars
  BY SupersededStep
<1> QED
  BY <1>1, FullInvCorrect, PTL DEF Spec, SupersededDeliveryIsHarmless

\* Every settlement compares the claim token before it writes.
LEMMA SupersededClaimStep ==
    ASSUME FullInv, [Next]_vars, NEW c \in Publishers,
           pubs[c].phase \in {"published", "transient", "dead"}, ~OwnsClaim(c),
           pubs'[c] # pubs[c]
    PROVE  UNCHANGED <<rowVars, outbox>>
<1>1. pubs \in [Publishers -> Claim]
  BY DEF FullInv, Inv, TypeOK, OutboxTypeOK
<1>2. \E d \in Publishers : CoordinatorStep(d)
  <2>1. UNCHANGED pubs \/ \E d \in Publishers : CoordinatorStep(d)
    BY DEF Next, ScheduleJob, CreateDispatchEvent, MessageStep, ClaimDispatch, HandlerEnds,
       ClaimStale, ClaimDeferred, ClaimExhausted, ClaimGranted, Succeed, Fail, SettledStale,
       SettleRetryableFailure, UpdateProgress, MarkJobFailedAfterRetries, SettlementFails,
       WorkerCrash, LoseMessage, DuplicateMessage, SweepStep, ScanQueuedJobs,
       ReconcileQueuedJob, ScanRunningJobs, ReconcileRunningJob, Replace, LeaseExpires,
       DueTimeArrives, EventElapses, CooldownPasses, outboxVars, vars
  <2> QED
    BY <2>1
<1>3. PICK d \in Publishers : CoordinatorStep(d)
  BY <1>2
<1>4. \E claim : pubs' = [pubs EXCEPT ![d] = claim]
  BY <1>3 DEF CoordinatorStep, ClaimEvent, ClaimDueEvents, ReclaimStaleClaims, PublishEvent,
     PublishReturns, SettleEventPublished, SettlePublished, SettleEventDead, ReleaseEvent,
     ReleaseClaim, CoordinatorCrash, DropClaim
<1>5. d = c
  BY <1>1, <1>4
<1>6. ~ClaimEvent(c) /\ ~PublishEvent(c)
  BY DEF ClaimEvent, ClaimDueEvents, ReclaimStaleClaims, Idle, PublishEvent, PublishReturns
<1> QED
  BY <1>3, <1>5, <1>6 DEF CoordinatorStep, SettleEventPublished, SettlePublished,
     SettleEventDead, ReleaseEvent, ReleaseClaim, CoordinatorCrash, DropClaim, rowVars

\* A coordinator whose claim was taken over by another changes nothing when it
\* settles or releases late, whatever it learnt from the broker.
THEOREM SupersededClaimCorrect == Spec => SupersededClaimIsHarmless
<1>1. FullInv /\ [Next]_vars => [\A c \in Publishers :
        /\ pubs[c].phase \in {"published", "transient", "dead"}
        /\ ~(/\ outbox[pubs[c].event].status = "publishing"
             /\ outbox[pubs[c].event].claim_token = c)
        /\ pubs'[c] # pubs[c]
        => UNCHANGED <<rowVars, outbox>>]_vars
  BY SupersededClaimStep DEF OwnsClaim
<1> QED
  BY <1>1, FullInvCorrect, PTL DEF Spec, SupersededClaimIsHarmless
=============================================================================
