---------------------------- MODULE Maintenance ----------------------------
(***************************************************************************)
(* One scheduled maintenance run: modules/maintenance/ and its part of     *)
(* job_coordinator/reconciliation.py.  The coordinator writes the run and  *)
(* its dispatch event in one transaction; a worker claims the run, takes   *)
(* the advisory lock of the task type, sweeps while a heartbeat renews its *)
(* lease, releases the lock and settles; the coordinator requeues a run    *)
(* whose lease has expired.                                                *)
(*                                                                         *)
(* Every row operation holds the run FOR UPDATE and evaluates its guards   *)
(* on the locked row, so each is one step.  An attempt's owner token is a  *)
(* fresh UUID that is only compared: here it is the attempt's number.      *)
(* Dispatch events are counted; how one is published is in Outbox and      *)
(* JobDelivery, and how long it is delayed is left open.                   *)
(***************************************************************************)
EXTENDS Naturals

CONSTANTS
    MaxAttempts,     \* MAX_ATTEMPTS
    Workers,         \* message copies, each with the worker processing it
    NoWorker,        \* the advisory lock is free
    OtherSweep,      \* it is held for another bucket, or by a legacy message
    Faults           \* what may go wrong before the system is calm

ASSUME MaxAttemptsAssumption == MaxAttempts \in Nat \ {0}
ASSUME HoldersAssumption ==
    NoWorker \notin Workers /\ OtherSweep \notin Workers /\ NoWorker # OtherSweep
ASSUME FaultsAssumption ==
    Faults \subseteq {"loss", "crash", "duplicate", "ambiguous", "database",
                      "dead", "contention", "crossed", "stall", "timelimit"}

VARIABLES
    status,          \* maintenance_runs.status, or "absent"
    attempt_count,
    owner_token,     \* 0 is NULL
    lease,           \* lease_expires_at: "none", "live" or "expired"
    error_code,
    taken_over,
    dispatches,      \* outbox events of the run not yet with the broker
    workers,         \* the message copies
    lock,            \* who holds the session-level advisory lock
    orphans,         \* attempts whose heartbeat outlived their handler
    strays,          \* attempts whose sweep outlived it, and with it the lock
    calm             \* nothing goes wrong from now on

runVars == <<status, attempt_count, owner_token, lease, error_code, taken_over>>
vars == <<runVars, dispatches, workers, lock, orphans, strays, calm>>

Terminal == status \in {"succeeded", "failed"}
LiveLease == status = "running" /\ lease = "live"

ErrorCode == {"none", "exhausted", "transient", "lock_unavailable", "abandoned",
              "task_mismatch"}

\* "message": with the broker; "claimed": before the lock; "swept" and
\* "failed": the lock is released and the outcome not yet settled.
Worker == [phase : {"none", "message", "claimed", "sweeping", "swept", "failed"},
           own : 0..MaxAttempts, code : {"none", "transient", "lock_unavailable"}]
NoMessage == [phase |-> "none", own |-> 0, code |-> "none"]
QueuedMessage == [NoMessage EXCEPT !.phase = "message"]

TypeOK ==
    /\ status \in {"absent", "queued", "running", "succeeded", "failed"}
    /\ attempt_count \in 0..MaxAttempts
    /\ owner_token \in 0..MaxAttempts
    /\ lease \in {"none", "live", "expired"}
    /\ error_code \in ErrorCode
    /\ taken_over \in BOOLEAN
    /\ dispatches \in 0..(MaxAttempts + 1)
    /\ workers \in [Workers -> Worker]
    /\ lock \in Workers \union {NoWorker, OtherSweep}
    /\ orphans \subseteq 1..MaxAttempts /\ strays \subseteq 1..MaxAttempts
    /\ calm \in BOOLEAN

Init ==
    /\ status = "absent"
    /\ attempt_count = 0 /\ owner_token = 0
    /\ lease = "none" /\ error_code = "none" /\ taken_over = FALSE
    /\ dispatches = 0
    /\ workers = [w \in Workers |-> NoMessage]
    /\ lock = NoWorker
    /\ orphans = {} /\ strays = {}
    /\ calm = FALSE

Fault(kind) == ~calm /\ kind \in Faults

-----------------------------------------------------------------------------
(* The coordinator.                                                        *)

\* A second coordinator in the same bucket collides on the schedule key and
\* writes nothing.
ScheduleMaintenanceEvents ==
    /\ status = "absent"
    /\ status' = "queued"
    /\ dispatches' = dispatches + 1
    /\ UNCHANGED <<attempt_count, owner_token, lease, error_code, taken_over,
                   workers, lock, orphans, strays, calm>>

PublishMaintenance(w) ==
    /\ dispatches > 0
    /\ workers[w] = NoMessage
    /\ workers' = [workers EXCEPT ![w] = QueuedMessage]
    /\ \/ dispatches' = dispatches - 1
       \/ Fault("ambiguous") /\ dispatches' = dispatches
    /\ UNCHANGED <<runVars, lock, orphans, strays, calm>>

\* The event turns out to be permanently invalid.
DispatchDies ==
    /\ dispatches > 0
    /\ Fault("dead")
    /\ dispatches' = dispatches - 1
    /\ UNCHANGED <<runVars, workers, lock, orphans, strays, calm>>

FailLocked(code) ==
    /\ status' = "failed"
    /\ error_code' = code
    /\ owner_token' = 0
    /\ lease' = "none"
    /\ UNCHANGED <<attempt_count, taken_over>>

Requeue(code) ==
    /\ status' = "queued"
    /\ error_code' = code
    /\ owner_token' = 0
    /\ lease' = "none"
    /\ attempt_count' = attempt_count
    /\ dispatches' = dispatches + 1

\* Mutant of EnforceAttemptCeiling: one attempt too many.
EnforceAttemptCeiling_OffByOne == attempt_count > MaxAttempts

EnforceAttemptCeiling == attempt_count >= MaxAttempts

\* Mutant of RecoveryDue: a run without attempts left is no candidate.
RecoveryDue_AttemptsLeft ==
    status = "running" /\ lease = "expired" /\ attempt_count < MaxAttempts

RecoveryDue == status = "running" /\ lease = "expired"

RecoverExpiredRun ==
    /\ RecoveryDue
    /\ \/ /\ EnforceAttemptCeiling
          /\ FailLocked("exhausted")
          /\ dispatches' = dispatches
       \/ /\ ~EnforceAttemptCeiling
          /\ Requeue("abandoned")
          /\ taken_over' = TRUE
    /\ UNCHANGED <<workers, lock, orphans, strays, calm>>

-----------------------------------------------------------------------------
(* claim_run.                                                              *)

Ack(w) == workers' = [workers EXCEPT ![w] = NoMessage]

AttemptsLeft == attempt_count < MaxAttempts

\* A terminal run, or one under a live lease.
ClaimSkipped(w) ==
    /\ workers[w].phase = "message"
    /\ Terminal \/ LiveLease
    /\ Ack(w)
    /\ UNCHANGED <<runVars, dispatches, lock, orphans, strays, calm>>

\* The message reached the actor of the other task type.
ClaimMismatch(w) ==
    /\ workers[w].phase = "message"
    /\ Fault("crossed")
    /\ ~Terminal
    /\ FailLocked("task_mismatch")
    /\ Ack(w)
    /\ UNCHANGED <<dispatches, lock, orphans, strays, calm>>

ClaimExhausted(w) ==
    /\ workers[w].phase = "message"
    /\ ~Terminal /\ ~LiveLease /\ ~AttemptsLeft
    /\ FailLocked("exhausted")
    /\ Ack(w)
    /\ UNCHANGED <<dispatches, lock, orphans, strays, calm>>

TakenOver == taken_over \/ status = "running"

ClaimGranted(w) ==
    /\ workers[w].phase = "message"
    /\ ~Terminal /\ ~LiveLease /\ AttemptsLeft
    /\ status' = "running"
    /\ attempt_count' = attempt_count + 1
    /\ owner_token' = attempt_count + 1
    /\ lease' = "live"
    /\ taken_over' = TakenOver
    /\ workers' = [workers EXCEPT ![w].phase = "claimed",
                                  ![w].own = attempt_count + 1]
    /\ UNCHANGED <<error_code, dispatches, lock, orphans, strays, calm>>

-----------------------------------------------------------------------------
(* The sweep, under the advisory lock and the heartbeat.                   *)

Owns(w) == status = "running" /\ owner_token = workers[w].own

\* The lock as it is once worker w no longer holds it.
Released(w) == IF lock = w THEN NoWorker ELSE lock

\* Mutant of LockIsFree: the lease is thought to be enough.
LockIsFree_Ignored == TRUE

LockIsFree == lock = NoWorker

TryMaintenanceLock(w) ==
    /\ workers[w].phase = "claimed"
    /\ \/ /\ LockIsFree
          /\ lock' = w
          /\ workers' = [workers EXCEPT ![w].phase = "sweeping"]
       \/ /\ ~LockIsFree
          /\ lock' = lock
          /\ workers' = [workers EXCEPT ![w].phase = "failed",
                                        ![w].code = "lock_unavailable"]
       \/ /\ Fault("database")
          /\ lock' = lock
          /\ workers' = [workers EXCEPT ![w].phase = "failed", ![w].code = "transient"]
    /\ UNCHANGED <<runVars, dispatches, orphans, strays, calm>>

SweepEnds(w, next) ==
    /\ workers[w].phase = "sweeping"
    /\ lock' = Released(w)
    /\ workers' = [workers EXCEPT ![w] = next]

WorkReturns(w) ==
    /\ SweepEnds(w, [workers[w] EXCEPT !.phase = "swept"])
    /\ UNCHANGED <<runVars, dispatches, orphans, strays, calm>>

\* The handler, or a renewal by the heartbeat, raised.
WorkFails(w) ==
    /\ SweepEnds(w, [workers[w] EXCEPT !.phase = "failed", !.code = "transient"])
    /\ UNCHANGED <<runVars, dispatches, orphans, strays, calm>>

\* renew_lease; the expiry of the lease it renews is not looked at.
Heartbeat(w) ==
    /\ workers[w].phase = "sweeping"
    /\ Owns(w)
    /\ lease' = "live"
    /\ UNCHANGED <<status, attempt_count, owner_token, error_code, taken_over,
                   dispatches, workers, lock, orphans, strays, calm>>

\* The heartbeat finds the attempt superseded: the work is cancelled.
HeartbeatStale(w) ==
    /\ ~Owns(w)
    /\ SweepEnds(w, NoMessage)
    /\ UNCHANGED <<runVars, dispatches, orphans, strays, calm>>

\* What becomes of the message of a processing that raised: another delivery
\* while the broker's own retries last.
MessageRaised(w) ==
    \E next \in {NoMessage, QueuedMessage} : workers' = [workers EXCEPT ![w] = next]

\* Mutant of OwnsSettlement: a superseded worker settles.
OwnsSettlement_Unchecked(w) == status = "running"

\* The check of complete_run and settle_retryable_failure.
OwnsSettlement(w) == Owns(w)

CompleteRun(w) ==
    /\ workers[w].phase = "swept"
    /\ Ack(w)
    /\ \/ /\ OwnsSettlement(w)
          /\ status' = "succeeded"
          /\ error_code' = "none"
          /\ owner_token' = 0
          /\ lease' = "none"
          /\ UNCHANGED <<attempt_count, taken_over>>
       \/ /\ ~OwnsSettlement(w)
          /\ UNCHANGED runVars
    /\ UNCHANGED <<dispatches, lock, orphans, strays, calm>>

SettleFailure(w) ==
    /\ workers[w].phase = "failed"
    /\ Ack(w)
    /\ \/ /\ OwnsSettlement(w) /\ ~AttemptsLeft
          /\ FailLocked("exhausted")
          /\ dispatches' = dispatches
       \/ /\ OwnsSettlement(w) /\ AttemptsLeft
          /\ Requeue(workers[w].code)
          /\ taken_over' = taken_over
       \/ /\ ~OwnsSettlement(w)
          /\ UNCHANGED <<runVars, dispatches>>
    /\ UNCHANGED <<lock, orphans, strays, calm>>

-----------------------------------------------------------------------------
(* Failures.                                                               *)

Busy(w) == workers[w].phase \in {"claimed", "sweeping", "swept", "failed"}

LoseMessage(w) ==
    /\ workers[w].phase = "message"
    /\ Fault("loss")
    /\ Ack(w)
    /\ UNCHANGED <<runVars, dispatches, lock, orphans, strays, calm>>

\* The broker gives a busy worker up and hands its message out again.
DuplicateMessage(w, v) ==
    /\ Busy(w) /\ workers[v] = NoMessage
    /\ Fault("duplicate")
    /\ workers' = [workers EXCEPT ![v] = QueuedMessage]
    /\ UNCHANGED <<runVars, dispatches, lock, orphans, strays, calm>>

\* The settlement meets a database error.
SettlementRaises(w) ==
    /\ workers[w].phase \in {"swept", "failed"}
    /\ Fault("database")
    /\ MessageRaised(w)
    /\ UNCHANGED <<runVars, dispatches, lock, orphans, strays, calm>>

\* The process dies; the lock goes with its connection.
WorkerCrash(w) ==
    /\ Busy(w)
    /\ Fault("crash")
    /\ lock' = Released(w)
    /\ workers' = [workers EXCEPT ![w] = QueuedMessage]
    /\ UNCHANGED <<runVars, dispatches, orphans, strays, calm>>

\* The task time limit cancels the wrapper where it waits.  asyncio.wait does
\* not cancel what it waits for, so in the middle of a sweep both its tasks,
\* the work and the heartbeat, stay behind in the worker's event loop, while
\* the wrapper releases the lock and gives up the connection.
TimeLimitExceeded(w) ==
    LET left == IF workers[w].phase = "sweeping" THEN {workers[w].own} ELSE {}
    IN  /\ Busy(w)
        /\ Fault("timelimit")
        /\ lock' = Released(w)
        /\ orphans' = orphans \union left
        /\ strays' = strays \union left
        /\ MessageRaised(w)
        /\ UNCHANGED <<runVars, dispatches, calm>>

\* It goes on until a renewal fails; nobody looks at how it ended.
OrphanHeartbeat(t) ==
    /\ t \in orphans
    /\ \/ /\ status = "running" /\ owner_token = t
          /\ lease' = "live"
          /\ orphans' = orphans
       \/ /\ ~(status = "running" /\ owner_token = t) \/ Fault("database")
          /\ orphans' = orphans \ {t}
          /\ lease' = lease
    /\ UNCHANGED <<status, attempt_count, owner_token, error_code, taken_over,
                   dispatches, workers, lock, strays, calm>>

\* The stray sweep calls a provider or the object store until it returns or
\* its next statement meets the closed connection.  Nobody settles for it.
StrayEnds(t) ==
    /\ t \in strays
    /\ strays' = strays \ {t}
    /\ UNCHANGED <<runVars, dispatches, workers, lock, orphans, calm>>

\* The worker process of what was left behind is restarted.
OrphanDies(t) ==
    /\ t \in orphans
    /\ Fault("crash")
    /\ orphans' = orphans \ {t}
    /\ strays' = strays \ {t}
    /\ UNCHANGED <<runVars, dispatches, workers, lock, calm>>

OtherSweepBegins ==
    /\ Fault("contention")
    /\ LockIsFree
    /\ lock' = OtherSweep
    /\ UNCHANGED <<runVars, dispatches, workers, orphans, strays, calm>>

OtherSweepEnds ==
    /\ lock = OtherSweep
    /\ lock' = NoWorker
    /\ UNCHANGED <<runVars, dispatches, workers, orphans, strays, calm>>

\* A heartbeat comes three times in a lease, so a lease under a heartbeat
\* expires only when the worker stalls.
Beating ==
    \/ owner_token \in orphans
    \/ \E w \in Workers : workers[w].phase = "sweeping" /\ workers[w].own = owner_token

LeaseExpires ==
    /\ LiveLease
    /\ Beating => Fault("stall")
    /\ lease' = "expired"
    /\ UNCHANGED <<status, attempt_count, owner_token, error_code, taken_over,
                   dispatches, workers, lock, orphans, strays, calm>>

BecomeCalm ==
    /\ ~calm
    /\ calm' = TRUE
    /\ UNCHANGED <<runVars, dispatches, workers, lock, orphans, strays>>

-----------------------------------------------------------------------------
ClaimRun(w) ==
    ClaimSkipped(w) \/ ClaimMismatch(w) \/ ClaimExhausted(w) \/ ClaimGranted(w)

SweepStep(w) == WorkReturns(w) \/ WorkFails(w) \/ HeartbeatStale(w)

SettleStep(w) == CompleteRun(w) \/ SettleFailure(w)

FaultStep(w) ==
    \/ LoseMessage(w) \/ SettlementRaises(w)
    \/ WorkerCrash(w) \/ TimeLimitExceeded(w)
    \/ \E v \in Workers : DuplicateMessage(w, v)

WorkerStep(w) ==
    \/ PublishMaintenance(w)
    \/ ClaimRun(w) \/ TryMaintenanceLock(w)
    \/ SweepStep(w) \/ Heartbeat(w) \/ SettleStep(w)
    \/ FaultStep(w)

Next ==
    \/ ScheduleMaintenanceEvents
    \/ \E w \in Workers : WorkerStep(w)
    \/ \E t \in orphans : OrphanHeartbeat(t) \/ OrphanDies(t)
    \/ \E t \in strays : StrayEnds(t)
    \/ DispatchDies \/ RecoverExpiredRun
    \/ LeaseExpires
    \/ OtherSweepBegins \/ OtherSweepEnds

Spec == Init /\ [][Next]_vars

(***************************************************************************)
(* Fairness: the coordinator publishes and recovers in every cycle, the    *)
(* broker delivers, a sweep is a bounded batch, heartbeats beat and clocks *)
(* advance; faults cease.                                                  *)
(***************************************************************************)
FairSpec ==
    /\ Init /\ [][Next \/ BecomeCalm]_vars
    /\ WF_vars(BecomeCalm)
    /\ \A w \in Workers : /\ WF_vars(ClaimRun(w))
                          /\ WF_vars(TryMaintenanceLock(w))
                          /\ WF_vars(SweepStep(w))
                          /\ WF_vars(SettleStep(w))
    /\ WF_vars(\E w \in Workers : PublishMaintenance(w))
    /\ \A t \in 1..MaxAttempts : WF_vars(OrphanHeartbeat(t))
    /\ WF_vars(RecoverExpiredRun)
    /\ WF_vars(LeaseExpires)
    /\ WF_vars(OtherSweepEnds)

-----------------------------------------------------------------------------
(* Properties.                                                             *)

\* A run has an owner and a lease exactly while it is running, and the owner
\* is its newest attempt: no settlement, recovery or claim leaves a credential
\* behind that an older worker could match.
OwnerIsNewestAttempt ==
    /\ (owner_token # 0) <=> (status = "running")
    /\ (lease # "none") <=> (status = "running")
    /\ owner_token # 0 => owner_token = attempt_count
    /\ \A w \in Workers : Busy(w) => workers[w].own \in 1..attempt_count

\* The sweeps of the task type at work, each with the holder of the lock it
\* works under; a stray's is nobody.
Sweeps ==
    {[under |-> w, own |-> workers[w].own] : w \in {v \in Workers : workers[v].phase = "sweeping"}}
    \union {[under |-> NoWorker, own |-> t] : t \in strays}
    \union {[under |-> OtherSweep, own |-> 0] : held \in {lock} \intersect {OtherSweep}}

\* Two sweeps never work concurrently, neither of this run (a lease may expire
\* under a slow worker and be taken over) nor of two runs of the task type,
\* and one that works holds the lock.  The exception is a stray, the sweep
\* that a task time limit left at work without the lock: the next bucket's
\* sweep may begin beside it, and once its heartbeat fails, so may the next
\* attempt of its own run.
OneSweepAtATime ==
    /\ \A s, t \in Sweeps : s = t \/ NoWorker \in {s.under, t.under}
    /\ \A s \in Sweeps : s.under \in {lock, NoWorker}

\* A worker whose attempt was superseded changes nothing durable by any later
\* step of its own.
SupersededAttemptIsHarmless ==
    [][\A w \in Workers : Busy(w) /\ workers[w].own # owner_token /\ workers'[w] # workers[w]
         => UNCHANGED <<runVars, dispatches>>]_vars

\* An attempt that somebody else ended, by takeover or recovery, stays on
\* record: taken_over is set by that step and never reset, so a later success
\* does not look like an ordinary one.
RecoveryIsRemembered ==
    [][/\ taken_over => taken_over'
       /\ status = "running" /\ status' # "failed" /\ owner_token' # owner_token
          /\ (\A w \in Workers : workers[w].own = owner_token /\ Busy(w) =>
                                   workers'[w] = workers[w])
          => taken_over']_vars

\* The state machine deliberately mirrors the jobs': the same abstract job.
Lifecycle == INSTANCE JobLifecycle WITH
    MaxStarts <- MaxAttempts, state <- status, starts <- attempt_count,
    owner <- attempt_count, outcomes <- IF Terminal THEN 1 ELSE 0
ImplementsLifecycle == Lifecycle!Spec

\* The broker lost the only copy of the message of a queued run, or its event
\* was dead: no recovery looks for a queued run.
DispatchLost ==
    /\ status = "queued" /\ dispatches = 0
    /\ \A w \in Workers : workers[w].phase # "message"

\* Once faults cease, a scheduled run is settled, unless its dispatch was lost
\* while it was queued or an orphaned heartbeat holds its lease.
SettledUnlessStuck ==
    (status = "queued") ~> (Terminal \/ DispatchLost \/ owner_token \in orphans)
=============================================================================
