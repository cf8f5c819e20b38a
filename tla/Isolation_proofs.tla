-------------------------- MODULE Isolation_proofs --------------------------
(***************************************************************************)
(* Theorems of two components that keep things apart.  Maintenance: the    *)
(* attempts of a run, for every number of attempts, every set of workers   *)
(* and every set of faults.  TenantSession, RowSecurity and DatabaseRoles: *)
(* the tenants, for every set of users, organisations, jobs, invitations,  *)
(* connections and deployments.                                            *)
(***************************************************************************)
EXTENDS Maintenance, TenantSession, TLAPS

(* Maintenance.  The inductive invariant has three parts: the shape of the *)
(* run's row, a bound on its dispatches (each was written for one attempt) *)
(* and what the workers and the lock look like.                            *)
RowInv ==
    /\ status \in {"absent", "queued", "running", "succeeded", "failed"}
    /\ attempt_count \in 0..MaxAttempts
    /\ owner_token \in 0..MaxAttempts
    /\ lease \in {"none", "live", "expired"}
    /\ error_code \in ErrorCode
    /\ taken_over \in BOOLEAN
    /\ (owner_token # 0) <=> (status = "running")
    /\ (lease # "none") <=> (status = "running")
    /\ owner_token # 0 => owner_token = attempt_count
    /\ status = "absent" => attempt_count = 0

DispatchInv ==
    /\ dispatches \in Nat
    /\ dispatches <= attempt_count + 1
    /\ status = "running" => dispatches <= attempt_count
    /\ status = "absent" => dispatches = 0

WorkerInv ==
    /\ workers \in [Workers -> Worker]
    /\ lock \in Workers \union {NoWorker, OtherSweep}
    /\ orphans \subseteq 1..attempt_count /\ strays \subseteq 1..attempt_count
    /\ strays # {} => "timelimit" \in Faults
    /\ calm \in BOOLEAN
    /\ \A w \in Workers :
         /\ Busy(w) => workers[w].own \in 1..attempt_count
         /\ workers[w].phase = "sweeping" => lock = w
         /\ status = "absent" => workers[w].phase = "none"

RunInv == RowInv /\ DispatchInv /\ WorkerInv
-----------------------------------------------------------------------------
(* The row.                                                                *)

\* Settling a locked run failed keeps the row's shape.
LEMMA FailLockedRow ==
    ASSUME RowInv, NEW code \in ErrorCode, FailLocked(code)
    PROVE  RowInv' /\ attempt_count' = attempt_count /\ status' = "failed"
BY MaxAttemptsAssumption DEF RowInv, FailLocked, ErrorCode

\* So does returning it to the queue.
LEMMA RequeueRow ==
    ASSUME RowInv, NEW code \in ErrorCode, Requeue(code), taken_over' \in BOOLEAN,
           status = "running"
    PROVE  /\ RowInv' /\ attempt_count' = attempt_count /\ status' = "queued"
           /\ dispatches' = dispatches + 1
BY MaxAttemptsAssumption DEF RowInv, Requeue, ErrorCode

\* A step that renews a lease, or lets it expire, keeps the row's shape.
LEMMA LeaseRow ==
    ASSUME RowInv, status = "running", lease' \in {"live", "expired"},
           UNCHANGED <<status, attempt_count, owner_token, error_code, taken_over>>
    PROVE  RowInv'
BY DEF RowInv

\* What every step does to the row: it leaves the row alone, or it is one of
\* the row's own transitions, all of which keep its shape.
LEMMA NextRow ==
    ASSUME RowInv, WorkerInv, [Next]_vars
    PROVE  RowInv'
<1> USE MaxAttemptsAssumption
<1>1. CASE UNCHANGED runVars
  BY <1>1 DEF runVars, RowInv
<1>2. CASE ScheduleMaintenanceEvents
  BY <1>2 DEF ScheduleMaintenanceEvents, RowInv
<1>3. CASE RecoverExpiredRun
  <2>1. status = "running" /\ "exhausted" \in ErrorCode /\ "abandoned" \in ErrorCode
    BY <1>3 DEF RecoverExpiredRun, RecoveryDue, ErrorCode
  <2> QED
    BY <1>3, <2>1, FailLockedRow, RequeueRow DEF RecoverExpiredRun
<1>4. CASE LeaseExpires
  BY <1>4, LeaseRow DEF LeaseExpires, LiveLease
<1>5. ASSUME NEW w \in Workers, ClaimRun(w) PROVE RowInv'
  <2>1. CASE ClaimSkipped(w)
    BY <1>1, <2>1 DEF ClaimSkipped
  <2>2. CASE ClaimMismatch(w) \/ ClaimExhausted(w)
    BY <2>2, FailLockedRow DEF ClaimMismatch, ClaimExhausted, ErrorCode
  <2>3. CASE ClaimGranted(w)
    BY <2>3 DEF ClaimGranted, RowInv, AttemptsLeft, TakenOver, Terminal
  <2> QED
    BY <1>5, <2>1, <2>2, <2>3 DEF ClaimRun
<1>6. ASSUME NEW w \in Workers, Heartbeat(w) PROVE RowInv'
  BY <1>6, LeaseRow DEF Heartbeat, Owns
<1>7. ASSUME NEW w \in Workers, CompleteRun(w) PROVE RowInv'
  BY <1>7 DEF CompleteRun, OwnsSettlement, Owns, RowInv, ErrorCode, runVars
<1>8. ASSUME NEW w \in Workers, SettleFailure(w) PROVE RowInv'
  <2>1. workers[w].code \in ErrorCode /\ "exhausted" \in ErrorCode
    BY DEF WorkerInv, Worker, ErrorCode
  <2>2. OwnsSettlement(w) => status = "running"
    BY DEF OwnsSettlement, Owns
  <2>3. RowInv => taken_over \in BOOLEAN
    BY DEF RowInv
  <2> QED
    BY <1>1, <1>8, <2>1, <2>2, <2>3, FailLockedRow, RequeueRow DEF SettleFailure
<1>9. ASSUME NEW t \in orphans, OrphanHeartbeat(t) PROVE RowInv'
  <2>1. CASE lease' = lease
    BY <1>9, <2>1 DEF OrphanHeartbeat, RowInv
  <2>2. CASE lease' # lease
    BY <1>9, <2>2, LeaseRow DEF OrphanHeartbeat
  <2> QED
    BY <2>1, <2>2
<1>10. ASSUME NEW w \in Workers,
              PublishMaintenance(w) \/ TryMaintenanceLock(w) \/ SweepStep(w) \/ FaultStep(w)
       PROVE  UNCHANGED runVars
  BY <1>10 DEF PublishMaintenance, TryMaintenanceLock, SweepStep, WorkReturns, WorkFails,
     HeartbeatStale, FaultStep, LoseMessage, SettlementRaises, WorkerCrash,
     TimeLimitExceeded, DuplicateMessage
<1>11. ASSUME NEW t, OrphanDies(t) \/ StrayEnds(t) PROVE UNCHANGED runVars
  BY <1>11 DEF OrphanDies, StrayEnds
<1>12. CASE DispatchDies \/ OtherSweepBegins \/ OtherSweepEnds \/ UNCHANGED vars
  BY <1>1, <1>12 DEF DispatchDies, OtherSweepBegins, OtherSweepEnds, vars
<1>13. ASSUME NEW w \in Workers, WorkerStep(w) PROVE RowInv'
  BY <1>1, <1>5, <1>6, <1>7, <1>8, <1>10, <1>13 DEF WorkerStep, SettleStep
<1> QED
  BY <1>1, <1>2, <1>3, <1>4, <1>9, <1>11, <1>12, <1>13 DEF Next

-----------------------------------------------------------------------------
(* The dispatches.                                                         *)

\* Each transition of the row is paid for: a claim makes room for one more
\* dispatch, and only a running attempt is requeued with a new one.
LEMMA NextDispatch ==
    ASSUME RowInv, DispatchInv, [Next]_vars
    PROVE  DispatchInv'
<1>1. CASE UNCHANGED <<status, attempt_count, dispatches>>
  BY <1>1 DEF DispatchInv
<1>2. CASE ScheduleMaintenanceEvents
  BY <1>2 DEF ScheduleMaintenanceEvents, DispatchInv, RowInv
<1>3. CASE /\ dispatches > 0
           /\ dispatches' \in {dispatches - 1, dispatches}
           /\ UNCHANGED <<status, attempt_count>>
  BY <1>3 DEF DispatchInv, RowInv
<1>4. CASE /\ status = "running" /\ \E code : Requeue(code)
  BY <1>4 DEF DispatchInv, RowInv, Requeue
<1>5. CASE dispatches' = dispatches /\ \E code : FailLocked(code)
  BY <1>5 DEF DispatchInv, RowInv, FailLocked
<1>6. ASSUME NEW w \in Workers, ClaimRun(w) PROVE DispatchInv'
  <2>1. CASE ClaimGranted(w)
    BY <2>1 DEF ClaimGranted, DispatchInv, RowInv
  <2> QED
    BY <1>1, <1>5, <1>6, <2>1
    DEF ClaimRun, ClaimSkipped, ClaimMismatch, ClaimExhausted, runVars
<1>7. ASSUME NEW w \in Workers, SettleStep(w) PROVE DispatchInv'
  <2>1. CASE CompleteRun(w)
    BY <1>1, <2>1 DEF CompleteRun, DispatchInv, RowInv, runVars
  <2>2. CASE SettleFailure(w)
    BY <1>1, <1>4, <1>5, <2>2 DEF SettleFailure, OwnsSettlement, Owns, runVars
  <2> QED
    BY <1>7, <2>1, <2>2 DEF SettleStep
<1>8. CASE RecoverExpiredRun
  BY <1>4, <1>5, <1>8 DEF RecoverExpiredRun, RecoveryDue
<1>9. ASSUME NEW w \in Workers, PublishMaintenance(w) PROVE DispatchInv'
  BY <1>3, <1>9 DEF PublishMaintenance, runVars
<1>10. CASE DispatchDies
  BY <1>3, <1>10 DEF DispatchDies, runVars
<1>11. ASSUME NEW w \in Workers,
              TryMaintenanceLock(w) \/ SweepStep(w) \/ Heartbeat(w) \/ FaultStep(w)
       PROVE  UNCHANGED <<status, attempt_count, dispatches>>
  BY <1>11 DEF TryMaintenanceLock, SweepStep, WorkReturns, WorkFails, HeartbeatStale,
     Heartbeat, FaultStep, LoseMessage, SettlementRaises, WorkerCrash,
     TimeLimitExceeded, DuplicateMessage, runVars
<1>12. CASE \/ \E t \in orphans : OrphanHeartbeat(t) \/ OrphanDies(t)
            \/ \E t \in strays : StrayEnds(t)
            \/ LeaseExpires \/ OtherSweepBegins \/ OtherSweepEnds \/ UNCHANGED vars
  BY <1>1, <1>12 DEF OrphanHeartbeat, OrphanDies, StrayEnds, LeaseExpires, OtherSweepBegins,
     OtherSweepEnds, vars, runVars
<1>13. ASSUME NEW w \in Workers, WorkerStep(w) PROVE DispatchInv'
  BY <1>1, <1>6, <1>7, <1>9, <1>11, <1>13 DEF WorkerStep
<1> QED
  BY <1>2, <1>8, <1>10, <1>12, <1>13 DEF Next

-----------------------------------------------------------------------------
(* The workers and the lock.                                               *)

\* The null records are workers.
LEMMA MessagesAreWorkers == NoMessage \in Worker /\ QueuedMessage \in Worker
BY MaxAttemptsAssumption DEF NoMessage, QueuedMessage, Worker

\* A step that leaves workers and lock alone, and never makes a scheduled run
\* absent, keeps their invariant.
LEMMA WorkersKept ==
    ASSUME WorkerInv, UNCHANGED <<workers, lock, calm>>,
           orphans' \subseteq orphans, strays' \subseteq strays,
           attempt_count' = attempt_count, attempt_count \in Nat,
           status' = "absent" => status = "absent"
    PROVE  WorkerInv'
BY DEF WorkerInv, Busy

\* What a step leaves behind in the workers' event loops.
LeftBehind(attempts) ==
    /\ orphans' \subseteq 1..attempts /\ strays' \subseteq 1..attempts
    /\ strays' # {} => "timelimit" \in Faults

\* A step that takes worker w to phase "none", "message", or further on in the
\* processing of its own attempt, and leaves the lock with its holder, or free
\* when w does not sweep.
LEMMA WorkerMoves ==
    ASSUME WorkerInv, NEW w \in Workers, NEW next \in Worker,
           workers' = [workers EXCEPT ![w] = next],
           next.phase \in {"claimed", "sweeping", "swept", "failed"} =>
             next.own \in 1..attempt_count',
           attempt_count \in Nat,
           attempt_count' \in {attempt_count, attempt_count + 1},
           IF next.phase = "sweeping"
           THEN lock = NoWorker /\ lock' = w
           ELSE lock' \in {lock, Released(w)},
           LeftBehind(attempt_count'),
           calm' = calm,
           status' # "absent"
    PROVE  WorkerInv'
<1>1. workers' \in [Workers -> Worker] /\ lock' \in Workers \union {NoWorker, OtherSweep}
  BY DEF WorkerInv, Released
<1>2. ASSUME NEW v \in Workers
      PROVE  /\ Busy(v)' => workers'[v].own \in 1..attempt_count'
             /\ workers'[v].phase = "sweeping" => lock' = v
  <2>1. CASE v = w
    BY <2>1, HoldersAssumption DEF WorkerInv, Busy
  <2>2. CASE v # w
    BY <2>2, HoldersAssumption DEF WorkerInv, Busy, Released
  <2> QED
    BY <2>1, <2>2
<1> QED
  BY <1>1, <1>2 DEF WorkerInv, LeftBehind

\* A claim, a sweep's step, a settlement or a fault moves one worker.
LEMMA NextWorkers ==
    ASSUME RowInv, DispatchInv, WorkerInv, [Next]_vars
    PROVE  WorkerInv'
<1> USE MaxAttemptsAssumption, MessagesAreWorkers
<1>1. /\ attempt_count \in Nat /\ attempt_count \in 0..MaxAttempts
      /\ UNCHANGED <<orphans, strays>> => LeftBehind(attempt_count)
  <2>1. attempt_count \in Nat /\ attempt_count \in 0..MaxAttempts
    BY DEF RowInv
  <2>2. ASSUME UNCHANGED <<orphans, strays>> PROVE LeftBehind(attempt_count)
    BY <2>2 DEF WorkerInv, LeftBehind
  <2> QED
    BY <2>1, <2>2
<1>2. NoMessage.phase = "none" /\ QueuedMessage.phase = "message"
  BY DEF NoMessage, QueuedMessage
<1>3. \A w \in Workers : workers[w] \in Worker
  BY DEF WorkerInv
<1>4. ASSUME NEW w \in Workers,
             NEW next \in {NoMessage, QueuedMessage},
             workers' = [workers EXCEPT ![w] = next],
             attempt_count' = attempt_count,
             lock' \in {lock, Released(w)},
             LeftBehind(attempt_count),
             calm' = calm, status' # "absent"
      PROVE  WorkerInv'
  BY <1>1, <1>2, <1>4, WorkerMoves
<1>5. ASSUME NEW w \in Workers, workers[w].phase # "none"
      PROVE  status # "absent"
  BY <1>5 DEF WorkerInv
<1>6. ASSUME NEW w \in Workers, PublishMaintenance(w) PROVE WorkerInv'
  <2>1. status # "absent"
    BY <1>6 DEF PublishMaintenance, DispatchInv
  <2> QED
    BY <1>1, <1>4, <1>6, <2>1 DEF PublishMaintenance, runVars
<1>7. ASSUME NEW w \in Workers, ClaimRun(w) PROVE WorkerInv'
  <2>1. workers[w].phase = "message"
    BY <1>7 DEF ClaimRun, ClaimSkipped, ClaimMismatch, ClaimExhausted, ClaimGranted
  <2>2. status # "absent"
    BY <1>5, <2>1
  <2>3. CASE ClaimGranted(w)
    <3> DEFINE next == [workers[w] EXCEPT !.phase = "claimed", !.own = attempt_count + 1]
    <3>1. workers' = [workers EXCEPT ![w] = next]
      BY <2>3 DEF ClaimGranted, WorkerInv
    <3>2. next \in Worker /\ next.phase = "claimed" /\ next.own = attempt_count + 1
      <4>1. attempt_count + 1 \in 0..MaxAttempts
        BY <1>1, <2>3 DEF ClaimGranted, AttemptsLeft
      <4> QED
        BY <1>3, <4>1 DEF Worker
    <3>3. attempt_count' = attempt_count + 1 /\ lock' = lock /\ UNCHANGED <<orphans, strays>>
          /\ calm' = calm /\ status' # "absent"
      BY <2>3 DEF ClaimGranted
    <3>4. attempt_count + 1 \in 1..attempt_count' /\ LeftBehind(attempt_count')
      <4>1. LeftBehind(attempt_count)
        BY <1>1, <3>3
      <4> QED
        BY <1>1, <3>3, <4>1 DEF LeftBehind
    <3> HIDE DEF next
    <3> QED
      BY <1>1, <3>1, <3>2, <3>3, <3>4, WorkerMoves
  <2>4. CASE ClaimSkipped(w) \/ ClaimMismatch(w) \/ ClaimExhausted(w)
    <3>1. attempt_count' = attempt_count /\ status' # "absent" /\ Ack(w)
          /\ UNCHANGED <<lock, orphans, strays, calm>>
      BY <2>2, <2>4 DEF ClaimSkipped, ClaimMismatch, ClaimExhausted, FailLocked, runVars
    <3> QED
      BY <1>1, <1>4, <3>1 DEF Ack
  <2> QED
    BY <1>7, <2>3, <2>4 DEF ClaimRun
<1>8. ASSUME NEW w \in Workers, TryMaintenanceLock(w) PROVE WorkerInv'
  <2>1. workers[w].phase = "claimed" /\ workers[w].own \in 1..attempt_count /\ status # "absent"
    BY <1>5, <1>8 DEF TryMaintenanceLock, WorkerInv, Busy
  <2>2. /\ attempt_count' = attempt_count /\ status' = status
        /\ UNCHANGED <<orphans, strays>> /\ calm' = calm
    BY <1>8 DEF TryMaintenanceLock, runVars
  <2> DEFINE sweeping == [workers[w] EXCEPT !.phase = "sweeping"]
             failed(code) == [workers[w] EXCEPT !.phase = "failed", !.code = code]
  <2>3. CASE LockIsFree /\ lock' = w /\ workers' = [workers EXCEPT ![w].phase = "sweeping"]
    <3>1. workers' = [workers EXCEPT ![w] = sweeping] /\ lock = NoWorker
      BY <2>3 DEF WorkerInv, LockIsFree
    <3>2. sweeping \in Worker /\ sweeping.phase = "sweeping" /\ sweeping.own = workers[w].own
      BY <1>3 DEF Worker
    <3> HIDE DEF sweeping
    <3> QED
      BY <1>1, <2>1, <2>2, <2>3, <3>1, <3>2, WorkerMoves
  <2>4. CASE \E code \in {"transient", "lock_unavailable"} :
               /\ lock' = lock
               /\ workers' = [workers EXCEPT ![w].phase = "failed", ![w].code = code]
    <3>1. PICK code \in {"transient", "lock_unavailable"} :
               /\ lock' = lock
               /\ workers' = [workers EXCEPT ![w].phase = "failed", ![w].code = code]
      BY <2>4
    <3>2. workers' = [workers EXCEPT ![w] = failed(code)]
      BY <3>1 DEF WorkerInv
    <3>3. /\ failed(code) \in Worker /\ failed(code).phase = "failed"
          /\ failed(code).own = workers[w].own
      BY <1>3 DEF Worker
    <3> HIDE DEF failed
    <3> QED
      BY <1>1, <2>1, <2>2, <3>1, <3>2, <3>3, WorkerMoves
  <2> QED
    BY <1>8, <2>3, <2>4 DEF TryMaintenanceLock
<1>9. ASSUME NEW w \in Workers, SweepStep(w) PROVE WorkerInv'
  <2>1. workers[w].phase = "sweeping" /\ workers[w].own \in 1..attempt_count /\ status # "absent"
    BY <1>5, <1>9 DEF SweepStep, WorkReturns, WorkFails, HeartbeatStale, SweepEnds, WorkerInv, Busy
  <2>2. /\ attempt_count' = attempt_count /\ status' = status
        /\ UNCHANGED <<orphans, strays>> /\ calm' = calm /\ lock' = Released(w)
    BY <1>9 DEF SweepStep, WorkReturns, WorkFails, HeartbeatStale, SweepEnds, runVars
  <2>3. CASE HeartbeatStale(w)
    BY <1>1, <1>4, <2>1, <2>2, <2>3 DEF HeartbeatStale, SweepEnds
  <2>4. ASSUME NEW next \in Worker, next.phase \in {"swept", "failed"},
               next.own = workers[w].own, workers' = [workers EXCEPT ![w] = next]
        PROVE  WorkerInv'
    BY <1>1, <2>1, <2>2, <2>4, WorkerMoves
  <2>5. CASE WorkReturns(w)
    <3>1. [workers[w] EXCEPT !.phase = "swept"] \in Worker
      BY <1>3 DEF Worker
    <3> QED
      BY <1>3, <2>4, <2>5, <3>1 DEF WorkReturns, SweepEnds, Worker
  <2>6. CASE WorkFails(w)
    <3>1. [workers[w] EXCEPT !.phase = "failed", !.code = "transient"] \in Worker
      BY <1>3 DEF Worker
    <3> QED
      BY <1>3, <2>4, <2>6, <3>1 DEF WorkFails, SweepEnds, Worker
  <2> QED
    BY <1>9, <2>3, <2>5, <2>6 DEF SweepStep
<1>10. ASSUME NEW w \in Workers, SettleStep(w) PROVE WorkerInv'
  <2>1. workers[w].phase # "none" /\ attempt_count' = attempt_count /\ Ack(w)
        /\ UNCHANGED <<lock, orphans, strays, calm>>
    BY <1>10 DEF SettleStep, CompleteRun, SettleFailure, Requeue, FailLocked, runVars
  <2>2. status' # "absent"
    BY <1>5, <1>10, <2>1 DEF SettleStep, CompleteRun, SettleFailure, Requeue, FailLocked, runVars
  <2> QED
    BY <1>1, <1>4, <2>1, <2>2 DEF Ack
<1>11. ASSUME NEW w \in Workers, FaultStep(w) PROVE WorkerInv'
  <2>1. UNCHANGED <<runVars, calm>>
    BY <1>11 DEF FaultStep, LoseMessage, SettlementRaises, WorkerCrash, TimeLimitExceeded,
       DuplicateMessage
  <2>2. workers[w].phase # "none"
    BY <1>11 DEF FaultStep, LoseMessage, SettlementRaises, WorkerCrash, TimeLimitExceeded,
       DuplicateMessage, Busy
  <2>3. status' # "absent" /\ attempt_count' = attempt_count
    BY <1>5, <2>1, <2>2 DEF runVars
  <2>4. CASE LoseMessage(w) \/ WorkerCrash(w)
    BY <1>1, <1>4, <2>1, <2>3, <2>4 DEF LoseMessage, WorkerCrash, Ack
  <2>5. CASE SettlementRaises(w)
    BY <1>1, <1>4, <2>1, <2>3, <2>5 DEF SettlementRaises, MessageRaised
  <2>6. CASE TimeLimitExceeded(w)
    <3>1. workers[w].own \in 1..attempt_count
      BY <2>6 DEF TimeLimitExceeded, WorkerInv
    <3>2. LeftBehind(attempt_count)
      BY <2>6, <3>1 DEF TimeLimitExceeded, WorkerInv, LeftBehind, Fault
    <3> QED
      BY <1>4, <2>1, <2>3, <2>6, <3>2 DEF TimeLimitExceeded, MessageRaised
  <2>7. ASSUME NEW v \in Workers, DuplicateMessage(w, v) PROVE WorkerInv'
    BY <1>1, <1>4, <2>1, <2>3, <2>7 DEF DuplicateMessage
  <2> QED
    BY <1>11, <2>4, <2>5, <2>6, <2>7 DEF FaultStep
<1>12. ASSUME NEW w \in Workers, WorkerStep(w) PROVE WorkerInv'
  <2>1. CASE Heartbeat(w)
    BY <1>1, <2>1, WorkersKept DEF Heartbeat
  <2> QED
    BY <1>6, <1>7, <1>8, <1>9, <1>10, <1>11, <1>12, <2>1 DEF WorkerStep
<1>13. ASSUME NEW t, OrphanHeartbeat(t) \/ OrphanDies(t) \/ StrayEnds(t) PROVE WorkerInv'
  BY <1>1, <1>13, WorkersKept DEF OrphanHeartbeat, OrphanDies, StrayEnds, runVars
<1>14. CASE ScheduleMaintenanceEvents \/ RecoverExpiredRun \/ DispatchDies \/ LeaseExpires
            \/ UNCHANGED vars
  BY <1>1, <1>14, WorkersKept
     DEF ScheduleMaintenanceEvents, RecoverExpiredRun, RecoveryDue, FailLocked, Requeue,
     DispatchDies, LeaseExpires, vars, runVars
<1>15. CASE OtherSweepBegins \/ OtherSweepEnds
  BY <1>15, HoldersAssumption DEF OtherSweepBegins, OtherSweepEnds, LockIsFree, WorkerInv, Busy, runVars
<1> QED
  BY <1>12, <1>13, <1>14, <1>15 DEF Next

\* The invariant holds in every reachable state.
THEOREM RunInvCorrect == Spec => []RunInv
<1>1. Init => RunInv
  <2> SUFFICES ASSUME Init PROVE RunInv
    OBVIOUS
  <2>1. RowInv /\ DispatchInv
    <3>1. 0 \in 0..MaxAttempts
      BY MaxAttemptsAssumption
    <3>2. RowInv
      BY <3>1 DEF Init, RowInv, ErrorCode
    <3> QED
      BY <3>2 DEF Init, DispatchInv
  <2>2. workers \in [Workers -> Worker] /\ \A w \in Workers : workers[w].phase = "none"
    <3>1. NoMessage \in Worker /\ NoMessage.phase = "none"
      BY MessagesAreWorkers DEF NoMessage
    <3> QED
      BY <3>1 DEF Init
  <2>3. WorkerInv
    BY <2>2 DEF Init, WorkerInv, Busy
  <2> QED
    BY <2>1, <2>3 DEF RunInv
<1>2. RunInv /\ [Next]_vars => RunInv'
  BY NextRow, NextDispatch, NextWorkers DEF RunInv
<1> QED
  BY <1>1, <1>2, PTL DEF Spec

\* Every reachable state has the right types; in particular no run is ever
\* attempted more often than MAX_ATTEMPTS.
THEOREM TypeCorrect == Spec => []TypeOK
<1>1. RunInv => TypeOK
  BY MaxAttemptsAssumption DEF RunInv, RowInv, DispatchInv, WorkerInv, TypeOK
<1> QED
  BY <1>1, RunInvCorrect, PTL

\* A run has an owner and a lease exactly while it is running, and the owner
\* is its newest attempt.
THEOREM OwnerCorrect == Spec => []OwnerIsNewestAttempt
<1>1. RunInv => OwnerIsNewestAttempt
  BY DEF RunInv, RowInv, WorkerInv, OwnerIsNewestAttempt
<1> QED
  BY <1>1, RunInvCorrect, PTL

\* At most one sweep is at work under the advisory lock, beside the strays.
LEMMA SweepsApart == RunInv => OneSweepAtATime
<1> SUFFICES ASSUME RunInv, NEW s \in Sweeps
             PROVE  /\ s.under \in {lock, NoWorker}
                    /\ \A t \in Sweeps : s = t \/ NoWorker \in {s.under, t.under}
  BY DEF OneSweepAtATime
<1> DEFINE OfWorker(t) == \E w \in Workers : /\ workers[w].phase = "sweeping"
                                             /\ t = [under |-> w, own |-> workers[w].own]
           OfStray(t) == \E a \in strays : t = [under |-> NoWorker, own |-> a]
           OfOther(t) == lock = OtherSweep /\ t = [under |-> OtherSweep, own |-> 0]
<1>1. ASSUME NEW t \in Sweeps PROVE OfWorker(t) \/ OfStray(t) \/ OfOther(t)
  BY DEF Sweeps
<1>2. ASSUME NEW t \in Sweeps PROVE t.under \in {lock, NoWorker}
  BY <1>1 DEF RunInv, WorkerInv
<1>3. ASSUME NEW t \in Sweeps, s.under # NoWorker, t.under # NoWorker PROVE s = t
  <2>1. s.under = lock /\ t.under = lock
    BY <1>2, <1>3
  <2>2. ~OfStray(s) /\ ~OfStray(t)
    BY <1>3
  <2> QED
    BY <1>1, <2>1, <2>2, HoldersAssumption
<1> QED
  BY <1>2, <1>3

\* Whatever goes wrong, the advisory lock keeps two sweeps apart, unless one
\* of them is a stray; and only the task time limit makes strays: where it
\* never strikes, there are no two sweeps at work at all.
THEOREM OneSweepCorrect ==
    Spec => /\ []OneSweepAtATime
            /\ "timelimit" \notin Faults => [](\A s, t \in Sweeps : s = t)
<1>1. RunInv => OneSweepAtATime
  BY SweepsApart
<1>2. RunInv /\ "timelimit" \notin Faults => \A s, t \in Sweeps : s = t
  <2> SUFFICES ASSUME RunInv, "timelimit" \notin Faults, NEW s \in Sweeps, NEW t \in Sweeps
               PROVE  s = t
    OBVIOUS
  <2>1. strays = {}
    BY DEF RunInv, WorkerInv
  <2>2. s.under # NoWorker /\ t.under # NoWorker
    BY <2>1, HoldersAssumption DEF Sweeps
  <2> QED
    BY <2>2, SweepsApart DEF OneSweepAtATime
<1> DEFINE Alone == \A s, t \in Sweeps : s = t
<1>3. Spec => ("timelimit" \notin Faults => []Alone)
  <2>1. CASE "timelimit" \notin Faults
    <3>1. RunInv => Alone
      BY <1>2, <2>1
    <3> HIDE DEF Alone
    <3> QED
      BY <3>1, RunInvCorrect, PTL
  <2>2. CASE "timelimit" \in Faults
    BY <2>2
  <2> QED
    BY <2>1, <2>2
<1>4. Spec => []OneSweepAtATime
  BY <1>1, RunInvCorrect, PTL
<1> QED
  BY <1>3, <1>4

\* A worker whose attempt was superseded changes nothing durable by any later
\* step of its own.
THEOREM SupersededCorrect == Spec => SupersededAttemptIsHarmless
<1> DEFINE Harmless ==
      \A w \in Workers : Busy(w) /\ workers[w].own # owner_token /\ workers'[w] # workers[w]
         => UNCHANGED <<runVars, dispatches>>
<1>1. RunInv /\ [Next]_vars => Harmless
  <2> SUFFICES ASSUME RunInv, [Next]_vars,
                      NEW w \in Workers, Busy(w), workers[w].own # owner_token,
                      workers'[w] # workers[w]
               PROVE  UNCHANGED <<runVars, dispatches>>
    OBVIOUS
  <2>1. workers \in [Workers -> Worker] /\ workers[w].phase \notin {"none", "message"}
        /\ workers[w] # NoMessage /\ ~Owns(w)
    BY DEF RunInv, WorkerInv, Busy, NoMessage, Owns
  <2>2. ASSUME NEW v \in Workers, WorkerStep(v), v # w
        PROVE  FALSE
    <3>1. CASE FaultStep(v)
      BY <2>1, <2>2, <3>1
         DEF FaultStep, LoseMessage, SettlementRaises, WorkerCrash, TimeLimitExceeded,
         DuplicateMessage, MessageRaised, Ack
    <3>2. CASE PublishMaintenance(v) \/ ClaimRun(v) \/ TryMaintenanceLock(v)
               \/ SweepStep(v) \/ Heartbeat(v) \/ SettleStep(v)
      BY <2>1, <2>2, <3>2
         DEF PublishMaintenance, ClaimRun, ClaimSkipped, ClaimMismatch, ClaimExhausted,
         ClaimGranted, TryMaintenanceLock, SweepStep, WorkReturns, WorkFails,
         HeartbeatStale, SweepEnds, Heartbeat, SettleStep, CompleteRun, SettleFailure, Ack
    <3> QED
      BY <2>2, <3>1, <3>2 DEF WorkerStep
  <2>3. CASE WorkerStep(w)
    <3>1. ~PublishMaintenance(w) /\ ~ClaimRun(w) /\ ~Heartbeat(w)
      BY <2>1 DEF PublishMaintenance, ClaimRun, ClaimSkipped, ClaimMismatch, ClaimExhausted,
         ClaimGranted, Heartbeat
    <3>2. TryMaintenanceLock(w) \/ SweepStep(w) \/ FaultStep(w)
            => UNCHANGED <<runVars, dispatches>>
      BY DEF TryMaintenanceLock, SweepStep, WorkReturns, WorkFails, HeartbeatStale,
         FaultStep, LoseMessage, SettlementRaises, WorkerCrash, TimeLimitExceeded,
         DuplicateMessage
    <3>3. SettleStep(w) => UNCHANGED <<runVars, dispatches>>
      BY <2>1 DEF SettleStep, CompleteRun, SettleFailure, OwnsSettlement
    <3> QED
      BY <2>3, <3>1, <3>2, <3>3 DEF WorkerStep
  <2>4. CASE UNCHANGED workers
    BY <2>4
  <2> QED
    BY <2>2, <2>3, <2>4
       DEF Next, vars, ScheduleMaintenanceEvents, OrphanHeartbeat, OrphanDies, StrayEnds, DispatchDies,
       RecoverExpiredRun, LeaseExpires, OtherSweepBegins, OtherSweepEnds
<1> QED
  BY <1>1, RunInvCorrect, PTL DEF Spec, SupersededAttemptIsHarmless

\* An attempt that somebody else ended stays on record: the takeover or the
\* recovery sets taken_over and nothing resets it.
THEOREM RecoveryCorrect == Spec => RecoveryIsRemembered
<1> DEFINE Untouched ==
             \A w \in Workers : workers[w].own = owner_token /\ Busy(w) =>
                                  workers'[w] = workers[w]
           Remembered ==
             /\ taken_over => taken_over'
             /\ status = "running" /\ status' # "failed" /\ owner_token' # owner_token
                /\ Untouched => taken_over'
<1>1. RunInv /\ [Next]_vars => Remembered
  <2> SUFFICES ASSUME RunInv, [Next]_vars PROVE Remembered
    OBVIOUS
  <2>1. CASE UNCHANGED <<owner_token, taken_over>>
    BY <2>1
  <2>2. ASSUME NEW w \in Workers, ClaimRun(w) PROVE Remembered
    <3>1. CASE ClaimGranted(w)
      BY <3>1 DEF ClaimGranted, TakenOver
    <3>2. CASE ClaimMismatch(w) \/ ClaimExhausted(w)
      BY <3>2 DEF ClaimMismatch, ClaimExhausted, FailLocked
    <3> QED
      BY <2>1, <2>2, <3>1, <3>2 DEF ClaimRun, ClaimSkipped, runVars
  <2>3. ASSUME NEW w \in Workers, SettleStep(w) PROVE Remembered
    <3>1. /\ workers \in [Workers -> Worker]
          /\ Busy(w) /\ workers[w].phase # "none" /\ Ack(w)
          /\ taken_over' = taken_over
      BY <2>3 DEF RunInv, WorkerInv, SettleStep, CompleteRun, SettleFailure, FailLocked,
         runVars, Busy
    <3>2. workers'[w] # workers[w]
      BY <3>1 DEF Ack, NoMessage
    <3>3. CASE OwnsSettlement(w)
      BY <3>1, <3>2, <3>3 DEF OwnsSettlement, Owns
    <3>4. CASE ~OwnsSettlement(w)
      BY <2>1, <2>3, <3>4 DEF SettleStep, CompleteRun, SettleFailure, runVars
    <3> QED
      BY <3>3, <3>4
  <2>4. CASE RecoverExpiredRun
    BY <2>4 DEF RecoverExpiredRun, FailLocked
  <2>5. ASSUME NEW w \in Workers, WorkerStep(w) PROVE Remembered
    <3>1. PublishMaintenance(w) \/ TryMaintenanceLock(w) \/ SweepStep(w) \/ Heartbeat(w)
          \/ FaultStep(w) => UNCHANGED <<owner_token, taken_over>>
      BY DEF PublishMaintenance, TryMaintenanceLock, SweepStep, WorkReturns, WorkFails,
         HeartbeatStale, Heartbeat, FaultStep, LoseMessage, SettlementRaises, WorkerCrash,
         TimeLimitExceeded, DuplicateMessage, runVars
    <3> QED
      BY <2>1, <2>2, <2>3, <2>5, <3>1 DEF WorkerStep
  <2> QED
    BY <2>1, <2>4, <2>5
       DEF Next, vars, runVars, ScheduleMaintenanceEvents, OrphanHeartbeat, OrphanDies, StrayEnds,
       DispatchDies, LeaseExpires, OtherSweepBegins, OtherSweepEnds
<1> QED
  BY <1>1, RunInvCorrect, PTL DEF Spec, RecoveryIsRemembered

-----------------------------------------------------------------------------
(* The abstract job.                                                       *)

\* Each transition of the row is a move of the abstract job.
LEMMA LifecycleMoves ==
    /\ \A code : status \in {"queued", "running"} /\ FailLocked(code) => Lifecycle!Settle
    /\ \A code : status = "running" /\ attempt_count < MaxAttempts /\ Requeue(code)
                   => Lifecycle!Requeue
BY DEF Lifecycle!Settle, Lifecycle!Open, Lifecycle!Requeue, FailLocked, Requeue, Terminal

\* Every step of the run is a move of the abstract job or leaves it alone.
LEMMA StepRefines ==
    ASSUME RunInv, [Next]_vars
    PROVE  [Lifecycle!Next]_(Lifecycle!jobVars)
<1> DEFINE Stutter == UNCHANGED <<status, attempt_count>>
           Move == \/ Lifecycle!Accept \/ Lifecycle!Start
                   \/ Lifecycle!Requeue \/ Lifecycle!Settle
<1> SUFFICES Stutter \/ Move
  BY DEF Lifecycle!Next, Lifecycle!jobVars, Terminal
<1>1. ~Terminal /\ status # "absent" => status \in {"queued", "running"}
  BY DEF RunInv, RowInv, Terminal
<1>2. \A w \in Workers : workers[w].phase # "none" => status # "absent"
  BY DEF RunInv, WorkerInv
<1>3. CASE ScheduleMaintenanceEvents
  BY <1>3 DEF ScheduleMaintenanceEvents, Lifecycle!Accept, Terminal
<1>4. CASE RecoverExpiredRun
  <2>1. ~EnforceAttemptCeiling => attempt_count < MaxAttempts
    BY MaxAttemptsAssumption DEF EnforceAttemptCeiling, RunInv, RowInv
  <2> QED
    BY <1>4, <2>1, LifecycleMoves DEF RecoverExpiredRun, RecoveryDue
<1>5. ASSUME NEW w \in Workers, ClaimRun(w) PROVE Stutter \/ Move
  <2>1. status # "absent"
    BY <1>2, <1>5
       DEF ClaimRun, ClaimSkipped, ClaimMismatch, ClaimExhausted, ClaimGranted
  <2>2. CASE ClaimGranted(w)
    BY <1>1, <2>1, <2>2
       DEF ClaimGranted, AttemptsLeft, Lifecycle!Start, Lifecycle!Open, Terminal
  <2>3. CASE ClaimMismatch(w) \/ ClaimExhausted(w)
    BY <1>1, <2>1, <2>3, LifecycleMoves DEF ClaimMismatch, ClaimExhausted
  <2> QED
    BY <1>5, <2>2, <2>3 DEF ClaimRun, ClaimSkipped, runVars
<1>6. ASSUME NEW w \in Workers, SettleStep(w) PROVE Stutter \/ Move
  <2>1. CASE CompleteRun(w)
    BY <2>1 DEF CompleteRun, OwnsSettlement, Owns, runVars, Terminal,
       Lifecycle!Settle, Lifecycle!Open
  <2>2. CASE SettleFailure(w)
    BY <2>2, LifecycleMoves DEF SettleFailure, OwnsSettlement, Owns, AttemptsLeft, runVars
  <2> QED
    BY <1>6, <2>1, <2>2 DEF SettleStep
<1>7. ASSUME NEW w \in Workers, WorkerStep(w) PROVE Stutter \/ Move
  <2>1. PublishMaintenance(w) \/ TryMaintenanceLock(w) \/ SweepStep(w) \/ Heartbeat(w)
          \/ FaultStep(w) => Stutter
    BY DEF PublishMaintenance, TryMaintenanceLock, SweepStep, WorkReturns, WorkFails,
       HeartbeatStale, Heartbeat, FaultStep, LoseMessage, SettlementRaises, WorkerCrash,
       TimeLimitExceeded, DuplicateMessage, runVars
  <2> QED
    BY <1>5, <1>6, <1>7, <2>1 DEF WorkerStep
<1> QED
  BY <1>3, <1>4, <1>7
     DEF Next, vars, runVars, OrphanHeartbeat, OrphanDies, StrayEnds, DispatchDies, LeaseExpires,
     OtherSweepBegins, OtherSweepEnds

\* A maintenance run keeps the promises of the abstract job, whatever fails.
THEOREM LifecycleRefinement == Spec => ImplementsLifecycle
<1>1. Init => Lifecycle!Init
  BY DEF Init, Lifecycle!Init, Terminal
<1>2. RunInv /\ [Next]_vars => [Lifecycle!Next]_(Lifecycle!jobVars)
  BY StepRefines
<1> QED
  BY <1>1, <1>2, RunInvCorrect, PTL DEF Spec, ImplementsLifecycle, Lifecycle!Spec
-----------------------------------------------------------------------------
(***************************************************************************)
(* TenantSession.  The inductive invariant IInv says what a session is     *)
(* bound to at each point of its flow, what its principal was entitled to  *)
(* when it got there, and who holds a record or a job between two steps.   *)
(***************************************************************************)
(* The settings of a transaction, field by field; Plain are those of a       *)
(* request that is bound to an organisation and a user at most.             *)
Has(ctx, o, u, j, i) ==
  /\ DOMAIN ctx = {"org", "user", "job", "invitation", "admin", "service"}
  /\ ctx.org = o /\ ctx.user = u /\ ctx.job = j /\ ctx.invitation = i

Flagless(ctx) == ~ctx.admin /\ ~ctx.service
Plain(ctx, o, u) == Has(ctx, o, u, NONE, NONE) /\ Flagless(ctx)

LEMMA Binding ==
  ASSUME NEW ctx, NEW o, NEW u, NEW j, NEW i, NEW x, Has(ctx, o, u, j, i)
  PROVE  /\ Has(BindOrg(ctx, x), x, u, j, i)
         /\ Has(BindUser(ctx, x), o, x, j, i)
         /\ Has(BindJob(ctx, x), o, u, x, i)
         /\ Has(BindInvitation(ctx, x), o, u, j, x)
         /\ Has(ClearJob(ctx), o, u, NONE, i)
         /\ Has(BindPlatform(ctx), o, u, j, i)
         /\ Has(BindService(ctx), o, u, j, i)
         /\ Has(ClearService(ctx), o, u, j, i)
<1>1. Has(BindOrg(ctx, x), x, u, j, i)
  BY DEF Has, BindOrg
<1>2. Has(BindUser(ctx, x), o, x, j, i)
  BY DEF Has, BindUser
<1>3. Has(BindJob(ctx, x), o, u, x, i)
  BY DEF Has, BindJob
<1>4. Has(BindInvitation(ctx, x), o, u, j, x)
  BY DEF Has, BindInvitation
<1>5. Has(ClearJob(ctx), o, u, NONE, i)
  BY DEF Has, ClearJob
<1>6. Has(BindPlatform(ctx), o, u, j, i)
  BY DEF Has, BindPlatform
<1>7. Has(BindService(ctx), o, u, j, i)
  BY DEF Has, BindService
<1>8. Has(ClearService(ctx), o, u, j, i)
  BY DEF Has, ClearService
<1>. QED  BY <1>1, <1>2, <1>3, <1>4, <1>5, <1>6, <1>7, <1>8

LEMMA Flags ==
  ASSUME NEW ctx, NEW x, NEW o, NEW u, NEW j, NEW i, Has(ctx, o, u, j, i)
  PROVE  /\ (BindOrg(ctx, x).admin <=> ctx.admin) /\ (BindOrg(ctx, x).service <=> ctx.service)
         /\ (BindUser(ctx, x).admin <=> ctx.admin) /\ (BindUser(ctx, x).service <=> ctx.service)
         /\ (BindJob(ctx, x).admin <=> ctx.admin) /\ (BindJob(ctx, x).service <=> ctx.service)
         /\ (BindInvitation(ctx, x).admin <=> ctx.admin)
         /\ (BindInvitation(ctx, x).service <=> ctx.service)
         /\ (ClearJob(ctx).admin <=> ctx.admin) /\ (ClearJob(ctx).service <=> ctx.service)
         /\ BindPlatform(ctx).admin /\ (BindPlatform(ctx).service <=> ctx.service)
         /\ BindService(ctx).service /\ (BindService(ctx).admin <=> ctx.admin)
         /\ ~ClearService(ctx).service /\ (ClearService(ctx).admin <=> ctx.admin)
<1>1. /\ (BindOrg(ctx, x).admin <=> ctx.admin) /\ (BindOrg(ctx, x).service <=> ctx.service)
      /\ (BindUser(ctx, x).admin <=> ctx.admin) /\ (BindUser(ctx, x).service <=> ctx.service)
  BY DEF Has, BindOrg, BindUser
<1>2. /\ (BindJob(ctx, x).admin <=> ctx.admin) /\ (BindJob(ctx, x).service <=> ctx.service)
      /\ (ClearJob(ctx).admin <=> ctx.admin) /\ (ClearJob(ctx).service <=> ctx.service)
  BY DEF Has, BindJob, ClearJob
<1>3. /\ (BindInvitation(ctx, x).admin <=> ctx.admin)
      /\ (BindInvitation(ctx, x).service <=> ctx.service)
  BY DEF Has, BindInvitation
<1>4. BindPlatform(ctx).admin /\ (BindPlatform(ctx).service <=> ctx.service)
  BY DEF Has, BindPlatform
<1>5. BindService(ctx).service /\ (BindService(ctx).admin <=> ctx.admin)
  BY DEF Has, BindService
<1>6. ~ClearService(ctx).service /\ (ClearService(ctx).admin <=> ctx.admin)
  BY DEF Has, ClearService
<1>. QED  BY <1>1, <1>2, <1>3, <1>4, <1>5, <1>6

LEMMA Binds ==
  ASSUME NEW ctx, NEW o, NEW u, NEW x, Plain(ctx, o, u)
  PROVE  /\ Plain(BindOrg(ctx, x), x, u) /\ Plain(BindUser(ctx, x), o, x)
         /\ Plain(ClearJob(ctx), o, u)
         /\ Plain(ClearService(BindService(ctx)), o, u)
<1>1. Has(ctx, o, u, NONE, NONE) /\ Flagless(ctx)
  BY DEF Plain
<1>2. Has(BindOrg(ctx, x), x, u, NONE, NONE) /\ Has(BindUser(ctx, x), o, x, NONE, NONE)
      /\ Has(ClearJob(ctx), o, u, NONE, NONE) /\ Has(BindService(ctx), o, u, NONE, NONE)
  BY <1>1, Binding
<1>3. Has(ClearService(BindService(ctx)), o, u, NONE, NONE)
  BY <1>2, Binding
<1>4. /\ Flagless(BindOrg(ctx, x)) /\ Flagless(BindUser(ctx, x)) /\ Flagless(ClearJob(ctx))
      /\ ~BindService(ctx).admin
  BY <1>1, Flags DEF Flagless
<1>5. Flagless(ClearService(BindService(ctx)))
  BY <1>2, <1>4, Flags DEF Flagless
<1>. QED  BY <1>2, <1>3, <1>4, <1>5 DEF Plain

LEMMA Boundary == Plain(Unset, NONE, NONE) /\ \A ctx : AfterBoundary(ctx) = Unset
BY DEF Plain, Has, Flagless, AfterBoundary, Unset

-----------------------------------------------------------------------------
(* What the policies of the runtime role admit.                             *)
TenantTables == {"record", "file", "ai", "flag", "job", "membership", "grant", "invitation"}

LEMMA TenantRow ==
  ASSUME NEW ctx, NEW cmd \in Commands, NEW row, row.table \in TenantTables,
         ctx.org # NONE, row.org = ctx.org
  PROVE  RuntimeAdmits(ctx, cmd, row)
BY DEF RuntimeAdmits, TenantTables, SameTenant, RecordPolicy, FilePolicy, AIPolicy,
       FlagPolicy, JobPolicy, MembershipPolicy, GrantPolicy, InvitationPolicy

LEMMA LedgerRow ==
  ASSUME NEW ctx, NEW row
  PROVE  /\ row.table \in {"audit", "outbox"} /\ row.org = ctx.org
            => RuntimeAdmits(ctx, "insert", row)
         /\ row.table \in {"audit", "outbox"} /\ row.org = NONE
            => RuntimeAdmits(ctx, "insert", row)
         /\ row.table = "audit" /\ ctx.admin => RuntimeAdmits(ctx, "select", row)
BY DEF RuntimeAdmits, SameTenant, Global, AuditPolicy, OutboxPolicy

LEMMA OwnRow ==
  ASSUME NEW ctx, NEW row, ctx.user # NONE, row.user = ctx.user,
         row.table \in {"membership", "grant", "platform"}
  PROVE  RuntimeAdmits(ctx, "select", row)
BY DEF RuntimeAdmits, SameTenant, SameUser, MembershipPolicy, GrantPolicy, PlatformPolicy

LEMMA MailRow ==
  ASSUME NEW ctx, NEW cmd \in Commands, NEW row, row.table = "notification",
         ctx.org # NONE, row.org = ctx.org, ctx.user # NONE, row.user = ctx.user
  PROVE  RuntimeAdmits(ctx, cmd, row)
BY DEF RuntimeAdmits, SameTenant, SameUser, NotificationPolicy

LEMMA ServiceRow ==
  ASSUME NEW ctx, NEW cmd \in {"select", "insert"}, NEW row, ctx.service,
         row.table \in {"platform", "sentinel"}
  PROVE  RuntimeAdmits(ctx, cmd, row)
BY DEF RuntimeAdmits, PlatformOrService, PlatformPolicy, SentinelPolicy

LEMMA NamedRow ==
  ASSUME NEW ctx, NEW row
  PROVE  /\ row.table = "job" /\ ctx.job # NONE /\ row.id = ctx.job
            => RuntimeAdmits(ctx, "select", row)
         /\ \A cmd \in {"select", "update"} :
              /\ row.table = "invitation"
              /\ ctx.user \in row.invitees \/ (ctx.invitation # NONE /\ row.id = ctx.invitation)
              => RuntimeAdmits(ctx, cmd, row)
BY DEF RuntimeAdmits, JobPolicy, InvitationPolicy

(* A statement of the runtime role misses a row exactly when its policies   *)
(* do not admit it.                                                         *)
LEMMA RuntimeMisses ==
  ASSUME NEW c, RoleOf(c) = "app_runtime", NEW ctx, NEW rows, NEW cmd
  PROVE  Missed(c, ctx, cmd, rows) = {r \in rows : ~RuntimeAdmits(ctx, cmd, r)}
BY DEF Missed, Admits, Using, Check, RestrictedRoles

LEMMA RuntimeSees ==
  ASSUME NEW c, RoleOf(c) = "app_runtime", NEW ctx, NEW rows, NEW cmd,
         \A r \in rows : RuntimeAdmits(ctx, cmd, r)
  PROVE  Missed(c, ctx, cmd, rows) = {}
BY RuntimeMisses

LEMMA RuntimeLocks ==
  ASSUME NEW c, RoleOf(c) = "app_runtime", NEW ctx, NEW rows
  PROVE  MissedLock(c, ctx, rows) =
           {r \in rows : ~(RuntimeAdmits(ctx, "select", r) /\ RuntimeAdmits(ctx, "update", r))}
BY DEF MissedLock, Lockable, Using, RestrictedRoles

LEMMA RuntimeRewrites ==
  ASSUME NEW c, RoleOf(c) = "app_runtime", NEW ctx, NEW old, NEW new,
         RuntimeAdmits(ctx, "update", old), RuntimeAdmits(ctx, "update", new),
         old.table # "invitation"
  PROVE  MissedUpdate(c, ctx, old, new) = {}
BY DEF MissedUpdate, MayRewrite, Using, Check, ColumnsGranted

LEMMA RowFields ==
  /\ \A t, o : Row(t, o).table = t /\ Row(t, o).org = o
  /\ \A u, o : /\ MembershipRow(u, o).table = "membership" /\ MembershipRow(u, o).org = o
               /\ MembershipRow(u, o).user = u
               /\ [MembershipRow(u, o) EXCEPT !.table = "grant"].table = "grant"
               /\ [MembershipRow(u, o) EXCEPT !.table = "grant"].org = o
               /\ [MembershipRow(u, o) EXCEPT !.table = "grant"].user = u
               /\ NotificationRow(o, u).table = "notification" /\ NotificationRow(o, u).org = o
               /\ NotificationRow(o, u).user = u
  /\ \A j : JobRow(j).table = "job" /\ JobRow(j).org = OrgOf[j] /\ JobRow(j).id = j
            /\ JobRow(j).status = job[j] /\ JobRow(j).dispatched
  /\ \A j, s : /\ [JobRow(j) EXCEPT !.status = s].table = "job"
               /\ [JobRow(j) EXCEPT !.status = s].org = OrgOf[j]
               /\ [JobRow(j) EXCEPT !.status = s].status = s
  /\ \A i : /\ InvitationRow(i).table = "invitation" /\ InvitationRow(i).org = InvitedTo[i]
            /\ InvitationRow(i).id = i
            /\ InvitationRow(i).invitees =
                 {u \in Users : Mailbox[u][mailbox[u]] = InvitedAs[i]}
  /\ \A u : PlatformRow(u).table = "platform" /\ PlatformRow(u).org = NONE /\ PlatformRow(u).user = u
  /\ Sentinel.table = "sentinel" /\ Sentinel.org = NONE
  /\ \A o : OutboxRow(o).table = "outbox" /\ OutboxRow(o).org = o
<1>1. \A t, o : Row(t, o).table = t /\ Row(t, o).org = o
  BY DEF Row
<1>2. \A u, o : /\ MembershipRow(u, o).table = "membership" /\ MembershipRow(u, o).org = o
                /\ MembershipRow(u, o).user = u
                /\ [MembershipRow(u, o) EXCEPT !.table = "grant"].table = "grant"
                /\ [MembershipRow(u, o) EXCEPT !.table = "grant"].org = o
                /\ [MembershipRow(u, o) EXCEPT !.table = "grant"].user = u
                /\ NotificationRow(o, u).table = "notification"
                /\ NotificationRow(o, u).org = o /\ NotificationRow(o, u).user = u
  BY DEF MembershipRow, Personal, NotificationRow
<1>3. \A j : JobRow(j).table = "job" /\ JobRow(j).org = OrgOf[j] /\ JobRow(j).id = j
             /\ JobRow(j).status = job[j] /\ JobRow(j).dispatched
  BY DEF JobRow
<1>4. \A j, s : /\ [JobRow(j) EXCEPT !.status = s].table = "job"
                /\ [JobRow(j) EXCEPT !.status = s].org = OrgOf[j]
                /\ [JobRow(j) EXCEPT !.status = s].status = s
  BY DEF JobRow
<1>5. \A i : /\ InvitationRow(i).table = "invitation" /\ InvitationRow(i).org = InvitedTo[i]
             /\ InvitationRow(i).id = i
             /\ InvitationRow(i).invitees =
                  {u \in Users : Mailbox[u][mailbox[u]] = InvitedAs[i]}
  BY DEF InvitationRow
<1>6. /\ \A u : PlatformRow(u).table = "platform" /\ PlatformRow(u).org = NONE /\ PlatformRow(u).user = u
      /\ Sentinel.table = "sentinel" /\ Sentinel.org = NONE
      /\ \A o : OutboxRow(o).table = "outbox" /\ OutboxRow(o).org = o
  BY DEF PlatformRow, Sentinel, Row, OutboxRow
<1>. QED  BY <1>1, <1>2, <1>3, <1>4, <1>5, <1>6

-----------------------------------------------------------------------------
(* The inductive invariant. Deployed: what was decided when the processes   *)
(* started.                                                                 *)
Deployed ==
  /\ deployment \in Deployments
  /\ serving = {p \in Processes : MayServe(deployment, p)}

ConnFields == {"flow", "pc", "who", "aim", "task", "held", "fresh", "expect", "address",
               "ctx", "missed"}

(* Which process runs a flow, and what the flow is about.                   *)
Employs(c, e) ==
  /\ e.flow # "idle" => ProcessOf[c] \in serving /\ Production(deployment)
  /\ e.flow \in {"api", "revoked", "deleted"} => ProcessOf[c] = "api"
  /\ e.flow = "job" => ProcessOf[c] = "worker"
  /\ e.flow = "dead" => ProcessOf[c] = "coordinator"

Concerns(e) ==
  /\ e.flow = "api" => e.who \in Users /\ e.aim \in Orgs
  /\ e.flow \in {"job", "dead"} => e.task \in Jobs
  /\ e.flow = "revoked" => e.task \in Invitations
  /\ e.flow = "deleted" => e.who \in Users

(* The settings at each point of each flow.                                 *)
BoundByRequest(pc, ctx, u, o) ==
  \/ pc \in {"provision", "regrant", "refresh", "detail"} /\ Plain(ctx, NONE, NONE)
  \/ pc \in {"bootstrap", "relock", "accept"} /\ Plain(ctx, NONE, u)
  \/ pc \in {"link", "authorise"} /\ \E v \in {NONE, u} : Plain(ctx, NONE, v)
  \/ /\ pc = "grant" /\ u = BootstrapUser /\ \E h \in {NONE, Home} : Has(ctx, h, u, NONE, NONE)
     /\ ctx.service /\ ~ctx.admin
  \/ pc \in {"work", "save", "erase"} /\ Plain(ctx, o, u)
  \/ pc = "operate" /\ Has(ctx, NONE, u, NONE, NONE) /\ ctx.admin /\ ~ctx.service
  \/ /\ pc = "upsert" /\ \E v \in {NONE, u} : Has(ctx, o, v, NONE, NONE)
     /\ ~ctx.service

BoundByJob(pc, ctx, j) ==
  \/ pc = "read" /\ Plain(ctx, NONE, NONE)
  \/ pc \in {"claim", "handle"} /\ Plain(ctx, OrgOf[j], NONE)
  \/ pc = "settle" /\ Has(ctx, OrgOf[j], RecipientOf[j], j, NONE) /\ Flagless(ctx)

BoundByDeadEvent(pc, ctx, j) ==
  \/ pc = "lock" /\ Plain(ctx, NONE, NONE)
  \/ pc = "settled" /\ Plain(ctx, OrgOf[j], RecipientOf[j])

BoundByRevocation(pc, ctx, i) ==
  \/ pc = "read" /\ Plain(ctx, NONE, NONE)
  \/ pc = "revoke" /\ Has(ctx, InvitedTo[i], NONE, NONE, i) /\ Flagless(ctx)

BoundByDeletion(pc, ctx) ==
  \/ pc = "lock" /\ Plain(ctx, NONE, NONE)
  \/ pc = "deactivate" /\ Has(ctx, NONE, NONE, NONE, NONE) /\ ctx.service /\ ~ctx.admin

BoundAt(e) ==
  \/ e.flow = "idle" /\ e.pc = "idle" /\ e.ctx = Unset
  \/ e.flow = "api" /\ BoundByRequest(e.pc, e.ctx, e.who, e.aim)
  \/ e.flow = "job" /\ BoundByJob(e.pc, e.ctx, e.task)
  \/ e.flow = "dead" /\ BoundByDeadEvent(e.pc, e.ctx, e.task)
  \/ e.flow = "revoked" /\ BoundByRevocation(e.pc, e.ctx, e.task)
  \/ e.flow = "deleted" /\ BoundByDeletion(e.pc, e.ctx)

(* What a step hands to the next one, and what its statements missed.       *)
Carries(e) ==
  /\ e.pc \in {"relock", "accept"} => e.held \subseteq Invitations
  /\ e.pc = "accept" => e.fresh \subseteq Orgs

Stale(x) == x.row.table = "invitation" /\ x.who # NONE /\ x.who \notin x.row.invitees
Sees(e) == \A x \in e.missed : Stale(x)

EntryOK(c, e) ==
  DOMAIN e = ConnFields /\ Employs(c, e) /\ Concerns(e) /\ BoundAt(e) /\ Carries(e) /\ Sees(e)

Sessions ==
  /\ DOMAIN conn = Connections
  /\ \A c \in Connections : EntryOK(c, conn[c])

-----------------------------------------------------------------------------
(* How a step leaves the connections: one of them changes.                  *)
Alone(c) == DOMAIN conn' = Connections /\ \A d \in Connections \ {c} : conn'[d] = conn[d]

Continues(c, pc, ctx, held, fresh, missed) ==
  /\ Alone(c)
  /\ DOMAIN conn'[c] = ConnFields
  /\ conn'[c].flow = conn[c].flow /\ conn'[c].who = conn[c].who /\ conn'[c].aim = conn[c].aim
  /\ conn'[c].task = conn[c].task /\ conn'[c].expect = conn[c].expect
  /\ conn'[c].pc = pc /\ conn'[c].ctx = ctx /\ conn'[c].held = held /\ conn'[c].fresh = fresh
  /\ conn'[c].missed = Blames(c, missed)

LEMMA Staying ==
  ASSUME NEW c \in Connections, DOMAIN conn[c] = ConnFields, NEW pc, NEW ctx, NEW missed
  PROVE  LET e == Stays(c, pc, ctx, missed) IN
         /\ DOMAIN e = ConnFields
         /\ e.flow = conn[c].flow /\ e.who = conn[c].who /\ e.aim = conn[c].aim
         /\ e.task = conn[c].task /\ e.expect = conn[c].expect
         /\ e.pc = pc /\ e.ctx = ctx /\ e.held = {} /\ e.fresh = {}
         /\ e.missed = Blames(c, missed)
BY DEF Stays, ConnFields

LEMMA Going ==
  ASSUME NEW c \in Connections, DOMAIN conn = Connections, DOMAIN conn[c] = ConnFields,
         NEW pc, NEW ctx, NEW missed, Goes(c, pc, ctx, missed)
  PROVE  Continues(c, pc, ctx, {}, {}, missed)
<1>1. conn'[c] = Stays(c, pc, ctx, missed) /\ Alone(c)
  BY DEF Goes, Alone
<1>. QED  BY <1>1, Staying DEF Continues

LEMMA Holding ==
  ASSUME NEW c \in Connections, DOMAIN conn = Connections, DOMAIN conn[c] = ConnFields,
         NEW pc, NEW ctx, NEW missed, NEW held, NEW fresh, Holds(c, pc, ctx, missed, held, fresh)
  PROVE  Continues(c, pc, ctx, held, fresh, missed)
<1> DEFINE e == Stays(c, pc, ctx, missed)
<1>1. conn'[c] = [e EXCEPT !.held = held, !.fresh = fresh] /\ Alone(c)
  BY DEF Holds, Alone
<1>2. DOMAIN e = ConnFields
  BY Staying
<1>3. LET f == [e EXCEPT !.held = held, !.fresh = fresh] IN
      /\ DOMAIN f = ConnFields
      /\ f.flow = e.flow /\ f.who = e.who /\ f.aim = e.aim /\ f.task = e.task
      /\ f.expect = e.expect /\ f.pc = e.pc /\ f.ctx = e.ctx /\ f.held = held
      /\ f.fresh = fresh /\ f.missed = e.missed
  <2> HIDE DEF e
  <2>. QED  BY <1>2 DEF ConnFields
<1>. QED  BY <1>1, <1>3, Staying DEF Continues

LEMMA Finishing ==
  ASSUME NEW c \in Connections, DOMAIN conn = Connections,
         NEW ctx, NEW missed, Finishes(c, ctx, missed)
  PROVE  /\ Alone(c) /\ DOMAIN conn'[c] = ConnFields
         /\ conn'[c].flow = "idle" /\ conn'[c].pc = "idle" /\ conn'[c].ctx = Unset
         /\ conn'[c].missed = Blames(c, missed)
<1>1. conn'[c] = [Free EXCEPT !.ctx = Unset, !.missed = Blames(c, missed)] /\ Alone(c)
  BY Boundary DEF Finishes, Alone
<1>. QED  BY <1>1 DEF Free, ConnFields

(* Statements that miss nothing, or only invitations whose address the user *)
(* no longer has, leave the record of misses as good as it was.             *)
LEMMA Seeing ==
  ASSUME NEW c, NEW rows, Sees(conn[c]),
         \A r \in rows : r.table = "invitation" /\ conn[c].who # NONE /\ conn[c].who \notin r.invitees
  PROVE  \A x \in Blames(c, rows) : Stale(x)
BY DEF Sees, Stale, Blames

Runs(c) ==
  /\ conn'[c].flow = conn[c].flow /\ conn'[c].who = conn[c].who /\ conn'[c].aim = conn[c].aim
  /\ conn'[c].task = conn[c].task /\ conn'[c].expect = conn[c].expect

(* The connection is free again, or at one of these points.                 *)
Lands(c, points) ==
  /\ Alone(c) /\ EntryOK(c, conn'[c])
  /\ \/ conn'[c].flow = "idle" /\ conn'[c].pc = "idle"
     \/ Runs(c) /\ conn'[c].pc \in points

Excused(c, rows) ==
  \A r \in rows : r.table = "invitation" /\ conn[c].who # NONE /\ conn[c].who \notin r.invitees

LEMMA Ending ==
  ASSUME NEW c \in Connections, Sessions, NEW ctx, NEW missed, Finishes(c, ctx, missed),
         Excused(c, missed), NEW points
  PROVE  Lands(c, points)
<1>1. DOMAIN conn = Connections /\ Sees(conn[c])
  BY DEF Sessions, EntryOK
<1>2. \A x \in Blames(c, missed) : Stale(x)
  BY <1>1, Seeing DEF Excused
<1>3. /\ Alone(c) /\ DOMAIN conn'[c] = ConnFields
      /\ conn'[c].flow = "idle" /\ conn'[c].pc = "idle" /\ conn'[c].ctx = Unset
      /\ conn'[c].missed = Blames(c, missed)
  BY <1>1, Finishing
<1>. QED  BY <1>2, <1>3 DEF Lands, EntryOK, Employs, Concerns, BoundAt, Carries, Sees

LEMMA Continuing ==
  ASSUME NEW c \in Connections, Sessions, NEW pc, NEW ctx, NEW held, NEW fresh, NEW missed,
         Continues(c, pc, ctx, held, fresh, missed), Excused(c, missed),
         BoundAt(conn'[c]), pc \in {"relock", "accept"} => held \subseteq Invitations,
         pc = "accept" => fresh \subseteq Orgs
  PROVE  Lands(c, {pc})
<1>1. EntryOK(c, conn[c])
  BY DEF Sessions
<1>2. Sees(conn'[c])
  BY <1>1, Seeing DEF Continues, Sees, EntryOK, Excused
<1>3. Carries(conn'[c])
  BY DEF Carries, Continues
<1>. QED  BY <1>1, <1>2, <1>3 DEF Lands, Runs, EntryOK, Continues, Employs, Concerns

LEMMA RequestGoes ==
  ASSUME NEW c \in Connections, Sessions, conn[c].flow = "api",
         NEW pc, pc \notin {"relock", "accept"}, NEW ctx, NEW held, NEW fresh, NEW missed,
         Goes(c, pc, ctx, missed) \/ Holds(c, pc, ctx, missed, held, fresh), Excused(c, missed),
         BoundByRequest(pc, ctx, conn[c].who, conn[c].aim)
  PROVE  Lands(c, {pc})
<1>1. DOMAIN conn = Connections /\ DOMAIN conn[c] = ConnFields
  BY DEF Sessions, EntryOK
<1>2. PICK h, f : Continues(c, pc, ctx, h, f, missed)
  BY <1>1, Going, Holding
<1>3. BoundAt(conn'[c])
  BY <1>2 DEF Continues, BoundAt
<1>. QED  BY <1>2, <1>3, Continuing

LEMMA RequestHolds ==
  ASSUME NEW c \in Connections, Sessions, conn[c].flow = "api",
         NEW pc \in {"relock", "accept"}, NEW ctx, NEW held \in SUBSET Invitations,
         NEW fresh \in SUBSET Orgs, NEW missed,
         Holds(c, pc, ctx, missed, held, fresh), Excused(c, missed),
         BoundByRequest(pc, ctx, conn[c].who, conn[c].aim)
  PROVE  Lands(c, {pc})
<1>1. DOMAIN conn = Connections /\ DOMAIN conn[c] = ConnFields
  BY DEF Sessions, EntryOK
<1>2. Continues(c, pc, ctx, held, fresh, missed)
  BY <1>1, Holding
<1>3. BoundAt(conn'[c])
  BY <1>2 DEF Continues, BoundAt
<1>. QED  BY <1>2, <1>3, Continuing

LEMMA OtherGoes ==
  ASSUME NEW c \in Connections, Sessions, NEW pc, pc \notin {"relock", "accept"}, NEW ctx,
         NEW missed, NEW held, NEW fresh,
         Goes(c, pc, ctx, missed) \/ Holds(c, pc, ctx, missed, held, fresh), Excused(c, missed),
         \/ conn[c].flow = "job" /\ BoundByJob(pc, ctx, conn[c].task)
         \/ conn[c].flow = "dead" /\ BoundByDeadEvent(pc, ctx, conn[c].task)
         \/ conn[c].flow = "revoked" /\ BoundByRevocation(pc, ctx, conn[c].task)
         \/ conn[c].flow = "deleted" /\ BoundByDeletion(pc, ctx)
  PROVE  Lands(c, {pc})
<1>1. DOMAIN conn = Connections /\ DOMAIN conn[c] = ConnFields
  BY DEF Sessions, EntryOK
<1>2. PICK h, f : Continues(c, pc, ctx, h, f, missed)
  BY <1>1, Going, Holding
<1>3. BoundAt(conn'[c])
  BY <1>2 DEF Continues, BoundAt
<1>. QED  BY <1>2, <1>3, Continuing

-----------------------------------------------------------------------------
(* Standings: the settings that carry a tenant or the platform come after   *)
(* the moment the principal was entitled to it.                             *)
Entitles(c) ==
  LET e == conn[c] s == standing[c] IN
  /\ e.flow = "api" /\ e.pc \in {"work", "save", "erase"} => e.aim \in s.orgs
  /\ e.flow = "api" /\ e.pc \in {"operate", "upsert"} => e.aim \in s.orgs /\ s.admin
  /\ e.flow \in {"job", "dead"} => OrgOf[e.task] \in s.orgs
  /\ e.flow = "revoked" => InvitedTo[e.task] \in s.orgs

Standings == \A c \in Connections : Entitles(c)

(* Records: the revisions of a record that is there are as many as its      *)
(* version says; whoever is between the locking read and the write read the *)
(* version that is still there, and is alone.                               *)
Edits(c) == conn[c].pc \in {"save", "erase"}

Histories ==
  /\ record \in [Orgs -> [live : BOOLEAN, version : 1..MaxVersion]]
  /\ revisions \in [Orgs -> Seq(Nat)]
  /\ \A o \in Orgs : \A i \in 1..Len(revisions[o]) : revisions[o][i] = i - 1
  /\ \A o \in Orgs : record[o].live => Len(revisions[o]) = record[o].version

Editors ==
  /\ \A c \in Connections : Edits(c) =>
       /\ record[conn[c].aim].live /\ conn[c].expect = record[conn[c].aim].version
       /\ conn[c].pc = "save" => conn[c].expect < MaxVersion
  /\ \A c, d \in Connections : Edits(c) /\ Edits(d) /\ conn[c].aim = conn[d].aim => c = d

(* Jobs: a worker past its claim holds a job that is no longer queued, the  *)
(* coordinator before its settlement one that still is, and holds it alone. *)
Settles(c) == conn[c].pc = "settled"

Settlements ==
  /\ job \in [Jobs -> {"queued", "running", "succeeded", "failed"}]
  /\ \A c \in Connections : conn[c].pc \in {"handle", "settle"} => job[conn[c].task] # "queued"
  /\ \A c \in Connections : Settles(c) => job[conn[c].task] = "queued"
  /\ \A c, d \in Connections : Settles(c) /\ Settles(d) /\ conn[c].task = conn[d].task => c = d

IInv == Deployed /\ Sessions /\ Standings /\ Histories /\ Editors /\ Settlements

-----------------------------------------------------------------------------
(* The start-up gates. A process that may serve in production logs in as    *)
(* the restricted role that was written for it, and that role and all it    *)
(* reaches, a set closed under the grants, are bound by the policies.       *)
LEMMA ReachableIsClosed ==
  ASSUME NEW d \in Deployments, NEW r \in Roles
  PROVE  /\ ReachableRoles(d, r) \subseteq Roles
         /\ \A g \in d.grants : g[1] \in ReachableRoles(d, r) \cup {r} => g[2] \in ReachableRoles(d, r)
<1> DEFINE R == ReachableRoles(d, r)
<1>1. ASSUME NEW g \in d.grants, g[1] \in R \cup {r}
      PROVE  g[2] \in R
  <2>1. g[2] \in Roles
    BY SessionAssumption
  <2>2. ASSUME NEW S \in SUBSET Roles, Follows(d, r, S)
        PROVE  g[2] \in S
    <3>1. g[1] \in S \cup {r}
      BY <1>1, <2>2 DEF ReachableRoles
    <3>. QED  BY <2>2, <3>1 DEF Follows
  <2>. QED  BY <2>1, <2>2 DEF ReachableRoles
<1>. QED  BY <1>1 DEF ReachableRoles

LEMMA SafeLogin ==
  ASSUME NEW d \in Deployments, NEW p \in Processes, Production(d), MayServe(d, p)
  PROVE  LET r == LoginRole(d, p) IN
         /\ r = IF p = "coordinator" THEN "app_coordinator" ELSE "app_runtime"
         /\ r \in Roles /\ d.facts[r] = {} /\ PrivilegedMemberships(d, r) = {}
BY SessionAssumption DEF MayServe, RuntimeIsSafe, CoordinatorIsSafe, RoleProblems, LoginRole,
   Processes, ApplicationRoles

LEMMA GatesHold == Deployed => ServesUnderPolicies
<1> SUFFICES ASSUME Deployed, NEW p \in serving, Production(deployment)
             PROVE  \E S \in SUBSET Roles :
                      /\ LoginRole(deployment, p) \in S
                      /\ \A g \in deployment.grants : g[1] \in S => g[2] \in S
                      /\ \A r \in S : deployment.facts[r] \cap {"super", "bypass", "owner"} = {}
  BY DEF ServesUnderPolicies
<1> DEFINE r == LoginRole(deployment, p)
           S == ReachableRoles(deployment, r) \cup {r}
<1>1. deployment \in Deployments /\ p \in Processes /\ MayServe(deployment, p)
  BY DEF Deployed
<1>2. r \in Roles /\ deployment.facts[r] = {} /\ PrivilegedMemberships(deployment, r) = {}
  BY <1>1, SafeLogin
<1>3. /\ ReachableRoles(deployment, r) \subseteq Roles
      /\ \A g \in deployment.grants : g[1] \in S => g[2] \in ReachableRoles(deployment, r)
  BY <1>1, <1>2, ReachableIsClosed
<1>4. \A q \in S : deployment.facts[q] \cap {"super", "bypass", "owner"} = {}
  <2> HIDE DEF r
  <2>. QED  BY <1>2 DEF PrivilegedMemberships
<1>5. S \in SUBSET Roles /\ r \in S
  BY <1>2, <1>3
<1>. QED  BY <1>3, <1>4, <1>5

LEMMA ServedRole ==
  ASSUME Deployed, NEW c \in Connections, ProcessOf[c] \in serving, Production(deployment)
  PROVE  RoleOf(c) = IF ProcessOf[c] = "coordinator" THEN "app_coordinator" ELSE "app_runtime"
<1>1. deployment \in Deployments /\ ProcessOf[c] \in Processes /\ MayServe(deployment, ProcessOf[c])
  BY DEF Deployed
<1>. QED  BY <1>1, SafeLogin DEF RoleOf

-----------------------------------------------------------------------------
(* RowsKeepTheirTenant: under any settings whatever, a role that a served   *)
(* connection logs in with cannot rewrite the organisation of a row.        *)
Tables == TenantTables \cup {"notification", "audit", "outbox", "platform", "sentinel"}

LEMMA RowShape ==
  ASSUME NEW row \in Rows
  PROVE  /\ {"table", "org"} \subseteq DOMAIN row
         /\ row.table \in Tables
         /\ row.table \in {"platform", "sentinel"} => row.org = NONE
         /\ row.table = "invitation" => row.invitees \subseteq Users
<1> DEFINE Shaped(r) == /\ {"table", "org"} \subseteq DOMAIN r
                        /\ r.table \in Tables
                        /\ r.table \in {"platform", "sentinel"} => r.org = NONE
                        /\ r.table = "invitation" => r.invitees \subseteq Users
<1> USE DEF Tables, TenantTables
<1>1. \A t \in {"file", "ai", "record", "flag", "audit"} : \A o : Shaped(Row(t, o))
  BY DEF Row
<1>2. \A u, o : /\ Shaped(MembershipRow(u, o)) /\ Shaped([MembershipRow(u, o) EXCEPT !.table = "grant"])
                /\ Shaped(NotificationRow(o, u)) /\ Shaped(PlatformRow(u)) /\ Shaped(OutboxRow(o))
  BY DEF MembershipRow, Personal, NotificationRow, PlatformRow, OutboxRow
<1>3. \A j : Shaped(JobRow(j))
  BY DEF JobRow
<1>4. \A i : Shaped(InvitationRow(i))
  BY DEF InvitationRow
<1>5. Shaped(Sentinel)
  BY DEF Sentinel, Row
<1> SUFFICES Shaped(row)
  OBVIOUS
<1> HIDE DEF Shaped
<1>6. \A r \in MembershipRows : \E u, o : r = MembershipRow(u, o)
  BY DEF MembershipRows
<1>7. CASE row \in RecordRows \cup FlagRows
  BY <1>1, <1>7 DEF RecordRows, FlagRows
<1>8. CASE row \in MembershipRows \cup {[r EXCEPT !.table = "grant"] : r \in MembershipRows}
  <2>1. PICK r \in MembershipRows : row = r \/ row = [r EXCEPT !.table = "grant"]
    BY <1>8
  <2>2. PICK u, o : r = MembershipRow(u, o)
    BY <1>6
  <2>3. CASE row = r
    BY <1>2, <2>2, <2>3
  <2>4. CASE row = [r EXCEPT !.table = "grant"]
    <3>1. row = [MembershipRow(u, o) EXCEPT !.table = "grant"]
      BY <2>2, <2>4
    <3>. QED  BY <1>2, <3>1
  <2>. QED  BY <2>1, <2>3, <2>4
<1>9. CASE row \in {Row(t, o) : t \in {"file", "ai"}, o \in Orgs}
                  \cup {Row("audit", o) : o \in Orgs \cup {NONE}}
  BY <1>1, <1>9
<1>10. CASE row \in {NotificationRow(o, u) : o \in Orgs, u \in Users}
  <2>1. PICK o \in Orgs, u \in Users : row = NotificationRow(o, u)
    BY <1>10
  <2>. QED  BY <1>2, <2>1
<1>11. CASE row \in {OutboxRow(o) : o \in Orgs \cup {NONE}} \cup {PlatformRow(u) : u \in platform}
  BY <1>2, <1>11
<1>12. CASE row \in {JobRow(j) : j \in Jobs} \cup {InvitationRow(i) : i \in Invitations}
  BY <1>3, <1>4, <1>12
<1>13. CASE row \in (IF consumed THEN {Sentinel} ELSE {})
  <2>1. row = Sentinel
    BY <1>13
  <2>. QED  BY <1>5, <2>1
<1>. QED  BY <1>7, <1>8, <1>9, <1>10, <1>11, <1>12, <1>13 DEF Rows

LEMMA TenantIsKept ==
  ASSUME NEW role \in {"app_runtime", "app_coordinator"}, NEW ctx, NEW row \in Rows,
         row.org # NONE, NEW o \in Orgs \ {row.org}
  PROVE  ~MayRewrite(role, ctx, row, [row EXCEPT !.org = o])
<1> DEFINE new == [row EXCEPT !.org = o]
<1>1. new.org = o /\ new.table = row.table /\ row.table \in Tables \ {"platform", "sentinel"}
  BY RowShape
<1> HIDE DEF new
<1>2. ASSUME role = "app_runtime"
      PROVE  ~MayRewrite(role, ctx, row, new)
  <2>1. CASE row.table = "invitation"
    BY <1>1, <1>2, <2>1 DEF MayRewrite, ColumnsGranted, RestrictedRoles
  <2>2. CASE row.table # "invitation"
    <3>1. ~(RuntimeAdmits(ctx, "update", row) /\ RuntimeAdmits(ctx, "update", new))
      BY <1>1, <2>2 DEF Tables, TenantTables, RuntimeAdmits, SameTenant, RecordPolicy, FilePolicy,
         AIPolicy, FlagPolicy, JobPolicy, MembershipPolicy, GrantPolicy, NotificationPolicy,
         AuditPolicy, OutboxPolicy
    <3>. QED  BY <1>2, <3>1 DEF MayRewrite, Using, Check, RestrictedRoles
  <2>. QED  BY <2>1, <2>2
<1>3. ASSUME role = "app_coordinator"
      PROVE  ~MayRewrite(role, ctx, row, new)
  <2>1. CASE row.table \in {"job", "outbox"}
    BY <1>1, <1>3, <2>1 DEF MayRewrite, ColumnsGranted, RestrictedRoles
  <2>2. CASE row.table \notin {"job", "outbox"}
    <3>1. ~(CoordinatorUsing(ctx, "update", row) /\ CoordinatorCheck(ctx, "update", new))
      BY <1>1, <2>2 DEF CoordinatorUsing, CoordinatorCheck, NotificationPolicy, SameTenant
    <3>. QED  BY <1>3, <3>1 DEF MayRewrite, Using, Check, RestrictedRoles
  <2>. QED  BY <2>1, <2>2
<1>. QED  BY <1>2, <1>3 DEF new

LEMMA TenantsHold == Deployed => RowsKeepTheirTenant
<1> SUFFICES ASSUME Deployed, NEW row \in {r \in Rows : r.org # NONE}, NEW c \in Served,
                    NEW o \in Orgs \ {row.org}
             PROVE  ~MayRewrite(RoleOf(c), conn[c].ctx, row, [row EXCEPT !.org = o])
  BY DEF RowsKeepTheirTenant
<1>1. c \in Connections /\ ProcessOf[c] \in serving /\ Production(deployment)
  BY DEF Served
<1>2. RoleOf(c) \in {"app_runtime", "app_coordinator"}
  BY <1>1, ServedRole
<1>. QED  BY <1>2, TenantIsKept

-----------------------------------------------------------------------------
(* ExposureIsBounded. What the settings of a session of the API or a worker *)
(* say, its principal has a claim to.                                       *)
Claims(c) ==
  LET e == conn[c] IN
  /\ e.ctx.org # NONE => \/ e.ctx.org \in standing[c].orgs
                         \/ e.flow = "api" /\ e.pc = "grant" /\ e.ctx.org = Home
  /\ e.ctx.user # NONE => ActsFor(c, e.ctx.user)
  /\ e.ctx.job # NONE => e.flow = "job" /\ e.ctx.job = e.task
  /\ e.ctx.invitation # NONE => e.flow = "revoked" /\ e.ctx.invitation = e.task
  /\ e.ctx.admin => standing[c].admin
  /\ e.ctx.service => \/ e.flow = "deleted"
                      \/ e.flow = "api" /\ e.pc = "grant" /\ e.who = BootstrapUser

LEMMA SettingsAreClaims ==
  ASSUME Sessions, Standings, NEW c \in Connections, ProcessOf[c] # "coordinator"
  PROVE  Claims(c)
<1> USE DEF Claims
<1>1. BoundAt(conn[c]) /\ conn[c].flow # "dead" /\ Entitles(c)
  BY DEF Sessions, EntryOK, Employs, Standings
<1>2. CASE conn[c].flow = "idle"
  <2>1. conn[c].ctx = Unset
    BY <1>1, <1>2 DEF BoundAt
  <2>. QED  BY <2>1 DEF Unset
<1>3. CASE conn[c].flow = "api"
  <2>1. BoundByRequest(conn[c].pc, conn[c].ctx, conn[c].who, conn[c].aim)
    BY <1>1, <1>3 DEF BoundAt
  <2>. QED  BY <1>1, <1>3, <2>1 DEF BoundByRequest, Entitles, ActsFor, Plain, Has, Flagless
<1>4. CASE conn[c].flow = "job"
  <2>1. BoundByJob(conn[c].pc, conn[c].ctx, conn[c].task)
    BY <1>1, <1>4 DEF BoundAt
  <2>. QED  BY <1>1, <1>4, <2>1 DEF BoundByJob, Entitles, ActsFor, Plain, Has, Flagless
<1>5. CASE conn[c].flow = "revoked"
  <2>1. BoundByRevocation(conn[c].pc, conn[c].ctx, conn[c].task)
    BY <1>1, <1>5 DEF BoundAt
  <2>. QED  BY <1>1, <1>5, <2>1 DEF BoundByRevocation, Entitles, Plain, Has, Flagless
<1>6. CASE conn[c].flow = "deleted"
  <2>1. BoundByDeletion(conn[c].pc, conn[c].ctx)
    BY <1>1, <1>6 DEF BoundAt
  <2>. QED  BY <1>1, <1>6, <2>1 DEF BoundByDeletion, Plain, Has, Flagless
<1>. QED  BY <1>1, <1>2, <1>3, <1>4, <1>5, <1>6 DEF BoundAt

LEMMA ExposureHolds == Deployed /\ Sessions /\ Standings => ExposureIsBounded
<1> SUFFICES ASSUME Deployed, Sessions, Standings, NEW row \in Rows,
                    NEW c \in {d \in Served : ProcessOf[d] # "coordinator"}, NEW cmd \in Commands,
                    Admits(RoleOf(c), conn[c].ctx, cmd, row)
             PROVE  Reaches(c, cmd, row)
  BY DEF ExposureIsBounded
<1> DEFINE e == conn[c]
<1>1. c \in Connections /\ ProcessOf[c] \in serving /\ Production(deployment)
      /\ ProcessOf[c] # "coordinator"
  BY DEF Served
<1>2. RoleOf(c) = "app_runtime"
  BY <1>1, ServedRole
<1>3. RuntimeAdmits(e.ctx, cmd, row)
  BY <1>2 DEF Admits, Using, Check, RestrictedRoles
<1>4. Claims(c)
  BY <1>1, SettingsAreClaims
<1>5. /\ row.table \in Tables
      /\ row.table = "invitation" => row.invitees \subseteq Users
  BY RowShape
<1> USE DEF Claims
<1>6. CASE SameTenant(e.ctx, row) /\ (row.table = "notification" => SameUser(e.ctx, row))
  BY <1>4, <1>6 DEF SameTenant, SameUser, Reaches
<1>7. CASE row.table \in {"record", "file", "ai", "flag", "notification"}
  <2>1. SameTenant(e.ctx, row) /\ (row.table = "notification" => SameUser(e.ctx, row))
    BY <1>3, <1>7 DEF RuntimeAdmits, RecordPolicy, FilePolicy, AIPolicy, FlagPolicy,
       NotificationPolicy
  <2>. QED  BY <1>6, <2>1
<1>8. CASE row.table = "job"
  <2>1. SameTenant(e.ctx, row) \/ (cmd = "select" /\ e.ctx.job # NONE /\ row.id = e.ctx.job)
    BY <1>3, <1>8 DEF RuntimeAdmits, JobPolicy
  <2>. QED  BY <1>4, <1>6, <1>8, <2>1 DEF Reaches
<1>9. CASE row.table \in {"membership", "grant"}
  <2>1. SameTenant(e.ctx, row) \/ (cmd = "select" /\ SameUser(e.ctx, row))
    BY <1>3, <1>9 DEF RuntimeAdmits, MembershipPolicy, GrantPolicy
  <2>. QED  BY <1>4, <1>6, <1>9, <2>1 DEF Reaches, SameUser
<1>10. CASE row.table = "invitation"
  <2>1. \/ SameTenant(e.ctx, row)
        \/ cmd \in {"select", "update"} /\ e.ctx.user \in row.invitees
        \/ cmd \in {"select", "update"} /\ e.ctx.invitation # NONE /\ row.id = e.ctx.invitation
    BY <1>3, <1>10 DEF RuntimeAdmits, InvitationPolicy
  <2>2. e.ctx.user \in row.invitees => e.ctx.user # NONE
    BY <1>5, <1>10, SessionAssumption
  <2>. QED  BY <1>4, <1>6, <1>10, <2>1, <2>2 DEF Reaches
<1>11. CASE row.table \in {"audit", "outbox"}
  <2>1. \/ SameTenant(e.ctx, row)
        \/ row.table = "audit" /\ e.ctx.admin
        \/ cmd = "insert" /\ row.org = NONE
    BY <1>3, <1>11 DEF RuntimeAdmits, AuditPolicy, OutboxPolicy, Global
  <2>. QED  BY <1>4, <1>6, <1>11, <2>1 DEF Reaches
<1>12. CASE row.table \in {"platform", "sentinel"}
  <2>1. \/ row.table = "platform" /\ cmd = "select" /\ SameUser(e.ctx, row)
        \/ e.ctx.admin \/ e.ctx.service
    BY <1>3, <1>12 DEF RuntimeAdmits, PlatformPolicy, SentinelPolicy, PlatformOrService
  <2>. QED  BY <1>4, <1>12, <2>1 DEF Reaches, SameUser
<1>. QED  BY <1>5, <1>7, <1>8, <1>9, <1>10, <1>11, <1>12 DEF Tables, TenantTables

-----------------------------------------------------------------------------
(* What the statements of the runtime role miss, by the kind of rows they   *)
(* are meant for.                                                           *)
LEMMA TenantMisses ==
  ASSUME NEW c, RoleOf(c) = "app_runtime", NEW ctx, NEW rows, ctx.org # NONE,
         \A r \in rows : r.table \in TenantTables /\ r.org = ctx.org
  PROVE  /\ \A cmd \in Commands : Missed(c, ctx, cmd, rows) = {}
         /\ MissedLock(c, ctx, rows) = {}
<1>1. \A cmd \in Commands : \A r \in rows : RuntimeAdmits(ctx, cmd, r)
  BY TenantRow
<1>2. MissedLock(c, ctx, rows) = {}
  BY <1>1, RuntimeLocks DEF Commands
<1>. QED  BY <1>1, <1>2, RuntimeSees

LEMMA LedgerMisses ==
  ASSUME NEW c, RoleOf(c) = "app_runtime", NEW ctx, NEW rows,
         \A r \in rows : r.table \in {"audit", "outbox"} /\ r.org \in {NONE, ctx.org}
  PROVE  Missed(c, ctx, "insert", rows) = {}
<1>1. \A r \in rows : RuntimeAdmits(ctx, "insert", r)
  BY LedgerRow
<1>. QED  BY <1>1, RuntimeSees

LEMMA OwnMisses ==
  ASSUME NEW c, RoleOf(c) = "app_runtime", NEW ctx, NEW rows, ctx.user # NONE,
         \A r \in rows : r.table \in {"membership", "grant", "platform"} /\ r.user = ctx.user
  PROVE  Missed(c, ctx, "select", rows) = {}
<1>1. \A r \in rows : RuntimeAdmits(ctx, "select", r)
  BY OwnRow
<1>. QED  BY <1>1, RuntimeSees

LEMMA ServiceMisses ==
  ASSUME NEW c, RoleOf(c) = "app_runtime", NEW ctx, NEW rows, ctx.service,
         \A r \in rows : r.table \in {"platform", "sentinel"},
         NEW cmd \in {"select", "insert"}
  PROVE  Missed(c, ctx, cmd, rows) = {}
<1>1. \A r \in rows : RuntimeAdmits(ctx, cmd, r)
  BY ServiceRow
<1>. QED  BY <1>1, RuntimeSees

LEMMA MailMisses ==
  ASSUME NEW c, RoleOf(c) = "app_runtime", NEW ctx, NEW o, NEW u, ctx.org = o, ctx.user = u,
         o # NONE, u # NONE, NEW cmd \in Commands
  PROVE  /\ Missed(c, ctx, cmd, {NotificationRow(o, u)}) = {}
         /\ MissedUpdate(c, ctx, NotificationRow(o, u), NotificationRow(o, u)) = {}
<1> DEFINE r == NotificationRow(o, u)
<1>1. r.table = "notification" /\ r.org = ctx.org /\ r.user = ctx.user
  BY RowFields
<1> HIDE DEF r
<1>2. \A x \in Commands : RuntimeAdmits(ctx, x, r)
  BY <1>1, MailRow
<1>3. "update" \in Commands
  BY DEF Commands
<1>4. Missed(c, ctx, cmd, {r}) = {}
  BY <1>2, RuntimeSees
<1>5. MissedUpdate(c, ctx, r, r) = {}
  BY <1>1, <1>2, <1>3, RuntimeRewrites
<1>. QED  BY <1>4, <1>5 DEF r

LEMMA RewriteMisses ==
  ASSUME NEW c, RoleOf(c) = "app_runtime", NEW ctx, ctx.org # NONE, NEW old, NEW new,
         old.table \in TenantTables \ {"invitation"}, new.table = old.table,
         old.org = ctx.org, new.org = ctx.org
  PROVE  MissedUpdate(c, ctx, old, new) = {}
<1>1. RuntimeAdmits(ctx, "update", old) /\ RuntimeAdmits(ctx, "update", new)
  BY TenantRow DEF Commands
<1>. QED  BY <1>1, RuntimeRewrites

(* A list of statements that each miss nothing misses nothing.              *)
LEMMA Nothing == \A c : Excused(c, {})
BY DEF Excused

LEMMA AtRequest ==
  ASSUME Deployed, Sessions, NEW c \in Connections, conn[c].flow = "api"
  PROVE  /\ RoleOf(c) = "app_runtime"
         /\ conn[c].who \in Users /\ conn[c].who # NONE
         /\ conn[c].aim \in Orgs /\ conn[c].aim # NONE
         /\ BoundByRequest(conn[c].pc, conn[c].ctx, conn[c].who, conn[c].aim)
         /\ Carries(conn[c])
<1>1. EntryOK(c, conn[c])
  BY DEF Sessions
<1>2. ProcessOf[c] = "api" /\ ProcessOf[c] \in serving /\ Production(deployment)
  BY <1>1 DEF EntryOK, Employs
<1>3. RoleOf(c) = "app_runtime"
  BY <1>2, ServedRole
<1>. QED  BY <1>1, <1>3, SessionAssumption DEF EntryOK, Concerns, BoundAt

LEMMA AtWork ==
  ASSUME Deployed, Sessions, NEW c \in Connections, conn[c].flow \in {"job", "dead", "revoked", "deleted"}
  PROVE  /\ RoleOf(c) = IF conn[c].flow = "dead" THEN "app_coordinator" ELSE "app_runtime"
         /\ conn[c].flow \in {"job", "dead"} =>
              /\ conn[c].task \in Jobs /\ conn[c].task # NONE
              /\ OrgOf[conn[c].task] # NONE /\ RecipientOf[conn[c].task] # NONE
         /\ conn[c].flow = "revoked" => /\ conn[c].task \in Invitations /\ conn[c].task # NONE
                                        /\ InvitedTo[conn[c].task] # NONE
         /\ conn[c].flow = "job" => BoundByJob(conn[c].pc, conn[c].ctx, conn[c].task)
         /\ conn[c].flow = "dead" => BoundByDeadEvent(conn[c].pc, conn[c].ctx, conn[c].task)
         /\ conn[c].flow = "revoked" => BoundByRevocation(conn[c].pc, conn[c].ctx, conn[c].task)
         /\ conn[c].flow = "deleted" => BoundByDeletion(conn[c].pc, conn[c].ctx)
<1>1. EntryOK(c, conn[c])
  BY DEF Sessions
<1>2. /\ ProcessOf[c] \in serving /\ Production(deployment)
      /\ ProcessOf[c] = "coordinator" <=> conn[c].flow = "dead"
  BY <1>1 DEF EntryOK, Employs
<1>3. RoleOf(c) = IF conn[c].flow = "dead" THEN "app_coordinator" ELSE "app_runtime"
  BY <1>2, ServedRole
<1>4. /\ conn[c].flow = "job" => BoundByJob(conn[c].pc, conn[c].ctx, conn[c].task)
      /\ conn[c].flow = "dead" => BoundByDeadEvent(conn[c].pc, conn[c].ctx, conn[c].task)
      /\ conn[c].flow = "revoked" => BoundByRevocation(conn[c].pc, conn[c].ctx, conn[c].task)
      /\ conn[c].flow = "deleted" => BoundByDeletion(conn[c].pc, conn[c].ctx)
  BY <1>1 DEF EntryOK, BoundAt
<1>. QED  BY <1>1, <1>3, <1>4, SessionAssumption DEF EntryOK, Concerns

-----------------------------------------------------------------------------
(* The steps of a request, in the order of the code.                        *)
LEMMA Beginning ==
  ASSUME Deployed, Sessions, NEW c \in Connections, NEW entry, Starts(c, entry),
         DOMAIN entry = ConnFields, entry.missed = {},
         \/ entry.flow = "api" /\ entry.pc = "provision" /\ ProcessOf[c] = "api"
            /\ entry.who \in Users /\ entry.aim \in Orgs
         \/ entry.flow = "job" /\ entry.pc = "read" /\ ProcessOf[c] = "worker" /\ entry.task \in Jobs
         \/ /\ entry.flow = "dead" /\ entry.pc = "lock" /\ ProcessOf[c] = "coordinator"
            /\ entry.task \in Jobs
         \/ /\ entry.flow = "revoked" /\ entry.pc = "read" /\ ProcessOf[c] = "api"
            /\ entry.task \in Invitations
         \/ entry.flow = "deleted" /\ entry.pc = "lock" /\ ProcessOf[c] = "api" /\ entry.who \in Users
  PROVE  /\ Alone(c) /\ EntryOK(c, conn'[c])
         /\ conn'[c].flow = entry.flow /\ conn'[c].task = entry.task
         /\ conn'[c].pc \in {"provision", "read", "lock"}
<1>1. DOMAIN conn = Connections /\ conn[c].ctx = Unset
  BY DEF Sessions, EntryOK, BoundAt, Starts
<1>2. conn'[c] = [entry EXCEPT !.ctx = Unset] /\ Alone(c)
  BY <1>1 DEF Starts, Alone
<1>3. /\ DOMAIN conn'[c] = ConnFields /\ conn'[c].ctx = Unset /\ conn'[c].missed = {}
      /\ conn'[c].flow = entry.flow /\ conn'[c].pc = entry.pc /\ conn'[c].who = entry.who
      /\ conn'[c].aim = entry.aim /\ conn'[c].task = entry.task
  BY <1>2 DEF ConnFields
<1>4. Employs(c, conn'[c]) /\ Concerns(conn'[c]) /\ Sees(conn'[c]) /\ Carries(conn'[c])
  BY <1>3 DEF Employs, Concerns, Sees, Carries, Starts
<1>5. BoundAt(conn'[c])
  BY <1>3, Boundary DEF BoundAt, BoundByRequest, BoundByJob, BoundByDeadEvent,
     BoundByRevocation, BoundByDeletion
<1>. QED  BY <1>2, <1>3, <1>4, <1>5 DEF EntryOK

LEMMA ProvisionSession ==
  ASSUME Deployed, Sessions, NEW c \in Connections, Provision(c)
  PROVE  Lands(c, {"bootstrap"})
<1> DEFINE u == conn[c].who
           ctx == BindUser(AfterBoundary(conn[c].ctx), u)
           e == Stays(c, "bootstrap", ctx, {})
           address == Mailbox[u][profile[u]]
<1>1. conn[c].flow = "api" /\ DOMAIN conn = Connections /\ DOMAIN conn[c] = ConnFields
  BY DEF Provision, At, Sessions, EntryOK
<1>2. Plain(ctx, NONE, u)
  BY Boundary, Binds
<1>3. CASE conn' = [conn EXCEPT ![c] = [e EXCEPT !.address = address]]
  <2>1. conn'[c] = [e EXCEPT !.address = address] /\ Alone(c)
    BY <1>1, <1>3 DEF Alone
  <2>2. LET f == [e EXCEPT !.address = address] IN
        /\ DOMAIN f = ConnFields
        /\ f.flow = e.flow /\ f.who = e.who /\ f.aim = e.aim /\ f.task = e.task
        /\ f.expect = e.expect /\ f.pc = e.pc /\ f.ctx = e.ctx /\ f.held = e.held
        /\ f.fresh = e.fresh /\ f.missed = e.missed
    <3>1. DOMAIN e = ConnFields
      BY <1>1, Staying
    <3> HIDE DEF e
    <3>. QED  BY <3>1 DEF ConnFields
  <2>3. Continues(c, "bootstrap", ctx, {}, {}, {})
    BY <1>1, <2>1, <2>2, Staying DEF Continues
  <2>4. BoundByRequest("bootstrap", ctx, u, conn[c].aim)
    BY <1>2 DEF BoundByRequest
  <2>5. BoundAt(conn'[c])
    BY <1>1, <2>3, <2>4 DEF BoundAt, Continues
  <2>. QED  BY <2>3, <2>5, Continuing, Nothing
<1>4. CASE Finishes(c, conn[c].ctx, {})
  BY <1>4, Ending, Nothing
<1>. QED  BY <1>3, <1>4 DEF Provision

LEMMA BootstrapSession ==
  ASSUME Deployed, Sessions, NEW c \in Connections, Bootstrap(c)
  PROVE  Lands(c, {"link", "grant"})
<1> DEFINE u == conn[c].who
           ctx == BindService(conn[c].ctx)
           there == IF consumed THEN {Sentinel} ELSE {}
           mine == MembershipRows \cap {MembershipRow(u, Home)}
           asked == IF Home = NONE THEN ctx ELSE BindUser(ctx, u)
           joins == Home # NONE /\ mine \subseteq Missed(c, asked, "select", mine)
           bound == IF joins THEN BindOrg(asked, Home) ELSE asked
           missed == Missed(c, ctx, "select", there) \cup Missed(c, asked, "select", mine)
<1>1. conn[c].flow = "api" /\ conn[c].pc = "bootstrap"
  BY DEF Bootstrap, At
<1>2. RoleOf(c) = "app_runtime" /\ u # NONE /\ Plain(conn[c].ctx, NONE, u)
  BY <1>1, AtRequest DEF BoundByRequest
<1>3. /\ Has(ctx, NONE, u, NONE, NONE) /\ ctx.service /\ ~ctx.admin
      /\ Plain(ClearService(ctx), NONE, u)
  BY <1>2, Binding, Binds, Flags DEF Plain, Flagless
<1>4. Has(asked, NONE, u, NONE, NONE) /\ asked.service /\ ~asked.admin
  BY <1>3, Binding, Flags
<1>5. /\ \E h \in {NONE, Home} : Has(bound, h, u, NONE, NONE)
      /\ bound.service /\ ~bound.admin
  <2> HIDE DEF asked
  <2>1. CASE joins
    <3>1. bound = BindOrg(asked, Home)
      BY <2>1
    <3>2. Has(bound, Home, u, NONE, NONE)
      BY <1>4, <3>1, Binding
    <3>3. bound.service /\ ~bound.admin
      BY <1>4, <3>1, Flags
    <3>. QED  BY <3>2, <3>3
  <2>2. CASE ~joins
    BY <1>4, <2>2
  <2>. QED  BY <2>1, <2>2
<1>6. Missed(c, ctx, "select", there) = {}
  <2>1. \A r \in there : r.table \in {"platform", "sentinel"}
    BY RowFields
  <2>. QED  BY <1>2, <1>3, <2>1, ServiceMisses
<1>7. Missed(c, asked, "select", mine) = {}
  <2>1. \A r \in mine : r.table = "membership" /\ r.user = u
    BY RowFields
  <2>2. asked.user = u
    BY <1>4 DEF Has
  <2>. QED  BY <1>2, <2>1, <2>2, OwnMisses
<1> HIDE DEF bound, missed
<1>8. CASE Goes(c, "link", conn[c].ctx, {}) \/ Goes(c, "link", ClearService(ctx), {})
  <2>1. PICK x \in {conn[c].ctx, ClearService(ctx)} : Goes(c, "link", x, {})
    BY <1>8
  <2>2. BoundByRequest("link", x, u, conn[c].aim)
    BY <1>2, <1>3 DEF BoundByRequest
  <2>. QED  BY <1>1, <2>1, <2>2, RequestGoes, Nothing DEF Lands
<1>9. CASE Goes(c, "grant", bound, missed) /\ u = BootstrapUser
  <2>1. missed = {}
    BY <1>6, <1>7 DEF missed
  <2>2. BoundByRequest("grant", bound, u, conn[c].aim)
    BY <1>5, <1>9 DEF BoundByRequest
  <2>. QED  BY <1>1, <1>9, <2>1, <2>2, RequestGoes, Nothing DEF Lands
<1>. QED  BY <1>8, <1>9 DEF Bootstrap, bound, missed

LEMMA BootstrapGrantSession ==
  ASSUME Deployed, Sessions, NEW c \in Connections, BootstrapGrant(c)
  PROVE  Lands(c, {"regrant", "link"})
<1> DEFINE u == conn[c].who
           ctx == conn[c].ctx
           new == {PlatformRow(u), Sentinel, Row("audit", NONE)}
                  \cup {MembershipRow(u, o) : o \in {ctx.org} \ {NONE}}
           denied == Missed(c, ctx, "insert", new)
<1>1. conn[c].flow = "api" /\ conn[c].pc = "grant"
  BY DEF BootstrapGrant, At
<1>2. RoleOf(c) = "app_runtime" /\ ctx.service
  BY <1>1, AtRequest DEF BoundByRequest
<1>3. denied = {}
  <2>1. ASSUME NEW r \in new
        PROVE  RuntimeAdmits(ctx, "insert", r)
    <3>1. CASE r \in {PlatformRow(u), Sentinel}
      BY <1>2, <3>1, RowFields, ServiceRow
    <3>2. CASE r = Row("audit", NONE)
      BY <3>2, RowFields, LedgerRow
    <3>3. CASE r \in {MembershipRow(u, o) : o \in {ctx.org} \ {NONE}}
      <4>1. r.table \in TenantTables /\ ctx.org # NONE /\ r.org = ctx.org
        BY <3>3, RowFields DEF TenantTables
      <4>. QED  BY <4>1, TenantRow DEF Commands
    <3>. QED  BY <3>1, <3>2, <3>3
  <2>. QED  BY <1>2, <2>1, RuntimeSees
<1>4. CASE Finishes(c, ctx, denied)
  BY <1>3, <1>4, Ending, Nothing
<1>5. CASE \E pc \in {"regrant", "link"} : Goes(c, pc, AfterBoundary(ctx), {})
  <2>1. PICK pc \in {"regrant", "link"} : Goes(c, pc, Unset, {})
    BY <1>5, Boundary
  <2>2. BoundByRequest(pc, Unset, u, conn[c].aim)
    BY Boundary DEF BoundByRequest
  <2>3. Lands(c, {pc})
    BY <1>1, <2>1, <2>2, RequestGoes, Nothing
  <2>. QED  BY <2>3 DEF Lands
<1>. QED  BY <1>4, <1>5 DEF BootstrapGrant

LEMMA BootstrapAgainSession ==
  ASSUME Deployed, Sessions, NEW c \in Connections, BootstrapAgain(c)
  PROVE  Lands(c, {"link"})
<1> DEFINE ctx == BindService(conn[c].ctx)
           there == IF consumed THEN {Sentinel} ELSE {}
           missed == Missed(c, ctx, "select", there)
<1>1. conn[c].flow = "api" /\ conn[c].pc = "regrant"
  BY DEF BootstrapAgain, At
<1>2. RoleOf(c) = "app_runtime" /\ Plain(conn[c].ctx, NONE, NONE)
  BY <1>1, AtRequest DEF BoundByRequest
<1>3. ctx.service /\ Plain(ClearService(ctx), NONE, NONE)
  BY <1>2, Binds, Flags DEF Plain
<1>4. missed = {}
  <2>1. \A r \in there : r.table \in {"platform", "sentinel"}
    BY RowFields
  <2>. QED  BY <1>2, <1>3, <2>1, ServiceMisses
<1>5. CASE Goes(c, "link", ClearService(ctx), {})
  <2>1. BoundByRequest("link", ClearService(ctx), conn[c].who, conn[c].aim)
    BY <1>3 DEF BoundByRequest
  <2>. QED  BY <1>1, <1>5, <2>1, RequestGoes, Nothing
<1>6. CASE Finishes(c, ctx, missed)
  BY <1>4, <1>6, Ending, Nothing
<1>. QED  BY <1>5, <1>6 DEF BootstrapAgain

LEMMA LinkSession ==
  ASSUME Deployed, Sessions, NEW c \in Connections, Link(c)
  PROVE  Lands(c, {"authorise", "relock"})
<1> DEFINE u == conn[c].who
           ctx == BindUser(conn[c].ctx, u)
           missed == Missed(c, ctx, "select", InvitationRows(Sent(c)))
           seen == {i \in Sent(c) : InvitationRow(i) \notin missed}
<1>1. conn[c].flow = "api" /\ conn[c].pc = "link"
  BY DEF Link, At
<1>2. RoleOf(c) = "app_runtime" /\ u # NONE /\ \E v \in {NONE, u} : Plain(conn[c].ctx, NONE, v)
  BY <1>1, AtRequest DEF BoundByRequest
<1>3. Plain(ctx, NONE, u)
  BY <1>2, Binds
<1>4. Excused(c, missed)
  <2>1. SUFFICES ASSUME NEW r \in missed
                 PROVE  r.table = "invitation" /\ u # NONE /\ u \notin r.invitees
    BY DEF Excused
  <2>2. r \in InvitationRows(Sent(c)) /\ ~RuntimeAdmits(ctx, "select", r)
    BY <1>2, RuntimeMisses
  <2>3. r.table = "invitation"
    BY <2>2, RowFields DEF InvitationRows
  <2>. QED  BY <1>2, <1>3, <2>2, <2>3, NamedRow DEF Plain, Has
<1>5. seen \subseteq Invitations
  BY DEF Sent
<1> HIDE DEF seen, missed
<1>6. CASE Goes(c, "authorise", ctx, missed)
  <2>1. BoundByRequest("authorise", ctx, u, conn[c].aim)
    BY <1>3 DEF BoundByRequest
  <2>. QED  BY <1>1, <1>4, <1>6, <2>1, RequestGoes DEF Lands
<1>7. CASE Holds(c, "relock", ctx, missed, seen, {})
  <2>1. BoundByRequest("relock", ctx, u, conn[c].aim)
    BY <1>3 DEF BoundByRequest
  <2>2. Lands(c, {"relock"})
    BY <1>1, <1>4, <1>5, <1>7, <2>1, RequestHolds
  <2>. QED  BY <2>2 DEF Lands
<1>. QED  BY <1>6, <1>7 DEF Link, seen, missed

LEMMA RelockSession ==
  ASSUME Deployed, Sessions, NEW c \in Connections, Relock(c)
  PROVE  Lands(c, {"authorise", "accept"})
<1>1. conn[c].flow = "api" /\ conn[c].pc = "relock"
  BY DEF Relock, At
<1>2. PICK granted \in SUBSET (conn[c].held \cap Sent(c)) :
        LET missed == MissedLock(c, conn[c].ctx, InvitationRows(granted))
            seen == {i \in granted : InvitationRow(i) \notin missed}
        IN  \/ Goes(c, "authorise", conn[c].ctx, missed)
            \/ Holds(c, "accept", conn[c].ctx, missed, seen,
                     {InvitedTo[i] : i \in seen}
                       \cap {o \in Orgs : membership[<<conn[c].who, o>>] = "none"})
  BY DEF Relock
<1> DEFINE u == conn[c].who
           ctx == conn[c].ctx
           missed == MissedLock(c, ctx, InvitationRows(granted))
           seen == {i \in granted : InvitationRow(i) \notin missed}
           fresh == {InvitedTo[i] : i \in seen} \cap {o \in Orgs : membership[<<u, o>>] = "none"}
<1>3. RoleOf(c) = "app_runtime" /\ u # NONE /\ Plain(ctx, NONE, u)
  BY <1>1, AtRequest DEF BoundByRequest
<1>4. Excused(c, missed)
  <2>1. SUFFICES ASSUME NEW r \in missed
                 PROVE  r.table = "invitation" /\ u # NONE /\ u \notin r.invitees
    BY DEF Excused
  <2>2. /\ r \in InvitationRows(granted)
        /\ ~(RuntimeAdmits(ctx, "select", r) /\ RuntimeAdmits(ctx, "update", r))
    BY <1>3, RuntimeLocks
  <2>3. r.table = "invitation"
    BY <2>2, RowFields DEF InvitationRows
  <2>. QED  BY <1>3, <2>2, <2>3, NamedRow DEF Plain, Has
<1>5. seen \in SUBSET Invitations /\ fresh \in SUBSET Orgs
  BY DEF Sent
<1> HIDE DEF seen, missed, fresh
<1>6. CASE Goes(c, "authorise", ctx, missed)
  <2>1. BoundByRequest("authorise", ctx, u, conn[c].aim)
    BY <1>3 DEF BoundByRequest
  <2>. QED  BY <1>1, <1>4, <1>6, <2>1, RequestGoes DEF Lands
<1>7. CASE Holds(c, "accept", ctx, missed, seen, fresh)
  <2>1. BoundByRequest("accept", ctx, u, conn[c].aim)
    BY <1>3 DEF BoundByRequest
  <2>2. Lands(c, {"accept"})
    BY <1>1, <1>4, <1>5, <1>7, <2>1, RequestHolds
  <2>. QED  BY <2>2 DEF Lands
<1>. QED  BY <1>2, <1>6, <1>7 DEF seen, missed, fresh

LEMMA AcceptSession ==
  ASSUME Deployed, Sessions, NEW c \in Connections, Accept(c)
  PROVE  Lands(c, {"authorise", "link"})
<1> DEFINE u == conn[c].who
           Under(i) == BindOrg(conn[c].ctx, InvitedTo[i])
           Of(i) == LET o == InvitedTo[i] IN
                      Missed(c, Under(i), "select", MembershipRows \cap {MembershipRow(u, o)})
                      \cup Missed(c, Under(i), "insert", {MembershipRow(u, o), Row("audit", o)})
                      \cup Missed(c, Under(i), "update", {InvitationRow(i)})
           missed == UNION {Of(i) : i \in conn[c].held}
<1>1. conn[c].flow = "api" /\ conn[c].pc = "accept"
  BY DEF Accept, At
<1>2. /\ RoleOf(c) = "app_runtime" /\ u # NONE /\ Plain(conn[c].ctx, NONE, u)
      /\ conn[c].held \subseteq Invitations
  BY <1>1, AtRequest DEF BoundByRequest, Carries
<1>3. ASSUME NEW i \in conn[c].held
      PROVE  Of(i) = {}
  <2> DEFINE o == InvitedTo[i]
             ctx == Under(i)
  <2>1. o # NONE /\ ctx.org = o /\ ctx.user = u
    <3>1. i \in Invitations /\ o # NONE
      BY <1>2, SessionAssumption
    <3>2. Plain(ctx, o, u)
      BY <1>2, Binds
    <3>. QED  BY <3>1, <3>2 DEF Plain, Has
  <2> HIDE DEF o, ctx
  <2>2. Missed(c, ctx, "select", MembershipRows \cap {MembershipRow(u, o)}) = {}
    <3>1. \A r \in MembershipRows \cap {MembershipRow(u, o)} : r.table = "membership" /\ r.user = u
      BY RowFields
    <3>. QED  BY <1>2, <2>1, <3>1, OwnMisses
  <2>3. Missed(c, ctx, "insert", {MembershipRow(u, o), Row("audit", o)}) = {}
    <3>1. RuntimeAdmits(ctx, "insert", MembershipRow(u, o))
      BY <2>1, RowFields, TenantRow DEF TenantTables, Commands
    <3>2. RuntimeAdmits(ctx, "insert", Row("audit", o))
      BY <2>1, RowFields, LedgerRow
    <3>. QED  BY <1>2, <3>1, <3>2, RuntimeSees
  <2>4. Missed(c, ctx, "update", {InvitationRow(i)}) = {}
    <3>1. InvitationRow(i).table = "invitation" /\ InvitationRow(i).org = o
      BY RowFields DEF o
    <3>2. RuntimeAdmits(ctx, "update", InvitationRow(i))
      BY <2>1, <3>1, TenantRow DEF TenantTables, Commands
    <3>. QED  BY <1>2, <3>2, RuntimeSees
  <2>. QED  BY <2>2, <2>3, <2>4 DEF o, ctx
<1>4. missed = {}
  <2> HIDE DEF Of
  <2>. QED  BY <1>3
<1> HIDE DEF missed
<1>5. CASE Finishes(c, conn[c].ctx, missed)
  BY <1>4, <1>5, Ending, Nothing
<1>6. CASE \E pc \in {"authorise", "link"} : Goes(c, pc, AfterBoundary(conn[c].ctx), {})
  <2>1. PICK pc \in {"authorise", "link"} : Goes(c, pc, Unset, {})
    BY <1>6, Boundary
  <2>2. BoundByRequest(pc, Unset, u, conn[c].aim)
    BY Boundary DEF BoundByRequest
  <2>3. Lands(c, {pc})
    BY <1>1, <2>1, <2>2, RequestGoes, Nothing
  <2>. QED  BY <2>3 DEF Lands
<1>. QED  BY <1>5, <1>6 DEF Accept, missed

LEMMA OrganisationPlaneSession ==
  ASSUME Deployed, Sessions, NEW c \in Connections, OrganisationPlane(c)
  PROVE  Lands(c, {"work"})
<1> DEFINE u == conn[c].who
           o == conn[c].aim
           ctx == BindUser(conn[c].ctx, u)
           mine == MembershipRows \cap {MembershipRow(u, o)}
           missed == Missed(c, ctx, "select", mine)
<1>1. conn[c].flow = "api" /\ conn[c].pc = "authorise"
  BY DEF OrganisationPlane, At
<1>2. RoleOf(c) = "app_runtime" /\ u # NONE /\ \E v \in {NONE, u} : Plain(conn[c].ctx, NONE, v)
  BY <1>1, AtRequest DEF BoundByRequest
<1>3. Plain(ctx, NONE, u) /\ Plain(BindOrg(ctx, o), o, u)
  BY <1>2, Binds
<1>4. missed = {}
  <2>1. \A r \in mine : r.table = "membership" /\ r.user = u
    BY RowFields
  <2>. QED  BY <1>2, <1>3, <2>1, OwnMisses DEF Plain, Has
<1>5. CASE Goes(c, "work", BindOrg(ctx, o), {})
  <2>1. BoundByRequest("work", BindOrg(ctx, o), u, o)
    BY <1>3 DEF BoundByRequest
  <2>. QED  BY <1>1, <1>5, <2>1, RequestGoes, Nothing
<1>6. CASE Finishes(c, ctx, missed)
  BY <1>4, <1>6, Ending, Nothing
<1>. QED  BY <1>5, <1>6 DEF OrganisationPlane

LEMMA PlatformPlaneSession ==
  ASSUME Deployed, Sessions, NEW c \in Connections, PlatformPlane(c)
  PROVE  Lands(c, {"operate"})
<1> DEFINE u == conn[c].who
           ctx == BindUser(conn[c].ctx, u)
           mine == {PlatformRow(v) : v \in platform \cap {u}}
           missed == Missed(c, ctx, "select", mine)
<1>1. conn[c].flow = "api" /\ conn[c].pc = "authorise"
  BY DEF PlatformPlane, At
<1>2. RoleOf(c) = "app_runtime" /\ u # NONE /\ \E v \in {NONE, u} : Plain(conn[c].ctx, NONE, v)
  BY <1>1, AtRequest DEF BoundByRequest
<1>3. Plain(ctx, NONE, u)
  BY <1>2, Binds
<1>4. missed = {}
  <2>1. \A r \in mine : r.table = "platform" /\ r.user = u
    BY RowFields
  <2>. QED  BY <1>2, <1>3, <2>1, OwnMisses DEF Plain, Has
<1>5. CASE Goes(c, "operate", BindPlatform(ctx), {})
  <2>1. BoundByRequest("operate", BindPlatform(ctx), u, conn[c].aim)
    BY <1>3, Binding, Flags DEF BoundByRequest, Plain, Flagless
  <2>. QED  BY <1>1, <1>5, <2>1, RequestGoes, Nothing
<1>6. CASE Finishes(c, ctx, missed)
  BY <1>4, <1>6, Ending, Nothing
<1>. QED  BY <1>5, <1>6 DEF PlatformPlane

(* Operations of an organisation: bound to the organisation and the user.   *)
LEMMA AtOperation ==
  ASSUME Deployed, Sessions, NEW c \in Connections, conn[c].flow = "api",
         conn[c].pc \in {"work", "save", "erase"}
  PROVE  /\ RoleOf(c) = "app_runtime" /\ conn[c].aim # NONE /\ conn[c].who # NONE
         /\ Plain(conn[c].ctx, conn[c].aim, conn[c].who)
         /\ Plain(BindOrg(conn[c].ctx, conn[c].aim), conn[c].aim, conn[c].who)
         /\ Plain(BindUser(BindOrg(conn[c].ctx, conn[c].aim), conn[c].who), conn[c].aim, conn[c].who)
<1>1. /\ RoleOf(c) = "app_runtime" /\ conn[c].aim # NONE /\ conn[c].who # NONE
      /\ Plain(conn[c].ctx, conn[c].aim, conn[c].who)
  BY AtRequest DEF BoundByRequest
<1>2. Plain(BindOrg(conn[c].ctx, conn[c].aim), conn[c].aim, conn[c].who)
  BY <1>1, Binds
<1>. QED  BY <1>1, <1>2, Binds

LEMMA LockRecordSession ==
  ASSUME Deployed, Sessions, NEW c \in Connections, LockRecord(c)
  PROVE  /\ Lands(c, {"save", "erase"})
         /\ conn'[c].pc \in {"save", "erase"} =>
              /\ ~RecordLocked(conn[c].aim)
              /\ record[conn[c].aim].live /\ record[conn[c].aim].version = conn[c].expect
              /\ conn'[c].pc = "save" => record[conn[c].aim].version < MaxVersion
<1> DEFINE o == conn[c].aim
           ctx == conn[c].ctx
           rows == RecordRows \cap {Row("record", o)}
           missed == MissedLock(c, ctx, rows)
           found == rows \ missed # {} /\ record[o].version = conn[c].expect
           flags == FlagRows \cap {Row("flag", o)}
           hidden == Missed(c, ctx, "select", flags)
<1>1. conn[c].flow = "api" /\ conn[c].pc = "work" /\ ~RecordLocked(o)
  BY DEF LockRecord, At
<1>2. /\ RoleOf(c) = "app_runtime" /\ o # NONE /\ ctx.org = o /\ Plain(ctx, o, conn[c].who)
  BY <1>1, AtOperation DEF Plain, Has
<1>3. missed = {}
  <2>1. \A r \in rows : r.table \in TenantTables /\ r.org = ctx.org
    BY <1>2, RowFields DEF TenantTables
  <2>. QED  BY <1>2, <2>1, TenantMisses
<1>4. hidden = {}
  <2>1. \A r \in flags : r.table \in TenantTables /\ r.org = ctx.org
    BY <1>2, RowFields DEF TenantTables
  <2>. QED  BY <1>2, <2>1, TenantMisses DEF Commands
<1>5. found => record[o].live
  <2>1. ASSUME rows # {}
        PROVE  record[o].live
    <3>1. PICK p \in Orgs : record[p].live /\ Row("record", p) = Row("record", o)
      BY <2>1 DEF RecordRows
    <3>2. p = o
      BY <3>1, RowFields
    <3>. QED  BY <3>1, <3>2
  <2>. QED  BY <1>3, <2>1
<1> HIDE DEF missed, hidden, rows, flags
<1>6. ASSUME NEW pc \in {"save", "erase"}, Goes(c, pc, ctx, {})
      PROVE  Lands(c, {pc}) /\ conn'[c].pc = pc
  <2>1. BoundByRequest(pc, ctx, conn[c].who, o)
    BY <1>2 DEF BoundByRequest
  <2>2. Lands(c, {pc})
    BY <1>1, <1>6, <2>1, RequestGoes, Nothing
  <2>3. DOMAIN conn = Connections /\ DOMAIN conn[c] = ConnFields
    BY DEF Sessions, EntryOK
  <2>. QED  BY <1>6, <2>2, <2>3, Going DEF Continues
<1>7. ASSUME NEW m \in {missed, missed \cup hidden}, Finishes(c, ctx, m)
      PROVE  Lands(c, {}) /\ conn'[c].pc = "idle"
  <2>1. m = {}
    BY <1>3, <1>4, <1>7
  <2>2. Lands(c, {})
    BY <1>7, <2>1, Ending, Nothing
  <2>. QED  BY <2>2 DEF Lands
<1>8. \/ Goes(c, "save", ctx, {}) /\ found /\ record[o].version < MaxVersion
      \/ Goes(c, "erase", ctx, {}) /\ found
      \/ \E m \in {missed, missed \cup hidden} : Finishes(c, ctx, m)
  BY DEF LockRecord, missed, hidden, rows, flags
<1>9. CASE Goes(c, "save", ctx, {}) /\ found /\ record[o].version < MaxVersion
  BY <1>1, <1>5, <1>6, <1>9 DEF Lands
<1>10. CASE Goes(c, "erase", ctx, {}) /\ found
  BY <1>1, <1>5, <1>6, <1>10 DEF Lands
<1>11. CASE \E m \in {missed, missed \cup hidden} : Finishes(c, ctx, m)
  BY <1>7, <1>11 DEF Lands
<1>. QED  BY <1>8, <1>9, <1>10, <1>11

LEMMA SaveRecordSession ==
  ASSUME Deployed, Sessions, NEW c \in Connections, SaveRecord(c)
  PROVE  Lands(c, {})
<1> DEFINE o == conn[c].aim
           ctx == BindOrg(conn[c].ctx, o)
           missed == Missed(c, conn[c].ctx, "update", {Row("record", o)})
                     \cup Missed(c, ctx, "insert", {Row("record", o), Row("audit", o)})
                     \cup Missed(c, ctx, "select", {Row("record", o)})
<1>1. /\ RoleOf(c) = "app_runtime" /\ o # NONE /\ ctx.org = o /\ conn[c].ctx.org = o
  BY AtOperation DEF SaveRecord, At, Plain, Has
<1> HIDE DEF ctx
<1>2. Row("record", o).table \in TenantTables /\ Row("record", o).org = o
  BY RowFields DEF TenantTables
<1>3. /\ RuntimeAdmits(conn[c].ctx, "update", Row("record", o))
      /\ RuntimeAdmits(ctx, "insert", Row("record", o))
      /\ RuntimeAdmits(ctx, "select", Row("record", o))
  BY <1>1, <1>2, TenantRow DEF Commands
<1>4. RuntimeAdmits(ctx, "insert", Row("audit", o))
  BY <1>1, RowFields, LedgerRow
<1>5. missed = {}
  <2>1. Missed(c, conn[c].ctx, "update", {Row("record", o)}) = {}
    BY <1>1, <1>3, RuntimeSees
  <2>2. Missed(c, ctx, "insert", {Row("record", o), Row("audit", o)}) = {}
    BY <1>1, <1>3, <1>4, RuntimeSees
  <2>3. Missed(c, ctx, "select", {Row("record", o)}) = {}
    BY <1>1, <1>3, RuntimeSees
  <2>. QED  BY <2>1, <2>2, <2>3
<1>6. Finishes(c, ctx, missed)
  BY DEF SaveRecord, ctx
<1>. QED  BY <1>5, <1>6, Ending, Nothing

LEMMA EraseRecordSession ==
  ASSUME Deployed, Sessions, NEW c \in Connections, EraseRecord(c)
  PROVE  Lands(c, {})
<1> DEFINE o == conn[c].aim
           ctx == BindOrg(conn[c].ctx, o)
           missed == Missed(c, conn[c].ctx, "delete", {Row("record", o)})
                     \cup Missed(c, ctx, "insert", {Row("record", o), Row("audit", o)})
<1>1. /\ RoleOf(c) = "app_runtime" /\ o # NONE /\ ctx.org = o /\ conn[c].ctx.org = o
  BY AtOperation DEF EraseRecord, At, Plain, Has
<1> HIDE DEF ctx
<1>2. Row("record", o).table \in TenantTables /\ Row("record", o).org = o
  BY RowFields DEF TenantTables
<1>3. /\ RuntimeAdmits(conn[c].ctx, "delete", Row("record", o))
      /\ RuntimeAdmits(ctx, "insert", Row("record", o))
  BY <1>1, <1>2, TenantRow DEF Commands
<1>4. RuntimeAdmits(ctx, "insert", Row("audit", o))
  BY <1>1, RowFields, LedgerRow
<1>5. missed = {}
  <2>1. Missed(c, conn[c].ctx, "delete", {Row("record", o)}) = {}
    BY <1>1, <1>3, RuntimeSees
  <2>2. Missed(c, ctx, "insert", {Row("record", o), Row("audit", o)}) = {}
    BY <1>1, <1>3, <1>4, RuntimeSees
  <2>. QED  BY <2>1, <2>2
<1>6. Finishes(c, ctx, missed)
  BY DEF EraseRecord, ctx
<1>. QED  BY <1>5, <1>6, Ending, Nothing

LEMMA NotifySession ==
  ASSUME Deployed, Sessions, NEW c \in Connections, Notify(c)
  PROVE  Lands(c, {"refresh"})
<1> DEFINE o == conn[c].aim
           u == conn[c].who
           ctx == BindUser(BindOrg(conn[c].ctx, o), u)
           new == {NotificationRow(o, u), Row("audit", o), OutboxRow(o)}
                  \cup {JobRow(j) : j \in {k \in Jobs : OrgOf[k] = o}}
           missed == Missed(c, ctx, "insert", new)
<1>1. conn[c].flow = "api" /\ conn[c].pc = "work"
  BY DEF Notify, At
<1>2. /\ RoleOf(c) = "app_runtime" /\ o # NONE /\ u # NONE /\ ctx.org = o /\ ctx.user = u
  BY <1>1, AtOperation DEF Plain, Has
<1> HIDE DEF ctx
<1>3. missed = {}
  <2>1. ASSUME NEW r \in new
        PROVE  RuntimeAdmits(ctx, "insert", r)
    <3>1. CASE r = NotificationRow(o, u)
      BY <1>2, <3>1, RowFields, MailRow DEF Commands
    <3>2. CASE r \in {Row("audit", o), OutboxRow(o)}
      BY <1>2, <3>2, RowFields, LedgerRow
    <3>3. CASE r \in {JobRow(j) : j \in {k \in Jobs : OrgOf[k] = o}}
      <4>1. r.table \in TenantTables /\ r.org = ctx.org
        BY <1>2, <3>3, RowFields DEF TenantTables
      <4>. QED  BY <1>2, <4>1, TenantRow DEF Commands
    <3>. QED  BY <3>1, <3>2, <3>3
  <2>. QED  BY <1>2, <2>1, RuntimeSees
<1>4. Goes(c, "refresh", Unset, missed)
  BY Boundary DEF Notify, ctx
<1>5. BoundByRequest("refresh", Unset, u, o)
  BY Boundary DEF BoundByRequest
<1>. QED  BY <1>1, <1>3, <1>4, <1>5, RequestGoes, Nothing

LEMMA RefreshNotificationSession ==
  ASSUME Deployed, Sessions, NEW c \in Connections, RefreshNotification(c)
  PROVE  Lands(c, {})
<1> DEFINE o == conn[c].aim
           u == conn[c].who
           ctx == BindUser(BindOrg(conn[c].ctx, o), u)
           missed == Missed(c, ctx, "select", {NotificationRow(o, u)})
<1>1. conn[c].flow = "api" /\ conn[c].pc = "refresh"
  BY DEF RefreshNotification, At
<1>2. RoleOf(c) = "app_runtime" /\ o # NONE /\ u # NONE /\ Plain(conn[c].ctx, NONE, NONE)
  BY <1>1, AtRequest DEF BoundByRequest
<1>3. ctx.org = o /\ ctx.user = u
  BY <1>2, Binds DEF Plain, Has
<1>4. missed = {}
  BY <1>2, <1>3, MailMisses DEF Commands
<1>. QED  BY <1>4, Ending, Nothing DEF RefreshNotification

-----------------------------------------------------------------------------
(* Operations of the platform plane.                                        *)
LEMMA AtPlatform ==
  ASSUME Deployed, Sessions, NEW c \in Connections, conn[c].flow = "api", conn[c].pc = "operate"
  PROVE  /\ RoleOf(c) = "app_runtime" /\ conn[c].aim # NONE /\ conn[c].ctx.admin
         /\ LET ctx == BindOrg(conn[c].ctx, conn[c].aim) IN
            /\ Has(ctx, conn[c].aim, conn[c].who, NONE, NONE) /\ ctx.org = conn[c].aim
            /\ ~ctx.service
<1>1. /\ RoleOf(c) = "app_runtime" /\ conn[c].aim # NONE
      /\ Has(conn[c].ctx, NONE, conn[c].who, NONE, NONE) /\ conn[c].ctx.admin
      /\ ~conn[c].ctx.service
  BY AtRequest DEF BoundByRequest
<1>2. /\ Has(BindOrg(conn[c].ctx, conn[c].aim), conn[c].aim, conn[c].who, NONE, NONE)
      /\ ~BindOrg(conn[c].ctx, conn[c].aim).service
  BY <1>1, Binding, Flags
<1>. QED  BY <1>1, <1>2 DEF Has

LEMMA FlagRowIsOfTenant ==
  ASSUME NEW o
  PROVE  \A r \in FlagRow(o) \cup {Row("flag", o)} : r.table \in TenantTables /\ r.org = o
BY RowFields DEF FlagRow, TenantTables

LEMMA ListAuditSession ==
  ASSUME Deployed, Sessions, NEW c \in Connections, ListAudit(c)
  PROVE  Lands(c, {})
<1> DEFINE rows == {Row("audit", o) : o \in Orgs \cup {NONE}}
<1>1. RoleOf(c) = "app_runtime" /\ conn[c].ctx.admin
  BY AtPlatform DEF ListAudit, At
<1>2. \A r \in rows : RuntimeAdmits(conn[c].ctx, "select", r)
  BY <1>1, RowFields, LedgerRow
<1>3. Missed(c, conn[c].ctx, "select", rows) = {}
  BY <1>1, <1>2, RuntimeSees
<1>. QED  BY <1>3, Ending, Nothing DEF ListAudit

LEMMA ReadFlagSession ==
  ASSUME Deployed, Sessions, NEW c \in Connections, ReadFlag(c)
  PROVE  Lands(c, {"upsert"})
<1> DEFINE o == conn[c].aim
           ctx == BindOrg(conn[c].ctx, o)
           hidden == Missed(c, ctx, "select", FlagRow(o))
           fresh == IF FlagRow(o) = hidden THEN {o} ELSE {}
<1>1. conn[c].flow = "api" /\ conn[c].pc = "operate" /\ Holds(c, "upsert", ctx, hidden, {}, fresh)
  BY DEF ReadFlag, At
<1>2. /\ RoleOf(c) = "app_runtime" /\ o # NONE /\ Has(ctx, o, conn[c].who, NONE, NONE)
      /\ ctx.org = o /\ ~ctx.service
  BY <1>1, AtPlatform
<1>3. hidden = {}
  BY <1>2, FlagRowIsOfTenant, TenantMisses DEF Commands
<1>4. BoundByRequest("upsert", ctx, conn[c].who, o)
  BY <1>2 DEF BoundByRequest
<1> HIDE DEF fresh, hidden, ctx
<1>. QED  BY <1>1, <1>3, <1>4, RequestGoes, Nothing

LEMMA SetFlagSession ==
  ASSUME Deployed, Sessions, NEW c \in Connections, SetFlag(c)
  PROVE  Lands(c, {"upsert"})
<1> DEFINE o == conn[c].aim
           again == BindOrg(AfterBoundary(conn[c].ctx), o)
           hidden == Missed(c, again, "select", FlagRow(o))
           write == IF conn[c].fresh = {} THEN "update" ELSE "insert"
           missed == Missed(c, conn[c].ctx, write, {Row("flag", o)})
                     \cup Missed(c, conn[c].ctx, "insert", {Row("audit", o)})
<1>1. conn[c].flow = "api" /\ conn[c].pc = "upsert"
  BY DEF SetFlag, At
<1>2. RoleOf(c) = "app_runtime" /\ o # NONE /\ conn[c].ctx.org = o
  BY <1>1, AtRequest DEF BoundByRequest, Has
<1>3. Plain(again, o, NONE) /\ again.org = o
  BY Boundary, Binds DEF Plain, Has
<1>4. hidden = {}
  <2> HIDE DEF again
  <2>. QED  BY <1>2, <1>3, FlagRowIsOfTenant, TenantMisses DEF Commands
<1>5. missed = {}
  <2>1. Missed(c, conn[c].ctx, write, {Row("flag", o)}) = {}
    <3>1. write \in Commands
      BY DEF Commands
    <3>2. \A r \in {Row("flag", o)} : r.table \in TenantTables /\ r.org = conn[c].ctx.org
      BY <1>2, FlagRowIsOfTenant
    <3> HIDE DEF write
    <3>. QED  BY <1>2, <3>1, <3>2, TenantMisses
  <2>2. Missed(c, conn[c].ctx, "insert", {Row("audit", o)}) = {}
    BY <1>2, RowFields, LedgerMisses
  <2>. QED  BY <2>1, <2>2
<1> HIDE DEF missed, hidden, again
<1>6. CASE Holds(c, "upsert", again, hidden, {}, {})
  <2>1. BoundByRequest("upsert", again, conn[c].who, o)
    BY <1>3 DEF BoundByRequest, Plain, Flagless
  <2>. QED  BY <1>1, <1>4, <1>6, <2>1, RequestGoes, Nothing
<1>7. CASE Finishes(c, conn[c].ctx, missed)
  BY <1>5, <1>7, Ending, Nothing
<1>. QED  BY <1>6, <1>7 DEF SetFlag, missed, hidden, again

LEMMA ManageMemberSession ==
  ASSUME Deployed, Sessions, NEW c \in Connections, ManageMember(c)
  PROVE  Lands(c, {"detail"})
<1> DEFINE o == conn[c].aim
           ctx == BindOrg(conn[c].ctx, o)
           row(u) == MembershipRow(u, o)
           grant(u) == [row(u) EXCEPT !.table = "grant"]
           pending(u, becomes) ==
             IF becomes = "active" THEN {}
             ELSE {i \in Invitations : /\ invitation[i] = "sent" /\ InvitedTo[i] = o
                                       /\ InvitedAs[i] = Mailbox[u][mailbox[u]]}
           missed(u, becomes) ==
             Missed(c, ctx, "select", {row(u)})
             \cup (IF becomes = "none" THEN Missed(c, ctx, "delete", {row(u), grant(u)})
                   ELSE MissedUpdate(c, ctx, row(u), row(u)))
             \cup MissedLock(c, ctx, InvitationRows(pending(u, becomes)))
             \cup Missed(c, ctx, "insert", {Row("audit", o)})
<1>1. conn[c].flow = "api" /\ conn[c].pc = "operate"
  BY DEF ManageMember, At
<1>2. RoleOf(c) = "app_runtime" /\ o # NONE /\ ctx.org = o
  BY <1>1, AtPlatform
<1>3. PICK u \in Users, becomes \in {"active", "inactive", "none"} :
        \/ Finishes(c, ctx, missed(u, becomes))
        \/ Holds(c, "detail", AfterBoundary(ctx), missed(u, becomes), {u}, {})
  BY ZenonT(60) DEF ManageMember
<1>4. missed(u, becomes) = {}
  <2> HIDE DEF ctx
  <2>1. /\ row(u).table = "membership" /\ row(u).org = o
        /\ grant(u).table = "grant" /\ grant(u).org = o
    BY RowFields
  <2> HIDE DEF row, grant
  <2>2. /\ Missed(c, ctx, "select", {row(u)}) = {}
        /\ Missed(c, ctx, "delete", {row(u), grant(u)}) = {}
    <3>1. \A r \in {row(u), grant(u)} : r.table \in TenantTables /\ r.org = o
      BY <2>1 DEF TenantTables
    <3>. QED  BY <1>2, <3>1, TenantMisses DEF Commands
  <2>3. MissedUpdate(c, ctx, row(u), row(u)) = {}
    BY <1>2, <2>1, RewriteMisses DEF TenantTables
  <2>4. MissedLock(c, ctx, InvitationRows(pending(u, becomes))) = {}
    <3>1. \A r \in InvitationRows(pending(u, becomes)) : r.table \in TenantTables /\ r.org = o
      BY RowFields DEF InvitationRows, TenantTables
    <3>. QED  BY <1>2, <3>1, TenantMisses
  <2>5. Missed(c, ctx, "insert", {Row("audit", o)}) = {}
    BY <1>2, RowFields, LedgerMisses
  <2>. QED  BY <2>2, <2>3, <2>4, <2>5
<1> HIDE DEF missed, ctx
<1>5. CASE Finishes(c, ctx, missed(u, becomes))
  BY <1>4, <1>5, Ending, Nothing
<1>6. CASE Holds(c, "detail", AfterBoundary(ctx), missed(u, becomes), {u}, {})
  <2>0. AfterBoundary(ctx) = Unset
    BY Boundary
  <2>1. BoundByRequest("detail", Unset, conn[c].who, o)
    BY Boundary DEF BoundByRequest
  <2>. QED  BY <1>1, <1>4, <1>6, <2>0, <2>1, RequestGoes, Nothing
<1>. QED  BY <1>3, <1>5, <1>6

LEMMA MemberDetailSession ==
  ASSUME Deployed, Sessions, NEW c \in Connections, MemberDetail(c)
  PROVE  Lands(c, {})
<1> DEFINE o == conn[c].aim
           ctx == BindOrg(conn[c].ctx, o)
           member == MembershipRows \cap {MembershipRow(u, o) : u \in conn[c].held}
           rows == member \cup {[r EXCEPT !.table = "grant"] : r \in member}
<1>1. conn[c].flow = "api" /\ conn[c].pc = "detail"
  BY DEF MemberDetail, At
<1>2. RoleOf(c) = "app_runtime" /\ o # NONE /\ Plain(conn[c].ctx, NONE, NONE)
  BY <1>1, AtRequest DEF BoundByRequest
<1>3. ctx.org = o
  BY <1>2, Binds DEF Plain, Has
<1>4. \A r \in rows : r.table \in TenantTables /\ r.org = o
  <2>1. \A r \in member : \E u : r = MembershipRow(u, o)
    OBVIOUS
  <2>2. \A r \in member : r.table = "membership" /\ r.org = o
    BY <2>1, RowFields
  <2>3. ASSUME NEW r \in member
        PROVE  LET g == [r EXCEPT !.table = "grant"] IN g.table = "grant" /\ g.org = o
    <3>1. PICK u : r = MembershipRow(u, o)
      BY <2>1
    <3>. QED  BY <3>1, RowFields
  <2> HIDE DEF member
  <2>4. \A r \in {[q EXCEPT !.table = "grant"] : q \in member} :
          r.table \in TenantTables /\ r.org = o
    <3> DEFINE G(q) == [q EXCEPT !.table = "grant"]
    <3>1. \A q \in member : G(q).table = "grant" /\ G(q).org = o
      BY <2>3
    <3> HIDE DEF G
    <3>2. \A r \in {G(q) : q \in member} : r.table \in TenantTables /\ r.org = o
      BY <3>1 DEF TenantTables
    <3>. QED  BY <3>2 DEF G
  <2>. QED  BY <2>2, <2>4 DEF TenantTables
<1>5. Missed(c, ctx, "select", rows) = {}
  <2> HIDE DEF rows, ctx
  <2>. QED  BY <1>2, <1>3, <1>4, TenantMisses DEF Commands
<1>. QED  BY <1>5, Ending, Nothing DEF MemberDetail

-----------------------------------------------------------------------------
(* The steps of a worker's message.                                         *)
LEMMA JobRowIsOfTenant ==
  ASSUME NEW j
  PROVE  /\ JobRow(j).table \in TenantTables \ {"invitation"} /\ JobRow(j).org = OrgOf[j]
         /\ \A s : LET new == [JobRow(j) EXCEPT !.status = s] IN
                   new.table = JobRow(j).table /\ new.org = OrgOf[j]
BY RowFields DEF TenantTables

LEMMA ReadJobSession ==
  ASSUME Deployed, Sessions, NEW c \in Connections, ReadJob(c)
  PROVE  Lands(c, {"claim"})
<1> DEFINE j == conn[c].task
           named == BindJob(conn[c].ctx, j)
           missed == Missed(c, named, "select", {JobRow(j)})
           ctx == BindOrg(ClearJob(named), OrgOf[j])
<1>1. conn[c].flow = "job" /\ conn[c].pc = "read"
  BY DEF ReadJob, At
<1>2. RoleOf(c) = "app_runtime" /\ j # NONE /\ Plain(conn[c].ctx, NONE, NONE)
  BY <1>1, AtWork DEF BoundByJob
<1>3. Has(named, NONE, NONE, j, NONE) /\ Flagless(named)
  BY <1>2, Binding, Flags DEF Plain, Flagless
<1>4. missed = {}
  <2>1. named.job = j
    BY <1>3 DEF Has
  <2>2. RuntimeAdmits(named, "select", JobRow(j))
    BY <1>2, <2>1, RowFields, NamedRow
  <2>. QED  BY <1>2, <2>2, RuntimeSees
<1>5. Plain(ctx, OrgOf[j], NONE)
  <2> HIDE DEF named
  <2>1. Plain(ClearJob(named), NONE, NONE)
    BY <1>3, Binding, Flags DEF Plain, Flagless
  <2>. QED  BY <2>1, Binds
<1> HIDE DEF missed, ctx
<1>6. Goes(c, "claim", ctx, {})
  BY <1>4 DEF ReadJob, missed, ctx
<1>7. BoundByJob("claim", ctx, j)
  BY <1>5 DEF BoundByJob
<1>. QED  BY <1>1, <1>6, <1>7, OtherGoes, Nothing

LEMMA ClaimJobSession ==
  ASSUME Deployed, Sessions, NEW c \in Connections, ClaimJob(c)
  PROVE  /\ Lands(c, {"handle"})
         /\ conn'[c].pc = "handle" => /\ job[conn[c].task] = "queued"
                                      /\ job' = [job EXCEPT ![conn[c].task] = "running"]
         /\ conn'[c].pc # "handle" => UNCHANGED job
<1> DEFINE j == conn[c].task
           ctx == conn[c].ctx
           missed == MissedLock(c, ctx, {JobRow(j)})
                     \cup MissedUpdate(c, ctx, JobRow(j), [JobRow(j) EXCEPT !.status = "running"])
           after == BindOrg(AfterBoundary(ctx), OrgOf[j])
<1>1. conn[c].flow = "job" /\ conn[c].pc = "claim"
  BY DEF ClaimJob, At
<1>2. RoleOf(c) = "app_runtime" /\ OrgOf[j] # NONE /\ ctx.org = OrgOf[j]
  BY <1>1, AtWork DEF BoundByJob, Plain, Has
<1>3. missed = {}
  <2>1. MissedLock(c, ctx, {JobRow(j)}) = {}
    <3>1. \A r \in {JobRow(j)} : r.table \in TenantTables /\ r.org = ctx.org
      BY <1>2, JobRowIsOfTenant
    <3>. QED  BY <1>2, <3>1, TenantMisses
  <2>2. MissedUpdate(c, ctx, JobRow(j), [JobRow(j) EXCEPT !.status = "running"]) = {}
    BY <1>2, JobRowIsOfTenant, RewriteMisses
  <2>. QED  BY <2>1, <2>2
<1>4. Plain(after, OrgOf[j], NONE)
  BY Boundary, Binds
<1> HIDE DEF missed, after
<1>5. CASE Goes(c, "handle", after, {}) /\ job[j] = "queued" /\ job' = [job EXCEPT ![j] = "running"]
  <2>1. BoundByJob("handle", after, j)
    BY <1>4 DEF BoundByJob
  <2>2. Lands(c, {"handle"})
    BY <1>1, <1>5, <2>1, OtherGoes, Nothing
  <2>3. DOMAIN conn = Connections /\ DOMAIN conn[c] = ConnFields
    BY DEF Sessions, EntryOK
  <2>4. conn'[c].pc = "handle"
    BY <1>5, <2>3, Going DEF Continues
  <2>. QED  BY <1>5, <2>2, <2>4
<1>6. CASE Finishes(c, ctx, missed) /\ UNCHANGED job
  <2>1. Lands(c, {})
    BY <1>3, <1>6, Ending, Nothing
  <2>. QED  BY <1>6, <2>1 DEF Lands
<1>. QED  BY <1>5, <1>6 DEF ClaimJob, missed, after

LEMMA HandleJobSession ==
  ASSUME Deployed, Sessions, NEW c \in Connections, HandleJob(c)
  PROVE  Lands(c, {"settle"})
<1> DEFINE j == conn[c].task
           o == OrgOf[j]
           u == RecipientOf[j]
           ctx == BindUser(BindOrg(conn[c].ctx, o), u)
           again == BindJob(ctx, j)
           mail == {NotificationRow(o, u)}
           missed == Missed(c, ctx, "select", mail) \cup Missed(c, ctx, "update", mail)
                     \cup Missed(c, again, "select", {JobRow(j)})
<1>1. conn[c].flow = "job" /\ conn[c].pc = "handle"
  BY DEF HandleJob, At
<1>2. RoleOf(c) = "app_runtime" /\ o # NONE /\ u # NONE /\ Plain(conn[c].ctx, o, NONE)
  BY <1>1, AtWork DEF BoundByJob
<1>3. Plain(ctx, o, u) /\ ctx.org = o /\ ctx.user = u
  <2>1. Plain(ctx, o, u)
    BY <1>2, Binds
  <2> HIDE DEF ctx
  <2>. QED  BY <2>1 DEF Plain, Has
<1> HIDE DEF ctx
<1>4. Has(again, o, u, j, NONE) /\ Flagless(again) /\ again.org = o
  BY <1>3, Binding, Flags DEF Plain, Flagless, Has
<1> HIDE DEF again
<1>5. missed = {}
  <2>1. Missed(c, ctx, "select", mail) = {} /\ Missed(c, ctx, "update", mail) = {}
    BY <1>2, <1>3, MailMisses DEF Commands
  <2>2. \A r \in {JobRow(j)} : r.table \in TenantTables /\ r.org = again.org
    BY <1>4, JobRowIsOfTenant
  <2>3. Missed(c, again, "select", {JobRow(j)}) = {}
    BY <1>2, <1>4, <2>2, TenantMisses DEF Commands
  <2>. QED  BY <2>1, <2>3
<1>6. Goes(c, "settle", again, missed)
  BY DEF HandleJob, ctx, again
<1>7. BoundByJob("settle", again, j)
  BY <1>4 DEF BoundByJob
<1>. QED  BY <1>1, <1>5, <1>6, <1>7, OtherGoes, Nothing

LEMMA SettleJobSession ==
  ASSUME Deployed, Sessions, NEW c \in Connections, SettleJob(c)
  PROVE  Lands(c, {})
<1> DEFINE j == conn[c].task
           o == OrgOf[j]
           u == RecipientOf[j]
           ctx == BindOrg(ClearJob(conn[c].ctx), o)
           after == BindOrg(AfterBoundary(ctx), o)
           both == BindUser(ctx, u)
           mail == NotificationRow(o, u)
           missed(s) == MissedLock(c, ctx, {JobRow(j)})
                        \cup MissedUpdate(c, ctx, JobRow(j), [JobRow(j) EXCEPT !.status = s])
                        \cup MissedUpdate(c, both, mail, mail)
                        \cup Missed(c, ctx, "insert", {Row("audit", o)})
                        \cup Missed(c, after, "select", {JobRow(j)})
<1>1. conn[c].flow = "job" /\ conn[c].pc = "settle"
  BY DEF SettleJob, At
<1>2. /\ RoleOf(c) = "app_runtime" /\ o # NONE /\ u # NONE
      /\ Has(conn[c].ctx, o, u, j, NONE) /\ Flagless(conn[c].ctx)
  BY <1>1, AtWork DEF BoundByJob
<1>3. PICK s \in {"succeeded", "failed"} : Finishes(c, after, missed(s))
  BY Zenon DEF SettleJob
<1>4. Plain(after, o, NONE) /\ after.org = o
  <2>1. Plain(after, o, NONE)
    BY Boundary, Binds
  <2> HIDE DEF after
  <2>. QED  BY <2>1 DEF Plain, Has
<1>5. Plain(ctx, o, u) /\ ctx.org = o
  <2>1. Plain(ClearJob(conn[c].ctx), o, u)
    BY <1>2, Binding, Flags DEF Plain, Flagless
  <2>2. Plain(ctx, o, u)
    BY <2>1, Binds
  <2> HIDE DEF ctx
  <2>. QED  BY <2>2 DEF Plain, Has
<1> HIDE DEF ctx, after
<1>6. both.org = o /\ both.user = u
  BY <1>5, Binds DEF Plain, Has
<1> HIDE DEF both
<1>7. missed(s) = {}
  <2>1. MissedUpdate(c, both, mail, mail) = {}
    BY <1>2, <1>6, MailMisses DEF Commands
  <2>2. \A r \in {JobRow(j)} : r.table \in TenantTables /\ r.org = o
    BY JobRowIsOfTenant
  <2>3. /\ MissedLock(c, ctx, {JobRow(j)}) = {}
        /\ Missed(c, after, "select", {JobRow(j)}) = {}
    BY <1>2, <1>4, <1>5, <2>2, TenantMisses DEF Commands
  <2>4. MissedUpdate(c, ctx, JobRow(j), [JobRow(j) EXCEPT !.status = s]) = {}
    BY <1>2, <1>5, JobRowIsOfTenant, RewriteMisses
  <2>5. Missed(c, ctx, "insert", {Row("audit", o)}) = {}
    BY <1>2, <1>5, RowFields, LedgerMisses
  <2>. QED  BY <2>1, <2>3, <2>4, <2>5
<1>. QED  BY <1>3, <1>7, Ending, Nothing

-----------------------------------------------------------------------------
(* The coordinator's settlement of a dead event, under its own policies.    *)
LEMMA LockJobSession ==
  ASSUME Deployed, Sessions, NEW c \in Connections, LockJob(c)
  PROVE  /\ Lands(c, {"settled"})
         /\ conn'[c].pc = "settled" => job[conn[c].task] = "queued" /\ ~JobLocked(conn[c].task)
<1> DEFINE j == conn[c].task
           rows == {JobRow(j)} \cap {JobRow(k) : k \in {l \in Jobs : job[l] = "queued"}}
           missed == MissedLock(c, conn[c].ctx, rows)
           ctx == BindUser(BindOrg(conn[c].ctx, OrgOf[j]), RecipientOf[j])
<1>1. conn[c].flow = "dead" /\ conn[c].pc = "lock" /\ ~JobLocked(j)
  BY DEF LockJob, At
<1>2. RoleOf(c) = "app_coordinator" /\ Plain(conn[c].ctx, NONE, NONE)
  BY <1>1, AtWork DEF BoundByDeadEvent
<1>3. missed = {}
  <2>1. ASSUME NEW r \in rows
        PROVE  Lockable("app_coordinator", conn[c].ctx, r)
    <3>1. PICK k : r = JobRow(k) /\ job[k] = "queued"
      OBVIOUS
    <3>2. r.table = "job" /\ r.status = "queued" /\ r.dispatched
      BY <3>1, RowFields
    <3>. QED  BY <3>2 DEF Lockable, Using, CoordinatorUsing
  <2>. QED  BY <1>2, <2>1 DEF MissedLock
<1>4. Plain(ctx, OrgOf[j], RecipientOf[j])
  BY <1>2, Binds
<1> HIDE DEF missed, ctx
<1>5. CASE Goes(c, "settled", ctx, {}) /\ job[j] = "queued"
  <2>1. BoundByDeadEvent("settled", ctx, j)
    BY <1>4 DEF BoundByDeadEvent
  <2>. QED  BY <1>1, <1>5, <2>1, OtherGoes, Nothing
<1>6. CASE Finishes(c, conn[c].ctx, missed)
  <2>1. Lands(c, {})
    BY <1>3, <1>6, Ending, Nothing
  <2>. QED  BY <2>1 DEF Lands
<1>. QED  BY <1>5, <1>6 DEF LockJob, missed, ctx

LEMMA FailJobSession ==
  ASSUME Deployed, Sessions, Settlements, NEW c \in Connections, FailJob(c)
  PROVE  Lands(c, {})
<1> DEFINE j == conn[c].task
           o == OrgOf[j]
           u == RecipientOf[j]
           ctx == conn[c].ctx
           mail == NotificationRow(o, u)
           new == [JobRow(j) EXCEPT !.status = "failed"]
           missed == MissedUpdate(c, ctx, JobRow(j), new)
                     \cup Missed(c, ctx, "insert", {Row("audit", o)})
                     \cup MissedUpdate(c, ctx, mail, mail)
<1>1. conn[c].flow = "dead" /\ conn[c].pc = "settled"
  BY DEF FailJob, At
<1>2. /\ RoleOf(c) = "app_coordinator" /\ o # NONE /\ u # NONE
      /\ ctx.org = o /\ ctx.user = u /\ job[j] = "queued"
  BY <1>1, AtWork DEF BoundByDeadEvent, Plain, Has, Settlements, Settles
<1>3. MissedUpdate(c, ctx, JobRow(j), new) = {}
  <2>1. /\ JobRow(j).table = "job" /\ JobRow(j).status = "queued" /\ JobRow(j).org = o
        /\ new.table = "job" /\ new.status = "failed" /\ new.org = o
    BY <1>2, RowFields
  <2> HIDE DEF new
  <2>. QED  BY <1>2, <2>1 DEF MissedUpdate, MayRewrite, Using, Check, ColumnsGranted,
               CoordinatorUsing, CoordinatorCheck
<1>4. Missed(c, ctx, "insert", {Row("audit", o)}) = {}
  <2>1. Row("audit", o).table = "audit" /\ Row("audit", o).org = o
    BY RowFields
  <2>. QED  BY <1>2, <2>1 DEF Missed, Admits, Check, CoordinatorCheck, SameTenant
<1>5. MissedUpdate(c, ctx, mail, mail) = {}
  <2>1. mail.table = "notification" /\ mail.org = o /\ mail.user = u
    BY RowFields
  <2> HIDE DEF mail
  <2>. QED  BY <1>2, <2>1 DEF MissedUpdate, MayRewrite, Using, Check, ColumnsGranted,
               CoordinatorUsing, CoordinatorCheck, NotificationPolicy, SameTenant, SameUser
<1>6. Finishes(c, ctx, missed)
  BY DEF FailJob
<1>. QED  BY <1>3, <1>4, <1>5, <1>6, Ending, Nothing

-----------------------------------------------------------------------------
(* The webhooks.                                                            *)
LEMMA ReadInvitationSession ==
  ASSUME Deployed, Sessions, NEW c \in Connections, ReadInvitation(c)
  PROVE  Lands(c, {"revoke"})
<1> DEFINE i == conn[c].task
           ctx == BindInvitation(conn[c].ctx, i)
           missed == MissedLock(c, ctx, {InvitationRow(i)})
           both == BindOrg(ctx, InvitedTo[i])
<1>1. conn[c].flow = "revoked" /\ conn[c].pc = "read"
  BY DEF ReadInvitation, At
<1>2. RoleOf(c) = "app_runtime" /\ i # NONE /\ Plain(conn[c].ctx, NONE, NONE)
  BY <1>1, AtWork DEF BoundByRevocation
<1>3. Has(ctx, NONE, NONE, NONE, i) /\ Flagless(ctx) /\ ctx.invitation = i
  BY <1>2, Binding, Flags DEF Plain, Flagless, Has
<1> HIDE DEF ctx
<1>4. missed = {}
  <2>1. \A cmd \in {"select", "update"} : RuntimeAdmits(ctx, cmd, InvitationRow(i))
    BY <1>2, <1>3, RowFields, NamedRow
  <2>. QED  BY <1>2, <2>1, RuntimeLocks
<1>5. Has(both, InvitedTo[i], NONE, NONE, i) /\ Flagless(both)
  BY <1>3, Binding, Flags DEF Flagless
<1> HIDE DEF missed, both
<1>6. CASE Holds(c, "revoke", both, {}, {i}, {})
  <2>1. BoundByRevocation("revoke", both, i)
    BY <1>5 DEF BoundByRevocation
  <2>. QED  BY <1>1, <1>6, <2>1, OtherGoes, Nothing
<1>7. CASE Finishes(c, ctx, missed)
  BY <1>4, <1>7, Ending, Nothing
<1>. QED  BY <1>6, <1>7 DEF ReadInvitation, missed, both, ctx

LEMMA RevokeInvitationSession ==
  ASSUME Deployed, Sessions, NEW c \in Connections, RevokeInvitation(c)
  PROVE  Lands(c, {})
<1> DEFINE i == conn[c].task
           ctx == conn[c].ctx
           missed == Missed(c, ctx, "update", {InvitationRow(i)})
                     \cup Missed(c, ctx, "insert", {Row("audit", InvitedTo[i])})
<1>1. conn[c].flow = "revoked" /\ conn[c].pc = "revoke" /\ Finishes(c, ctx, missed)
  BY DEF RevokeInvitation, At
<1>2. RoleOf(c) = "app_runtime" /\ InvitedTo[i] # NONE /\ ctx.org = InvitedTo[i]
  BY <1>1, AtWork DEF BoundByRevocation, Has
<1>3. Missed(c, ctx, "update", {InvitationRow(i)}) = {}
  <2>1. \A r \in {InvitationRow(i)} : r.table \in TenantTables /\ r.org = ctx.org
    BY <1>2, RowFields DEF TenantTables
  <2>. QED  BY <1>2, <2>1, TenantMisses DEF Commands
<1>4. Missed(c, ctx, "insert", {Row("audit", InvitedTo[i])}) = {}
  BY <1>2, RowFields, LedgerMisses
<1>. QED  BY <1>1, <1>3, <1>4, Ending, Nothing

LEMMA LockUserSession ==
  ASSUME Deployed, Sessions, NEW c \in Connections, LockUser(c)
  PROVE  Lands(c, {"deactivate"})
<1> DEFINE ctx == BindService(conn[c].ctx)
<1>1. conn[c].flow = "deleted" /\ conn[c].pc = "lock" /\ Goes(c, "deactivate", ctx, {})
  BY DEF LockUser, At
<1>2. Plain(conn[c].ctx, NONE, NONE)
  BY <1>1, AtWork DEF BoundByDeletion
<1>3. BoundByDeletion("deactivate", ctx)
  BY <1>2, Binding, Flags DEF BoundByDeletion, Plain, Flagless
<1>. QED  BY <1>1, <1>3, OtherGoes, Nothing

LEMMA DeactivateSession ==
  ASSUME Deployed, Sessions, NEW c \in Connections, Deactivate(c)
  PROVE  Lands(c, {})
<1> DEFINE ctx == conn[c].ctx
           rows == {PlatformRow(u) : u \in platform}
<1>1. conn[c].flow = "deleted" /\ conn[c].pc = "deactivate"
  BY DEF Deactivate, At
<1>2. RoleOf(c) = "app_runtime" /\ ctx.service
  BY <1>1, AtWork DEF BoundByDeletion
<1>3. Missed(c, ctx, "select", rows) = {}
  <2>1. \A r \in rows : r.table \in {"platform", "sentinel"}
    BY RowFields
  <2>. QED  BY <1>2, <2>1, ServiceMisses
<1>4. Missed(c, ctx, "insert", {Row("audit", NONE)}) = {}
  BY <1>2, RowFields, LedgerMisses
<1>5. Finishes(c, ctx, {})
  BY <1>3, <1>4 DEF Deactivate
<1>. QED  BY <1>5, Ending, Nothing

-----------------------------------------------------------------------------
(* The start of a request, a message or a webhook.                          *)
Begins(c) == Alone(c) /\ EntryOK(c, conn'[c]) /\ conn'[c].pc \in {"provision", "read", "lock"}

LEMMA StartSession ==
  ASSUME Deployed, Sessions, NEW c \in Connections,
         Request(c) \/ Message(c) \/ DeadEvent(c) \/ InvitationRevoked(c) \/ UserDeleted(c)
  PROVE  Begins(c)
<1>1. CASE Request(c)
  <2>1. PICK u \in Users, o \in Orgs, plane \in {"organisation", "platform"} :
          /\ ProcessOf[c] = "api"
          /\ Starts(c, [Free EXCEPT !.flow = "api", !.pc = "provision", !.who = u, !.aim = o,
                                    !.task = plane, !.expect = record[o].version])
    BY <1>1 DEF Request
  <2> DEFINE entry == [Free EXCEPT !.flow = "api", !.pc = "provision", !.who = u, !.aim = o,
                                   !.task = plane, !.expect = record[o].version]
  <2>2. /\ DOMAIN entry = ConnFields /\ entry.missed = {} /\ entry.flow = "api"
        /\ entry.pc = "provision" /\ entry.who = u /\ entry.aim = o
    BY DEF Free, ConnFields
  <2> HIDE DEF entry
  <2>3. Starts(c, entry)
    BY <2>1 DEF entry
  <2>. QED  BY <2>1, <2>2, <2>3, Beginning DEF Begins
<1>2. CASE Message(c) \/ DeadEvent(c)
  <2>1. PICK j \in Jobs, k \in {<<"job", "read", "worker">>, <<"dead", "lock", "coordinator">>} :
          /\ ProcessOf[c] = k[3]
          /\ Starts(c, [Free EXCEPT !.flow = k[1], !.pc = k[2], !.task = j])
    BY <1>2 DEF Message, DeadEvent
  <2> DEFINE entry == [Free EXCEPT !.flow = k[1], !.pc = k[2], !.task = j]
  <2>2. /\ DOMAIN entry = ConnFields /\ entry.missed = {} /\ entry.flow = k[1]
        /\ entry.pc = k[2] /\ entry.task = j
    BY DEF Free, ConnFields
  <2> HIDE DEF entry
  <2>3. Starts(c, entry)
    BY <2>1 DEF entry
  <2>. QED  BY <2>1, <2>2, <2>3, Beginning DEF Begins
<1>3. CASE InvitationRevoked(c)
  <2>1. PICK i \in Invitations :
          /\ ProcessOf[c] = "api"
          /\ Starts(c, [Free EXCEPT !.flow = "revoked", !.pc = "read", !.task = i])
    BY <1>3 DEF InvitationRevoked
  <2> DEFINE entry == [Free EXCEPT !.flow = "revoked", !.pc = "read", !.task = i]
  <2>2. /\ DOMAIN entry = ConnFields /\ entry.missed = {} /\ entry.flow = "revoked"
        /\ entry.pc = "read" /\ entry.task = i
    BY DEF Free, ConnFields
  <2> HIDE DEF entry
  <2>3. Starts(c, entry)
    BY <2>1 DEF entry
  <2>. QED  BY <2>1, <2>2, <2>3, Beginning DEF Begins
<1>4. CASE UserDeleted(c)
  <2>1. PICK u \in Users :
          /\ ProcessOf[c] = "api"
          /\ Starts(c, [Free EXCEPT !.flow = "deleted", !.pc = "lock", !.who = u])
    BY <1>4 DEF UserDeleted
  <2> DEFINE entry == [Free EXCEPT !.flow = "deleted", !.pc = "lock", !.who = u]
  <2>2. /\ DOMAIN entry = ConnFields /\ entry.missed = {} /\ entry.flow = "deleted"
        /\ entry.pc = "lock" /\ entry.who = u
    BY DEF Free, ConnFields
  <2> HIDE DEF entry
  <2>3. Starts(c, entry)
    BY <2>1 DEF entry
  <2>. QED  BY <2>1, <2>2, <2>3, Beginning DEF Begins
<1>. QED  BY <1>1, <1>2, <1>3, <1>4

-----------------------------------------------------------------------------
(* What a step of connection c keeps of the invariant, part by part, by     *)
(* where it leaves c.                                                       *)
Fixed == UNCHANGED <<deployment, serving>>
Arrives(c, points) == Alone(c) /\ EntryOK(c, conn'[c]) /\ conn'[c].pc \in points \cup {"idle"}

LEMMA Landing ==
  ASSUME NEW c, NEW points
  PROVE  /\ Lands(c, points) => Arrives(c, points)
         /\ Begins(c) => Arrives(c, {"provision", "read", "lock"})
BY DEF Lands, Begins, Arrives

LEMMA SessionsKept ==
  ASSUME Deployed, Sessions, Fixed, NEW c \in Connections, NEW points, Arrives(c, points)
  PROVE  Deployed' /\ Sessions'
<1>1. Deployed'
  BY DEF Deployed, Fixed
<1>2. DOMAIN conn' = Connections
  BY DEF Arrives, Alone
<1>3. ASSUME NEW d \in Connections
      PROVE  EntryOK(d, conn[d])'
  <2>1. EntryOK(d, conn'[d])
    BY DEF Sessions, Arrives, Alone
  <2>. QED  BY <2>1 DEF Fixed, EntryOK, Employs, BoundAt, BoundByRequest, Home
<1>. QED  BY <1>1, <1>2, <1>3 DEF Sessions

(* The settings of a tenant or of the platform come with a right to them.   *)
Rightful(c) ==
  LET e == conn'[c] s == standing[c] IN
  /\ e.flow = "api" /\ e.pc \in {"work", "save", "erase"} =>
       e.aim \in s.orgs \/ membership[<<e.who, e.aim>>] = "active"
  /\ e.flow = "api" /\ e.pc \in {"operate", "upsert"} =>
       (e.aim \in s.orgs /\ s.admin) \/ (e.task = "platform" /\ e.who \in platform)

LEMMA Entitling ==
  ASSUME NEW e, NEW past, e.flow # "idle"
  PROVE  LET s == Entitled(e, past) IN
         /\ past.orgs \subseteq s.orgs /\ (past.admin => s.admin)
         /\ e.flow = "api" => \A o \in Orgs : membership[<<e.who, o>>] = "active" => o \in s.orgs
         /\ e.flow = "api" /\ e.task = "platform" /\ e.who \in platform
              => e.aim \in s.orgs /\ s.admin
         /\ e.flow \in {"job", "dead"} => OrgOf[e.task] \in s.orgs
         /\ e.flow = "revoked" => InvitedTo[e.task] \in s.orgs
<1> DEFINE administers == e.flow = "api" /\ e.task = "platform" /\ e.who \in platform
           of == CASE e.flow = "api" ->
                        {o \in Orgs : membership[<<e.who, o>>] = "active"}
                        \cup (IF administers THEN {e.aim} ELSE {})
                   [] e.flow \in {"job", "dead"} -> {OrgOf[e.task]}
                   [] e.flow = "revoked" -> {InvitedTo[e.task]}
                   [] OTHER -> {}
           s == Entitled(e, past)
<1>1. s = [orgs |-> past.orgs \cup of, admin |-> past.admin \/ administers]
  BY Zenon DEF Entitled
<1>2. s.orgs = past.orgs \cup of
  <2> HIDE DEF of, administers, s
  <2>. QED  BY <1>1
<1>3. s.admin <=> past.admin \/ administers
  <2> HIDE DEF of, administers, s
  <2>. QED  BY <1>1
<1> HIDE DEF s
<1>4. /\ past.orgs \subseteq s.orgs
      /\ e.flow = "api" => \A o \in Orgs : membership[<<e.who, o>>] = "active" => o \in s.orgs
      /\ administers => e.aim \in s.orgs
      /\ e.flow \in {"job", "dead"} => OrgOf[e.task] \in s.orgs
      /\ e.flow = "revoked" => InvitedTo[e.task] \in s.orgs
  BY <1>2
<1>5. (past.admin => s.admin) /\ (administers => s.admin)
  BY <1>3, Zenon
<1>6. s = Entitled(e, past)
  BY DEF s
<1> HIDE DEF of
<1>. QED  BY <1>4, <1>5, <1>6, Zenon

LEMMA StandingsKept ==
  ASSUME Standings, Notice, NEW c \in Connections, NEW points, Arrives(c, points), Rightful(c)
  PROVE  Standings'
<1> SUFFICES ASSUME NEW d \in Connections
             PROVE  Entitles(d)'
  BY DEF Standings
<1> DEFINE e == conn'[d]
<1>1. standing'[d] = Entitled(e, standing[d])
  BY DEF Notice
<1>2. CASE e.flow = "idle"
  BY <1>2 DEF Entitles
<1>3. CASE e.flow # "idle" /\ d = c
  <2>1. Concerns(e)
    BY <1>3 DEF Arrives, EntryOK
  <2>. QED  BY <1>1, <1>3, <2>1, Entitling DEF Entitles, Rightful, Concerns
<1>4. CASE e.flow # "idle" /\ d # c
  <2>1. e = conn[d] /\ Entitles(d)
    BY <1>4 DEF Arrives, Alone, Standings
  <2>. QED  BY <1>1, <1>4, <2>1, Entitling DEF Entitles
<1>. QED  BY <1>2, <1>3, <1>4

LEMMA EditorsKept ==
  ASSUME Histories, Editors, UNCHANGED <<record, revisions>>, NEW c \in Connections, NEW points,
         Arrives(c, points), points \cap {"save", "erase"} = {}
  PROVE  Histories' /\ Editors'
<1>1. Histories'
  BY DEF Histories
<1>2. \A d \in Connections : Edits(d)' => d # c /\ conn'[d] = conn[d] /\ Edits(d)
  BY DEF Arrives, Alone, Edits
<1>3. Editors'
  BY <1>2 DEF Editors
<1>. QED  BY <1>1, <1>3

LEMMA SettlementsKept ==
  ASSUME Settlements, UNCHANGED job, NEW c \in Connections, NEW points,
         Arrives(c, points), points \cap {"handle", "settle", "settled"} = {}
  PROVE  Settlements'
<1>1. \A d \in Connections : conn'[d].pc \in {"handle", "settle", "settled"} => conn'[d] = conn[d]
  BY DEF Arrives, Alone
<1>. QED  BY <1>1 DEF Settlements, Settles

-----------------------------------------------------------------------------
(* Steps that touch neither a record nor a job and leave the connection     *)
(* where it holds no lock and no right of a tenant.                         *)
Held == {"work", "save", "erase", "operate", "upsert", "handle", "settle", "settled"}

LEMMA Quietly ==
  ASSUME IInv, Fixed, Notice, UNCHANGED <<record, revisions, job>>,
         NEW c \in Connections, NEW points, points \cap Held = {}, Arrives(c, points)
  PROVE  IInv'
<1> USE DEF IInv, Held
<1>1. Rightful(c)
  BY DEF Rightful, Arrives
<1>. QED  BY <1>1, SessionsKept, StandingsKept, EditorsKept, SettlementsKept

LEMMA QuietSteps ==
  ASSUME IInv, NEW c \in Connections,
         \/ Request(c) \/ Message(c) \/ DeadEvent(c) \/ InvitationRevoked(c) \/ UserDeleted(c)
         \/ Provision(c) \/ Bootstrap(c) \/ BootstrapGrant(c) \/ BootstrapAgain(c)
         \/ Link(c) \/ Relock(c) \/ Accept(c) \/ Notify(c) \/ RefreshNotification(c)
         \/ ListAudit(c) \/ ManageMember(c) \/ MemberDetail(c) \/ ReadJob(c)
         \/ ReadInvitation(c) \/ RevokeInvitation(c) \/ LockUser(c) \/ Deactivate(c)
  PROVE  IInv'
<1>1. Deployed /\ Sessions
  BY DEF IInv
<1> DEFINE quiet == {"provision", "read", "lock", "bootstrap", "link", "grant", "regrant",
                     "relock", "authorise", "accept", "refresh", "detail", "claim", "revoke",
                     "deactivate"}
<1>2. /\ Fixed /\ Notice /\ UNCHANGED <<record, revisions, job>>
  <2>1. CASE Request(c) \/ Message(c) \/ DeadEvent(c) \/ InvitationRevoked(c) \/ UserDeleted(c)
    BY <2>1 DEF Request, Message, DeadEvent, InvitationRevoked, UserDeleted, Starts, database, Fixed
  <2>2. CASE Provision(c) \/ Bootstrap(c) \/ BootstrapGrant(c) \/ BootstrapAgain(c)
             \/ Link(c) \/ Relock(c) \/ Accept(c)
    BY <2>2 DEF Provision, Bootstrap, BootstrapGrant, BootstrapAgain, Link, Relock, Accept,
       Same, database, Fixed
  <2>3. CASE Notify(c) \/ RefreshNotification(c) \/ ListAudit(c) \/ ManageMember(c)
             \/ MemberDetail(c)
    BY <2>3 DEF Notify, RefreshNotification, ListAudit, ManageMember, MemberDetail, Same,
       database, Fixed
  <2>4. CASE ReadJob(c) \/ ReadInvitation(c) \/ RevokeInvitation(c) \/ LockUser(c) \/ Deactivate(c)
    BY <2>4 DEF ReadJob, ReadInvitation, RevokeInvitation, LockUser, Deactivate, Same,
       database, Fixed
  <2>. QED  BY <2>1, <2>2, <2>3, <2>4
<1>3. \A points : points \subseteq quiet /\ (Lands(c, points) \/ Begins(c)) => Arrives(c, quiet)
  BY DEF Lands, Begins, Arrives
<1>4. Arrives(c, quiet)
  <2>1. CASE Request(c) \/ Message(c) \/ DeadEvent(c) \/ InvitationRevoked(c) \/ UserDeleted(c)
    BY <1>1, <1>3, <2>1, StartSession
  <2>2. CASE Provision(c) \/ Bootstrap(c) \/ BootstrapGrant(c) \/ BootstrapAgain(c)
    <3>1. \/ Lands(c, {"bootstrap"}) \/ Lands(c, {"link", "grant"})
          \/ Lands(c, {"regrant", "link"}) \/ Lands(c, {"link"})
      BY <1>1, <2>2, ProvisionSession, BootstrapSession, BootstrapGrantSession,
         BootstrapAgainSession
    <3>. QED  BY <1>3, <3>1
  <2>3. CASE Link(c) \/ Relock(c) \/ Accept(c)
    <3>1. \/ Lands(c, {"authorise", "relock"}) \/ Lands(c, {"authorise", "accept"})
          \/ Lands(c, {"authorise", "link"})
      BY <1>1, <2>3, LinkSession, RelockSession, AcceptSession
    <3>. QED  BY <1>3, <3>1
  <2>4. CASE Notify(c) \/ ManageMember(c)
    <3>1. Lands(c, {"refresh"}) \/ Lands(c, {"detail"})
      BY <1>1, <2>4, NotifySession, ManageMemberSession
    <3>. QED  BY <1>3, <3>1
  <2>5. CASE RefreshNotification(c) \/ ListAudit(c) \/ MemberDetail(c) \/ RevokeInvitation(c)
             \/ Deactivate(c)
    <3>1. Lands(c, {})
      BY <1>1, <2>5, RefreshNotificationSession, ListAuditSession, MemberDetailSession,
         RevokeInvitationSession, DeactivateSession
    <3>. QED  BY <1>3, <3>1
  <2>6. CASE ReadJob(c) \/ ReadInvitation(c) \/ LockUser(c)
    <3>1. Lands(c, {"claim"}) \/ Lands(c, {"revoke"}) \/ Lands(c, {"deactivate"})
      BY <1>1, <2>6, ReadJobSession, ReadInvitationSession, LockUserSession
    <3>. QED  BY <1>3, <3>1
  <2>. QED  BY <2>1, <2>2, <2>3, <2>4, <2>5, <2>6
<1>5. quiet \cap Held = {}
  BY DEF Held
<1> HIDE DEF quiet
<1>. QED  BY <1>2, <1>4, <1>5, Quietly

(* The two planes: the right comes from the row the step has just read.     *)
LEMMA OrganisationPlaneRights ==
  ASSUME Deployed, Sessions, NEW c \in Connections, OrganisationPlane(c)
  PROVE  conn'[c].pc = "work" => membership[<<conn[c].who, conn[c].aim>>] = "active"
<1>1. DOMAIN conn = Connections /\ DOMAIN conn[c] = ConnFields
  BY DEF Sessions, EntryOK
<1>2. \A ctx, missed : Finishes(c, ctx, missed) => conn'[c].pc = "idle"
  BY <1>1, Finishing
<1>. QED  BY <1>2 DEF OrganisationPlane

LEMMA PlatformPlaneRights ==
  ASSUME Deployed, Sessions, NEW c \in Connections, PlatformPlane(c)
  PROVE  conn'[c].pc = "operate" => conn[c].task = "platform" /\ conn[c].who \in platform
<1>1. DOMAIN conn = Connections /\ DOMAIN conn[c] = ConnFields
  BY DEF Sessions, EntryOK
<1>2. \A ctx, missed : Finishes(c, ctx, missed) => conn'[c].pc = "idle"
  BY <1>1, Finishing
<1>3. {PlatformRow(v) : v \in platform \cap {conn[c].who}} # {} => conn[c].who \in platform
  OBVIOUS
<1>. QED  BY <1>2, <1>3 DEF PlatformPlane, At

LEMMA PlaneSteps ==
  ASSUME IInv, NEW c \in Connections, OrganisationPlane(c) \/ PlatformPlane(c)
  PROVE  IInv'
<1>1. Deployed /\ Sessions /\ Standings /\ Histories /\ Editors /\ Settlements
  BY DEF IInv
<1>2. Fixed /\ Notice /\ UNCHANGED <<record, revisions, job>>
  BY DEF OrganisationPlane, PlatformPlane, Same, database, Fixed
<1>3. PICK pc \in {"work", "operate"} :
        /\ Lands(c, {pc})
        /\ conn'[c].pc = "work" => membership[<<conn[c].who, conn[c].aim>>] = "active"
        /\ conn'[c].pc = "operate" => conn[c].task = "platform" /\ conn[c].who \in platform
  <2>1. CASE OrganisationPlane(c)
    <3>1. Lands(c, {"work"})
      BY <1>1, <2>1, OrganisationPlaneSession
    <3>2. conn'[c].pc # "operate"
      BY <3>1 DEF Lands
    <3>. QED  BY <1>1, <2>1, <3>1, <3>2, OrganisationPlaneRights
  <2>2. CASE PlatformPlane(c)
    <3>1. Lands(c, {"operate"})
      BY <1>1, <2>2, PlatformPlaneSession
    <3>2. conn'[c].pc # "work"
      BY <3>1 DEF Lands
    <3>. QED  BY <1>1, <2>2, <3>1, <3>2, PlatformPlaneRights
  <2>. QED  BY <2>1, <2>2
<1>4. Arrives(c, {pc}) /\ Rightful(c)
  BY <1>3 DEF Lands, Runs, Arrives, Rightful
<1>. QED  BY <1>1, <1>2, <1>4, SessionsKept, StandingsKept, EditorsKept, SettlementsKept DEF IInv

(* Flags: from one point of the platform plane to another of it.            *)
LEMMA FlagSteps ==
  ASSUME IInv, NEW c \in Connections, ReadFlag(c) \/ SetFlag(c)
  PROVE  IInv'
<1>1. Deployed /\ Sessions /\ Standings /\ Histories /\ Editors /\ Settlements
  BY DEF IInv
<1>2. Fixed /\ Notice /\ UNCHANGED <<record, revisions, job>>
  BY DEF ReadFlag, SetFlag, Same, database, Fixed
<1>3. Lands(c, {"upsert"}) /\ conn[c].flow = "api" /\ conn[c].pc \in {"operate", "upsert"}
  BY <1>1, ReadFlagSession, SetFlagSession DEF ReadFlag, SetFlag, At
<1>4. Arrives(c, {"upsert"}) /\ Rightful(c)
  BY <1>1, <1>3 DEF Lands, Runs, Arrives, Rightful, Standings, Entitles
<1>. QED  BY <1>1, <1>2, <1>4, SessionsKept, StandingsKept, EditorsKept, SettlementsKept DEF IInv

-----------------------------------------------------------------------------
(* Records: the locking read, and the two writes it protects.               *)
LEMMA LockRecordStep ==
  ASSUME IInv, NEW c \in Connections, LockRecord(c)
  PROVE  IInv'
<1>1. Deployed /\ Sessions /\ Standings /\ Histories /\ Editors /\ Settlements
  BY DEF IInv
<1>2. Fixed /\ Notice /\ UNCHANGED <<record, revisions, job>>
  BY DEF LockRecord, Same, database, Fixed
<1>3. /\ Lands(c, {"save", "erase"}) /\ conn[c].flow = "api" /\ conn[c].pc = "work"
      /\ conn'[c].pc \in {"save", "erase"} =>
           /\ ~RecordLocked(conn[c].aim)
           /\ record[conn[c].aim].live /\ record[conn[c].aim].version = conn[c].expect
           /\ conn'[c].pc = "save" => record[conn[c].aim].version < MaxVersion
  BY <1>1, LockRecordSession DEF LockRecord, At
<1>4. Arrives(c, {"save", "erase"}) /\ Rightful(c)
  BY <1>1, <1>3 DEF Lands, Runs, Arrives, Rightful, Standings, Entitles
<1>5. Deployed' /\ Sessions' /\ Standings' /\ Settlements'
  BY <1>1, <1>2, <1>4, SessionsKept, StandingsKept, SettlementsKept
<1>6. Histories'
  BY <1>1, <1>2 DEF Histories
<1>7. Editors'
  <2>1. \A d \in Connections : d # c => conn'[d] = conn[d]
    BY <1>4 DEF Arrives, Alone
  <2>2. Edits(c)' => /\ conn'[c].aim = conn[c].aim /\ conn'[c].expect = conn[c].expect
                     /\ \A d \in Connections : Edits(d) => conn[d].aim # conn[c].aim
    BY <1>3 DEF Lands, Runs, Edits, RecordLocked
  <2>3. \A d \in Connections : Edits(d)' =>
          /\ record[conn'[d].aim].live /\ conn'[d].expect = record[conn'[d].aim].version
          /\ conn'[d].pc = "save" => conn'[d].expect < MaxVersion
    BY <1>1, <1>3, <2>1, <2>2 DEF Editors, Edits
  <2>4. ASSUME NEW d \in Connections, NEW e \in Connections, Edits(d)', Edits(e)',
               conn'[d].aim = conn'[e].aim
        PROVE  d = e
    BY <1>1, <2>1, <2>2, <2>4 DEF Editors, Edits
  <2>. QED  BY <1>2, <2>3, <2>4 DEF Editors
<1>. QED  BY <1>5, <1>6, <1>7 DEF IInv

LEMMA WriteSteps ==
  ASSUME IInv, NEW c \in Connections, SaveRecord(c) \/ EraseRecord(c)
  PROVE  IInv'
<1> DEFINE o == conn[c].aim
<1>1. Deployed /\ Sessions /\ Standings /\ Histories /\ Editors /\ Settlements
  BY DEF IInv
<1>2. Fixed /\ Notice /\ UNCHANGED job
  BY DEF SaveRecord, EraseRecord, Same, Fixed
<1>3. Lands(c, {}) /\ conn[c].flow = "api" /\ Edits(c)
  BY <1>1, SaveRecordSession, EraseRecordSession DEF SaveRecord, EraseRecord, At, Edits
<1>4. Arrives(c, {}) /\ Rightful(c)
  BY <1>3 DEF Lands, Arrives, Rightful
<1>5. Deployed' /\ Sessions' /\ Standings' /\ Settlements'
  BY <1>1, <1>2, <1>4, SessionsKept, StandingsKept, SettlementsKept
<1>6. o \in Orgs /\ record[o].live /\ conn[c].expect = record[o].version
  BY <1>1, <1>3, AtRequest DEF Editors
<1>7. /\ record[o].version \in 1..MaxVersion /\ Len(revisions[o]) = record[o].version
      /\ revisions[o] \in Seq(Nat) /\ conn[c].expect \in Nat
      /\ \A i \in 1..Len(revisions[o]) : revisions[o][i] = i - 1
  BY <1>1, <1>6 DEF Histories
<1>8. PICK kept \in [live : BOOLEAN, version : 1..MaxVersion] :
        /\ record' = [record EXCEPT ![o] = kept]
        /\ revisions' = [revisions EXCEPT ![o] = Append(@, conn[c].expect)]
        /\ kept.live => kept.version = record[o].version + 1
  <2>1. CASE SaveRecord(c)
    <3> DEFINE n == record[o].version + 1
    <3>1. record' = [record EXCEPT ![o] = [record[o] EXCEPT !.version = n]]
      BY <1>1, <1>6, <2>1 DEF SaveRecord, Histories
    <3>2. n \in 1..MaxVersion
      <4>1. conn[c].expect < MaxVersion
        BY <1>1, <1>3, <2>1 DEF Editors, SaveRecord, At
      <4>. QED  BY <1>6, <1>7, <4>1, SessionAssumption
    <3> HIDE DEF n
    <3>3. /\ [record[o] EXCEPT !.version = n] \in [live : BOOLEAN, version : 1..MaxVersion]
          /\ [record[o] EXCEPT !.version = n].version = n
      BY <1>1, <1>6, <3>2 DEF Histories
    <3> USE DEF n
    <3>. QED  BY <2>1, <3>1, <3>3 DEF SaveRecord
  <2>2. CASE EraseRecord(c)
    <3>1. record' = [record EXCEPT ![o] = [record[o] EXCEPT !.live = FALSE]]
      BY <1>1, <1>6, <2>2 DEF EraseRecord, Histories
    <3>2. [record[o] EXCEPT !.live = FALSE] \in [live : BOOLEAN, version : 1..MaxVersion]
          /\ ~[record[o] EXCEPT !.live = FALSE].live
      BY <1>1, <1>6 DEF Histories
    <3>. QED  BY <2>2, <3>1, <3>2 DEF EraseRecord
  <2>. QED  BY <2>1, <2>2
<1>9. Histories'
  <2> DEFINE longer == Append(revisions[o], conn[c].expect)
  <2>1. /\ longer \in Seq(Nat) /\ Len(longer) = record[o].version + 1
        /\ \A i \in 1..Len(longer) : longer[i] = i - 1
    <3>1. longer \in Seq(Nat) /\ Len(longer) = Len(revisions[o]) + 1
      BY <1>7
    <3>2. \A i \in 1..Len(revisions[o]) : longer[i] = revisions[o][i]
      BY <1>7
    <3>3. longer[Len(revisions[o]) + 1] = conn[c].expect
      BY <1>7
    <3> HIDE DEF longer
    <3>4. ASSUME NEW i \in 1..Len(longer)
          PROVE  longer[i] = i - 1
      <4>1. CASE i \in 1..Len(revisions[o])
        BY <1>7, <3>2, <4>1
      <4>2. CASE i = Len(revisions[o]) + 1
        BY <1>6, <1>7, <3>3, <4>2
      <4>3. Len(revisions[o]) \in Nat
        BY <1>7
      <4>. QED  BY <3>1, <4>1, <4>2, <4>3
    <3>. QED  BY <1>7, <3>1, <3>4
  <2> HIDE DEF longer
  <2>2. record' \in [Orgs -> [live : BOOLEAN, version : 1..MaxVersion]]
    BY <1>1, <1>8 DEF Histories
  <2>3. revisions' = [revisions EXCEPT ![o] = longer]
    BY <1>8 DEF longer
  <2>4. revisions' \in [Orgs -> Seq(Nat)]
    BY <1>1, <2>1, <2>3 DEF Histories
  <2>5. \A p \in Orgs : \A i \in 1..Len(revisions'[p]) : revisions'[p][i] = i - 1
    BY <1>1, <2>1, <2>3 DEF Histories
  <2>6. \A p \in Orgs : record'[p].live => Len(revisions'[p]) = record'[p].version
    BY <1>1, <1>8, <2>1, <2>3 DEF Histories
  <2>. QED  BY <2>2, <2>4, <2>5, <2>6 DEF Histories
<1>10. Editors'
  <2>1. \A d \in Connections : Edits(d)' =>
          /\ conn'[d] = conn[d] /\ Edits(d) /\ conn[d].aim # o
    BY <1>1, <1>3, <1>4 DEF Arrives, Alone, Edits, Editors
  <2>2. \A p : p # o => record'[p] = record[p]
    <3>1. record \in [Orgs -> [live : BOOLEAN, version : 1..MaxVersion]]
      BY <1>1 DEF Histories
    <3>. QED  BY <1>8, <3>1
  <2>. QED  BY <1>1, <2>1, <2>2 DEF Editors
<1>. QED  BY <1>5, <1>9, <1>10 DEF IInv

-----------------------------------------------------------------------------
(* Jobs: the claim, the handler and the two settlements.                    *)
LEMMA JobSteps ==
  ASSUME IInv, NEW c \in Connections,
         ClaimJob(c) \/ HandleJob(c) \/ SettleJob(c) \/ LockJob(c) \/ FailJob(c)
  PROVE  IInv'
<1> DEFINE j == conn[c].task
<1>1. Deployed /\ Sessions /\ Standings /\ Histories /\ Editors /\ Settlements
  BY DEF IInv
<1>2. Fixed /\ Notice /\ UNCHANGED <<record, revisions>>
  BY DEF ClaimJob, HandleJob, SettleJob, LockJob, FailJob, Same, database, Fixed
<1>3. /\ Lands(c, {"handle", "settle", "settled"})
      /\ conn[c].flow \in {"job", "dead"} /\ j \in Jobs
  <2>1. conn[c].flow \in {"job", "dead"}
    BY DEF ClaimJob, HandleJob, SettleJob, LockJob, FailJob, At
  <2>2. Lands(c, {"handle"}) \/ Lands(c, {"settle"}) \/ Lands(c, {}) \/ Lands(c, {"settled"})
    BY <1>1, ClaimJobSession, HandleJobSession, SettleJobSession, LockJobSession, FailJobSession
  <2>. QED  BY <1>1, <2>1, <2>2, AtWork DEF Lands
<1>4. Arrives(c, {"handle", "settle", "settled"}) /\ Rightful(c)
  BY <1>3 DEF Lands, Arrives, Rightful
<1>5. Deployed' /\ Sessions' /\ Standings' /\ Histories' /\ Editors'
  BY <1>1, <1>2, <1>4, SessionsKept, StandingsKept, EditorsKept
<1>6. /\ \A d \in Connections : d # c => conn'[d] = conn[d]
      /\ conn'[c].pc = "idle" \/ conn'[c].task = j
  BY <1>3 DEF Lands, Alone, Runs
<1>7. Settlements'
  <2>1. ASSUME NEW s \in {"running", "succeeded", "failed"}, job' = [job EXCEPT ![j] = s],
               conn'[c].pc \notin {"settled"},
               \A d \in Connections : d # c /\ Settles(d) => conn[d].task # j
        PROVE  Settlements'
    <3>1. /\ job' \in [Jobs -> {"queued", "running", "succeeded", "failed"}]
          /\ job'[j] = s /\ \A k \in Jobs : k # j => job'[k] = job[k]
      BY <1>1, <1>3, <2>1 DEF Settlements
    <3>2. \A d \in Connections : Settles(d)' => /\ conn'[d] = conn[d] /\ Settles(d)
                                                /\ conn[d].task # j /\ conn[d].task \in Jobs
      BY <1>1, <1>6, <2>1 DEF Settles, Sessions, EntryOK, Concerns, BoundAt, BoundByRequest,
         BoundByJob, BoundByRevocation, BoundByDeletion
    <3>3. \A d \in Connections : conn'[d].pc \in {"handle", "settle"} => job'[conn'[d].task] # "queued"
      <4>1. ASSUME NEW d \in Connections, conn'[d].pc \in {"handle", "settle"}, d # c
            PROVE  job'[conn'[d].task] # "queued"
        <5>1. conn'[d] = conn[d] /\ conn[d].task \in Jobs
          BY <1>1, <1>6, <4>1 DEF Sessions, EntryOK, Concerns, BoundAt, BoundByRequest,
             BoundByDeadEvent, BoundByRevocation, BoundByDeletion
        <5>. QED  BY <1>1, <3>1, <4>1, <5>1 DEF Settlements
      <4>2. conn'[c].pc \in {"handle", "settle"} => job'[conn'[c].task] # "queued"
        BY <1>6, <3>1
      <4>. QED  BY <4>1, <4>2
    <3>4. \A d \in Connections : Settles(d)' => job'[conn'[d].task] = "queued"
      BY <1>1, <3>1, <3>2 DEF Settlements
    <3>5. \A d, e \in Connections : Settles(d)' /\ Settles(e)' /\ conn'[d].task = conn'[e].task => d = e
      BY <1>1, <3>2 DEF Settlements
    <3>. QED  BY <3>1, <3>3, <3>4, <3>5 DEF Settlements
  <2>2. CASE ClaimJob(c)
    <3>1. \A d \in Connections : Settles(d) => conn[d].task # j
      BY <2>2 DEF ClaimJob, JobLocked, Settles
    <3>2. /\ Lands(c, {"handle"})
          /\ conn'[c].pc = "handle" => job' = [job EXCEPT ![j] = "running"]
          /\ conn'[c].pc # "handle" => UNCHANGED job
      BY <1>1, <2>2, ClaimJobSession
    <3>3. CASE conn'[c].pc = "handle"
      BY <2>1, <3>1, <3>2, <3>3
    <3>4. CASE conn'[c].pc # "handle"
      <4>1. Arrives(c, {})
        BY <3>2, <3>4 DEF Lands, Arrives
      <4>. QED  BY <1>1, <3>2, <3>4, <4>1, SettlementsKept
    <3>. QED  BY <3>3, <3>4
  <2>3. CASE HandleJob(c)
    <3>1. conn[c].pc = "handle" /\ UNCHANGED job
      BY <2>3 DEF HandleJob, At, database
    <3>2. Lands(c, {"settle"})
      BY <1>1, <2>3, HandleJobSession
    <3>3. conn'[c].pc # "settled" /\ job'[j] # "queued"
      BY <1>1, <3>1, <3>2 DEF Lands, Settlements
    <3>. QED  BY <1>1, <1>6, <3>1, <3>3 DEF Settlements, Settles
  <2>4. CASE SettleJob(c)
    <3>1. job[j] # "queued" /\ \E s \in {"succeeded", "failed"} : job' = [job EXCEPT ![j] = s]
      BY <1>1, <2>4 DEF SettleJob, At, Settlements
    <3>2. \A d \in Connections : Settles(d) => conn[d].task # j
      BY <1>1, <3>1 DEF Settlements
    <3>3. conn'[c].pc = "idle"
      BY <1>1, <2>4, SettleJobSession DEF Lands
    <3>. QED  BY <2>1, <3>1, <3>2, <3>3
  <2>5. CASE LockJob(c)
    <3>1. UNCHANGED job
      BY <2>5 DEF LockJob, database
    <3>2. /\ Lands(c, {"settled"})
          /\ conn'[c].pc = "settled" => job[j] = "queued" /\ ~JobLocked(j)
      BY <1>1, <2>5, LockJobSession
    <3>3. CASE conn'[c].pc # "settled"
      <4>1. Arrives(c, {})
        BY <3>2, <3>3 DEF Lands, Arrives
      <4>. QED  BY <1>1, <3>1, <4>1, SettlementsKept
    <3>4. CASE conn'[c].pc = "settled"
      <4>1. conn'[c].task = j /\ job[j] = "queued" /\ ~JobLocked(j)
        BY <1>6, <3>2, <3>4
      <4>2. \A d \in Connections : d # c /\ Settles(d)' => conn'[d] = conn[d] /\ Settles(d)
                                                           /\ conn[d].task # j
        BY <1>6, <4>1 DEF Settles, JobLocked
      <4>3. \A d, e \in Connections : Settles(d)' /\ Settles(e)' /\ conn'[d].task = conn'[e].task => d = e
        BY <1>1, <4>1, <4>2 DEF Settlements
      <4>4. \A d \in Connections : Settles(d)' => job'[conn'[d].task] = "queued"
        BY <1>1, <3>1, <4>1, <4>2 DEF Settlements
      <4>5. \A d \in Connections : conn'[d].pc \in {"handle", "settle"} => job'[conn'[d].task] # "queued"
        BY <1>1, <1>6, <3>1, <3>4 DEF Settlements
      <4>. QED  BY <1>1, <3>1, <4>3, <4>4, <4>5 DEF Settlements
    <3>. QED  BY <3>3, <3>4
  <2>6. CASE FailJob(c)
    <3>1. Settles(c) /\ job' = [job EXCEPT ![j] = "failed"]
      BY <2>6 DEF FailJob, At, Settles
    <3>2. \A d \in Connections : d # c /\ Settles(d) => conn[d].task # j
      BY <1>1, <3>1 DEF Settlements
    <3>3. conn'[c].pc = "idle"
      BY <1>1, <2>6, FailJobSession DEF Lands
    <3>. QED  BY <2>1, <3>1, <3>2, <3>3
  <2>. QED  BY <2>2, <2>3, <2>4, <2>5, <2>6
<1>. QED  BY <1>5, <1>7 DEF IInv

-----------------------------------------------------------------------------
(* What happens elsewhere changes addresses only.                           *)
LEMMA StutterKeeps == ASSUME IInv, UNCHANGED <<deployment, serving, conn, standing, record, revisions, job>>
                      PROVE  IInv'
<1>1. Deployed'
  BY DEF IInv, Deployed
<1>2. Sessions'
  <2>1. ASSUME NEW d \in Connections
        PROVE  EntryOK(d, conn[d])'
    <3>1. EntryOK(d, conn'[d])
      BY DEF IInv, Sessions
    <3>. QED  BY <3>1 DEF EntryOK, Employs, BoundAt, BoundByRequest, Home
  <2>. QED  BY <2>1 DEF IInv, Sessions
<1>3. Standings' /\ Histories' /\ Editors' /\ Settlements'
  BY DEF IInv, Standings, Entitles, Histories, Editors, Edits, Settlements, Settles
<1>. QED  BY <1>1, <1>2, <1>3 DEF IInv

LEMMA InvariantInitially == SessionInit => IInv
<1> SUFFICES ASSUME SessionInit PROVE IInv
  OBVIOUS
<1>1. Deployed
  BY DEF SessionInit, Deployed
<1>2. Sessions
  <2>1. /\ DOMAIN Free = ConnFields /\ Free.flow = "idle" /\ Free.pc = "idle"
        /\ Free.ctx = Unset /\ Free.missed = {}
    BY DEF Free, ConnFields
  <2>2. \A c \in Connections : EntryOK(c, Free)
    BY <2>1 DEF EntryOK, Employs, Concerns, BoundAt, Carries, Sees
  <2>. QED  BY <2>2 DEF SessionInit, Sessions
<1>3. \A c \in Connections : conn[c].flow = "idle" /\ conn[c].pc = "idle"
  BY DEF SessionInit, Free
<1>4. Standings /\ Editors /\ \A c \in Connections : ~Settles(c)
  BY <1>3 DEF Standings, Entitles, Editors, Edits, Settles
<1>5. Settlements
  BY <1>3, <1>4 DEF Settlements, SessionInit
<1>6. Histories
  BY SessionAssumption DEF SessionInit, Histories
<1>. QED  BY <1>1, <1>2, <1>4, <1>5, <1>6 DEF IInv

LEMMA InvariantStep == IInv /\ [SessionNext]_sessionVars => IInv'
<1> SUFFICES ASSUME IInv, [SessionNext]_sessionVars PROVE IInv'
  OBVIOUS
<1>1. CASE UNCHANGED sessionVars
  BY <1>1, StutterKeeps DEF sessionVars, database
<1>2. ASSUME NEW u \in Users, ProfileChanges(u) \/ UserUpdated(u)
      PROVE  IInv'
  BY <1>2, StutterKeeps DEF ProfileChanges, UserUpdated
<1>3. ASSUME NEW c \in Connections, OfRequests(c)
      PROVE  IInv'
  BY <1>3, QuietSteps, PlaneSteps, FlagSteps, LockRecordStep, WriteSteps DEF OfRequests
<1>4. ASSUME NEW c \in Connections, OfJobs(c)
      PROVE  IInv'
  BY <1>4, QuietSteps, JobSteps DEF OfJobs
<1>5. ASSUME NEW c \in Connections, OfWebhooks(c)
      PROVE  IInv'
  BY <1>5, QuietSteps DEF OfWebhooks
<1>. QED  BY <1>1, <1>2, <1>3, <1>4, <1>5 DEF SessionNext

(* The inductive invariant of the sessions holds in every reachable state.  *)
THEOREM SessionInvariant == SessionSpec => []IInv
<1>. QED  BY InvariantInitially, InvariantStep, PTL DEF SessionSpec

-----------------------------------------------------------------------------
(* Whatever the deployment, the users and the interleaving of requests,     *)
(* messages and webhooks on the connections of the pools, no session of the *)
(* API or a worker is bound between two of its steps to settings that would *)
(* admit it to a row its principal has no claim to.                         *)
THEOREM ExposureAlwaysBounded == SessionSpec => []ExposureIsBounded
<1>1. IInv => ExposureIsBounded
  BY ExposureHolds DEF IInv
<1>. QED  BY <1>1, SessionInvariant, PTL

(* No statement of the modelled flows is meant for a row its settings hide, *)
(* but for an invitation whose address the user's row has lost meanwhile.   *)
THEOREM NeverBlindAlways == SessionSpec => []NeverBlind
<1>1. IInv => NeverBlind
  BY DEF IInv, Sessions, EntryOK, Sees, Stale, NeverBlind
<1>. QED  BY <1>1, SessionInvariant, PTL

(* No UPDATE that a served process can issue changes a row's organisation.  *)
THEOREM RowsAlwaysKeepTheirTenant == SessionSpec => []RowsKeepTheirTenant
<1>1. IInv => RowsKeepTheirTenant
  BY TenantsHold DEF IInv
<1>. QED  BY <1>1, SessionInvariant, PTL

(* A production process that serves cannot become a role the policies do    *)
(* not bind, whatever the grants among the server's roles.                  *)
THEOREM AlwaysServesUnderPolicies == SessionSpec => []ServesUnderPolicies
<1>1. IInv => ServesUnderPolicies
  BY GatesHold DEF IInv
<1>. QED  BY <1>1, SessionInvariant, PTL

(* No two edits of a record start from the same version.                    *)
THEOREM NoLostUpdateAlways == SessionSpec => []NoLostUpdate
<1>1. IInv => NoLostUpdate
  <2> SUFFICES ASSUME IInv, NEW o \in Orgs, NEW i \in DOMAIN revisions[o]
               PROVE  revisions[o][i] = i - 1
    BY DEF NoLostUpdate
  <2>1. revisions[o] \in Seq(Nat)
    BY DEF IInv, Histories
  <2>2. i \in 1..Len(revisions[o])
    BY <2>1
  <2>. QED  BY <2>2 DEF IInv, Histories
<1>. QED  BY <1>1, SessionInvariant, PTL
=============================================================================
