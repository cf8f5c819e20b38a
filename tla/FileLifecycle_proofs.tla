------------------------ MODULE FileLifecycle_proofs ------------------------
(***************************************************************************)
(* Theorems of FileLifecycle, for every number of attempts, handlers and   *)
(* requests, all bytes and every set of faults.  The invariant follows the *)
(* two locks: a completion that holds the row's lock sees it pending, and  *)
(* an attempt that owns the job knows the row's status up to a deletion.   *)
(***************************************************************************)
EXTENDS FileLifecycle, TLAPS

JobInv ==
    /\ jobs \in {0, 1}
    /\ state = "absent" <=> jobs = 0
    /\ error_code # "none" => state = "failed"

RowInv ==
    /\ row.status \in {"absent", "pending"} => jobs = 0
    /\ row.status \in PostCompletion \union {"quarantined"} => jobs = 1
    /\ row.status = "deleted" => row.deleted

\* A completion holds the row's lock.
Holds(c) == completers[c].phase \in {"locked", "verified", "copied"}

LockInv ==
    \A c \in Completers : Holds(c) =>
      row.status = "pending" /\ \A e \in Completers : Holds(e) => e = c

\* Credentials are never given twice, and the job's lock is its owner's.
OwnInv ==
    \A h \in Handlers :
      /\ Active(h) => /\ jobs = 1 /\ handlers[h].own \in 1..owner
                      /\ \A g \in Handlers :
                           Active(g) /\ handlers[g].own = handlers[h].own => g = h
      /\ handlers[h].phase = "locked" => Owns(h)

Viewing(h) ==
    handlers[h].phase \in {"loaded", "aimed", "locked", "scanning", "marked", "notified"}

\* The owner knows the row, up to a deletion.
ViewInv ==
    \A h \in Handlers :
      Owns(h) /\ Viewing(h) => row.status \in {handlers[h].seen, "deleted"}

Told(aim) == IF aim = "ready" THEN "ready" ELSE "failed"

\* What a handler knows of its own progress.
ProgressOf(h) ==
    /\ Viewing(h) => handlers[h].seen # "deleted"
    /\ handlers[h].phase = "scanning" => handlers[h].seen \in {"processing", "ready"}
    /\ handlers[h].phase \in {"aimed", "locked"} =>
         /\ handlers[h].aim \in Aim
         /\ handlers[h].aim \in {"ready", "quarantined"} =>
              handlers[h].seen \in {"processing", "ready"}
    /\ handlers[h].phase \in {"marked", "notified"} =>
         handlers[h].aim \in {"ready", "failed", "quarantined"}
         /\ handlers[h].seen = handlers[h].aim
    /\ handlers[h].phase = "notified" => Told(handlers[h].aim) \in notified

ProgressInv == \A h \in Handlers : ProgressOf(h)

\* What is pinned is harmless, or is no longer there and never will be.
Clean == row.identity \notin Harmful \/ final # row.identity

CleanInv ==
    /\ jobs = 1 => row.identity \in Bytes /\ final \in {row.identity, Foreign, NoBytes}
    /\ row.status = "ready" => Clean
    /\ \A h \in Handlers : handlers[h].aim = "ready" => Active(h) /\ Clean

Inv == TypeOK /\ JobInv /\ RowInv /\ LockInv /\ OwnInv /\ ViewInv /\ ProgressInv
       /\ OutcomesAgree /\ CleanInv

USE MaxStartsAssumption, BytesAssumption
-----------------------------------------------------------------------------
\* The invariant holds initially.
LEMMA InitInv == Init => Inv
<1> SUFFICES ASSUME Init PROVE Inv
  OBVIOUS
<1>1. /\ state = "absent" /\ starts = 0 /\ owner = 0 /\ outcomes = 0
      /\ lease = FALSE /\ error_code = "none" /\ jobs = 0 /\ notified = {}
      /\ staging = NoBytes /\ final = NoBytes
      /\ row = [status |-> "absent", key |-> "staging", identity |-> NoBytes, deleted |-> FALSE]
      /\ handlers = [h \in Handlers |-> Idle]
      /\ completers = [c \in Completers |-> NoCompletion]
      /\ deleters = [d \in Deleters |-> NoDeletion]
  BY DEF Init, Job!Init
<1>2. /\ \A h \in Handlers : handlers[h] = Idle
      /\ \A c \in Completers : completers[c].phase = "idle"
  BY <1>1 DEF NoCompletion
<1>3. TypeOK
  <2>1. Idle \in Handler /\ NoCompletion \in Completer /\ NoDeletion \in Deleter
    BY DEF Idle, Handler, FileStatus, NoCompletion, Completer, NoDeletion, Deleter
  <2>2. row \in Row /\ 0 \in 0..MaxStarts
    BY <1>1 DEF Row, FileStatus
  <2> QED
    BY <1>1, <2>1, <2>2 DEF TypeOK, ErrorCode
<1>4. JobInv /\ RowInv /\ OutcomesAgree
  BY <1>1 DEF JobInv, RowInv, PostCompletion, OutcomesAgree
<1>5. LockInv /\ OwnInv /\ ViewInv /\ ProgressInv
  BY <1>2 DEF LockInv, Holds, OwnInv, Active, ViewInv, Viewing, ProgressInv, ProgressOf, Idle
<1>6. CleanInv
  BY <1>1, <1>2 DEF CleanInv, Idle
<1> QED
  BY <1>3, <1>4, <1>5, <1>6 DEF Inv

\* The abstract job's steps, in terms of its variables.
LEMMA JobSteps ==
    ASSUME TypeOK
    PROVE  /\ Job!Start => /\ state \in {"queued", "running"} /\ state' = "running"
                           /\ starts' = starts + 1 /\ starts' \in 0..MaxStarts
                           /\ owner' = owner + 1 /\ owner' \in Nat /\ outcomes' = outcomes
           /\ Job!Requeue => /\ state = "running" /\ state' = "queued"
                             /\ starts' = starts /\ owner' \in {owner, owner + 1}
                             /\ owner' \in Nat /\ outcomes' = outcomes
           /\ Job!Settle => /\ state \in {"queued", "running"}
                            /\ state' \in {"succeeded", "failed"}
                            /\ starts' = starts /\ owner' = owner /\ outcomes' \in Nat
           /\ Job!Accept => /\ state = "absent" /\ state' = "queued"
                            /\ UNCHANGED <<starts, owner, outcomes>>
<1>1. starts \in Nat /\ owner \in Nat /\ outcomes \in Nat /\ MaxStarts \in Nat
  BY DEF TypeOK
<1>2. starts < MaxStarts => starts + 1 \in 0..MaxStarts
  BY <1>1
<1> QED
  BY <1>1, <1>2 DEF Job!Start, Job!Requeue, Job!Settle, Job!Accept, Job!Open

\* What a handler's step does to the handlers: its own entry moves within an
\* attempt, ends, or begins; the others stay.
LEMMA HandlersMove ==
    ASSUME TypeOK, ProgressInv, NEW h \in Handlers, HandlerStep(h)
    PROVE  /\ \A g \in Handlers \ {h} : handlers'[g] = handlers[g]
           /\ \/ handlers'[h] = Idle
              \/ /\ ClaimDispatch(h)
                 /\ handlers'[h] = [handlers[h] EXCEPT !.phase = "claimed", !.own = owner']
              \/ /\ Active(h) /\ handlers'[h].own = handlers[h].own
                 /\ handlers'[h].phase # "idle"
           /\ handlers' \in [Handlers -> Handler]
<1> USE DEF TypeOK
<1>1. Idle \in Handler
  BY DEF Idle, Handler, FileStatus
<1>2. ASSUME Ends(h)
      PROVE  /\ handlers' \in [Handlers -> Handler] /\ handlers'[h] = Idle
             /\ \A g \in Handlers \ {h} : handlers'[g] = handlers[g]
  BY <1>1, <1>2 DEF Ends
<1>3. ASSUME NEW phase \in {"locked", "scanning", "marked", "notified", "conflict", "raised"},
             Moves(h, phase), Active(h)
      PROVE  /\ handlers' \in [Handlers -> Handler]
             /\ handlers'[h].own = handlers[h].own /\ handlers'[h].phase # "idle"
             /\ \A g \in Handlers \ {h} : handlers'[g] = handlers[g]
  BY <1>3 DEF Moves, Handler
<1>4. ASSUME NEW phase \in {"aimed", "raised"}, NEW aim \in Aim \union {"none"},
             MovesTo(h, phase, aim), Active(h)
      PROVE  /\ handlers' \in [Handlers -> Handler]
             /\ handlers'[h].own = handlers[h].own /\ handlers'[h].phase # "idle"
             /\ \A g \in Handlers \ {h} : handlers'[g] = handlers[g]
  BY <1>4, ZenonT(60) DEF MovesTo, Handler
<1>5. CASE ClaimDispatch(h)
  <2>1. /\ handlers' = [handlers EXCEPT ![h].phase = "claimed", ![h].own = owner']
        /\ owner' \in Nat
    BY <1>5, JobSteps DEF ClaimDispatch
  <2> QED
    BY <1>5, <2>1, ZenonT(60) DEF Handler
<1>6. CASE GetFile(h)
  <2>1. CASE handlers' = [handlers EXCEPT ![h].phase = "loaded", ![h].seen = row.status]
    <3>1. Active(h) /\ row.status \in FileStatus
      BY <1>6 DEF GetFile, Active, Row
    <3>2. handlers' \in [Handlers -> Handler]
      BY <2>1, <3>1, ZenonT(60) DEF Handler
    <3>3. /\ handlers'[h].own = handlers[h].own /\ handlers'[h].phase = "loaded"
          /\ \A g \in Handlers \ {h} : handlers'[g] = handlers[g]
      BY <2>1 DEF Handler
    <3> QED
      BY <3>1, <3>2, <3>3
  <2>2. CASE Ends(h)
    BY <1>2, <2>2
  <2> QED
    BY <1>6, <2>1, <2>2 DEF GetFile, Settles, EndsStale
<1>7. CASE VerifyFinal(h)
  BY <1>2, <1>4, <1>7 DEF VerifyFinal, EndsStale, Active, Aim
<1>8. CASE LockForTransition(h)
  BY <1>2, <1>3, <1>8 DEF LockForTransition, EndsStale, Active
<1>9. CASE Transition(h)
  <2>1. Active(h) /\ handlers[h].aim \in Aim
    BY <1>9 DEF Transition, Active, ProgressInv, ProgressOf
  <2>2. ASSUME NEW phase \in {"scanning", "marked"},
               handlers' = [handlers EXCEPT ![h].phase = phase, ![h].seen = handlers[h].aim]
        PROVE  /\ handlers' \in [Handlers -> Handler]
               /\ handlers'[h].own = handlers[h].own /\ handlers'[h].phase # "idle"
               /\ \A g \in Handlers \ {h} : handlers'[g] = handlers[g]
    BY <2>1, <2>2, ZenonT(60) DEF Handler, Aim, FileStatus
  <2>3. CASE \E phase \in {"scanning", "marked", "conflict"} : Moves(h, phase)
    BY <1>3, <2>1, <2>3
  <2> QED
    BY <1>9, <2>1, <2>2, <2>3 DEF Transition
<1>10. CASE ScanFileObject(h)
  BY <1>4, <1>10 DEF ScanFileObject, Verdict, Active, Aim
<1>11. CASE NotifyUploader(h)
  BY <1>2, <1>3, <1>11 DEF NotifyUploader, EndsStale, Active
<1>12. CASE SettleJob(h) \/ SettleRetryableFailure(h) \/ WorkerCrash(h)
  BY <1>2, <1>12 DEF SettleJob, Settles, EndsStale, SettleRetryableFailure, WorkerCrash
<1>13. CASE HandlerRaises(h)
  BY <1>3, <1>13 DEF HandlerRaises, Active
<1> QED
  BY <1>5, <1>6, <1>7, <1>8, <1>9, <1>10, <1>11, <1>12, <1>13 DEF HandlerStep

\* A transition that writes the row.
Writes(h) ==
    /\ handlers[h].phase = "locked"
    /\ handlers[h].seen \in Leaves[handlers[h].aim] \ Keeps[handlers[h].aim]
    /\ RowFree
    /\ row' = [row EXCEPT !.status = handlers[h].aim]
    /\ UNCHANGED <<jobRow, notified>>

\* What a handler's step leaves alone.
LEMMA HandlerFrame ==
    ASSUME NEW h \in Handlers, HandlerStep(h)
    PROVE  /\ UNCHANGED <<jobs, staging, final, completers, deleters>>
           /\ row' = row \/ Writes(h)
           /\ notified' = notified \/ NotifyUploader(h)
<1> USE DEF objects, requests
<1>1. CASE Transition(h)
  BY <1>1 DEF Transition, Writes
<1>2. CASE GetFile(h) \/ VerifyFinal(h) \/ LockForTransition(h) \/ SettleJob(h)
           \/ SettleRetryableFailure(h)
  BY <1>2 DEF GetFile, VerifyFinal, LockForTransition, SettleJob, SettleRetryableFailure,
     Settles, EndsStale
<1>3. CASE NotifyUploader(h)
  BY <1>3 DEF NotifyUploader, EndsStale
<1>4. CASE ClaimDispatch(h) \/ ScanFileObject(h) \/ HandlerRaises(h) \/ WorkerCrash(h)
  BY <1>4 DEF ClaimDispatch, ScanFileObject, HandlerRaises, WorkerCrash
<1> QED
  BY <1>1, <1>2, <1>3, <1>4 DEF HandlerStep

\* The steps of requests, of storage and of the job's recovery.
OtherStep ==
    \/ CreateUploadIntent \/ ClientPut \/ OverwriteFinal
    \/ \E c \in Completers : CompleterStep(c)
    \/ \E d \in Deleters : DeleterStep(d)
    \/ LeaseExpires \/ JobFailsElsewhere \/ RequeueAbandonedJob

\* They leave the handlers and the notifications alone.
LEMMA OtherFrame ==
    ASSUME OtherStep
    PROVE  UNCHANGED <<handlers, notified>>
BY DEF OtherStep, CreateUploadIntent, ClientPut, OverwriteFinal, CompleterStep,
   LockForCompletion, VerifyStaging, CopyObject, CommitCompletion, DeleteStaging,
   CompleterCrash, DeleterStep, ReadForDeletion, RemoveObject, CommitDeletion,
   DeleterCrash, LeaseExpires, JobFailsElsewhere, RequeueAbandonedJob

\* A completion's commit that succeeds.
Commits(c) ==
    /\ completers[c].phase = "copied" /\ Promoted(c)
    /\ row' = Uploaded
    /\ jobs' = jobs + 1
    /\ IF jobs = 0 THEN Job!Accept ELSE UNCHANGED jobVars
    /\ UNCHANGED <<lease, error_code, staging, final>>

\* A completion that marks the file failed.
Fails(c) ==
    /\ Holds(c)
    /\ row' = [row EXCEPT !.status = "failed"]
    /\ completers' = [completers EXCEPT ![c] = NoCompletion]
    /\ UNCHANGED <<jobRow, jobs, staging, final>>

\* Who writes the row, and schedules a job, other than a handler.
LEMMA RowChanges ==
    ASSUME OtherStep
    PROVE  \/ UNCHANGED <<row, jobs>>
           \/ CreateUploadIntent
           \/ \E c \in Completers : Commits(c) \/ Fails(c)
           \/ \E d \in Deleters : CommitDeletion(d)
<1>1. ASSUME NEW c \in Completers, CompleterStep(c)
      PROVE  UNCHANGED <<row, jobs>> \/ Commits(c) \/ Fails(c)
  <2>1. CASE VerifyStaging(c)
    BY <2>1 DEF VerifyStaging, FailCompletion, Fails, Holds, objects
  <2>2. CASE CopyObject(c)
    BY <2>2 DEF CopyObject, FailCompletion, Fails, Holds
  <2>3. CASE CommitCompletion(c)
    BY <2>3 DEF CommitCompletion, FailCompletion, Commits, Fails, Holds, objects
  <2> QED
    BY <1>1, <2>1, <2>2, <2>3 DEF CompleterStep, LockForCompletion, DeleteStaging,
       CompleterCrash
<1>2. ASSUME NEW d \in Deleters, DeleterStep(d)
      PROVE  UNCHANGED <<row, jobs>> \/ CommitDeletion(d)
  BY <1>2 DEF DeleterStep, ReadForDeletion, RemoveObject, DeleterCrash
<1> QED
  BY <1>1, <1>2 DEF OtherStep, ClientPut, OverwriteFinal, LeaseExpires, JobFailsElsewhere,
     RequeueAbandonedJob

\* Who moves the job, other than a handler.
LEMMA JobChanges ==
    ASSUME OtherStep
    PROVE  \/ UNCHANGED <<jobVars, error_code>>
           \/ \E c \in Completers : Commits(c)
           \/ JobFailsElsewhere
           \/ RequeueAbandonedJob
<1>1. ASSUME NEW c \in Completers, CompleterStep(c)
      PROVE  UNCHANGED <<jobVars, error_code>> \/ Commits(c)
  <2>1. CASE CommitCompletion(c)
    BY <2>1 DEF CommitCompletion, FailCompletion, Commits, jobRow, objects
  <2> QED
    BY <1>1, <2>1 DEF CompleterStep, LockForCompletion, VerifyStaging, CopyObject,
       FailCompletion, DeleteStaging, CompleterCrash, jobRow
<1>2. ASSUME NEW d \in Deleters, DeleterStep(d)
      PROVE  UNCHANGED <<jobVars, error_code>>
  BY <1>2 DEF DeleterStep, ReadForDeletion, RemoveObject, CommitDeletion, DeleterCrash,
     jobRow
<1> QED
  BY <1>1, <1>2 DEF OtherStep, CreateUploadIntent, ClientPut, OverwriteFinal, LeaseExpires,
     jobRow

\* Every step is one or the other.
LEMMA NextSplit ==
    ASSUME [Next]_vars
    PROVE  (\E h \in Handlers : HandlerStep(h)) \/ OtherStep \/ UNCHANGED vars
BY DEF Next, OtherStep

JobTypeOK ==
    /\ state \in {"absent", "queued", "running", "succeeded", "failed"}
    /\ starts \in 0..MaxStarts /\ owner \in Nat /\ outcomes \in Nat
    /\ error_code \in ErrorCode /\ lease \in BOOLEAN

\* Every step keeps the types.
LEMMA NextTypeOK ==
    ASSUME TypeOK, ProgressInv, [Next]_vars
    PROVE  TypeOK'
<1> USE DEF TypeOK
<1>1. ASSUME NEW status \in FileStatus, row' = [row EXCEPT !.status = status]
      PROVE  row' \in Row
  BY <1>1 DEF Row
<1>2. ASSUME NEW c \in Completers, CompleterStep(c)
      PROVE  /\ completers' \in [Completers -> Completer]
             /\ staging' \in Bytes \union {NoBytes}
             /\ final' \in Bytes \union {NoBytes, Foreign}
             /\ deleters' = deleters
  <2>1. NoCompletion \in Completer
    BY DEF NoCompletion, Completer
  <2>2. CASE LockForCompletion(c)
    <3>1. PICK checksum \in Bytes \union {NoBytes} :
            completers' = [completers EXCEPT ![c] =
                             [phase |-> "locked", checksum |-> checksum, verified |-> NoBytes]]
      BY <2>2 DEF LockForCompletion
    <3> QED
      BY <2>2, <3>1 DEF LockForCompletion, Completer, objects
  <2>3. FailCompletion(c) => completers' \in [Completers -> Completer]
    BY <2>1 DEF FailCompletion
  <2>4. CASE VerifyStaging(c)
    <3>1. CASE completers' = [completers EXCEPT ![c].phase = "verified", ![c].verified = staging]
      BY <2>4, <3>1, ZenonT(60) DEF VerifyStaging, Completer, objects
    <3>2. CASE FailCompletion(c)
      BY <2>3, <2>4, <3>2 DEF VerifyStaging, FailCompletion, objects
    <3> QED
      BY <2>4, <3>1, <3>2 DEF VerifyStaging
  <2>5. CASE CopyObject(c)
    <3>1. CASE completers' = [completers EXCEPT ![c].phase = "copied"] /\ final' = staging
      BY <2>5, <3>1 DEF CopyObject, Completer
    <3>2. CASE FailCompletion(c) /\ final' = final
      BY <2>3, <2>5, <3>2 DEF CopyObject, FailCompletion
    <3> QED
      BY <2>5, <3>1, <3>2 DEF CopyObject
  <2>6. CASE CommitCompletion(c)
    <3>1. CASE completers' = [completers EXCEPT ![c].phase = "committed"]
      BY <2>6, <3>1 DEF CommitCompletion, Completer, objects
    <3>2. CASE FailCompletion(c)
      BY <2>3, <2>6, <3>2 DEF CommitCompletion, FailCompletion, objects
    <3> QED
      BY <2>6, <3>1, <3>2 DEF CommitCompletion
  <2>7. CASE DeleteStaging(c) \/ CompleterCrash(c)
    BY <2>1, <2>7 DEF DeleteStaging, CompleterCrash, objects
  <2> QED
    BY <1>2, <2>2, <2>4, <2>5, <2>6, <2>7 DEF CompleterStep
<1>3. ASSUME NEW d \in Deleters, DeleterStep(d)
      PROVE  /\ deleters' \in [Deleters -> Deleter]
             /\ staging' \in Bytes \union {NoBytes}
             /\ final' \in Bytes \union {NoBytes, Foreign}
             /\ completers' = completers
  <2>1. row.key \in {"staging", "final"} /\ NoDeletion \in Deleter
    BY DEF Row, NoDeletion, Deleter
  <2> QED
    BY <1>3, <2>1 DEF DeleterStep, ReadForDeletion, RemoveObject, CommitDeletion,
       DeleterCrash, Deleter, objects
<1>4. CASE OtherStep
  <2>1. /\ completers' \in [Completers -> Completer] /\ deleters' \in [Deleters -> Deleter]
        /\ staging' \in Bytes \union {NoBytes} /\ final' \in Bytes \union {NoBytes, Foreign}
    BY <1>2, <1>3, <1>4 DEF OtherStep, CreateUploadIntent, ClientPut, OverwriteFinal,
       LeaseExpires, JobFailsElsewhere, RequeueAbandonedJob, objects, requests
  <2>2. row' \in Row /\ jobs' \in Nat
    <3>1. ASSUME NEW c \in Completers, Commits(c)
          PROVE  row' \in Row /\ jobs' \in Nat
      <4>1. final \in Bytes \union {NoBytes}
        <5>1. final = completers[c].verified
          BY <3>1 DEF Commits, Promoted
        <5> QED
          BY <5>1 DEF Completer
      <4>2. row' = Uploaded /\ jobs' = jobs + 1
        BY <3>1 DEF Commits
      <4>4. row.deleted \in BOOLEAN /\ "uploaded" \in FileStatus
        BY DEF Row, FileStatus
      <4>5. row' \in Row
        BY <4>1, <4>2, <4>4 DEF Row, Uploaded
      <4>6. jobs' \in Nat
        BY <4>2
      <4> QED
        BY <4>5, <4>6
    <3>2. ASSUME NEW c \in Completers, Fails(c)
          PROVE  row' \in Row /\ jobs' \in Nat
      BY <1>1, <3>2 DEF Fails, FileStatus
    <3>3. ASSUME NEW d \in Deleters, CommitDeletion(d)
          PROVE  row' \in Row /\ jobs' \in Nat
      BY <3>3 DEF CommitDeletion, Row, FileStatus
    <3>4. CASE CreateUploadIntent
      BY <1>1, <3>4 DEF CreateUploadIntent, FileStatus
    <3> QED
      BY <1>4, <3>1, <3>2, <3>3, <3>4, RowChanges
  <2>3. /\ state' \in {"absent", "queued", "running", "succeeded", "failed"}
        /\ starts' \in 0..MaxStarts /\ owner' \in Nat /\ outcomes' \in Nat
        /\ error_code' \in ErrorCode
    BY <1>4, JobChanges, JobSteps DEF Commits, JobFailsElsewhere, RequeueAbandonedJob,
       jobVars, ErrorCode
  <2>4. lease' \in BOOLEAN
    BY <1>4 DEF OtherStep, CreateUploadIntent, ClientPut, OverwriteFinal, CompleterStep,
       LockForCompletion, VerifyStaging, CopyObject, FailCompletion, CommitCompletion,
       DeleteStaging, CompleterCrash, DeleterStep, ReadForDeletion, RemoveObject,
       CommitDeletion, DeleterCrash, LeaseExpires, JobFailsElsewhere, RequeueAbandonedJob,
       jobRow
  <2> QED
    BY <1>4, <2>1, <2>2, <2>3, <2>4, OtherFrame
<1>5. ASSUME NEW h \in Handlers, HandlerStep(h) PROVE TypeOK'
  <2>1. handlers' \in [Handlers -> Handler]
    BY <1>5, HandlersMove
  <2>2. row' \in Row
    <3>1. CASE Writes(h)
      <4>1. handlers[h].aim \in FileStatus
        BY <3>1 DEF Writes, ProgressInv, ProgressOf, Aim, FileStatus
      <4> QED
        BY <1>1, <3>1, <4>1 DEF Writes
    <3> QED
      BY <1>5, <3>1, HandlerFrame
  <2>3. notified' \subseteq {"ready", "failed"}
    BY <1>5, HandlerFrame DEF NotifyUploader, EndsStale
  <2>4. JobTypeOK'
    <3> USE DEF JobTypeOK
    <3>1. ASSUME NEW outcome, NEW code \in ErrorCode, Settles(h, outcome, code)
          PROVE  JobTypeOK'
      BY <3>1, JobSteps DEF Settles
    <3>2. CASE UNCHANGED jobRow
      BY <3>2 DEF jobRow, jobVars
    <3>3. CASE ClaimDispatch(h)
      BY <3>3, JobSteps DEF ClaimDispatch
    <3>4. CASE GetFile(h) \/ SettleJob(h)
      BY <3>1, <3>2, <3>4 DEF GetFile, SettleJob, EndsStale, ErrorCode
    <3>5. CASE SettleRetryableFailure(h)
      <4>1. CASE Job!Requeue /\ lease' = FALSE /\ error_code' = error_code
        BY <4>1, JobSteps
      <4> QED
        BY <3>1, <3>2, <3>5, <4>1 DEF SettleRetryableFailure, EndsStale, ErrorCode
    <3>6. CASE \/ VerifyFinal(h) \/ LockForTransition(h) \/ Transition(h) \/ ScanFileObject(h)
               \/ NotifyUploader(h) \/ HandlerRaises(h) \/ WorkerCrash(h)
      BY <3>2, <3>6 DEF VerifyFinal, LockForTransition, Transition, ScanFileObject,
         NotifyUploader, HandlerRaises, WorkerCrash, EndsStale
    <3> QED
      BY <1>5, <3>3, <3>4, <3>5, <3>6 DEF HandlerStep
  <2> QED
    BY <1>5, <2>1, <2>2, <2>3, <2>4, HandlerFrame DEF JobTypeOK
<1>6. CASE UNCHANGED vars
  BY <1>6 DEF vars, jobRow, jobVars, objects, requests
<1> QED
  BY <1>4, <1>5, <1>6, NextSplit

\* A handler that settles the job, or returns it to the queue, owns it and is
\* not in a transition.
MovesJob(h) ==
    /\ Active(h) /\ handlers[h].phase # "locked" /\ Owns(h) /\ Ends(h)
    /\ \/ Job!Settle /\ state' = "failed" /\ error_code' \in ErrorCode
       \/ Job!Settle /\ state' = "succeeded" /\ error_code' = "none"
       \/ Job!Requeue /\ error_code' = error_code

\* Who moves the job, of a handler's steps.
LEMMA HandlerJob ==
    ASSUME NEW h \in Handlers, HandlerStep(h)
    PROVE  UNCHANGED <<jobVars, error_code>> \/ ClaimDispatch(h) \/ MovesJob(h)
<1>1. CASE GetFile(h)
  BY <1>1 DEF GetFile, EndsStale, jobRow, ErrorCode, MovesJob, Active, Settles
<1>2. CASE SettleJob(h)
  BY <1>2 DEF SettleJob, EndsStale, jobRow, ErrorCode, MovesJob, Active, Settles
<1>3. CASE SettleRetryableFailure(h)
  BY <1>3 DEF SettleRetryableFailure, EndsStale, jobRow, ErrorCode, MovesJob, Active, Settles
<1>4. CASE \/ VerifyFinal(h) \/ LockForTransition(h) \/ Transition(h) \/ ScanFileObject(h)
           \/ NotifyUploader(h) \/ HandlerRaises(h) \/ WorkerCrash(h)
  BY <1>4 DEF VerifyFinal, LockForTransition, Transition, ScanFileObject, NotifyUploader,
     HandlerRaises, WorkerCrash, EndsStale, jobRow
<1> QED
  BY <1>1, <1>2, <1>3, <1>4 DEF HandlerStep

\* Once the job is there, of the other steps only a deletion writes the row.
LEMMA AfterCompletion ==
    ASSUME Inv, OtherStep, jobs = 1
    PROVE  /\ row' = row \/ \E d \in Deleters : CommitDeletion(d)
           /\ jobs' = 1
           /\ final' \in {final, Foreign, NoBytes}
           /\ UNCHANGED <<jobVars, error_code>> \/ JobFailsElsewhere \/ RequeueAbandonedJob
<1>1. \A c \in Completers : ~Holds(c)
  BY DEF Inv, LockInv, RowInv
<1>2. ~CreateUploadIntent /\ \A c \in Completers : ~Commits(c) /\ ~Fails(c)
  BY <1>1 DEF Inv, RowInv, CreateUploadIntent, Commits, Fails, Holds
<1>3. row' = row \/ \E d \in Deleters : CommitDeletion(d)
  BY <1>2, RowChanges
<1>4. jobs' = jobs
  BY <1>2, RowChanges DEF CommitDeletion
<1>5. ASSUME NEW c \in Completers, CompleterStep(c)
      PROVE  final' = final
  BY <1>1, <1>5 DEF CompleterStep, LockForCompletion, VerifyStaging, CopyObject,
     CommitCompletion, DeleteStaging, CompleterCrash, Holds, objects
<1>6. ASSUME NEW d \in Deleters, DeleterStep(d)
      PROVE  final' \in {final, NoBytes}
  BY <1>6 DEF DeleterStep, ReadForDeletion, RemoveObject, CommitDeletion, DeleterCrash,
     objects
<1>7. final' \in {final, Foreign, NoBytes}
  BY <1>5, <1>6 DEF OtherStep, CreateUploadIntent, ClientPut, OverwriteFinal, LeaseExpires,
     JobFailsElsewhere, RequeueAbandonedJob, objects
<1> QED
  BY <1>2, <1>3, <1>4, <1>7, JobChanges

\* The job and the count of jobs.
LEMMA NextJob ==
    ASSUME Inv, [Next]_vars
    PROVE  JobInv'
<1> USE DEF Inv
<1>1. ASSUME NEW h \in Handlers, HandlerStep(h) PROVE JobInv'
  <2>1. jobs' = jobs
    BY <1>1, HandlerFrame
  <2>2. CASE UNCHANGED <<jobVars, error_code>>
    BY <2>1, <2>2 DEF JobInv, jobVars
  <2>3. CASE ClaimDispatch(h)
    BY <2>1, <2>3, JobSteps DEF ClaimDispatch, JobInv
  <2>4. CASE MovesJob(h)
    BY <2>1, <2>4, JobSteps DEF MovesJob, Owns, JobInv
  <2> QED
    BY <1>1, <2>2, <2>3, <2>4, HandlerJob
<1>2. CASE OtherStep
  <2>1. CASE jobs = 1
    BY <1>2, <2>1, AfterCompletion, JobSteps DEF JobInv, jobVars, JobFailsElsewhere,
       RequeueAbandonedJob
  <2>2. CASE jobs = 0
    <3>1. state = "absent" /\ error_code = "none"
      BY <2>2 DEF JobInv
    <3>2. ~JobFailsElsewhere /\ ~RequeueAbandonedJob
      BY <3>1, JobSteps DEF JobFailsElsewhere, RequeueAbandonedJob
    <3>3. ASSUME NEW c \in Completers, Commits(c)
          PROVE  JobInv'
      BY <2>2, <3>1, <3>3, JobSteps DEF Commits, JobInv
    <3>4. ASSUME \A c \in Completers : ~Commits(c)
          PROVE  JobInv'
      <4>1. UNCHANGED <<jobVars, error_code>>
        BY <1>2, <3>2, <3>4, JobChanges
      <4>2. jobs' = jobs
        BY <1>2, <3>4, RowChanges DEF CreateUploadIntent, Fails, CommitDeletion
      <4> QED
        BY <4>1, <4>2 DEF JobInv, jobVars
    <3> QED
      BY <3>3, <3>4
  <2> QED
    BY <2>1, <2>2 DEF JobInv
<1>3. CASE UNCHANGED vars
  BY <1>3 DEF vars, jobRow, jobVars, JobInv
<1> QED
  BY <1>1, <1>2, <1>3, NextSplit

\* A handler that may write the row has it to itself.
LEMMA WriterOwns ==
    ASSUME Inv, NEW h \in Handlers, Writes(h)
    PROVE  /\ Owns(h) /\ jobs = 1 /\ error_code = "none"
           /\ row.status \in {handlers[h].seen, "deleted"}
           /\ handlers[h].aim \in Aim
           /\ row'.status = handlers[h].aim
           /\ UNCHANGED <<row.key, row.identity, row.deleted>>
<1>1. Owns(h) /\ Active(h) /\ Viewing(h)
  BY DEF Inv, OwnInv, Writes, Active, Viewing
<1>2. jobs = 1 /\ error_code = "none"
  BY <1>1 DEF Inv, OwnInv, JobInv, Owns
<1>3. handlers[h].aim \in Aim
  BY DEF Inv, ProgressInv, ProgressOf, Writes
<1>4. row'.status = handlers[h].aim /\ UNCHANGED <<row.key, row.identity, row.deleted>>
  BY DEF Inv, TypeOK, Row, Writes
<1> QED
  BY <1>1, <1>2, <1>3, <1>4 DEF Inv, ViewInv

\* The row and the count of jobs.
LEMMA NextRow ==
    ASSUME Inv, [Next]_vars
    PROVE  RowInv'
<1> USE DEF Inv, RowInv, PostCompletion
<1>1. ASSUME NEW h \in Handlers, HandlerStep(h) PROVE RowInv'
  BY <1>1, HandlerFrame, WriterOwns DEF Aim
<1>2. CASE OtherStep
  <2>1. CASE UNCHANGED <<row, jobs>>
    BY <2>1
  <2>2. CASE CreateUploadIntent
    BY <2>2 DEF CreateUploadIntent, TypeOK, Row
  <2>3. ASSUME NEW c \in Completers, Commits(c)
        PROVE  RowInv'
    <3>1. jobs = 0
      BY <2>3 DEF Commits, LockInv, Holds
    <3> QED
      BY <2>3, <3>1 DEF Commits, Uploaded
  <2>4. ASSUME NEW c \in Completers, Fails(c)
        PROVE  RowInv'
    BY <2>4 DEF Fails, TypeOK, Row
  <2>5. ASSUME NEW d \in Deleters, CommitDeletion(d)
        PROVE  RowInv'
    BY <2>5 DEF CommitDeletion, TypeOK, Row
  <2> QED
    BY <1>2, <2>1, <2>2, <2>3, <2>4, <2>5, RowChanges
<1>3. CASE UNCHANGED vars
  BY <1>3 DEF vars
<1> QED
  BY <1>1, <1>2, <1>3, NextSplit

\* The row's lock.
LEMMA NextLock ==
    ASSUME Inv, [Next]_vars
    PROVE  LockInv'
<1> USE DEF Inv, LockInv
<1>1. CASE RowFree /\ completers' = completers
  BY <1>1 DEF RowFree, Holds
<1>2. CASE row' = row /\ completers' = completers
  BY <1>2 DEF Holds
<1>3. ASSUME NEW h \in Handlers, HandlerStep(h) PROVE LockInv'
  BY <1>1, <1>2, <1>3, HandlerFrame DEF Writes
<1>4. ASSUME NEW c \in Completers, CompleterStep(c) PROVE LockInv'
  <2>1. \A e \in Completers \ {c} : completers'[e] = completers[e]
    <3>1. CASE LockForCompletion(c)
      BY <3>1 DEF LockForCompletion, TypeOK
    <3> QED
      BY <1>4, <3>1 DEF CompleterStep, VerifyStaging, CopyObject,
         CommitCompletion, FailCompletion, DeleteStaging, CompleterCrash, TypeOK
  <2>2. CASE LockForCompletion(c)
    <3>1. row' = row /\ row.status = "pending" /\ \A e \in Completers : ~Holds(e)
      BY <2>2 DEF LockForCompletion, RowFree, MayComplete, Holds
    <3> QED
      BY <2>1, <3>1 DEF Holds
  <2>3. CASE Holds(c) /\ row' = row
    BY <2>1, <2>3 DEF Holds
  <2>4. CASE Holds(c) /\ ~Holds(c)'
    BY <2>1, <2>4 DEF Holds
  <2>5. CASE ~Holds(c)' /\ row' = row
    BY <2>1, <2>5 DEF Holds
  <2>6. FailCompletion(c) => completers'[c].phase = "idle"
    BY DEF FailCompletion, NoCompletion, TypeOK
  <2>7. CASE VerifyStaging(c) \/ CopyObject(c)
    BY <2>3, <2>4, <2>6, <2>7 DEF VerifyStaging, CopyObject, Holds
  <2>8. CASE CommitCompletion(c)
    <3>1. completers'[c].phase \in {"committed", "idle"}
      BY <2>6, <2>8 DEF CommitCompletion, TypeOK, Completer
    <3> QED
      BY <2>4, <2>8, <3>1 DEF CommitCompletion, Holds
  <2>9. CASE DeleteStaging(c) \/ CompleterCrash(c)
    BY <2>5, <2>9 DEF DeleteStaging, CompleterCrash, NoCompletion, Holds, TypeOK
  <2> QED
    BY <1>4, <2>2, <2>7, <2>8, <2>9 DEF CompleterStep
<1>5. CASE CreateUploadIntent
  BY <1>1, <1>5 DEF CreateUploadIntent, requests, RowFree, Holds
<1>6. ASSUME NEW d \in Deleters, DeleterStep(d) PROVE LockInv'
  BY <1>1, <1>2, <1>6 DEF DeleterStep, ReadForDeletion, RemoveObject, CommitDeletion,
     DeleterCrash
<1>7. CASE \/ ClientPut \/ OverwriteFinal \/ LeaseExpires \/ JobFailsElsewhere
           \/ RequeueAbandonedJob \/ UNCHANGED vars
  BY <1>2, <1>7 DEF ClientPut, OverwriteFinal, LeaseExpires, JobFailsElsewhere,
     RequeueAbandonedJob, vars, requests
<1> QED
  BY <1>3, <1>4, <1>5, <1>6, <1>7 DEF Next

\* Nobody is active before the job is there.
LEMMA NoJobNoHandler ==
    ASSUME Inv, jobs = 0
    PROVE  \A h \in Handlers : ~Active(h)
BY DEF Inv, OwnInv

\* A credential is given to one handler, and none is given twice.
LEMMA NextOwn ==
    ASSUME Inv, [Next]_vars
    PROVE  OwnInv'
<1> USE DEF Inv
<1>1. ASSUME NEW h \in Handlers, HandlerStep(h) PROVE OwnInv'
  <2>1. /\ jobs' = jobs
        /\ \A g \in Handlers \ {h} : handlers'[g] = handlers[g]
    BY <1>1, HandlerFrame, HandlersMove
  <2>2. CASE ClaimDispatch(h)
    <3>1. /\ owner' = owner + 1 /\ owner \in Nat /\ state \in {"queued", "running"}
          /\ handlers'[h].own = owner' /\ handlers'[h].phase = "claimed"
          /\ \A g \in Handlers : handlers[g].phase # "locked"
      <4>1. /\ owner' = owner + 1 /\ state \in {"queued", "running"}
            /\ handlers' = [handlers EXCEPT ![h].phase = "claimed", ![h].own = owner']
        BY <2>2, JobSteps DEF ClaimDispatch
      <4> QED
        BY <2>2, <4>1 DEF ClaimDispatch, JobFree, TypeOK, Handler
    <3>2. jobs' = 1
      BY <2>1, <3>1 DEF JobInv
    <3>3. ASSUME NEW g \in Handlers \ {h}, Active(g)'
          PROVE  Active(g) /\ handlers'[g].own \in 1..owner
      BY <2>1, <3>3 DEF OwnInv, Active
    <3>4. ASSUME NEW f \in Handlers \ {h}, NEW g \in Handlers \ {h}, Active(f)', Active(g)',
                 handlers'[g].own = handlers'[f].own
          PROVE  g = f
      BY <2>1, <3>3, <3>4 DEF OwnInv
    <3>5. ASSUME NEW g \in Handlers, Active(g)'
          PROVE  /\ handlers'[g].own \in 1..owner'
                 /\ handlers'[g].own = owner' <=> g = h
      <4>1. CASE g = h
        BY <3>1, <4>1
      <4>2. CASE g # h
        <5>1. handlers'[g].own \in 1..owner
          BY <3>3, <3>5, <4>2
        <5> QED
          BY <3>1, <4>2, <5>1
      <4> QED
        BY <4>1, <4>2
    <3>6. ASSUME NEW f \in Handlers, NEW g \in Handlers, Active(f)', Active(g)',
                 handlers'[g].own = handlers'[f].own
          PROVE  g = f
      BY <3>4, <3>5, <3>6
    <3>7. \A g \in Handlers : handlers'[g].phase # "locked"
      BY <2>1, <3>1
    <3> QED
      BY <3>2, <3>5, <3>6, <3>7 DEF OwnInv
  <2>3. CASE ~ClaimDispatch(h)
    <3>0. UNCHANGED jobVars \/ MovesJob(h)
      BY <1>1, <2>3, HandlerJob
    <3>1. owner \in Nat /\ owner' \in {owner, owner + 1}
      BY <3>0, JobSteps DEF MovesJob, jobVars, TypeOK
    <3>2. ASSUME NEW g \in Handlers, Active(g)'
          PROVE  Active(g) /\ handlers'[g].own = handlers[g].own
      <4>1. handlers'[h].phase # "idle" => Active(h) /\ handlers'[h].own = handlers[h].own
        <5>1. Idle.phase = "idle"
          BY DEF Idle
        <5> QED
          BY <1>1, <2>3, <5>1, HandlersMove
      <4> QED
        BY <2>1, <3>2, <4>1 DEF Active
    <3>3. ASSUME NEW g \in Handlers, Active(g)'
          PROVE  /\ jobs' = 1 /\ handlers'[g].own \in 1..owner'
                 /\ \A f \in Handlers :
                      Active(f)' /\ handlers'[f].own = handlers'[g].own => f = g
      <4>1. Active(g) /\ handlers'[g].own = handlers[g].own /\ handlers[g].own \in 1..owner
        BY <3>2, <3>3 DEF OwnInv
      <4>2. handlers'[g].own \in 1..owner'
        BY <3>1, <4>1
      <4> QED
        BY <2>1, <3>2, <4>1, <4>2 DEF OwnInv
    <3>4. ASSUME NEW g \in Handlers \ {h}, handlers[g].phase = "locked"
          PROVE  Owns(g)'
      <4>1. Owns(g) /\ Active(g)
        BY <3>4 DEF OwnInv, Active
      <4>2. ~MovesJob(h)
        BY <4>1 DEF MovesJob, OwnInv, Owns
      <4> QED
        BY <2>1, <3>0, <4>1, <4>2 DEF Owns, jobVars
    <3>5. ASSUME handlers'[h].phase = "locked"
          PROVE  Owns(h)'
      <4>1. Owns(h) /\ Moves(h, "locked") /\ UNCHANGED jobRow
        <5>1. ~Ends(h)
          BY <3>5 DEF Ends, Idle, TypeOK
        <5>2. \A phase : Moves(h, phase) => phase = "locked"
          BY <3>5 DEF Moves, TypeOK, Handler
        <5>3. \A phase, aim : MovesTo(h, phase, aim) => phase = "locked"
          BY <3>5 DEF MovesTo, TypeOK, Handler
        <5>4. ~GetFile(h)
          BY <3>5, <5>1 DEF GetFile, Settles, EndsStale, TypeOK, Handler
        <5>5. ~VerifyFinal(h) /\ ~ScanFileObject(h)
          BY <5>1, <5>3 DEF VerifyFinal, ScanFileObject, EndsStale
        <5>6. ~Transition(h)
          <6>1. ASSUME NEW next \in {"scanning", "marked"}
                PROVE  handlers' # [handlers EXCEPT ![h].phase = next, ![h].seen = handlers[h].aim]
            BY <3>5, <6>1 DEF TypeOK, Handler
          <6> QED
            BY <5>2, <6>1 DEF Transition
        <5>7. /\ ~NotifyUploader(h) /\ ~SettleJob(h) /\ ~HandlerRaises(h)
              /\ ~SettleRetryableFailure(h) /\ ~WorkerCrash(h)
          BY <5>1, <5>2 DEF NotifyUploader, SettleJob, Settles, EndsStale, HandlerRaises,
             SettleRetryableFailure, WorkerCrash
        <5>8. LockForTransition(h)
          BY <1>1, <2>3, <5>4, <5>5, <5>6, <5>7 DEF HandlerStep
        <5> QED
          BY <5>1, <5>2, <5>8 DEF LockForTransition, EndsStale
      <4> QED
        BY <4>1 DEF Owns, Moves, jobRow, jobVars, TypeOK, Handler
    <3> QED
      BY <2>1, <3>3, <3>4, <3>5 DEF OwnInv
  <2> QED
    BY <2>2, <2>3
<1>2. CASE OtherStep
  <2>1. UNCHANGED handlers
    BY <1>2, OtherFrame
  <2>2. CASE jobs = 1
    <3>1. CASE UNCHANGED jobVars
      BY <1>2, <2>1, <2>2, <3>1, AfterCompletion DEF OwnInv, Active, Owns, jobVars
    <3>2. CASE JobFailsElsewhere \/ RequeueAbandonedJob
      <4>1. owner' \in {owner, owner + 1} /\ owner \in Nat
            /\ \A h \in Handlers : handlers[h].phase # "locked"
        BY <3>2, JobSteps DEF JobFailsElsewhere, RequeueAbandonedJob, JobFree, TypeOK
      <4> QED
        BY <1>2, <2>1, <2>2, <4>1, AfterCompletion DEF OwnInv, Active
    <3> QED
      BY <1>2, <2>2, <3>1, <3>2, AfterCompletion DEF jobVars
  <2>3. CASE jobs = 0
    BY <2>1, <2>3, NoJobNoHandler DEF OwnInv, Active
  <2> QED
    BY <2>2, <2>3 DEF JobInv
<1>3. CASE UNCHANGED vars
  BY <1>3 DEF vars, jobRow, jobVars, OwnInv, Active, Owns
<1> QED
  BY <1>1, <1>2, <1>3, NextSplit

\* Where a handler may be after its step, and what it then knows.
After(h) ==
    LET e == handlers[h]
        n == handlers'[h]
    IN  \/ n = Idle
        \/ n.phase = "claimed" /\ n.aim = e.aim /\ ~Active(h)
        \/ n.phase \in {"raised", "conflict"} /\ n.aim \in {e.aim, "none"} /\ Active(h)
        \/ /\ n.phase = "loaded" /\ n.seen = row.status /\ n.aim = e.aim
           /\ e.phase = "claimed" /\ Visible
        \/ /\ n.phase = "aimed" /\ n.seen = e.seen
           /\ \/ e.phase = "loaded" /\ n.aim \in {"processing", "failed"}
              \/ /\ e.phase = "scanning" /\ n.aim \in {"ready", "quarantined"}
                 /\ n.aim = "ready" => final \notin Harmful
        \/ n.phase = "locked" /\ e.phase = "aimed" /\ n.seen = e.seen /\ n.aim = e.aim
        \/ /\ e.phase = "locked" /\ n.aim = e.aim
           /\ n.phase = IF e.aim = "processing" THEN "scanning" ELSE "marked"
           /\ \/ e.seen \in Keeps[e.aim] /\ n.seen = e.seen
              \/ Writes(h) /\ n.seen = e.aim
        \/ /\ n.phase = "notified" /\ e.phase = "marked" /\ n.seen = e.seen /\ n.aim = e.aim
           /\ Told(e.aim) \in notified'

\* The row is written in the last step of a transition.
LEMMA HandlerAfter ==
    ASSUME TypeOK, ProgressInv, NEW h \in Handlers, HandlerStep(h)
    PROVE  /\ After(h)
           /\ \/ row' = row
              \/ /\ Writes(h) /\ handlers'[h].seen = handlers[h].aim
                 /\ handlers'[h].phase \in {"scanning", "marked"}
           /\ handlers'[h].phase \notin {"idle", "claimed"} => UNCHANGED jobRow
<1>0. handlers[h] \in Handler /\ Idle.phase = "idle"
  BY DEF TypeOK, Idle
<1>1. ASSUME Ends(h)
      PROVE  handlers'[h] = Idle
  BY <1>1 DEF Ends, TypeOK
<1>2. ASSUME NEW phase, Moves(h, phase)
      PROVE  handlers'[h].phase = phase /\ handlers'[h].seen = handlers[h].seen
             /\ handlers'[h].aim = handlers[h].aim
  BY <1>0, <1>2 DEF Moves, TypeOK, Handler
<1>3. ASSUME NEW phase, NEW aim, MovesTo(h, phase, aim)
      PROVE  handlers'[h].phase = phase /\ handlers'[h].seen = handlers[h].seen
             /\ handlers'[h].aim = aim
  BY <1>0, <1>3 DEF MovesTo, TypeOK, Handler
<1>4. CASE Ends(h) /\ row' = row
  BY <1>0, <1>1, <1>4 DEF After
<1>5. CASE ClaimDispatch(h)
  <2>1. handlers'[h].phase = "claimed" /\ handlers'[h].aim = handlers[h].aim
    BY <1>0, <1>5 DEF ClaimDispatch, TypeOK, Handler
  <2> QED
    BY <1>5, <2>1 DEF ClaimDispatch, After
<1>6. CASE GetFile(h)
  <2>1. CASE handlers' = [handlers EXCEPT ![h].phase = "loaded", ![h].seen = row.status]
             /\ Visible /\ UNCHANGED <<jobRow, row, notified>>
    <3>1. handlers'[h].phase = "loaded" /\ handlers'[h].seen = row.status
          /\ handlers'[h].aim = handlers[h].aim
      BY <1>0, <2>1 DEF TypeOK, Handler
    <3> QED
      BY <1>6, <2>1, <3>1 DEF GetFile, After
  <2> QED
    BY <1>4, <1>6, <2>1 DEF GetFile, Settles, EndsStale
<1>7. CASE VerifyFinal(h)
  <2>1. CASE \E aim \in {"processing", "failed"} : MovesTo(h, "aimed", aim)
    BY <1>3, <1>7, <2>1 DEF VerifyFinal, EndsStale, After
  <2> QED
    BY <1>4, <1>7, <2>1 DEF VerifyFinal, EndsStale
<1>8. CASE LockForTransition(h)
  <2>1. CASE Moves(h, "locked") \/ Moves(h, "raised")
    BY <1>2, <1>8, <2>1 DEF LockForTransition, EndsStale, After, Active
  <2> QED
    BY <1>4, <1>8, <2>1 DEF LockForTransition, EndsStale
<1>9. CASE Transition(h)
  <2> DEFINE next == IF handlers[h].aim = "processing" THEN "scanning" ELSE "marked"
  <2>1. UNCHANGED jobRow /\ handlers[h].phase = "locked"
    BY <1>9 DEF Transition
  <2>2. CASE handlers[h].seen \in Keeps[handlers[h].aim] /\ Moves(h, next) /\ row' = row
    BY <1>2, <2>1, <2>2 DEF After
  <2>3. CASE Moves(h, "conflict") /\ row' = row
    BY <1>2, <2>1, <2>3 DEF After, Active
  <2>4. CASE /\ handlers[h].seen \in Leaves[handlers[h].aim] \ Keeps[handlers[h].aim]
             /\ row' = [row EXCEPT !.status = handlers[h].aim]
             /\ handlers' = [handlers EXCEPT ![h].phase = next, ![h].seen = handlers[h].aim]
    <3>1. handlers'[h].phase = next /\ handlers'[h].seen = handlers[h].aim
          /\ handlers'[h].aim = handlers[h].aim
      BY <1>0, <2>4 DEF TypeOK, Handler
    <3>2. Writes(h)
      BY <1>9, <2>4 DEF Transition, Writes
    <3> QED
      BY <2>1, <3>1, <3>2 DEF After
  <2> QED
    BY <1>9, <2>2, <2>3, <2>4 DEF Transition
<1>10. CASE ScanFileObject(h)
  <2>1. PICK aim \in Verdict(final) :
          MovesTo(h, IF aim = "none" THEN "raised" ELSE "aimed", aim)
    BY <1>10 DEF ScanFileObject
  <2>2. aim \in {"ready", "quarantined", "none"} /\ (aim = "ready" => final \notin Harmful)
    BY DEF Verdict
  <2> QED
    BY <1>3, <1>10, <2>1, <2>2 DEF ScanFileObject, After, Active
<1>11. CASE NotifyUploader(h)
  <2>1. CASE Moves(h, "notified") /\ ~EndsStale(h)
    <3>1. Told(handlers[h].aim) \in notified'
      BY <1>11, <2>1 DEF NotifyUploader, Told
    <3> QED
      BY <1>2, <1>11, <2>1, <3>1 DEF NotifyUploader, After
  <2> QED
    BY <1>4, <1>11, <2>1 DEF NotifyUploader, EndsStale
<1>12. CASE SettleJob(h) \/ SettleRetryableFailure(h) \/ WorkerCrash(h)
  BY <1>4, <1>12 DEF SettleJob, Settles, EndsStale, SettleRetryableFailure, WorkerCrash
<1>13. CASE HandlerRaises(h)
  BY <1>2, <1>13 DEF HandlerRaises, After, Active
<1> QED
  BY <1>5, <1>6, <1>7, <1>8, <1>9, <1>10, <1>11, <1>12, <1>13 DEF HandlerStep

\* A handler that owns the job after its own step, past the claim, owned it before.
LEMMA OwnedBefore ==
    ASSUME Inv, NEW h \in Handlers, HandlerStep(h), Owns(h)',
           handlers'[h].phase \notin {"idle", "claimed"}
    PROVE  Owns(h)
<1> USE DEF Inv
<1>1. UNCHANGED jobRow
  BY HandlerAfter
<1>2. handlers[h] \in Handler /\ Idle.phase = "idle"
  BY DEF TypeOK, Idle
<1>3. [handlers[h] EXCEPT !.phase = "claimed", !.own = owner'].phase = "claimed"
  BY <1>2 DEF Handler
<1>4. handlers'[h].own = handlers[h].own
  BY <1>2, <1>3, HandlersMove
<1> QED
  BY <1>1, <1>4 DEF Owns, jobRow, jobVars

\* While another handler moves, an owner keeps the job and its row.
LEMMA OwnerUndisturbed ==
    ASSUME Inv, NEW h \in Handlers, HandlerStep(h),
           NEW g \in Handlers \ {h}, Owns(g)', Active(g)'
    PROVE  handlers'[g] = handlers[g] /\ Active(g) /\ Owns(g) /\ row' = row
<1> USE DEF Inv
<1>1. handlers'[g] = handlers[g]
  BY HandlersMove
<1>2. Active(g)
  BY <1>1 DEF Active
<1>3. ~MovesJob(h)
  BY JobSteps DEF MovesJob, Owns
<1>4. ~ClaimDispatch(h)
  <2>1. ClaimDispatch(h) => owner' = owner + 1
    BY JobSteps DEF ClaimDispatch
  <2>2. handlers[g].own \in 1..owner /\ owner \in Nat /\ handlers'[g].own = owner'
    BY <1>1, <1>2 DEF OwnInv, Owns, TypeOK
  <2> QED
    BY <1>1, <2>1, <2>2
<1>5. Owns(g)
  BY <1>1, <1>3, <1>4, HandlerJob DEF Owns, jobVars
<1>6. row' = row
  <2>1. CASE Writes(h)
    <3>1. Owns(h) /\ Active(h)
      BY <2>1, WriterOwns DEF Writes, Active
    <3> QED
      BY <1>2, <1>5, <3>1 DEF OwnInv, Owns
  <2> QED
    BY <2>1, HandlerFrame
<1> QED
  BY <1>1, <1>2, <1>5, <1>6

\* Nor do the other steps take the job from its owner without ending its attempt.
LEMMA OwnerOutside ==
    ASSUME Inv, OtherStep, NEW g \in Handlers, Owns(g)', Active(g)'
    PROVE  handlers' = handlers /\ Active(g) /\ Owns(g) /\ jobs = 1
<1> USE DEF Inv
<1>1. handlers' = handlers /\ Active(g) /\ jobs = 1
  BY OtherFrame DEF OwnInv, Active
<1>2. ~JobFailsElsewhere /\ ~RequeueAbandonedJob
  BY JobSteps DEF JobFailsElsewhere, RequeueAbandonedJob, Owns
<1> QED
  BY <1>1, <1>2, AfterCompletion DEF Owns, jobVars

\* The owner's knowledge of the row.
LEMMA NextView ==
    ASSUME Inv, [Next]_vars
    PROVE  ViewInv'
<1> USE DEF Inv
<1>1. ASSUME NEW h \in Handlers, HandlerStep(h),
             NEW g \in Handlers, Owns(g)', Viewing(g)'
      PROVE  row'.status \in {handlers'[g].seen, "deleted"}
  <2>1. CASE g = h
    <3>1. /\ Owns(h)' /\ Viewing(h)' /\ After(h)
          /\ \/ row' = row
             \/ Writes(h) /\ handlers'[h].seen = handlers[h].aim
      BY <1>1, <2>1, HandlerAfter
    <3>2. handlers'[h].phase \notin {"idle", "claimed"}
      BY <3>1 DEF Viewing
    <3>3. CASE Writes(h) /\ handlers'[h].seen = handlers[h].aim
      BY <2>1, <3>3, WriterOwns
    <3>4. CASE row' = row /\ handlers'[h].seen = row.status
      BY <2>1, <3>4
    <3>5. CASE row' = row /\ handlers'[h].seen = handlers[h].seen /\ Viewing(h)
      <4>1. Owns(h)
        BY <1>1, <3>1, <3>2, OwnedBefore
      <4> QED
        BY <2>1, <3>5, <4>1 DEF ViewInv
    <3> QED
      <4>1. handlers'[h].phase \in {"loaded", "aimed", "locked", "scanning", "marked", "notified"}
        BY <3>1 DEF Viewing
      <4>2. \/ handlers'[h].seen = row.status
            \/ handlers'[h].seen = handlers[h].seen /\ Viewing(h)
            \/ Writes(h) /\ handlers'[h].seen = handlers[h].aim
        BY <3>1, <4>1 DEF After, Idle, Viewing
      <4> QED
        BY <3>1, <3>3, <3>4, <3>5, <4>2
  <2>2. CASE g # h
    <3>1. Active(g)'
      BY <1>1 DEF Viewing, Active
    <3>2. handlers'[g] = handlers[g] /\ Owns(g) /\ row' = row
      BY <1>1, <2>2, <3>1, OwnerUndisturbed
    <3> QED
      BY <1>1, <3>2 DEF ViewInv, Viewing
  <2> QED
    BY <2>1, <2>2
<1>2. ASSUME OtherStep,
             NEW g \in Handlers, Owns(g)', Viewing(g)'
      PROVE  row'.status \in {handlers'[g].seen, "deleted"}
  <2>1. Active(g)'
    BY <1>2 DEF Viewing, Active
  <2>2. handlers' = handlers /\ Owns(g) /\ jobs = 1
    BY <1>2, <2>1, OwnerOutside
  <2>3. Viewing(g)
    BY <1>2, <2>2 DEF Viewing
  <2>4. CASE row' = row
    BY <2>2, <2>3, <2>4 DEF ViewInv
  <2>5. CASE \E d \in Deleters : CommitDeletion(d)
    BY <2>5 DEF CommitDeletion, TypeOK, Row
  <2> QED
    BY <1>2, <2>2, <2>4, <2>5, AfterCompletion
<1>3. CASE UNCHANGED vars
  BY <1>3 DEF vars, jobRow, jobVars, ViewInv, Owns, Viewing
<1> QED
  BY <1>1, <1>2, <1>3, NextSplit DEF ViewInv

\* What a handler knows of its own progress.
LEMMA NextProgress ==
    ASSUME Inv, [Next]_vars
    PROVE  ProgressInv'
<1> USE DEF Inv
<1>1. ASSUME NEW h \in Handlers, HandlerStep(h) PROVE ProgressInv'
  <2>1. notified \subseteq notified' /\ \A g \in Handlers \ {h} : handlers'[g] = handlers[g]
    BY <1>1, HandlerFrame, HandlersMove DEF NotifyUploader, EndsStale
  <2>2. Visible => row.status # "deleted"
    BY DEF RowInv, Visible
  <2>3. After(h)
    BY <1>1, HandlerAfter
  <2>4. Idle.phase = "idle"
    BY DEF Idle
  <2>5. \A g \in Handlers \ {h} : ProgressOf(g)'
    BY <2>1 DEF ProgressInv, ProgressOf, Viewing
  <2>6. ProgressOf(h)'
    BY <2>2, <2>3, <2>4 DEF ProgressInv, ProgressOf, Viewing, After, Keeps, Aim, Told
  <2> QED
    BY <2>5, <2>6 DEF ProgressInv
<1>2. CASE UNCHANGED <<handlers, notified>>
  BY <1>2 DEF ProgressInv, ProgressOf, Viewing
<1> QED
  BY <1>1, <1>2, NextSplit, OtherFrame DEF vars

\* The outcomes of the job, of the file and of the notification.
LEMMA NextOutcomes ==
    ASSUME Inv, [Next]_vars
    PROVE  OutcomesAgree'
<1> USE DEF Inv
<1>1. CASE UNCHANGED <<state, error_code, row>> /\ notified \subseteq notified'
  BY <1>1 DEF OutcomesAgree
<1>2. CASE state' # "succeeded" /\ error_code' \in {"none", "retries_exhausted", "dispatch_invalid"}
  BY <1>2 DEF OutcomesAgree
<1>3. ASSUME NEW h \in Handlers, HandlerStep(h) PROVE OutcomesAgree'
  <2>1. CASE Writes(h)
    BY <1>2, <2>1, WriterOwns DEF Writes, jobRow, jobVars, Owns
  <2>2. notified \subseteq notified'
    BY <1>3, HandlerFrame DEF NotifyUploader, EndsStale
  <2>3. CASE ClaimDispatch(h)
    BY <1>2, <2>3, JobSteps DEF ClaimDispatch, JobInv
  <2>4. CASE GetFile(h) /\ MovesJob(h)
    <3>1. /\ Owns(h) /\ ~Visible /\ state' # "succeeded" /\ error_code' = "file_not_found"
          /\ row' = row
      BY <2>4 DEF GetFile, Settles, EndsStale, MovesJob, Ends, Idle, TypeOK, Handler
    <3>2. row.deleted
      BY <2>4, <3>1 DEF MovesJob, OwnInv, RowInv, Visible
    <3> QED
      BY <3>1, <3>2 DEF OutcomesAgree
  <2>5. CASE SettleJob(h) /\ MovesJob(h)
    <3>1. /\ row.status \in {handlers[h].aim, "deleted"}
          /\ Told(handlers[h].aim) \in notified
      BY <2>5 DEF SettleJob, MovesJob, ViewInv, Viewing, ProgressInv, ProgressOf
    <3>2. /\ UNCHANGED <<row, notified>>
          /\ \/ handlers[h].aim = "ready" /\ state' = "succeeded" /\ error_code' = "none"
             \/ /\ handlers[h].aim = "failed" /\ state' = "failed"
                /\ error_code' = "file_verification_failed"
             \/ /\ handlers[h].aim = "quarantined" /\ state' = "failed"
                /\ error_code' = "file_quarantined"
      BY <2>5 DEF SettleJob, Settles, MovesJob, EndsStale
    <3> QED
      BY <3>1, <3>2 DEF OutcomesAgree, Told
  <2>6. CASE SettleRetryableFailure(h) /\ MovesJob(h)
    <3>1. state' # "succeeded" /\ error_code' \in {"retries_exhausted", error_code}
      BY <2>6, JobSteps DEF SettleRetryableFailure, Settles, EndsStale, MovesJob
    <3>2. error_code = "none"
      BY <2>6 DEF MovesJob, Owns, JobInv
    <3> QED
      BY <1>2, <3>1, <3>2
  <2>7. CASE MovesJob(h) /\ ~GetFile(h) /\ ~SettleJob(h) /\ ~SettleRetryableFailure(h)
             /\ ~ClaimDispatch(h)
    <3>1. UNCHANGED <<jobVars, error_code>>
      BY <1>3, <2>7 DEF HandlerStep, VerifyFinal, LockForTransition, Transition,
         ScanFileObject, NotifyUploader, HandlerRaises, WorkerCrash, EndsStale, jobRow
    <3> QED
      BY <1>1, <1>3, <2>1, <2>2, <3>1, HandlerFrame DEF jobVars
  <2>8. CASE UNCHANGED <<jobVars, error_code>>
    BY <1>1, <1>3, <2>1, <2>2, <2>8, HandlerFrame DEF jobVars
  <2> QED
    BY <1>3, <2>3, <2>4, <2>5, <2>6, <2>7, <2>8, HandlerJob
<1>4. CASE OtherStep
  <2>1. notified' = notified
    BY <1>4, OtherFrame
  <2>2. CASE jobs = 0
    <3>1. state' # "succeeded" /\ error_code' = "none"
      <4>1. state = "absent" /\ error_code = "none"
        BY <2>2 DEF JobInv
      <4> QED
        BY <1>4, <4>1, JobChanges, JobSteps DEF Commits, JobFailsElsewhere,
           RequeueAbandonedJob, jobVars
    <3> QED
      BY <1>2, <3>1
  <2>3. CASE jobs = 1
    <3>1. CASE JobFailsElsewhere
      BY <1>2, <3>1 DEF JobFailsElsewhere
    <3>2. CASE RequeueAbandonedJob
      <4>1. state' = "queued" /\ error_code' = error_code /\ error_code = "none"
        BY <3>2, JobSteps DEF RequeueAbandonedJob, JobInv
      <4> QED
        BY <1>2, <4>1
    <3>3. CASE UNCHANGED <<jobVars, error_code>> /\ \E d \in Deleters : CommitDeletion(d)
      <4>1. row'.status = "deleted" /\ row'.deleted
        BY <3>3 DEF CommitDeletion, TypeOK, Row
      <4> QED
        BY <2>1, <3>3, <4>1 DEF OutcomesAgree, jobVars
    <3>4. CASE UNCHANGED <<jobVars, error_code>> /\ row' = row
      BY <1>1, <2>1, <3>4 DEF jobVars
    <3> QED
      BY <1>4, <2>3, <3>1, <3>2, <3>3, <3>4, AfterCompletion
  <2> QED
    BY <2>2, <2>3 DEF JobInv
<1>5. CASE UNCHANGED vars
  BY <1>1, <1>5 DEF vars, jobRow, jobVars
<1> QED
  BY <1>3, <1>4, <1>5, NextSplit

\* What was pinned and found harmless stays so, or is overwritten for good.
LEMMA NextClean ==
    ASSUME Inv, [Next]_vars
    PROVE  CleanInv'
<1> USE DEF Inv
<1>1. ASSUME jobs = 1, row'.identity = row.identity, final' \in {final, Foreign, NoBytes}
      PROVE  /\ row'.identity \in Bytes /\ final' \in {row'.identity, Foreign, NoBytes}
             /\ Clean => Clean'
  BY <1>1 DEF CleanInv, Clean
<1>2. ASSUME NEW h \in Handlers, HandlerStep(h) PROVE CleanInv'
  <2>1. /\ UNCHANGED <<jobs, final>> /\ After(h)
        /\ row' = row \/ Writes(h)
        /\ \A g \in Handlers \ {h} : handlers'[g] = handlers[g]
    BY <1>2, HandlerFrame, HandlersMove, HandlerAfter
  <2>2. row'.identity = row.identity
    BY <2>1, WriterOwns
  <2>3. Clean' <=> Clean
    BY <2>1, <2>2 DEF Clean
  <2>4. row'.status = "ready" => Clean
    BY <2>1, WriterOwns DEF CleanInv, Writes
  <2>5. handlers'[h].aim = "ready" => Active(h)' /\ Clean
    BY <2>1 DEF After, CleanInv, Clean, Idle, Active
  <2>6. \A g \in Handlers \ {h} : handlers'[g].aim = "ready" => Active(g)' /\ Clean
    BY <2>1 DEF CleanInv, Active
  <2> QED
    BY <2>1, <2>2, <2>3, <2>4, <2>5, <2>6 DEF CleanInv
<1>3. CASE OtherStep
  <2>1. UNCHANGED handlers
    BY <1>3, OtherFrame
  <2>2. CASE jobs = 1
    <3>1. jobs' = 1 /\ row'.identity = row.identity /\ final' \in {final, Foreign, NoBytes}
          /\ (row'.status = "ready" => row.status = "ready")
      BY <1>3, <2>2, AfterCompletion DEF CommitDeletion, TypeOK, Row
    <3> QED
      BY <1>1, <2>1, <2>2, <3>1 DEF CleanInv, Active
  <2>3. CASE jobs = 0
    <3>1. \A h \in Handlers : handlers'[h].aim # "ready"
      BY <2>1, <2>3, NoJobNoHandler DEF CleanInv
    <3>2. row'.status # "ready" \/ row' = row
      <4>1. ASSUME NEW status, row' = [row EXCEPT !.status = status]
            PROVE  row'.status = status
        BY <4>1 DEF TypeOK, Row
      <4>2. ASSUME NEW c \in Completers, Commits(c) \/ Fails(c)
            PROVE  row'.status # "ready"
        BY <4>1, <4>2 DEF Commits, Uploaded, Fails
      <4>3. CreateUploadIntent => row'.status # "ready"
        BY <4>1 DEF CreateUploadIntent
      <4>4. ASSUME NEW d \in Deleters, CommitDeletion(d)
            PROVE  row'.status # "ready"
        BY <4>4 DEF CommitDeletion, TypeOK, Row
      <4> QED
        BY <1>3, <4>2, <4>3, <4>4, RowChanges
    <3>3. row.status # "ready"
      BY <2>3 DEF RowInv, PostCompletion
    <3>4. ASSUME NEW c \in Completers, Commits(c)
          PROVE  row'.identity \in Bytes /\ final' = row'.identity
      <4>1. final = completers[c].verified /\ final # NoBytes /\ row'.identity = final
            /\ final' = final
        BY <3>4 DEF Commits, Promoted, AsDeclared, Uploaded
      <4>2. completers[c].verified \in Bytes \union {NoBytes}
        BY DEF TypeOK, Completer
      <4> QED
        BY <4>1, <4>2
    <3>5. jobs' = 1 => \E c \in Completers : Commits(c)
      BY <1>3, <2>3, RowChanges DEF CreateUploadIntent, Fails, CommitDeletion
    <3> QED
      BY <3>1, <3>2, <3>3, <3>4, <3>5 DEF CleanInv
  <2> QED
    BY <2>2, <2>3 DEF JobInv
<1>4. CASE UNCHANGED vars
  BY <1>4 DEF vars, objects, CleanInv, Clean, Active
<1> QED
  BY <1>2, <1>3, <1>4, NextSplit

\* The conjunction is an invariant.
LEMMA InvCorrect == Spec => []Inv
<1>1. Inv /\ [Next]_vars => Inv'
  BY NextTypeOK, NextJob, NextRow, NextLock, NextOwn, NextView, NextProgress, NextOutcomes,
     NextClean DEF Inv
<1> QED
  BY <1>1, InitInv, PTL DEF Spec

-----------------------------------------------------------------------------
(* The document.  Its proof needs two facts no other theorem does.         *)

\* Before the completion nothing was deleted, and before the upload nobody
\* deletes.
EarlyInv ==
    /\ row.status \in {"absent", "pending"} => ~row.deleted
    /\ row.status = "absent" => \A d \in Deleters : deleters[d].phase = "idle"

\* An owner that is about to reject a file that is ready knows that its bytes
\* are lost.
LossInv ==
    \A h \in Handlers :
      /\ handlers[h].phase \in {"aimed", "locked"}
      /\ handlers[h].aim \in {"failed", "quarantined"}
      /\ Owns(h) /\ row.status = "ready"
      => final # row.identity

\* The first.
LEMMA NextEarly ==
    ASSUME Inv, EarlyInv, [Next]_vars
    PROVE  EarlyInv'
<1> USE DEF Inv, EarlyInv
<1>1. ASSUME NEW h \in Handlers, HandlerStep(h) PROVE EarlyInv'
  <2>1. deleters' = deleters /\ (row' = row \/ Writes(h))
    BY <1>1, HandlerFrame
  <2>2. CASE Writes(h)
    BY <2>2, WriterOwns DEF Aim
  <2> QED
    BY <2>1, <2>2
<1>2. CASE OtherStep
  <2>1. \/ row' = row
        \/ row'.status # "absent" /\ (row'.status = "pending" => ~row'.deleted)
    <3>1. ASSUME NEW c \in Completers, Commits(c) \/ Fails(c)
          PROVE  row'.status \in {"uploaded", "failed"}
      BY <3>1 DEF Commits, Uploaded, Fails, TypeOK, Row
    <3>2. CreateUploadIntent => row'.status = "pending" /\ ~row'.deleted
      BY DEF CreateUploadIntent, TypeOK, Row
    <3>3. ASSUME NEW d \in Deleters, CommitDeletion(d)
          PROVE  row'.status = "deleted"
      BY <3>3 DEF CommitDeletion, TypeOK, Row
    <3> QED
      BY <1>2, <3>1, <3>2, <3>3, RowChanges
  <2>2. ASSUME row.status = "absent", row' = row, NEW d \in Deleters
        PROVE  deleters'[d].phase = "idle"
    <3>1. ~Visible /\ \A e \in Deleters : deleters[e].phase = "idle"
      BY <2>2 DEF Visible
    <3>2. ASSUME NEW e \in Deleters PROVE ~DeleterStep(e)
      BY <3>1 DEF DeleterStep, ReadForDeletion, RemoveObject, CommitDeletion, DeleterCrash
    <3>3. deleters' = deleters
      BY <1>2, <3>2 DEF OtherStep, CreateUploadIntent, ClientPut, OverwriteFinal,
         CompleterStep, LockForCompletion, VerifyStaging, CopyObject, CommitCompletion,
         DeleteStaging, CompleterCrash, LeaseExpires, JobFailsElsewhere,
         RequeueAbandonedJob, requests
    <3> QED
      BY <3>1, <3>3
  <2> QED
    BY <2>1, <2>2
<1>3. CASE UNCHANGED vars
  BY <1>3 DEF vars, requests
<1> QED
  BY <1>1, <1>2, <1>3, NextSplit

\* A verification that fails saw other bytes than the pinned ones, or none.
LEMMA VerifyAfter ==
    ASSUME TypeOK, NEW h \in Handlers, VerifyFinal(h),
           handlers'[h].phase = "aimed", handlers'[h].aim = "failed"
    PROVE  final # row.identity \/ final = NoBytes
<1> DEFINE ok == final = row.identity /\ final # NoBytes
<1>1. handlers[h] \in Handler /\ Idle.phase = "idle"
  BY DEF TypeOK, Idle
<1>2. ~Ends(h)
  BY <1>1 DEF Ends, TypeOK
<1>3. MovesTo(h, "aimed", IF ok THEN "processing" ELSE "failed")
  BY <1>2 DEF VerifyFinal, EndsStale
<1> HIDE DEF ok
<1>4. handlers'[h].aim = IF ok THEN "processing" ELSE "failed"
  BY <1>1, <1>3 DEF MovesTo, TypeOK, Handler
<1>5. ~ok
  BY <1>4
<1> QED
  BY <1>5 DEF ok

\* A verdict against the bytes is about bytes that the scanner rejects.
LEMMA ScanAfter ==
    ASSUME TypeOK, NEW h \in Handlers, ScanFileObject(h),
           handlers'[h].phase = "aimed", handlers'[h].aim = "quarantined"
    PROVE  final \in Harmful
<1>1. handlers[h] \in Handler
  BY DEF TypeOK
<1>2. PICK aim \in Verdict(final) :
        MovesTo(h, IF aim = "none" THEN "raised" ELSE "aimed", aim)
  BY DEF ScanFileObject
<1>3. aim = "quarantined"
  BY <1>1, <1>2 DEF MovesTo, TypeOK, Handler
<1> QED
  BY <1>2, <1>3 DEF Verdict

\* Only these two steps aim.
LEMMA WhoAims ==
    ASSUME TypeOK, ProgressInv, NEW h \in Handlers, HandlerStep(h),
           handlers'[h].phase = "aimed"
    PROVE  \/ VerifyFinal(h) /\ handlers'[h].aim \in {"processing", "failed"}
           \/ ScanFileObject(h) /\ handlers'[h].aim \in {"ready", "quarantined"}
<1>1. /\ After(h)
      /\ handlers[h].phase \in {"loaded", "scanning"}
      /\ handlers[h].phase = "loaded" => handlers'[h].aim \in {"processing", "failed"}
      /\ handlers[h].phase = "scanning" => handlers'[h].aim \in {"ready", "quarantined"}
  BY HandlerAfter DEF After, Idle
<1>2. handlers[h] \in Handler /\ Idle.phase = "idle"
  BY DEF TypeOK, Idle
<1>3. ~Ends(h)
  BY <1>2 DEF Ends, TypeOK
<1>4. ~Moves(h, "raised")
  BY <1>2 DEF Moves, TypeOK, Handler
<1>5. VerifyFinal(h) \/ ScanFileObject(h)
  BY <1>1, <1>3, <1>4 DEF HandlerStep, ClaimDispatch, Active, GetFile, LockForTransition,
     Transition, NotifyUploader, SettleJob, HandlerRaises, SettleRetryableFailure, WorkerCrash
<1> QED
  BY <1>1, <1>5 DEF VerifyFinal, ScanFileObject

\* The second: the pinned bytes that were lost do not come back, and what the
\* scanner accepted it does not reject.
LEMMA NextLoss ==
    ASSUME Inv, LossInv, [Next]_vars
    PROVE  LossInv'
<1> USE DEF Inv
<1>1. ASSUME NEW h \in Handlers, HandlerStep(h),
             NEW g \in Handlers, handlers'[g].phase \in {"aimed", "locked"},
             handlers'[g].aim \in {"failed", "quarantined"},
             Owns(g)', row'.status = "ready"
      PROVE  final' # row'.identity
  <2>1. final' = final
    BY <1>1, HandlerFrame
  <2>2. CASE g = h
    <3>1. row' = row
      BY <1>1, <2>2, HandlerAfter
    <3>2. Owns(h)
      BY <1>1, <2>2, OwnedBefore
    <3>3. CASE handlers'[h].phase = "aimed"
      <4>1. Active(h) /\ jobs = 1 /\ row.identity \in Bytes
        <5>1. Active(h)
          BY <1>1, <3>3, WhoAims DEF VerifyFinal, ScanFileObject, Active
        <5> QED
          BY <5>1 DEF OwnInv, CleanInv
      <4>2. CASE VerifyFinal(h) /\ handlers'[h].aim = "failed"
        BY <2>1, <2>2, <3>1, <3>3, <4>1, <4>2, VerifyAfter
      <4>3. CASE ScanFileObject(h) /\ handlers'[h].aim = "quarantined"
        <5>1. final \in Harmful
          BY <3>3, <4>3, ScanAfter
        <5>2. Clean
          BY <1>1, <3>1 DEF CleanInv
        <5> QED
          BY <2>1, <2>2, <3>1, <5>1, <5>2 DEF Clean
      <4> QED
        BY <1>1, <2>2, <3>3, <4>2, <4>3, WhoAims
    <3>4. CASE handlers'[h].phase = "locked"
      <4>1. handlers[h].phase = "aimed" /\ handlers'[h].aim = handlers[h].aim
        BY <1>1, <3>4, HandlerAfter DEF After, Idle
      <4> QED
        BY <1>1, <2>1, <2>2, <3>1, <3>2, <4>1 DEF LossInv
    <3> QED
      BY <1>1, <2>2, <3>3, <3>4
  <2>3. CASE g # h
    <3>1. Active(g)'
      BY <1>1 DEF Active
    <3>2. handlers'[g] = handlers[g] /\ Owns(g) /\ row' = row
      BY <1>1, <2>3, <3>1, OwnerUndisturbed
    <3> QED
      BY <1>1, <2>1, <3>2 DEF LossInv
  <2> QED
    BY <2>2, <2>3
<1>2. ASSUME OtherStep,
             NEW g \in Handlers, handlers'[g].phase \in {"aimed", "locked"},
             handlers'[g].aim \in {"failed", "quarantined"},
             Owns(g)', row'.status = "ready"
      PROVE  final' # row'.identity
  <2>1. Active(g)'
    BY <1>2 DEF Active
  <2>2. handlers' = handlers /\ Owns(g) /\ jobs = 1
    BY <1>2, <2>1, OwnerOutside
  <2>3. ~\E d \in Deleters : CommitDeletion(d)
    BY <1>2 DEF CommitDeletion, TypeOK, Row
  <2>4. row' = row /\ final' \in {final, Foreign, NoBytes}
    BY <1>2, <2>2, <2>3, AfterCompletion
  <2>5. final # row.identity /\ row.identity \in Bytes
    BY <1>2, <2>2, <2>4 DEF LossInv, CleanInv
  <2> QED
    BY <2>4, <2>5
<1>3. CASE UNCHANGED vars
  BY <1>3 DEF vars, objects, jobRow, jobVars, LossInv, Owns
<1> QED
  BY <1>1, <1>2, <1>3, NextSplit DEF LossInv

\* The strengthened invariant.
LEMMA DocumentInvCorrect == Spec => [](Inv /\ EarlyInv /\ LossInv)
<1>1. Init => EarlyInv /\ LossInv
  BY DEF Init, EarlyInv, LossInv, Idle, NoDeletion
<1>2. Inv /\ EarlyInv /\ LossInv /\ [Next]_vars => EarlyInv' /\ LossInv'
  BY NextEarly, NextLoss
<1> QED
  BY <1>1, <1>2, InvCorrect, PTL DEF Spec

\* The mapping, once the invariant is known: what is ready, there and not
\* deleted is readable, and each standing is that of some statuses.
MappingIs ==
    /\ Readable = IF row.status = "ready" /\ ~row.deleted /\ final = row.identity
                  THEN row.identity ELSE NoBytes
    /\ row.deleted => Standing = "deleted"
    /\ ~row.deleted =>
         /\ row.status \in {"absent", "pending", "ready"} => Standing = row.status
         /\ row.status \in {"uploaded", "processing"} => Standing = "accepted"
         /\ row.status \in Rejected => Standing = "rejected"
    /\ jobs = 0 => Outcome = "none"
    /\ state \in {"queued", "running"} => Outcome = "due"

LEMMA Mapping == Inv => MappingIs
BY DEF Inv, JobInv, MappingIs, Readable, Trusted, Visible, Standing, Rejected, Outcome

\* A step that touches nothing the document shows.
LEMMA Stutters ==
    ASSUME UNCHANGED <<row, final, notified, state, error_code>>
    PROVE  UNCHANGED Contents!documentVars
BY DEF Contents!documentVars, Standing, Readable, Trusted, Visible, Outcome

\* The job moves, and nothing else.
LEMMA JobRefines ==
    ASSUME Inv, Inv', jobs = 1, jobs' = 1, state \in {"queued", "running"},
           UNCHANGED <<row, final, notified>>
    PROVE  Contents!Conclude \/ UNCHANGED Contents!documentVars
<1>1. UNCHANGED <<Standing, row.identity, Readable, notified>>
  BY DEF Standing, Readable, Trusted, Visible
<1>2. MappingIs
  BY Mapping
<1>3. Outcome = "due"
  BY <1>2 DEF MappingIs
<1>4. OutcomesAgree' /\ JobInv' /\ TypeOK' /\ RowInv'
  BY DEF Inv
<1>5. CASE state' \in {"queued", "running"}
  <2>1. Outcome' = "due"
    BY <1>5 DEF Outcome
  <2> QED
    BY <1>1, <1>3, <2>1 DEF Contents!documentVars
<1>6. CASE state' = "succeeded"
  <2>1. Outcome' = "succeeded"
    BY <1>4, <1>6 DEF Outcome, JobInv
  <2>2. Standing \in {"ready", "deleted"} /\ "ready" \in notified
    BY <1>4, <1>6 DEF OutcomesAgree, RowInv, Standing, Rejected
  <2> QED
    BY <1>1, <1>3, <2>1, <2>2 DEF Contents!Conclude
<1>7. CASE state' = "failed"
  <2>1. CASE error_code' \in {"file_verification_failed", "file_quarantined"}
    <3>1. Outcome' = "rejected"
      BY <1>7, <2>1 DEF Outcome
    <3>2. Standing \in {"rejected", "deleted"} /\ "failed" \in notified
      BY <1>4, <2>1 DEF OutcomesAgree, RowInv, Standing, Rejected
    <3> QED
      BY <1>1, <1>3, <3>1, <3>2 DEF Contents!Conclude
  <2>2. CASE error_code' = "file_not_found"
    <3>1. Outcome' = "gone"
      BY <1>7, <2>2 DEF Outcome
    <3>2. Standing = "deleted"
      BY <1>4, <2>2 DEF OutcomesAgree, Standing
    <3> QED
      BY <1>1, <1>3, <3>1, <3>2 DEF Contents!Conclude
  <2>3. CASE error_code' \notin {"file_verification_failed", "file_quarantined",
                                "file_not_found"}
    <3>1. Outcome' = "failed"
      BY <1>7, <2>3 DEF Outcome
    <3> QED
      BY <1>1, <1>3, <3>1 DEF Contents!Conclude
  <2> QED
    BY <2>1, <2>2, <2>3
<1> QED
  BY <1>4, <1>5, <1>6, <1>7 DEF TypeOK, JobInv

\* A transition that writes the row rejects the document or trusts it, or moves it
\* within a standing.
LEMMA WriteRefines ==
    ASSUME Inv, Inv', LossInv, NEW h \in Handlers, HandlerStep(h), Writes(h)
    PROVE  Contents!Next \/ UNCHANGED Contents!documentVars
<1> DEFINE aim == handlers[h].aim
<1>1. /\ Owns(h) /\ jobs = 1 /\ aim \in Aim
      /\ row.status \in {handlers[h].seen, "deleted"}
      /\ row'.status = aim /\ UNCHANGED <<row.key, row.identity, row.deleted>>
  BY WriterOwns
<1>2. /\ handlers[h].phase = "locked"
      /\ handlers[h].seen \in Leaves[aim] \ Keeps[aim]
      /\ UNCHANGED <<jobRow, notified>>
  BY DEF Writes
<1>3. final' = final
  BY HandlerFrame
<1>4. MappingIs /\ MappingIs'
  BY Mapping, PTL
<1>5. Outcome = "due" /\ Outcome' = Outcome
  <2>1. Outcome = "due"
    BY <1>1, <1>4 DEF MappingIs, Owns
  <2> QED
    BY <1>2, <2>1 DEF Outcome, jobRow, jobVars
<1>6. /\ row.status \in PostCompletion \union Rejected \union {"deleted"}
      /\ row.status = "deleted" => row.deleted
  BY <1>1 DEF Inv, RowInv, TypeOK, Row, FileStatus, PostCompletion, Rejected
<1> HIDE DEF aim
<1>7. CASE row.deleted
  BY <1>1, <1>2, <1>4, <1>5, <1>7 DEF MappingIs, Contents!documentVars
<1>8. CASE ~row.deleted /\ aim = "processing"
  <2>1. row.status = "uploaded"
    BY <1>1, <1>2, <1>6, <1>8 DEF Leaves
  <2> QED
    BY <1>1, <1>2, <1>4, <1>5, <1>8, <2>1 DEF MappingIs, Contents!documentVars
<1>9. CASE ~row.deleted /\ aim = "ready"
  <2>1. row.status = "processing"
    BY <1>1, <1>2, <1>6, <1>9 DEF Leaves
  <2>2. Clean
    BY <1>9 DEF Inv, CleanInv, aim
  <2>3. Standing = "accepted" /\ Standing' = "ready"
    BY <1>1, <1>4, <1>9, <2>1 DEF MappingIs
  <2>4. Readable' \in {NoBytes} \union ({row.identity} \ Harmful)
    BY <1>1, <1>3, <1>4, <2>2 DEF MappingIs, Clean
  <2> QED
    BY <1>1, <1>2, <1>5, <2>3, <2>4 DEF Contents!Next, Contents!Trust
<1>10. CASE ~row.deleted /\ aim \in Rejected
  <2>1. Standing' = "rejected" /\ Readable' = NoBytes
    BY <1>1, <1>4, <1>10 DEF MappingIs, Rejected
  <2>2. Readable = NoBytes
    <3>1. row.status = "ready" => final # row.identity
      BY <1>1, <1>2, <1>10 DEF LossInv, Rejected, aim
    <3> QED
      BY <1>4, <3>1 DEF MappingIs
  <2>3. Standing \in {"accepted", "ready", "rejected"}
    BY <1>4, <1>6, <1>10 DEF MappingIs, PostCompletion, Rejected
  <2> QED
    BY <1>1, <1>2, <1>5, <2>1, <2>2, <2>3
    DEF Contents!Next, Contents!Reject, Contents!documentVars
<1> QED
  BY <1>1, <1>7, <1>8, <1>9, <1>10 DEF Aim, Rejected

\* A handler's step.
LEMMA HandlerRefines ==
    ASSUME Inv, Inv', LossInv, NEW h \in Handlers, HandlerStep(h)
    PROVE  Contents!Next \/ UNCHANGED Contents!documentVars
<1>1. UNCHANGED <<jobs, final>>
  BY HandlerFrame
<1>2. CASE row' = row /\ NotifyUploader(h) /\ ~EndsStale(h)
  <2>1. /\ Owns(h) /\ handlers[h].phase = "marked" /\ UNCHANGED jobRow
        /\ notified' = notified \union {Told(handlers[h].aim)}
    BY <1>2 DEF NotifyUploader, Told
  <2>2. /\ row.status \in {handlers[h].aim, "deleted"}
        /\ handlers[h].aim \in {"ready", "failed", "quarantined"}
        /\ row.status = "deleted" => row.deleted
    BY <2>1 DEF Inv, ViewInv, Viewing, ProgressInv, ProgressOf, RowInv
  <2>3. MappingIs
    BY Mapping
  <2>4. /\ Outcome = "due"
        /\ Standing \in {"deleted", IF handlers[h].aim = "ready" THEN "ready" ELSE "rejected"}
    BY <2>1, <2>2, <2>3 DEF MappingIs, Owns, Rejected
  <2>5. UNCHANGED <<Standing, row.identity, Readable, Outcome>>
    BY <1>1, <1>2, <2>1 DEF Standing, Readable, Trusted, Visible, Outcome, jobRow, jobVars
  <2>6. Contents!Tell
    BY <2>1, <2>2, <2>4, <2>5 DEF Contents!Tell, Told
  <2> QED
    BY <2>6 DEF Contents!Next
<1>3. CASE row' = row /\ notified' = notified /\ UNCHANGED <<jobVars, error_code>>
  BY <1>1, <1>3, Stutters DEF jobVars
<1>4. CASE row' = row /\ notified' = notified /\ (ClaimDispatch(h) \/ MovesJob(h))
  <2>1. state \in {"queued", "running"}
    BY <1>4, JobSteps DEF Inv, ClaimDispatch, MovesJob
  <2>2. jobs = 1
    BY <2>1 DEF Inv, JobInv
  <2> QED
    BY <1>1, <1>4, <2>1, <2>2, JobRefines DEF Contents!Next
<1>5. Writes(h) => UNCHANGED <<jobVars, error_code, notified>>
  BY DEF Writes, jobRow
<1>6. NotifyUploader(h) => row' = row /\ UNCHANGED <<jobVars, error_code>>
  BY DEF NotifyUploader, EndsStale, jobRow
<1>7. NotifyUploader(h) /\ EndsStale(h) => notified' = notified
  BY DEF EndsStale
<1>8. CASE Writes(h)
  BY <1>8, WriteRefines
<1> QED
  BY <1>2, <1>3, <1>4, <1>6, <1>7, <1>8, HandlerFrame, HandlerJob

\* A deletion's commit, at any time.
LEMMA DeletionRefines ==
    ASSUME Inv, Inv', EarlyInv, NEW d \in Deleters, CommitDeletion(d)
    PROVE  Contents!Next \/ UNCHANGED Contents!documentVars
<1>1. /\ row'.status = "deleted" /\ row'.deleted /\ row'.identity = row.identity
      /\ UNCHANGED <<state, error_code, notified, final>>
      /\ deleters[d].phase = "removed"
  BY DEF CommitDeletion, Inv, TypeOK, Row, jobRow, jobVars, objects
<1>2. MappingIs /\ MappingIs'
  BY Mapping, PTL
<1>3. Standing' = "deleted" /\ Readable' = NoBytes /\ Outcome' = Outcome
  BY <1>1, <1>2 DEF MappingIs, Outcome
<1>4. CASE row.deleted
  BY <1>1, <1>2, <1>3, <1>4 DEF MappingIs, Contents!documentVars
<1>5. CASE ~row.deleted
  <2>1. row.status \in FileStatus \ {"absent", "deleted"}
    BY <1>1, <1>5 DEF Inv, TypeOK, Row, RowInv, EarlyInv
  <2>2. Standing \notin {"absent", "deleted"}
    BY <1>2, <1>5, <2>1 DEF MappingIs, FileStatus, Rejected
  <2> QED
    BY <1>1, <1>3, <2>2 DEF Contents!Next, Contents!Delete
<1> QED
  BY <1>4, <1>5

\* A step of another kind once the job is there.
LEMMA LaterRefines ==
    ASSUME Inv, Inv', OtherStep, jobs = 1,
           \A d \in Deleters : ~CommitDeletion(d)
    PROVE  Contents!Next \/ UNCHANGED Contents!documentVars
<1>1. /\ row' = row /\ notified' = notified /\ jobs' = 1
      /\ final' \in {final, Foreign, NoBytes}
      /\ UNCHANGED <<jobVars, error_code>> \/ JobFailsElsewhere \/ RequeueAbandonedJob
  BY AfterCompletion, OtherFrame
<1>2. CASE JobFailsElsewhere \/ RequeueAbandonedJob
  <2>1. final' = final /\ state \in {"queued", "running"}
    BY <1>2, JobSteps DEF Inv, JobFailsElsewhere, RequeueAbandonedJob, objects
  <2> QED
    BY <1>1, <2>1, JobRefines DEF Contents!Next
<1>3. CASE UNCHANGED <<jobVars, error_code>>
  <2>1. UNCHANGED <<Standing, row.identity, notified, Outcome>>
    BY <1>1, <1>3 DEF Standing, Outcome, jobVars
  <2>2. MappingIs /\ MappingIs' /\ row.identity \in Bytes
    BY Mapping, PTL DEF Inv, CleanInv
  <2>3. Readable' \in {Readable, NoBytes}
    BY <1>1, <2>2 DEF MappingIs
  <2> QED
    BY <2>1, <2>3 DEF Contents!Next, Contents!Lose, Contents!documentVars
<1> QED
  BY <1>1, <1>2, <1>3

\* A step of another kind before.
LEMMA EarlierRefines ==
    ASSUME Inv, Inv', EarlyInv, OtherStep, jobs = 0,
           \A d \in Deleters : ~CommitDeletion(d)
    PROVE  Contents!Next \/ UNCHANGED Contents!documentVars
<1>1. MappingIs /\ MappingIs'
  BY Mapping, PTL
<1>2. /\ notified' = notified /\ state = "absent" /\ Outcome = "none"
      /\ row.status \notin PostCompletion
  BY <1>1, OtherFrame DEF Inv, JobInv, RowInv, MappingIs
<1>3. Readable = NoBytes
  BY <1>1, <1>2 DEF MappingIs, PostCompletion
<1>4. ASSUME NEW c \in Completers, Commits(c)
      PROVE  Contents!Next
  <2>1. row.status = "pending" /\ ~row.deleted
    BY <1>4 DEF Inv, LockInv, Commits, Holds, EarlyInv
  <2>2. /\ row'.status = "uploaded" /\ ~row'.deleted /\ jobs' = 1
        /\ state' = "queued"
    BY <1>4, <2>1, JobSteps DEF Inv, Commits, Uploaded
  <2>3. row'.identity \in Bytes
    BY <2>2 DEF Inv, CleanInv
  <2>4. /\ Standing = "pending" /\ Standing' = "accepted"
        /\ Outcome' = "due" /\ Readable' = NoBytes
    BY <1>1, <2>1, <2>2 DEF MappingIs
  <2> QED
    BY <1>2, <1>3, <2>3, <2>4 DEF Contents!Next, Contents!Accept
<1>5. ASSUME NEW c \in Completers, Fails(c)
      PROVE  Contents!Next
  <2>1. row.status = "pending" /\ ~row.deleted
    BY <1>5 DEF Inv, LockInv, Fails, EarlyInv
  <2>2. /\ row'.status = "failed" /\ ~row'.deleted /\ row'.identity = row.identity
        /\ jobs' = 0
    BY <1>5, <2>1 DEF Inv, TypeOK, Row, Fails
  <2>3. /\ Standing = "pending" /\ Standing' = "rejected"
        /\ Outcome' = "none" /\ Readable' = NoBytes
    BY <1>1, <2>1, <2>2 DEF MappingIs, Rejected
  <2> QED
    BY <1>2, <1>3, <2>2, <2>3 DEF Contents!Next, Contents!Reject
<1>6. ASSUME CreateUploadIntent
      PROVE  Contents!Next
  <2>1. row.status = "absent" /\ ~row.deleted
    BY <1>6 DEF CreateUploadIntent, EarlyInv
  <2>2. /\ row'.status = "pending" /\ ~row'.deleted /\ row'.identity = row.identity
        /\ jobs' = 0
    BY <1>6, <2>1 DEF Inv, TypeOK, Row, CreateUploadIntent
  <2>3. /\ Standing = "absent" /\ Standing' = "pending"
        /\ Outcome' = "none" /\ Readable' = NoBytes
    BY <1>1, <2>1, <2>2 DEF MappingIs
  <2> QED
    BY <1>2, <1>3, <2>2, <2>3 DEF Contents!Next, Contents!Offer
<1>7. CASE UNCHANGED <<row, jobs>>
  <2>1. Outcome' = "none" /\ Readable' = NoBytes
    BY <1>1, <1>2, <1>7 DEF MappingIs, PostCompletion
  <2>2. Standing' = Standing
    BY <1>7 DEF Standing
  <2> QED
    BY <1>2, <1>3, <1>7, <2>1, <2>2 DEF Contents!documentVars
<1> QED
  BY <1>4, <1>5, <1>6, <1>7, RowChanges


-----------------------------------------------------------------------------
\* Every variable keeps its type.
THEOREM TypeCorrect == Spec => []TypeOK
<1>1. Inv => TypeOK
  BY DEF Inv
<1> QED
  BY <1>1, InvCorrect, PTL

\* However many completions race, crash and are repeated, one processing job
\* is scheduled, and with the row that needs it.
THEOREM ScheduledOnceCorrect == Spec => []ScheduledOnce
<1>1. Inv => ScheduledOnce
  BY DEF Inv, JobInv, RowInv, ScheduledOnce
<1> QED
  BY <1>1, InvCorrect, PTL

\* What may be read has passed the scanner with its present bytes, for any
\* interleaving of handlers, overwrites and deletions.
THEOREM TrustedIsCleanCorrect == Spec => []TrustedIsClean
<1>1. Inv => TrustedIsClean
  BY DEF Inv, RowInv, PostCompletion, CleanInv, Clean, Trusted, TrustedIsClean
<1> QED
  BY <1>1, InvCorrect, PTL

\* The outcomes of the job, of the file and of the notification agree.
THEOREM OutcomesAgreeCorrect == Spec => []OutcomesAgree
<1>1. Inv => OutcomesAgree
  BY DEF Inv
<1> QED
  BY <1>1, InvCorrect, PTL

\* No step resurrects a rejected file: completions see it is not pending, and
\* the only attempt that may write it knows that it was rejected.
THEOREM RejectedCorrect == Spec => RejectedIsNotResurrected
<1>1. ASSUME Inv, [Next]_vars, row.status \in Rejected
      PROVE  row'.status \in Rejected \union {"deleted"}
  <2> USE <1>1 DEF Inv, Rejected
  <2>1. ASSUME NEW h \in Handlers, HandlerStep(h)
        PROVE  row'.status \in Rejected \union {"deleted"}
    <3>1. CASE Writes(h)
      <4>1. handlers[h].seen = row.status /\ handlers[h].aim \in Aim
            /\ row'.status = handlers[h].aim
        BY <3>1, WriterOwns
      <4> QED
        BY <3>1, <4>1 DEF Writes, Leaves, Aim
    <3> QED
      BY <2>1, <3>1, HandlerFrame
  <2>2. CASE OtherStep
    <3>1. \A c \in Completers : ~Commits(c) /\ ~Fails(c)
      BY DEF LockInv, Commits, Fails, Holds
    <3>2. CASE row' = row
      BY <3>2
    <3>3. ASSUME NEW d \in Deleters, CommitDeletion(d)
          PROVE  row'.status = "deleted"
      BY <3>3 DEF CommitDeletion, TypeOK, Row
    <3> QED
      BY <2>2, <3>1, <3>2, <3>3, RowChanges DEF CreateUploadIntent
  <2>3. CASE UNCHANGED vars
    BY <2>3 DEF vars
  <2> QED
    BY <2>1, <2>2, <2>3, NextSplit
<1> QED
  BY <1>1, InvCorrect, PTL DEF Spec, RejectedIsNotResurrected

\* Only a completion pins bytes, and only those it has verified.
THEOREM PinnedCorrect == Spec => PinnedBytesWereVerified
<1>1. ASSUME Inv, [Next]_vars, row'.identity # row.identity
      PROVE  \E c \in Completers :
               /\ completers[c].phase = "copied"
               /\ row'.identity = completers[c].verified
               /\ completers[c].checksum \in {NoBytes, row'.identity}
  <2> USE <1>1 DEF Inv
  <2>1. ~\E h \in Handlers : HandlerStep(h)
    BY HandlerFrame, WriterOwns
  <2>2. OtherStep
    BY <2>1, NextSplit DEF vars
  <2>3. ~CreateUploadIntent /\ \A c \in Completers : ~Fails(c)
    BY DEF CreateUploadIntent, Fails, TypeOK, Row
  <2>4. \A d \in Deleters : ~CommitDeletion(d)
    BY DEF CommitDeletion, TypeOK, Row
  <2>5. PICK c \in Completers : Commits(c)
    BY <2>2, <2>3, <2>4, RowChanges
  <2> QED
    BY <2>5 DEF Commits, Uploaded, Promoted, AsDeclared
<1> QED
  BY <1>1, InvCorrect, PTL DEF Spec, PinnedBytesWereVerified

\* For any handlers, requests, bytes and faults, the pipeline is one document:
\* each step is the document's or shows nothing of it.
THEOREM DocumentRefinement == Spec => ImplementsDocument
<1>1. Init => Contents!Init
  BY DEF Init, Job!Init, Contents!Init, Standing, Rejected, Readable, Trusted, Visible, Outcome
<1>2. ASSUME Inv, Inv', EarlyInv, LossInv, [Next]_vars
      PROVE  [Contents!Next]_(Contents!documentVars)
  <2>1. ASSUME NEW h \in Handlers, HandlerStep(h)
        PROVE  Contents!Next \/ UNCHANGED Contents!documentVars
    BY <1>2, <2>1, HandlerRefines
  <2>2. CASE OtherStep
    <3>1. ASSUME NEW d \in Deleters, CommitDeletion(d)
          PROVE  Contents!Next \/ UNCHANGED Contents!documentVars
      BY <1>2, <3>1, DeletionRefines
    <3>2. jobs \in {0, 1}
      BY <1>2 DEF Inv, JobInv
    <3> QED
      BY <1>2, <2>2, <3>1, <3>2, LaterRefines, EarlierRefines
  <2>3. CASE UNCHANGED vars
    BY <2>3, Stutters DEF vars, jobRow, jobVars, objects
  <2> QED
    BY <1>2, <2>1, <2>2, <2>3, NextSplit
<1> QED
  BY <1>1, <1>2, DocumentInvCorrect, PTL DEF Spec, ImplementsDocument, Contents!Spec
=============================================================================
