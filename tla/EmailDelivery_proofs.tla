------------------------ MODULE EmailDelivery_proofs ------------------------
(***************************************************************************)
(* Theorems of EmailDelivery, for every number of attempts, every set of   *)
(* handlers and every set of faults.  The core is SendInv: the permission  *)
(* to send is held by at most one handler, from its marking of the         *)
(* delivery to the provider's answer, and it is given back only by an      *)
(* answer that proves the mail unsent.                                     *)
(***************************************************************************)
EXTENDS EmailDelivery, TLAPS

\* The job's row and the delivery's.
RowsInv ==
    /\ state = "absent" <=> delivery = "absent"
    /\ IsDeliveryTerminal <=> JobTerminal
    /\ delivery = "succeeded" <=> state = "succeeded"
    /\ state = "running" => starts > 0
    /\ state = "queued" /\ starts = 0 => delivery = "queued"

\* Credentials are never given twice.
OwnInv ==
    \A h \in Handlers : Active(h) =>
      /\ handlers[h].own \in 1..owner
      /\ \A g \in Handlers : Active(g) /\ handlers[g].own = handlers[h].own => g = h

\* The owner's view of the delivery.
ViewInv ==
    \A h \in Handlers : Owns(h) =>
      /\ handlers[h].phase = "loaded" => handlers[h].seen = delivery
      /\ handlers[h].phase \in {"marked", "sending", "answered"} => delivery = "running"

MaySend(h) == handlers[h].phase \in {"marked", "sending"}

\* No mail was accepted and none is on its way.
Unsent == accepted = 0 /\ \A h \in Handlers : ~MaySend(h)

\* The row says so.
SaysUnsent ==
    \/ error_code \in {"rejected", "dispatch_failed"}
    \/ error_code = "safe_retries_exhausted" /\ failed_from = "queued"

SendInv ==
    /\ accepted \in {0, 1}
    /\ \A h \in Handlers : MaySend(h) =>
         accepted = 0 /\ \A g \in Handlers : MaySend(g) => g = h
    /\ delivery \in {"absent", "queued"} => Unsent
    /\ SaysUnsent => Unsent /\ IsDeliveryTerminal
    /\ error_code = "safe_retries_exhausted" => failed_from \in {"queued", "running"}
    /\ error_code # "none" => IsDeliveryTerminal
    /\ delivery = "failed" =>
         error_code \in {"rejected", "dispatch_failed", "safe_retries_exhausted"}
    /\ delivery = "succeeded" => accepted = 1
    /\ \A h \in Handlers : handlers[h].phase = "answered" =>
         /\ handlers[h].answer \in Answer
         /\ handlers[h].answer = "accepted" => accepted = 1
         /\ handlers[h].answer \in {"unsent", "rejected"} /\ Owns(h) => Unsent

Inv == TypeOK /\ RowsInv /\ OwnInv /\ ViewInv /\ SendInv

USE MaxStartsAssumption
-----------------------------------------------------------------------------
\* The invariant holds initially.
LEMMA InitInv == Init => Inv
<1> SUFFICES ASSUME Init PROVE Inv
  OBVIOUS
<1>1. /\ state = "absent" /\ starts = 0 /\ owner = 0 /\ outcomes = 0
      /\ lease = FALSE /\ delivery = "absent" /\ error_code = "none" /\ accepted = 0
      /\ failed_from = "absent"
      /\ handlers = [h \in Handlers |-> Idle]
  BY DEF Init, Job!Init
<1>2. Idle \in Handler
  BY DEF Idle, Handler, DeliveryStatus
<1>3. \A h \in Handlers : handlers[h] = Idle /\ handlers[h].phase = "idle"
  BY <1>1 DEF Idle
<1>4. TypeOK
  <2>1. 0 \in 0..MaxStarts /\ handlers \in [Handlers -> Handler]
    BY <1>1, <1>2
  <2> QED
    BY <1>1, <2>1 DEF TypeOK, DeliveryStatus, DeliveryError
<1>5. RowsInv
  BY <1>1 DEF RowsInv, IsDeliveryTerminal, JobTerminal
<1>6. OwnInv /\ ViewInv
  BY <1>1, <1>3 DEF OwnInv, ViewInv, Active, Owns
<1>7. SendInv
  BY <1>1, <1>3 DEF SendInv, SaysUnsent, MaySend, Unsent
<1> QED
  BY <1>4, <1>5, <1>6, <1>7 DEF Inv

\* The abstract job's steps, in terms of its variables.
LEMMA JobSteps ==
    ASSUME TypeOK
    PROVE  /\ Job!Start => /\ state \in {"queued", "running"} /\ state' = "running"
                           /\ starts' = starts + 1 /\ starts' \in 0..MaxStarts
                           /\ owner' = owner + 1 /\ owner' \in Nat /\ outcomes' = outcomes
           /\ Job!Requeue => /\ state = "running" /\ state' = "queued"
                             /\ starts' = starts /\ owner' \in {owner, owner + 1}
                             /\ owner' \in Nat /\ outcomes' = outcomes
           /\ Job!Settle => /\ state \in {"queued", "running"}
                            /\ state' \in {"succeeded", "failed"}
                            /\ starts' = starts /\ owner' = owner /\ outcomes' \in Nat
           /\ Job!Accept => /\ state = "absent" /\ state' = "queued"
                            /\ UNCHANGED <<starts, owner, outcomes>>
<1>1. starts \in Nat /\ owner \in Nat /\ outcomes \in Nat /\ MaxStarts \in Nat
  BY MaxStartsAssumption DEF TypeOK
<1>2. starts < MaxStarts => starts + 1 \in 0..MaxStarts
  BY <1>1
<1> QED
  BY <1>1, <1>2 DEF Job!Start, Job!Requeue, Job!Settle, Job!Accept, Job!Open

\* Every step keeps the types.
LEMMA NextTypeOK ==
    ASSUME TypeOK, [Next]_vars
    PROVE  TypeOK'
<1> USE DEF TypeOK
<1>0. /\ "running" \in DeliveryStatus /\ "queued" \in DeliveryStatus
      /\ "failed" \in DeliveryStatus /\ "succeeded" \in DeliveryStatus
      /\ "attention_required" \in DeliveryStatus
      /\ "none" \in DeliveryError /\ "rejected" \in DeliveryError
      /\ "acceptance_unknown" \in DeliveryError
      /\ "safe_retries_exhausted" \in DeliveryError /\ "dispatch_failed" \in DeliveryError
  BY DEF DeliveryStatus, DeliveryError
<1>1. Idle \in Handler
  BY DEF Idle, Handler, DeliveryStatus
<1>2. ASSUME NEW code \in DeliveryError, FailsJob(code)
      PROVE  /\ state' = "failed" /\ starts' = starts /\ owner' = owner
             /\ outcomes' \in Nat /\ lease' = FALSE
             /\ delivery' \in DeliveryStatus /\ error_code' \in DeliveryError
             /\ failed_from' \in DeliveryStatus
  BY <1>0, <1>2, JobSteps DEF FailsJob, FailDelivery, deliveryVars
<1>3. ASSUME NEW h \in Handlers, Ends(h)
      PROVE  handlers' \in [Handlers -> Handler]
  BY <1>1, <1>3 DEF Ends
<1>4. ASSUME NEW h \in Handlers,
             NEW phase \in {"loaded", "marked", "sending", "raised"}, Moves(h, phase)
      PROVE  handlers' \in [Handlers -> Handler]
  BY <1>4 DEF Moves, Handler
<1>5. ASSUME NEW h \in Handlers, HandlerStep(h) PROVE TypeOK'
  <2>1. CASE ClaimDispatch(h)
    <3>1. Job!Start /\ lease' = TRUE /\ UNCHANGED <<deliveryVars, accepted>>
          /\ handlers' = [handlers EXCEPT ![h].phase = "claimed", ![h].own = owner']
      BY <2>1 DEF ClaimDispatch, deliveryVars
    <3>2. owner' \in Nat
      BY <3>1, JobSteps
    <3>3. handlers' \in [Handlers -> Handler]
      BY <3>1, <3>2, ZenonT(60) DEF Handler
    <3> QED
      BY <3>1, <3>3, JobSteps DEF deliveryVars
  <2>2. CASE GetDelivery(h)
    <3>1. handlers' \in [Handlers -> Handler]
      BY <2>2, ZenonT(60) DEF GetDelivery, Handler
    <3> QED
      BY <2>2, <3>1 DEF GetDelivery, jobVars, deliveryVars
  <2>3. CASE EndsStale(h) /\ accepted' = accepted
    BY <1>3, <2>3 DEF EndsStale, jobVars, deliveryVars
  <2>4. CASE MarkDeliveryRunning(h)
    BY <1>0, <1>4, <2>3, <2>4 DEF MarkDeliveryRunning, jobVars, deliveryVars
  <2>5. ASSUME NEW status \in DeliveryStatus, NEW code \in DeliveryError,
               NEW outcome, Settles(h, status, code, outcome), accepted' = accepted
        PROVE  TypeOK'
    BY <1>3, <2>5, JobSteps DEF Settles
  <2>6. CASE SettleLoaded(h)
    BY <1>0, <2>3, <2>5, <2>6 DEF SettleLoaded
  <2>7. CASE Revalidate(h)
    BY <1>4, <2>3, <2>7 DEF Revalidate, jobVars, deliveryVars
  <2>8. CASE SendEmail(h)
    <3>1. PICK answer \in Answer :
            handlers' = [handlers EXCEPT ![h].phase = "answered", ![h].answer = answer]
      BY <2>8 DEF SendEmail
    <3>2. handlers' \in [Handlers -> Handler]
      BY <3>1, ZenonT(60) DEF Handler
    <3>3. accepted' \in {accepted, accepted + 1}
      BY <2>8 DEF SendEmail
    <3> QED
      BY <2>8, <3>2, <3>3 DEF SendEmail, jobVars, deliveryVars
  <2>9. CASE ReturnDeliveryToQueue(h)
    BY <1>0, <1>4, <2>3, <2>9 DEF ReturnDeliveryToQueue, jobVars, deliveryVars
  <2>10. CASE SettleAnswer(h)
    BY <1>0, <2>3, <2>5, <2>10 DEF SettleAnswer
  <2>11. CASE HandlerRaises(h)
    BY <1>4, <2>11 DEF HandlerRaises, jobVars, deliveryVars
  <2>12. CASE SettleRetryableFailure(h)
    <3>1. CASE FailsJob("safe_retries_exhausted") /\ Ends(h) /\ accepted' = accepted
      BY <1>0, <1>2, <1>3, <3>1
    <3>2. CASE Job!Requeue /\ lease' = FALSE /\ Ends(h) /\ UNCHANGED deliveryVars
               /\ accepted' = accepted
      BY <1>3, <3>2, JobSteps DEF deliveryVars
    <3> QED
      BY <2>3, <2>12, <3>1, <3>2 DEF SettleRetryableFailure
  <2>13. CASE WorkerCrash(h)
    <3>1. accepted' \in Nat
      BY <2>13 DEF WorkerCrash
    <3> QED
      BY <1>3, <2>13, <3>1 DEF WorkerCrash, jobVars, deliveryVars
  <2> QED
    BY <1>5, <2>1, <2>2, <2>4, <2>6, <2>7, <2>8, <2>9, <2>10, <2>11, <2>12, <2>13
       DEF HandlerStep
<1>6. CASE ExhaustAbandonedJob \/ FinalizerFailsJob \/ DeadDispatchFailsJob
  <2>1. /\ FailsJob("safe_retries_exhausted") \/ FailsJob("dispatch_failed")
        /\ UNCHANGED <<handlers, accepted>>
    BY <1>6 DEF ExhaustAbandonedJob, FinalizerFailsJob, DeadDispatchFailsJob
  <2> QED
    BY <1>0, <1>2, <2>1
<1>7. CASE SendNotification
  BY <1>0, <1>7, JobSteps DEF SendNotification
<1>8. CASE RequeueAbandonedJob
  BY <1>8, JobSteps DEF RequeueAbandonedJob, deliveryVars
<1>9. CASE LeaseExpires \/ UNCHANGED vars
  BY <1>9 DEF LeaseExpires, vars, jobVars, deliveryVars
<1> QED
  BY <1>5, <1>6, <1>7, <1>8, <1>9 DEF Next

\* The job's row and the delivery's stay in step.
LEMMA NextRows ==
    ASSUME Inv, [Next]_vars
    PROVE  RowsInv'
<1> USE DEF Inv
<1>1. CASE UNCHANGED <<jobVars, deliveryVars>>
  BY <1>1 DEF RowsInv, IsDeliveryTerminal, JobTerminal, jobVars, deliveryVars
<1>2. ASSUME NEW code, FailsJob(code)
      PROVE  RowsInv'
  <2>1. /\ state \in {"queued", "running"} /\ state' = "failed" /\ starts' = starts
        /\ ~IsDeliveryTerminal /\ delivery' = "failed"
    BY <1>2, JobSteps DEF FailsJob, FailDelivery, RowsInv, JobTerminal
  <2> QED
    BY <2>1 DEF RowsInv, IsDeliveryTerminal, JobTerminal
<1>3. ASSUME Job!Requeue, UNCHANGED deliveryVars
      PROVE  RowsInv'
  BY <1>3, JobSteps DEF RowsInv, IsDeliveryTerminal, JobTerminal, deliveryVars, TypeOK
<1>4. ASSUME NEW h \in Handlers, HandlerStep(h) PROVE RowsInv'
  <2>1. CASE ClaimDispatch(h)
    BY <2>1, JobSteps DEF ClaimDispatch, deliveryVars, RowsInv, IsDeliveryTerminal,
       JobTerminal, TypeOK
  <2>2. CASE EndsStale(h)
    BY <1>1, <2>2 DEF EndsStale
  <2>3. CASE Owns(h) /\ delivery' \in {"running", "queued"} /\ UNCHANGED jobVars
    BY <2>3 DEF Owns, RowsInv, IsDeliveryTerminal, JobTerminal, jobVars
  <2>4. ASSUME NEW code,
               NEW pair \in {<<"succeeded", "succeeded">>, <<"failed", "failed">>,
                             <<"attention_required", "failed">>},
               Settles(h, pair[1], code, pair[2])
        PROVE  RowsInv'
    BY <2>4, JobSteps DEF Settles, RowsInv, IsDeliveryTerminal, JobTerminal
  <2>5. CASE MarkDeliveryRunning(h)
    BY <2>2, <2>3, <2>5 DEF MarkDeliveryRunning
  <2>6. CASE SettleLoaded(h)
    <3>1. CASE handlers[h].seen = "running"
      BY <2>2, <2>4, <2>6, <3>1 DEF SettleLoaded
    <3>2. CASE handlers[h].seen # "running" /\ ~EndsStale(h)
      BY <2>6, <3>2 DEF SettleLoaded, Settles, MayBeSent, ViewInv, Owns, RowsInv, TypeOK,
         DeliveryStatus, IsDeliveryTerminal, JobTerminal
    <3> QED
      BY <2>2, <3>1, <3>2
  <2>7. CASE ReturnDeliveryToQueue(h)
    BY <2>2, <2>3, <2>7 DEF ReturnDeliveryToQueue
  <2>8. CASE SettleAnswer(h)
    BY <2>2, <2>4, <2>8 DEF SettleAnswer
  <2>9. CASE SettleRetryableFailure(h)
    BY <1>2, <1>3, <2>2, <2>9 DEF SettleRetryableFailure
  <2>10. CASE GetDelivery(h) \/ SendEmail(h) \/ HandlerRaises(h) \/ WorkerCrash(h)
    BY <1>1, <2>10 DEF GetDelivery, SendEmail, HandlerRaises, WorkerCrash
  <2>11. CASE Revalidate(h)
    BY <1>1, <2>2, <2>11 DEF Revalidate
  <2> QED
    BY <1>4, <2>1, <2>5, <2>6, <2>7, <2>8, <2>9, <2>10, <2>11 DEF HandlerStep
<1>5. CASE ExhaustAbandonedJob \/ FinalizerFailsJob \/ DeadDispatchFailsJob
  BY <1>2, <1>5 DEF ExhaustAbandonedJob, FinalizerFailsJob, DeadDispatchFailsJob
<1>6. CASE SendNotification
  BY <1>6, JobSteps DEF SendNotification, RowsInv, IsDeliveryTerminal, JobTerminal
<1>7. CASE RequeueAbandonedJob
  BY <1>3, <1>7 DEF RequeueAbandonedJob
<1>8. CASE LeaseExpires \/ UNCHANGED vars
  BY <1>1, <1>8 DEF LeaseExpires, vars, jobVars, deliveryVars
<1> QED
  BY <1>4, <1>5, <1>6, <1>7, <1>8 DEF Next

\* A credential is given to one handler, and none is given twice.
LEMMA NextOwn ==
    ASSUME Inv, [Next]_vars
    PROVE  OwnInv'
<1> USE DEF Inv
<1>1. owner' \in Nat /\ owner' >= owner
  <2>1. UNCHANGED owner \/ owner' \in {owner, owner + 1}
    BY JobSteps DEF Next, vars, jobVars, HandlerStep, SendNotification, ClaimDispatch,
       GetDelivery, MarkDeliveryRunning, SettleLoaded, Settles, EndsStale, Revalidate,
       SendEmail, ReturnDeliveryToQueue, SettleAnswer, HandlerRaises,
       SettleRetryableFailure, WorkerCrash, LeaseExpires, ExhaustAbandonedJob, FailsJob,
       RequeueAbandonedJob, FinalizerFailsJob, DeadDispatchFailsJob
  <2> QED
    BY <2>1 DEF TypeOK
<1>2. ASSUME \A h \in Handlers :
               \/ ~Active(h)'
               \/ Active(h) /\ handlers'[h].own = handlers[h].own
      PROVE  OwnInv'
  BY <1>1, <1>2 DEF OwnInv, TypeOK
<1>3. CASE UNCHANGED handlers
  BY <1>2, <1>3 DEF Active
<1>4. ASSUME NEW h \in Handlers, HandlerStep(h) PROVE OwnInv'
  <2>1. CASE ClaimDispatch(h)
    <3>1. /\ owner' = owner + 1 /\ owner \in Nat
          /\ handlers' = [handlers EXCEPT ![h].phase = "claimed", ![h].own = owner']
      BY <2>1, JobSteps DEF ClaimDispatch, TypeOK
    <3>2. handlers'[h].own = owner' /\ \A g \in Handlers \ {h} : handlers'[g] = handlers[g]
      BY <3>1 DEF TypeOK, Handler
    <3>3. ASSUME NEW g \in Handlers \ {h}, Active(g)'
          PROVE  Active(g) /\ handlers'[g].own \in 1..owner
      BY <3>2, <3>3 DEF OwnInv, Active
    <3>4. ASSUME NEW f \in Handlers \ {h}, NEW g \in Handlers \ {h}, Active(f)', Active(g)',
                 handlers'[g].own = handlers'[f].own
          PROVE  g = f
      BY <3>2, <3>3, <3>4 DEF OwnInv
    <3>5. ASSUME NEW g \in Handlers, Active(g)'
          PROVE  /\ handlers'[g].own \in 1..owner'
                 /\ handlers'[g].own = owner' <=> g = h
      <4>1. CASE g = h
        BY <3>1, <3>2, <4>1
      <4>2. CASE g # h
        <5>1. handlers'[g].own \in 1..owner
          BY <3>3, <3>5, <4>2
        <5> QED
          BY <3>1, <4>2, <5>1
      <4> QED
        BY <4>1, <4>2
    <3>6. ASSUME NEW f \in Handlers, NEW g \in Handlers, Active(f)', Active(g)',
                 handlers'[g].own = handlers'[f].own
          PROVE  g = f
      BY <3>4, <3>5, <3>6
    <3> QED
      BY <3>5, <3>6 DEF OwnInv
  <2>2. CASE Ends(h)
    BY <1>2, <2>2 DEF Ends, Idle, Active, TypeOK
  <2>3. ASSUME NEW phase, Moves(h, phase), Active(h)
        PROVE  OwnInv'
    BY <1>2, <2>3 DEF Moves, Active, TypeOK, Handler
  <2>4. CASE GetDelivery(h)
    BY <1>2, <2>4 DEF GetDelivery, Active, TypeOK, Handler
  <2>5. CASE SendEmail(h)
    <3>1. PICK answer \in Answer :
            handlers' = [handlers EXCEPT ![h].phase = "answered", ![h].answer = answer]
      BY <2>5 DEF SendEmail
    <3> QED
      BY <1>2, <2>5, <3>1 DEF SendEmail, Active, TypeOK, Handler
  <2>6. CASE MarkDeliveryRunning(h) \/ Revalidate(h) \/ ReturnDeliveryToQueue(h)
             \/ HandlerRaises(h)
    BY <2>2, <2>3, <2>6 DEF MarkDeliveryRunning, Revalidate, ReturnDeliveryToQueue,
       HandlerRaises, EndsStale, Active
  <2>7. CASE SettleLoaded(h) \/ SettleAnswer(h) \/ SettleRetryableFailure(h)
             \/ WorkerCrash(h)
    BY <2>2, <2>7 DEF SettleLoaded, SettleAnswer, SettleRetryableFailure, WorkerCrash,
       Settles, EndsStale
  <2> QED
    BY <1>4, <2>1, <2>4, <2>5, <2>6, <2>7 DEF HandlerStep
<1> QED
  BY <1>3, <1>4 DEF Next, vars, SendNotification, LeaseExpires, ExhaustAbandonedJob,
     RequeueAbandonedJob, FinalizerFailsJob, DeadDispatchFailsJob

\* A step of a handler leaves the others alone.
LEMMA OthersUntouched ==
    ASSUME TypeOK, NEW h \in Handlers, HandlerStep(h), NEW g \in Handlers, g # h
    PROVE  handlers'[g] = handlers[g]
BY DEF TypeOK, HandlerStep, ClaimDispatch, GetDelivery, MarkDeliveryRunning, SettleLoaded,
   Settles, EndsStale, Ends, Moves, Revalidate, SendEmail, ReturnDeliveryToQueue,
   SettleAnswer, HandlerRaises, SettleRetryableFailure, WorkerCrash

\* A step leaves the rows alone, ends the attempt, claims the job, or is the
\* owner's own.
LEMMA StepShape ==
    ASSUME TypeOK, [Next]_vars
    PROVE  \/ UNCHANGED <<jobVars, deliveryVars>>
           \/ state' # "running"
           \/ \E h \in Handlers : ClaimDispatch(h)
           \/ \E h \in Handlers : Owns(h) /\ Active(h) /\ HandlerStep(h) /\ UNCHANGED jobVars
<1>1. ASSUME NEW h \in Handlers, HandlerStep(h)
      PROVE  \/ UNCHANGED <<jobVars, deliveryVars>>
             \/ state' # "running"
             \/ ClaimDispatch(h)
             \/ Owns(h) /\ Active(h) /\ UNCHANGED jobVars
  <2>1. CASE MarkDeliveryRunning(h) \/ ReturnDeliveryToQueue(h)
    BY <2>1 DEF MarkDeliveryRunning, ReturnDeliveryToQueue, EndsStale, Active
  <2>2. CASE Revalidate(h) \/ GetDelivery(h) \/ SendEmail(h) \/ HandlerRaises(h)
             \/ WorkerCrash(h)
    BY <2>2 DEF Revalidate, GetDelivery, SendEmail, HandlerRaises, WorkerCrash, EndsStale
  <2>3. CASE SettleLoaded(h) \/ SettleAnswer(h)
    BY <2>3, JobSteps DEF SettleLoaded, SettleAnswer, Settles, EndsStale
  <2>4. CASE SettleRetryableFailure(h)
    BY <2>4, JobSteps DEF SettleRetryableFailure, FailsJob, EndsStale
  <2> QED
    BY <1>1, <2>1, <2>2, <2>3, <2>4 DEF HandlerStep
<1>2. CASE SendNotification \/ RequeueAbandonedJob \/ ExhaustAbandonedJob
           \/ FinalizerFailsJob \/ DeadDispatchFailsJob
  BY <1>2, JobSteps DEF SendNotification, RequeueAbandonedJob, ExhaustAbandonedJob,
     FinalizerFailsJob, DeadDispatchFailsJob, FailsJob
<1>3. CASE LeaseExpires \/ UNCHANGED vars
  BY <1>3 DEF LeaseExpires, vars
<1> QED
  BY <1>1, <1>2, <1>3 DEF Next

\* An active handler that did not just claim the job keeps its credential.
LEMMA OwnKept ==
    ASSUME TypeOK, NEW h \in Handlers, HandlerStep(h), ~ClaimDispatch(h), Active(h)'
    PROVE  Active(h) /\ handlers'[h].own = handlers[h].own
<1>1. Active(h)
  BY DEF HandlerStep, GetDelivery, MarkDeliveryRunning, SettleLoaded, Revalidate, SendEmail,
     ReturnDeliveryToQueue, SettleAnswer, HandlerRaises, SettleRetryableFailure,
     WorkerCrash, Active
<1>2. ~Ends(h)
  BY DEF Ends, Idle, Active, TypeOK
<1>3. \/ \E phase : Moves(h, phase)
      \/ handlers' = [handlers EXCEPT ![h].phase = "loaded", ![h].seen = delivery]
      \/ \E answer : handlers' = [handlers EXCEPT ![h].phase = "answered",
                                                  ![h].answer = answer]
  <2>1. CASE SettleLoaded(h) \/ SettleAnswer(h) \/ SettleRetryableFailure(h)
             \/ WorkerCrash(h)
    BY <1>2, <2>1 DEF SettleLoaded, SettleAnswer, SettleRetryableFailure, WorkerCrash,
       Settles, EndsStale
  <2>2. CASE MarkDeliveryRunning(h) \/ Revalidate(h) \/ ReturnDeliveryToQueue(h)
             \/ HandlerRaises(h)
    BY <1>2, <2>2 DEF MarkDeliveryRunning, Revalidate, ReturnDeliveryToQueue,
       HandlerRaises, EndsStale
  <2>3. CASE GetDelivery(h) \/ SendEmail(h)
    BY <2>3 DEF GetDelivery, SendEmail
  <2> QED
    BY <2>1, <2>2, <2>3 DEF HandlerStep
<1>4. handlers'[h].own = handlers[h].own
  BY <1>3 DEF Moves, TypeOK, Handler
<1> QED
  BY <1>1, <1>4

\* Who owns the job after a step without having claimed it owned it before,
\* and if the step was not its own the delivery is as it was.
LEMMA OwnershipKept ==
    ASSUME Inv, [Next]_vars, NEW g \in Handlers, Owns(g)', Active(g)', ~ClaimDispatch(g)
    PROVE  /\ Owns(g) /\ Active(g)
           /\ HandlerStep(g) \/ (handlers'[g] = handlers[g] /\ delivery' = delivery)
<1> USE DEF Inv
<1>1. Active(g) /\ handlers'[g].own = handlers[g].own
      /\ (HandlerStep(g) \/ handlers'[g] = handlers[g])
  <2>1. CASE \E h \in Handlers : HandlerStep(h)
    BY <2>1, OthersUntouched, OwnKept DEF Active
  <2>2. CASE UNCHANGED handlers
    BY <2>2 DEF Active
  <2> QED
    BY <2>1, <2>2 DEF Next, vars, SendNotification, LeaseExpires, ExhaustAbandonedJob,
       RequeueAbandonedJob, FinalizerFailsJob, DeadDispatchFailsJob
<1>2. handlers[g].own \in 1..owner
  BY <1>1 DEF OwnInv
<1>3. CASE UNCHANGED <<jobVars, deliveryVars>>
  BY <1>1, <1>3 DEF Owns, jobVars, deliveryVars
<1>4. CASE \E h \in Handlers : ClaimDispatch(h)
  BY <1>1, <1>2, <1>4, JobSteps DEF ClaimDispatch, Owns, TypeOK
<1>5. CASE \E h \in Handlers : Owns(h) /\ Active(h) /\ HandlerStep(h) /\ UNCHANGED jobVars
  <2>1. Owns(g)
    BY <1>1, <1>5 DEF Owns, jobVars
  <2>2. HandlerStep(g)
    BY <1>1, <1>5, <2>1 DEF OwnInv, Owns
  <2> QED
    BY <1>1, <2>1, <2>2
<1>6. state' = "running"
  BY DEF Owns
<1> QED
  BY <1>3, <1>4, <1>5, <1>6, StepShape

\* What the owner has seen of the delivery is what is there.
LEMMA NextView ==
    ASSUME Inv, [Next]_vars
    PROVE  ViewInv'
<1> USE DEF Inv
<1> SUFFICES ASSUME NEW g \in Handlers, Owns(g)', Active(g)'
             PROVE  /\ handlers'[g].phase = "loaded" => handlers'[g].seen = delivery'
                    /\ handlers'[g].phase \in {"marked", "sending", "answered"}
                       => delivery' = "running"
  BY DEF ViewInv, Active
<1>1. CASE ClaimDispatch(g)
  BY <1>1 DEF ClaimDispatch, TypeOK, Handler
<1>2. CASE ~ClaimDispatch(g) /\ ~HandlerStep(g)
  BY <1>2, OwnershipKept DEF ViewInv
<1>3. CASE ~ClaimDispatch(g) /\ HandlerStep(g)
  <2>1. Owns(g) /\ Active(g) /\ ~Ends(g)
    BY <1>3, OwnershipKept DEF Ends, Idle, Active, TypeOK
  <2>2. CASE GetDelivery(g)
    BY <2>2 DEF GetDelivery, TypeOK, Handler, deliveryVars
  <2>3. CASE MarkDeliveryRunning(g)
    BY <2>1, <2>3 DEF MarkDeliveryRunning, EndsStale, Moves, TypeOK, Handler
  <2>4. CASE Revalidate(g)
    BY <2>1, <2>4 DEF Revalidate, EndsStale, Moves, TypeOK, Handler, ViewInv, deliveryVars
  <2>5. CASE SendEmail(g)
    <3>1. handlers'[g].phase = "answered"
      BY <2>5 DEF SendEmail, TypeOK, Handler
    <3> QED
      BY <2>1, <2>5, <3>1 DEF SendEmail, ViewInv, deliveryVars
  <2>6. CASE ReturnDeliveryToQueue(g) \/ HandlerRaises(g)
    BY <2>1, <2>6 DEF ReturnDeliveryToQueue, HandlerRaises, EndsStale, Moves, TypeOK, Handler
  <2>7. ~(SettleLoaded(g) \/ SettleAnswer(g) \/ SettleRetryableFailure(g) \/ WorkerCrash(g))
    BY <2>1 DEF SettleLoaded, SettleAnswer, SettleRetryableFailure, WorkerCrash, Settles,
       EndsStale
  <2> QED
    BY <1>3, <2>2, <2>3, <2>4, <2>5, <2>6, <2>7 DEF HandlerStep
<1> QED
  BY <1>1, <1>2, <1>3

\* While another handler may send, the owner of the job holds no permission
\* and no answer that says unsent: the delivery is running or settled.
LEMMA NextSend ==
    ASSUME Inv, [Next]_vars
    PROVE  SendInv'
<1> USE DEF Inv
<1>1. CASE UNCHANGED <<handlers, accepted, deliveryVars, jobVars>>
  BY <1>1 DEF SendInv, SaysUnsent, MaySend, Unsent, IsDeliveryTerminal, deliveryVars, Owns,
     jobVars
<1>2. ASSUME NEW code \in {"safe_retries_exhausted", "dispatch_failed"}, FailsJob(code),
             accepted' = accepted,
             \A h \in Handlers : handlers'[h] = handlers[h] \/ handlers'[h] = Idle,
             code = "dispatch_failed" => starts = 0
      PROVE  SendInv'
  <2>1. /\ state \in {"queued", "running"} /\ state' = "failed" /\ delivery' = "failed"
        /\ error_code' = code /\ failed_from' = delivery /\ ~IsDeliveryTerminal
    BY <1>2, JobSteps DEF FailsJob, FailDelivery, RowsInv, JobTerminal
  <2>2. code = "dispatch_failed" => Unsent
    BY <1>2, <2>1 DEF RowsInv, SendInv
  <2>3. delivery \in {"queued", "running"} /\ (delivery = "queued" => Unsent)
    BY <2>1 DEF TypeOK, DeliveryStatus, IsDeliveryTerminal, RowsInv, SendInv
  <2>4. \A h \in Handlers : MaySend(h)' => MaySend(h)
    BY <1>2 DEF MaySend, Idle
  <2>5. (Unsent => Unsent') /\ IsDeliveryTerminal'
    BY <1>2, <2>1, <2>4 DEF Unsent, IsDeliveryTerminal
  <2>6. \A h \in Handlers : handlers'[h].phase = "answered" =>
          handlers'[h] = handlers[h] /\ ~Owns(h)'
    BY <1>2, <2>1 DEF Idle, Owns
  <2> QED
    BY <1>2, <2>1, <2>2, <2>3, <2>4, <2>5, <2>6 DEF SendInv, SaysUnsent
<1>3. ASSUME \A h \in Handlers : MaySend(h)' => MaySend(h),
             \A h \in Handlers :
               handlers'[h].phase = "answered" =>
                 handlers'[h] = handlers[h] /\ (Owns(h)' => Owns(h)),
             UNCHANGED <<accepted, deliveryVars>>
      PROVE  SendInv'
  BY <1>3 DEF SendInv, SaysUnsent, MaySend, Unsent, IsDeliveryTerminal, deliveryVars
<1>4. ASSUME NEW h \in Handlers, HandlerStep(h) PROVE SendInv'
  <2>0. \A g \in Handlers \ {h} : handlers'[g] = handlers[g]
    BY <1>4, OthersUntouched
  <2>1. CASE EndsStale(h) /\ accepted' = accepted
    <3>1. handlers'[h].phase = "idle"
      BY <2>1 DEF EndsStale, Ends, Idle, TypeOK
    <3> QED
      BY <1>3, <2>0, <2>1, <3>1 DEF EndsStale, MaySend, Owns, jobVars
  <2>2. ASSUME NEW status \in {"succeeded", "failed", "attention_required"}, NEW code,
               NEW outcome, Settles(h, status, code, outcome), accepted' = accepted,
               status = "succeeded" => accepted = 1,
               code \in {"none", "rejected", "acceptance_unknown"},
               code = "rejected" => Unsent,
               status = "failed" => code = "rejected"
        PROVE  SendInv'
    <3>1. handlers'[h].phase = "idle" /\ state' # "running"
      BY <2>2, JobSteps DEF Settles, Ends, Idle, TypeOK
    <3>2. Unsent => Unsent'
      BY <2>0, <2>2, <3>1 DEF Unsent, MaySend
    <3>3. \A g \in Handlers : MaySend(g)' => MaySend(g)
      BY <2>0, <3>1 DEF MaySend
    <3>4. \A g \in Handlers : handlers'[g].phase = "answered" =>
            handlers'[g] = handlers[g] /\ ~Owns(g)'
      BY <2>0, <3>1 DEF Owns
    <3>5. /\ delivery' = status /\ error_code' = code /\ IsDeliveryTerminal'
      BY <2>2 DEF Settles, IsDeliveryTerminal
    <3> QED
      BY <2>2, <3>2, <3>3, <3>4, <3>5 DEF SendInv, SaysUnsent
  <2>3. CASE ClaimDispatch(h)
    <3>1. handlers'[h].phase = "claimed" /\ owner' = owner + 1 /\ owner \in Nat
          /\ UNCHANGED <<accepted, deliveryVars>>
      BY <2>3, JobSteps DEF ClaimDispatch, TypeOK, Handler
    <3>2. ASSUME NEW g \in Handlers, handlers'[g].phase = "answered"
          PROVE  handlers'[g] = handlers[g] /\ ~Owns(g)'
      BY <2>0, <3>1, <3>2 DEF OwnInv, Active, Owns
    <3> QED
      BY <1>3, <2>0, <3>1, <3>2 DEF MaySend
  <2>4. CASE GetDelivery(h) \/ HandlerRaises(h)
    <3>1. handlers'[h].phase \in {"loaded", "raised"}
      BY <2>4 DEF GetDelivery, HandlerRaises, Moves, TypeOK, Handler
    <3>2. UNCHANGED <<accepted, jobVars, deliveryVars>>
      BY <2>4 DEF GetDelivery, HandlerRaises
    <3> QED
      BY <1>3, <2>0, <3>1, <3>2 DEF MaySend, Owns, jobVars
  <2>5. CASE MarkDeliveryRunning(h) /\ ~EndsStale(h)
    <3>1. /\ Owns(h) /\ handlers[h].phase = "loaded" /\ handlers[h].seen = "queued"
          /\ delivery' = "running" /\ UNCHANGED <<jobVars, error_code, failed_from, accepted>>
          /\ Moves(h, "marked")
      BY <2>5 DEF MarkDeliveryRunning, MayBeSent
    <3>2. delivery = "queued" /\ Unsent
      BY <3>1 DEF ViewInv, SendInv
    <3>3. error_code = "none"
      BY <3>2 DEF SendInv, IsDeliveryTerminal
    <3>4. handlers'[h].phase = "marked"
      BY <3>1 DEF Moves, TypeOK, Handler
    <3>5. ASSUME NEW g \in Handlers, handlers'[g].phase = "answered"
          PROVE  handlers'[g] = handlers[g] /\ ~Owns(g)'
      BY <2>0, <3>1, <3>4, <3>5 DEF OwnInv, Active, Owns, jobVars
    <3> QED
      BY <2>0, <3>1, <3>2, <3>3, <3>4, <3>5 DEF SendInv, SaysUnsent, MaySend, Unsent
  <2>6. CASE SettleLoaded(h) /\ ~EndsStale(h)
    <3>1. CASE handlers[h].seen = "running"
      BY <2>2, <2>6, <3>1 DEF SettleLoaded
    <3>2. CASE handlers[h].seen # "running"
      BY <2>6, <3>2 DEF SettleLoaded, Settles, MayBeSent, ViewInv, Owns, RowsInv, TypeOK,
         DeliveryStatus, IsDeliveryTerminal, JobTerminal
    <3> QED
      BY <3>1, <3>2
  <2>7. CASE Revalidate(h) /\ ~EndsStale(h)
    <3>1. handlers[h].phase = "marked" /\ handlers'[h].phase = "sending"
      BY <2>7 DEF Revalidate, Moves, TypeOK, Handler
    <3> QED
      BY <1>3, <2>0, <2>7, <3>1 DEF Revalidate, MaySend, Owns, jobVars
  <2>8. ASSUME handlers[h].phase = "sending", accepted' \in {accepted, accepted + 1},
               handlers'[h].phase \in {"answered", "idle"},
               UNCHANGED <<jobVars, deliveryVars>>,
               handlers'[h].phase = "answered" =>
                 /\ handlers'[h].answer \in Answer
                 /\ handlers'[h].answer = "accepted" => accepted' = accepted + 1
                 /\ handlers'[h].answer \in {"unsent", "rejected"} => accepted' = accepted
        PROVE  SendInv'
    <3>1. /\ accepted = 0 /\ \A g \in Handlers : MaySend(g) => g = h
          /\ ~Unsent /\ delivery \notin {"absent", "queued", "succeeded"}
          /\ ~SaysUnsent
      BY <2>8 DEF SendInv, MaySend, Unsent
    <3>2. \A g \in Handlers : ~MaySend(g)'
      BY <2>0, <2>8, <3>1 DEF MaySend
    <3>3. ASSUME NEW g \in Handlers, handlers'[g].phase = "answered"
          PROVE  /\ handlers'[g].answer \in Answer
                 /\ handlers'[g].answer = "accepted" => accepted' = 1
                 /\ handlers'[g].answer \in {"unsent", "rejected"} /\ Owns(g)' => Unsent'
      <4>1. CASE g = h
        BY <2>8, <3>1, <3>2, <3>3, <4>1 DEF Unsent
      <4>2. CASE g # h
        BY <2>0, <2>8, <3>1, <3>3, <4>2 DEF SendInv, Owns, jobVars
      <4> QED
        BY <4>1, <4>2
    <3> QED
      BY <2>8, <3>1, <3>2, <3>3 DEF SendInv, SaysUnsent, IsDeliveryTerminal, deliveryVars
  <2>9. CASE SendEmail(h)
    <3>1. PICK answer \in Answer :
            /\ handlers' = [handlers EXCEPT ![h].phase = "answered", ![h].answer = answer]
            /\ accepted' \in {accepted, accepted + 1}
            /\ answer = "accepted" => accepted' = accepted + 1
            /\ answer \in {"unsent", "rejected"} => accepted' = accepted
      BY <2>9 DEF SendEmail, Answer
    <3> QED
      BY <2>8, <2>9, <3>1 DEF SendEmail, TypeOK, Handler
  <2>10. CASE ReturnDeliveryToQueue(h) /\ ~EndsStale(h)
    <3>1. /\ Owns(h) /\ handlers[h].phase = "answered" /\ handlers[h].answer = "unsent"
          /\ delivery' = "queued" /\ UNCHANGED <<jobVars, error_code, failed_from, accepted>>
          /\ Moves(h, "raised")
      BY <2>10 DEF ReturnDeliveryToQueue
    <3>2. delivery = "running" /\ Unsent
      BY <3>1 DEF ViewInv, SendInv
    <3>3. error_code = "none"
      BY <3>2 DEF SendInv, IsDeliveryTerminal
    <3>4. handlers'[h].phase = "raised"
      BY <3>1 DEF Moves, TypeOK, Handler
    <3>5. Unsent'
      BY <2>0, <3>1, <3>2, <3>4 DEF Unsent, MaySend
    <3> QED
      BY <2>0, <3>1, <3>3, <3>4, <3>5 DEF SendInv, SaysUnsent, Unsent
  <2>11. CASE SettleAnswer(h) /\ ~EndsStale(h)
    <3>1. CASE handlers[h].answer = "accepted"
      BY <2>2, <2>11, <3>1 DEF SettleAnswer, SendInv
    <3>2. CASE handlers[h].answer = "unknown"
      BY <2>2, <2>11, <3>2 DEF SettleAnswer
    <3>3. CASE handlers[h].answer = "rejected"
      <4>1. Unsent /\ Settles(h, "failed", "rejected", "failed") /\ accepted' = accepted
        BY <2>11, <3>3 DEF SettleAnswer, Settles, SendInv
      <4> QED
        BY <2>2, <4>1
    <3> QED
      BY <2>11, <3>1, <3>2, <3>3 DEF SettleAnswer
  <2>12. CASE SettleRetryableFailure(h) /\ ~EndsStale(h)
    <3>1. \A g \in Handlers : handlers'[g] = handlers[g] \/ handlers'[g] = Idle
      BY <2>0, <2>12 DEF SettleRetryableFailure, Ends, TypeOK
    <3>2. CASE FailsJob("safe_retries_exhausted")
      BY <1>2, <2>12, <3>1, <3>2 DEF SettleRetryableFailure
    <3>3. CASE Job!Requeue /\ UNCHANGED deliveryVars
      <4>1. state' = "queued"
        BY <3>3, JobSteps
      <4> QED
        BY <1>3, <2>12, <3>1, <3>3, <4>1 DEF SettleRetryableFailure, MaySend, Owns, Idle
    <3> QED
      BY <2>12, <3>2, <3>3 DEF SettleRetryableFailure
  <2>13. CASE WorkerCrash(h)
    <3>1. handlers'[h].phase = "idle" /\ UNCHANGED <<jobVars, deliveryVars>>
      BY <2>13 DEF WorkerCrash, Ends, Idle, TypeOK
    <3>2. CASE handlers[h].phase = "sending"
      BY <2>8, <2>13, <3>1, <3>2 DEF WorkerCrash
    <3>3. CASE handlers[h].phase # "sending"
      BY <1>3, <2>0, <2>13, <3>1, <3>3 DEF WorkerCrash, MaySend, Owns, jobVars
    <3> QED
      BY <3>2, <3>3
  <2> QED
    BY <1>4, <2>1, <2>3, <2>4, <2>5, <2>6, <2>7, <2>9, <2>10, <2>11, <2>12, <2>13
       DEF HandlerStep, MarkDeliveryRunning, SettleLoaded, Revalidate,
           ReturnDeliveryToQueue, SettleAnswer, SettleRetryableFailure
<1>5. CASE ExhaustAbandonedJob \/ FinalizerFailsJob \/ DeadDispatchFailsJob
  BY <1>2, <1>5 DEF ExhaustAbandonedJob, FinalizerFailsJob, DeadDispatchFailsJob
<1>6. CASE SendNotification
  <2>1. delivery = "absent" /\ Unsent /\ delivery' = "queued" /\ state' = "queued"
        /\ UNCHANGED <<handlers, accepted, error_code, failed_from>>
    BY <1>6, JobSteps DEF SendNotification, RowsInv, SendInv
  <2>2. error_code = "none"
    BY <2>1 DEF SendInv, IsDeliveryTerminal
  <2> QED
    BY <2>1, <2>2 DEF SendInv, SaysUnsent, Unsent, MaySend, Owns
<1>7. CASE RequeueAbandonedJob
  <2>1. state' = "queued" /\ UNCHANGED <<handlers, accepted, deliveryVars>>
    BY <1>7, JobSteps DEF RequeueAbandonedJob
  <2> QED
    BY <1>3, <2>1 DEF MaySend, Owns
<1>8. CASE LeaseExpires \/ UNCHANGED vars
  BY <1>1, <1>8 DEF LeaseExpires, vars
<1> QED
  BY <1>4, <1>5, <1>6, <1>7, <1>8 DEF Next

\* The conjunction is an invariant.
LEMMA InvCorrect == Spec => []Inv
<1>1. Inv /\ [Next]_vars => Inv'
  BY NextTypeOK, NextRows, NextOwn, NextView, NextSend DEF Inv
<1> QED
  BY <1>1, InitInv, PTL DEF Spec

\* No step writes a delivery that is settled: its job is, too.
LEMMA TerminalStep ==
    ASSUME Inv, [Next]_vars, IsDeliveryTerminal
    PROVE  UNCHANGED deliveryVars
<1>1. state \in {"succeeded", "failed"}
  BY DEF Inv, RowsInv, JobTerminal
<1>2. CASE \E h \in Handlers : HandlerStep(h)
  BY <1>1, <1>2 DEF HandlerStep, ClaimDispatch, GetDelivery, MarkDeliveryRunning,
     SettleLoaded, Settles, Revalidate, SendEmail, ReturnDeliveryToQueue, SettleAnswer,
     HandlerRaises, SettleRetryableFailure, WorkerCrash, EndsStale, Owns
<1>3. CASE SendNotification
  BY <1>1, <1>3, JobSteps DEF SendNotification, Inv
<1>4. CASE ExhaustAbandonedJob \/ FinalizerFailsJob \/ DeadDispatchFailsJob
  BY <1>4 DEF ExhaustAbandonedJob, FinalizerFailsJob, DeadDispatchFailsJob,
     FailsJob, FailDelivery
<1>5. CASE LeaseExpires \/ RequeueAbandonedJob \/ UNCHANGED vars
  BY <1>5 DEF LeaseExpires, RequeueAbandonedJob, vars
<1> QED
  BY <1>2, <1>3, <1>4, <1>5 DEF Next

\* The mapping, once the invariant is known: the verdict is that of the report,
\* and the report says what is so.
LEMMA ReportIs ==
    Inv => /\ Report \in {"none", "open"} \union Promise!Reports
           /\ Report = "none" <=> delivery = "absent"
           /\ Report \in Promise!Reports <=> IsDeliveryTerminal
           /\ Report \in Promise!Reports => accepted \in Promise!Says[Report]
           /\ Verdict = IF Report \in {"none", "open"} THEN Report
                        ELSE IF Report = "sent" THEN "succeeded" ELSE "failed"
<1> SUFFICES ASSUME Inv
             PROVE  /\ Report \in {"none", "open"} \union Promise!Reports
                    /\ Report = "none" <=> delivery = "absent"
                    /\ Report \in Promise!Reports <=> IsDeliveryTerminal
                    /\ Report \in Promise!Reports => accepted \in Promise!Says[Report]
                    /\ Verdict = IF Report \in {"none", "open"} THEN Report
                                 ELSE IF Report = "sent" THEN "succeeded" ELSE "failed"
  OBVIOUS
<1>1. Promise!Reports = {"sent", "rejected", "undispatched", "unknown", "exhausted"}
  BY DEF Promise!Reports, Promise!Says
<1>2. /\ Report \in {"none", "open", "sent", "rejected", "undispatched", "unknown", "exhausted"}
      /\ Report = "none" <=> delivery = "absent"
      /\ Report \notin {"none", "open"} <=> IsDeliveryTerminal
      /\ Report = "sent" <=> delivery = "succeeded"
  BY DEF Report, IsDeliveryTerminal
<1>3. /\ accepted \in {0, 1}
      /\ Report = "sent" => accepted = 1
      /\ Report \in {"rejected", "undispatched", "exhausted"} => accepted = 0
  <2>1. Report \in {"rejected", "undispatched", "exhausted"} => delivery = "failed" /\ ~Overlooked
    BY DEF Report, IsDeliveryTerminal
  <2>2. delivery = "failed" /\ ~Overlooked => SaysUnsent
    BY DEF Inv, SendInv, SaysUnsent, Overlooked
  <2> QED
    BY <1>2, <2>1, <2>2 DEF Inv, SendInv, Unsent
<1>4. Report \in Promise!Reports => accepted \in Promise!Says[Report]
  BY <1>1, <1>3 DEF Promise!Says
<1>5. Verdict = IF Report \in {"none", "open"} THEN Report
                ELSE IF Report = "sent" THEN "succeeded" ELSE "failed"
  <2>1. /\ state \in {"absent", "queued", "running", "succeeded", "failed"}
        /\ state = "absent" <=> delivery = "absent"
        /\ IsDeliveryTerminal <=> state \in {"succeeded", "failed"}
        /\ delivery = "succeeded" <=> state = "succeeded"
    BY DEF Inv, TypeOK, RowsInv, JobTerminal
  <2> QED
    BY <1>2, <2>1 DEF Verdict
<1> QED
  BY <1>1, <1>2, <1>4, <1>5

\* Only a handler at the provider has the mail accepted, and it leaves the rows
\* alone.
LEMMA MailAccepted ==
    ASSUME Inv, [Next]_vars, accepted' # accepted
    PROVE  /\ accepted = 0 /\ accepted' = 1
           /\ UNCHANGED <<state, deliveryVars>>
           /\ ~Unsent
<1>1. PICK h \in Handlers : /\ handlers[h].phase = "sending"
                            /\ SendEmail(h) \/ WorkerCrash(h)
  BY DEF Next, vars, HandlerStep, SendNotification, ClaimDispatch, GetDelivery,
     MarkDeliveryRunning, SettleLoaded, Revalidate, SendEmail, ReturnDeliveryToQueue,
     SettleAnswer, HandlerRaises, SettleRetryableFailure, WorkerCrash, LeaseExpires,
     ExhaustAbandonedJob, RequeueAbandonedJob, FinalizerFailsJob, DeadDispatchFailsJob
<1>2. accepted' = accepted + 1 /\ UNCHANGED <<state, deliveryVars>>
  BY <1>1 DEF SendEmail, WorkerCrash, jobVars, Answer
<1>3. accepted = 0 /\ ~Unsent
  BY <1>1 DEF Inv, SendInv, MaySend, Unsent
<1> QED
  BY <1>2, <1>3

\* Only a request creates the delivery, and it does not end it.
LEMMA DeliveryCreated ==
    ASSUME Inv, [Next]_vars, delivery = "absent", delivery' # "absent"
    PROVE  delivery' = "queued"
<1>1. state = "absent"
  BY DEF Inv, RowsInv
<1> QED
  BY <1>1, JobSteps DEF Inv, Next, vars, deliveryVars, HandlerStep, SendNotification,
     ClaimDispatch, GetDelivery, MarkDeliveryRunning, SettleLoaded, Settles, Revalidate,
     SendEmail, ReturnDeliveryToQueue, SettleAnswer, HandlerRaises, SettleRetryableFailure,
     WorkerCrash, EndsStale, LeaseExpires, ExhaustAbandonedJob, RequeueAbandonedJob,
     FinalizerFailsJob, DeadDispatchFailsJob, FailsJob, Owns

-----------------------------------------------------------------------------
\* Every variable keeps its type.
THEOREM TypeCorrect == Spec => []TypeOK
<1>1. Inv => TypeOK
  BY DEF Inv
<1> QED
  BY <1>1, InvCorrect, PTL

\* The provider accepts the mail at most once, for any number of handlers and
\* attempts and whatever fails: the permission to send passes from attempt to
\* attempt only through a delivery that is known to be unsent.
THEOREM AtMostOneMailCorrect == Spec => []AtMostOneMail
<1>1. Inv => AtMostOneMail
  BY DEF Inv, SendInv, AtMostOneMail
<1> QED
  BY <1>1, InvCorrect, PTL

\* The delivery and its job always have the same outcome, "succeeded" says that
\* the mail was accepted, and "rejected", "dispatch_failed" and, of a delivery that
\* was not overlooked, "safe_retries_exhausted" say that it was not.
THEOREM OutcomesAgreeCorrect == Spec => []OutcomesAgree
<1>1. Inv => OutcomesAgree
  BY DEF Inv, RowsInv, SendInv, SaysUnsent, Unsent, OutcomesAgree, Overlooked
<1> QED
  BY <1>1, InvCorrect, PTL

\* A settled delivery is never written again.
THEOREM TerminalFinalCorrect == Spec => TerminalDeliveryIsFinal
<1>1. Inv /\ [Next]_vars /\ IsDeliveryTerminal => UNCHANGED deliveryVars
  BY TerminalStep
<1> QED
  BY <1>1, InvCorrect, PTL DEF Spec, TerminalDeliveryIsFinal

\* A handler whose credential is no longer in force writes neither row.
THEOREM SupersededCorrect == Spec => SupersededHandlerIsHarmless
<1>1. ASSUME Inv, [Next]_vars, NEW h \in Handlers, Active(h), handlers[h].own # owner,
             handlers'[h] # handlers[h]
      PROVE  UNCHANGED <<jobVars, lease, deliveryVars>>
  <2>1. HandlerStep(h)
    BY <1>1, OthersUntouched DEF Inv, Next, vars, SendNotification, LeaseExpires,
       ExhaustAbandonedJob, RequeueAbandonedJob, FinalizerFailsJob, DeadDispatchFailsJob
  <2> QED
    BY <1>1, <2>1 DEF HandlerStep, ClaimDispatch, GetDelivery, MarkDeliveryRunning,
       SettleLoaded, Settles, Revalidate, SendEmail, ReturnDeliveryToQueue, SettleAnswer,
       HandlerRaises, SettleRetryableFailure, WorkerCrash, EndsStale, Owns
<1>2. Inv /\ [Next]_vars =>
        \A h \in Handlers :
          Active(h) /\ handlers[h].own # owner /\ handlers'[h] # handlers[h]
          => UNCHANGED <<jobVars, lease, deliveryVars>>
  BY <1>1
<1> QED
  BY <1>2, InvCorrect, PTL DEF Spec, SupersededHandlerIsHarmless

\* For any number of handlers and attempts and every set of faults, rows, job and
\* provider together are one mail with one report: each step is the mail's or
\* shows nothing of it.  An overlooked delivery counts as one of unknown outcome.
THEOREM MailRefinement == Spec => ImplementsMail
<1>1. Init => Promise!Init
  BY DEF Init, Job!Init, Promise!Init, Report, Verdict
<1>2. ASSUME Inv, Inv', [Next]_vars
      PROVE  [Promise!Next]_(Promise!mailVars)
  <2> DEFINE Is == /\ Report \in {"none", "open"} \union Promise!Reports
                   /\ Report = "none" <=> delivery = "absent"
                   /\ Report \in Promise!Reports <=> IsDeliveryTerminal
                   /\ Report \in Promise!Reports => accepted \in Promise!Says[Report]
                   /\ Verdict = IF Report \in {"none", "open"} THEN Report
                                ELSE IF Report = "sent" THEN "succeeded" ELSE "failed"
  <2>1. Is /\ Is'
    BY <1>2, ReportIs, PTL
  <2>2. CASE accepted' # accepted
    <3>1. /\ accepted = 0 /\ accepted' = 1 /\ ~Unsent
          /\ UNCHANGED <<Report, Verdict>>
      BY <1>2, <2>2, MailAccepted DEF Report, Verdict, IsDeliveryTerminal, Overlooked,
         deliveryVars
    <3>2. /\ delivery \in {"running", "failed", "attention_required"}
          /\ delivery = "failed" => Overlooked
      BY <1>2, <3>1 DEF Inv, SendInv, SaysUnsent, Overlooked, TypeOK, DeliveryStatus
    <3>3. Report \in {"open", "unknown"}
      BY <3>2 DEF Report, IsDeliveryTerminal
    <3> QED
      BY <3>1, <3>3 DEF Promise!Next, Promise!Accept
  <2>3. CASE accepted' = accepted /\ Report = "none"
    <3>1. Report' \in {"none", "open"}
      BY <1>2, <2>1, <2>3, DeliveryCreated DEF Report, IsDeliveryTerminal
    <3> QED
      BY <2>1, <2>3, <3>1 DEF Promise!Next, Promise!Request, Promise!mailVars
  <2>4. CASE accepted' = accepted /\ Report = "open"
    <3>1. delivery # "absent" /\ delivery' # "absent"
      <4>1. delivery # "absent" /\ state # "absent"
        BY <1>2, <2>1, <2>4 DEF Inv, RowsInv
      <4>2. state' # "absent"
        BY <1>2, <4>1, JobSteps DEF Inv, Next, vars, jobVars, HandlerStep, SendNotification,
           ClaimDispatch, GetDelivery, MarkDeliveryRunning, SettleLoaded, Settles, Revalidate,
           SendEmail, ReturnDeliveryToQueue, SettleAnswer, HandlerRaises,
           SettleRetryableFailure, WorkerCrash, EndsStale, LeaseExpires, ExhaustAbandonedJob,
           RequeueAbandonedJob, FinalizerFailsJob, DeadDispatchFailsJob, FailsJob
      <4> QED
        BY <1>2, <4>1, <4>2 DEF Inv, RowsInv
    <3>2. CASE Report' = "open"
      BY <2>1, <2>4, <3>2 DEF Promise!mailVars
    <3>3. CASE Report' \in Promise!Reports
      <4>1. "none" \notin Promise!Reports /\ "open" \notin Promise!Reports
        BY DEF Promise!Reports, Promise!Says
      <4> QED
        BY <2>1, <2>4, <3>3, <4>1 DEF Promise!Next, Promise!Conclude
    <3> QED
      BY <2>1, <3>1, <3>2, <3>3
  <2>5. CASE accepted' = accepted /\ Report \in Promise!Reports
    <3>1. Report' = Report
      BY <1>2, <2>1, <2>5, TerminalStep DEF Report, IsDeliveryTerminal, Overlooked,
         deliveryVars
    <3> QED
      BY <2>1, <2>5, <3>1 DEF Promise!mailVars
  <2> QED
    BY <2>1, <2>2, <2>3, <2>4, <2>5
<1> QED
  BY <1>1, <1>2, InvCorrect, PTL DEF Spec, ImplementsMail, Promise!Spec
=============================================================================
