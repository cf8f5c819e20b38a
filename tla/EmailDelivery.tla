--------------------------- MODULE EmailDelivery ---------------------------
(***************************************************************************)
(* One notification e-mail: modules/notifications/tasks.py and the         *)
(* delivery helpers of its service.  The delivery row is written only in   *)
(* transactions that also hold the job's row, by the handler that owns the *)
(* job or by the exhaustion hook of whoever fails the job.  The send is    *)
(* outside of every transaction.                                           *)
(*                                                                         *)
(* The job is the abstract one of JobLifecycle, which JobDelivery is       *)
(* proved to implement; here its steps are taken by the e-mail handlers    *)
(* and by the recovery paths, with what a handler reads and when.          *)
(***************************************************************************)
EXTENDS Naturals

CONSTANTS
    MaxStarts,       \* MAX_ATTEMPTS
    Handlers,        \* workers that may process a copy of the message
    Faults

ASSUME MaxStartsAssumption == MaxStarts \in Nat \ {0}
ASSUME FaultsAssumption == Faults \subseteq {"crash", "raise", "finalizer", "dead"}

VARIABLES
    state, starts, owner, outcomes,      \* the job, see JobLifecycle
    lease,           \* the running attempt's execution lease is live
    delivery,        \* notification_deliveries.status, or "absent"
    error_code,      \* notification_deliveries.error_code
    failed_from,     \* history: the status in which the exhaustion hook failed it
    handlers,
    accepted         \* how often the provider accepted this mail

Job == INSTANCE JobLifecycle

jobVars == <<state, starts, owner, outcomes>>
deliveryVars == <<delivery, error_code, failed_from>>
vars == <<jobVars, lease, deliveryVars, handlers, accepted>>

DeliveryStatus ==
    {"absent", "queued", "running", "succeeded", "failed", "attention_required"}
DeliveryError ==
    {"none", "rejected", "acceptance_unknown", "safe_retries_exhausted", "dispatch_failed"}

IsDeliveryTerminal == delivery \in {"succeeded", "failed", "attention_required"}
JobTerminal == state \in {"succeeded", "failed"}

\* What the adapter answers; a rejection stands for every other EmailSendError.
Answer == {"accepted", "unsent", "unknown", "rejected"}

\* "claimed": before the delivery is read; "loaded": it was, as "seen";
\* "marked": it is running by this handler; "sending": ownership was checked
\* again; "raised": the exception is not yet settled.
Handler == [phase : {"idle", "claimed", "loaded", "marked", "sending", "answered", "raised"},
            own : Nat, seen : DeliveryStatus, answer : Answer \union {"none"}]
Idle == [phase |-> "idle", own |-> 0, seen |-> "absent", answer |-> "none"]

TypeOK ==
    /\ state \in {"absent", "queued", "running", "succeeded", "failed"}
    /\ starts \in 0..MaxStarts
    /\ owner \in Nat /\ outcomes \in Nat
    /\ lease \in BOOLEAN
    /\ delivery \in DeliveryStatus
    /\ error_code \in DeliveryError
    /\ failed_from \in DeliveryStatus
    /\ handlers \in [Handlers -> Handler]
    /\ accepted \in Nat

Init ==
    /\ Job!Init
    /\ lease = FALSE
    /\ delivery = "absent" /\ error_code = "none" /\ failed_from = "absent"
    /\ handlers = [h \in Handlers |-> Idle]
    /\ accepted = 0

\* One transaction: the notification, its delivery, the job and its event.
SendNotification ==
    /\ Job!Accept
    /\ delivery' = "queued"
    /\ UNCHANGED <<lease, error_code, failed_from, handlers, accepted>>

-----------------------------------------------------------------------------
(* One attempt.                                                            *)

Active(h) == handlers[h].phase # "idle"

\* verify_ownership
Owns(h) == state = "running" /\ owner = handlers[h].own

Moves(h, phase) == handlers' = [handlers EXCEPT ![h].phase = phase]
Ends(h) == handlers' = [handlers EXCEPT ![h] = Idle]

\* StaleDispatchError: the message is acknowledged, nothing is written.
EndsStale(h) ==
    /\ ~Owns(h)
    /\ Ends(h)
    /\ UNCHANGED <<jobVars, lease, deliveryVars>>

\* claim_dispatch, from the queue or over an expired lease.
ClaimDispatch(h) ==
    /\ ~Active(h)
    /\ state = "running" => ~lease
    /\ Job!Start
    /\ lease' = TRUE
    /\ handlers' = [handlers EXCEPT ![h].phase = "claimed", ![h].own = owner']
    /\ UNCHANGED <<deliveryVars, accepted>>

\* get_delivery_for_task.  The transaction holds no lock yet, and the session
\* keeps this version of the row.
GetDelivery(h) ==
    /\ handlers[h].phase = "claimed"
    /\ handlers' = [handlers EXCEPT ![h].phase = "loaded", ![h].seen = delivery]
    /\ UNCHANGED <<jobVars, lease, deliveryVars, accepted>>

\* Mutant of MayBeSent: a delivery in flight is sent again.
MayBeSent_InFlight(seen) == seen \in {"queued", "running"}

MayBeSent(seen) == seen = "queued"

MarkDeliveryRunning(h) ==
    /\ handlers[h].phase = "loaded"
    /\ MayBeSent(handlers[h].seen)
    /\ \/ /\ Owns(h)
          /\ delivery' = "running"
          /\ Moves(h, "marked")
          /\ UNCHANGED <<jobVars, lease, error_code, failed_from>>
       \/ EndsStale(h)
    /\ accepted' = accepted

\* The delivery's outcome and the job's, in one transaction.
Settles(h, status, code, outcome) ==
    /\ Owns(h)
    /\ delivery' = status
    /\ error_code' = code
    /\ failed_from' = failed_from
    /\ Job!Settle
    /\ state' = outcome
    /\ lease' = FALSE
    /\ Ends(h)

\* An attempt before this one crossed the submission boundary: the outcome is
\* unknown.  Or the delivery was settled already, and the job follows it.
SettleLoaded(h) ==
    /\ handlers[h].phase = "loaded"
    /\ ~MayBeSent(handlers[h].seen)
    /\ \/ IF handlers[h].seen = "running"
          THEN Settles(h, "attention_required", "acceptance_unknown", "failed")
          ELSE Settles(h, delivery, error_code,
                       IF handlers[h].seen = "succeeded" THEN "succeeded" ELSE "failed")
       \/ EndsStale(h)
    /\ accepted' = accepted

\* verify_ownership(lock=False), immediately before the provider call.
Revalidate(h) ==
    /\ handlers[h].phase = "marked"
    /\ \/ /\ Owns(h)
          /\ Moves(h, "sending")
          /\ UNCHANGED <<jobVars, lease, deliveryVars>>
       \/ EndsStale(h)
    /\ accepted' = accepted

SendEmail(h) ==
    /\ handlers[h].phase = "sending"
    /\ \E answer \in Answer :
         /\ handlers' = [handlers EXCEPT ![h].phase = "answered", ![h].answer = answer]
         /\ accepted' \in (CASE answer = "accepted" -> {accepted + 1}
                             [] answer = "unknown" -> {accepted, accepted + 1}
                             [] OTHER -> {accepted})
    /\ UNCHANGED <<jobVars, lease, deliveryVars>>

\* TransientEmailSendError: committed before the exception is raised again.
ReturnDeliveryToQueue(h) ==
    /\ handlers[h].phase = "answered" /\ handlers[h].answer = "unsent"
    /\ \/ /\ Owns(h)
          /\ delivery' = "queued"
          /\ Moves(h, "raised")
          /\ UNCHANGED <<jobVars, lease, error_code, failed_from>>
       \/ EndsStale(h)
    /\ accepted' = accepted

SettleAnswer(h) ==
    /\ handlers[h].phase = "answered"
    /\ \/ /\ handlers[h].answer = "accepted"
          /\ Settles(h, "succeeded", "none", "succeeded")
       \/ /\ handlers[h].answer = "unknown"
          /\ Settles(h, "attention_required", "acceptance_unknown", "failed")
       \/ /\ handlers[h].answer = "rejected"
          /\ Settles(h, "failed", "rejected", "failed")
       \/ handlers[h].answer # "unsent" /\ EndsStale(h)
    /\ accepted' = accepted

-----------------------------------------------------------------------------
(* Failures of an attempt, and who fails the job in its place.             *)

\* Mutant of FailDelivery: the hook is not registered.
FailDelivery_NoHook(code) == UNCHANGED deliveryVars

\* The exhaustion hook: mark_delivery_failed, from whatever the delivery's
\* status is if it is not terminal.
FailDelivery(code) ==
    IF IsDeliveryTerminal
    THEN UNCHANGED deliveryVars
    ELSE delivery' = "failed" /\ error_code' = code /\ failed_from' = delivery

\* The job fails without its handler, and the hook is run.
FailsJob(code) ==
    /\ Job!Settle
    /\ state' = "failed"
    /\ lease' = FALSE
    /\ FailDelivery(code)

\* A database error ends the handler by an exception.
HandlerRaises(h) ==
    /\ "raise" \in Faults
    /\ handlers[h].phase \in {"claimed", "loaded", "marked", "answered"}
    /\ Moves(h, "raised")
    /\ UNCHANGED <<jobVars, lease, deliveryVars, accepted>>

SettleRetryableFailure(h) ==
    /\ handlers[h].phase = "raised"
    /\ \/ /\ Owns(h) /\ starts >= MaxStarts
          /\ FailsJob("safe_retries_exhausted")
          /\ Ends(h)
       \/ /\ Owns(h)
          /\ Job!Requeue /\ owner' = owner
          /\ lease' = FALSE
          /\ Ends(h)
          /\ UNCHANGED deliveryVars
       \/ EndsStale(h)
    /\ accepted' = accepted

\* The worker dies or the time limit cancels the handler.  The thread that
\* talks to the relay may get as far as having the mail accepted.
WorkerCrash(h) ==
    /\ "crash" \in Faults
    /\ Active(h)
    /\ Ends(h)
    /\ accepted' \in (IF handlers[h].phase = "sending" THEN {accepted, accepted + 1}
                                                      ELSE {accepted})
    /\ UNCHANGED <<jobVars, lease, deliveryVars>>

\* An attempt may take longer than its lease.
LeaseExpires ==
    /\ lease
    /\ lease' = FALSE
    /\ UNCHANGED <<jobVars, deliveryVars, handlers, accepted>>

\* The running sweep, or a claim over an expired lease, at the ceiling.
ExhaustAbandonedJob ==
    /\ state = "running" /\ ~lease
    /\ starts >= MaxStarts
    /\ FailsJob("safe_retries_exhausted")
    /\ UNCHANGED <<handlers, accepted>>

RequeueAbandonedJob ==
    /\ state = "running" /\ ~lease
    /\ Job!Requeue /\ owner' = owner + 1
    /\ UNCHANGED <<lease, deliveryVars, handlers, accepted>>

\* The retries-exhausted finalizer, for a job that was never claimed or for
\* the current attempt, whose handler ended with its settlement failing.
FinalizerFailsJob ==
    /\ "finalizer" \in Faults
    /\ \/ state = "queued" /\ starts = 0
       \/ /\ state = "running" /\ ~lease
          /\ \A h \in Handlers : Active(h) => handlers[h].own # owner
    /\ FailsJob("safe_retries_exhausted")
    /\ UNCHANGED <<handlers, accepted>>

\* settle_dead_initial_dispatch
DeadDispatchFailsJob ==
    /\ "dead" \in Faults
    /\ state = "queued" /\ starts = 0
    /\ FailsJob("dispatch_failed")
    /\ UNCHANGED <<handlers, accepted>>

-----------------------------------------------------------------------------
HandlerStep(h) ==
    \/ ClaimDispatch(h) \/ GetDelivery(h)
    \/ MarkDeliveryRunning(h) \/ SettleLoaded(h)
    \/ Revalidate(h) \/ SendEmail(h)
    \/ ReturnDeliveryToQueue(h) \/ SettleAnswer(h)
    \/ HandlerRaises(h) \/ SettleRetryableFailure(h) \/ WorkerCrash(h)

Next ==
    \/ SendNotification
    \/ \E h \in Handlers : HandlerStep(h)
    \/ LeaseExpires
    \/ ExhaustAbandonedJob \/ RequeueAbandonedJob
    \/ FinalizerFailsJob \/ DeadDispatchFailsJob

Spec == Init /\ [][Next]_vars

-----------------------------------------------------------------------------
(* Properties.                                                             *)

\* The provider accepts a notification's mail at most once, whatever crashes,
\* expires or is delivered twice: an attempt sends only when it knows that no
\* earlier attempt may have.
AtMostOneMail == accepted <= 1

\* The exhaustion hook found the delivery in flight and yet failed it with
\* "safe_retries_exhausted": the attempt at the ceiling died, overran its lease
\* or raised between marking the delivery and settling it.  The decision record
\* and the operations guide demand attention_required of such a delivery.
Overlooked == failed_from = "running"

\* The delivery and its job have the same outcome, at every moment: no
\* failure path settles the one without the other.  What is reported as sent
\* was sent, and what is reported as rejected, undispatched or, unless it was
\* overlooked, exhausted was not.
OutcomesAgree ==
    /\ IsDeliveryTerminal <=> JobTerminal
    /\ delivery = "succeeded" <=> state = "succeeded"
    /\ delivery = "succeeded" => accepted = 1
    /\ error_code \in {"rejected", "dispatch_failed"} => accepted = 0
    /\ error_code = "safe_retries_exhausted" /\ ~Overlooked => accepted = 0

\* The row, as the report of the mail, and the job, as the verdict.  A delivery
\* that is overlooked counts as one whose outcome is unknown.
Report ==
    IF delivery = "absent" THEN "none"
    ELSE IF ~IsDeliveryTerminal THEN "open"
    ELSE IF delivery = "succeeded" THEN "sent"
    ELSE IF delivery = "attention_required" \/ Overlooked THEN "unknown"
    ELSE IF error_code = "rejected" THEN "rejected"
    ELSE IF error_code = "dispatch_failed" THEN "undispatched" ELSE "exhausted"

Verdict ==
    IF state \in {"queued", "running"} THEN "open"
    ELSE IF state = "absent" THEN "none" ELSE state

Promise == INSTANCE Mail WITH report <- Report, mails <- accepted, verdict <- Verdict

\* Whatever is delivered twice, taken over, crashes or is failed by somebody
\* else, this is one mail with one true report, made together with the verdict
\* on its job: no failure path settles the one without the other, and nothing
\* that was reported to be settled happens afterwards.  "Exhausted" means
\* definitely unsent; the exception is a delivery that was overlooked, whose
\* mail may have been accepted, or still be, although its row does not ask for
\* anybody's attention.
ImplementsMail == Promise!Spec

\* A settled delivery stays as it is.  A handler that stalled past its lease
\* comes back to a delivery that was settled in its absence, and its session
\* still holds the version it read before.
TerminalDeliveryIsFinal ==
    [][IsDeliveryTerminal => UNCHANGED deliveryVars]_vars

\* A handler whose attempt was superseded writes nothing any more.  (It may
\* still send: ownership cannot be held across the provider call.)
SupersededHandlerIsHarmless ==
    [][\A h \in Handlers :
         Active(h) /\ handlers[h].own # owner /\ handlers'[h] # handlers[h]
         => UNCHANGED <<jobVars, lease, deliveryVars>>]_vars
=============================================================================
