---------------------------- MODULE AIExecution ----------------------------
(***************************************************************************)
(* Durable AI requests: ai/execution.py, the dispatch loop of              *)
(* ai/service.py and the request rows of ai/persistence.  One job executes *)
(* one request; each call of a provider has a row of its own, and the      *)
(* first row carries the reservation of the month's budget until the rows  *)
(* are settled with what was really used.                                  *)
(*                                                                         *)
(* Row 1 is loaded when the attempt starts and stays in its session, which *)
(* never refreshes it (expire_on_commit is off): an attempt knows of it    *)
(* what it read or wrote itself.  A dispatch of the model that is routed   *)
(* first is estimated to cost 1, and costs that if it is charged.          *)
(***************************************************************************)
EXTENDS Naturals, Sequences, FiniteSets, FiniteSetsExt

CONSTANTS
    Requests,
    Asks,            \* the requests whose question is kept for their job
    Handlers,        \* workers that may process a copy of a message
    MaxStarts,       \* MAX_ATTEMPTS
    MaxTries,        \* of each request's task: max_attempts
    Repairs,         \* of each request's task: the repair budget, 0 or 1
    RetryCost,       \* of each request: a dispatch of the model a retry falls back to
    Budget           \* the organisation's monthly_budget

ASSUME RequestsAssumption ==
    Requests # {} /\ IsFiniteSet(Requests) /\ Asks \subseteq Requests
ASSUME CountsAssumption ==
    /\ MaxStarts \in Nat \ {0} /\ Budget \in Nat
    /\ MaxTries \in [Requests -> Nat \ {0}]
    /\ Repairs \in [Requests -> {0, 1}]
    /\ RetryCost \in [Requests -> Nat]

VARIABLES
    job,             \* the durable job: status, starts, owner, lease, exhausted
    rows,            \* ai_requests: per request and attempt_number
    question,        \* execution_metadata: "none", "held" or "expired"
    handlers,
    billed,          \* what the providers charge for each request, as far as they
                     \* report it (a call that times out reports none)
    executions       \* how often each request was begun

vars == <<job, rows, question, handlers, billed, executions>>

\* The bounded number of dispatches, which is also what is reserved for them,
\* by the estimate of the model that is routed first.
Reservation(r) == MaxTries[r] + Repairs[r]
Attempts(r) == 1..Reservation(r)

Status == {"absent", "queued", "running", "succeeded", "failed"}
Row == [status : Status, cost : Nat, output : BOOLEAN]
NoRow == [status |-> "absent", cost |-> 0, output |-> FALSE]

\* An attempt may take longer than its lease, so that a running job can be
\* taken over, or failed at the ceiling, at any time: the lease is not kept.
Job == [status : Status, starts : 0..MaxStarts, owner : Nat, exhausted : BOOLEAN]

\* "claimed": nothing is read; "preparing": before the first reservation;
\* "reserving": inside reserve, the settings and the job row are locked;
\* "calling" a provider; "repeating": another row is needed first; "settling":
\* the rows in "pending" are left; "settled", "refused", "replaying",
\* "replayed": what remains is to clear the question or to settle the job.
Phase == {"idle", "claimed", "preparing", "reserving", "calling", "repeating", "settling",
          "settled", "refused", "replaying", "replayed", "closing"}
Handler == [phase : Phase, request : Requests, own : Nat,
            seen : Status,              \* row 1 as this session has it
            spent : Nat,                \* the month's spend it read
            try : Nat, repairs : {0, 1}, last : Nat,
            retrying : BOOLEAN,         \* a model was excluded
            usage : Seq(Nat),           \* the cost of each dispatch, as reported
            pending : SUBSET Nat, winner : Nat]
AnyRequest == CHOOSE r \in Requests : TRUE
Idle(r) == [phase |-> "idle", request |-> r, own |-> 0, seen |-> "absent", spent |-> 0,
            try |-> 0, repairs |-> 0, last |-> 0,
            retrying |-> FALSE, usage |-> << >>, pending |-> {}, winner |-> 0]

QuestionStatus == {"none", "held", "expired"}

TypeOK ==
    /\ job \in [Requests -> Job]
    /\ DOMAIN rows = Requests /\ \A r \in Requests : rows[r] \in [Attempts(r) -> Row]
    /\ question \in [Requests -> QuestionStatus]
    /\ handlers \in [Handlers -> Handler]
    /\ billed \in [Requests -> Nat]
    /\ executions \in [Requests -> Nat]

Init ==
    /\ job = [r \in Requests |-> [status |-> "absent", starts |-> 0, owner |-> 0,
                                  exhausted |-> FALSE]]
    /\ rows = [r \in Requests |-> [n \in Attempts(r) |-> NoRow]]
    /\ question = [r \in Requests |-> "none"]
    /\ handlers = [h \in Handlers |-> Idle(AnyRequest)]
    /\ billed = [r \in Requests |-> 0]
    /\ executions = [r \in Requests |-> 0]

\* enqueue_document_execution: the queued row, the job and its event.
Enqueue(r) ==
    /\ job[r].status = "absent"
    /\ job' = [job EXCEPT ![r].status = "queued"]
    /\ rows' = [rows EXCEPT ![r][1].status = "queued"]
    /\ question' = [question EXCEPT ![r] = IF r \in Asks THEN "held" ELSE "none"]
    /\ UNCHANGED <<handlers, billed, executions>>

-----------------------------------------------------------------------------
(* The job.                                                                *)

Active(h) == handlers[h].phase # "idle"
Of(h) == handlers[h].request

\* reserve holds the job row and the settings row until it commits.
JobFree(r) == \A h \in Handlers : ~(handlers[h].phase = "reserving" /\ Of(h) = r)

\* verify_ownership
Owns(h) == job[Of(h)].status = "running" /\ job[Of(h)].owner = handlers[h].own

Moves(h, phase) == handlers' = [handlers EXCEPT ![h].phase = phase]
Ends(h) == handlers' = [handlers EXCEPT ![h] = Idle(AnyRequest)]

\* StaleDispatchError
EndsStale(h) ==
    /\ ~Owns(h)
    /\ Ends(h)
    /\ UNCHANGED <<job, rows, question, executions>>

\* claim_dispatch, from the queue or over an expired lease.
ClaimDispatch(h, r) ==
    /\ ~Active(h)
    /\ job[r].status \in {"queued", "running"}
    /\ JobFree(r)
    /\ job[r].starts < MaxStarts
    /\ job' = [job EXCEPT ![r].status = "running", ![r].starts = @ + 1,
                          ![r].owner = @ + 1]
    /\ handlers' = [handlers EXCEPT ![h] = [Idle(r) EXCEPT !.phase = "claimed",
                                                           !.own = job'[r].owner]]
    /\ UNCHANGED <<rows, question, billed, executions>>

SettlesJob(r, status) == job' = [job EXCEPT ![r].status = status]
ExhaustsJob(r) == job' = [job EXCEPT ![r].status = "failed", ![r].exhausted = TRUE]

\* The running sweep, or a claim over an expired lease, at the ceiling.  No
\* exhaustion hook is registered for these jobs.
ExhaustAbandonedJob(r) ==
    /\ job[r].status = "running" /\ job[r].starts >= MaxStarts
    /\ JobFree(r)
    /\ ExhaustsJob(r)
    /\ UNCHANGED <<rows, question, handlers, billed, executions>>

-----------------------------------------------------------------------------
(* Before the first dispatch.                                              *)

\* Row 1 is read; a question that is missing or past its deadline is refused.
LoadRequest(h) ==
    /\ handlers[h].phase = "claimed"
    /\ LET r == Of(h) IN
       handlers' = [handlers EXCEPT
           ![h].seen = rows[r][1].status,
           ![h].phase = IF r \in Asks /\ question[r] # "held" THEN "refused" ELSE "preparing"]
    /\ UNCHANGED <<job, rows, question, billed, executions>>

\* The policy, the source, the attachment or the routing refuses the request.
RefuseBeforeDispatch(h) ==
    /\ handlers[h].phase = "preparing"
    /\ Moves(h, "refused")
    /\ UNCHANGED <<job, rows, question, billed, executions>>

\* _clear_execution_metadata with an error code, in a transaction of its own
\* that no ownership protects, by the status this session has.
ClearRefused(h) ==
    /\ handlers[h].phase = "refused"
    /\ question' = [question EXCEPT ![Of(h)] = "none"]
    /\ rows' = IF handlers[h].seen = "queued"
               THEN [rows EXCEPT ![Of(h)][1].status = "failed"]
               ELSE rows
    /\ Moves(h, "closing")
    /\ UNCHANGED <<job, billed, executions>>

\* ai_month_spend: reservations and settled rows alike.
Cost(r) == SumFunction([n \in Attempts(r) |-> rows[r][n].cost])
Spent == SumFunction([r \in Requests |-> Cost(r)])

\* Mutant of BudgetFree: the settings row is read without FOR UPDATE.
BudgetFree_NoLock == TRUE

BudgetFree == \A h \in Handlers : handlers[h].phase # "reserving"

\* Mutant of Reservable: the row is adopted whatever its status.
Reservable_Always(seen) == TRUE

Reservable(seen) == seen = "queued"

\* reserve, until the month's spend is summed.
LockBudget(h) ==
    /\ handlers[h].phase = "preparing"
    /\ \/ /\ Owns(h) /\ JobFree(Of(h))
          /\ Reservable(handlers[h].seen)
          /\ BudgetFree
          /\ handlers' = [handlers EXCEPT ![h].phase = "reserving", ![h].spent = Spent]
          /\ UNCHANGED <<job, rows, question, executions>>
       \/ /\ Owns(h) /\ JobFree(Of(h))
          /\ ~Reservable(handlers[h].seen)
          /\ Moves(h, "replaying")
          /\ UNCHANGED <<job, rows, question, executions>>
       \/ EndsStale(h)
    /\ billed' = billed

\* reserve, from the comparison to the commit.
Reserve(h) ==
    /\ handlers[h].phase = "reserving"
    /\ LET r == Of(h) IN
       IF handlers[h].spent + Reservation(r) > Budget
       THEN /\ Moves(h, "refused")
            /\ UNCHANGED <<rows, executions>>
       ELSE /\ rows' = [rows EXCEPT ![r][1].status = "running", ![r][1].cost = Reservation(r)]
            /\ handlers' = [handlers EXCEPT
                               ![h].phase = "calling", ![h].seen = "running", ![h].spent = 0,
                               ![h].try = 1, ![h].repairs = Repairs[r], ![h].last = 1]
            /\ executions' = [executions EXCEPT ![r] = @ + 1]
    /\ UNCHANGED <<job, question, billed>>

-----------------------------------------------------------------------------
(* The dispatch loop.                                                      *)

\* What a dispatch leads to: the loop ends and the rows are settled, with or
\* without a winner, or there is another dispatch.
Finishes(h, usage, winner) ==
    handlers' = [handlers EXCEPT ![h].phase = "settling", ![h].usage = usage,
                                 ![h].pending = 1..handlers[h].last, ![h].winner = winner,
                                 ![h].try = 0, ![h].repairs = 0, ![h].last = 0,
                                 ![h].retrying = FALSE]
MakesRepair(h, usage) ==
    handlers' = [handlers EXCEPT ![h].phase = "repeating", ![h].usage = usage,
                                 ![h].repairs = @ - 1]
TriesAgain(h, usage, excluded) ==
    IF handlers[h].try >= MaxTries[Of(h)]
    THEN Finishes(h, usage, 0)
    ELSE handlers' = [handlers EXCEPT ![h].phase = "repeating", ![h].usage = usage,
                                      ![h].try = @ + 1, ![h].retrying = @ \/ excluded]

Price(h) == IF handlers[h].retrying THEN RetryCost[Of(h)] ELSE 1

\* The provider's answer: usable; malformed, which is repaired once and costs
\* a try afterwards; none, which costs a try and excludes the model; or one
\* that ends the execution (the wrong model, a cut-off answer, a repair that
\* does not fit, no other model).
CallProvider(h) ==
    /\ handlers[h].phase = "calling"
    /\ LET n == handlers[h].last
           charged == Append(handlers[h].usage, Price(h))
           free == Append(handlers[h].usage, 0)
           Charged(price) == billed' = [billed EXCEPT ![Of(h)] = @ + price]
       IN  \/ Charged(Price(h)) /\ Finishes(h, charged, n)
           \/ Charged(Price(h)) /\ handlers[h].repairs > 0 /\ MakesRepair(h, charged)
           \/ Charged(Price(h)) /\ handlers[h].repairs = 0 /\ TriesAgain(h, charged, FALSE)
           \/ Charged(0) /\ TriesAgain(h, free, TRUE)
           \/ Charged(Price(h)) /\ Finishes(h, charged, 0)
           \/ Charged(0) /\ Finishes(h, free, 0)
    /\ UNCHANGED <<job, rows, question, executions>>

\* record_attempt: a row for the next dispatch, with no cost of its own.
RecordAttempt(h) ==
    /\ handlers[h].phase = "repeating"
    /\ LET n == handlers[h].last + 1 IN
       \/ /\ Owns(h)
          /\ rows' = [rows EXCEPT ![Of(h)][n].status = "running"]
          /\ handlers' = [handlers EXCEPT ![h].phase = "calling", ![h].last = n]
          /\ UNCHANGED <<job, question, executions>>
       \/ EndsStale(h)
    /\ billed' = billed

\* Mutant of NextToSettle: in the order of the dispatches.
NextToSettle_InOrder(pending) == Min(pending)

\* The row with the reservation is the last one.
NextToSettle(pending) == IF pending = {1} THEN 1 ELSE Min(pending \ {1})

\* settle: only a row that still runs is written.  Row 1 is the session's own,
\* the others are read again.
Settle(h) ==
    /\ handlers[h].phase = "settling"
    /\ LET r == Of(h)
           n == NextToSettle(handlers[h].pending)
           won == handlers[h].winner = n
           left == handlers[h].pending \ {n}
           status == IF won THEN "succeeded" ELSE "failed"
       IN  \/ /\ Owns(h)
              /\ rows' = IF n = 1 \/ rows[r][n].status = "running"
                         THEN [rows EXCEPT ![r][n] = [status |-> status, output |-> won,
                                                      cost |-> handlers[h].usage[n]]]
                         ELSE rows
              /\ handlers' = [handlers EXCEPT
                     ![h].pending = left,
                     ![h].usage = [@ EXCEPT ![n] = 0],
                     ![h].seen = IF n = 1 THEN status ELSE @,
                     ![h].phase = IF left = {} THEN "settled" ELSE @]
              /\ UNCHANGED <<job, question, executions>>
           \/ EndsStale(h)
    /\ billed' = billed

-----------------------------------------------------------------------------
(* After the execution.                                                    *)

\* _clear_execution_metadata after the rows are settled.
ClearSettled(h) ==
    /\ handlers[h].phase = "settled"
    /\ question' = [question EXCEPT ![Of(h)] = "none"]
    /\ Moves(h, "closing")
    /\ UNCHANGED <<job, rows, billed, executions>>

SettleJob(h) ==
    /\ handlers[h].phase = "closing"
    /\ \/ /\ Owns(h) /\ JobFree(Of(h))
          /\ SettlesJob(Of(h), IF handlers[h].winner # 0 THEN "succeeded" ELSE "failed")
          /\ Ends(h)
          /\ UNCHANGED <<rows, question, executions>>
       \/ EndsStale(h)
    /\ billed' = billed

\* Mutant of Won: any row that was settled.
Won_Settled(r) == \E n \in Attempts(r) : rows[r][n].status \in {"succeeded", "failed"}

Won(r) == \E n \in Attempts(r) : rows[r][n].status = "succeeded"

\* _reconcile_replay: the job follows a winning row; without one it fails,
\* also when a row still runs, and the question stays for the sweep.
ReconcileReplay(h) ==
    /\ handlers[h].phase = "replaying"
    /\ \/ /\ Owns(h) /\ Won(Of(h))
          /\ SettlesJob(Of(h), "succeeded")
          /\ Moves(h, "replayed")
          /\ UNCHANGED <<rows, question, executions>>
       \/ /\ Owns(h) /\ ~Won(Of(h))
          /\ SettlesJob(Of(h), "failed")
          /\ Ends(h)
          /\ UNCHANGED <<rows, question, executions>>
       \/ EndsStale(h)
    /\ billed' = billed

ClearReplayed(h) ==
    /\ handlers[h].phase = "replayed"
    /\ question' = [question EXCEPT ![Of(h)] = "none"]
    /\ Ends(h)
    /\ UNCHANGED <<job, rows, billed, executions>>

\* An answer that is never read may be charged.
MayBeCharged(h) ==
    IF handlers[h].phase = "calling"
    THEN \E price \in {0, Price(h)} : billed' = [billed EXCEPT ![Of(h)] = @ + price]
    ELSE billed' = billed

\* An exception that is not an AIError: the next attempt, or the ceiling.
HandlerRaises(h) ==
    /\ Active(h)
    /\ Owns(h)
    /\ IF job[Of(h)].starts >= MaxStarts THEN ExhaustsJob(Of(h)) ELSE SettlesJob(Of(h), "queued")
    /\ Ends(h)
    /\ MayBeCharged(h)
    /\ UNCHANGED <<rows, question, executions>>

WorkerCrash(h) ==
    /\ Active(h)
    /\ Ends(h)
    /\ MayBeCharged(h)
    /\ UNCHANGED <<job, rows, question, executions>>

-----------------------------------------------------------------------------
(* enforce_ai_retention.                                                   *)

Executing(r) == \E h \in Handlers : Of(h) = r /\ handlers[h].phase \in
                                       {"calling", "repeating", "settling"}

\* Rows that run for longer than STALE_RUNNING_THRESHOLD fail, with their
\* cost.  Row 1 is as old as the request, which may have waited for long; no
\* attempt lasts until a later row, which it creates itself, is stale.
ReconcileStale(r) ==
    /\ \E upto \in Attempts(r) :
         /\ upto = 1 \/ ~Executing(r)
         /\ \E n \in 1..upto : rows[r][n].status = "running"
         /\ rows' = [rows EXCEPT ![r] = [n \in Attempts(r) |->
                        IF n <= upto /\ @[n].status = "running"
                        THEN [@[n] EXCEPT !.status = "failed"] ELSE @[n]]]
    /\ UNCHANGED <<job, question, handlers, billed, executions>>

QuestionExpires(r) ==
    /\ question[r] = "held"
    /\ question' = [question EXCEPT ![r] = "expired"]
    /\ UNCHANGED <<job, rows, handlers, billed, executions>>

ClearExpired(r) ==
    /\ question[r] = "expired"
    /\ question' = [question EXCEPT ![r] = "none"]
    /\ rows' = IF rows[r][1].status = "queued"
               THEN [rows EXCEPT ![r][1].status = "failed"] ELSE rows
    /\ UNCHANGED <<job, handlers, billed, executions>>

-----------------------------------------------------------------------------
HandlerStep(h) ==
    \/ \E r \in Requests : ClaimDispatch(h, r)
    \/ LoadRequest(h) \/ RefuseBeforeDispatch(h) \/ ClearRefused(h)
    \/ LockBudget(h) \/ Reserve(h)
    \/ CallProvider(h) \/ RecordAttempt(h) \/ Settle(h)
    \/ ClearSettled(h) \/ SettleJob(h) \/ ReconcileReplay(h) \/ ClearReplayed(h)
    \/ HandlerRaises(h) \/ WorkerCrash(h)

Next ==
    \/ \E h \in Handlers : HandlerStep(h)
    \/ \E r \in Requests :
         \/ Enqueue(r) \/ ExhaustAbandonedJob(r)
         \/ ReconcileStale(r) \/ QuestionExpires(r) \/ ClearExpired(r)

Spec == Init /\ [][Next]_vars

-----------------------------------------------------------------------------
(* Properties.                                                             *)

\* What is recorded covers what the provider charges, at every moment of every
\* execution: the reservation stays on the first row until the actual cost of
\* all the others is stored, and a crash never releases it.  This holds only
\* while no retry falls back to a dearer model than the one that was reserved
\* for (RetryCost[r] <= 1), a condition that the code does not check.
SpendCoversBilled == \A r \in Requests : Cost(r) >= billed[r]

\* Executions that run at the same time do not overrun the budget together,
\* whatever they retry and repair, and also when their workers crash.  (What is
\* recorded may exceed it while the rows of an execution are settled.)  The
\* condition is the same: RetryCost[r] <= 1 for every request.
WithinBudget == SumFunction(billed) <= Budget

\* A request is executed once, however often its job is delivered, taken over
\* or retried, and although attempts decide by a row they do not read again.
ExecutedOnce == \A r \in Requests : executions[r] <= 1

\* A job that succeeds has exactly one output, whichever attempt settles it: the
\* one that executed the request, or a later one that found it executed.
SuccessHasOneOutput ==
    \A r \in Requests : job[r].status = "succeeded" =>
        Cardinality({n \in Attempts(r) : rows[r][n].output}) = 1
=============================================================================
