------------------------------- MODULE JobRow -------------------------------
(***************************************************************************)
(* One row of table "jobs", its rows of table "job_attempts" (the attempt  *)
(* ledger) and the audit rows its settlement appends: the state that       *)
(* modules/jobs/service.py owns.  Every operator below is what one helper  *)
(* of that module writes while it holds the job row FOR UPDATE, so each is *)
(* one indivisible step; who calls it, and when, is JobDelivery's concern. *)
(*                                                                         *)
(* Clock readings are abstracted to the comparisons the code makes with    *)
(* them: a lease is "live" or "expired", and time passing is an action of  *)
(* JobDelivery.  Owner tokens are UUIDs the code only compares, and each   *)
(* rotation draws a new one: here the number of rotations so far.          *)
(***************************************************************************)
EXTENDS Naturals

CONSTANT MaxAttempts        \* MAX_ATTEMPTS

ASSUME MaxAttemptsAssumption == MaxAttempts \in Nat \ {0}

VARIABLES
    status,          \* jobs.status, or "absent" before the row is inserted
    attempt_count,   \* jobs.attempt_count
    owner_token,     \* jobs.owner_token; 0 is NULL
    dispatch_id,     \* jobs.dispatch_id: the outbox event now expected to run it
    lease,           \* jobs.execution_lease_expires_at: "none", "live", "expired"
    error_code,      \* jobs.error_code
    ledger,          \* job_attempts, by attempt_number
    audits           \* number of job.succeeded and job.failed audit rows

rowVars == <<status, attempt_count, owner_token, dispatch_id, lease,
             error_code, ledger, audits>>

JobStatus == {"absent", "queued", "running", "succeeded", "failed"}
Terminal == status \in {"succeeded", "failed"}

AttemptStatus == {"none", "running", "succeeded", "failed", "abandoned",
                  "retry_scheduled", "exhausted"}
Attempt == [status : AttemptStatus, owner_token : Nat]
NoAttempt == [status |-> "none", owner_token |-> 0]

ErrorCode == {"none", "job_retries_exhausted", "job_dispatch_invalid",
              "handler_error"}

RowTypeOK ==
    /\ status \in JobStatus
    /\ attempt_count \in 0..MaxAttempts
    /\ owner_token \in Nat
    /\ lease \in {"none", "live", "expired"}
    /\ error_code \in ErrorCode
    /\ ledger \in [1..MaxAttempts -> Attempt]
    /\ audits \in Nat

RowInit ==
    /\ status = "absent"
    /\ attempt_count = 0
    /\ owner_token = 0
    /\ lease = "none"
    /\ error_code = "none"
    /\ ledger = [n \in 1..MaxAttempts |-> NoAttempt]
    /\ audits = 0

-----------------------------------------------------------------------------
\* The open attempt of the current owner, as a set of attempt numbers.
RunningAttempt ==
    {n \in 1..MaxAttempts : /\ owner_token # 0
                            /\ ledger[n].owner_token = owner_token
                            /\ ledger[n].status = "running"}

\* The ledger after the current owner's open attempt, if any, is closed.
CloseAttempt(outcome) ==
    [n \in 1..MaxAttempts |-> IF n \in RunningAttempt
                              THEN [ledger[n] EXCEPT !.status = outcome]
                              ELSE ledger[n]]

\* The owner check every settlement makes: a row that carries no credential
\* admits any caller.
VerifyOwner(token) == owner_token = 0 \/ owner_token = token

\* Mutant of NewToken: a takeover inherits the credential.
NewToken_Inherited == IF owner_token = 0 THEN 1 ELSE owner_token

NewToken == owner_token + 1

LiveLease == status = "running" /\ lease = "live"

InsertQueued(event) ==
    /\ status' = "queued"
    /\ dispatch_id' = event
    /\ UNCHANGED <<attempt_count, owner_token, lease, error_code, ledger, audits>>

FailLocked(code, outcome) ==
    /\ status' = "failed"
    /\ error_code' = code
    /\ lease' = "none"
    /\ ledger' = CloseAttempt(outcome)
    /\ audits' = audits + 1
    /\ UNCHANGED <<attempt_count, owner_token, dispatch_id>>

FailExhausted == FailLocked("job_retries_exhausted", "exhausted")

\* The granted claim: a taken-over attempt is closed, the credential rotates,
\* and a new attempt row opens under it.
BeginAttempt ==
    LET closed == IF status = "running" THEN CloseAttempt("abandoned") ELSE ledger
    IN  /\ status' = "running"
        /\ attempt_count' = attempt_count + 1
        /\ owner_token' = NewToken
        /\ lease' = "live"
        /\ ledger' = [closed EXCEPT ![attempt_count + 1] =
                        [status |-> "running", owner_token |-> NewToken]]
        /\ UNCHANGED <<dispatch_id, error_code, audits>>

RenewLease ==
    /\ lease' = "live"
    /\ UNCHANGED <<status, attempt_count, owner_token, dispatch_id, error_code,
                   ledger, audits>>

\* A transient failure below the ceiling: the attempt closes, a new dispatch
\* is expected, and the credential stays what it was.
RequeueForRetry(event) ==
    /\ status' = "queued"
    /\ dispatch_id' = event
    /\ lease' = "none"
    /\ ledger' = CloseAttempt("retry_scheduled")
    /\ UNCHANGED <<attempt_count, owner_token, error_code, audits>>

\* Recovery of an attempt whose worker is gone: the credential rotates too.
RequeueAbandoned(event) ==
    /\ status' = "queued"
    /\ dispatch_id' = event
    /\ owner_token' = NewToken
    /\ lease' = "none"
    /\ ledger' = CloseAttempt("abandoned")
    /\ UNCHANGED <<attempt_count, error_code, audits>>

Redispatch(event) ==
    /\ dispatch_id' = event
    /\ UNCHANGED <<status, attempt_count, owner_token, lease, error_code, ledger,
                   audits>>

SucceedLocked ==
    /\ status' = "succeeded"
    /\ lease' = "none"
    /\ ledger' = CloseAttempt("succeeded")
    /\ audits' = audits + 1
    /\ UNCHANGED <<attempt_count, owner_token, dispatch_id, error_code>>

-----------------------------------------------------------------------------
(* Invariants of the row and its ledger.                                   *)

\* The attempt ledger and the job row, written by five different
\* transactions, never disagree: attempts 1..attempt_count exist and no
\* other; an attempt is open exactly while the job is running, it is the last
\* one, and the job's owner token is its own; the credential of an attempt is
\* newer than those of the attempts before it and not newer than the job's;
\* only a running job has a lease.
LedgerMatchesRow ==
    /\ \A n \in 1..MaxAttempts :
         /\ n > attempt_count => ledger[n] = NoAttempt
         /\ n <= attempt_count => /\ ledger[n].status # "none"
                                 /\ ledger[n].owner_token \in 1..owner_token
         /\ ledger[n].status = "running" =>
               /\ n = attempt_count /\ status = "running"
               /\ ledger[n].owner_token = owner_token
         /\ n <= attempt_count =>
               \A k \in 1..(n - 1) : ledger[k].owner_token < ledger[n].owner_token
    /\ status = "running" =>
         attempt_count > 0 /\ ledger[attempt_count].status = "running"
    /\ lease # "none" <=> status = "running"

\* A job has exactly one terminal audit row once it is settled, and none
\* before: succeed and fail return early on a repetition, and every other
\* settlement refuses a terminal row.
OneOutcomeAudited == audits = IF Terminal THEN 1 ELSE 0
=============================================================================
