--------------------------- MODULE FileLifecycle ---------------------------
(***************************************************************************)
(* One uploaded document: modules/files.  The browser writes the staging   *)
(* object whenever it likes; a completion verifies it, promotes it to the  *)
(* final object and schedules the processing job under the row's lock; the *)
(* job's handlers verify and scan the final object; a deletion reads the   *)
(* row without a lock and removes the object before it commits.            *)
(*                                                                         *)
(* The job is the abstract one of JobLifecycle.  Bytes are identified by   *)
(* their checksum; bytes of a wrong size are among the bytes that are not  *)
(* the verified ones.                                                      *)
(***************************************************************************)
EXTENDS Naturals

CONSTANTS
    MaxStarts,       \* MAX_ATTEMPTS
    Handlers,        \* workers that may process a copy of the message
    Completers,      \* requests that complete the upload
    Deleters,        \* requests that delete the file
    Bytes,           \* what the browser may put
    Harmful,         \* what the scanner rejects
    Foreign,         \* what an overwrite of the final object leaves there
    NoBytes,         \* no object, or no checksum
    Faults

ASSUME MaxStartsAssumption == MaxStarts \in Nat \ {0}
ASSUME BytesAssumption == Harmful \subseteq Bytes /\ {Foreign, NoBytes} \cap Bytes = {}
                          /\ Foreign # NoBytes
ASSUME FaultsAssumption == Faults \subseteq {"crash", "raise", "outage", "overwrite", "dead"}

VARIABLES
    state, starts, owner, outcomes,      \* the job, see JobLifecycle
    lease,           \* the running attempt's execution lease is live
    error_code,      \* jobs.error_code
    handlers,
    row,             \* the row of files
    jobs,            \* how many processing jobs were scheduled for it
    notified,        \* the notifications of the uploader, by type
    staging, final,  \* the objects under the two keys
    completers, deleters

Job == INSTANCE JobLifecycle

jobVars == <<state, starts, owner, outcomes>>
jobRow == <<jobVars, lease, error_code>>
objects == <<staging, final>>
requests == <<completers, deleters>>
vars == <<jobRow, handlers, row, jobs, notified, objects, requests>>

FileStatus ==
    {"absent", "pending", "uploaded", "processing", "ready", "failed", "quarantined", "deleted"}
PostCompletion == {"uploaded", "processing", "ready"}
Rejected == {"failed", "quarantined"}

Row == [status : FileStatus, key : {"staging", "final"},
        identity : Bytes \union {NoBytes}, deleted : BOOLEAN]

\* org_scoped_files_statement
Visible == row.status # "absent" /\ ~row.deleted

\* The source authority: what a download or an AI read may see.
Trusted ==
    /\ Visible
    /\ row.status = "ready"
    /\ row.identity # NoBytes
    /\ final = row.identity

\* "aimed": about to move the row to aim; "locked": ownership is verified, with
\* the job's row locked, and the file was read; "scanning": it is processing;
\* "marked", "notified": the outcome is written; "conflict": a transition was
\* refused with 409; "raised": another exception.
Aim == {"processing", "ready", "failed", "quarantined"}
Handler == [phase : {"idle", "claimed", "loaded", "aimed", "locked", "scanning",
                     "marked", "notified", "conflict", "raised"},
            own : Nat, seen : FileStatus, aim : Aim \union {"none"}]
Idle == [phase |-> "idle", own |-> 0, seen |-> "absent", aim |-> "none"]

\* From "locked" to "copied" a completion holds the row's lock.
Completer == [phase : {"idle", "locked", "verified", "copied", "committed"},
              checksum : Bytes \union {NoBytes}, verified : Bytes \union {NoBytes}]
NoCompletion == [phase |-> "idle", checksum |-> NoBytes, verified |-> NoBytes]

Deleter == [phase : {"idle", "read", "removed"}, key : {"staging", "final"}]
NoDeletion == [phase |-> "idle", key |-> "staging"]

ErrorCode == {"none", "file_not_found", "file_verification_failed", "file_quarantined",
              "retries_exhausted", "dispatch_invalid"}

TypeOK ==
    /\ state \in {"absent", "queued", "running", "succeeded", "failed"}
    /\ starts \in 0..MaxStarts
    /\ owner \in Nat /\ outcomes \in Nat
    /\ lease \in BOOLEAN
    /\ error_code \in ErrorCode
    /\ handlers \in [Handlers -> Handler]
    /\ row \in Row
    /\ jobs \in Nat
    /\ notified \subseteq {"ready", "failed"}
    /\ staging \in Bytes \union {NoBytes}
    /\ final \in Bytes \union {NoBytes, Foreign}
    /\ completers \in [Completers -> Completer]
    /\ deleters \in [Deleters -> Deleter]

Init ==
    /\ Job!Init
    /\ lease = FALSE /\ error_code = "none"
    /\ handlers = [h \in Handlers |-> Idle]
    /\ row = [status |-> "absent", key |-> "staging", identity |-> NoBytes, deleted |-> FALSE]
    /\ jobs = 0 /\ notified = {}
    /\ staging = NoBytes /\ final = NoBytes
    /\ completers = [c \in Completers |-> NoCompletion]
    /\ deleters = [d \in Deleters |-> NoDeletion]

-----------------------------------------------------------------------------
(* The upload.                                                             *)

CreateUploadIntent ==
    /\ row.status = "absent"
    /\ row' = [row EXCEPT !.status = "pending"]
    /\ UNCHANGED <<jobRow, handlers, jobs, notified, objects, requests>>

\* The signed URL outlives the completion, and the file.
ClientPut ==
    /\ row.status # "absent"
    /\ staging' \in Bytes
    /\ UNCHANGED <<jobRow, handlers, row, jobs, notified, final, requests>>

\* Not a step of this code: the bucket's owner, or the provider.  The
\* original bytes are not put back.
OverwriteFinal ==
    /\ "overwrite" \in Faults
    /\ final # NoBytes
    /\ final' = Foreign
    /\ UNCHANGED <<jobRow, handlers, row, jobs, notified, staging, requests>>

\* Mutant of RowFree: the completion reads the row without FOR UPDATE.
RowFree_NoLock == TRUE

\* No completion holds the row's lock.
RowFree == \A c \in Completers : completers[c].phase \notin {"locked", "verified", "copied"}

\* Mutant of MayComplete: a failed upload is completed again.
MayComplete_Failed == row.status \in {"pending", "failed"}

MayComplete == row.status = "pending"

\* _get_file_locked.  Another status is a replay, which returns the job that
\* exists, or a 409; neither writes.
LockForCompletion(c) ==
    /\ completers[c].phase = "idle"
    /\ RowFree
    /\ Visible /\ MayComplete
    /\ \E checksum \in Bytes \union {NoBytes} :
         completers' = [completers EXCEPT ![c] =
                          [phase |-> "locked", checksum |-> checksum, verified |-> NoBytes]]
    /\ UNCHANGED <<jobRow, handlers, row, jobs, notified, objects, deleters>>

FailCompletion(c) ==
    /\ row' = [row EXCEPT !.status = "failed"]
    /\ completers' = [completers EXCEPT ![c] = NoCompletion]
    /\ UNCHANGED <<jobRow, jobs>>

\* The object has what the client said, where it said anything.
AsDeclared(c, object) ==
    /\ object # NoBytes
    /\ completers[c].checksum \in {NoBytes, object}

VerifyStaging(c) ==
    /\ completers[c].phase = "locked"
    /\ \/ /\ AsDeclared(c, staging)
          /\ completers' = [completers EXCEPT ![c].phase = "verified", ![c].verified = staging]
          /\ UNCHANGED <<jobRow, row, jobs>>
       \/ ~AsDeclared(c, staging) /\ FailCompletion(c)
    /\ UNCHANGED <<handlers, notified, objects, deleters>>

CopyObject(c) ==
    /\ completers[c].phase = "verified"
    /\ \/ /\ staging # NoBytes
          /\ final' = staging
          /\ completers' = [completers EXCEPT ![c].phase = "copied"]
          /\ UNCHANGED <<jobRow, row, jobs>>
       \/ staging = NoBytes /\ FailCompletion(c) /\ final' = final
    /\ UNCHANGED <<handlers, notified, staging, deleters>>

Promoted(c) == AsDeclared(c, final) /\ final = completers[c].verified

Uploaded ==
    [status |-> "uploaded", key |-> "final", identity |-> final, deleted |-> row.deleted]

\* One transaction: the row, the audit event, the job and its dispatch.
CommitCompletion(c) ==
    /\ completers[c].phase = "copied"
    /\ \/ /\ Promoted(c)
          /\ row' = Uploaded
          /\ jobs' = jobs + 1
          \* A second job would be one more row of jobs, not shown here.
          /\ IF jobs = 0 THEN Job!Accept ELSE UNCHANGED jobVars
          /\ completers' = [completers EXCEPT ![c].phase = "committed"]
          /\ UNCHANGED <<lease, error_code>>
       \/ ~Promoted(c) /\ FailCompletion(c)
    /\ UNCHANGED <<handlers, notified, objects, deleters>>

\* Best effort, after the commit.
DeleteStaging(c) ==
    /\ completers[c].phase = "committed"
    /\ staging' \in {NoBytes, staging}
    /\ completers' = [completers EXCEPT ![c] = NoCompletion]
    /\ UNCHANGED <<jobRow, handlers, row, jobs, notified, final, deleters>>

CompleterCrash(c) ==
    /\ "crash" \in Faults
    /\ completers[c].phase # "idle"
    /\ completers' = [completers EXCEPT ![c] = NoCompletion]
    /\ UNCHANGED <<jobRow, handlers, row, jobs, notified, objects, deleters>>

-----------------------------------------------------------------------------
(* The deletion.                                                           *)

ReadForDeletion(d) ==
    /\ deleters[d].phase = "idle"
    /\ Visible
    /\ deleters' = [deleters EXCEPT ![d] = [phase |-> "read", key |-> row.key]]
    /\ UNCHANGED <<jobRow, handlers, row, jobs, notified, objects, completers>>

\* The key is the one that was read.
RemoveObject(d) ==
    /\ deleters[d].phase = "read"
    /\ deleters' = [deleters EXCEPT ![d].phase = "removed"]
    /\ IF deleters[d].key = "final"
       THEN final' = NoBytes /\ staging' = staging
       ELSE staging' = NoBytes /\ final' = final
    /\ UNCHANGED <<jobRow, handlers, row, jobs, notified, completers>>

\* An UPDATE by primary key of the two columns: it waits for a completion's
\* lock and looks at nothing.
CommitDeletion(d) ==
    /\ deleters[d].phase = "removed"
    /\ RowFree
    /\ row' = [row EXCEPT !.deleted = TRUE, !.status = "deleted"]
    /\ deleters' = [deleters EXCEPT ![d] = NoDeletion]
    /\ UNCHANGED <<jobRow, handlers, jobs, notified, objects, completers>>

DeleterCrash(d) ==
    /\ "crash" \in Faults
    /\ deleters[d].phase # "idle"
    /\ deleters' = [deleters EXCEPT ![d] = NoDeletion]
    /\ UNCHANGED <<jobRow, handlers, row, jobs, notified, objects, completers>>

-----------------------------------------------------------------------------
(* One attempt of the processing job.                                      *)

Active(h) == handlers[h].phase # "idle"

\* verify_ownership
Owns(h) == state = "running" /\ owner = handlers[h].own

\* A transition holds the lock of the job's row from verify_ownership on.
JobFree == \A h \in Handlers : handlers[h].phase # "locked"

Moves(h, phase) == handlers' = [handlers EXCEPT ![h].phase = phase]
MovesTo(h, phase, aim) == handlers' = [handlers EXCEPT ![h].phase = phase, ![h].aim = aim]
Ends(h) == handlers' = [handlers EXCEPT ![h] = Idle]

\* StaleDispatchError: the message is acknowledged, nothing is written.
EndsStale(h) ==
    /\ ~Owns(h)
    /\ Ends(h)
    /\ UNCHANGED <<jobRow, row, notified>>

\* The job's outcome, under the handler's token.
Settles(h, outcome, code) ==
    /\ Owns(h)
    /\ Job!Settle
    /\ state' = outcome
    /\ error_code' = code
    /\ lease' = FALSE
    /\ Ends(h)
    /\ UNCHANGED <<row, notified>>

\* claim_dispatch, from the queue or over an expired lease.
ClaimDispatch(h) ==
    /\ ~Active(h)
    /\ JobFree
    /\ state = "running" => ~lease
    /\ Job!Start
    /\ lease' = TRUE
    /\ handlers' = [handlers EXCEPT ![h].phase = "claimed", ![h].own = owner']
    /\ UNCHANGED <<error_code, row, jobs, notified, objects, requests>>

\* The session keeps this version of the row: seen.
GetFile(h) ==
    /\ handlers[h].phase = "claimed"
    /\ \/ /\ Visible
          /\ handlers' = [handlers EXCEPT ![h].phase = "loaded", ![h].seen = row.status]
          /\ UNCHANGED <<jobRow, row, notified>>
       \/ ~Visible /\ (Settles(h, "failed", "file_not_found") \/ EndsStale(h))
    /\ UNCHANGED <<jobs, objects, requests>>

\* update_progress, head_object and the four comparisons.
VerifyFinal(h) ==
    /\ handlers[h].phase = "loaded"
    /\ \/ /\ Owns(h)
          /\ MovesTo(h, "aimed",
                     IF final = row.identity /\ final # NoBytes THEN "processing" ELSE "failed")
          /\ UNCHANGED <<jobRow, row, notified>>
       \/ EndsStale(h)
    /\ UNCHANGED <<jobs, objects, requests>>

\* The transition's transaction: verify_ownership and get_file.
LockForTransition(h) ==
    /\ handlers[h].phase = "aimed"
    /\ \/ /\ Owns(h) /\ Visible
          /\ Moves(h, "locked")
          /\ UNCHANGED <<jobRow, row, notified>>
       \/ /\ Owns(h) /\ ~Visible
          /\ Moves(h, "raised")
          /\ UNCHANGED <<jobRow, row, notified>>
       \/ EndsStale(h)
    /\ UNCHANGED <<jobs, objects, requests>>

\* The statuses a transition leaves alone, and those it may leave.
Keeps == [processing |-> {"processing", "ready"}, ready |-> {"ready"},
          failed |-> {"failed", "deleted"},
          quarantined |-> {"quarantined", "failed", "deleted"}]
Leaves == [processing |-> {"uploaded"}, ready |-> {"processing"},
           failed |-> FileStatus, quarantined |-> FileStatus]

\* The session's refresh reads back what was written.
Transition(h) ==
    LET aim == handlers[h].aim
        seen == handlers[h].seen
        next == IF aim = "processing" THEN "scanning" ELSE "marked"
    IN  /\ handlers[h].phase = "locked"
        /\ \/ /\ seen \in Keeps[aim]
              /\ Moves(h, next)
              /\ row' = row
           \/ /\ seen \in Leaves[aim] \ Keeps[aim]
              /\ RowFree
              /\ row' = [row EXCEPT !.status = aim]
              /\ handlers' = [handlers EXCEPT ![h].phase = next, ![h].seen = aim]
           \/ /\ seen \notin Leaves[aim] \union Keeps[aim]
              /\ Moves(h, "conflict")
              /\ row' = row
        /\ UNCHANGED <<jobRow, jobs, notified, objects, requests>>

\* Mutant of Verdict: an outage of the scanner lets the file through.
Verdict_FailOpen(object) == {"ready"} \union (IF object \in Harmful THEN {"quarantined"} ELSE {})

\* Where the scanner's verdict leads; an outage raises.  A missing object is
\* an error, or nothing to a scanner that reads nothing.
Verdict(object) ==
    (IF object \in Harmful THEN {"quarantined"} ELSE {"ready"})
    \union (IF object = NoBytes \/ "outage" \in Faults THEN {"none"} ELSE {})

ScanFileObject(h) ==
    /\ handlers[h].phase = "scanning"
    /\ \E aim \in Verdict(final) :
         MovesTo(h, IF aim = "none" THEN "raised" ELSE "aimed", aim)
    /\ UNCHANGED <<jobRow, row, jobs, notified, objects, requests>>

\* The notification, deduplicated by its type, and its delivery.
NotifyUploader(h) ==
    /\ handlers[h].phase = "marked"
    /\ \/ /\ Owns(h)
          /\ notified' = notified \union {IF handlers[h].aim = "ready" THEN "ready" ELSE "failed"}
          /\ Moves(h, "notified")
          /\ UNCHANGED <<jobRow, row>>
       \/ EndsStale(h)
    /\ UNCHANGED <<jobs, objects, requests>>

SettleJob(h) ==
    /\ handlers[h].phase = "notified"
    /\ \/ handlers[h].aim = "ready" /\ Settles(h, "succeeded", "none")
       \/ handlers[h].aim = "failed" /\ Settles(h, "failed", "file_verification_failed")
       \/ handlers[h].aim = "quarantined" /\ Settles(h, "failed", "file_quarantined")
       \/ EndsStale(h)
    /\ UNCHANGED <<jobs, objects, requests>>

-----------------------------------------------------------------------------
(* Failures of an attempt, and who fails the job in its place: nobody      *)
(* registers an exhaustion hook for this job, so the file stays as it is.  *)

HandlerRaises(h) ==
    /\ "raise" \in Faults
    /\ handlers[h].phase \notin {"idle", "conflict", "raised"}
    /\ Moves(h, "raised")
    /\ UNCHANGED <<jobRow, row, jobs, notified, objects, requests>>

SettleRetryableFailure(h) ==
    /\ handlers[h].phase \in {"raised", "conflict"}
    /\ JobFree
    /\ \/ starts >= MaxStarts /\ Settles(h, "failed", "retries_exhausted")
       \/ /\ Owns(h)
          /\ Job!Requeue /\ owner' = owner
          /\ lease' = FALSE
          /\ Ends(h)
          /\ UNCHANGED <<error_code, row, notified>>
       \/ EndsStale(h)
    /\ UNCHANGED <<jobs, objects, requests>>

WorkerCrash(h) ==
    /\ "crash" \in Faults
    /\ Active(h)
    /\ Ends(h)
    /\ UNCHANGED <<jobRow, row, jobs, notified, objects, requests>>

\* An attempt may take longer than its lease.
LeaseExpires ==
    /\ lease
    /\ lease' = FALSE
    /\ UNCHANGED <<jobVars, error_code, handlers, row, jobs, notified, objects, requests>>

\* The running sweep, or a claim over an expired lease, at the ceiling; the
\* settlement of a dispatch that died before any claim.
JobFailsElsewhere ==
    /\ JobFree
    /\ \/ /\ state = "running" /\ ~lease /\ starts >= MaxStarts
          /\ error_code' = "retries_exhausted"
       \/ /\ "dead" \in Faults
          /\ state = "queued" /\ starts = 0
          /\ error_code' = "dispatch_invalid"
    /\ Job!Settle
    /\ state' = "failed"
    /\ lease' = FALSE
    /\ UNCHANGED <<handlers, row, jobs, notified, objects, requests>>

RequeueAbandonedJob ==
    /\ JobFree
    /\ state = "running" /\ ~lease
    /\ Job!Requeue /\ owner' = owner + 1
    /\ UNCHANGED <<lease, error_code, handlers, row, jobs, notified, objects, requests>>

-----------------------------------------------------------------------------
CompleterStep(c) ==
    \/ LockForCompletion(c) \/ VerifyStaging(c) \/ CopyObject(c)
    \/ CommitCompletion(c) \/ DeleteStaging(c) \/ CompleterCrash(c)

DeleterStep(d) ==
    \/ ReadForDeletion(d) \/ RemoveObject(d) \/ CommitDeletion(d) \/ DeleterCrash(d)

HandlerStep(h) ==
    \/ ClaimDispatch(h) \/ GetFile(h) \/ VerifyFinal(h)
    \/ LockForTransition(h) \/ Transition(h) \/ ScanFileObject(h)
    \/ NotifyUploader(h) \/ SettleJob(h)
    \/ HandlerRaises(h) \/ SettleRetryableFailure(h) \/ WorkerCrash(h)

Next ==
    \/ CreateUploadIntent \/ ClientPut \/ OverwriteFinal
    \/ \E c \in Completers : CompleterStep(c)
    \/ \E d \in Deleters : DeleterStep(d)
    \/ \E h \in Handlers : HandlerStep(h)
    \/ LeaseExpires \/ JobFailsElsewhere \/ RequeueAbandonedJob

Spec == Init /\ [][Next]_vars

-----------------------------------------------------------------------------
(* Properties.                                                             *)

\* Completions that race, crash or are repeated schedule one processing job,
\* and no file is past its completion without it.
ScheduledOnce ==
    /\ jobs <= 1
    /\ row.status \in PostCompletion => jobs = 1

\* The bytes that are pinned are those whose check succeeded and those the
\* client declared, although the browser may put others between the check and
\* the copy.
PinnedBytesWereVerified ==
    [][row'.identity # row.identity =>
         \E c \in Completers :
           /\ completers[c].phase = "copied"
           /\ row'.identity = completers[c].verified
           /\ completers[c].checksum \in {NoBytes, row'.identity}]_vars

\* A document that may be read has passed the scanner, with the very bytes
\* that are there now, whoever overwrote them or retried the scan.
TrustedIsClean == Trusted => final \notin Harmful /\ jobs = 1

\* The job, the file and what its uploader was told agree, whatever attempt
\* wrote which of them and whoever deleted the file meanwhile.
OutcomesAgree ==
    /\ state = "succeeded" => row.status \in {"ready", "deleted"} /\ "ready" \in notified
    /\ error_code = "file_verification_failed" =>
         row.status \in {"failed", "deleted"} /\ "failed" \in notified
    /\ error_code = "file_quarantined" =>
         row.status \in {"quarantined", "failed", "deleted"} /\ "failed" \in notified
    /\ error_code = "file_not_found" => row.deleted

\* The row and the two objects, as a document: what a deletion hides, what
\* org_scoped_files_statement and the source authority let a reader see.
Standing ==
    IF row.deleted THEN "deleted"
    ELSE IF row.status \in {"uploaded", "processing"} THEN "accepted"
    ELSE IF row.status \in Rejected THEN "rejected" ELSE row.status

Readable == IF Trusted THEN final ELSE NoBytes

\* The job, as the check of the document.
Outcome ==
    IF state = "absent" THEN "none"
    ELSE IF state \in {"queued", "running"} THEN "due"
    ELSE IF error_code \in {"file_verification_failed", "file_quarantined"} THEN "rejected"
    ELSE IF error_code = "file_not_found" THEN "gone" ELSE state

Contents == INSTANCE Document WITH
    status <- Standing, pinned <- row.identity, readable <- Readable,
    told <- notified, outcome <- Outcome

\* Whatever requests, attempts and failures do to the row, the objects and the
\* job, together they behave as one document: bytes pinned once and read only
\* after the scanner accepted them, no verdict undone or given to a document
\* that can be read, no notification and no outcome against the document.
ImplementsDocument == Contents!Spec

\* A file that was rejected is not resurrected, by a repeated completion, by a
\* retry or by an attempt that comes back late.
RejectedIsNotResurrected ==
    [][row.status \in Rejected => row'.status \in Rejected \union {"deleted"}]_vars
=============================================================================
