---------------------------- MODULE AITransfers ----------------------------
(***************************************************************************)
(* The provider copies of one AI request's source: the dispatch loop of    *)
(* ai/service.py as far as it routes, stages and cleans up,                *)
(* ai/transfer_orchestrator.py, the provider stores (providers/*_upload,   *)
(* vertex_gcs), ai/persistence/references.py and the reconciliation sweep  *)
(* of ai/persistence/reconciliation.py.  The request's rows and its job    *)
(* are those of AIExecution with less detail: no budget, no repair, and    *)
(* the rows of an execution are settled together.                          *)
(*                                                                         *)
(* Each handler is a worker process of its own, with its stores' caches.   *)
(* Files that nobody knows of (an upload whose answer is lost or cannot be *)
(* used, and whose deletion fails) are left out: no code can act on them.  *)
(* So is a stray sweep (Maintenance): it may delete one more copy that it  *)
(* had selected, and writes nothing.                                       *)
(***************************************************************************)
EXTENDS TransferRouting

CONSTANTS
    Scenarios,       \* [their names -> the organisation's policy, the request's source, its
                     \* task's max_attempts ("tries"), the attempts of the job
                     \* that ended before they staged anything ("used"), whether
                     \* the storage is local, and the staging bucket; and two
                     \* bounds: the files the providers accept ("uploads") and
                     \* whether the question and the rows grow old ("ages")]
    Handlers, Reconciler,
    MaxStarts,       \* MAX_ATTEMPTS
    MaxUploads       \* bound: of "uploads"

\* What the Vertex store reads of the configured bucket and its policy.
Bucket == [owned : BOOLEAN, location : Regions, singleRegion : BOOLEAN,
           uniform : BOOLEAN, public : BOOLEAN]

ASSUME ActorsAssumption ==
    /\ Reconciler \notin Handlers
    /\ NoMode \notin Providers
    /\ {MaxStarts, MaxUploads} \subseteq Nat
    /\ \A s \in Range(Scenarios) : /\ PolicyIsValid(s.policy) /\ IdentifiersAreValid(s.policy)
                          /\ SourceIsGiven(s.source) /\ s.bucket \in Bucket
                          /\ s.tries \in Nat /\ {s.local, s.ages} \subseteq BOOLEAN
                          /\ s.used \in 0..MaxStarts /\ s.uploads \in 0..MaxUploads

VARIABLES
    scenario,        \* its name, never changed
    request,         \* ai_requests: the status of each row, by attempt_number
    question,        \* execution_metadata: "held", "expired" or "none"
    job,
    rows,            \* ai_attachment_references, in the order of creation
    hosted,          \* the copies the providers hold
    lapsed,          \* the copies whose announced expiry has passed
    uploads,         \* how many were uploaded
    cache,           \* each process's store records: [copy, status] per provider
    handlers,
    cleanup          \* of each handler and of the sweep: what it is deleting

transferVars ==
    <<scenario, request, question, job, rows, hosted, lapsed, uploads, cache,
      handlers, cleanup>>
jobVars == <<request, question, job>>
copyVars == <<hosted, lapsed, uploads, cache>>

NoProvider == "none"
Copy == [provider : Providers \union {NoProvider}, id : 0..MaxUploads]
NoCopy == [provider |-> NoProvider, id |-> 0]

\* Without a Files API in reach the source itself is named.
SourceItself(p) == [provider |-> p, id |-> 0]
\* The object of the request and source in the Vertex bucket.
VertexObject == [provider |-> "vertex", id |-> 0]

\* The modes in which the provider has a copy.
CopyModes == {"provider_upload", "storage_reference"}

\* Mutant of Key: the provider is not part of it.
Key_ModeOnly(provider, mode) == mode

\* derive_idempotency_key, for one request and one source in the provider's region.
Key(provider, mode) == <<provider, mode>>

KeyOf(row) == Key(row.provider, row.mode)

RowStatus == {"live", "expired", "deleted"}
Reference == [provider : Providers, mode : Modes, copy : Copy, status : RowStatus,
              stamped : BOOLEAN]     \* deletion_attempted_at is within the backoff

CacheRecord == [copy : Copy, status : {"absent", "live", "deleted"}]
EmptyCache == [p \in Providers |-> [copy |-> NoCopy, status |-> "absent"]]

Terminal == {"succeeded", "failed"}
RequestStatus == {"queued", "running"} \union Terminal
Latest == Last(request)

Phase == {"idle", "claimed", "routing", "finding", "staging", "persisting",
          "minting", "reserving", "calling", "finalizing", "cleaning", "settling", "clearing",
          "closing"}
\* "store": of the orchestrator the handler holds: none yet, one without a store
\* (managed URLs) or a provider's.
NoOrchestrator == "absent"
Handler == [phase : Phase, own : Nat, seen : RequestStatus,
            model : Models \union {NoModel}, excluded : SUBSET Models,
            copy : Copy, store : Providers \union {NoProvider, NoOrchestrator},
            dispatches : Nat, outcome : {"none", "succeeded", "failed", "replay"}]
Idle == [phase |-> "idle", own |-> 0, seen |-> "queued", model |-> NoModel,
         excluded |-> {}, copy |-> NoCopy, store |-> NoOrchestrator,
         dispatches |-> 0, outcome |-> "none"]

\* The row a deletion has read, as far as it uses it.
Claim == [provider : Providers \union {NoProvider}, mode : Modes \union {NoMode},
          copy : Copy]
NoClaim == [provider |-> NoProvider, mode |-> NoMode, copy |-> NoCopy]
ClaimOn(row) == [provider |-> row.provider, mode |-> row.mode, copy |-> row.copy]

Cleanup == [step : {"off", "next", "deleting", "marking"}, todo : SUBSET Nat,
            claim : Claim]
NoCleanup == [step |-> "off", todo |-> {}, claim |-> NoClaim]

Cleaners == Handlers \union {Reconciler}

TransfersTypeOK ==
    /\ scenario \in DOMAIN Scenarios
    /\ request \in Seq(RequestStatus)
    /\ question \in {"held", "expired", "none"}
    /\ job \in [status : RequestStatus, starts : 0..MaxStarts, owner : 0..MaxStarts]
    /\ rows \in Seq(Reference)
    /\ hosted \subseteq Copy /\ lapsed \subseteq Copy
    /\ uploads \in 0..MaxUploads
    /\ cache \in [Handlers -> [Providers -> CacheRecord]]
    /\ handlers \in [Handlers -> Handler]
    /\ cleanup \in [Cleaners -> Cleanup]

given == Scenarios[scenario]

\* A question that was enqueued for a source of the organisation.
TransfersInit ==
    /\ scenario \in DOMAIN Scenarios
    /\ request = <<"queued">> /\ question = "held"
    /\ job = [status |-> "queued", starts |-> given.used, owner |-> given.used]
    /\ rows = << >>
    /\ hosted = {} /\ lapsed = {} /\ uploads = 0
    /\ cache = [h \in Handlers |-> EmptyCache]
    /\ handlers = [h \in Handlers |-> Idle]
    /\ cleanup = [c \in Cleaners |-> NoCleanup]

policy == given.policy
source == given.source

\* The providers that delete a file at an announced time.
Expiring == {p \in Providers : "provider_upload" \in DOMAIN Contract[p]
                               /\ Contract[p]["provider_upload"].expires}

-----------------------------------------------------------------------------
(* The attempt: claim_dispatch and the checks before the first dispatch.   *)

Active(h) == handlers[h].phase # "idle"
Owns(h) == job.status = "running" /\ job.owner = handlers[h].own
Provider(h) == ProviderOf(handlers[h].model)
Mode(h) == ModeForPolicy(handlers[h].model, policy, source)
Moves(h, phase) == handlers' = [handlers EXCEPT ![h].phase = phase]

Ends(h) ==
    /\ handlers' = [handlers EXCEPT ![h] = Idle]
    /\ cleanup' = [cleanup EXCEPT ![h] = NoCleanup]

\* StaleDispatchError is not an AIError: nothing is cleaned up.
EndsStale(h) == ~Owns(h) /\ Ends(h) /\ UNCHANGED jobVars

\* An AIError ends the dispatch loop: the references are finalised if there is
\* an orchestrator, then the rows are settled.
Ending(handler, outcome) ==
    [handler EXCEPT
        !.outcome = outcome, !.copy = NoCopy, !.model = NoModel, !.excluded = {},
        !.phase = IF handler.store # NoOrchestrator THEN "finalizing" ELSE "settling"]
Fails(h) == handlers' = [handlers EXCEPT ![h] = Ending(@, "failed")]

\* A job that runs may be taken over: its lease may have expired.
ClaimDispatch(h) ==
    /\ ~Active(h)
    /\ job.status \in {"queued", "running"} /\ job.starts < MaxStarts
    /\ job' = [status |-> "running", starts |-> job.starts + 1, owner |-> job.owner + 1]
    /\ handlers' = [handlers EXCEPT ![h] = [Idle EXCEPT !.phase = "claimed",
                                                        !.own = job'.owner]]
    /\ UNCHANGED <<scenario, request, question, rows, copyVars, cleanup>>

\* Before the first dispatch: the policy may be disabled by now, the source no
\* longer the organisation's to use, or unreadable.
PrepareSource(handler) ==
    {[handler EXCEPT !.phase = "routing"], Ending(handler, "failed")}

\* The request's first row is read, once; a missing question is refused.
LoadRequest(h) ==
    /\ handlers[h].phase = "claimed"
    /\ LET loaded == [handlers[h] EXCEPT !.seen = request[1]] IN
       \E next \in IF question = "held" THEN PrepareSource(loaded)
                                        ELSE {Ending(loaded, "failed")} :
           handlers' = [handlers EXCEPT ![h] = next]
    /\ UNCHANGED <<scenario, jobVars, rows, copyVars, cleanup>>

\* route and _select_transfer_mode, and the orchestrator of a mode that stages a
\* source; one that was read into memory is never staged.  Without a model or a
\* mode the attempt fails, a fallback with the failure it should have made good.
RouteModel(h) ==
    /\ handlers[h].phase = "routing"
    /\ LET m == Route(policy, source, handlers[h].excluded)
           mode == ModeForPolicy(m, policy, source)
           Routed(phase, store) == handlers' = [handlers EXCEPT
               ![h].model = m, ![h].phase = phase, ![h].store = store]
       IN  CASE m = NoModel -> Fails(h)
             [] m # NoModel /\ mode = NoMode -> Fails(h)
             [] m # NoModel /\ mode = Inline -> Routed("reserving", NoOrchestrator)
             [] m # NoModel /\ mode \in Modes \ {Inline} /\ ~Large(source) -> Fails(h)
             [] OTHER -> Routed("finding", IF mode \in CopyModes
                                           THEN ProviderOf(m) ELSE NoProvider)
    /\ UNCHANGED <<scenario, jobVars, rows, copyVars, cleanup>>

-----------------------------------------------------------------------------
(* Staging.                                                                *)

Lapsed(row) == row.copy \in lapsed

\* At most one row of a key is live (a partial unique index).
LiveRow(key) == {i \in DOMAIN rows : KeyOf(rows[i]) = key /\ rows[i].status = "live"}
MyKey(h) == Key(Provider(h), Mode(h))

\* mark_expired
Expired(set) == [i \in DOMAIN rows |-> IF i \in set /\ rows[i].status = "live"
                                       THEN [rows[i] EXCEPT !.status = "expired"]
                                       ELSE rows[i]]

\* find_live: a row whose copy has lapsed is expired on the way.
FindLive(key) == {i \in LiveRow(key) : ~Lapsed(rows[i])}
ExpiresLapsed(key) == Expired(LiveRow(key) \ FindLive(key))

\* A URL of the source is minted for each dispatch of a managed URL, and for a
\* source that a local deployment named itself instead of uploading it.
Dispatchable(h, copy) ==
    handlers' = [handlers EXCEPT
        ![h].copy = copy,
        ![h].phase = IF \/ Mode(h) = "managed_signed_url"
                        \/ /\ Mode(h) = "provider_upload"
                           /\ copy = SourceItself(Provider(h))
                     THEN "minting" ELSE "reserving"]

\* StreamedSource, which may refuse the source (and its page count may be), and
\* find_reusable_reference.
FindReusable(h) ==
    /\ handlers[h].phase = "finding"
    /\ LET key == MyKey(h) IN
       \/ /\ Fails(h)
          /\ rows' = rows
       \/ /\ FindLive(key) = {}
          /\ rows' = ExpiresLapsed(key)
          /\ Moves(h, IF Mode(h) \in CopyModes THEN "staging" ELSE "persisting")
       \/ /\ \E i \in FindLive(key) : Dispatchable(h, rows[i].copy)
          /\ rows' = rows
    /\ UNCHANGED <<scenario, jobVars, copyVars, cleanup>>

-----------------------------------------------------------------------------
(* TransferStore.stage, of the three providers.                            *)

Staging(h, p) == handlers[h].phase = "staging" /\ Provider(h) = p

\* The store's own record of the key answers first, as long as it is live.
Remembered(h) == LET record == cache[h][Provider(h)]
                 IN  record.status = "live" /\ record.copy \notin lapsed

Returns(h, copy) ==
    /\ handlers' = [handlers EXCEPT ![h].phase = "persisting", ![h].copy = copy]
    /\ cache' = [cache EXCEPT ![h][copy.provider] = [copy |-> copy, status |-> "live"]]

ReturnsRemembered(h) ==
    /\ Remembered(h)
    /\ Returns(h, cache[h][Provider(h)].copy)
    /\ UNCHANGED <<hosted, uploads>>

\* A Files API names every file anew.
NewFile(p) == [provider |-> p, id |-> uploads + 1]

Uploads(h, p) ==
    /\ uploads < given.uploads
    /\ uploads' = uploads + 1
    /\ hosted' = hosted \union {NewFile(p)}

\* The upload is refused; or it is done, but the answer cannot be used, and the file
\* is deleted as far as possible.
FailsToUpload(h) ==
    /\ ~Remembered(h)
    /\ Fails(h)
    /\ UNCHANGED <<hosted, uploads, cache>>

\* validate_openai_upload, of what the model and the source can make untrue.
OpenAIAccepts ==
    OnePdf(source) /\ Aggregate(source) <= TemplateMax /\ LifecycleOf(source) = "transient"

UploadToOpenAI(h) ==
    /\ Staging(h, "openai")
    /\ \/ ReturnsRemembered(h)
       \/ /\ ~Remembered(h)
          /\ OpenAIAccepts
          /\ Uploads(h, "openai")
          /\ Returns(h, NewFile("openai"))
       \/ FailsToUpload(h)
    /\ UNCHANGED <<scenario, jobVars, rows, lapsed, cleanup>>

\* validate_anthropic_upload
AnthropicAccepts ==
    /\ OnePdf(source) /\ LifecycleOf(source) = "transient"
    /\ Aggregate(source) <= Contract["anthropic"]["provider_upload"].max

\* Where the storage is local nothing is uploaded.
UploadToAnthropic(h) ==
    /\ Staging(h, "anthropic")
    /\ \/ ReturnsRemembered(h)
       \/ /\ ~Remembered(h)
          /\ AnthropicAccepts
          /\ given.local
          /\ Returns(h, SourceItself("anthropic"))
          /\ UNCHANGED <<hosted, uploads>>
       \/ /\ ~Remembered(h)
          /\ AnthropicAccepts
          /\ ~given.local
          /\ Uploads(h, "anthropic")
          /\ Returns(h, NewFile("anthropic"))
       \/ ~given.local /\ FailsToUpload(h)
    /\ UNCHANGED <<scenario, jobVars, rows, lapsed, cleanup>>

\* validate_vertex_staging_bucket
BucketIsUsable(bucket) ==
    /\ bucket.owned /\ bucket.location = RegionOf["vertex"] /\ bucket.singleRegion
    /\ bucket.uniform /\ ~bucket.public

\* An object that is refused after its upload, by its size, type or digest, stays
\* where it is.
RefusesObject(h) ==
    /\ Fails(h)
    /\ hosted' = hosted \union {VertexObject}

\* An object that is there already is as good as a new one, after the same check.
StageObject(h) ==
    /\ Staging(h, "vertex")
    /\ \/ ReturnsRemembered(h)
       \/ /\ ~Remembered(h)
          /\ BucketIsUsable(given.bucket)
          /\ Returns(h, VertexObject)
          /\ hosted' = hosted \union {VertexObject}
       \/ /\ ~Remembered(h)
          /\ BucketIsUsable(given.bucket)
          /\ RefusesObject(h)
          /\ cache' = cache
       \/ /\ ~Remembered(h)
          /\ Fails(h)
          /\ UNCHANGED <<hosted, cache>>
    /\ UNCHANGED <<scenario, jobVars, rows, lapsed, uploads, cleanup>>

-----------------------------------------------------------------------------
(* The row of the copy, and the URL of a source.                           *)

NewRow(h) == [provider |-> Provider(h), mode |-> Mode(h), copy |-> handlers[h].copy,
              status |-> "live", stamped |-> FALSE]

\* _refresh_existing: the live row takes a copy over that was made anew.
RefreshExisting(i, copy) == [rows EXCEPT ![i].copy = copy]

\* create_or_adopt: the live row of the key takes the copy over, or one is inserted.
CreateOrAdopt(h) ==
    LET key == MyKey(h) IN
    \/ \E i \in FindLive(key) : rows' = RefreshExisting(i, handlers[h].copy)
    \/ FindLive(key) = {} /\ rows' = Append(ExpiresLapsed(key), NewRow(h))

\* create_or_reuse_reference after the copy is staged.  If that fails, the copy is
\* deleted as far as possible and the exception, which is none of the AI errors,
\* ends the attempt (HandlerRaises).
PersistReference(h) ==
    /\ handlers[h].phase = "persisting"
    /\ CreateOrAdopt(h)
    /\ Dispatchable(h, handlers[h].copy)
    /\ UNCHANGED <<scenario, jobVars, copyVars, cleanup>>

\* mint_managed_url: the source is verified once more, and may have changed.
MintUrl(h) ==
    /\ handlers[h].phase = "minting"
    /\ Moves(h, "reserving") \/ Fails(h)
    /\ UNCHANGED <<scenario, jobVars, rows, copyVars, cleanup>>

-----------------------------------------------------------------------------
(* The dispatches.                                                         *)

\* reserve for the first, record_attempt for the others.
Reserve(h) ==
    /\ handlers[h].phase = "reserving"
    /\ LET first == handlers[h].dispatches = 0
           queued == handlers[h].seen = "queued"
           Dispatches == handlers' = [handlers EXCEPT
                             ![h].phase = "calling", ![h].dispatches = @ + 1,
                             ![h].seen = "running"]
       IN  \/ /\ Owns(h) /\ first /\ queued
              /\ request' = [request EXCEPT ![1] = "running"]
              /\ Dispatches /\ UNCHANGED <<question, job, cleanup>>
           \/ /\ Owns(h) /\ first /\ queued          \* over budget
              /\ Fails(h) /\ UNCHANGED <<jobVars, cleanup>>
           \/ /\ Owns(h) /\ first /\ ~queued         \* AIRequestReplayError
              /\ handlers' = [handlers EXCEPT ![h] = Ending(@, "replay")]
              /\ UNCHANGED <<jobVars, cleanup>>
           \/ /\ Owns(h) /\ ~first
              /\ request' = Append(request, "running")
              /\ Dispatches /\ UNCHANGED <<question, job, cleanup>>
           \/ EndsStale(h)
    /\ UNCHANGED <<scenario, rows, copyVars>>

\* A usable answer; a malformed one, which is asked for again; a transient
\* failure, after which the model is excluded if the task has tries left; or an
\* error for good.
CallProvider(h) ==
    /\ handlers[h].phase = "calling"
    /\ LET again == handlers[h].dispatches < given.tries
           Retries(excluded) == handlers' = [handlers EXCEPT
               ![h].phase = "routing", ![h].copy = NoCopy, ![h].model = NoModel,
               ![h].excluded = @ \union excluded]
       IN  \/ handlers' = [handlers EXCEPT ![h] = Ending(@, "succeeded")]
           \/ again /\ Retries({})
           \/ again /\ Retries({handlers[h].model})
           \/ Fails(h)
    /\ UNCHANGED <<scenario, jobVars, rows, copyVars, cleanup>>

-----------------------------------------------------------------------------
(* Cleaning up, by a handler at the end of an execution and by the sweep.  *)

\* expire_references_for_request, and the list that is deleted.
Finalize(h) ==
    /\ handlers[h].phase = "finalizing"
    /\ rows' = Expired(DOMAIN rows)
    /\ cleanup' = [cleanup EXCEPT ![h] = [NoCleanup EXCEPT !.step = "next",
                                                           !.todo = DOMAIN rows]]
    /\ Moves(h, "cleaning")
    /\ UNCHANGED <<scenario, jobVars, copyVars>>

\* The predicate of the sweep's statement.
OwnerIsDone == Latest \in Terminal

\* claim_needing_reconciliation: the batch is stamped.
SweepClaims ==
    /\ cleanup[Reconciler].step = "off"
    /\ LET batch == {i \in DOMAIN rows : /\ rows[i].mode = "provider_upload"
                                         /\ rows[i].status # "deleted"
                                         /\ OwnerIsDone
                                         /\ ~rows[i].stamped}
       IN  /\ batch # {}
           /\ rows' = [i \in DOMAIN rows |-> IF i \in batch
                          THEN [rows[i] EXCEPT !.stamped = TRUE] ELSE rows[i]]
           /\ cleanup' = [cleanup EXCEPT ![Reconciler] = [NoCleanup EXCEPT
                          !.step = "next", !.todo = batch]]
    /\ UNCHANGED <<scenario, jobVars, copyVars, handlers>>

\* ai_attachment_reference_for_deletion_statement: the live row of the key, else
\* the newest that is not deleted.
ForDeletion(key) ==
    LET left == {i \in DOMAIN rows : KeyOf(rows[i]) = key /\ rows[i].status # "deleted"}
    IN  IF LiveRow(key) # {} THEN LiveRow(key)
        ELSE IF left # {} THEN {Max(left)} ELSE {}

StoreOf(c, row) == IF c = Reconciler THEN row.provider ELSE handlers[c].store

\* claim_for_deletion of the next reference; one of another provider than the
\* orchestrator's is left, stamped.
ClaimForDeletion(c) ==
    /\ cleanup[c].step = "next"
    /\ cleanup[c].todo # {}
    /\ LET i == Min(cleanup[c].todo)
           chosen == ForDeletion(KeyOf(rows[i]))
           left == [NoCleanup EXCEPT !.step = "next", !.todo = cleanup[c].todo \ {i}]
       IN    /\ rows' = [j \in DOMAIN rows |-> IF j \in chosen
                            THEN [rows[j] EXCEPT !.stamped = TRUE] ELSE rows[j]]
             /\ \/ /\ chosen = {}
                   /\ cleanup' = [cleanup EXCEPT ![c] = left]
                \/ \E j \in chosen :
                     LET copies == rows[j].mode \in CopyModes
                         mine == ~copies \/ StoreOf(c, rows[j]) = rows[j].provider
                     IN  cleanup' = [cleanup EXCEPT ![c] =
                             IF mine
                             THEN [left EXCEPT !.claim = ClaimOn(rows[j]),
                                      !.step = IF copies THEN "deleting" ELSE "marking"]
                             ELSE left]
    /\ UNCHANGED <<scenario, jobVars, copyVars, handlers>>

\* The store's record of the key, which the sweep's new store does not have.
RecordOf(c, p) == IF c = Reconciler THEN EmptyCache[p] ELSE cache[c][p]

\* mark_deletion_attempted
Stamped(key) == [j \in DOMAIN rows |-> IF j \in ForDeletion(key)
                   THEN [rows[j] EXCEPT !.stamped = TRUE] ELSE rows[j]]

\* delete_reference: a copy the store remembers as deleted is left to itself;
\* otherwise the provider is asked (removed), or fails to, which is stamped.
Deletes(c, removed) ==
    LET claim == cleanup[c].claim
        record == RecordOf(c, claim.provider)
        Marking == cleanup' = [cleanup EXCEPT ![c].step = "marking"]
    IN  \/ /\ record.status = "deleted"
           /\ Marking
           /\ UNCHANGED <<rows, hosted, cache>>
        \/ /\ record.status # "deleted"
           /\ hosted' = hosted \ removed
           /\ cache' = IF record.status = "live"
                       THEN [cache EXCEPT ![c][claim.provider].status = "deleted"] ELSE cache
           /\ Marking
           /\ rows' = rows
        \/ /\ record.status # "deleted" /\ removed # {}
           /\ rows' = Stamped(KeyOf(claim))
           /\ cleanup' = [cleanup EXCEPT ![c].step = "next", ![c].claim = NoClaim]
           /\ UNCHANGED <<hosted, cache>>

Deleting(c, p) ==
    /\ cleanup[c].step = "deleting" /\ cleanup[c].claim.provider = p
    /\ UNCHANGED <<scenario, jobVars, lapsed, uploads, handlers>>

DeleteFromOpenAI(c) == Deleting(c, "openai") /\ Deletes(c, {cleanup[c].claim.copy})

\* There is nothing to delete of a source that was named itself.
DeleteFromAnthropic(c) ==
    Deleting(c, "anthropic") /\ Deletes(c, {cleanup[c].claim.copy} \ {SourceItself("anthropic")})

DeleteObject(c) == Deleting(c, "vertex") /\ Deletes(c, {cleanup[c].claim.copy})

\* mark_deleted, of the row the key has now.
MarkDeleted(c) ==
    /\ cleanup[c].step = "marking"
    /\ rows' = [j \in DOMAIN rows |-> IF j \in ForDeletion(KeyOf(cleanup[c].claim))
                   THEN [rows[j] EXCEPT !.status = "deleted", !.stamped = FALSE]
                   ELSE rows[j]]
    /\ cleanup' = [cleanup EXCEPT ![c].step = "next", ![c].claim = NoClaim]
    /\ UNCHANGED <<scenario, jobVars, copyVars, handlers>>

\* Nothing is left, or an exception ended it, which the handler suppresses.
EndCleanup(c) ==
    /\ cleanup[c].step # "off"
    /\ cleanup' = [cleanup EXCEPT ![c] = NoCleanup]
    /\ IF c = Reconciler THEN UNCHANGED handlers
                    ELSE handlers' = [handlers EXCEPT ![c].phase = "settling",
                                                      ![c].store = NoOrchestrator]
    /\ UNCHANGED <<scenario, jobVars, rows, copyVars>>

-----------------------------------------------------------------------------
(* The end of the attempt.                                                 *)

\* settle: the first row by what the session knows, the others if they run.
Settle(h) ==
    /\ handlers[h].phase = "settling"
    /\ LET n == handlers[h].dispatches IN
       \/ n = 0 /\ Moves(h, "clearing") /\ UNCHANGED <<jobVars, cleanup>>
       \/ /\ n > 0 /\ Owns(h)
          /\ request' = [i \in DOMAIN request |->
                 IF i <= n /\ (i = 1 \/ request[i] = "running")
                 THEN IF i = n THEN handlers[h].outcome ELSE "failed"
                 ELSE request[i]]
          /\ handlers' = [handlers EXCEPT ![h].phase = "clearing",
                             ![h].seen = IF n = 1 THEN handlers[h].outcome ELSE "failed"]
          /\ UNCHANGED <<question, job, cleanup>>
       \/ n > 0 /\ EndsStale(h)
    /\ UNCHANGED <<scenario, rows, copyVars>>

\* Mutant of FailsQueued: only the question is removed.
FailsQueued_Never(seen) == FALSE

\* _clear_execution_metadata and the retention: a request without its question
\* cannot be executed any more.
FailsQueued(seen) == seen = "queued"

\* _clear_execution_metadata, by the status the session has and whoever owns the
\* job; after _reconcile_replay only if it found a winning row.
ClearQuestion(h) ==
    /\ handlers[h].phase = "clearing"
    /\ LET seen == handlers[h].seen
           replay == handlers[h].outcome = "replay"
           won == \E i \in DOMAIN request : request[i] = "succeeded"
       IN  \/ /\ ~replay \/ won
              /\ question' = "none"
              /\ request' = IF handlers[h].outcome = "failed" /\ FailsQueued(seen)
                            THEN [request EXCEPT ![1] = "failed"] ELSE request
          \/ /\ replay /\ ~won
             /\ UNCHANGED <<question, request>>
    /\ Moves(h, "closing")
    /\ UNCHANGED <<scenario, job, rows, copyVars, cleanup>>

\* The job follows the outcome, or what the replay found.
SettleJob(h) ==
    /\ handlers[h].phase = "closing"
    /\ \/ /\ Owns(h)
          /\ job' = [job EXCEPT !.status =
                 IF \/ handlers[h].outcome = "succeeded"
                    \/ /\ handlers[h].outcome = "replay"
                       /\ \E i \in DOMAIN request : request[i] = "succeeded"
                 THEN "succeeded" ELSE "failed"]
          /\ Ends(h)
          /\ UNCHANGED <<request, question>>
       \/ EndsStale(h)
    /\ UNCHANGED <<scenario, rows, copyVars>>

\* An exception that is not an AIError; what was staged but not recorded is
\* deleted, if the provider lets it.
HandlerRaises(h) ==
    /\ Active(h) /\ Owns(h)
    /\ job' = [job EXCEPT !.status = IF job.starts >= MaxStarts THEN "failed" ELSE "queued"]
    /\ Ends(h)
    /\ \/ UNCHANGED <<hosted, cache>>
       \/ /\ handlers[h].phase = "persisting" /\ Mode(h) \in CopyModes
          /\ hosted' = hosted \ {handlers[h].copy}
          /\ cache' = [cache EXCEPT ![h][Provider(h)].status = "deleted"]
    /\ UNCHANGED <<scenario, request, question, rows, lapsed, uploads>>

\* The process dies, and with it the records of its stores.
WorkerCrash(h) ==
    /\ Active(h)
    /\ Ends(h)
    /\ cache' = [cache EXCEPT ![h] = EmptyCache]
    /\ UNCHANGED <<scenario, jobVars, rows, hosted, lapsed, uploads>>

ExhaustAbandonedJob ==
    /\ job.status = "running" /\ job.starts >= MaxStarts
    /\ job' = [job EXCEPT !.status = "failed"]
    /\ UNCHANGED <<scenario, request, question, rows, copyVars, handlers, cleanup>>

-----------------------------------------------------------------------------
(* Time.                                                                   *)

\* Row 1 is as old as the request; no attempt lasts until a later one is stale.
ReconcileStale ==
    /\ given.ages
    /\ \E upto \in DOMAIN request :
         /\ upto = 1 \/ \A h \in Handlers : handlers[h].dispatches = 0
         /\ \E i \in 1..upto : request[i] = "running"
         /\ request' = [i \in DOMAIN request |-> IF i <= upto /\ request[i] = "running"
                                                 THEN "failed" ELSE request[i]]
    /\ UNCHANGED <<scenario, question, job, rows, copyVars, handlers, cleanup>>

QuestionExpires ==
    /\ given.ages
    /\ question = "held"
    /\ question' = "expired"
    /\ UNCHANGED <<scenario, request, job, rows, copyVars, handlers, cleanup>>

ClearExpired ==
    /\ question = "expired"
    /\ question' = "none"
    /\ request' = IF FailsQueued(request[1])
                  THEN [request EXCEPT ![1] = "failed"] ELSE request
    /\ UNCHANGED <<scenario, job, rows, copyVars, handlers, cleanup>>

\* The provider deletes a file when the time it announced has come.
CopyExpires(copy) ==
    /\ copy.provider \in Expiring
    /\ hosted' = hosted \ {copy}
    /\ lapsed' = lapsed \union {copy}
    /\ UNCHANGED <<scenario, jobVars, rows, uploads, cache, handlers, cleanup>>

\* The backoff (ai_reconcile_retry_after_seconds) outlasts a cleanup.
BackoffElapses(i) ==
    /\ rows[i].stamped
    /\ \A c \in Cleaners : cleanup[c].step = "off"
    /\ rows' = [rows EXCEPT ![i].stamped = FALSE]
    /\ UNCHANGED <<scenario, jobVars, copyVars, handlers, cleanup>>

-----------------------------------------------------------------------------
HandlerStep(h) ==
    \/ ClaimDispatch(h) \/ LoadRequest(h) \/ RouteModel(h)
    \/ FindReusable(h) \/ UploadToOpenAI(h) \/ UploadToAnthropic(h) \/ StageObject(h)
    \/ PersistReference(h) \/ MintUrl(h)
    \/ Reserve(h) \/ CallProvider(h) \/ Finalize(h)
    \/ Settle(h) \/ ClearQuestion(h) \/ SettleJob(h)
    \/ HandlerRaises(h) \/ WorkerCrash(h)

CleanerStep(c) ==
    \/ ClaimForDeletion(c)
    \/ DeleteFromOpenAI(c) \/ DeleteFromAnthropic(c) \/ DeleteObject(c)
    \/ MarkDeleted(c) \/ EndCleanup(c)

TransfersNext ==
    \/ \E h \in Handlers : HandlerStep(h)
    \/ \E c \in Cleaners : CleanerStep(c)
    \/ SweepClaims
    \/ ExhaustAbandonedJob \/ ReconcileStale \/ QuestionExpires \/ ClearExpired
    \/ \E copy \in hosted : CopyExpires(copy)
    \/ \E i \in DOMAIN rows : BackoffElapses(i)

TransfersSpec == TransfersInit /\ [][TransfersNext]_transferVars

-----------------------------------------------------------------------------
(* Properties.                                                             *)

\* Whatever the router, a fallback or a reused reference chose: a provider is
\* only called in a mode that the organisation, the task, the model, the
\* deployment and the provider's contract all allow for this source, inline only
\* up to the threshold, and with a copy of its own.
DispatchIsPermitted ==
    \A h \in Handlers : handlers[h].phase = "calling" =>
        LET m == handlers[h].model
            size == Aggregate(source)
        IN  /\ ProviderOf(m) \in AllowedProviders(policy) /\ m \in AllowedModels(policy)
            /\ Mode(h) \in policy.modes \cap Task.modes \cap ModelOf[m].modes
            /\ Mode(h) \in DOMAIN Contract[ProviderOf(m)]
            /\ Mode(h) = Inline <=> size <= Threshold
            /\ Mode(h) # Inline => size <= policy.max /\ size <= Deployment.max
            /\ Mode(h) \in CopyModes => handlers[h].copy.provider = ProviderOf(m)

\* An execution that fell back never reaches a provider in another region than
\* a pinned one that it called before.
ExecutionStaysInItsRegion ==
    \A h \in Handlers : handlers[h].phase = "calling" =>
        \A e \in handlers[h].excluded :
            \/ RegionOf[ProviderOf(e)] = Unpinned
            \/ RegionOf[ProviderOf(e)] = RegionOf[Provider(h)]

\* "The router never commits to a model the selector would then deny": for a
\* source whose attachments were read.  (For one that was only headed it does.)
RouterAgreesWithSelector ==
    \A h \in Handlers : handlers[h].phase = "routing" /\ ~Large(source) =>
        LET m == Route(policy, source, handlers[h].excluded)
        IN  m # NoModel => ModeForPolicy(m, policy, source) # NoMode

\* A file a provider holds by its row is always within reach of the sweep: its
\* request has ended, or it runs and goes stale if it is abandoned, or it waits
\* for its job or, when the job has failed without it, for its question's expiry.
UploadRowsAreReachable ==
    (\E i \in DOMAIN rows : rows[i].mode = "provider_upload" /\ rows[i].status # "deleted")
    => \/ Latest \in Terminal \union {"running"}
       \/ job.status \in {"queued", "running"}
       \/ question # "none"
=============================================================================
