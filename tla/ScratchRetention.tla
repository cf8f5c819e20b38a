-------------------------- MODULE ScratchRetention --------------------------
(***************************************************************************)
(* Transient AI uploads and the AI retention sweep: the scratch intents of *)
(* ai/scratch.py and modules/ai_demo/service.py, the organisations' AI     *)
(* settings, the questions asked about a scratch object, and              *)
(* enforce_ai_retention of ai/persistence/service.py, which runs under the *)
(* run and the advisory lock of Maintenance: one sweep at a time.  (A      *)
(* stray sweep, Maintenance's exception, is not in this model: until its   *)
(* next statement meets the closed connection it may still delete objects  *)
(* that it had listed.)                                                    *)
(*                                                                         *)
(* Time is relative: what remains of a lifetime counts down, an age counts *)
(* up to MaxAge.  The attempts, rows and budget of a question are those of *)
(* AIExecution; here it is one row, one attempt and one output.            *)
(***************************************************************************)
EXTENDS Integers, FiniteSets, FiniteSetsExt

CONSTANTS
    Orgs,            \* 1..n: the order of the organisations' ids
    Intents, Questions,
    OrgOf,           \* of an intent
    About,           \* the intent whose object a question is about
    DaysOptions,     \* the retention_policy_days administrators choose from
    MaxLifetime,     \* ai_scratch_max_lifetime_seconds
    UrlLife,         \* storage_upload_url_ttl_seconds
    MetadataLife,    \* of a queued question's variables
    StaleAfter,      \* STALE_RUNNING_THRESHOLD
    MaxAge,          \* bound: ages are told apart up to it
    BatchSize,       \* SCRATCH_EXPIRY_BATCH_SIZE
    MaxUpdates,      \* bound: changes of settings
    NoPolicy

Items == Intents \union Questions

ASSUME TimesAssumption ==
    /\ {MaxLifetime, UrlLife, MetadataLife, StaleAfter, MaxAge, BatchSize} \subseteq Nat \ {0}
    /\ MaxUpdates \in Nat /\ DaysOptions \subseteq Nat \ {0}
    /\ \A days \in DaysOptions : days < MaxAge
    /\ StaleAfter < MaxAge /\ NoPolicy \notin Nat
ASSUME OwnersAssumption ==
    /\ Orgs = 1..Cardinality(Orgs) /\ 1 \in Orgs
    /\ OrgOf \in [Intents -> Orgs] /\ About \in [Questions -> Intents]
    /\ Intents \intersect Questions = {}

VARIABLES
    settings,        \* organisation_ai_settings: enabled, retention_policy_days
    updates,
    intents,         \* ai_scratch_uploads, from the reading of the policy on
    stored,          \* the objects in the scratch namespace: "good" or "bad" bytes
    url,             \* what remains of the signed PUT
    completion,      \* how far each intent's completion request is
    questions,       \* ai_requests
    age,             \* of an object; of a question, then of its output
    sweep,
    troubled         \* the storage may fail and workers may stop

vars == <<settings, updates, intents, stored, url, completion, questions, age, sweep,
          troubled>>
uploadVars == <<intents, stored, url, completion>>

Policies == DaysOptions \union {NoPolicy}
\* "reading": the policy was read, the row is not inserted.
IntentStatus == {"none", "reading", "pending", "ready", "expired"}
Intent == [status : IntentStatus, left : 0..MaxLifetime, basis : Policies]
Question == [status : {"none", "queued", "running", "succeeded", "failed"},
             held : 0..MetadataLife, read : BOOLEAN, output : BOOLEAN]
Bytes == {"none", "good", "bad"}

\* The local variables of a sweep: the organisation it is at, its settings' days, and
\* what was expired and how old each thing was at its "now".
Sweep == [step : {"off", "settings", "reconciling", "expiring", "batch", "listing",
                  "deleting", "closing"},
          org : Orgs, days : Policies, rows : SUBSET Questions,
          due : SUBSET Intents, batch : SUBSET Intents,
          ages : [Items -> 0..MaxAge], listed : SUBSET Intents]
Ageless == [x \in Items |-> 0]
NoSweep == [step |-> "off", org |-> 1, days |-> NoPolicy, rows |-> {}, due |-> {}, batch |-> {},
            ages |-> Ageless, listed |-> {}]

TypeOK ==
    /\ settings \in [Orgs -> [enabled : BOOLEAN, days : Policies]]
    /\ updates \in 0..MaxUpdates
    /\ intents \in [Intents -> Intent]
    /\ stored \in [Intents -> Bytes]
    /\ url \in [Intents -> 0..UrlLife]
    /\ completion \in [Intents -> {"idle", "loaded", "verified", "stamped"}]
    /\ questions \in [Questions -> Question]
    /\ age \in [Items -> 0..MaxAge]
    /\ sweep \in Sweep
    /\ troubled \in BOOLEAN

\* create_default_settings: AI is off until an administrator enables it.
NewSettings == [enabled |-> FALSE, days |-> NoPolicy]

Init ==
    /\ settings = [o \in Orgs |-> NewSettings]
    /\ updates = 0
    /\ intents = [i \in Intents |-> [status |-> "none", left |-> 0, basis |-> NoPolicy]]
    /\ stored = [i \in Intents |-> "none"]
    /\ url = [i \in Intents |-> 0]
    /\ completion = [i \in Intents |-> "idle"]
    /\ questions = [q \in Questions |-> [status |-> "none", held |-> 0, read |-> FALSE,
                                         output |-> FALSE]]
    /\ age = [x \in Items |-> 0]
    /\ sweep = NoSweep
    /\ troubled = TRUE
-----------------------------------------------------------------------------
(***************************************************************************)
(* Settings.  An update holds the row's lock while it compares the         *)
(* version, so one that loses the race changes nothing.                    *)
(***************************************************************************)
UpdateSettings(o) ==
    /\ updates < MaxUpdates
    /\ \E enabled \in BOOLEAN, days \in Policies :
          settings' = [settings EXCEPT ![o] = [enabled |-> enabled, days |-> days]]
    /\ updates' = updates + 1
    /\ UNCHANGED <<uploadVars, questions, age, sweep, troubled>>
-----------------------------------------------------------------------------
(***************************************************************************)
(* Intents and their objects.                                              *)
(***************************************************************************)
\* Mutant of BoundedExpiry: the organisation's policy does not tighten it.
BoundedExpiry_Global(days) == IF days = NoPolicy THEN MaxLifetime ELSE MaxLifetime

BoundedExpiry(days) == IF days = NoPolicy THEN MaxLifetime ELSE Min({days, MaxLifetime})

\* is_ai_enabled and scratch_retention_days, then the clock.
ReadPolicy(i) ==
    LET row == settings[OrgOf[i]] IN
    /\ intents[i].status = "none" /\ row.enabled
    /\ intents' = [intents EXCEPT ![i] = [status |-> "reading", basis |-> row.days,
                                          left |-> BoundedExpiry(row.days)]]
    /\ UNCHANGED <<settings, updates, stored, url, completion, questions, age, sweep,
                   troubled>>

\* The row is inserted and the PUT signed in one transaction, if the storage answers.
CreateIntent(i) ==
    /\ intents[i].status = "reading"
    /\ intents' = [intents EXCEPT ![i].status = "pending"]
    /\ url' = [url EXCEPT ![i] = UrlLife]
    /\ UNCHANGED <<settings, updates, stored, completion, questions, age, sweep, troubled>>

\* The client PUTs, any bytes, as often as it likes while the URL is valid.
Upload(i) ==
    /\ url[i] > 0
    /\ \E bytes \in Bytes \ {"none"} : stored' = [stored EXCEPT ![i] = bytes]
    /\ age' = [age EXCEPT ![i] = 0]
    /\ UNCHANGED <<settings, updates, intents, url, completion, questions, sweep, troubled>>

Completes(i, from, to) ==
    /\ completion[i] = from
    /\ completion' = [completion EXCEPT ![i] = to]
    /\ UNCHANGED <<settings, updates, stored, url, questions, age, sweep, troubled>>

\* get_scratch_intent and its checks; a replay of a completed intent changes nothing.
LoadIntent(i) ==
    /\ intents[i].status = "pending" /\ intents[i].left > 0
    /\ Completes(i, "idle", "loaded")
    /\ UNCHANGED intents

\* The object is headed and scanned: it is missing, another object than declared, or
\* quarantined, or the scanner is unavailable.
Verify(i) ==
    /\ \/ stored[i] = "good" /\ Completes(i, "loaded", "verified")
       \/ (stored[i] # "good" \/ troubled) /\ Completes(i, "loaded", "idle")
    /\ UNCHANGED intents

\* complete_scratch_upload reads the clock before it locks the row.
Stamp(i) ==
    /\ Completes(i, "verified", IF intents[i].left > 0 THEN "stamped" ELSE "idle")
    /\ UNCHANGED intents

\* Mutant of StillPending: the status the request loaded at its beginning is trusted.
StillPending_AsLoaded(i) == intents[i].status \in IntentStatus

StillPending(i) == intents[i].status = "pending"

\* The row, read under its lock.
Complete(i) ==
    /\ Completes(i, "stamped", "idle")
    /\ intents' = IF StillPending(i) THEN [intents EXCEPT ![i].status = "ready"] ELSE intents
-----------------------------------------------------------------------------
(***************************************************************************)
(* Questions about an object.                                              *)
(***************************************************************************)
\* authorize_scratch_object.
Authorised(i) == intents[i].status = "ready" /\ intents[i].left > 0

Asks(q, question) ==
    /\ questions' = [questions EXCEPT ![q] = question]
    /\ UNCHANGED <<settings, updates, uploadVars, sweep, troubled>>

\* enqueue_document_execution, of a task with variables.
Ask(q) ==
    /\ questions[q].status = "none"
    /\ Authorised(About[q])
    /\ Asks(q, [questions[q] EXCEPT !.status = "queued", !.held = MetadataLife])
    /\ age' = [age EXCEPT ![q] = 0]

Start(q) ==
    /\ questions[q].status = "queued" /\ questions[q].held > 0
    /\ Asks(q, [questions[q] EXCEPT !.status = "running"])
    /\ UNCHANGED age

\* The worker authorises the source again and reads it.
ReadSource(q) ==
    /\ questions[q].status = "running" /\ ~questions[q].read
    /\ Asks(q, IF Authorised(About[q]) /\ stored[About[q]] # "none"
               THEN [questions[q] EXCEPT !.read = TRUE]
               ELSE [questions[q] EXCEPT !.status = "failed", !.held = 0])
    /\ UNCHANGED age

\* settle: the row, with its output when it succeeds, unless it was settled already.
Answer(q) ==
    /\ questions[q].status = "running" /\ questions[q].read
    /\ \/ /\ Asks(q, [status |-> "succeeded", held |-> 0, read |-> FALSE, output |-> TRUE])
          /\ age' = [age EXCEPT ![q] = 0]
       \/ /\ Asks(q, [questions[q] EXCEPT !.status = "failed", !.held = 0, !.read = FALSE])
          /\ UNCHANGED age
-----------------------------------------------------------------------------
(***************************************************************************)
(* The sweep.                                                              *)
(***************************************************************************)
Sweeps(from, next) ==
    /\ sweep.step = from
    /\ sweep' = next
    /\ UNCHANGED <<settings, updates, url, completion, age, troubled>>

At(step) == [sweep EXCEPT !.step = step]
Of(org) == {i \in Intents : OrgOf[i] = org}
Ours(q) == OrgOf[About[q]] = sweep.org

StartSweep ==
    /\ Sweeps("off", [NoSweep EXCEPT !.step = "settings", !.ages = age,
                          !.due = {i \in Intents : /\ intents[i].left = 0
                                                   /\ intents[i].status # "none"}])
    /\ UNCHANGED <<intents, stored, questions>>

\* Mutant of Reconciles: rows are reconciled only where outputs are retained.
Reconciles_Retained(org) == settings[org].days # NoPolicy

Reconciles(org) == org \in Orgs

\* Running rows that are too old and queued ones whose variables are past their expiry.
Stranded(q) ==
    \/ questions[q].status = "running" /\ sweep.ages[q] > StaleAfter
    \/ questions[q].status = "queued" /\ questions[q].held = 0

SelectStranded ==
    /\ Sweeps("settings", [At("reconciling") EXCEPT !.days = settings[sweep.org].days,
            !.rows = {q \in Questions : Ours(q) /\ Reconciles(sweep.org) /\ Stranded(q)}])
    /\ UNCHANGED <<intents, stored, questions>>

\* They fail, whatever they became since they were selected.
FailStranded ==
    /\ Sweeps("reconciling", [At("expiring") EXCEPT !.rows = {}])
    /\ questions' = [q \in Questions |->
           IF q \in sweep.rows THEN [questions[q] EXCEPT !.status = "failed", !.held = 0]
           ELSE questions[q]]
    /\ UNCHANGED <<intents, stored>>

Expirable == {i \in sweep.due \intersect Of(sweep.org) :
                  intents[i].status \in {"pending", "ready"}}

\* The next batch, read without a lock.
SelectExpired ==
    /\ IF Expirable = {}
       THEN Sweeps("expiring", At(IF sweep.days = NoPolicy THEN "closing" ELSE "listing"))
       ELSE \E batch \in kSubset(Min({BatchSize, Cardinality(Expirable)}), Expirable) :
                Sweeps("expiring", [At("batch") EXCEPT !.batch = batch])
    /\ UNCHANGED <<intents, stored, questions>>

\* The objects are deleted as far as the storage answers, and the rows are written by
\* their keys whatever they hold by now.
ExpireBatch ==
    /\ Sweeps("batch", [At("expiring") EXCEPT !.batch = {}])
    /\ \E kept \in SUBSET sweep.batch :
          /\ troubled \/ kept = {}
          /\ stored' = [i \in Intents |->
                 IF i \in sweep.batch \ kept THEN "none" ELSE stored[i]]
    /\ intents' = [i \in Intents |->
           IF i \in sweep.batch THEN [intents[i] EXCEPT !.status = "expired"]
           ELSE intents[i]]
    /\ UNCHANGED questions

\* Mutant of Namespace: the objects are found through their rows.
Namespace_Rows(org) == {i \in Of(org) : intents[i].status \in {"pending", "ready"}}

Namespace(org) == {i \in Of(org) : stored[i] # "none"}

\* An object that was stored again since the sweep began is younger than its "now".
OlderThan(days, x) == sweep.ages[x] > days /\ age[x] >= sweep.ages[x]

\* The pages of the listing.
ListNamespace ==
    /\ Sweeps("listing", [At("deleting") EXCEPT !.listed =
                  {i \in Namespace(sweep.org) : OlderThan(sweep.days, i)}])
    /\ UNCHANGED <<intents, stored, questions>>

DeleteListed ==
    /\ IF sweep.listed = {}
       THEN Sweeps("deleting", At("closing")) /\ UNCHANGED stored
       ELSE \E i \in sweep.listed :
                /\ Sweeps("deleting", [sweep EXCEPT !.listed = @ \ {i}])
                /\ stored' = [stored EXCEPT ![i] = "none"]
    /\ UNCHANGED <<intents, questions>>

\* The outputs' deletion and the audit event are committed; the next organisation.
CloseOrganisation ==
    /\ Sweeps("closing", IF sweep.org + 1 \in Orgs
                         THEN [At("settings") EXCEPT !.org = @ + 1, !.days = NoPolicy]
                         ELSE NoSweep)
    /\ questions' = [q \in Questions |->
           IF Ours(q) /\ sweep.days # NoPolicy /\ OlderThan(sweep.days, q)
           THEN [questions[q] EXCEPT !.output = FALSE] ELSE questions[q]]
    /\ UNCHANGED <<intents, stored>>

\* The process stops, or a listing or a deletion of the namespace sweep fails: what was
\* committed stays, and the rest is left to the next run.
AbortSweep ==
    /\ troubled /\ sweep.step # "off"
    /\ sweep' = NoSweep
    /\ UNCHANGED <<settings, updates, uploadVars, questions, age, troubled>>

SweepStep ==
    \/ StartSweep \/ SelectStranded \/ FailStranded \/ SelectExpired \/ ExpireBatch
    \/ ListNamespace \/ DeleteListed \/ CloseOrganisation
-----------------------------------------------------------------------------
(***************************************************************************)
(* Time.                                                                   *)
(***************************************************************************)
Less(n) == IF n = 0 THEN 0 ELSE n - 1

\* What exists ages.
Ageing(x) ==
    IF x \in Intents THEN stored[x] # "none"
    ELSE questions[x].status \in {"queued", "running"} \/ questions[x].output

Tick ==
    /\ intents' = [i \in Intents |-> [intents[i] EXCEPT !.left = Less(@)]]
    /\ url' = [i \in Intents |-> Less(url[i])]
    /\ questions' = [q \in Questions |-> [questions[q] EXCEPT !.held = Less(@)]]
    /\ age' = [x \in Items |->
           IF Ageing(x) /\ age[x] < MaxAge THEN age[x] + 1 ELSE age[x]]
    /\ UNCHANGED <<settings, updates, stored, completion, sweep, troubled>>

\* The storage answers and the process stays up from now on.
Calm ==
    /\ troubled /\ troubled' = FALSE
    /\ UNCHANGED <<settings, updates, uploadVars, questions, age, sweep>>

Next ==
    \/ \E o \in Orgs : UpdateSettings(o)
    \/ \E i \in Intents :
          \/ ReadPolicy(i) \/ CreateIntent(i) \/ Upload(i)
          \/ LoadIntent(i) \/ Verify(i) \/ Stamp(i) \/ Complete(i)
    \/ \E q \in Questions : Ask(q) \/ Start(q) \/ ReadSource(q) \/ Answer(q)
    \/ SweepStep \/ AbortSweep \/ Tick \/ Calm

Spec == Init /\ [][Next]_vars

\* Sweeps are scheduled for ever and run as Maintenance shows; storage trouble ends;
\* nothing is assumed of clients, administrators and workers.
FairSpec == Spec /\ WF_vars(SweepStep) /\ WF_vars(Tick) /\ WF_vars(Calm)
-----------------------------------------------------------------------------
(***************************************************************************)
(* Properties.                                                             *)
(***************************************************************************)
\* An intent that a sweep expired is never promoted again, although a completion reads
\* its row, checks its object and takes its time before it locks the row, and the sweep
\* locks nothing.
ExpiredStaysExpired ==
    [][\A i \in Intents : intents[i].status = "expired" => intents'[i].status = "expired"]_vars

\* The namespace sweep deletes the object of an upload whose lifetime has not passed only
\* if the organisation's policy is shorter than the one the upload was started under.
SweepSparesLiveUploads ==
    [][\A i \in Intents :
          /\ stored[i] # "none" /\ stored'[i] = "none" /\ intents[i].left > 0
          => /\ sweep.days # NoPolicy
             /\ intents[i].basis = NoPolicy \/ sweep.days < intents[i].basis]_vars

\* Every question settles, whatever becomes of the workers that hold it and whether or not
\* its organisation retains outputs: neither a crash nor a lost job keeps a budget
\* reservation for ever.
QuestionsSettle ==
    \A q \in Questions :
        questions[q].status \in {"queued", "running"}
        ~> questions[q].status \in {"succeeded", "failed"}

\* Under a retention policy nothing stays: neither an output nor an object that a failed
\* deletion, a late PUT or an abandoned upload left.
RetentionDrains ==
    \A o \in Orgs :
        <>[](settings[o].days # NoPolicy)
        => <>[](/\ \A i \in Of(o) : stored[i] = "none"
                /\ \A q \in Questions : About[q] \in Of(o) => ~questions[q].output)
=============================================================================
