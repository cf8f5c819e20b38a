-------------------------- MODULE AISources_proofs --------------------------
(***************************************************************************)
(* Theorems of the source of an AI request: of ScratchRetention, where a   *)
(* transient upload is kept, and of AITransfers, where a provider is given *)
(* it, for any organisations, policies, models, contracts, deployments,    *)
(* sources, worker processes and lifetimes.                                *)
(***************************************************************************)
EXTENDS ScratchRetention, AITransfers, WellFoundedInduction, TLAPS

-----------------------------------------------------------------------------
(* ScratchRetention.  A sweep compares two ages of an object with the      *)
(* policy it read: it is safe for a live upload because the older one,     *)
(* with what remains of the lifetime, never exceeds what the upload's own  *)
(* policy granted.                                                         *)

\* The lesser of two numbers.
LEMMA MinOfTwo ==
    ASSUME NEW a \in Nat, NEW b \in Nat
    PROVE  Min({a, b}) \in {a, b} /\ Min({a, b}) <= a /\ Min({a, b}) <= b
<1>1. \E x \in {a, b} : \A y \in {a, b} : x <= y
  OBVIOUS
<1> QED
  BY <1>1 DEF Min

\* What a policy grants: never more than the ceiling, nor than the policy.
LEMMA Granted ==
    ASSUME NEW days \in Policies
    PROVE  /\ BoundedExpiry(days) \in 0..MaxLifetime
           /\ days # NoPolicy => days \in Nat /\ BoundedExpiry(days) <= days
<1>1. MaxLifetime \in Nat
  BY TimesAssumption
<1>2. CASE days = NoPolicy
  BY <1>1, <1>2 DEF BoundedExpiry
<1>3. CASE days # NoPolicy
  <2>1. days \in Nat
    BY <1>3, TimesAssumption DEF Policies
  <2> QED
    BY <1>1, <1>3, <2>1, MinOfTwo DEF BoundedExpiry
<1> QED
  BY <1>2, <1>3

-----------------------------------------------------------------------------
(* Types.                                                                  *)

LEMMA Ranges == /\ MaxLifetime \in Nat /\ UrlLife \in Nat \ {0} /\ MetadataLife \in Nat
                /\ MaxAge \in Nat \ {0} /\ MaxUpdates \in Nat
                /\ NoPolicy \in Policies /\ 1 \in Orgs
  BY TimesAssumption, OwnersAssumption DEF Policies

LEMMA InitType == Init => TypeOK
<1> SUFFICES ASSUME Init PROVE TypeOK
  OBVIOUS
<1>1. Ageless \in [Items -> 0..MaxAge]
  BY Ranges DEF Ageless
<1>2. NoSweep \in Sweep
  BY <1>1, Ranges DEF NoSweep, Sweep
<1> QED
  BY <1>2, Ranges DEF Init, TypeOK, NewSettings, Intent, IntentStatus, Question, Bytes

\* What a request does to an intent, its object or its completion.
LEMMA UploadType ==
    ASSUME TypeOK, NEW i \in Intents,
           \/ ReadPolicy(i) \/ CreateIntent(i) \/ Upload(i)
           \/ LoadIntent(i) \/ Verify(i) \/ Stamp(i) \/ Complete(i)
    PROVE  TypeOK'
<1> USE DEF TypeOK
<1>1. CASE ReadPolicy(i)
  <2>1. OrgOf[i] \in Orgs
    BY OwnersAssumption
  <2>2. /\ settings[OrgOf[i]].days \in Policies
        /\ BoundedExpiry(settings[OrgOf[i]].days) \in 0..MaxLifetime
    BY <2>1, Granted
  <2> QED
    BY <1>1, <2>2 DEF ReadPolicy, Intent, IntentStatus
<1>2. CASE CreateIntent(i)
  BY <1>2, Ranges DEF CreateIntent, Intent, IntentStatus
<1>3. CASE Upload(i)
  <2>1. 0 \in 0..MaxAge /\ i \in Items
    BY Ranges DEF Items
  <2> QED
    BY <1>3, <2>1 DEF Upload
<1>4. CASE LoadIntent(i) \/ Verify(i) \/ Stamp(i)
  BY <1>4 DEF LoadIntent, Verify, Stamp, Completes
<1>5. CASE Complete(i)
  BY <1>5 DEF Complete, Completes, Intent, IntentStatus
<1> QED
  BY <1>1, <1>2, <1>3, <1>4, <1>5

LEMMA QuestionType ==
    ASSUME TypeOK, NEW q \in Questions, Ask(q) \/ Start(q) \/ ReadSource(q) \/ Answer(q)
    PROVE  TypeOK'
<1> USE DEF TypeOK, uploadVars
<1>1. 0 \in 0..MaxAge /\ 0 \in 0..MetadataLife /\ MetadataLife \in 0..MetadataLife
      /\ q \in Items
  BY Ranges DEF Items
<1>2. CASE Ask(q)
  BY <1>1, <1>2 DEF Ask, Asks, Question
<1>3. CASE Start(q)
  BY <1>1, <1>3 DEF Start, Asks, Question
<1>4. CASE ReadSource(q)
  BY <1>1, <1>4, ZenonT(60) DEF ReadSource, Asks, Question
<1>5. CASE Answer(q)
  <2>1. questions' \in [Questions -> Question]
    <3>1. CASE questions' = [questions EXCEPT ![q] =
                   [status |-> "succeeded", held |-> 0, read |-> FALSE, output |-> TRUE]]
      BY <1>1, <3>1 DEF Question
    <3>2. CASE questions' = [questions EXCEPT ![q] =
                   [questions[q] EXCEPT !.status = "failed", !.held = 0, !.read = FALSE]]
      BY <1>1, <3>2 DEF Question
    <3> QED
      BY <1>5, <3>1, <3>2 DEF Answer, Asks
  <2>2. age' \in [Items -> 0..MaxAge]
    BY <1>1, <1>5 DEF Answer
  <2> QED
    BY <1>5, <2>1, <2>2 DEF Answer, Asks
<1> QED
  BY <1>2, <1>3, <1>4, <1>5

\* The step a sweep is at, with the rest of what it remembers kept.
LEMMA AtType ==
    ASSUME sweep \in Sweep,
           NEW step \in {"off", "settings", "reconciling", "expiring", "batch", "listing",
                         "deleting", "closing"}
    PROVE  At(step) \in Sweep /\ At(step) = [sweep EXCEPT !.step = step]
  BY DEF At, Sweep

LEMMA SweepType ==
    ASSUME TypeOK, SweepStep
    PROVE  TypeOK'
<1> USE DEF TypeOK, Sweeps
<1>1. NoSweep \in Sweep
  BY Ranges DEF NoSweep, Sweep, Ageless
<1>2. CASE StartSweep
  BY <1>1, <1>2 DEF StartSweep, Sweep, NoSweep
<1>3. CASE SelectStranded
  <2>1. sweep.org \in Orgs
    BY DEF Sweep
  <2>2. settings[sweep.org].days \in Policies
    BY <2>1
  <2> QED
    BY <1>3, <2>2, AtType DEF SelectStranded, Sweep
<1>4. CASE FailStranded
  <2>1. sweep' \in Sweep
    BY <1>4, AtType DEF FailStranded, Sweep
  <2>2. questions' \in [Questions -> Question]
    <3>1. 0 \in 0..MetadataLife
      BY Ranges
    <3>2. ASSUME NEW q \in Questions
          PROVE  [questions[q] EXCEPT !.status = "failed", !.held = 0] \in Question
      BY <3>1 DEF Question
    <3> QED
      BY <1>4, <3>2 DEF FailStranded
  <2> QED
    BY <1>4, <2>1, <2>2 DEF FailStranded
<1>5. CASE SelectExpired
  <2>1. CASE Expirable = {}
    BY <1>5, <2>1, AtType DEF SelectExpired
  <2>2. CASE \E batch \in SUBSET Intents : sweep' = [At("batch") EXCEPT !.batch = batch]
    BY <1>5, <2>2, AtType DEF SelectExpired, Sweep
  <2>3. Expirable \subseteq Intents
    BY DEF Expirable, Sweep
  <2> QED
    BY <1>5, <2>1, <2>2, <2>3 DEF SelectExpired, kSubset
<1>6. CASE ExpireBatch
  <2>1. sweep' \in Sweep
    BY <1>6, AtType DEF ExpireBatch, Sweep
  <2>2. stored' \in [Intents -> Bytes] /\ intents' \in [Intents -> Intent]
    BY <1>6 DEF ExpireBatch, Bytes, Intent, IntentStatus
  <2> QED
    BY <1>6, <2>1, <2>2 DEF ExpireBatch
<1>7. CASE ListNamespace
  <2>1. Namespace(sweep.org) \subseteq Intents
    BY DEF Namespace, Of
  <2> QED
    BY <1>7, <2>1, AtType DEF ListNamespace, Sweep
<1>8. CASE DeleteListed
  <2>1. sweep' \in Sweep
    <3>1. CASE sweep' = At("closing")
      BY <3>1, AtType
    <3>2. ASSUME NEW i \in sweep.listed, sweep' = [sweep EXCEPT !.listed = @ \ {i}]
          PROVE  sweep' \in Sweep
      BY <3>2 DEF Sweep
    <3> QED
      BY <1>8, <3>1, <3>2 DEF DeleteListed
  <2>2. stored' \in [Intents -> Bytes]
    BY <1>8 DEF DeleteListed, Bytes, Sweep
  <2> QED
    BY <1>8, <2>1, <2>2 DEF DeleteListed
<1>9. CASE CloseOrganisation
  <2>1. sweep' \in Sweep
    <3>1. CASE sweep' = NoSweep
      BY <1>1, <3>1
    <3>2. CASE /\ sweep.org + 1 \in Orgs
               /\ sweep' = [At("settings") EXCEPT !.org = @ + 1, !.days = NoPolicy]
      <4>1. At("settings").org = sweep.org
        BY AtType DEF Sweep
      <4> QED
        BY <3>2, <4>1, AtType, Ranges DEF Sweep
    <3> QED
      BY <1>9, <3>1, <3>2 DEF CloseOrganisation
  <2>2. questions' \in [Questions -> Question]
    BY <1>9 DEF CloseOrganisation, Question
  <2> QED
    BY <1>9, <2>1, <2>2 DEF CloseOrganisation
<1> QED
  BY <1>2, <1>3, <1>4, <1>5, <1>6, <1>7, <1>8, <1>9 DEF SweepStep

LEMMA NextType ==
    ASSUME TypeOK, [Next]_vars
    PROVE  TypeOK'
<1>1. CASE \E o \in Orgs : UpdateSettings(o)
  BY <1>1, Ranges DEF TypeOK, UpdateSettings, uploadVars
<1>2. CASE AbortSweep
  <2>1. NoSweep \in Sweep
    BY Ranges DEF NoSweep, Sweep, Ageless
  <2> QED
    BY <1>2, <2>1 DEF TypeOK, AbortSweep, uploadVars
<1>3. CASE Tick
  <2> USE DEF TypeOK
  <2>1. /\ \A n \in 0..MaxLifetime : Less(n) \in 0..MaxLifetime
        /\ \A n \in 0..UrlLife : Less(n) \in 0..UrlLife
        /\ \A n \in 0..MetadataLife : Less(n) \in 0..MetadataLife
    BY Ranges DEF Less
  <2>2. intents' \in [Intents -> Intent]
    BY <1>3, <2>1 DEF Tick, Intent
  <2>3. url' \in [Intents -> 0..UrlLife]
    BY <1>3, <2>1 DEF Tick
  <2>4. questions' \in [Questions -> Question]
    BY <1>3, <2>1 DEF Tick, Question
  <2>5. age' \in [Items -> 0..MaxAge]
    BY <1>3, Ranges DEF Tick
  <2> QED
    BY <1>3, <2>2, <2>3, <2>4, <2>5 DEF Tick
<1>4. CASE Calm \/ UNCHANGED vars
  BY <1>4 DEF TypeOK, Calm, vars, uploadVars
<1> QED
  BY <1>1, <1>2, <1>3, <1>4, UploadType, QuestionType, SweepType DEF Next

\* Every variable keeps its type.
THEOREM TypeCorrect == Spec => []TypeOK
  BY InitType, NextType, PTL DEF Spec

-----------------------------------------------------------------------------
(* Expired intents.                                                        *)

\* A request or a sweep that read the row earlier writes "ready" only over "pending".
LEMMA ExpiredStep ==
    ASSUME TypeOK, [Next]_vars, NEW i \in Intents, intents[i].status = "expired"
    PROVE  intents'[i].status = "expired"
<1> USE DEF TypeOK
<1>1. CASE \E j \in Intents :
              \/ ReadPolicy(j) \/ CreateIntent(j) \/ Upload(j)
              \/ LoadIntent(j) \/ Verify(j) \/ Stamp(j) \/ Complete(j)
  BY <1>1 DEF ReadPolicy, CreateIntent, Upload, LoadIntent, Verify, Stamp, Complete,
     StillPending, Intent
<1>2. CASE \E q \in Questions : Ask(q) \/ Start(q) \/ ReadSource(q) \/ Answer(q)
  BY <1>2 DEF Ask, Start, ReadSource, Answer, Asks, uploadVars
<1>3. CASE SweepStep
  <2>1. CASE ExpireBatch
    BY <2>1 DEF ExpireBatch, Intent
  <2> QED
    BY <1>3, <2>1 DEF SweepStep, StartSweep, SelectStranded, FailStranded, SelectExpired,
       ListNamespace, DeleteListed, CloseOrganisation
<1>4. CASE Tick
  BY <1>4 DEF Tick, Intent
<1>5. CASE AbortSweep \/ Calm \/ (\E o \in Orgs : UpdateSettings(o)) \/ UNCHANGED vars
  BY <1>5 DEF AbortSweep, Calm, UpdateSettings, vars, uploadVars
<1> QED
  BY <1>1, <1>2, <1>3, <1>4, <1>5 DEF Next

\* The sweep locks nothing and completions check before they lock; even so, an upload
\* that a sweep expired is never promoted again.
THEOREM ExpiredCorrect == Spec => ExpiredStaysExpired
<1>1. TypeOK /\ [Next]_vars
      => [\A i \in Intents : intents[i].status = "expired"
                             => intents'[i].status = "expired"]_vars
  BY ExpiredStep
<1> QED
  BY <1>1, TypeCorrect, PTL DEF Spec, ExpiredStaysExpired

-----------------------------------------------------------------------------
(* Live uploads.                                                           *)

\* Before its row nothing exists of an upload; and its age, now and when the sweep began,
\* has been taken from the lifetime its policy granted.
LifeInv ==
    \A i \in Intents :
      /\ intents[i].status = "none" =>
           /\ stored[i] = "none" /\ intents[i].left = 0 /\ url[i] = 0
           /\ age[i] = 0 /\ sweep.ages[i] = 0
      /\ intents[i].left > 0 =>
           /\ age[i] + intents[i].left <= BoundedExpiry(intents[i].basis)
           /\ sweep.ages[i] + intents[i].left <= BoundedExpiry(intents[i].basis)

\* What a sweep remembers is still so: what was due has no lifetime left, and what it
\* lists was older than the policy it read when it began.
SweepInv ==
    /\ \A i \in sweep.due : intents[i].status # "none" /\ intents[i].left = 0
    /\ sweep.batch \subseteq sweep.due
    /\ sweep.step \in {"listing", "deleting"} => sweep.days # NoPolicy
    /\ sweep.listed # {} => sweep.step = "deleting"
    /\ \A i \in sweep.listed : sweep.ages[i] > sweep.days

LiveInv == LifeInv /\ SweepInv
LEMMA InitLive == Init => LiveInv
<1> SUFFICES ASSUME Init PROVE LiveInv
  OBVIOUS
<1>1. \A i \in Intents : i \in Items
  BY DEF Items
<1> QED
  BY <1>1 DEF Init, LiveInv, LifeInv, SweepInv, NoSweep, Ageless

\* Ages, lifetimes and what they are compared with are numbers.
LEMMA Numbers ==
    ASSUME TypeOK, NEW i \in Intents
    PROVE  /\ age[i] \in Nat /\ sweep.ages[i] \in Nat /\ intents[i].left \in Nat
           /\ url[i] \in Nat /\ intents[i].basis \in Policies
           /\ BoundedExpiry(intents[i].basis) \in Nat
<1>1. i \in Items /\ sweep.ages \in [Items -> 0..MaxAge]
  BY DEF Items, TypeOK, Sweep
<1>2. intents[i].basis \in Policies
  BY DEF TypeOK, Intent
<1>3. BoundedExpiry(intents[i].basis) \in Nat
  BY <1>2, Granted, Ranges
<1> QED
  BY <1>1, <1>2, <1>3, Ranges DEF TypeOK, Intent

LEMMA UploadLive ==
    ASSUME TypeOK, LiveInv, NEW i \in Intents,
           \/ ReadPolicy(i) \/ CreateIntent(i) \/ Upload(i)
           \/ LoadIntent(i) \/ Verify(i) \/ Stamp(i) \/ Complete(i)
    PROVE  LiveInv'
<1> USE DEF TypeOK, LiveInv
<1>1. CASE ReadPolicy(i)
  <2>1. settings[OrgOf[i]].days \in Policies
    BY OwnersAssumption
  <2>2. LifeInv'
    BY <1>1, <2>1, Granted, Ranges DEF ReadPolicy, LifeInv, Intent
  <2>3. SweepInv'
    BY <1>1 DEF ReadPolicy, SweepInv, Intent
  <2> QED
    BY <2>2, <2>3
<1>2. CASE CreateIntent(i)
  <2>1. /\ intents' = [intents EXCEPT ![i].status = "pending"]
        /\ UNCHANGED <<stored, age, sweep>>
        /\ \A j \in Intents \ {i} : url'[j] = url[j]
    BY <1>2 DEF CreateIntent
  <2> QED
    BY <2>1 DEF LifeInv, SweepInv, Intent
<1>3. CASE Upload(i)
  <2>1. /\ UNCHANGED <<intents, url, sweep>> /\ url[i] > 0
        /\ age' = [age EXCEPT ![i] = 0]
        /\ \A j \in Intents \ {i} : stored'[j] = stored[j]
    BY <1>3 DEF Upload
  <2>2. intents[i].status # "none"
    BY <2>1 DEF LifeInv
  <2>3. LifeInv'
    BY <2>1, <2>2, Numbers DEF LifeInv, Items
  <2> QED
    BY <2>1, <2>3 DEF SweepInv
<1>4. CASE LoadIntent(i) \/ Verify(i) \/ Stamp(i)
  BY <1>4 DEF LoadIntent, Verify, Stamp, Completes, LifeInv, SweepInv
<1>5. CASE Complete(i)
  <2>1. /\ \/ intents' = intents
           \/ /\ intents' = [intents EXCEPT ![i].status = "ready"]
              /\ intents[i].status = "pending"
        /\ UNCHANGED <<stored, url, age, sweep>>
    BY <1>5 DEF Complete, Completes, StillPending
  <2>2. \A j \in Intents :
           /\ intents'[j].left = intents[j].left /\ intents'[j].basis = intents[j].basis
           /\ (intents'[j].status = "none") = (intents[j].status = "none")
    BY <2>1 DEF Intent
  <2>3. sweep.due \subseteq Intents
    BY DEF Sweep
  <2> QED
    BY <2>1, <2>2, <2>3 DEF LifeInv, SweepInv
<1> QED
  BY <1>1, <1>2, <1>3, <1>4, <1>5

LEMMA SweepLive ==
    ASSUME TypeOK, LiveInv, SweepStep \/ AbortSweep
    PROVE  LiveInv'
<1> USE DEF LiveInv, Sweeps
<1>0. sweep \in Sweep
  BY DEF TypeOK
<1>1. ASSUME UNCHANGED <<intents, stored, url, age>>, sweep'.ages = sweep.ages
      PROVE  LifeInv'
  BY <1>1 DEF LifeInv
<1>2. CASE StartSweep
  <2>1. /\ UNCHANGED <<intents, stored, url, age>> /\ sweep'.ages = age
        /\ sweep'.due = {i \in Intents : intents[i].left = 0 /\ intents[i].status # "none"}
        /\ sweep'.batch = {} /\ sweep'.listed = {} /\ sweep'.step = "settings"
    BY <1>2 DEF StartSweep, NoSweep
  <2> QED
    BY <2>1 DEF LifeInv, SweepInv
<1>3. CASE SelectStranded
  <2>1. /\ UNCHANGED <<intents, stored, url, age>> /\ sweep.step = "settings"
        /\ sweep'.ages = sweep.ages /\ sweep'.due = sweep.due /\ sweep'.batch = sweep.batch
        /\ sweep'.listed = sweep.listed /\ sweep'.step = "reconciling"
    BY <1>0, <1>3, AtType DEF SelectStranded, Sweep
  <2> QED
    BY <1>1, <2>1 DEF SweepInv
<1>4. CASE FailStranded
  <2>1. /\ UNCHANGED <<intents, stored, url, age>> /\ sweep.step = "reconciling"
        /\ sweep'.ages = sweep.ages /\ sweep'.due = sweep.due /\ sweep'.batch = sweep.batch
        /\ sweep'.listed = sweep.listed /\ sweep'.step = "expiring"
    <3>1. /\ UNCHANGED <<intents, stored, url, age>> /\ sweep.step = "reconciling"
          /\ sweep' = [At("expiring") EXCEPT !.rows = {}]
      BY <1>4 DEF FailStranded
    <3> QED
      BY <1>0, <3>1 DEF Sweep, At
  <2> QED
    BY <1>1, <2>1 DEF SweepInv
<1>5. CASE SelectExpired
  <2>1. /\ UNCHANGED <<intents, stored, url, age>> /\ sweep.step = "expiring"
        /\ sweep'.ages = sweep.ages /\ sweep'.due = sweep.due
        /\ sweep'.listed = sweep.listed /\ sweep'.days = sweep.days
        /\ sweep'.step \in {"closing", "listing", "batch"}
        /\ sweep'.step = "listing" => sweep.days # NoPolicy
        /\ sweep'.batch \subseteq sweep.due
    <3>1. CASE Expirable = {}
      BY <1>0, <1>5, <3>1, AtType DEF SelectExpired, Sweep, SweepInv
    <3>2. CASE Expirable # {}
      <4>1. PICK batch \in SUBSET Expirable :
               Sweeps("expiring", [At("batch") EXCEPT !.batch = batch])
        BY <1>5, <3>2 DEF SelectExpired, kSubset
      <4>2. batch \subseteq sweep.due
        BY DEF Expirable
      <4>3. UNCHANGED <<intents, stored, url, age>> /\ sweep.step = "expiring"
        BY <1>5, <4>1 DEF SelectExpired
      <4> QED
        BY <1>0, <4>1, <4>2, <4>3 DEF Sweep, At
    <3> QED
      BY <3>1, <3>2
  <2> QED
    BY <1>1, <2>1 DEF SweepInv
<1>6. CASE ExpireBatch
  <2>1. /\ UNCHANGED <<url, age>> /\ sweep.step = "batch"
        /\ sweep'.ages = sweep.ages /\ sweep'.due = sweep.due /\ sweep'.batch = {}
        /\ sweep'.listed = sweep.listed /\ sweep'.step = "expiring"
    BY <1>0, <1>6, AtType DEF ExpireBatch, Sweep
  <2>2. \A i \in Intents :
           /\ intents'[i].left = intents[i].left /\ intents'[i].basis = intents[i].basis
           /\ intents[i].status # "none" => intents'[i].status # "none"
           /\ intents[i].status = "none" => intents'[i] = intents[i]
           /\ stored'[i] = stored[i] \/ stored'[i] = "none"
    <3>1. \A i \in sweep.batch : intents[i].status # "none"
      BY DEF SweepInv
    <3> QED
      BY <1>6, <3>1 DEF ExpireBatch, Intent, TypeOK
  <2>3. sweep.due \subseteq Intents
    BY <1>0 DEF Sweep
  <2>4. LifeInv'
    BY <2>1, <2>2 DEF LifeInv
  <2> QED
    BY <2>1, <2>2, <2>3, <2>4 DEF SweepInv
<1>7. CASE ListNamespace
  <2>1. /\ UNCHANGED <<intents, stored, url, age>> /\ sweep.step = "listing"
        /\ sweep'.ages = sweep.ages /\ sweep'.due = sweep.due /\ sweep'.batch = sweep.batch
        /\ sweep'.listed = {i \in Namespace(sweep.org) : OlderThan(sweep.days, i)}
        /\ sweep'.days = sweep.days /\ sweep'.step = "deleting"
    BY <1>0, <1>7, AtType DEF ListNamespace, Sweep
  <2> QED
    BY <1>1, <2>1 DEF SweepInv, OlderThan
<1>8. CASE DeleteListed
  <2>1. /\ UNCHANGED <<intents, url, age>> /\ sweep.step = "deleting"
        /\ sweep'.ages = sweep.ages /\ sweep'.due = sweep.due /\ sweep'.batch = sweep.batch
        /\ sweep'.listed \subseteq sweep.listed
        /\ sweep'.days = sweep.days
        /\ sweep'.step = "deleting" \/ (sweep'.step = "closing" /\ sweep'.listed = {})
    <3>1. CASE sweep.listed = {}
      BY <1>0, <1>8, <3>1, AtType DEF DeleteListed, Sweep
    <3>2. CASE sweep.listed # {}
      <4>1. /\ UNCHANGED <<intents, url, age>> /\ sweep.step = "deleting"
        BY <1>8, <3>2 DEF DeleteListed
      <4>2. PICK i \in sweep.listed : sweep' = [sweep EXCEPT !.listed = @ \ {i}]
        BY <1>8, <3>2 DEF DeleteListed
      <4> QED
        BY <1>0, <4>1, <4>2 DEF Sweep
    <3> QED
      BY <3>1, <3>2
  <2>2. \A i \in Intents : stored'[i] = stored[i] \/ stored'[i] = "none"
    BY <1>8 DEF DeleteListed, TypeOK
  <2>3. LifeInv'
    BY <2>1, <2>2 DEF LifeInv
  <2> QED
    BY <2>1, <2>3 DEF SweepInv
<1>9. ASSUME sweep' = NoSweep, UNCHANGED <<intents, stored, url, age>>
      PROVE  LiveInv'
  <2>1. \A i \in Intents : NoSweep.ages[i] = 0
    BY DEF NoSweep, Ageless, Items
  <2>2. LifeInv'
    BY <1>9, <2>1, Numbers DEF LifeInv
  <2> QED
    BY <1>9, <2>2 DEF SweepInv, NoSweep
<1>10. CASE CloseOrganisation
  <2>1. CASE sweep' = NoSweep
    BY <1>9, <1>10, <2>1 DEF CloseOrganisation
  <2>2. CASE sweep' = [At("settings") EXCEPT !.org = @ + 1, !.days = NoPolicy]
    <3>1. /\ UNCHANGED <<intents, stored, url, age>> /\ sweep.step = "closing"
          /\ sweep'.ages = sweep.ages /\ sweep'.due = sweep.due /\ sweep'.batch = sweep.batch
          /\ sweep'.listed = sweep.listed /\ sweep'.step = "settings"
      <4>1. UNCHANGED <<intents, stored, url, age>> /\ sweep.step = "closing"
        BY <1>10 DEF CloseOrganisation
      <4> QED
        BY <1>0, <2>2, <4>1 DEF Sweep, At
    <3> QED
      BY <1>1, <3>1 DEF SweepInv
  <2> QED
    BY <1>10, <2>1, <2>2 DEF CloseOrganisation
<1>11. CASE AbortSweep
  BY <1>9, <1>11 DEF AbortSweep, uploadVars
<1> QED
  BY <1>2, <1>3, <1>4, <1>5, <1>6, <1>7, <1>8, <1>10, <1>11 DEF SweepStep

\* A tick takes from the lifetime at least what it adds to the age.
LEMMA TickLive ==
    ASSUME TypeOK, LiveInv, Tick
    PROVE  LiveInv'
<1> USE DEF LiveInv
<1>1. /\ sweep' = sweep /\ stored' = stored
      /\ \A i \in Intents :
            /\ intents'[i] = [intents[i] EXCEPT !.left = Less(@)]
            /\ url'[i] = Less(url[i])
            /\ age'[i] = IF Ageing(i) /\ age[i] < MaxAge THEN age[i] + 1 ELSE age[i]
  BY DEF Tick, Items
<1>2. ASSUME NEW i \in Intents
      PROVE  /\ intents'[i].status = intents[i].status
             /\ intents'[i].basis = intents[i].basis
             /\ intents'[i].left = Less(intents[i].left)
  BY <1>1, <1>2, ZenonT(60) DEF TypeOK, Intent
<1>3. LifeInv'
  <2> SUFFICES ASSUME NEW i \in Intents
               PROVE  /\ intents[i].status = "none" =>
                           /\ stored[i] = "none" /\ Less(intents[i].left) = 0
                           /\ Less(url[i]) = 0 /\ age'[i] = 0 /\ sweep.ages[i] = 0
                      /\ Less(intents[i].left) > 0 =>
                           /\ age'[i] + Less(intents[i].left)
                                <= BoundedExpiry(intents[i].basis)
                           /\ sweep.ages[i] + Less(intents[i].left)
                                <= BoundedExpiry(intents[i].basis)
    BY <1>1, <1>2, ZenonT(60) DEF LifeInv
  <2>1. stored[i] = "none" => age'[i] = age[i]
    BY <1>1 DEF Ageing
  <2>2. age'[i] \in {age[i], age[i] + 1}
    BY <1>1
  <2> QED
    BY <2>1, <2>2, Numbers DEF LifeInv, Less
<1>4. SweepInv'
  <2>1. sweep.due \subseteq Intents
    BY DEF TypeOK, Sweep
  <2> QED
    BY <1>1, <1>2, <2>1 DEF SweepInv, Less
<1> QED
  BY <1>3, <1>4

LEMMA NextLive ==
    ASSUME TypeOK, LiveInv, [Next]_vars
    PROVE  LiveInv'
<1>1. CASE \E q \in Questions : Ask(q) \/ Start(q) \/ ReadSource(q) \/ Answer(q)
  <2>1. /\ UNCHANGED <<uploadVars, sweep>>
        /\ \A i \in Intents : age'[i] = age[i]
    BY <1>1, OwnersAssumption DEF Ask, Start, ReadSource, Answer, Asks, TypeOK, Items
  <2> QED
    BY <2>1 DEF uploadVars, LiveInv, LifeInv, SweepInv
<1>2. CASE Calm \/ (\E o \in Orgs : UpdateSettings(o)) \/ UNCHANGED vars
  BY <1>2 DEF Calm, UpdateSettings, vars, uploadVars, LiveInv, LifeInv, SweepInv
<1> QED
  BY <1>1, <1>2, UploadLive, SweepLive, TickLive DEF Next

LEMMA LiveCorrect == Spec => [](TypeOK /\ LiveInv)
<1>1. Init => TypeOK /\ LiveInv
  BY InitType, InitLive
<1>2. TypeOK /\ LiveInv /\ [Next]_vars => (TypeOK /\ LiveInv)'
  BY NextType, NextLive
<1> QED
  BY <1>1, <1>2, PTL DEF Spec

\* Who deletes an object: a batch, whose uploads have no lifetime left, or the listing,
\* whose objects were older than the sweep's policy.
LEMMA LiveStep ==
    ASSUME TypeOK, LiveInv, [Next]_vars, NEW i \in Intents,
           stored[i] # "none", stored'[i] = "none", intents[i].left > 0
    PROVE  /\ sweep.days # NoPolicy
           /\ intents[i].basis = NoPolicy \/ sweep.days < intents[i].basis
<1> USE DEF TypeOK
<1>1. CASE ExpireBatch
  <2>1. i \in sweep.batch
    BY <1>1 DEF ExpireBatch
  <2> QED
    BY <2>1 DEF LiveInv, SweepInv
<1>2. CASE DeleteListed
  <2>1. i \in sweep.listed /\ sweep.step = "deleting"
    BY <1>2 DEF DeleteListed, Sweeps
  <2>2. /\ sweep.days # NoPolicy /\ sweep.ages[i] > sweep.days
        /\ sweep.ages[i] + intents[i].left <= BoundedExpiry(intents[i].basis)
    BY <2>1 DEF LiveInv, LifeInv, SweepInv
  <2>3. sweep.days \in Nat
    BY <2>2, Granted DEF Sweep
  <2> QED
    BY <2>2, <2>3, Numbers, Granted
<1>3. CASE \E j \in Intents :
              \/ ReadPolicy(j) \/ CreateIntent(j) \/ Upload(j)
              \/ LoadIntent(j) \/ Verify(j) \/ Stamp(j) \/ Complete(j)
  BY <1>3 DEF ReadPolicy, CreateIntent, Upload, LoadIntent, Verify, Stamp, Complete, Completes
<1>4. stored' # stored
  OBVIOUS
<1> QED
  BY <1>1, <1>2, <1>3, <1>4 DEF Next, SweepStep, StartSweep, SelectStranded, FailStranded,
     SelectExpired, ListNamespace, CloseOrganisation, AbortSweep, Tick, Calm,
     UpdateSettings, Ask, Start, ReadSource, Answer, Asks, uploadVars, vars

\* Whatever administrators make of the policies meanwhile, the sweep takes the object of
\* a live upload only under a policy shorter than the one, if any, that the upload was
\* started under.
THEOREM SparesCorrect == Spec => SweepSparesLiveUploads
<1>1. TypeOK /\ LiveInv /\ [Next]_vars
      => [\A i \in Intents :
             /\ stored[i] # "none" /\ stored'[i] = "none" /\ intents[i].left > 0
             => /\ sweep.days # NoPolicy
                /\ intents[i].basis = NoPolicy \/ sweep.days < intents[i].basis]_vars
  BY LiveStep
<1> QED
  BY <1>1, LiveCorrect, PTL DEF Spec, SweepSparesLiveUploads

-----------------------------------------------------------------------------
(* AITransfers.  What a provider is called with was decided earlier, by    *)
(* the router, and may have been staged by another process: the invariant  *)
(* carries the decision (Chosen) along the phases of a handler, and the    *)
(* provider of a copy along the rows and the stores' records.              *)
(* First, that a source's size is a number, which is a sum over data: the  *)
(* least length for which there is no table of partial sums is refuted.    *)

LEMMA HasLeast ==
    ASSUME NEW T \in SUBSET Nat, T # {}
    PROVE  \E n \in T : \A k \in T : n <= k
<1>. DEFINE R == OpToRel(<, Nat)
<1>1. IsWellFoundedOn(R, Nat)
  BY NatLessThanWellFounded, Zenon
<1>2. \A x, y \in Nat : x < y => <<x, y>> \in R
  BY Zenon DEF OpToRel
<1>. HIDE DEF R
<1>3. PICK n \in T : \A k \in T : <<k, n>> \notin R
  BY <1>1, WFMin
<1>4. n \in Nat /\ \A k \in T : k \in Nat /\ ~(k < n)
  BY <1>2, <1>3
<1>. QED  BY <1>3, <1>4

LEMMA SumsExist ==
    ASSUME NEW s \in Seq(Nat), NEW n \in Nat, n <= Len(s)
    PROVE  \E f \in [0..n -> Nat] : 
              \A i \in 0..n : f[i] = IF i = 0 THEN 0 ELSE f[i - 1] + s[i]
<1>. DEFINE IsSum(f, k) == \A i \in 0..k : f[i] = IF i = 0 THEN 0 ELSE f[i - 1] + s[i]
            Missing == {k \in 0..n : ~ \E f \in [0..k -> Nat] : IsSum(f, k)}
<1>1. Len(s) \in Nat /\ \A i \in 1..n : s[i] \in Nat
  OBVIOUS
<1>2. SUFFICES ASSUME n \in Missing PROVE FALSE
  <2>1. n \in 0..n
    OBVIOUS
  <2>. QED  BY <2>1, Zenon
<1>3. PICK k \in Missing : \A j \in Missing : k <= j
  <2>1. Missing \in SUBSET Nat
    OBVIOUS
  <2>. QED  BY <1>2, <2>1, HasLeast
<1>4. k \in 0..n /\ ~ \E f \in [0..k -> Nat] : IsSum(f, k)
  OBVIOUS
<1>5. k # 0
  <2>1. IsSum([i \in 0..0 |-> 0], 0) /\ [i \in 0..0 |-> 0] \in [0..0 -> Nat]
    OBVIOUS
  <2>. QED  BY <2>1, <1>4
<1>6. PICK f \in [0..(k - 1) -> Nat] : IsSum(f, k - 1)
  <2>1. k - 1 \in 0..n
    BY <1>4, <1>5
  <2>2. k - 1 \notin Missing
    <3>. HIDE DEF Missing
    <3>. QED  BY <1>3, <1>4
  <2>. QED  BY <2>1, <2>2
<1>. DEFINE g == [i \in 0..k |-> IF i = k THEN f[k - 1] + s[k] ELSE f[i]]
<1>. HIDE DEF Missing
<1>7. g \in [0..k -> Nat]
  BY <1>1, <1>4, <1>5
<1>8. ASSUME NEW i \in 0..k
      PROVE  g[i] = IF i = 0 THEN 0 ELSE g[i - 1] + s[i]
  <2>1. CASE i = k
    BY <1>4, <1>5, <2>1
  <2>2. CASE i # k
    <3>1. i \in 0..(k - 1) /\ (i # 0 => i - 1 \in 0..(k - 1) /\ i - 1 \in 0..k /\ i - 1 # k)
      BY <1>4, <1>5, <2>2
    <3>2. f[i] = IF i = 0 THEN 0 ELSE f[i - 1] + s[i]
      BY <3>1, <1>6
    <3>3. g[i] = f[i] /\ (i # 0 => g[i - 1] = f[i - 1])
      BY <3>1, <2>2
    <3>. QED  BY <3>2, <3>3
  <2>. QED  BY <2>1, <2>2
<1>. QED  BY <1>4, <1>7, <1>8

LEMMA Summed ==
    ASSUME NEW src, SourceIsGiven(src)
    PROVE  Aggregate(src) \in Nat
<1>. DEFINE s == src.sizes
            n == Len(s)
            sum == CHOOSE f : f = [i \in 0..n |-> IF i = 0 THEN 0 ELSE f[i - 1] + s[i]]
<1>1. s \in Seq(Nat) /\ n \in Nat
  BY DEF SourceIsGiven, Source
<1>2. PICK f \in [0..n -> Nat] : \A i \in 0..n : f[i] = IF i = 0 THEN 0 ELSE f[i - 1] + s[i]
  <2>1. n <= Len(s)
    BY <1>1
  <2>. HIDE DEF s, n
  <2>. QED  BY <1>1, <2>1, SumsExist
<1>3. f = [i \in 0..n |-> IF i = 0 THEN 0 ELSE f[i - 1] + s[i]]
  BY <1>2
<1>4. sum = [i \in 0..n |-> IF i = 0 THEN 0 ELSE sum[i - 1] + s[i]]
  BY <1>3
<1>5. Aggregate(src) = sum[n]
  BY DEF Aggregate
<1>. QED OBVIOUS
-----------------------------------------------------------------------------
(* What the selectors and the router promise.                              *)

LEMMA ModelTypes ==
    ASSUME NEW m \in Models
    PROVE  ModelOf[m].order \in Nat /\ ProviderOf(m) \in Providers
<1>. DEFINE fields == {"provider", "order", "eligible", "documents", "vision",
                       "perFile", "total", "mimes", "modes", "limits"}
            plain == [f \in fields \ {"limits"} |-> ModelOf[m][f]]
<1>1. plain \in ModelDefinition
  BY RoutingAssumption
<1>2. plain.order \in Nat /\ plain.provider \in Providers
  <2>. HIDE DEF plain
  <2>. QED  BY <1>1 DEF ModelDefinition
<1>3. plain["order"] = ModelOf[m]["order"] /\ plain["provider"] = ModelOf[m]["provider"]
  OBVIOUS
<1>. QED  BY <1>2, <1>3 DEF ProviderOf

LEMMA ContractTypes ==
    ASSUME NEW p \in Providers
    PROVE  DOMAIN Contract[p] # {} =>
             /\ Inline \in DOMAIN Contract[p]
             /\ Contract[p][Inline].lifecycles = Lifecycles
             /\ Contract[p][Inline].max = InlineMax
<1>. QED  BY RoutingAssumption DEF ContractsAgree, ContractIsReviewed, Reviewed, Inline

LEMMA Thresholds ==
    Threshold \in Nat /\ InlineMax \in Nat /\ Threshold <= InlineMax
  BY RoutingAssumption DEF DeploymentIsValid, Threshold

LEMMA SelectorRules ==
    ASSUME NEW src, SourceIsGiven(src), NEW allowed, NEW p \in Providers,
           NEW mode, mode = SelectTransferMode(src, allowed, Contract[p]), mode # NoMode
    PROVE  /\ mode \in allowed /\ mode \in DOMAIN Contract[p] /\ mode \in Modes
           /\ mode = Inline => Aggregate(src) <= Threshold
           /\ Inline \in allowed /\ Aggregate(src) <= Threshold => mode = Inline
<1>1. Aggregate(src) \in Nat
  BY Summed
<1>2. LifecycleOf(src) \in Lifecycles
  BY DEF LifecycleOf, Lifecycles
<1>3. mode \in allowed /\ mode \in DOMAIN Contract[p] /\ mode \in Modes
      /\ (mode = Inline => Aggregate(src) <= Threshold)
  BY DEF SelectTransferMode, Modes, Inline, NoMode
<1>4. ASSUME Inline \in allowed, Aggregate(src) <= Threshold
      PROVE  mode = Inline
  <2>1. /\ Inline \in DOMAIN Contract[p]
        /\ LifecycleOf(src) \in Contract[p][Inline].lifecycles
        /\ Aggregate(src) <= Contract[p][Inline].max
    BY <1>1, <1>2, <1>3, <1>4, ContractTypes, Thresholds
  <2>. QED  BY <1>4, <2>1 DEF SelectTransferMode
<1>. QED  BY <1>3, <1>4

LEMMA ModeRules ==
    ASSUME NEW m \in Models, NEW pol, NEW src, SourceIsGiven(src),
           NEW mode, mode = ModeForPolicy(m, pol, src), mode # NoMode
    PROVE  /\ mode \in pol.modes \cap Task.modes \cap ModelOf[m].modes \cap Modes
           /\ mode \in DOMAIN Contract[ProviderOf(m)]
           /\ mode = Inline <=> Aggregate(src) <= Threshold
           /\ mode # Inline => Aggregate(src) <= pol.max /\ Aggregate(src) <= Deployment.max
<1>. DEFINE allowed == AllowedModes(m, pol, src)
            small == Aggregate(src) <= Threshold
            fitting == {x \in allowed \ {Inline} : Within(ModelOf[m].limits[x], src)}
            p == ProviderOf(m)
<1>1. p \in Providers
  BY ModelTypes
<1>2. \/ small /\ Inline \in allowed /\ mode = SelectTransferMode(src, allowed, Contract[p])
      \/ ~small /\ mode = SelectTransferMode(src, fitting, Contract[p])
  BY DEF ModeForPolicy
<1>3. \A x \in allowed :
        /\ x \in pol.modes \cap Task.modes \cap ModelOf[m].modes
        /\ x # Inline => Aggregate(src) <= pol.max /\ Aggregate(src) <= Deployment.max
  BY DEF AllowedModes
<1>. HIDE DEF allowed, p
<1>4. CASE small /\ Inline \in allowed /\ mode = SelectTransferMode(src, allowed, Contract[p])
  BY <1>1, <1>3, <1>4, SelectorRules DEF p
<1>5. CASE ~small /\ mode = SelectTransferMode(src, fitting, Contract[p])
  <2>1. mode \in fitting /\ mode \in DOMAIN Contract[p] /\ mode \in Modes
    BY <1>1, <1>5, SelectorRules
  <2>. QED  BY <1>3, <1>5, <2>1 DEF p
<1>. QED  BY <1>2, <1>4, <1>5

LEMMA RouteRules ==
    ASSUME NEW pol, NEW src, NEW excluded, NEW m, m = Route(pol, src, excluded), m # NoModel
    PROVE  /\ m \in Carriers(pol, src) \ excluded
           /\ ProviderOf(m) \in AllowedProviders(pol) /\ m \in AllowedModels(pol)
           /\ FallbackAllows(m, excluded)
<1>. DEFINE candidates == {x \in Carriers(pol, src) \ excluded :
                             /\ ProviderOf(x) \in AllowedProviders(pol)
                             /\ x \in AllowedModels(pol)
                             /\ FallbackAllows(x, excluded)}
            places == {ModelOf[x].order : x \in candidates}
<1>1. candidates # {} /\ m = CHOOSE x \in candidates :
                               \A y \in candidates : ModelOf[x].order <= ModelOf[y].order
  BY DEF Route
<1>2. \A x \in candidates : x \in Models /\ ModelOf[x].order \in Nat
  BY ModelTypes DEF Carriers
<1>. HIDE DEF candidates
<1>3. PICK n \in places : \A k \in places : n <= k
  <2>1. places \in SUBSET Nat /\ places # {}
    BY <1>1, <1>2
  <2>. HIDE DEF places
  <2>. QED  BY <2>1, HasLeast
<1>4. \E x \in candidates : \A y \in candidates : ModelOf[x].order <= ModelOf[y].order
  BY <1>3
<1>5. m \in candidates
  BY <1>1, <1>4
<1>. QED  BY <1>5 DEF candidates

-----------------------------------------------------------------------------
(* The inductive invariant.                                                *)

\* A model has been chosen; the copy is the handler's to dispatch; an outcome
\* is known.
Staged == {"finding", "staging", "persisting", "minting", "reserving", "calling"}
Copying == {"persisting", "minting", "reserving", "calling"}
Ended == {"finalizing", "cleaning", "settling", "clearing", "closing"}

\* What the choice of the model and the mode was checked for.
Chosen(x, pol, src) ==
    LET mode == ModeForPolicy(x.model, pol, src) IN
    /\ x.model \in Models
    /\ ProviderOf(x.model) \in AllowedProviders(pol)
    /\ x.model \in AllowedModels(pol)
    /\ SameRegion(x.model, x.excluded)
    /\ mode # NoMode
    /\ mode # Inline => Large(src)

HoldsItsCopy(x, pol, src) ==
    ModeForPolicy(x.model, pol, src) \in CopyModes => x.copy.provider = ProviderOf(x.model)

\* The pinned models an execution has excluded are of one region.
PinnedOnce(x) ==
    \A e \in x.excluded : \A f \in x.excluded :
        \/ Unpinned \in {RegionOf[ProviderOf(e)], RegionOf[ProviderOf(f)]}
        \/ RegionOf[ProviderOf(e)] = RegionOf[ProviderOf(f)]

\* "begun": the request's first row is no longer queued.
Progress(x, begun) ==
    /\ x.seen # "queued" => begun
    /\ x.dispatches > 0 => x.seen # "queued"
    /\ x.phase = "claimed" => x.dispatches = 0 /\ x.outcome = "none"
    /\ x.phase = "calling" => x.dispatches > 0
    /\ x.phase \in Ended => x.outcome # "none"
    /\ x.outcome \in {"succeeded", "replay"} => x.seen # "queued"
    /\ x.outcome = "replay" => x.dispatches = 0

Sound(x, pol, src, begun) ==
    /\ x.phase \in Staged => Chosen(x, pol, src)
    /\ x.phase \in Copying => HoldsItsCopy(x, pol, src)
    /\ PinnedOnce(x)
    /\ Progress(x, begun)

Begun == request[1] # "queued"

JobInv ==
    /\ request \in Seq(RequestStatus) /\ request # << >>
    /\ \A i \in DOMAIN request : i > 1 => request[i] # "queued"
    /\ question \in {"held", "expired", "none"}
    /\ question = "none" => Begun
    /\ job \in [status : RequestStatus, starts : 0..MaxStarts, owner : 0..MaxStarts]
    /\ job.owner = job.starts

RowInv ==
    /\ rows \in Seq(Reference)
    /\ \A i \in DOMAIN rows :
         rows[i].mode \in CopyModes => rows[i].copy.provider = rows[i].provider

CopyInv ==
    /\ hosted \subseteq Copy /\ lapsed \subseteq Copy
    /\ uploads \in 0..MaxUploads
    /\ cache \in [Handlers -> [Providers -> CacheRecord]]
    /\ \A h \in Handlers : \A p \in Providers :
         cache[h][p].status = "live" => cache[h][p].copy.provider = p

HandlerInv ==
    /\ scenario \in DOMAIN Scenarios
    /\ handlers \in [Handlers -> Handler]
    /\ \A h \in Handlers : Sound(handlers[h], policy, source, Begun)

CleanInv == cleanup \in [Cleaners -> Cleanup]

\* A handler deletes only between the two phases it does so in.
Cleaning ==
    \A h \in Handlers : cleanup[h].step # "off" => handlers[h].phase = "cleaning"

CopiesInv == JobInv /\ RowInv /\ CopyInv /\ HandlerInv /\ CleanInv

-----------------------------------------------------------------------------
(* The scenario never changes.                                             *)

LEMMA GivenTypes ==
    ASSUME scenario \in DOMAIN Scenarios
    PROVE  /\ SourceIsGiven(source)
           /\ given.used \in 0..MaxStarts /\ given.uploads \in 0..MaxUploads
           /\ MaxStarts \in Nat /\ MaxUploads \in Nat
  BY ActorsAssumption DEF given, source, Range

LEMMA ParameterTypes ==
    /\ NoCopy \in Copy /\ NoClaim \in Claim /\ NoCleanup \in Cleanup /\ Idle \in Handler
    /\ EmptyCache \in [Providers -> CacheRecord]
<1>1. NoCopy \in Copy
  BY ActorsAssumption DEF NoCopy, Copy
<1>2. NoClaim \in Claim
  BY <1>1 DEF NoClaim, Claim
<1>3. NoCleanup \in Cleanup
  BY <1>2 DEF NoCleanup, Cleanup
<1>4. Idle \in Handler
  BY <1>1 DEF Idle, Handler, Phase, RequestStatus, NoOrchestrator
<1>. QED  BY <1>1, <1>2, <1>3, <1>4 DEF EmptyCache, CacheRecord

LEMMA CopiesInit == TransfersInit => CopiesInv
<1>. SUFFICES ASSUME TransfersInit PROVE CopiesInv
  OBVIOUS
<1>1. JobInv
  BY GivenTypes DEF TransfersInit, JobInv, RequestStatus, Begun
<1>2. RowInv /\ CopyInv
  BY GivenTypes, ParameterTypes DEF TransfersInit, RowInv, CopyInv, EmptyCache
<1>3. Sound(Idle, policy, source, Begun)
  BY DEF Sound, Idle, Staged, Copying, PinnedOnce, Progress, Ended
<1>4. HandlerInv
  BY <1>3, ParameterTypes DEF TransfersInit, HandlerInv
<1>5. CleanInv
  BY ParameterTypes DEF TransfersInit, CleanInv
<1>. QED  BY <1>1, <1>2, <1>4, <1>5 DEF CopiesInv

-----------------------------------------------------------------------------
(* One handler moves.                                                      *)

LEMMA OneHandler ==
    ASSUME HandlerInv, NEW h \in Handlers, NEW x \in Handler,
           handlers' = [handlers EXCEPT ![h] = x], scenario' = scenario,
           Begun => Begun', Sound(x, policy, source, Begun')
    PROVE  HandlerInv'
<1>1. policy' = policy /\ source' = source
  BY DEF policy, source, given
<1>2. ASSUME NEW k \in Handlers
      PROVE  Sound(handlers'[k], policy, source, Begun')
  <2>1. CASE k = h
    BY <2>1 DEF HandlerInv
  <2>2. CASE k # h
    <3>1. handlers'[k] = handlers[k]
      BY <2>2 DEF HandlerInv
    <3>. QED  BY <3>1 DEF HandlerInv, Sound, Progress
  <2>. QED  BY <2>1, <2>2
<1>. QED  BY <1>1, <1>2 DEF HandlerInv

LEMMA NoHandler ==
    ASSUME HandlerInv, handlers' = handlers, scenario' = scenario, Begun => Begun'
    PROVE  HandlerInv'
<1>1. policy' = policy /\ source' = source
  BY DEF policy, source, given
<1>. QED  BY <1>1 DEF HandlerInv, Sound, Progress

LEMMA HandlerTypes ==
    ASSUME HandlerInv, NEW h \in Handlers
    PROVE  /\ handlers[h] \in Handler
           /\ Sound(handlers[h], policy, source, Begun)
           /\ \A phase \in Phase : [handlers[h] EXCEPT !.phase = phase] \in Handler
  BY DEF HandlerInv, Handler

\* Without a model there is no choice to keep.
LEMMA OutsideSound ==
    ASSUME NEW x, NEW y, NEW pol, NEW src, NEW begun \in BOOLEAN,
           y.excluded = {} \/ (y.excluded = x.excluded /\ PinnedOnce(x)),
           y.phase \notin Staged, Progress(y, begun)
    PROVE  Sound(y, pol, src, begun)
  BY DEF Sound, PinnedOnce, Staged, Copying

LEMMA EndingSound ==
    ASSUME NEW x \in Handler, NEW outcome \in {"succeeded", "failed", "replay"},
           NEW pol, NEW src, NEW begun \in BOOLEAN, Progress(x, begun),
           outcome \in {"succeeded", "replay"} => x.seen # "queued",
           outcome = "replay" => x.dispatches = 0
    PROVE  Ending(x, outcome) \in Handler /\ Sound(Ending(x, outcome), pol, src, begun)
<1>. DEFINE y == Ending(x, outcome)
<1>1. y \in Handler
  BY ParameterTypes, ZenonT(60) DEF Ending, Handler, Phase
<1>2. y.phase \in {"finalizing", "settling"} /\ y.excluded = {} /\ y.outcome = outcome
      /\ y.seen = x.seen /\ y.dispatches = x.dispatches
  BY DEF Ending, Handler
<1>. HIDE DEF y
<1>3. Progress(y, begun)
  BY <1>2 DEF Progress, Ended
<1>4. Sound(y, pol, src, begun)
  <2>1. y.phase \notin Staged
    BY <1>2 DEF Staged
  <2>2. y.excluded = {}
    BY <1>2
  <2>. QED  BY <1>3, <2>1, <2>2 DEF Sound, PinnedOnce, Staged, Copying
<1>. QED  BY <1>1, <1>4 DEF y

LEMMA FailsStep ==
    ASSUME HandlerInv, NEW h \in Handlers, Fails(h), scenario' = scenario, Begun' = Begun
    PROVE  HandlerInv'
<1>1. Progress(handlers[h], Begun)
  BY HandlerTypes DEF Sound
<1>2. Begun \in BOOLEAN
  BY DEF Begun
<1>. DEFINE x == Ending(handlers[h], "failed")
<1>3. x \in Handler /\ Sound(x, policy, source, Begun')
  BY <1>1, <1>2, HandlerTypes, EndingSound
<1>4. handlers' = [handlers EXCEPT ![h] = x]
  BY DEF Fails
<1>. HIDE DEF x
<1>. QED  BY <1>3, <1>4, OneHandler

LEMMA EndsStep ==
    ASSUME HandlerInv, CleanInv, NEW h \in Handlers, Ends(h), scenario' = scenario, Begun => Begun'
    PROVE  HandlerInv' /\ CleanInv'
<1>1. Sound(Idle, policy, source, Begun')
  BY DEF Sound, Idle, Staged, Copying, PinnedOnce, Progress, Ended
<1>2. CleanInv'
  BY ParameterTypes DEF Ends, CleanInv
<1>. QED  BY <1>1, <1>2, ParameterTypes, OneHandler DEF Ends

-----------------------------------------------------------------------------
(* The steps of an attempt.                                                *)

LEMMA ClaimStep ==
    ASSUME CopiesInv, NEW h \in Handlers, ClaimDispatch(h)
    PROVE  CopiesInv'
<1>. DEFINE x == [Idle EXCEPT !.phase = "claimed", !.own = job'.owner]
<1>1. JobInv' /\ job'.owner \in Nat
  BY ActorsAssumption DEF CopiesInv, JobInv, ClaimDispatch, RequestStatus, Begun
<1>2. x \in Handler
  BY <1>1, ParameterTypes DEF Handler, Phase
<1>3. Sound(x, policy, source, Begun')
  BY DEF Sound, Idle, Staged, Copying, PinnedOnce, Progress, Ended
<1>4. HandlerInv'
  <2>1. handlers' = [handlers EXCEPT ![h] = x] /\ scenario' = scenario /\ Begun' = Begun
    BY DEF ClaimDispatch, Begun
  <2>. HIDE DEF x
  <2>. QED  BY <1>2, <1>3, <2>1, OneHandler DEF CopiesInv
<1>5. UNCHANGED <<rows, copyVars, cleanup>>
  BY DEF ClaimDispatch
<1>. QED  BY <1>1, <1>4, <1>5 DEF CopiesInv, RowInv, CopyInv, CleanInv, copyVars

LEMMA LoadStep ==
    ASSUME CopiesInv, NEW h \in Handlers, LoadRequest(h)
    PROVE  CopiesInv'
<1>. DEFINE loaded == [handlers[h] EXCEPT !.seen = request[1]]
<1>1. UNCHANGED <<scenario, request, question, job, rows, hosted, lapsed, uploads, cache,
                  cleanup>>
  BY DEF LoadRequest, jobVars, copyVars
<1>2. PICK x : handlers' = [handlers EXCEPT ![h] = x]
               /\ x \in {[loaded EXCEPT !.phase = "routing"], Ending(loaded, "failed")}
  BY DEF LoadRequest, PrepareSource
<1>3. handlers[h] \in Handler /\ Sound(handlers[h], policy, source, Begun)
      /\ handlers[h].phase = "claimed"
  BY HandlerTypes DEF LoadRequest, CopiesInv
<1>4. request[1] \in RequestStatus
  BY DEF CopiesInv, JobInv
<1>5. loaded \in Handler /\ Progress(loaded, Begun) /\ loaded.excluded = handlers[h].excluded
  BY <1>3, <1>4 DEF Handler, Sound, Progress, Begun, Ended
<1>. HIDE DEF loaded
<1>6. x \in Handler /\ Sound(x, policy, source, Begun)
  <2>1. CASE x = [loaded EXCEPT !.phase = "routing"]
    <3>1. x \in Handler /\ x.phase = "routing" /\ x.excluded = loaded.excluded /\ Progress(x, Begun)
      BY <1>5, <2>1 DEF Handler, Phase, Progress, Ended
    <3>. QED  BY <1>3, <1>5, <3>1, OutsideSound DEF Staged, Sound, Begun
  <2>2. CASE x = Ending(loaded, "failed")
    BY <1>5, <2>2, EndingSound DEF Begun
  <2>. QED  BY <1>2, <2>1, <2>2
<1>7. HandlerInv'
  BY <1>1, <1>2, <1>6, OneHandler DEF CopiesInv, Begun
<1>. QED  BY <1>1, <1>7 DEF CopiesInv, JobInv, RowInv, CopyInv, CleanInv, Begun

LEMMA HandlerOnly ==
    ASSUME CopiesInv, HandlerInv', UNCHANGED <<jobVars, rows, copyVars, cleanup>>
    PROVE  CopiesInv'
  BY DEF CopiesInv, JobInv, RowInv, CopyInv, CleanInv, Begun, jobVars, copyVars

LEMMA RouteStep ==
    ASSUME CopiesInv, NEW h \in Handlers, RouteModel(h)
    PROVE  CopiesInv'
<1>. DEFINE m == Route(policy, source, handlers[h].excluded)
            mode == ModeForPolicy(m, policy, source)
            x(phase, store) == [handlers[h] EXCEPT !.model = m, !.phase = phase, !.store = store]
            Routed(phase, store) == handlers' = [handlers EXCEPT
               ![h].model = m, ![h].phase = phase, ![h].store = store]
<1>1. UNCHANGED <<scenario, jobVars, rows, copyVars, cleanup>> /\ handlers[h].phase = "routing"
      /\ HandlerInv /\ Begun' = Begun
  BY DEF RouteModel, CopiesInv, jobVars, Begun
<1>2. \/ Fails(h)
      \/ m # NoModel /\ mode = Inline /\ Routed("reserving", NoOrchestrator)
      \/ /\ m # NoModel /\ mode \notin {Inline, NoMode} /\ Large(source)
         /\ Routed("finding", IF mode \in CopyModes THEN ProviderOf(m) ELSE NoProvider)
  <2>1. m # NoModel => m \in Models
    BY RouteRules DEF Carriers
  <2>2. m # NoModel => mode \in Modes \union {NoMode}
    BY <2>1, <1>1, GivenTypes, ModeRules DEF HandlerInv
  <2>. HIDE DEF m, mode
  <2>. QED  BY <2>2 DEF RouteModel, m, mode
<1>3. CASE Fails(h)
  BY <1>1, <1>3, FailsStep, HandlerOnly
<1>4. ASSUME NEW phase \in {"finding", "reserving"},
             NEW store \in Providers \union {NoProvider, NoOrchestrator},
             Routed(phase, store), m # NoModel, mode # NoMode,
             mode # Inline => Large(source), phase = "reserving" => mode = Inline
      PROVE  CopiesInv'
  <2>. DEFINE y == x(phase, store)
  <2>1. m \in Models /\ ProviderOf(m) \in AllowedProviders(policy)
        /\ m \in AllowedModels(policy) /\ FallbackAllows(m, handlers[h].excluded)
    BY <1>4, RouteRules DEF Carriers
  <2>2. SameRegion(m, handlers[h].excluded)
    BY <2>1 DEF FallbackAllows, SameRegion
  <2>3. handlers[h] \in Handler /\ Sound(handlers[h], policy, source, Begun)
    BY <1>1, HandlerTypes
  <2>. HIDE DEF m
  <2>4. /\ y \in Handler /\ y.model = m /\ y.phase = phase
        /\ y.excluded = handlers[h].excluded /\ y.seen = handlers[h].seen
        /\ y.dispatches = handlers[h].dispatches /\ y.outcome = handlers[h].outcome
    BY <2>1, <2>3, <1>4 DEF Handler, Phase
  <2>5. handlers' = [handlers EXCEPT ![h] = y]
    BY <1>1, <1>4 DEF HandlerInv
  <2>. HIDE DEF y
  <2>6. Chosen(y, policy, source)
    BY <2>1, <2>2, <2>4, <1>4 DEF Chosen
  <2>7. y.phase \in Copying => HoldsItsCopy(y, policy, source)
    BY <2>4, <1>4 DEF HoldsItsCopy, Copying, CopyModes, Inline
  <2>8. PinnedOnce(y) /\ Progress(y, Begun)
    BY <1>1, <2>3, <2>4 DEF Sound, PinnedOnce, Progress, Ended
  <2>9. HandlerInv'
    BY <1>1, <2>4, <2>5, <2>6, <2>7, <2>8, OneHandler DEF Sound
  <2>. QED  BY <1>1, <2>9, HandlerOnly
<1>5. m # NoModel => ProviderOf(m) \in Providers
  BY RouteRules, ModelTypes DEF Carriers
<1>. HIDE DEF m, mode, Routed
<1>. QED  BY <1>2, <1>3, <1>4, <1>5 DEF Inline, NoMode

\* The rows are kept, but for their status and stamp.
LEMMA RowsKept ==
    ASSUME RowInv, NEW r, r = [i \in DOMAIN rows |-> r[i]],
           \A i \in DOMAIN rows :
             /\ r[i] \in Reference
             /\ r[i].provider = rows[i].provider /\ r[i].mode = rows[i].mode
             /\ r[i].copy = rows[i].copy
    PROVE  /\ r \in Seq(Reference) /\ Len(r) = Len(rows) /\ DOMAIN r = DOMAIN rows
           /\ \A i \in DOMAIN r : r[i].mode \in CopyModes => r[i].copy.provider = r[i].provider
<1>1. DOMAIN rows = 1..Len(rows) /\ Len(rows) \in Nat
  BY DEF RowInv
<1>2. r \in Seq(Reference) /\ DOMAIN r = DOMAIN rows
  <2>1. r \in [1..Len(rows) -> Reference]
    BY <1>1
  <2>. QED  BY <1>1, <2>1
<1>3. Len(r) = Len(rows)
  BY <1>1, <1>2
<1>. QED  BY <1>2, <1>3 DEF RowInv

LEMMA ExpiredRows ==
    ASSUME RowInv, NEW set
    PROVE  LET r == Expired(set) IN
           /\ r \in Seq(Reference) /\ Len(r) = Len(rows) /\ DOMAIN r = DOMAIN rows
           /\ \A i \in DOMAIN r : r[i].mode \in CopyModes => r[i].copy.provider = r[i].provider
<1>. DEFINE r == Expired(set)
<1>1. r = [i \in DOMAIN rows |-> r[i]]
  BY DEF Expired
<1>2. ASSUME NEW i \in DOMAIN rows
      PROVE  /\ r[i] \in Reference
             /\ r[i].provider = rows[i].provider /\ r[i].mode = rows[i].mode
             /\ r[i].copy = rows[i].copy
  <2>1. rows[i] \in Reference
    BY DEF RowInv
  <2>2. r[i] = rows[i] \/ r[i] = [rows[i] EXCEPT !.status = "expired"]
    BY DEF Expired
  <2>. HIDE DEF r
  <2>. QED  BY <2>1, <2>2 DEF Reference, RowStatus
<1>. HIDE DEF r
<1>3. /\ r \in Seq(Reference) /\ Len(r) = Len(rows) /\ DOMAIN r = DOMAIN rows
      /\ \A i \in DOMAIN r : r[i].mode \in CopyModes => r[i].copy.provider = r[i].provider
  BY <1>1, <1>2, RowsKept
<1>. QED  BY <1>3 DEF r

\* A row is stamped, or loses its stamp or its copy.
Marked(old, new) ==
    \/ new = old
    \/ \E stamped \in BOOLEAN : new = [old EXCEPT !.stamped = stamped]
    \/ new = [old EXCEPT !.status = "deleted", !.stamped = FALSE]

LEMMA RowTypes ==
    ASSUME RowInv, NEW i \in DOMAIN rows
    PROVE  /\ rows[i] \in Reference /\ rows[i].copy \in Copy
           /\ rows[i].provider \in Providers /\ rows[i].mode \in Modes
           /\ rows[i].mode \in CopyModes => rows[i].copy.provider = rows[i].provider
<1>1. rows[i] \in Reference
  BY DEF RowInv
<1>. QED  BY <1>1 DEF RowInv, Reference

LEMMA MarkedRow ==
    ASSUME NEW old \in Reference, NEW new, Marked(old, new)
    PROVE  /\ new \in Reference
           /\ new.provider = old.provider /\ new.mode = old.mode /\ new.copy = old.copy
  BY DEF Marked, Reference, RowStatus

LEMMA MarkedRows ==
    ASSUME RowInv, rows' = [i \in DOMAIN rows |-> rows'[i]],
           \A i \in DOMAIN rows : Marked(rows[i], rows'[i])
    PROVE  RowInv'
<1>1. ASSUME NEW i \in DOMAIN rows
      PROVE  /\ rows'[i] \in Reference
             /\ rows'[i].provider = rows[i].provider /\ rows'[i].mode = rows[i].mode
             /\ rows'[i].copy = rows[i].copy
  BY RowTypes, MarkedRow
<1>. QED  BY <1>1, RowsKept DEF RowInv

\* The copy a handler is about to dispatch is its own provider's.
LEMMA DispatchableStep ==
    ASSUME HandlerInv, NEW h \in Handlers, NEW copy \in Copy, Dispatchable(h, copy),
           handlers[h].phase \in Staged, scenario' = scenario, Begun' = Begun,
           Mode(h) \in CopyModes => copy.provider = Provider(h)
    PROVE  HandlerInv'
<1>1. PICK phase \in {"minting", "reserving"} :
        handlers' = [handlers EXCEPT ![h].copy = copy, ![h].phase = phase]
  BY DEF Dispatchable
<1>. DEFINE x == [handlers[h] EXCEPT !.copy = copy, !.phase = phase]
<1>2. handlers[h] \in Handler /\ Sound(handlers[h], policy, source, Begun)
  BY HandlerTypes
<1>3. /\ x \in Handler /\ x.model = handlers[h].model /\ x.phase = phase /\ x.copy = copy
      /\ x.excluded = handlers[h].excluded /\ x.seen = handlers[h].seen
      /\ x.dispatches = handlers[h].dispatches /\ x.outcome = handlers[h].outcome
  BY <1>2 DEF Handler, Phase
<1>4. handlers' = [handlers EXCEPT ![h] = x]
  BY <1>1 DEF HandlerInv
<1>. HIDE DEF x
<1>5. Chosen(x, policy, source)
  BY <1>2, <1>3 DEF Sound, Chosen
<1>6. HoldsItsCopy(x, policy, source)
  BY <1>3 DEF HoldsItsCopy, Mode, Provider
<1>7. PinnedOnce(x) /\ Progress(x, Begun)
  BY <1>2, <1>3 DEF Sound, PinnedOnce, Progress, Ended
<1>. QED  BY <1>3, <1>4, <1>5, <1>6, <1>7, OneHandler DEF Sound

\* The handler moves on within its dispatch, as it is.
LEMMA MovesStep ==
    ASSUME HandlerInv, NEW h \in Handlers, NEW phase, Moves(h, phase),
           \/ handlers[h].phase \in Staged /\ phase \in {"staging", "persisting"}
                /\ (phase = "persisting" => Mode(h) \notin CopyModes)
           \/ handlers[h].phase \in Copying /\ phase = "reserving"
           \/ handlers[h].phase \in Ended /\ phase \in Ended,
           scenario' = scenario, Begun => Begun'
    PROVE  HandlerInv'
<1>. DEFINE x == [handlers[h] EXCEPT !.phase = phase]
<1>1. handlers[h] \in Handler /\ Sound(handlers[h], policy, source, Begun)
  BY HandlerTypes
<1>2. /\ x \in Handler /\ x.model = handlers[h].model /\ x.phase = phase
      /\ x.copy = handlers[h].copy
      /\ x.excluded = handlers[h].excluded /\ x.seen = handlers[h].seen
      /\ x.dispatches = handlers[h].dispatches /\ x.outcome = handlers[h].outcome
  BY <1>1 DEF Handler, Phase, Ended
<1>3. handlers' = [handlers EXCEPT ![h] = x]
  BY DEF HandlerInv, Moves
<1>. HIDE DEF x
<1>4. x.phase \in Staged => Chosen(x, policy, source)
  BY <1>1, <1>2 DEF Sound, Chosen, Staged, Copying, Ended
<1>5. x.phase \in Copying => HoldsItsCopy(x, policy, source)
  BY <1>1, <1>2 DEF Sound, HoldsItsCopy, Copying, Ended, Mode
<1>6. PinnedOnce(x) /\ Progress(x, Begun')
  BY <1>1, <1>2 DEF Sound, PinnedOnce, Progress, Ended, Begun, Staged, Copying
<1>. QED  BY <1>2, <1>3, <1>4, <1>5, <1>6, OneHandler DEF Sound

LEMMA FindStep ==
    ASSUME CopiesInv, NEW h \in Handlers, FindReusable(h)
    PROVE  CopiesInv'
<1>. DEFINE key == MyKey(h)
<1>1. UNCHANGED <<scenario, jobVars, copyVars, cleanup>> /\ handlers[h].phase = "finding"
      /\ HandlerInv /\ RowInv /\ Begun' = Begun /\ handlers[h].phase \in Staged
  BY DEF FindReusable, CopiesInv, jobVars, Begun, Staged
<1>2. CASE Fails(h) /\ rows' = rows
  BY <1>1, <1>2, FailsStep, HandlerOnly
<1>3. CASE /\ rows' = ExpiresLapsed(key)
           /\ Moves(h, IF Mode(h) \in CopyModes THEN "staging" ELSE "persisting")
  <2>1. HandlerInv'
    <3>1. CASE Mode(h) \in CopyModes
      BY <1>1, <1>3, <3>1, MovesStep
    <3>2. CASE Mode(h) \notin CopyModes
      BY <1>1, <1>3, <3>2, MovesStep
    <3>. QED  BY <3>1, <3>2
  <2>2. RowInv'
    BY <1>1, <1>3, ExpiredRows DEF ExpiresLapsed, RowInv
  <2>. QED  BY <1>1, <2>1, <2>2 DEF CopiesInv, JobInv, CopyInv, CleanInv, Begun, jobVars, copyVars
<1>4. ASSUME NEW i \in FindLive(key), Dispatchable(h, rows[i].copy), rows' = rows
      PROVE  CopiesInv'
  <2>1. i \in DOMAIN rows /\ rows[i].provider = Provider(h) /\ rows[i].mode = Mode(h)
    BY DEF FindLive, LiveRow, KeyOf, Key, MyKey
  <2>2. rows[i].copy \in Copy /\ (Mode(h) \in CopyModes => rows[i].copy.provider = Provider(h))
    BY <1>1, <2>1, RowTypes
  <2>3. HandlerInv'
    BY <1>1, <1>4, <2>2, DispatchableStep
  <2>. QED  BY <1>1, <1>4, <2>3, HandlerOnly
<1>. QED  BY <1>2, <1>3, <1>4 DEF FindReusable

\* A store returns a copy of its own provider, and remembers it.
LEMMA ReturnsStep ==
    ASSUME CopiesInv, NEW h \in Handlers, handlers[h].phase = "staging",
           NEW copy \in Copy, copy.provider = Provider(h), Returns(h, copy),
           scenario' = scenario, Begun' = Begun
    PROVE  /\ HandlerInv'
           /\ cache' \in [Handlers -> [Providers -> CacheRecord]]
           /\ \A k \in Handlers : \A p \in Providers :
                cache'[k][p].status = "live" => cache'[k][p].copy.provider = p
<1>. DEFINE x == [handlers[h] EXCEPT !.phase = "persisting", !.copy = copy]
            record == [copy |-> copy, status |-> "live"]
<1>1. handlers[h] \in Handler /\ Sound(handlers[h], policy, source, Begun) /\ HandlerInv
  BY HandlerTypes DEF CopiesInv
<1>2. /\ x \in Handler /\ x.model = handlers[h].model /\ x.phase = "persisting"
      /\ x.copy = copy /\ x.excluded = handlers[h].excluded /\ x.seen = handlers[h].seen
      /\ x.dispatches = handlers[h].dispatches /\ x.outcome = handlers[h].outcome
  BY <1>1 DEF Handler, Phase
<1>3. handlers' = [handlers EXCEPT ![h] = x]
  BY <1>1 DEF HandlerInv, Returns
<1>. HIDE DEF x
<1>4. Chosen(x, policy, source) /\ HoldsItsCopy(x, policy, source)
  BY <1>1, <1>2 DEF Sound, Chosen, Staged, HoldsItsCopy, Provider
<1>5. PinnedOnce(x) /\ Progress(x, Begun)
  BY <1>1, <1>2 DEF Sound, PinnedOnce, Progress, Ended
<1>6. HandlerInv'
  BY <1>1, <1>2, <1>3, <1>4, <1>5, OneHandler DEF Sound
<1>7. record \in CacheRecord
  BY DEF CacheRecord
<1>8. cache' = [cache EXCEPT ![h][copy.provider] = record] /\ cache \in [Handlers -> [Providers -> CacheRecord]]
  BY DEF Returns, CopiesInv, CopyInv
<1>9. record.status = "live" /\ record.copy.provider = copy.provider
  OBVIOUS
<1>. HIDE DEF record
<1>10. cache' \in [Handlers -> [Providers -> CacheRecord]]
  BY <1>7, <1>8
<1>11. ASSUME NEW k \in Handlers, NEW p \in Providers, cache'[k][p].status = "live"
       PROVE  cache'[k][p].copy.provider = p
  <2>1. (cache'[k][p] = record /\ p = copy.provider) \/ cache'[k][p] = cache[k][p]
    BY <1>8
  <2>. QED  BY <1>9, <1>11, <2>1 DEF CopiesInv, CopyInv
<1>. QED  BY <1>6, <1>10, <1>11

LEMMA RememberedStep ==
    ASSUME CopiesInv, NEW h \in Handlers, handlers[h].phase = "staging",
           ReturnsRemembered(h), scenario' = scenario, Begun' = Begun
    PROVE  /\ HandlerInv' /\ UNCHANGED <<hosted, uploads>>
           /\ cache' \in [Handlers -> [Providers -> CacheRecord]]
           /\ \A k \in Handlers : \A p \in Providers :
                cache'[k][p].status = "live" => cache'[k][p].copy.provider = p
<1>1. Provider(h) \in Providers
  BY HandlerTypes, ModelTypes DEF CopiesInv, Sound, Chosen, Staged, Provider
<1>2. cache[h][Provider(h)] \in CacheRecord /\ cache[h][Provider(h)].status = "live"
      /\ cache[h][Provider(h)].copy.provider = Provider(h)
  BY <1>1 DEF ReturnsRemembered, Remembered, CopiesInv, CopyInv
<1>3. cache[h][Provider(h)].copy \in Copy
  BY <1>2 DEF CacheRecord
<1>. QED  BY <1>2, <1>3, ReturnsStep DEF ReturnsRemembered

\* A store that returns, remembered or not, or that fails.
LEMMA StagesStep ==
    ASSUME CopiesInv, NEW h \in Handlers, NEW p, Staging(h, p),
           \/ ReturnsRemembered(h)
           \/ \E copy \in Copy :
                /\ copy.provider = p /\ Returns(h, copy)
                /\ hosted' \subseteq Copy /\ uploads' \in 0..MaxUploads
           \/ Fails(h) /\ hosted' \subseteq Copy /\ UNCHANGED <<uploads, cache>>,
           UNCHANGED <<scenario, jobVars, rows, lapsed, cleanup>>
    PROVE  CopiesInv'
<1>1. /\ handlers[h].phase = "staging" /\ Begun' = Begun /\ Provider(h) = p
      /\ HandlerInv /\ CopyInv
  BY DEF Staging, Begun, jobVars, CopiesInv
<1>2. HandlerInv' /\ CopyInv'
  <2>1. CASE ReturnsRemembered(h)
    BY <1>1, <2>1, RememberedStep DEF CopyInv
  <2>2. ASSUME NEW copy \in Copy, copy.provider = p, Returns(h, copy),
               hosted' \subseteq Copy, uploads' \in 0..MaxUploads
        PROVE  HandlerInv' /\ CopyInv'
    BY <1>1, <2>2, ReturnsStep DEF CopyInv
  <2>3. CASE Fails(h) /\ hosted' \subseteq Copy /\ UNCHANGED <<uploads, cache>>
    BY <1>1, <2>3, FailsStep DEF CopyInv
  <2>. QED  BY <2>1, <2>2, <2>3
<1>. QED  BY <1>1, <1>2 DEF CopiesInv, JobInv, RowInv, CleanInv, Begun, jobVars

LEMMA CopyTypes ==
    ASSUME CopiesInv, NEW p \in Providers
    PROVE  /\ SourceItself(p) \in Copy /\ SourceItself(p).provider = p
           /\ NewFile(p).provider = p
           /\ hosted \subseteq Copy /\ uploads \in 0..MaxUploads
           /\ \A h \in Handlers : Uploads(h, p) =>
                NewFile(p) \in Copy /\ hosted' \subseteq Copy /\ uploads' \in 0..MaxUploads
<1>1. /\ given.uploads \in 0..MaxUploads /\ MaxUploads \in Nat
      /\ uploads \in 0..MaxUploads /\ hosted \subseteq Copy
  BY GivenTypes DEF CopiesInv, HandlerInv, CopyInv
<1>2. ASSUME NEW h \in Handlers, Uploads(h, p)
      PROVE  NewFile(p) \in Copy /\ hosted' \subseteq Copy /\ uploads' \in 0..MaxUploads
  <2>1. NewFile(p) \in Copy /\ uploads' \in 0..MaxUploads
    BY <1>1, <1>2 DEF Uploads, NewFile, Copy
  <2>. QED  BY <1>1, <1>2, <2>1 DEF Uploads
<1>3. SourceItself(p) \in Copy /\ SourceItself(p).provider = p /\ NewFile(p).provider = p
  BY <1>1 DEF SourceItself, NewFile, Copy
<1>. QED  BY <1>1, <1>2, <1>3

LEMMA UploadStep ==
    ASSUME CopiesInv, NEW h \in Handlers,
           UploadToOpenAI(h) \/ UploadToAnthropic(h) \/ StageObject(h)
    PROVE  CopiesInv'
<1>1. ASSUME NEW p, Staging(h, p)
      PROVE  p \in Providers
  BY <1>1, HandlerTypes, ModelTypes DEF CopiesInv, Sound, Chosen, Staged, Provider, Staging
<1>2. CASE UploadToOpenAI(h)
  <2>1. "openai" \in Providers
    BY <1>1, <1>2 DEF UploadToOpenAI
  <2>. QED  BY <1>2, <2>1, CopyTypes, StagesStep DEF UploadToOpenAI, FailsToUpload
<1>3. CASE UploadToAnthropic(h)
  <2>1. "anthropic" \in Providers
    BY <1>1, <1>3 DEF UploadToAnthropic
  <2>. QED  BY <1>3, <2>1, CopyTypes, StagesStep DEF UploadToAnthropic, FailsToUpload
<1>4. CASE StageObject(h)
  <2>1. "vertex" \in Providers
    BY <1>1, <1>4 DEF StageObject
  <2>2. VertexObject \in Copy /\ VertexObject.provider = "vertex"
    BY <2>1, CopyTypes DEF VertexObject, SourceItself
  <2>. QED  BY <1>4, <2>1, <2>2, CopyTypes, StagesStep DEF StageObject, RefusesObject
<1>. QED  BY <1>2, <1>3, <1>4

LEMMA PersistStep ==
    ASSUME CopiesInv, NEW h \in Handlers, PersistReference(h)
    PROVE  CopiesInv'
<1>. DEFINE key == MyKey(h)
            copy == handlers[h].copy
            expired == ExpiresLapsed(key)
<1>1. UNCHANGED <<scenario, jobVars, copyVars, cleanup>> /\ handlers[h].phase = "persisting"
      /\ HandlerInv /\ RowInv /\ Begun' = Begun /\ Dispatchable(h, copy)
  BY DEF PersistReference, CopiesInv, jobVars, Begun
<1>2. /\ copy \in Copy /\ Provider(h) \in Providers /\ Mode(h) \in Modes
      /\ Mode(h) \in CopyModes => copy.provider = Provider(h)
  <2>1. handlers[h] \in Handler /\ Chosen(handlers[h], policy, source)
        /\ HoldsItsCopy(handlers[h], policy, source) /\ SourceIsGiven(source)
    BY <1>1, HandlerTypes, GivenTypes DEF Sound, Staged, Copying, HandlerInv
  <2>2. handlers[h].model \in Models /\ Mode(h) # NoMode
    BY <2>1 DEF Chosen, Mode
  <2>3. Mode(h) \in Modes
    BY <2>1, <2>2, ModeRules DEF Mode
  <2>. QED  BY <2>1, <2>2, <2>3, ModelTypes DEF Handler, HoldsItsCopy, Mode, Provider
<1>3. HandlerInv'
  BY <1>1, <1>2, DispatchableStep DEF Staged
<1>4. RowInv'
  <2>1. ASSUME NEW i \in FindLive(key), rows' = RefreshExisting(i, copy)
        PROVE  RowInv'
    <3>1. i \in DOMAIN rows /\ rows[i].provider = Provider(h) /\ rows[i].mode = Mode(h)
      BY DEF FindLive, LiveRow, KeyOf, Key, MyKey
    <3>. DEFINE row == [rows[i] EXCEPT !.copy = copy]
    <3>2. row \in Reference /\ row.copy = copy /\ row.mode = Mode(h) /\ row.provider = Provider(h)
      BY <1>1, <1>2, <3>1, RowTypes DEF Reference
    <3>3. rows' = [rows EXCEPT ![i] = row] /\ rows \in Seq(Reference)
      BY <1>1, <2>1 DEF RefreshExisting, RowInv
    <3>. HIDE DEF row, copy
    <3>4. rows' \in Seq(Reference) /\ DOMAIN rows' = DOMAIN rows
      BY <3>1, <3>2, <3>3
    <3>5. \A j \in DOMAIN rows : rows'[j] = IF j = i THEN row ELSE rows[j]
      BY <3>3
    <3>. QED  BY <1>1, <1>2, <3>2, <3>4, <3>5 DEF RowInv
  <2>2. ASSUME rows' = Append(expired, NewRow(h))
        PROVE  RowInv'
    <3>1. NewRow(h) \in Reference /\ NewRow(h).copy = copy
          /\ NewRow(h).mode = Mode(h) /\ NewRow(h).provider = Provider(h)
      BY <1>2 DEF NewRow, Reference, RowStatus
    <3>2. /\ expired \in Seq(Reference)
          /\ \A i \in DOMAIN expired :
               expired[i].mode \in CopyModes => expired[i].copy.provider = expired[i].provider
      BY <1>1, ExpiredRows DEF ExpiresLapsed
    <3>. HIDE DEF expired, copy
    <3>3. rows' \in Seq(Reference)
      BY <2>2, <3>1, <3>2
    <3>4. \A i \in DOMAIN rows' : \/ i \in DOMAIN expired /\ rows'[i] = expired[i]
                                  \/ rows'[i] = NewRow(h)
      BY <2>2, <3>1, <3>2
    <3>. QED  BY <1>2, <3>1, <3>2, <3>3, <3>4 DEF RowInv
  <2>. QED  BY <2>1, <2>2 DEF PersistReference, CreateOrAdopt
<1>. QED  BY <1>1, <1>3, <1>4 DEF CopiesInv, JobInv, CopyInv, CleanInv, Begun, jobVars, copyVars

LEMMA MintStep ==
    ASSUME CopiesInv, NEW h \in Handlers, MintUrl(h)
    PROVE  CopiesInv'
<1>1. UNCHANGED <<scenario, jobVars, rows, copyVars, cleanup>> /\ handlers[h].phase \in Copying
      /\ HandlerInv /\ Begun' = Begun
  BY DEF MintUrl, CopiesInv, jobVars, Begun, Copying
<1>2. HandlerInv'
  BY <1>1, FailsStep, MovesStep DEF MintUrl
<1>. QED  BY <1>1, <1>2, HandlerOnly

\* The call itself: from now on the request's first row is not queued.
LEMMA DispatchesStep ==
    ASSUME HandlerInv, NEW h \in Handlers, handlers[h].phase = "reserving",
           handlers' = [handlers EXCEPT
                           ![h].phase = "calling", ![h].dispatches = @ + 1,
                           ![h].seen = "running"],
           handlers[h].dispatches = 0 => handlers[h].seen = "queued",
           scenario' = scenario, Begun'
    PROVE  HandlerInv'
<1>. DEFINE x == [handlers[h] EXCEPT !.phase = "calling", !.dispatches = @ + 1,
                                     !.seen = "running"]
<1>1. handlers[h] \in Handler /\ Sound(handlers[h], policy, source, Begun)
  BY HandlerTypes
<1>2. /\ x \in Handler /\ x.model = handlers[h].model /\ x.phase = "calling"
      /\ x.copy = handlers[h].copy
      /\ x.excluded = handlers[h].excluded /\ x.seen = "running"
      /\ x.dispatches = handlers[h].dispatches + 1 /\ x.outcome = handlers[h].outcome
      /\ handlers[h].dispatches \in Nat
  <2>1. handlers[h].dispatches + 1 \in Nat /\ handlers[h].dispatches \in Nat
    BY <1>1 DEF Handler
  <2>2. PICK n : n = handlers[h].dispatches + 1
    OBVIOUS
  <2>3. x = [handlers[h] EXCEPT !.phase = "calling", !.dispatches = n, !.seen = "running"]
    BY <2>2
  <2>. HIDE DEF x
  <2>. QED  BY <1>1, <2>1, <2>2, <2>3 DEF Handler, Phase, RequestStatus
<1>3. handlers' = [handlers EXCEPT ![h] = x]
  BY DEF HandlerInv
<1>. HIDE DEF x
<1>4. Chosen(x, policy, source) /\ HoldsItsCopy(x, policy, source)
  BY <1>1, <1>2 DEF Sound, Chosen, Staged, Copying, HoldsItsCopy
<1>5. PinnedOnce(x) /\ Progress(x, Begun')
  BY <1>1, <1>2 DEF Sound, PinnedOnce, Progress, Ended
<1>. QED  BY <1>2, <1>3, <1>4, <1>5, OneHandler DEF Sound

LEMMA ReserveStep ==
    ASSUME CopiesInv, NEW h \in Handlers, Reserve(h)
    PROVE  CopiesInv'
<1>. DEFINE first == handlers[h].dispatches = 0
            queued == handlers[h].seen = "queued"
            Dispatches == handlers' = [handlers EXCEPT
                             ![h].phase = "calling", ![h].dispatches = @ + 1,
                             ![h].seen = "running"]
<1>1. /\ UNCHANGED <<scenario, rows, hosted, lapsed, uploads, cache>>
      /\ handlers[h].phase = "reserving" /\ HandlerInv /\ JobInv /\ RowInv /\ CopyInv /\ CleanInv
  BY DEF Reserve, CopiesInv, copyVars
<1>2. handlers[h] \in Handler /\ Sound(handlers[h], policy, source, Begun) /\ Begun \in BOOLEAN
  BY <1>1, HandlerTypes DEF Begun
<1>3. RowInv' /\ CopyInv'
  BY <1>1 DEF RowInv, CopyInv
<1>4. CASE /\ first /\ queued /\ request' = [request EXCEPT ![1] = "running"]
           /\ Dispatches /\ UNCHANGED <<question, job, cleanup>>
  <2>1. JobInv' /\ Begun'
    BY <1>1, <1>4 DEF JobInv, Begun, RequestStatus
  <2>2. HandlerInv'
    BY <1>1, <1>4, <2>1, DispatchesStep
  <2>. QED  BY <1>1, <1>3, <1>4, <2>1, <2>2 DEF CopiesInv, CleanInv
<1>5. CASE Fails(h) /\ UNCHANGED <<jobVars, cleanup>>
  <2>1. HandlerInv'
    BY <1>1, <1>5, FailsStep DEF jobVars, Begun
  <2>. QED  BY <1>1, <1>5, <2>1, HandlerOnly DEF copyVars
<1>6. CASE /\ first /\ ~queued /\ handlers' = [handlers EXCEPT ![h] = Ending(@, "replay")]
           /\ UNCHANGED <<jobVars, cleanup>>
  <2>. DEFINE x == Ending(handlers[h], "replay")
  <2>1. Progress(handlers[h], Begun)
    BY <1>2 DEF Sound
  <2>2. x \in Handler /\ Sound(x, policy, source, Begun)
    BY <1>2, <1>6, <2>1, EndingSound
  <2>3. handlers' = [handlers EXCEPT ![h] = x] /\ Begun' = Begun
    BY <1>6 DEF Begun, jobVars
  <2>. HIDE DEF x
  <2>4. HandlerInv'
    BY <1>1, <2>2, <2>3, OneHandler
  <2>. QED  BY <1>1, <1>6, <2>4, HandlerOnly DEF copyVars
<1>7. CASE /\ ~first /\ request' = Append(request, "running")
           /\ Dispatches /\ UNCHANGED <<question, job, cleanup>>
  <2>1. handlers[h].dispatches > 0 /\ Begun
    BY <1>2, <1>7 DEF Sound, Progress, Handler
  <2>2. /\ request' \in Seq(RequestStatus) /\ request' # << >> /\ request'[1] = request[1]
        /\ \A i \in DOMAIN request' : i > 1 => request'[i] # "queued"
    BY <1>1, <1>7 DEF JobInv, RequestStatus
  <2>3. JobInv' /\ Begun'
    BY <1>1, <1>7, <2>1, <2>2 DEF JobInv, Begun
  <2>4. HandlerInv'
    BY <1>1, <1>7, <2>1, <2>3, DispatchesStep
  <2>. QED  BY <1>1, <1>3, <1>7, <2>3, <2>4 DEF CopiesInv, CleanInv
<1>8. CASE EndsStale(h)
  <2>1. HandlerInv' /\ CleanInv' /\ JobInv'
    BY <1>1, <1>8, EndsStep DEF EndsStale, jobVars, Begun, JobInv
  <2>. QED  BY <1>3, <2>1 DEF CopiesInv
<1>. QED  BY <1>4, <1>5, <1>6, <1>7, <1>8 DEF Reserve

\* The model that failed may be excluded; it is of the region of the others.
LEMMA RetriesStep ==
    ASSUME HandlerInv, NEW h \in Handlers, handlers[h].phase = "calling",
           NEW more \in {{}, {handlers[h].model}},
           handlers' = [handlers EXCEPT
               ![h].phase = "routing", ![h].copy = NoCopy, ![h].model = NoModel,
               ![h].excluded = @ \union more],
           scenario' = scenario, Begun' = Begun
    PROVE  HandlerInv'
<1>. DEFINE x == [handlers[h] EXCEPT !.phase = "routing", !.copy = NoCopy,
                                     !.model = NoModel, !.excluded = @ \union more]
<1>1. handlers[h] \in Handler /\ Sound(handlers[h], policy, source, Begun)
  BY HandlerTypes
<1>2. Chosen(handlers[h], policy, source) /\ PinnedOnce(handlers[h])
      /\ Progress(handlers[h], Begun)
  BY <1>1 DEF Sound, Staged
<1>3. PICK excluded : excluded = handlers[h].excluded \union more
  OBVIOUS
<1>4. excluded \in SUBSET Models
  BY <1>1, <1>2, <1>3 DEF Handler, Chosen
<1>5. /\ x \in Handler /\ x.phase = "routing" /\ x.excluded = excluded
      /\ x.seen = handlers[h].seen /\ x.dispatches = handlers[h].dispatches
      /\ x.outcome = handlers[h].outcome
  <2>1. x = [handlers[h] EXCEPT !.phase = "routing", !.copy = NoCopy,
                                !.model = NoModel, !.excluded = excluded]
    BY <1>3
  <2>. HIDE DEF x
  <2>. QED  BY <1>1, <1>4, <2>1, ParameterTypes DEF Handler, Phase
<1>6. handlers' = [handlers EXCEPT ![h] = x]
  BY DEF HandlerInv
<1>. HIDE DEF x
<1>7. PinnedOnce(x)
  <2>. DEFINE R(e) == RegionOf[ProviderOf(e)]
  <2>1. ASSUME NEW e \in handlers[h].excluded
        PROVE  \/ Unpinned \in {R(e), R(handlers[h].model)}
               \/ R(e) = R(handlers[h].model)
    <3>. DEFINE m == handlers[h].model
                pinned == {R(f) : f \in handlers[h].excluded} \ {Unpinned}
    <3>1. SUFFICES ASSUME R(e) # Unpinned PROVE R(e) = R(m)
      OBVIOUS
    <3>2. R(e) \in pinned
      BY <3>1
    <3>3. R(m) \in pinned
      BY <1>2, <3>2 DEF Chosen, SameRegion
    <3>4. PICK f \in handlers[h].excluded : R(m) = R(f) /\ R(f) # Unpinned
      BY <3>3
    <3>. QED  BY <1>2, <3>1, <3>4 DEF PinnedOnce
  <2>2. ASSUME NEW e \in excluded, NEW f \in excluded
        PROVE  Unpinned \in {R(e), R(f)} \/ R(e) = R(f)
    BY <1>2, <1>3, <2>1 DEF PinnedOnce
  <2>. QED  BY <1>5, <2>2 DEF PinnedOnce
<1>8. Progress(x, Begun)
  BY <1>2, <1>5 DEF Progress, Ended
<1>9. Sound(x, policy, source, Begun)
  BY <1>5, <1>7, <1>8 DEF Sound, Staged, Copying
<1>. QED  BY <1>5, <1>6, <1>9, OneHandler

LEMMA CallStep ==
    ASSUME CopiesInv, NEW h \in Handlers, CallProvider(h)
    PROVE  CopiesInv'
<1>1. UNCHANGED <<scenario, jobVars, rows, copyVars, cleanup>> /\ handlers[h].phase = "calling"
      /\ HandlerInv /\ Begun' = Begun
  BY DEF CallProvider, CopiesInv, jobVars, Begun
<1>2. handlers[h] \in Handler /\ Progress(handlers[h], Begun) /\ Begun \in BOOLEAN
  BY <1>1, HandlerTypes DEF Sound, Begun
<1>3. CASE handlers' = [handlers EXCEPT ![h] = Ending(@, "succeeded")]
  <2>. DEFINE x == Ending(handlers[h], "succeeded")
  <2>1. handlers[h].seen # "queued"
    BY <1>1, <1>2 DEF Progress
  <2>2. x \in Handler /\ Sound(x, policy, source, Begun)
    BY <1>2, <2>1, EndingSound
  <2>3. handlers' = [handlers EXCEPT ![h] = x]
    BY <1>3
  <2>. HIDE DEF x
  <2>4. HandlerInv'
    BY <1>1, <2>2, <2>3, OneHandler
  <2>. QED  BY <1>1, <2>4, HandlerOnly
<1>4. ASSUME NEW more \in {{}, {handlers[h].model}},
             handlers' = [handlers EXCEPT
               ![h].phase = "routing", ![h].copy = NoCopy, ![h].model = NoModel,
               ![h].excluded = @ \union more]
      PROVE  CopiesInv'
  BY <1>1, <1>4, RetriesStep, HandlerOnly
<1>5. CASE Fails(h)
  BY <1>1, <1>5, FailsStep, HandlerOnly
<1>. QED  BY <1>3, <1>4, <1>5 DEF CallProvider

LEMMA FinalizeStep ==
    ASSUME CopiesInv, NEW h \in Handlers, Finalize(h)
    PROVE  CopiesInv'
<1>1. UNCHANGED <<scenario, jobVars, copyVars>> /\ HandlerInv /\ RowInv /\ CleanInv /\ Begun' = Begun
  BY DEF Finalize, CopiesInv, jobVars, Begun
<1>2. HandlerInv'
  BY <1>1, MovesStep DEF Finalize, Ended
<1>3. RowInv'
  BY <1>1, ExpiredRows DEF Finalize, RowInv
<1>4. CleanInv'
  <2>1. DOMAIN rows \in SUBSET Nat
    BY <1>1 DEF RowInv
  <2>2. [NoCleanup EXCEPT !.step = "next", !.todo = DOMAIN rows] \in Cleanup
    BY <2>1, ParameterTypes DEF Cleanup
  <2>. QED  BY <1>1, <2>2 DEF Finalize, CleanInv
<1>. QED  BY <1>1, <1>2, <1>3, <1>4 DEF CopiesInv, JobInv, CopyInv, Begun, jobVars, copyVars

LEMMA SettleStep ==
    ASSUME CopiesInv, NEW h \in Handlers, Settle(h)
    PROVE  CopiesInv'
<1>. DEFINE n == handlers[h].dispatches
            outcome == handlers[h].outcome
            seen == IF n = 1 THEN outcome ELSE "failed"
            x == [handlers[h] EXCEPT !.phase = "clearing", !.seen = seen]
<1>1. UNCHANGED <<scenario, rows, copyVars>> /\ handlers[h].phase = "settling"
      /\ HandlerInv /\ JobInv /\ RowInv /\ CopyInv /\ CleanInv
  BY DEF Settle, CopiesInv
<1>2. handlers[h] \in Handler /\ Sound(handlers[h], policy, source, Begun) /\ n \in Nat
  BY <1>1, HandlerTypes DEF Handler
<1>3. RowInv' /\ CopyInv'
  BY <1>1 DEF RowInv, CopyInv, copyVars
<1>4. CASE n = 0 /\ Moves(h, "clearing") /\ UNCHANGED <<jobVars, cleanup>>
  <2>1. HandlerInv'
    BY <1>1, <1>4, MovesStep DEF Ended, jobVars, Begun
  <2>. QED  BY <1>1, <1>4, <2>1, HandlerOnly
<1>5. CASE /\ n > 0
           /\ request' = [i \in DOMAIN request |->
                 IF i <= n /\ (i = 1 \/ request[i] = "running")
                 THEN IF i = n THEN outcome ELSE "failed"
                 ELSE request[i]]
           /\ handlers' = [handlers EXCEPT ![h].phase = "clearing", ![h].seen = seen]
           /\ UNCHANGED <<question, job, cleanup>>
  <2>1. outcome \in {"succeeded", "failed"} /\ seen \in {"succeeded", "failed"}
    BY <1>1, <1>2, <1>5 DEF Sound, Progress, Ended, Handler
  <2>2. PICK o \in {"succeeded", "failed"} : o = outcome
    BY <2>1
  <2>3. /\ request' \in Seq(RequestStatus) /\ request' # << >> /\ Begun'
        /\ \A i \in DOMAIN request' : i > 1 => request'[i] # "queued"
    <3>1. request \in Seq(RequestStatus) /\ request # << >>
          /\ \A i \in DOMAIN request : i > 1 => request[i] # "queued"
      BY <1>1 DEF JobInv
    <3>2. 1 \in DOMAIN request /\ DOMAIN request = 1..Len(request) /\ Len(request) \in Nat
      BY <3>1
    <3>3. \A i \in DOMAIN request : request'[i] \in RequestStatus
            /\ request'[i] \in {o, "failed", request[i]} /\ (i = 1 => request'[i] \in {o, "failed"})
      BY <1>2, <1>5, <2>2, <3>1, <3>2 DEF RequestStatus, Terminal
    <3>4. DOMAIN request' = DOMAIN request /\ request' = [i \in DOMAIN request |-> request'[i]]
      BY <1>5
    <3>5. request' \in Seq(RequestStatus) /\ request' # << >>
      <4>1. request' \in [1..Len(request) -> RequestStatus]
        BY <3>2, <3>3, <3>4
      <4>. QED  BY <3>2, <3>4, <4>1
    <3>. QED  BY <2>2, <3>1, <3>2, <3>3, <3>4, <3>5 DEF Begun
  <2>4. JobInv'
    BY <1>1, <1>5, <2>3 DEF JobInv, Begun
  <2>. HIDE DEF seen, outcome
  <2>5. /\ x \in Handler /\ x.phase = "clearing" /\ x.excluded = handlers[h].excluded
        /\ x.seen = seen /\ x.dispatches = n /\ x.outcome = handlers[h].outcome
    BY <1>2, <2>1 DEF Handler, Phase, RequestStatus, Terminal
  <2>6. handlers' = [handlers EXCEPT ![h] = x]
    BY <1>1, <1>5 DEF HandlerInv
  <2>. HIDE DEF x
  <2>7. Progress(x, Begun') /\ PinnedOnce(x)
    BY <1>1, <1>2, <2>1, <2>3, <2>5 DEF Sound, PinnedOnce, Progress, Ended
  <2>8. Sound(x, policy, source, Begun')
    BY <2>5, <2>7 DEF Sound, Staged, Copying
  <2>9. HandlerInv'
    BY <1>1, <2>3, <2>5, <2>6, <2>8, OneHandler
  <2>. QED  BY <1>1, <1>3, <1>5, <2>4, <2>9 DEF CopiesInv, CleanInv
<1>6. CASE EndsStale(h)
  <2>1. HandlerInv' /\ CleanInv' /\ JobInv'
    BY <1>1, <1>6, EndsStep DEF EndsStale, jobVars, Begun, JobInv
  <2>. QED  BY <1>3, <2>1 DEF CopiesInv
<1>. QED  BY <1>4, <1>5, <1>6 DEF Settle

\* A question is only removed once the request cannot be queued any more.
LEMMA ClearStep ==
    ASSUME CopiesInv, NEW h \in Handlers, ClearQuestion(h)
    PROVE  CopiesInv'
<1>1. UNCHANGED <<scenario, job, rows, copyVars, cleanup>> /\ handlers[h].phase = "clearing"
      /\ Moves(h, "closing") /\ HandlerInv /\ JobInv
  BY DEF ClearQuestion, CopiesInv
<1>2. handlers[h] \in Handler /\ Progress(handlers[h], Begun)
  BY <1>1, HandlerTypes DEF Sound
<1>3. JobInv' /\ (Begun => Begun')
  <2>1. CASE /\ question' = "none"
             /\ request' = IF handlers[h].outcome = "failed" /\ FailsQueued(handlers[h].seen)
                            THEN [request EXCEPT ![1] = "failed"] ELSE request
    <3>1. CASE handlers[h].outcome = "failed" /\ handlers[h].seen = "queued"
      <4>1. request' = [request EXCEPT ![1] = "failed"]
        BY <2>1, <3>1 DEF FailsQueued
      <4>2. request \in Seq(RequestStatus) /\ request # << >> /\ "failed" \in RequestStatus
            /\ \A i \in DOMAIN request : i > 1 => request[i] # "queued"
        BY <1>1 DEF JobInv, RequestStatus, Terminal
      <4>3. /\ request' \in Seq(RequestStatus) /\ request' # << >> /\ request'[1] = "failed"
            /\ \A i \in DOMAIN request' : i > 1 => request'[i] # "queued"
        BY <4>1, <4>2
      <4>. QED  BY <1>1, <2>1, <4>3 DEF JobInv, Begun
    <3>2. CASE ~(handlers[h].outcome = "failed" /\ handlers[h].seen = "queued")
      <4>1. handlers[h].seen # "queued"
        BY <1>1, <1>2, <3>2 DEF Progress, Handler, Ended
      <4>2. Begun /\ request' = request
        BY <1>2, <2>1, <4>1 DEF Progress, FailsQueued
      <4>. QED  BY <1>1, <2>1, <4>2 DEF JobInv, Begun
    <3>. QED  BY <3>1, <3>2
  <2>2. CASE UNCHANGED <<question, request>>
    BY <1>1, <2>2 DEF JobInv, Begun
  <2>. QED  BY <2>1, <2>2 DEF ClearQuestion
<1>4. HandlerInv'
  BY <1>1, <1>3, MovesStep DEF Ended
<1>. QED  BY <1>1, <1>3, <1>4 DEF CopiesInv, RowInv, CopyInv, CleanInv, copyVars

LEMMA SettleJobStep ==
    ASSUME CopiesInv, NEW h \in Handlers, SettleJob(h)
    PROVE  CopiesInv'
<1>1. UNCHANGED <<scenario, request, question, rows, copyVars>> /\ Ends(h)
      /\ HandlerInv /\ CleanInv /\ JobInv
  BY DEF SettleJob, CopiesInv, EndsStale, jobVars
<1>2. job' = job \/ \E status \in Terminal : job' = [job EXCEPT !.status = status]
  BY DEF SettleJob, EndsStale, jobVars, Terminal
<1>3. JobInv'
  BY <1>1, <1>2 DEF JobInv, Begun, RequestStatus
<1>4. HandlerInv' /\ CleanInv'
  BY <1>1, EndsStep DEF Begun
<1>. QED  BY <1>1, <1>3, <1>4 DEF CopiesInv, RowInv, CopyInv, copyVars

\* A store's record of a copy it has deleted.
LEMMA ForgottenCopy ==
    ASSUME CopyInv, NEW h \in Handlers, NEW q, cache' = [cache EXCEPT ![h][q].status = "deleted"]
    PROVE  /\ cache' \in [Handlers -> [Providers -> CacheRecord]]
           /\ \A k \in Handlers : \A p \in Providers :
                cache'[k][p].status = "live" => cache'[k][p].copy.provider = p
<1>. DEFINE new == [cache[h][q] EXCEPT !.status = "deleted"]
<1>1. cache \in [Handlers -> [Providers -> CacheRecord]]
  BY DEF CopyInv
<1>2. q \in Providers => new \in CacheRecord /\ new.status # "live"
  BY <1>1 DEF CacheRecord
<1>. DEFINE records == [cache[h] EXCEPT ![q] = new]
<1>3. cache' = [cache EXCEPT ![h] = records]
  OBVIOUS
<1>. HIDE DEF new
<1>a. /\ records \in [Providers -> CacheRecord]
      /\ \A p \in Providers : records[p] = cache[h][p] \/ (p = q /\ records[p] = new)
  <2>1. cache[h] \in [Providers -> CacheRecord]
    BY <1>1
  <2>2. \A p \in Providers : records[p] = IF p = q THEN new ELSE cache[h][p]
    BY <2>1
  <2>3. records = [p \in Providers |-> records[p]]
    BY <2>1
  <2>. HIDE DEF records
  <2>4. ASSUME NEW p \in Providers
        PROVE  records[p] \in CacheRecord /\ (records[p] = cache[h][p] \/ (p = q /\ records[p] = new))
    <3>1. CASE p = q
      BY <1>2, <2>2, <3>1
    <3>2. CASE p # q
      BY <2>1, <2>2, <3>2
    <3>. QED  BY <3>1, <3>2
  <2>5. records \in [Providers -> CacheRecord]
    BY <2>3, <2>4
  <2>. QED  BY <2>4, <2>5
<1>. HIDE DEF records
<1>4. cache' \in [Handlers -> [Providers -> CacheRecord]]
  BY <1>1, <1>3, <1>a
<1>5. ASSUME NEW k \in Handlers, NEW p \in Providers, cache'[k][p].status = "live"
      PROVE  cache'[k][p].copy.provider = p
  <2>1. cache'[k][p] = cache[k][p] \/ (p = q /\ cache'[k][p] = new)
    <3>1. cache'[k] = IF k = h THEN records ELSE cache[k]
      BY <1>1, <1>3
    <3>. QED  BY <1>a, <3>1
  <2>. QED  BY <1>2, <1>5, <2>1 DEF CopyInv
<1>. QED  BY <1>4, <1>5

\* Whatever ends an attempt otherwise leaves at most less copies.
LEMMA RaisesStep ==
    ASSUME CopiesInv, NEW h \in Handlers, HandlerRaises(h) \/ WorkerCrash(h)
    PROVE  CopiesInv'
<1>1. UNCHANGED <<scenario, request, question, rows, lapsed, uploads>> /\ Ends(h)
      /\ HandlerInv /\ CleanInv /\ JobInv /\ CopyInv
  BY DEF HandlerRaises, WorkerCrash, CopiesInv, jobVars
<1>2. job' = job \/ \E status \in RequestStatus : job' = [job EXCEPT !.status = status]
  BY DEF HandlerRaises, WorkerCrash, jobVars, RequestStatus, Terminal
<1>3. JobInv'
  BY <1>1, <1>2 DEF JobInv, Begun
<1>4. HandlerInv' /\ CleanInv'
  BY <1>1, EndsStep DEF Begun
<1>5. \/ UNCHANGED <<hosted, cache>>
      \/ hosted' \subseteq hosted /\ cache' = [cache EXCEPT ![h][Provider(h)].status = "deleted"]
      \/ hosted' = hosted /\ cache' = [cache EXCEPT ![h] = EmptyCache]
  BY DEF HandlerRaises, WorkerCrash
<1>6. CopyInv'
  <2>1. CASE UNCHANGED <<hosted, cache>>
    BY <1>1, <2>1 DEF CopyInv
  <2>2. CASE hosted' \subseteq hosted /\ cache' = [cache EXCEPT ![h][Provider(h)].status = "deleted"]
    BY <1>1, <2>2, ForgottenCopy DEF CopyInv
  <2>3. CASE hosted' = hosted /\ cache' = [cache EXCEPT ![h] = EmptyCache]
    <3>1. \A p \in Providers : EmptyCache[p].status = "absent"
      BY DEF EmptyCache
    <3>. QED  BY <1>1, <2>3, <3>1, ParameterTypes DEF CopyInv
  <2>. QED  BY <1>5, <2>1, <2>2, <2>3
<1>. QED  BY <1>1, <1>3, <1>4, <1>6 DEF CopiesInv, RowInv

LEMMA HandlerSteps ==
    ASSUME CopiesInv, NEW h \in Handlers, HandlerStep(h)
    PROVE  CopiesInv'
  BY ClaimStep, LoadStep, RouteStep, FindStep, UploadStep, PersistStep, MintStep,
     ReserveStep, CallStep, FinalizeStep, SettleStep, ClearStep, SettleJobStep, RaisesStep
     DEF HandlerStep

-----------------------------------------------------------------------------
(* Cleaning up, and time.                                                  *)

\* The rows that a deletion works on are rows.
LEMMA ChosenRows ==
    ASSUME RowInv, NEW key
    PROVE  ForDeletion(key) \subseteq DOMAIN rows
<1>. DEFINE left == {i \in DOMAIN rows : KeyOf(rows[i]) = key /\ rows[i].status # "deleted"}
<1>1. LiveRow(key) \subseteq DOMAIN rows
  BY DEF LiveRow
<1>2. ASSUME left # {}
      PROVE  Max(left) \in left
  <2>. DEFINE above == {n \in Nat : \A i \in left : i <= n}
  <2>1. DOMAIN rows = 1..Len(rows) /\ Len(rows) \in Nat
    BY DEF RowInv
  <2>2. left \subseteq 1..Len(rows) /\ Len(rows) \in above
    BY <2>1
  <2>. HIDE DEF left
  <2>3. PICK n \in above : \A k \in above : n <= k
    <3>1. above \in SUBSET Nat /\ above # {}
      BY <2>2
    <3>. HIDE DEF above
    <3>. QED  BY <3>1, HasLeast
  <2>4. n \in left
    <3>1. SUFFICES ASSUME n \notin left PROVE FALSE
      OBVIOUS
    <3>2. PICK i : i \in left
      BY <1>2
    <3>3. n - 1 \in Nat /\ \A j \in left : j <= n - 1
      BY <2>1, <2>2, <2>3, <3>1, <3>2
    <3>. QED  BY <2>3, <3>3
  <2>5. \E x \in left : \A y \in left : x >= y
    BY <2>1, <2>2, <2>3, <2>4
  <2>. QED  BY <2>5 DEF Max
<1>. QED  BY <1>1, <1>2 DEF ForDeletion

LEMMA CleanerOnly ==
    ASSUME CopiesInv, RowInv', CopyInv', CleanInv', UNCHANGED <<scenario, jobVars, handlers>>
    PROVE  CopiesInv'
<1>1. HandlerInv'
  BY NoHandler DEF CopiesInv, Begun, jobVars
<1>. QED  BY <1>1 DEF CopiesInv, JobInv, Begun, jobVars

LEMMA SweepClaimsStep ==
    ASSUME CopiesInv, SweepClaims
    PROVE  CopiesInv'
<1>1. UNCHANGED <<scenario, jobVars, copyVars, handlers>> /\ RowInv /\ CopyInv /\ CleanInv
  BY DEF SweepClaims, CopiesInv
<1>2. PICK batch \in SUBSET DOMAIN rows :
        /\ rows' = [i \in DOMAIN rows |-> IF i \in batch
                       THEN [rows[i] EXCEPT !.stamped = TRUE] ELSE rows[i]]
        /\ cleanup' = [cleanup EXCEPT ![Reconciler] = [NoCleanup EXCEPT
                          !.step = "next", !.todo = batch]]
  BY DEF SweepClaims
<1>3. RowInv'
  BY <1>1, <1>2, MarkedRows DEF Marked
<1>4. CleanInv'
  <2>1. batch \in SUBSET Nat
    BY <1>1, <1>2 DEF RowInv
  <2>2. [NoCleanup EXCEPT !.step = "next", !.todo = batch] \in Cleanup
    BY <2>1, ParameterTypes DEF Cleanup
  <2>. QED  BY <1>1, <1>2, <2>2 DEF CleanInv
<1>. QED  BY <1>1, <1>3, <1>4, CleanerOnly DEF CopyInv, copyVars

LEMMA ClaimDeletionStep ==
    ASSUME CopiesInv, NEW c \in Cleaners, ClaimForDeletion(c)
    PROVE  CopiesInv'
<1>. DEFINE i == Min(cleanup[c].todo)
            chosen == ForDeletion(KeyOf(rows[i]))
            left == [NoCleanup EXCEPT !.step = "next", !.todo = cleanup[c].todo \ {i}]
<1>1. UNCHANGED <<scenario, jobVars, copyVars, handlers>> /\ RowInv /\ CopyInv /\ CleanInv
  BY DEF ClaimForDeletion, CopiesInv
<1>2. chosen \subseteq DOMAIN rows
  BY <1>1, ChosenRows
<1>3. left \in Cleanup
  <2>1. cleanup[c].todo \ {i} \in SUBSET Nat
    BY <1>1 DEF CleanInv, Cleanup
  <2>. HIDE DEF i
  <2>. QED  BY <2>1, ParameterTypes DEF Cleanup
<1>4. /\ rows' = [j \in DOMAIN rows |-> IF j \in chosen
                    THEN [rows[j] EXCEPT !.stamped = TRUE] ELSE rows[j]]
      /\ \/ cleanup' = [cleanup EXCEPT ![c] = left]
         \/ \E j \in chosen : \E step \in {"deleting", "marking"} :
              cleanup' = [cleanup EXCEPT ![c] = [left EXCEPT
                            !.claim = ClaimOn(rows[j]), !.step = step]]
  BY DEF ClaimForDeletion
<1>. HIDE DEF i, chosen, left
<1>5. RowInv'
  BY <1>1, <1>4, MarkedRows DEF Marked
<1>6. CleanInv'
  <2>1. CASE cleanup' = [cleanup EXCEPT ![c] = left]
    BY <1>1, <1>3, <2>1 DEF CleanInv
  <2>2. ASSUME NEW j \in chosen, NEW step \in {"deleting", "marking"},
               cleanup' = [cleanup EXCEPT ![c] = [left EXCEPT
                            !.claim = ClaimOn(rows[j]), !.step = step]]
        PROVE  CleanInv'
    <3>1. ClaimOn(rows[j]) \in Claim
      BY <1>1, <1>2, RowTypes DEF ClaimOn, Claim
    <3>2. [left EXCEPT !.claim = ClaimOn(rows[j]), !.step = step] \in Cleanup
      BY <1>3, <3>1 DEF Cleanup
    <3>. QED  BY <1>1, <2>2, <3>2 DEF CleanInv
  <2>. QED  BY <1>4, <2>1, <2>2
<1>. QED  BY <1>1, <1>5, <1>6, CleanerOnly DEF CopyInv, copyVars

\* A cleaner that only steps on.
LEMMA CleanerTypes ==
    ASSUME CleanInv, NEW c \in Cleaners
    PROVE  /\ [cleanup EXCEPT ![c].step = "marking"] \in [Cleaners -> Cleanup]
           /\ [cleanup EXCEPT ![c].step = "next", ![c].claim = NoClaim] \in [Cleaners -> Cleanup]
           /\ [cleanup EXCEPT ![c] = NoCleanup] \in [Cleaners -> Cleanup]
<1>1. cleanup[c] \in Cleanup /\ cleanup \in [Cleaners -> Cleanup]
  BY DEF CleanInv
<1>2. /\ [cleanup[c] EXCEPT !.step = "marking"] \in Cleanup
      /\ [cleanup[c] EXCEPT !.step = "next", !.claim = NoClaim] \in Cleanup
  BY <1>1, ParameterTypes DEF Cleanup
<1>. QED  BY <1>1, <1>2, ParameterTypes

LEMMA DeleteStep ==
    ASSUME CopiesInv, NEW c \in Cleaners, NEW p, NEW removed, Deleting(c, p), Deletes(c, removed)
    PROVE  CopiesInv'
<1>. DEFINE claim == cleanup[c].claim
            record == RecordOf(c, claim.provider)
<1>1. UNCHANGED <<scenario, jobVars, lapsed, uploads, handlers>>
      /\ RowInv /\ CopyInv /\ CleanInv
  BY DEF Deleting, CopiesInv
<1>2. cleanup' \in [Cleaners -> Cleanup]
  BY <1>1, CleanerTypes DEF Deletes
<1>3. \/ UNCHANGED <<rows, cache>> /\ hosted' \subseteq hosted
      \/ /\ rows' = rows /\ hosted' \subseteq hosted
         /\ record.status = "live" /\ cache' = [cache EXCEPT ![c][claim.provider].status = "deleted"]
      \/ rows' = Stamped(KeyOf(claim)) /\ UNCHANGED <<hosted, cache>>
  BY DEF Deletes
<1>. HIDE DEF claim, record
<1>4. RowInv' /\ CopyInv'
  <2>1. CASE UNCHANGED <<rows, cache>> /\ hosted' \subseteq hosted
    BY <1>1, <2>1 DEF RowInv, CopyInv
  <2>2. CASE /\ rows' = rows /\ hosted' \subseteq hosted /\ record.status = "live"
             /\ cache' = [cache EXCEPT ![c][claim.provider].status = "deleted"]
    <3>1. CASE c \in Handlers
      BY <1>1, <2>2, <3>1, ForgottenCopy DEF RowInv, CopyInv
    <3>2. CASE c \notin Handlers
      <4>. DEFINE new == [cache[c] EXCEPT ![claim.provider].status = "deleted"]
      <4>1. cache' = cache
        <5>1. cache' = [cache EXCEPT ![c] = new]
          BY <2>2
        <5>. HIDE DEF new
        <5>. QED  BY <1>1, <3>2, <5>1 DEF CopyInv
      <4>2. rows' = rows /\ hosted' \subseteq hosted
        BY <2>2
      <4>. QED  BY <1>1, <4>1, <4>2 DEF RowInv, CopyInv
    <3>. QED  BY <3>1, <3>2
  <2>3. CASE rows' = Stamped(KeyOf(claim)) /\ UNCHANGED <<hosted, cache>>
    <3>1. RowInv'
      BY <1>1, <2>3, MarkedRows DEF Stamped, Marked
    <3>. QED  BY <1>1, <2>3, <3>1 DEF CopyInv
  <2>. QED  BY <1>3, <2>1, <2>2, <2>3
<1>. QED  BY <1>1, <1>2, <1>4, CleanerOnly DEF CleanInv

LEMMA MarkDeletedStep ==
    ASSUME CopiesInv, NEW c \in Cleaners, MarkDeleted(c)
    PROVE  CopiesInv'
<1>1. UNCHANGED <<scenario, jobVars, copyVars, handlers>> /\ RowInv /\ CopyInv /\ CleanInv
  BY DEF MarkDeleted, CopiesInv
<1>2. RowInv'
  BY <1>1, MarkedRows DEF MarkDeleted, Marked
<1>3. CleanInv'
  BY <1>1, CleanerTypes DEF MarkDeleted, CleanInv
<1>. QED  BY <1>1, <1>2, <1>3, CleanerOnly DEF CopyInv, copyVars

LEMMA EndCleanupStep ==
    ASSUME CopiesInv, Cleaning, NEW c \in Cleaners, EndCleanup(c)
    PROVE  CopiesInv'
<1>1. UNCHANGED <<scenario, jobVars, rows, copyVars>> /\ HandlerInv /\ CleanInv
  BY DEF EndCleanup, CopiesInv
<1>2. CleanInv'
  BY <1>1, CleanerTypes DEF EndCleanup, CleanInv
<1>3. HandlerInv'
  <2>1. CASE c = Reconciler
    BY <1>1, <2>1, NoHandler DEF EndCleanup, jobVars, Begun
  <2>2. CASE c # Reconciler
    <3>. DEFINE x == [handlers[c] EXCEPT !.phase = "settling", !.store = NoOrchestrator]
    <3>1. c \in Handlers /\ handlers[c].phase = "cleaning"
      BY <2>2 DEF Cleaners, EndCleanup, Cleaning
    <3>2. handlers[c] \in Handler /\ Sound(handlers[c], policy, source, Begun)
      BY <1>1, <3>1, HandlerTypes
    <3>3. /\ x \in Handler /\ x.phase = "settling" /\ x.excluded = handlers[c].excluded
          /\ x.seen = handlers[c].seen /\ x.dispatches = handlers[c].dispatches
          /\ x.outcome = handlers[c].outcome
      BY <3>2 DEF Handler, Phase
    <3>4. handlers' = [handlers EXCEPT ![c] = x] /\ Begun' = Begun
      BY <1>1, <2>2 DEF EndCleanup, HandlerInv, jobVars, Begun
    <3>. HIDE DEF x
    <3>5. PinnedOnce(x) /\ Progress(x, Begun)
      BY <3>1, <3>2, <3>3 DEF Sound, PinnedOnce, Progress, Ended
    <3>6. Sound(x, policy, source, Begun')
      BY <3>3, <3>4, <3>5 DEF Sound, Staged, Copying
    <3>. QED  BY <1>1, <3>1, <3>3, <3>4, <3>6, OneHandler
  <2>. QED  BY <2>1, <2>2
<1>. QED  BY <1>1, <1>2, <1>3 DEF CopiesInv, JobInv, RowInv, CopyInv, Begun, jobVars, copyVars

LEMMA CleanerSteps ==
    ASSUME CopiesInv, Cleaning, NEW c \in Cleaners, CleanerStep(c)
    PROVE  CopiesInv'
  BY ClaimDeletionStep, DeleteStep, MarkDeletedStep, EndCleanupStep
     DEF CleanerStep, DeleteFromOpenAI, DeleteFromAnthropic, DeleteObject

LEMMA TimeSteps ==
    ASSUME CopiesInv,
           \/ ExhaustAbandonedJob \/ ReconcileStale \/ QuestionExpires \/ ClearExpired
           \/ \E copy \in hosted : CopyExpires(copy)
           \/ \E i \in DOMAIN rows : BackoffElapses(i)
    PROVE  CopiesInv'
<1>1. JobInv /\ RowInv /\ CopyInv /\ CleanInv /\ HandlerInv
  BY DEF CopiesInv
<1>2. ASSUME JobInv', Begun => Begun', UNCHANGED <<scenario, rows, copyVars, handlers, cleanup>>
      PROVE  CopiesInv'
  BY <1>1, <1>2, NoHandler DEF CopiesInv, RowInv, CopyInv, CleanInv, copyVars
<1>3. CASE ExhaustAbandonedJob
  <2>1. JobInv' /\ (Begun => Begun')
    BY <1>1, <1>3 DEF ExhaustAbandonedJob, JobInv, Begun, RequestStatus, Terminal
  <2>. QED  BY <1>2, <1>3, <2>1 DEF ExhaustAbandonedJob
<1>4. CASE ReconcileStale
  <2>1. PICK upto \in DOMAIN request :
          request' = [i \in DOMAIN request |-> IF i <= upto /\ request[i] = "running"
                                              THEN "failed" ELSE request[i]]
    BY <1>4 DEF ReconcileStale
  <2>2. request \in Seq(RequestStatus) /\ request # << >> /\ "failed" \in RequestStatus
    BY <1>1 DEF JobInv, RequestStatus, Terminal
  <2>3. \A i \in DOMAIN request : request'[i] \in RequestStatus
                                  /\ (request[i] # "queued" => request'[i] # "queued")
    BY <2>1, <2>2
  <2>4. request' \in Seq(RequestStatus) /\ request' # << >> /\ DOMAIN request' = DOMAIN request
    <3>1. DOMAIN request = 1..Len(request) /\ Len(request) \in Nat /\ 1 \in DOMAIN request
      BY <2>2
    <3>2. request' = [i \in 1..Len(request) |-> request'[i]]
      BY <2>1, <3>1
    <3>3. request' \in [1..Len(request) -> RequestStatus]
      BY <2>3, <3>1, <3>2
    <3>. QED  BY <3>1, <3>3
  <2>5. JobInv' /\ (Begun => Begun')
    BY <1>1, <1>4, <2>2, <2>3, <2>4 DEF ReconcileStale, JobInv, Begun
  <2>. QED  BY <1>2, <1>4, <2>5 DEF ReconcileStale
<1>5. CASE QuestionExpires
  <2>1. JobInv' /\ (Begun => Begun')
    BY <1>1, <1>5 DEF QuestionExpires, JobInv, Begun
  <2>. QED  BY <1>2, <1>5, <2>1 DEF QuestionExpires
<1>6. CASE ClearExpired
  <2>1. request \in Seq(RequestStatus) /\ request # << >> /\ "failed" \in RequestStatus
    BY <1>1 DEF JobInv, RequestStatus, Terminal
  <2>2. CASE request[1] = "queued"
    <3>1. request' = [request EXCEPT ![1] = "failed"]
      BY <1>6, <2>2 DEF ClearExpired, FailsQueued
    <3>2. /\ request' \in Seq(RequestStatus) /\ request' # << >> /\ request'[1] = "failed"
          /\ \A i \in DOMAIN request' : i \in DOMAIN request /\ (i > 1 => request'[i] = request[i])
      BY <2>1, <3>1
    <3>3. JobInv' /\ (Begun => Begun')
      BY <1>1, <1>6, <3>2 DEF ClearExpired, JobInv, Begun
    <3>. QED  BY <1>2, <1>6, <3>3 DEF ClearExpired
  <2>3. CASE request[1] # "queued"
    <3>1. request' = request
      BY <1>6, <2>3 DEF ClearExpired, FailsQueued
    <3>2. JobInv' /\ (Begun => Begun')
      BY <1>1, <1>6, <2>3, <3>1 DEF ClearExpired, JobInv, Begun
    <3>. QED  BY <1>2, <1>6, <3>2 DEF ClearExpired
  <2>. QED  BY <2>2, <2>3
<1>7. ASSUME NEW copy \in hosted, CopyExpires(copy)
      PROVE  CopiesInv'
  <2>1. RowInv' /\ CopyInv' /\ CleanInv'
    BY <1>1, <1>7 DEF CopyExpires, RowInv, CopyInv, CleanInv
  <2>. QED  BY <1>7, <2>1, CleanerOnly DEF CopyExpires
<1>8. ASSUME NEW i \in DOMAIN rows, BackoffElapses(i)
      PROVE  CopiesInv'
  <2>1. rows' = [rows EXCEPT ![i] = [rows[i] EXCEPT !.stamped = FALSE]]
        /\ UNCHANGED <<scenario, jobVars, copyVars, handlers, cleanup>>
    BY <1>8 DEF BackoffElapses
  <2>2. rows = [j \in DOMAIN rows |-> rows[j]]
    BY <1>1 DEF RowInv
  <2>3. rows' = [j \in DOMAIN rows |-> rows'[j]]
        /\ \A j \in DOMAIN rows : Marked(rows[j], rows'[j])
    BY <2>1, <2>2 DEF Marked
  <2>4. RowInv'
    BY <1>1, <2>3, MarkedRows
  <2>. QED  BY <1>1, <2>1, <2>4, CleanerOnly DEF CopyInv, CleanInv, copyVars
<1>. QED  BY <1>3, <1>4, <1>5, <1>6, <1>7, <1>8

-----------------------------------------------------------------------------
(* The deletions of a handler are within its cleaning.                     *)

\* The other handlers stand still.
Only(h) == \A k \in Handlers \ {h} : handlers'[k] = handlers[k]

LEMMA OnlyThis ==
    ASSUME HandlerInv, NEW h \in Handlers, HandlerStep(h)
    PROVE  Only(h)
<1>. USE DEF HandlerInv, Only
<1>1. ASSUME NEW phase, Moves(h, phase) PROVE Only(h)
  BY <1>1 DEF Moves
<1>2. ASSUME Fails(h) \/ Ends(h) PROVE Only(h)
  BY <1>2 DEF Fails, Ends
<1>3. ASSUME NEW copy, Dispatchable(h, copy) \/ Returns(h, copy) PROVE Only(h)
  BY <1>3 DEF Dispatchable, Returns
<1>. HIDE DEF HandlerInv, Only
<1>4. ASSUME ClaimDispatch(h) \/ LoadRequest(h) PROVE Only(h)
  BY <1>4 DEF ClaimDispatch, LoadRequest, HandlerInv, Only
<1>5. ASSUME RouteModel(h) PROVE Only(h)
  BY <1>2, <1>5 DEF RouteModel, HandlerInv, Only
<1>6. ASSUME FindReusable(h) \/ PersistReference(h) \/ MintUrl(h) \/ Finalize(h) PROVE Only(h)
  BY <1>1, <1>2, <1>3, <1>6 DEF FindReusable, PersistReference, MintUrl, Finalize
<1>7. ASSUME UploadToOpenAI(h) \/ UploadToAnthropic(h) \/ StageObject(h) PROVE Only(h)
  BY <1>2, <1>3, <1>7 DEF UploadToOpenAI, UploadToAnthropic, StageObject, ReturnsRemembered,
                          FailsToUpload, RefusesObject
<1>8. ASSUME Reserve(h) \/ CallProvider(h) \/ Settle(h) PROVE Only(h)
  BY <1>1, <1>2, <1>8 DEF Reserve, CallProvider, Settle, EndsStale, HandlerInv, Only
<1>9. ASSUME ClearQuestion(h) \/ SettleJob(h) \/ HandlerRaises(h) \/ WorkerCrash(h)
      PROVE  Only(h)
  BY <1>1, <1>2, <1>9 DEF ClearQuestion, SettleJob, EndsStale, HandlerRaises, WorkerCrash
<1>. QED  BY <1>4, <1>5, <1>6, <1>7, <1>8, <1>9 DEF HandlerStep

LEMMA HandlerCleans ==
    ASSUME CopiesInv, Cleaning, NEW h \in Handlers, HandlerStep(h)
    PROVE  Cleaning'
<1>1. HandlerInv /\ CleanInv /\ h \in Cleaners /\ Handlers \subseteq Cleaners
  BY DEF CopiesInv, Cleaners
<1>2. \/ handlers[h].phase # "cleaning" /\ cleanup' = cleanup
      \/ cleanup' = [cleanup EXCEPT ![h] = NoCleanup]
      \/ Finalize(h)
  BY DEF HandlerStep, ClaimDispatch, LoadRequest, RouteModel, FindReusable, UploadToOpenAI,
         UploadToAnthropic, StageObject, Staging, PersistReference, MintUrl, Reserve, EndsStale,
         CallProvider, Settle, ClearQuestion, SettleJob, HandlerRaises, WorkerCrash, Ends,
         Active
<1>3. ASSUME NEW k \in Handlers \ {h}
      PROVE  handlers'[k] = handlers[k] /\ cleanup'[k] = cleanup[k]
  <2>1. handlers'[k] = handlers[k]
    BY <1>1, OnlyThis DEF Only
  <2>2. cleanup'[k] = cleanup[k]
    BY <1>1, <1>2 DEF CleanInv, Finalize
  <2>. QED  BY <2>1, <2>2
<1>4. cleanup'[h].step # "off" => handlers'[h].phase = "cleaning"
  <2>1. CASE handlers[h].phase # "cleaning" /\ cleanup' = cleanup
    BY <2>1 DEF Cleaning
  <2>2. CASE cleanup' = [cleanup EXCEPT ![h] = NoCleanup]
    BY <1>1, <2>2 DEF CleanInv, NoCleanup
  <2>3. CASE Finalize(h)
    <3>1. handlers' = [handlers EXCEPT ![h] = [handlers[h] EXCEPT !.phase = "cleaning"]]
      BY <1>1, <2>3 DEF Finalize, Moves, HandlerInv
    <3>2. handlers[h] \in Handler /\ handlers \in [Handlers -> Handler]
      BY <1>1 DEF HandlerInv
    <3>3. [handlers[h] EXCEPT !.phase = "cleaning"].phase = "cleaning"
      BY <3>2 DEF Handler
    <3>. QED  BY <3>1, <3>2, <3>3
  <2>. QED  BY <1>2, <2>1, <2>2, <2>3
<1>. QED  BY <1>3, <1>4 DEF Cleaning

LEMMA CleanerCleans ==
    ASSUME CopiesInv, Cleaning, NEW c \in Cleaners, CleanerStep(c)
    PROVE  Cleaning'
<1>1. HandlerInv /\ CleanInv /\ cleanup[c] \in Cleanup /\ Handlers \subseteq Cleaners
  BY DEF CopiesInv, CleanInv, Cleaners
<1>2. CASE EndCleanup(c)
  <2>1. cleanup' = [cleanup EXCEPT ![c] = NoCleanup]
        /\ \A k \in Handlers \ {c} : handlers'[k] = handlers[k]
    BY <1>1, <1>2 DEF EndCleanup, HandlerInv
  <2>. QED  BY <1>1, <2>1 DEF Cleaning, CleanInv, NoCleanup
<1>3. CASE ~EndCleanup(c)
  <2>1. handlers' = handlers /\ cleanup[c].step # "off"
    BY <1>3 DEF CleanerStep, ClaimForDeletion, DeleteFromOpenAI, DeleteFromAnthropic,
                DeleteObject, Deleting, MarkDeleted
  <2>2. PICK x : cleanup' = [cleanup EXCEPT ![c] = x]
    BY <1>1, <1>3 DEF CleanerStep, ClaimForDeletion, DeleteFromOpenAI, DeleteFromAnthropic,
                DeleteObject, Deletes, MarkDeleted
  <2>. QED  BY <1>1, <2>1, <2>2 DEF Cleaning, CleanInv
<1>. QED  BY <1>2, <1>3

LEMMA CopiesNext ==
    ASSUME CopiesInv, Cleaning, [TransfersNext]_transferVars
    PROVE  CopiesInv' /\ Cleaning'
<1>1. ASSUME NEW h \in Handlers, HandlerStep(h)
      PROVE  CopiesInv' /\ Cleaning'
  BY <1>1, HandlerSteps, HandlerCleans
<1>2. ASSUME NEW c \in Cleaners, CleanerStep(c)
      PROVE  CopiesInv' /\ Cleaning'
  BY <1>2, CleanerSteps, CleanerCleans
<1>3. CASE SweepClaims
  <2>1. handlers' = handlers /\ \A h \in Handlers : cleanup'[h] = cleanup[h]
    BY <1>3, ActorsAssumption DEF SweepClaims, CopiesInv, CleanInv, Cleaners
  <2>. QED  BY <1>3, <2>1, SweepClaimsStep DEF Cleaning
<1>4. CASE \/ ExhaustAbandonedJob \/ ReconcileStale \/ QuestionExpires \/ ClearExpired
           \/ \E copy \in hosted : CopyExpires(copy)
           \/ \E i \in DOMAIN rows : BackoffElapses(i)
  <2>1. UNCHANGED <<handlers, cleanup>>
    BY <1>4 DEF ExhaustAbandonedJob, ReconcileStale, QuestionExpires, ClearExpired, CopyExpires,
                BackoffElapses
  <2>. QED  BY <1>4, <2>1, TimeSteps DEF Cleaning
<1>5. CASE UNCHANGED transferVars
  <2>1. UNCHANGED <<scenario, jobVars, rows, copyVars, handlers, cleanup>>
    BY <1>5 DEF transferVars, jobVars, copyVars
  <2>2. HandlerInv'
    BY <2>1, NoHandler DEF CopiesInv, Begun, jobVars
  <2>. QED  BY <2>1, <2>2, HandlerOnly DEF Cleaning
<1>. QED  BY <1>1, <1>2, <1>3, <1>4, <1>5 DEF TransfersNext

\* The inductive invariant of the provider copies.
THEOREM CopiesInvariant == TransfersSpec => [](CopiesInv /\ Cleaning)
<1>1. TransfersInit => CopiesInv /\ Cleaning
  BY CopiesInit DEF TransfersInit, Cleaning, Cleaners, NoCleanup
<1>2. CopiesInv /\ Cleaning /\ [TransfersNext]_transferVars => CopiesInv' /\ Cleaning'
  BY CopiesNext
<1>. QED  BY <1>1, <1>2, PTL DEF TransfersSpec

-----------------------------------------------------------------------------
(* What it is for.                                                         *)

\* TransfersTypeOK, of every process, row and copy.
THEOREM TransfersTypeInvariant == TransfersSpec => []TransfersTypeOK
<1>1. CopiesInv => TransfersTypeOK
  BY DEF CopiesInv, JobInv, RowInv, CopyInv, HandlerInv, CleanInv, TransfersTypeOK
<1>. QED  BY <1>1, CopiesInvariant, PTL

\* Wherever a handler stands, a model that Route returns for attachments that were
\* read has a mode select_transfer_mode_for_policy agrees to: Carriers asked for it,
\* and the choice by cost takes the least of the candidates, not another one.
THEOREM RouterAgrees == TransfersSpec => []RouterAgreesWithSelector
<1>1. CopiesInv => RouterAgreesWithSelector
  <2>. SUFFICES ASSUME CopiesInv, NEW h \in Handlers, ~Large(source),
                       NEW m, m = Route(policy, source, handlers[h].excluded), m # NoModel
                PROVE  ModeForPolicy(m, policy, source) # NoMode
    BY DEF RouterAgreesWithSelector
  <2>1. m \in Carriers(policy, source)
    BY RouteRules
  <2>2. Attachments(source) # << >>
    BY GivenTypes DEF CopiesInv, HandlerInv, Attachments, SourceIsGiven
  <2>. QED  BY <2>1, <2>2 DEF Carriers
<1>. QED  BY <1>1, CopiesInvariant, PTL

\* What the provider is called with was allowed when the model was chosen (Chosen), is
\* what the selectors promise (ModeRules), and the copy, staged now or found in a row
\* or in a store's record, is this provider's own (HoldsItsCopy).
THEOREM DispatchPermitted == TransfersSpec => []DispatchIsPermitted
<1>1. CopiesInv => DispatchIsPermitted
  <2>. SUFFICES ASSUME CopiesInv, NEW h \in Handlers, handlers[h].phase = "calling"
                PROVE  LET m == handlers[h].model
                           size == Aggregate(source)
                       IN  /\ ProviderOf(m) \in AllowedProviders(policy) /\ m \in AllowedModels(policy)
                           /\ Mode(h) \in policy.modes \cap Task.modes \cap ModelOf[m].modes
                           /\ Mode(h) \in DOMAIN Contract[ProviderOf(m)]
                           /\ Mode(h) = Inline <=> size <= Threshold
                           /\ Mode(h) # Inline => size <= policy.max /\ size <= Deployment.max
                           /\ Mode(h) \in CopyModes => handlers[h].copy.provider = ProviderOf(m)
    BY DEF DispatchIsPermitted
  <2>. DEFINE m == handlers[h].model
  <2>1. Chosen(handlers[h], policy, source) /\ HoldsItsCopy(handlers[h], policy, source)
    BY DEF CopiesInv, HandlerInv, Sound, Staged, Copying
  <2>2. m \in Models /\ Mode(h) = ModeForPolicy(m, policy, source) /\ Mode(h) # NoMode
    BY <2>1 DEF Chosen, Mode
  <2>3. SourceIsGiven(source)
    BY GivenTypes DEF CopiesInv, HandlerInv
  <2>4. /\ Mode(h) \in policy.modes \cap Task.modes \cap ModelOf[m].modes \cap Modes
        /\ Mode(h) \in DOMAIN Contract[ProviderOf(m)]
        /\ Mode(h) = Inline <=> Aggregate(source) <= Threshold
        /\ Mode(h) # Inline => Aggregate(source) <= policy.max
                               /\ Aggregate(source) <= Deployment.max
    <3>. HIDE DEF m
    <3>. QED  BY <2>2, <2>3, ModeRules
  <2>. QED  BY <2>1, <2>2, <2>4 DEF Chosen, HoldsItsCopy
<1>. QED  BY <1>1, CopiesInvariant, PTL

\* _fallback_allows keeps every model of an execution in the region of the pinned
\* ones it excluded before, which is one region (PinnedOnce).
THEOREM RegionKept == TransfersSpec => []ExecutionStaysInItsRegion
<1>1. CopiesInv => ExecutionStaysInItsRegion
  <2>. SUFFICES ASSUME CopiesInv, NEW h \in Handlers, handlers[h].phase = "calling",
                       NEW e \in handlers[h].excluded
                PROVE  \/ RegionOf[ProviderOf(e)] = Unpinned
                       \/ RegionOf[ProviderOf(e)] = RegionOf[Provider(h)]
    BY DEF ExecutionStaysInItsRegion
  <2>1. SameRegion(handlers[h].model, handlers[h].excluded) /\ PinnedOnce(handlers[h])
    BY DEF CopiesInv, HandlerInv, Sound, Chosen, Staged
  <2>. QED  BY <2>1 DEF SameRegion, PinnedOnce, Provider
<1>. QED  BY <1>1, CopiesInvariant, PTL

\* A question is only removed when its first row is no longer queued, and no later row
\* ever is: the sweep's predicate on the latest row does not miss a file.
THEOREM UploadsReachable == TransfersSpec => []UploadRowsAreReachable
<1>1. CopiesInv => UploadRowsAreReachable
  <2>. SUFFICES ASSUME CopiesInv, question = "none"
                PROVE  Latest \in Terminal \union {"running"}
    BY DEF UploadRowsAreReachable
  <2>1. /\ request \in Seq(RequestStatus) /\ request # << >> /\ request[1] # "queued"
        /\ \A i \in DOMAIN request : i > 1 => request[i] # "queued"
    BY DEF CopiesInv, JobInv, Begun
  <2>2. Len(request) \in DOMAIN request /\ Latest = request[Len(request)]
    BY <2>1 DEF Latest, Last
  <2>3. request[Len(request)] \in RequestStatus /\ request[Len(request)] # "queued"
    BY <2>1, <2>2
  <2>. QED  BY <2>2, <2>3 DEF RequestStatus
<1>. QED  BY <1>1, CopiesInvariant, PTL
=============================================================================
