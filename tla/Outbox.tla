------------------------------- MODULE Outbox -------------------------------
(***************************************************************************)
(* The outbox rows of one aggregate and the coordinators' claims on them:  *)
(* modules/outbox/ and job_coordinator/loop.py.  A coordinator claims a    *)
(* due row in one transaction, publishes it outside any lock, and settles  *)
(* or releases the claim in a third transaction, which affects a row only  *)
(* while that row is still "publishing" under the claim's own token.       *)
(*                                                                         *)
(* A publisher is one claimed row in some coordinator's hands (a           *)
(* coordinator's batch holds several).  Claim tokens are random and only   *)
(* compared; a publisher holds one claim at a time and is free again only  *)
(* when that claim is settled or dropped, so its own name serves as the    *)
(* token.  Each row has one clock comparison that matters in each status:  *)
(*   pending     available_at <= now                       (it is due)     *)
(*   publishing  claimed_at < now - publication lease      (it is stale)   *)
(*   published   processed_at <= the reconciliation cutoff (it is old)     *)
(* "elapsed" says whether the comparison of the row's status holds.        *)
(***************************************************************************)
EXTENDS Naturals

CONSTANTS
    DispatchIds,     \* identities of outbox rows
    NoId,            \* NULL
    Publishers,      \* claims that may be in flight at once, over all coordinators
    NoPublisher

ASSUME OutboxAssumption == NoId \notin DispatchIds /\ NoPublisher \notin Publishers

VARIABLES
    outbox,          \* the rows, by id
    pubs             \* the claims in flight

outboxVars == <<outbox, pubs>>

Event == [status : {"none", "pending", "publishing", "published"},
          elapsed : BOOLEAN,
          claim_token : Publishers \union {NoPublisher}]
NoEvent == [status |-> "none", elapsed |-> FALSE, claim_token |-> NoPublisher]
PendingEvent(due) ==
    [status |-> "pending", elapsed |-> due, claim_token |-> NoPublisher]

\* "claimed" before publish_event; then what it returned: PUBLISHED,
\* TRANSIENT or DEAD.
Claim == [phase : {"idle", "claimed", "published", "transient", "dead"},
          event : DispatchIds \union {NoId}]
Idle == [phase |-> "idle", event |-> NoId]

OutboxTypeOK ==
    /\ outbox \in [DispatchIds -> Event]
    /\ pubs \in [Publishers -> Claim]

OutboxInit ==
    /\ outbox = [e \in DispatchIds |-> NoEvent]
    /\ pubs = [c \in Publishers |-> Idle]

-----------------------------------------------------------------------------
PublishedEvents == {e \in DispatchIds : outbox[e].status = "published"}

\* Mutant of ActiveEvents: a published event still counts as on its way.
ActiveEvents_Published == {e \in DispatchIds : outbox[e].status # "none"}

\* Not yet with the broker.
ActiveEvents == {e \in DispatchIds : outbox[e].status \in {"pending", "publishing"}}

\* Old published rows that no query can select any more are history: the
\* sweeps read the aggregate's newest published row and its current one.
Forget(rows, current) ==
    LET published == {e \in DispatchIds : rows[e].status = "published"}
        history == {e \in published \ {current} :
                      /\ rows[e].elapsed
                      /\ \E f \in published \ {e} : f = current \/ ~rows[f].elapsed}
    IN  [e \in DispatchIds |-> IF e \in history THEN NoEvent ELSE rows[e]]

ClaimDueEvents(c) ==
    /\ pubs[c] = Idle
    /\ \E e \in DispatchIds :
         /\ outbox[e].status = "pending" /\ outbox[e].elapsed
         /\ outbox' = [outbox EXCEPT ![e] = [status |-> "publishing",
                                             elapsed |-> FALSE,
                                             claim_token |-> c]]
         /\ pubs' = [pubs EXCEPT ![c] = [phase |-> "claimed", event |-> e]]

ReclaimStaleClaims(c) ==
    /\ pubs[c] = Idle
    /\ \E e \in DispatchIds :
         /\ outbox[e].status = "publishing" /\ outbox[e].elapsed
         /\ outbox' = [outbox EXCEPT ![e].elapsed = FALSE, ![e].claim_token = c]
         /\ pubs' = [pubs EXCEPT ![c] = [phase |-> "claimed", event |-> e]]

\* publish_event returned; whether a message reached the broker is the
\* caller's business.
PublishReturns(c, outcome) ==
    /\ pubs[c].phase = "claimed"
    /\ pubs' = [pubs EXCEPT ![c].phase = outcome]
    /\ outbox' = outbox

\* Mutant of OwnsClaim: the token is not compared.
OwnsClaim_AnyToken(c) == outbox[pubs[c].event].status = "publishing"

\* The predicate of every settlement: the row is still under this claim.
OwnsClaim(c) ==
    /\ outbox[pubs[c].event].status = "publishing"
    /\ outbox[pubs[c].event].claim_token = c

SettlePublished(c, current) ==
    /\ pubs[c].phase = "published"
    /\ pubs' = [pubs EXCEPT ![c] = Idle]
    /\ outbox' = IF OwnsClaim(c)
                 THEN Forget([outbox EXCEPT ![pubs[c].event] =
                                [status |-> "published", elapsed |-> FALSE,
                                 claim_token |-> NoPublisher]], current)
                 ELSE outbox

\* A dead row is read by no query of the delivery path.
MarkDead(c) == outbox' = [outbox EXCEPT ![pubs[c].event] = NoEvent]

ReleaseClaim(c) ==
    /\ pubs[c].phase = "transient"
    /\ pubs' = [pubs EXCEPT ![c] = Idle]
    /\ outbox' = IF OwnsClaim(c)
                 THEN [outbox EXCEPT ![pubs[c].event] = PendingEvent(FALSE)]
                 ELSE outbox

\* The coordinator stops, or loses its database, with the claim unsettled.
DropClaim(c) ==
    /\ pubs[c].phase # "idle"
    /\ pubs' = [pubs EXCEPT ![c] = Idle]
    /\ outbox' = outbox

EventElapses ==
    /\ \E e \in DispatchIds :
         /\ outbox[e].status \in {"pending", "publishing"} /\ ~outbox[e].elapsed
         /\ outbox' = [outbox EXCEPT ![e].elapsed = TRUE]
    /\ pubs' = pubs
=============================================================================
