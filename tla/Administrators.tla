--------------------------- MODULE Administrators ---------------------------
(***************************************************************************)
(* Who administers the platform: modules/platform_admin, and the user      *)
(* deactivation of modules/webhooks.                                       *)
(*                                                                         *)
(* Grants, revocations, deactivations, recoveries and teardowns run under  *)
(* one transaction-scoped advisory lock; the one-time bootstrap grant of   *)
(* the login path does not take it and relies on the primary key of        *)
(* bootstrap_states.  An administrator is somebody who holds the platform  *)
(* role; an enabled one is also active in users, hence able to sign in.    *)
(*                                                                         *)
(* A request that holds the lock has read what it needs ("locked") and     *)
(* commits later; a request whose transaction fails at any point writes    *)
(* nothing.                                                                *)
(***************************************************************************)
EXTENDS Naturals, FiniteSets

CONSTANTS
    Users,           \* WorkOS accounts
    NoUser,
    Configured,      \* accounts that may own BOOTSTRAP_PLATFORM_ADMIN_EMAIL
    Requests         \* transactions that may be open at once

ASSUME UsersAssumption == NoUser \notin Users /\ Configured \subseteq Users

VARIABLES
    gone,            \* accounts deleted at WorkOS
    exists,          \* rows of users
    active,          \* users.is_active
    admins,          \* rows of platform_memberships
    bootstrap,       \* bootstrap_states.consumed_by_user_id, or NoUser
    organisations,   \* organisations with the configured bootstrap name
    processed,       \* user.deleted events in webhook_events
    requests,
    audit,           \* how often each audited action was recorded
    teardowns        \* bootstrap rows that a teardown removed

rows == <<exists, active, admins, bootstrap, organisations>>
ledger == <<audit, teardowns>>
vars == <<gone, rows, processed, requests, ledger>>

Op == {"grant", "revoke", "deactivate", "recover", "teardown", "bootstrap"}

\* "admitted": authenticated and permitted, or called; "locked": the advisory
\* lock is held and the rows are read; "unconsumed": no bootstrap row was found.
\* found: the membership (grant), or the bootstrap organisation, was there.
Request == [op : Op, phase : {"admitted", "locked", "unconsumed"},
            actor : Users \union {NoUser}, user : Users,
            lockout : BOOLEAN, found : BOOLEAN]
           \union {[phase |-> "idle"]}
Idle == [phase |-> "idle"]

\* The audited actions that can be counted; the others are left out.
Audited == {"lockout", "recovered", "bootstrapped"}

\* The enabled administrators: active_platform_admins_statement.
Enabled == admins \intersect active

TypeOK ==
    /\ gone \subseteq Users /\ processed \subseteq gone
    /\ exists \subseteq Users /\ active \subseteq exists /\ admins \subseteq exists
    /\ bootstrap \in exists \union {NoUser}
    /\ organisations \in Nat
    /\ requests \in [Requests -> Request]
    /\ audit \in [Audited -> Nat]
    /\ teardowns \in Nat

Init ==
    /\ gone = {} /\ processed = {}
    /\ exists = {} /\ active = {} /\ admins = {}
    /\ bootstrap = NoUser
    /\ organisations = 0
    /\ requests = [r \in Requests |-> Idle]
    /\ audit = [a \in Audited |-> 0]
    /\ teardowns = 0

-----------------------------------------------------------------------------
(* Transactions.                                                           *)

Free(r) == requests[r].phase = "idle"
At(r, op, phase) == requests[r].phase = phase /\ requests[r].op = op

Opens(r, op, actor, user) ==
    /\ Free(r)
    /\ requests' = [requests EXCEPT ![r] =
         [op |-> op, phase |-> "admitted", actor |-> actor, user |-> user,
          lockout |-> FALSE, found |-> FALSE]]
    /\ UNCHANGED <<rows, ledger>>

Ends(r) == requests' = [requests EXCEPT ![r] = Idle]

\* The request is refused, or finds nothing to do.
EndsUnchanged(r) == Ends(r) /\ UNCHANGED <<rows, processed, ledger>>

Records(actions) ==
    audit' = [a \in Audited |-> audit[a] + (IF a \in actions THEN 1 ELSE 0)]

\* Mutant of LockIsFree: the transactions do not exclude each other.
LockIsFree_Ignored == TRUE

\* acquire_platform_admin_lock
LockIsFree == \A r \in Requests : requests[r].phase # "locked"

\* FOR UPDATE on the user's row keeps out an insert that refers to it.
RowIsFree(u) ==
    \A r \in Requests :
        /\ requests[r].phase = "locked"
        /\ requests[r].op \in {"deactivate", "recover", "teardown"}
        => requests[r].user # u

Locks(r, lockout, found) ==
    /\ requests' = [requests EXCEPT ![r].phase = "locked", ![r].lockout = lockout,
                                    ![r].found = found]
    /\ UNCHANGED <<rows, processed, ledger>>

\* The process dies, the client goes away, or the database fails.
Rollback(r) ==
    /\ ~Free(r)
    /\ EndsUnchanged(r)
    /\ UNCHANGED gone

-----------------------------------------------------------------------------
(* Signing in, and the bootstrap grant.                                    *)

\* At WorkOS; its event is delivered until it is acknowledged.
DeleteAccount(u) ==
    /\ gone' = gone \union {u}
    /\ UNCHANGED <<rows, processed, requests, ledger>>

\* get_or_provision_user and get_current_user; a disabled user gets no further.
SignsIn(u) == u \notin gone /\ (u \in exists => u \in active)

\* The hook goes on if the verified address is the configured one just now.
Authenticate(r, u) ==
    /\ Free(r)
    /\ SignsIn(u)
    /\ exists' = exists \union {u}
    /\ active' = active \union {u}
    /\ \/ requests' = requests
       \/ /\ u \in Configured
          /\ requests' = [requests EXCEPT ![r] =
               [op |-> "bootstrap", phase |-> "admitted", actor |-> NoUser,
                user |-> u, lockout |-> FALSE, found |-> FALSE]]
    /\ UNCHANGED <<gone, admins, bootstrap, organisations, processed, ledger>>

\* The sentinel, then _ensure_bootstrap_organisation's read.
ReadBootstrap(r) ==
    /\ At(r, "bootstrap", "admitted")
    /\ requests' = IF bootstrap = NoUser
                   THEN [requests EXCEPT ![r].phase = "unconsumed",
                                         ![r].found = organisations > 0]
                   ELSE [requests EXCEPT ![r] = Idle]
    /\ UNCHANGED <<gone, rows, processed, ledger>>

\* Mutant of Consumable: the sentinel is trusted as it was read.
Consumable_Unguarded(u) == u \in exists \ admins

\* The constraints of the three inserts: the sentinel's primary key, the
\* unique membership, the foreign key to users.
Consumable(u) == bootstrap = NoUser /\ u \in exists \ admins

\* One transaction: organisation, membership, sentinel and audit row.  A
\* violated constraint rolls it back: consumed by another, or 503.
CommitBootstrap(r) ==
    LET u == requests[r].user IN
    /\ At(r, "bootstrap", "unconsumed")
    /\ RowIsFree(u)
    /\ \/ /\ Consumable(u)
          /\ admins' = admins \union {u}
          /\ bootstrap' = u
          /\ organisations' = organisations + (IF requests[r].found THEN 0 ELSE 1)
          /\ Records({"bootstrapped"})
          /\ Ends(r)
          /\ UNCHANGED <<exists, active, processed, teardowns>>
       \/ ~Consumable(u) /\ EndsUnchanged(r)
    /\ UNCHANGED gone

-----------------------------------------------------------------------------
(* The administrators' own requests.                                       *)

\* get_current_user and require_platform_permission, before the lock.
Permitted(a) == SignsIn(a) /\ a \in Enabled

AdmitGrant(r, a, u) ==
    /\ Permitted(a)
    /\ Opens(r, "grant", a, u)
    /\ UNCHANGED <<gone, processed>>

AdmitRevoke(r, a, u) ==
    /\ Permitted(a)
    /\ Opens(r, "revoke", a, u)
    /\ UNCHANGED <<gone, processed>>

\* The row of the actor is the one the session read when it authenticated.
SeenActive(r) == requests[r].user \in active \union {requests[r].actor}

\* Nothing is written for an administrator, a stranger or a disabled user.
LockForGrant(r) ==
    /\ At(r, "grant", "admitted")
    /\ LockIsFree
    /\ IF requests[r].user \in exists \ admins /\ SeenActive(r)
       THEN Locks(r, FALSE, FALSE)
       ELSE EndsUnchanged(r)
    /\ UNCHANGED gone

\* A bootstrap grant may have come first: the unique membership.
CommitGrant(r) ==
    LET u == requests[r].user IN
    /\ At(r, "grant", "locked")
    /\ \/ /\ u \notin admins
          /\ admins' = admins \union {u}
          /\ Ends(r)
          /\ UNCHANGED <<exists, active, bootstrap, organisations, processed, ledger>>
       \/ u \in admins /\ EndsUnchanged(r)
    /\ UNCHANGED gone

\* One enabled administrator must remain.
MayRevoke(r) == SeenActive(r) => Cardinality(Enabled) > 1

LockForRevoke(r) ==
    /\ At(r, "revoke", "admitted")
    /\ LockIsFree
    /\ IF requests[r].user \in admins /\ MayRevoke(r)
       THEN Locks(r, FALSE, TRUE)
       ELSE EndsUnchanged(r)
    /\ UNCHANGED gone

CommitRevoke(r) ==
    /\ At(r, "revoke", "locked")
    /\ admins' = admins \ {requests[r].user}
    /\ Ends(r)
    /\ UNCHANGED <<gone, exists, active, bootstrap, organisations, processed, ledger>>

-----------------------------------------------------------------------------
(* Removals from outside: the WorkOS webhook and the teardown script.      *)

\* platform_admin_deactivation_locks_out
LocksOut(u) == u \in admins /\ Enabled \subseteq {u}

\* process_webhook_event: an event in the ledger is a duplicate.  The insert of
\* the same event waits for the transaction that already made it.
DeliverDeletion(r, u) ==
    /\ u \in gone \ processed
    /\ \A q \in Requests : ~(~Free(q) /\ requests[q].op = "deactivate" /\ requests[q].user = u)
    /\ Opens(r, "deactivate", NoUser, u)
    /\ UNCHANGED <<gone, processed>>

\* Somebody unknown, or disabled already: only the event is recorded.
LockForDeactivation(r) ==
    LET u == requests[r].user IN
    /\ At(r, "deactivate", "admitted")
    /\ LockIsFree
    /\ \/ u \in active /\ Locks(r, LocksOut(u), FALSE)
       \/ /\ u \notin active
          /\ processed' = processed \union {u}
          /\ Ends(r)
          /\ UNCHANGED <<rows, ledger>>
    /\ UNCHANGED gone

CommitDeactivation(r) ==
    LET u == requests[r].user IN
    /\ At(r, "deactivate", "locked")
    /\ active' = active \ {u}
    /\ processed' = processed \union {u}
    /\ Records(IF requests[r].lockout THEN {"lockout"} ELSE {})
    /\ Ends(r)
    /\ UNCHANGED <<gone, exists, admins, bootstrap, organisations, teardowns>>

\* The script deletes the account at WorkOS first.
CallTeardown(r, u) ==
    /\ gone' = gone \union {u}
    /\ Opens(r, "teardown", NoUser, u)
    /\ UNCHANGED processed

LockForTeardown(r) ==
    /\ At(r, "teardown", "admitted")
    /\ LockIsFree
    /\ IF requests[r].user \in exists
       THEN Locks(r, LocksOut(requests[r].user), FALSE)
       ELSE EndsUnchanged(r)
    /\ UNCHANGED gone

\* Memberships and the bootstrap row go with the user's row.
CommitTeardown(r) ==
    LET u == requests[r].user IN
    /\ At(r, "teardown", "locked")
    /\ exists' = exists \ {u}
    /\ active' = active \ {u}
    /\ admins' = admins \ {u}
    /\ bootstrap' = IF bootstrap = u THEN NoUser ELSE bootstrap
    /\ teardowns' = teardowns + (IF bootstrap = u THEN 1 ELSE 0)
    /\ Records(IF requests[r].lockout THEN {"lockout"} ELSE {})
    /\ Ends(r)
    /\ UNCHANGED <<gone, organisations, processed>>

-----------------------------------------------------------------------------
(* The operator's recovery of a locked-out platform.                       *)

CallRecovery(r, u) ==
    /\ Opens(r, "recover", NoUser, u)
    /\ UNCHANGED <<gone, processed>>

\* Mutant of MayRecover: the count of the remaining administrators is skipped.
MayRecover_Anyone(u) == u \in active

MayRecover(u) == u \in active /\ Enabled = {}

LockForRecovery(r) ==
    /\ At(r, "recover", "admitted")
    /\ LockIsFree
    /\ IF MayRecover(requests[r].user) THEN Locks(r, FALSE, FALSE) ELSE EndsUnchanged(r)
    /\ UNCHANGED gone

\* The insert fails if a bootstrap grant came first.
CommitRecovery(r) ==
    LET u == requests[r].user IN
    /\ At(r, "recover", "locked")
    /\ \/ /\ u \notin admins
          /\ admins' = admins \union {u}
          /\ Records({"recovered"})
          /\ Ends(r)
          /\ UNCHANGED <<exists, active, bootstrap, organisations, processed, teardowns>>
       \/ u \in admins /\ EndsUnchanged(r)
    /\ UNCHANGED gone

-----------------------------------------------------------------------------
Step(r) ==
    \/ \E u \in Users : \/ Authenticate(r, u) \/ DeliverDeletion(r, u)
                        \/ CallTeardown(r, u) \/ CallRecovery(r, u)
    \/ \E a, u \in Users : AdmitGrant(r, a, u) \/ AdmitRevoke(r, a, u)
    \/ ReadBootstrap(r) \/ CommitBootstrap(r)
    \/ LockForGrant(r) \/ CommitGrant(r)
    \/ LockForRevoke(r) \/ CommitRevoke(r)
    \/ LockForDeactivation(r) \/ CommitDeactivation(r)
    \/ LockForTeardown(r) \/ CommitTeardown(r)
    \/ LockForRecovery(r) \/ CommitRecovery(r)
    \/ Rollback(r)

Next == (\E u \in Users : DeleteAccount(u)) \/ \E r \in Requests : Step(r)

Spec == Init /\ [][Next]_vars

-----------------------------------------------------------------------------
(* Properties.                                                             *)

\* The last enabled administrator never disappears silently: whichever
\* transactions race, the step that empties the set of enabled administrators
\* records platform.admin_lockout in the same transaction.  A revocation
\* records no lockout, so no revocation empties it.
EveryLockoutIsAudited ==
    [][Enabled # {} /\ Enabled' = {} => audit'["lockout"] = audit["lockout"] + 1]_vars

\* The bootstrap fires once for each bootstrap row there has been, and so does
\* the creation of its organisation, however many first logins race for it.
BootstrapFiresOnce ==
    /\ audit["bootstrapped"] = teardowns + (IF bootstrap = NoUser THEN 0 ELSE 1)
    /\ organisations <= 1 + teardowns

\* The break-glass recovery is not a grant route: it commits only while nobody
\* else is an enabled administrator, except for the person whom the bootstrap,
\* which does not take the lock, has made one meanwhile.
RecoveryOnlyWhenLockedOut ==
    [][audit'["recovered"] # audit["recovered"] => Enabled \subseteq {bootstrap}]_vars
=============================================================================
