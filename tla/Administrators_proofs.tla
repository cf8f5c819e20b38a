----------------------- MODULE Administrators_proofs -----------------------
(***************************************************************************)
(* Theorems of Administrators, for any sets of accounts and of concurrent  *)
(* transactions.  A transaction that holds the lock acts on what it read   *)
(* when it took it; LockInv says what of that is still true although the   *)
(* bootstrap commits without the lock.                                     *)
(***************************************************************************)
EXTENDS Administrators, FiniteSetTheorems, TLAPS

Locked(r) == requests[r].phase = "locked"
Removals == {"revoke", "deactivate", "teardown"}

\* Taking u out of the enabled administrators does not empty them.
Spared(u) == u \in Enabled => \E e \in Enabled : e # u

LockInv ==
    /\ \A p, q \in Requests : Locked(p) /\ Locked(q) => p = q
    /\ \A r \in Requests : Locked(r) =>
         /\ requests[r].op \in {"grant", "recover"} => requests[r].user \in exists
         /\ requests[r].op = "revoke" => requests[r].user \in admins /\ ~requests[r].lockout
         /\ requests[r].op \in Removals /\ ~requests[r].lockout => Spared(requests[r].user)
         /\ requests[r].op = "recover" => Enabled \subseteq {bootstrap}

LedgerInv ==
    /\ audit["bootstrapped"] = teardowns + (IF bootstrap = NoUser THEN 0 ELSE 1)
    /\ organisations <= audit["bootstrapped"]

\* A deactivation is the answer to the deletion of its account.
EventInv == \A r \in Requests :
    ~Free(r) /\ requests[r].op = "deactivate" => requests[r].user \in gone

IInv == TypeOK /\ EventInv /\ LockInv /\ LedgerInv
-----------------------------------------------------------------------------
(* Types.                                                                  *)

\* What an open request is.
LEMMA OpenRequest ==
    ASSUME TypeOK, NEW r \in Requests, ~Free(r)
    PROVE  /\ requests[r].user \in Users
           /\ requests[r].op \in Op
           /\ requests[r] \in [op : Op, phase : {"admitted", "locked", "unconsumed"},
                               actor : Users \union {NoUser}, user : Users,
                               lockout : BOOLEAN, found : BOOLEAN]
BY DEF TypeOK, Free, Request

\* Opening, moving and ending a request keep the type of requests.
LEMMA RequestTypes ==
    ASSUME TypeOK, NEW r \in Requests
    PROVE  /\ Ends(r) => requests' \in [Requests -> Request]
           /\ \A op \in Op, actor \in Users \union {NoUser}, u \in Users :
                Opens(r, op, actor, u) => requests' \in [Requests -> Request]
           /\ ~Free(r) => \A lockout, found \in BOOLEAN :
                Locks(r, lockout, found) => requests' \in [Requests -> Request]
<1>1. Idle \in Request
  BY DEF Idle, Request
<1>2. Ends(r) => requests' \in [Requests -> Request]
  BY <1>1 DEF Ends, TypeOK
<1>3. ASSUME NEW op \in Op, NEW actor \in Users \union {NoUser}, NEW u \in Users,
             Opens(r, op, actor, u)
      PROVE  requests' \in [Requests -> Request]
  BY <1>3 DEF Opens, TypeOK, Request
<1>4. ASSUME ~Free(r), NEW lockout \in BOOLEAN, NEW found \in BOOLEAN, Locks(r, lockout, found)
      PROVE  requests' \in [Requests -> Request]
  <2>1. [requests[r] EXCEPT !.phase = "locked", !.lockout = lockout, !.found = found] \in Request
    BY <1>4, OpenRequest DEF Request
  <2> QED
    BY <1>4, <2>1 DEF Locks, TypeOK
<1> QED
  BY <1>2, <1>3, <1>4

\* Counting an action keeps the ledger's type.
LEMMA RecordsTypes ==
    ASSUME TypeOK, NEW S, Records(S)
    PROVE  /\ audit' \in [Audited -> Nat]
           /\ \A a \in Audited : audit'[a] = audit[a] + (IF a \in S THEN 1 ELSE 0)
BY DEF Records, TypeOK

LEMMA InitTypes == Init => TypeOK
BY UsersAssumption DEF Init, TypeOK, Request, Idle

LEMMA NextTypes ==
    ASSUME TypeOK, EventInv, LockInv, [Next]_vars
    PROVE  TypeOK'
<1> USE UsersAssumption
<1>1. CASE UNCHANGED vars
  BY <1>1 DEF vars, rows, ledger, TypeOK
<1>2. ASSUME NEW u \in Users, DeleteAccount(u) PROVE TypeOK'
  BY <1>2 DEF DeleteAccount, rows, ledger, TypeOK
<1>3. ASSUME NEW r \in Requests, NEW u \in Users, Authenticate(r, u) PROVE TypeOK'
  <2>1. [op |-> "bootstrap", phase |-> "admitted", actor |-> NoUser, user |-> u,
         lockout |-> FALSE, found |-> FALSE] \in Request
    BY DEF Request, Op
  <2>2. requests' \in [Requests -> Request]
    BY <1>3, <2>1 DEF Authenticate, TypeOK
  <2> QED
    BY <1>3, <2>2 DEF Authenticate, ledger, TypeOK
<1>4. ASSUME NEW r \in Requests, NEW a \in Users \union {NoUser}, NEW u \in Users, NEW op \in Op,
             Opens(r, op, a, u), gone \subseteq gone', gone' \subseteq Users,
             processed' = processed
      PROVE  TypeOK'
  BY <1>4, RequestTypes DEF Opens, rows, ledger, TypeOK
<1>5. ASSUME NEW r \in Requests, NEW u \in Users,
             DeliverDeletion(r, u) \/ CallTeardown(r, u) \/ CallRecovery(r, u)
      PROVE TypeOK'
  BY <1>4, <1>5 DEF DeliverDeletion, CallTeardown, CallRecovery, Op, TypeOK
<1>6. ASSUME NEW r \in Requests, NEW a \in Users, NEW u \in Users,
             AdmitGrant(r, a, u) \/ AdmitRevoke(r, a, u)
      PROVE TypeOK'
  BY <1>4, <1>6 DEF AdmitGrant, AdmitRevoke, Op, TypeOK
<1>7. ASSUME NEW r \in Requests, EndsUnchanged(r), UNCHANGED gone PROVE TypeOK'
  BY <1>7, RequestTypes DEF EndsUnchanged, rows, ledger, TypeOK
<1>8. ASSUME NEW r \in Requests, ~Free(r), NEW lockout \in BOOLEAN, NEW found \in BOOLEAN,
             Locks(r, lockout, found), UNCHANGED gone
      PROVE TypeOK'
  BY <1>8, RequestTypes DEF Locks, rows, ledger, TypeOK
<1>9. ASSUME NEW r \in Requests, ReadBootstrap(r) PROVE TypeOK'
  <2>1. Idle \in Request
    BY DEF Idle, Request
  <2>2. ~Free(r)
    BY <1>9 DEF ReadBootstrap, At, Free
  <2>3. \A found \in BOOLEAN :
          [requests[r] EXCEPT !.phase = "unconsumed", !.found = found] \in Request
    BY <2>2, OpenRequest DEF Request
  <2>4. requests' \in [Requests -> Request]
    <3>1. (organisations > 0) \in BOOLEAN
      BY DEF TypeOK
    <3>2. CASE bootstrap = NoUser
      BY <1>9, <2>3, <3>1, <3>2 DEF ReadBootstrap, TypeOK
    <3>3. CASE bootstrap # NoUser
      BY <1>9, <2>1, <3>3 DEF ReadBootstrap, TypeOK
    <3> QED
      BY <3>2, <3>3
  <2> QED
    BY <1>9, <2>4 DEF ReadBootstrap, rows, ledger, TypeOK
<1>10. ASSUME NEW r \in Requests,
              LockForGrant(r) \/ LockForRevoke(r) \/ LockForDeactivation(r)
                \/ LockForTeardown(r) \/ LockForRecovery(r)
       PROVE TypeOK'
  <2>1. ~Free(r) /\ (requests[r].op = "deactivate" => requests[r].user \in Users)
    BY <1>10, OpenRequest DEF LockForGrant, LockForRevoke, LockForDeactivation,
       LockForTeardown, LockForRecovery, At, Free
  <2>2. CASE LockForGrant(r)
    BY <1>7, <1>8, <2>1, <2>2 DEF LockForGrant
  <2>3. CASE LockForRevoke(r)
    BY <1>7, <1>8, <2>1, <2>3 DEF LockForRevoke
  <2>4. CASE LockForDeactivation(r)
    <3>1. LocksOut(requests[r].user) \in BOOLEAN
      BY DEF LocksOut
    <3>2. CASE Locks(r, LocksOut(requests[r].user), FALSE)
      BY <1>8, <2>1, <2>4, <3>1, <3>2 DEF LockForDeactivation
    <3>3. CASE /\ processed' = processed \union {requests[r].user}
               /\ Ends(r) /\ UNCHANGED <<rows, ledger>>
      <4>1. requests[r].user \in gone /\ requests' \in [Requests -> Request]
        BY <2>1, <2>4, <3>3, RequestTypes DEF LockForDeactivation, At, Free, EventInv
      <4> QED
        BY <2>4, <3>3, <4>1 DEF LockForDeactivation, rows, ledger, TypeOK
    <3> QED
      BY <2>4, <3>2, <3>3 DEF LockForDeactivation
  <2>5. CASE LockForTeardown(r)
    BY <1>7, <1>8, <2>1, <2>5 DEF LockForTeardown, LocksOut
  <2>6. CASE LockForRecovery(r)
    BY <1>7, <1>8, <2>1, <2>6 DEF LockForRecovery
  <2> QED
    BY <1>10, <2>2, <2>3, <2>4, <2>5, <2>6
<1>11. ASSUME NEW r \in Requests, NEW op \in Op, At(r, op, "unconsumed") \/ At(r, op, "locked"),
              Ends(r), gone' = gone, processed \subseteq processed', processed' \subseteq gone,
              exists' \subseteq exists, active' \subseteq exists', admins' \subseteq exists',
              bootstrap' \in exists' \union {NoUser}, organisations' \in Nat,
              audit' \in [Audited -> Nat], teardowns' \in Nat
       PROVE TypeOK'
  BY <1>11, RequestTypes DEF TypeOK
<1>12. ASSUME NEW r \in Requests, CommitBootstrap(r) PROVE TypeOK'
  <2>1. CASE EndsUnchanged(r)
    BY <1>7, <1>12, <2>1 DEF CommitBootstrap
  <2>2. CASE ~EndsUnchanged(r)
    BY <1>11, <1>12, <2>2, RecordsTypes DEF CommitBootstrap, Consumable, TypeOK, Op
  <2> QED
    BY <2>1, <2>2
<1>13. ASSUME NEW r \in Requests, CommitGrant(r) \/ CommitRecovery(r) PROVE TypeOK'
  <2>1. CASE EndsUnchanged(r)
    BY <1>7, <1>13, <2>1 DEF CommitGrant, CommitRecovery
  <2>2. requests[r].user \in exists /\ {"grant", "recover"} \subseteq Op
    BY <1>13 DEF CommitGrant, CommitRecovery, At, LockInv, Locked, Op
  <2>3. CASE CommitGrant(r)
    BY <1>11, <2>1, <2>2, <2>3 DEF CommitGrant, ledger, TypeOK
  <2>4. CASE CommitRecovery(r)
    BY <1>11, <2>1, <2>2, <2>4, RecordsTypes DEF CommitRecovery, TypeOK
  <2> QED
    BY <1>13, <2>3, <2>4
<1>14. ASSUME NEW r \in Requests, CommitRevoke(r) PROVE TypeOK'
  <2>1. "revoke" \in Op
    BY DEF Op
  <2> QED
    BY <1>11, <1>14, <2>1 DEF CommitRevoke, ledger, TypeOK
<1>15. ASSUME NEW r \in Requests, CommitDeactivation(r) PROVE TypeOK'
  <2>1. "deactivate" \in Op /\ requests[r].user \in gone
    BY <1>15 DEF CommitDeactivation, Op, At, Free, EventInv
  <2> QED
    BY <1>11, <1>15, <2>1, RecordsTypes DEF CommitDeactivation, TypeOK
<1>16. ASSUME NEW r \in Requests, CommitTeardown(r) PROVE TypeOK'
  <2>1. "teardown" \in Op /\ (teardowns + (IF bootstrap = requests[r].user THEN 1 ELSE 0)) \in Nat
    BY DEF Op, TypeOK
  <2> QED
    BY <1>11, <1>16, <2>1, RecordsTypes DEF CommitTeardown, TypeOK
<1>17. ASSUME NEW r \in Requests, Rollback(r) PROVE TypeOK'
  BY <1>7, <1>17 DEF Rollback
<1>18. ASSUME NEW r \in Requests, Step(r) PROVE TypeOK'
  BY <1>3, <1>5, <1>6, <1>9, <1>10, <1>12, <1>13, <1>14, <1>15, <1>16, <1>17, <1>18 DEF Step
<1> QED
  BY <1>1, <1>2, <1>18 DEF Next

-----------------------------------------------------------------------------
(* Deactivations.                                                          *)

\* How a step may change a request, and that an account deleted stays deleted.
LEMMA NextRequests ==
    ASSUME TypeOK, [Next]_vars
    PROVE  /\ gone \subseteq gone'
           /\ \A q \in Requests :
                \/ requests'[q] = requests[q]
                \/ Free(q)'
                \/ ~Free(q) /\ requests'[q].op = requests[q].op /\ requests'[q].user = requests[q].user
                \/ Free(q) /\ (requests'[q].op = "deactivate" => requests'[q].user \in gone)
<1> DEFINE Shape(q) ==
       \/ requests'[q] = requests[q]
       \/ Free(q)'
       \/ ~Free(q) /\ requests'[q].op = requests[q].op /\ requests'[q].user = requests[q].user
       \/ Free(q) /\ (requests'[q].op = "deactivate" => requests'[q].user \in gone)
<1> DEFINE Goal == gone \subseteq gone' /\ \A q \in Requests : Shape(q)
<1>1. CASE UNCHANGED vars
  BY <1>1 DEF vars
<1>2. ASSUME NEW u \in Users, DeleteAccount(u) PROVE Goal
  BY <1>2 DEF DeleteAccount
<1>3. ASSUME NEW r \in Requests, Ends(r) PROVE \A q \in Requests : Shape(q)
  BY <1>3 DEF Ends, Idle, Free, TypeOK
<1>4. ASSUME NEW r \in Requests, ~Free(r), NEW lockout \in BOOLEAN, NEW found \in BOOLEAN,
             Locks(r, lockout, found)
      PROVE  \A q \in Requests : Shape(q)
  BY <1>4, OpenRequest DEF Locks, TypeOK
<1>5. ASSUME NEW r \in Requests, NEW a, NEW u, NEW op \in Op, Opens(r, op, a, u),
             op = "deactivate" => u \in gone
      PROVE  \A q \in Requests : Shape(q)
  BY <1>5 DEF Opens, TypeOK
<1>6. ASSUME NEW r \in Requests, NEW u \in Users, Authenticate(r, u) PROVE Goal
  BY <1>6 DEF Authenticate, TypeOK
<1>7. ASSUME NEW r \in Requests, NEW a \in Users, NEW u \in Users,
             \/ DeliverDeletion(r, u) \/ CallTeardown(r, u) \/ CallRecovery(r, u)
             \/ AdmitGrant(r, a, u) \/ AdmitRevoke(r, a, u)
      PROVE Goal
  BY <1>5, <1>7 DEF DeliverDeletion, CallTeardown, CallRecovery, AdmitGrant, AdmitRevoke, Op
<1>8. ASSUME NEW r \in Requests, ReadBootstrap(r) PROVE Goal
  BY <1>8, OpenRequest DEF ReadBootstrap, At, Free, Idle, TypeOK
<1>9. ASSUME NEW r \in Requests,
             LockForGrant(r) \/ LockForRevoke(r) \/ LockForDeactivation(r)
                \/ LockForTeardown(r) \/ LockForRecovery(r)
      PROVE Goal
  <2>1. ~Free(r) /\ \A u : LocksOut(u) \in BOOLEAN
    BY <1>9 DEF LockForGrant, LockForRevoke, LockForDeactivation,
       LockForTeardown, LockForRecovery, At, Free, LocksOut
  <2>2. gone' = gone /\ (Ends(r) \/ \E lockout, found \in BOOLEAN : Locks(r, lockout, found))
    BY <1>9, <2>1 DEF LockForGrant, LockForRevoke, LockForDeactivation,
       LockForTeardown, LockForRecovery, EndsUnchanged
  <2> QED
    BY <1>3, <1>4, <2>1, <2>2
<1>10. ASSUME NEW r \in Requests,
              CommitBootstrap(r) \/ CommitGrant(r) \/ CommitRevoke(r) \/ CommitDeactivation(r)
                \/ CommitTeardown(r) \/ CommitRecovery(r) \/ Rollback(r)
       PROVE Goal
  BY <1>3, <1>10 DEF CommitBootstrap, CommitGrant, CommitRevoke, CommitDeactivation,
     CommitTeardown, CommitRecovery, Rollback, EndsUnchanged
<1>11. ASSUME NEW r \in Requests, Step(r) PROVE Goal
  BY <1>6, <1>7, <1>8, <1>9, <1>10, <1>11 DEF Step
<1> QED
  BY <1>1, <1>2, <1>11 DEF Next

LEMMA NextEvents ==
    ASSUME TypeOK, EventInv, [Next]_vars
    PROVE  EventInv'
BY NextRequests DEF EventInv, Free

-----------------------------------------------------------------------------
(* The lock.                                                               *)

\* A step that locks nothing and leaves the administrators alone.
LEMMA LockKept ==
    ASSUME LockInv, UNCHANGED <<admins, bootstrap>>, Enabled' = Enabled, exists \subseteq exists',
           \A q \in Requests : Locked(q)' => requests'[q] = requests[q]
    PROVE  LockInv'
BY DEF LockInv, Locked, Spared

\* The commit, or the rollback, of a transaction that holds the lock.
LEMMA LockReleased ==
    ASSUME TypeOK, LockInv, NEW r \in Requests, Locked(r), Ends(r)
    PROVE  LockInv'
<1>1. \A q \in Requests : ~Locked(q)'
  BY DEF LockInv, Locked, Ends, Idle, TypeOK
<1> QED
  BY <1>1 DEF LockInv

\* A transaction takes the lock.
LEMMA LockTaken ==
    ASSUME TypeOK, LockIsFree, NEW r \in Requests, ~Free(r),
           NEW lockout \in BOOLEAN, NEW found \in BOOLEAN, Locks(r, lockout, found),
           requests[r].op \in {"grant", "recover"} => requests[r].user \in exists,
           requests[r].op = "revoke" => requests[r].user \in admins /\ ~lockout,
           requests[r].op \in Removals /\ ~lockout => Spared(requests[r].user),
           requests[r].op = "recover" => Enabled = {}
    PROVE  LockInv'
<1>1. \A q \in Requests : Locked(q)' => q = r
  BY DEF Locks, LockIsFree, Locked, TypeOK
<1>2. /\ requests'[r].op = requests[r].op /\ requests'[r].user = requests[r].user
      /\ requests'[r].lockout = lockout
  BY OpenRequest DEF Locks, TypeOK
<1>3. UNCHANGED rows
  BY DEF Locks
<1> QED
  BY <1>1, <1>2, <1>3 DEF LockInv, Spared, Enabled, rows

\* More than one enabled administrator spares any of them.
LEMMA TwoSpare ==
    ASSUME NEW u, Cardinality(Enabled) > 1
    PROVE  Spared(u)
<1> SUFFICES ASSUME u \in Enabled, \A e \in Enabled : e = u
             PROVE  FALSE
  BY DEF Spared
<1>1. Enabled = {u}
  OBVIOUS
<1>2. Cardinality(Enabled) = 1
  BY <1>1, FS_Singleton
<1> QED
  BY <1>2

\* Nobody who signs in becomes an administrator by it.
LEMMA SigningInEnablesNobody ==
    ASSUME TypeOK, NEW r \in Requests, NEW u \in Users, Authenticate(r, u)
    PROVE  Enabled' = Enabled
BY DEF Authenticate, SignsIn, Enabled, TypeOK

\* The bootstrap adds one administrator, who is not being removed just now.
LEMMA BootstrapKeepsLock ==
    ASSUME TypeOK, LockInv, NEW r \in Requests, CommitBootstrap(r)
    PROVE  LockInv'
<1> DEFINE u == requests[r].user
<1>1. CASE EndsUnchanged(r)
  BY <1>1, LockKept DEF EndsUnchanged, rows, Enabled, Ends, Idle, Locked, TypeOK
<1>2. CASE ~EndsUnchanged(r)
  <2>1. /\ bootstrap = NoUser /\ bootstrap' = u /\ u \notin admins
        /\ admins' = admins \union {u} /\ active' = active /\ exists' = exists
    BY <1>2 DEF CommitBootstrap, Consumable
  <2>2. \A q \in Requests : Locked(q)' => Locked(q) /\ requests'[q] = requests[q]
    BY <1>2 DEF CommitBootstrap, Ends, Idle, Locked, TypeOK
  <2>3. \A q \in Requests : Locked(q) /\ requests[q].op \in Removals => requests[q].user # u
    BY <2>1 DEF CommitBootstrap, RowIsFree, LockInv, Locked, Removals
  <2>4. ASSUME NEW q \in Requests, Locked(q), requests[q].op = "recover" PROVE Enabled' \subseteq {bootstrap'}
    <3>1. Enabled \subseteq {NoUser} /\ NoUser \notin active
      BY <2>1, <2>4, UsersAssumption DEF LockInv, TypeOK
    <3> QED
      BY <2>1, <3>1 DEF Enabled
  <2>5. ASSUME NEW v, v # u, Spared(v) PROVE Spared(v)'
    BY <2>1, <2>5 DEF Spared, Enabled
  <2> QED
    BY <2>1, <2>2, <2>3, <2>4, <2>5 DEF LockInv
<1> QED
  BY <1>1, <1>2

\* Each request that takes the lock has just read what the invariant asks for.
LEMMA TakingKeepsLock ==
    ASSUME TypeOK, LockInv, NEW r \in Requests,
           LockForGrant(r) \/ LockForRevoke(r) \/ LockForDeactivation(r)
             \/ LockForTeardown(r) \/ LockForRecovery(r)
    PROVE  LockInv'
<1>1. CASE Ends(r) /\ UNCHANGED rows
  BY <1>1, LockKept DEF rows, Enabled, Ends, Idle, Locked, TypeOK
<1>2. CASE ~(Ends(r) /\ UNCHANGED rows)
  <2>1. ASSUME NEW u, ~LocksOut(u) PROVE Spared(u)
    BY <2>1 DEF LocksOut, Spared, Enabled
  <2>2. CASE LockForGrant(r)
    BY <1>2, <2>2, LockTaken DEF LockForGrant, EndsUnchanged, At, Free, Removals
  <2>3. CASE LockForRevoke(r)
    <3>1. requests[r].user \in admins /\ MayRevoke(r) /\ Locks(r, FALSE, TRUE)
      BY <1>2, <2>3 DEF LockForRevoke, EndsUnchanged
    <3>2. Spared(requests[r].user)
      BY <3>1, TwoSpare DEF MayRevoke, SeenActive, Spared, Enabled
    <3> QED
      BY <2>3, <3>1, <3>2, LockTaken DEF LockForRevoke, At, Free
  <2>4. CASE LockForDeactivation(r)
    <3>1. Locks(r, LocksOut(requests[r].user), FALSE) /\ LocksOut(requests[r].user) \in BOOLEAN
      BY <1>2, <2>4 DEF LockForDeactivation, LocksOut
    <3> QED
      BY <2>1, <2>4, <3>1, LockTaken DEF LockForDeactivation, At, Free
  <2>5. CASE LockForTeardown(r)
    <3>1. Locks(r, LocksOut(requests[r].user), FALSE) /\ LocksOut(requests[r].user) \in BOOLEAN
      BY <1>2, <2>5 DEF LockForTeardown, EndsUnchanged, LocksOut
    <3> QED
      BY <2>1, <2>5, <3>1, LockTaken DEF LockForTeardown, At, Free
  <2>6. CASE LockForRecovery(r)
    <3>1. MayRecover(requests[r].user) /\ Locks(r, FALSE, FALSE)
      BY <1>2, <2>6 DEF LockForRecovery, EndsUnchanged
    <3> QED
      BY <2>6, <3>1, LockTaken DEF LockForRecovery, MayRecover, At, Free, Removals, TypeOK
  <2> QED
    BY <2>2, <2>3, <2>4, <2>5, <2>6
<1> QED
  BY <1>1, <1>2

LEMMA NextLock ==
    ASSUME TypeOK, LockInv, [Next]_vars
    PROVE  LockInv'
<1>1. CASE UNCHANGED <<rows, requests>>
  BY <1>1, LockKept DEF rows, Enabled
<1>2. ASSUME NEW r \in Requests, NEW u \in Users, Authenticate(r, u) PROVE LockInv'
  <2>1. \A q \in Requests : Locked(q)' => requests'[q] = requests[q]
    BY <1>2 DEF Authenticate, Locked, TypeOK
  <2> QED
    BY <1>2, <2>1, LockKept, SigningInEnablesNobody DEF Authenticate
<1>3. ASSUME NEW r \in Requests, NEW op, NEW a, NEW u, Opens(r, op, a, u) PROVE LockInv'
  BY <1>3, LockKept DEF Opens, rows, Enabled, Locked, TypeOK
<1>4. ASSUME NEW r \in Requests, ReadBootstrap(r) PROVE LockInv'
  <2>1. \A q \in Requests : Locked(q)' => requests'[q] = requests[q]
    <3>1. ~Locked(r)'
      BY <1>4, OpenRequest DEF ReadBootstrap, At, Free, Idle, Locked, TypeOK
    <3> QED
      BY <1>4, <3>1 DEF ReadBootstrap, TypeOK
  <2> QED
    BY <1>4, <2>1, LockKept DEF ReadBootstrap, rows, Enabled
<1>5. ASSUME NEW r \in Requests, Rollback(r) PROVE LockInv'
  BY <1>5, LockKept DEF Rollback, EndsUnchanged, rows, Enabled, Ends, Idle, Locked, TypeOK
<1>6. ASSUME NEW r \in Requests,
             CommitGrant(r) \/ CommitRevoke(r) \/ CommitDeactivation(r)
               \/ CommitTeardown(r) \/ CommitRecovery(r)
      PROVE LockInv'
  BY <1>6, LockReleased DEF CommitGrant, CommitRevoke, CommitDeactivation,
     CommitTeardown, CommitRecovery, EndsUnchanged, At, Locked
<1>7. ASSUME NEW r \in Requests, Step(r) PROVE LockInv'
  BY <1>2, <1>3, <1>4, <1>5, <1>6, <1>7, BootstrapKeepsLock, TakingKeepsLock
  DEF Step, DeliverDeletion, CallTeardown, CallRecovery, AdmitGrant, AdmitRevoke
<1> QED
  BY <1>1, <1>7 DEF Next, DeleteAccount, vars

-----------------------------------------------------------------------------
(* The ledger, and the theorems.                                           *)

\* A step that counts no bootstrap leaves its part of the ledger alone.
LEMMA NextLedger ==
    ASSUME TypeOK, LedgerInv, [Next]_vars
    PROVE  LedgerInv'
<1>1. CASE UNCHANGED <<audit, teardowns, bootstrap, organisations>>
  BY <1>1 DEF LedgerInv
<1>2. ASSUME NEW S, "bootstrapped" \notin S, Records(S) PROVE audit'["bootstrapped"] = audit["bootstrapped"]
  BY <1>2, RecordsTypes DEF Audited, TypeOK
<1>3. ASSUME NEW r \in Requests, CommitBootstrap(r) PROVE LedgerInv'
  <2>1. CASE EndsUnchanged(r)
    BY <1>1, <2>1 DEF EndsUnchanged, rows, ledger
  <2>2. CASE ~EndsUnchanged(r)
    <3>1. /\ bootstrap = NoUser /\ bootstrap' # NoUser /\ teardowns' = teardowns
          /\ organisations' = organisations + (IF requests[r].found THEN 0 ELSE 1)
      BY <1>3, <2>2, UsersAssumption, OpenRequest DEF CommitBootstrap, Consumable, At, Free
    <3>2. audit'["bootstrapped"] = audit["bootstrapped"] + 1
      BY <1>3, <2>2, RecordsTypes DEF CommitBootstrap, Audited
    <3> QED
      BY <3>1, <3>2 DEF LedgerInv, TypeOK, Audited
  <2> QED
    BY <2>1, <2>2
<1>4. ASSUME NEW r \in Requests, CommitDeactivation(r) \/ CommitRecovery(r) PROVE LedgerInv'
  <2>1. UNCHANGED <<teardowns, bootstrap, organisations>>
    BY <1>4 DEF CommitDeactivation, CommitRecovery, EndsUnchanged, rows, ledger
  <2>2. audit'["bootstrapped"] = audit["bootstrapped"]
    BY <1>2, <1>4 DEF CommitDeactivation, CommitRecovery, EndsUnchanged, ledger
  <2> QED
    BY <2>1, <2>2 DEF LedgerInv
<1>5. ASSUME NEW r \in Requests, CommitTeardown(r) PROVE LedgerInv'
  <2>1. audit'["bootstrapped"] = audit["bootstrapped"] /\ organisations' = organisations
    BY <1>2, <1>5 DEF CommitTeardown
  <2>2. requests[r].user # NoUser
    BY <1>5, OpenRequest, UsersAssumption DEF CommitTeardown, At, Free
  <2> QED
    BY <1>5, <2>1, <2>2 DEF CommitTeardown, LedgerInv, TypeOK
<1>6. ASSUME NEW r \in Requests, Step(r) PROVE LedgerInv'
  BY <1>1, <1>3, <1>4, <1>5, <1>6
  DEF Step, Authenticate, DeliverDeletion, CallTeardown, CallRecovery, AdmitGrant, AdmitRevoke,
      Opens, ReadBootstrap, LockForGrant, LockForRevoke, LockForDeactivation, LockForTeardown,
      LockForRecovery, Locks, EndsUnchanged, CommitGrant, CommitRevoke, Rollback, rows, ledger
<1> QED
  BY <1>1, <1>6 DEF Next, DeleteAccount, vars, rows, ledger

\* The inductive invariant.
LEMMA Invariance == Spec => []IInv
<1>1. Init => IInv
  <2>1. ASSUME Init PROVE EventInv /\ LockInv /\ LedgerInv
    BY <2>1 DEF Init, EventInv, LockInv, LedgerInv, Locked, Free, Idle, Audited
  <2> QED
    BY <2>1, InitTypes DEF IInv
<1>2. IInv /\ [Next]_vars => IInv'
  BY NextTypes, NextEvents, NextLock, NextLedger DEF IInv
<1> QED
  BY <1>1, <1>2, PTL DEF Spec

\* Every variable keeps its type; administrators are users there are.
THEOREM TypeCorrect == Spec => []TypeOK
BY Invariance, PTL DEF IInv

\* However many first logins race for the bootstrap, and whatever was torn
\* down, it fires once for each row of bootstrap_states there has been.
THEOREM BootstrapCorrect == Spec => []BootstrapFiresOnce
<1>1. IInv => BootstrapFiresOnce
  BY DEF IInv, LedgerInv, BootstrapFiresOnce, TypeOK
<1> QED
  BY <1>1, Invariance, PTL

\* Only a deactivation or a teardown that was found to lock the platform out
\* empties the enabled administrators.
LEMMA LockoutStep ==
    ASSUME IInv, [Next]_vars, Enabled # {}, Enabled' = {}
    PROVE  audit'["lockout"] = audit["lockout"] + 1
<1>1. CASE UNCHANGED <<admins, active>>
  BY <1>1 DEF Enabled
<1>2. ASSUME NEW r \in Requests, Locked(r), requests[r].op \in Removals,
             Enabled' = Enabled \ {requests[r].user}
      PROVE  requests[r].lockout /\ requests[r].op # "revoke"
  BY <1>2 DEF IInv, LockInv, Spared
<1>3. ASSUME NEW r \in Requests, CommitRevoke(r) PROVE FALSE
  BY <1>2, <1>3 DEF CommitRevoke, At, Locked, Removals, Enabled
<1>4. ASSUME NEW r \in Requests, CommitDeactivation(r) \/ CommitTeardown(r)
      PROVE  audit'["lockout"] = audit["lockout"] + 1
  <2>1. requests[r].lockout
    BY <1>2, <1>4 DEF CommitDeactivation, CommitTeardown, At, Locked, Removals, Enabled
  <2>2. Records({"lockout"})
    BY <1>4, <2>1 DEF CommitDeactivation, CommitTeardown
  <2> QED
    BY <2>2, RecordsTypes DEF IInv, Audited
<1>5. ASSUME NEW r \in Requests,
             CommitBootstrap(r) \/ CommitGrant(r) \/ CommitRecovery(r)
      PROVE  Enabled \subseteq Enabled'
  BY <1>5 DEF CommitBootstrap, CommitGrant, CommitRecovery, EndsUnchanged, rows, Enabled
<1>6. ASSUME NEW r \in Requests, Step(r)
      PROVE  audit'["lockout"] = audit["lockout"] + 1
  BY <1>1, <1>3, <1>4, <1>5, <1>6, SigningInEnablesNobody
  DEF Step, DeliverDeletion, CallTeardown, CallRecovery, AdmitGrant, AdmitRevoke,
      Opens, ReadBootstrap, LockForGrant, LockForRevoke, LockForDeactivation, LockForTeardown,
      LockForRecovery, Locks, EndsUnchanged, Rollback, rows, IInv
<1> QED
  BY <1>1, <1>6 DEF Next, DeleteAccount, vars, rows

\* For any number of administrators and of transactions that race, the last
\* enabled administrator does not disappear without its audit event.
THEOREM LockoutCorrect == Spec => EveryLockoutIsAudited
<1>1. IInv /\ [Next]_vars
        => [Enabled # {} /\ Enabled' = {} => audit'["lockout"] = audit["lockout"] + 1]_vars
  BY LockoutStep
<1> QED
  BY <1>1, Invariance, PTL DEF Spec, EveryLockoutIsAudited

\* The recovery commits under what it found when it took the lock.
LEMMA RecoveryStep ==
    ASSUME IInv, [Next]_vars, audit'["recovered"] # audit["recovered"]
    PROVE  Enabled \subseteq {bootstrap}
<1>1. ASSUME NEW S, "recovered" \notin S, Records(S) PROVE FALSE
  BY <1>1, RecordsTypes DEF Audited, IInv, TypeOK
<1>2. ASSUME UNCHANGED audit PROVE FALSE
  BY <1>2
<1>3. ASSUME NEW r \in Requests, CommitRecovery(r) PROVE Enabled \subseteq {bootstrap}
  BY <1>3 DEF CommitRecovery, At, IInv, LockInv, Locked
<1>4. ASSUME NEW r \in Requests,
             CommitBootstrap(r) \/ CommitDeactivation(r) \/ CommitTeardown(r)
      PROVE FALSE
  BY <1>1, <1>2, <1>4 DEF CommitBootstrap, CommitDeactivation, CommitTeardown, EndsUnchanged, ledger
<1>5. ASSUME NEW r \in Requests, Step(r) PROVE Enabled \subseteq {bootstrap}
  BY <1>2, <1>3, <1>4, <1>5
  DEF Step, Authenticate, DeliverDeletion, CallTeardown, CallRecovery, AdmitGrant, AdmitRevoke,
      Opens, ReadBootstrap, LockForGrant, LockForRevoke, LockForDeactivation, LockForTeardown,
      LockForRecovery, Locks, EndsUnchanged, CommitGrant, CommitRevoke, Rollback, ledger
<1> QED
  BY <1>2, <1>5 DEF Next, DeleteAccount, vars, ledger

\* The break-glass recovery adds nobody beside an enabled administrator whom
\* the bootstrap did not make meanwhile.
THEOREM RecoveryCorrect == Spec => RecoveryOnlyWhenLockedOut
<1>1. IInv /\ [Next]_vars
        => [audit'["recovered"] # audit["recovered"] => Enabled \subseteq {bootstrap}]_vars
  BY RecoveryStep
<1> QED
  BY <1>1, Invariance, PTL DEF Spec, RecoveryOnlyWhenLockedOut
=============================================================================
