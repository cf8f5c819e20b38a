----------------------------- MODULE Membership -----------------------------
(***************************************************************************)
(* How people come to be, and cease to be, members of one organisation:    *)
(* modules/invitations, the login-time linking, the membership             *)
(* administration of modules/platform_admin, and the WorkOS webhooks.      *)
(*                                                                         *)
(* WorkOS owns the invitations and the addresses; this code keeps a row    *)
(* for each invitation it sent and a copy of each user's address, which    *)
(* the webhooks refresh in any order.  Logins and administrators' requests *)
(* ("clerks") are transactions that call WorkOS between their reads and    *)
(* their commit.  A row that is read FOR UPDATE is held until then.        *)
(***************************************************************************)
EXTENDS Naturals, FiniteSets

CONSTANTS
    Users,
    Addresses,
    Invitations,     \* the invitations that may ever be sent
    Logins, Clerks,  \* slots for logins, and for administrators' requests
    MaxOpen,         \* bound: how many requests are under way at once
    MaxChanges,      \* bound: how many changes of an address are not yet delivered
    None             \* no user, address or invitation

ASSUME NoneAssumption == None \notin Users \union Addresses \union Invitations

VARIABLES
    accounts,        \* at WorkOS: each account's address, None if not verified
    provider,        \* at WorkOS: each invitation's state (expiry included) and address
    events,          \* webhook deliveries not yet acknowledged
    email,           \* users.email, None for a user not provisioned
    invitations,     \* the rows of invitations: status
    memberships,     \* organisation_memberships.status, or "none"
    logins, clerks

workos == <<accounts, provider, events>>
tables == <<email, invitations, memberships>>
vars == <<workos, tables, logins, clerks>>

ProviderState == {"none", "pending", "accepted", "revoked", "expired"}
InvitationStatus == {"absent", "sent", "accepted", "revoked"}
MembershipStatus == {"none", "active", "suspended"}

Event == [kind : {"revoked"}, invitation : Invitations]
         \union [kind : {"updated"}, user : Users, address : Addresses]

\* profile: the verified address WorkOS reported; checked: the invitation that
\* WorkOS confirmed; member: the membership row that was found; over: whether
\* the invitation was over at WorkOS when it was chosen.
Login == [phase : {"profile", "candidate", "grantable", "locked"},
          user : Users, profile : Addresses, checked : Invitations \union {None},
          member : BOOLEAN, again : BOOLEAN, over : BOOLEAN]
         \union {[phase |-> "idle"]}
Idle == [phase |-> "idle"]

\* "read": the first reads are done; "locked": the invitation is held;
\* "called": WorkOS has done its part.  user: of a removal, None once the row
\* that it read is gone.
Clerk == [op : {"invite", "revoke", "remove", "suspend"},
          phase : {"read", "locked", "called"},
          user : Users \union {None}, address : Addresses \union {None},
          invitation : Invitations \union {None}]
         \union {[phase |-> "idle"]}

TypeOK ==
    /\ accounts \in [Users -> Addresses \union {None}]
    /\ provider \in [Invitations -> [state : ProviderState, address : Addresses \union {None}]]
    /\ events \subseteq Event
    /\ email \in [Users -> Addresses \union {None}]
    /\ invitations \in [Invitations -> InvitationStatus]
    /\ \A i \in Invitations : provider[i].state = "none" => invitations[i] = "absent"
    /\ memberships \in [Users -> MembershipStatus]
    /\ \A u \in Users : email[u] = None => memberships[u] = "none"
    /\ logins \in [Logins -> Login]
    /\ clerks \in [Clerks -> Clerk]

Init ==
    /\ accounts \in {a \in [Users -> Addresses] : \A u, v \in Users : a[u] = a[v] => u = v}
    /\ provider = [i \in Invitations |-> [state |-> "none", address |-> None]]
    /\ events = {}
    /\ email = [u \in Users |-> None]
    /\ invitations = [i \in Invitations |-> "absent"]
    /\ memberships = [u \in Users |-> "none"]
    /\ logins = [l \in Logins |-> Idle]
    /\ clerks = [c \in Clerks |-> Idle]

-----------------------------------------------------------------------------
(* WorkOS.                                                                 *)

Over(i) == provider[i].state \in {"accepted", "revoked", "expired"}

\* The owner of an account changes its address; a new one is not verified yet.
ChangeAddress(u) ==
    /\ Cardinality({e \in events : e.kind = "updated"}) < MaxChanges
    /\ \E a \in Addresses \union {None} :
         /\ a # accounts[u]
         /\ a # None => \A v \in Users : accounts[v] # a
         /\ accounts' = [accounts EXCEPT ![u] = a]
         /\ events' = events \union
              (IF a = None THEN {} ELSE {[kind |-> "updated", user |-> u, address |-> a]})
    /\ UNCHANGED <<provider, tables, logins, clerks>>

\* An invitation that is not pending any more cannot be revoked: an error.
RevokeAtWorkOS(i) ==
    /\ provider[i].state = "pending"
    /\ provider' = [provider EXCEPT ![i].state = "revoked"]
    /\ events' = events \union {[kind |-> "revoked", invitation |-> i]}
    /\ UNCHANGED accounts

\* In the WorkOS dashboard, by the invited person, or by the passing of
\* expires_at, of which the row has a copy.
EndAtWorkOS(i) ==
    /\ \/ RevokeAtWorkOS(i)
       \/ /\ provider[i].state = "pending"
          /\ \E over \in {"accepted", "expired"} :
               provider' = [provider EXCEPT ![i].state = over]
          /\ UNCHANGED <<accounts, events>>
    /\ UNCHANGED <<tables, logins, clerks>>

-----------------------------------------------------------------------------
(* Row locks.                                                              *)

\* Mutant of RowFree: the rows are read without FOR UPDATE.
RowFree_NoLock(i) == TRUE

\* No open transaction holds the invitation's row.
RowFree(i) ==
    /\ \A l \in Logins : ~(logins[l].phase = "locked" /\ logins[l].checked = i)
    /\ \A c \in Clerks : ~(/\ clerks[c].phase \in {"locked", "called"}
                           /\ clerks[c].op # "invite" /\ clerks[c].invitation = i)

\* A suspension updates the membership before it looks for invitations.
MembershipFree(u) ==
    \A c \in Clerks : ~(clerks[c].phase # "idle" /\ clerks[c].op = "suspend" /\ clerks[c].user = u)

-----------------------------------------------------------------------------
(* A login: get_current_user, then link_invitation_on_login.               *)

\* Another request may begin.
HasRoom ==
    Cardinality({l \in Logins : logins[l].phase # "idle"})
      + Cardinality({c \in Clerks : clerks[c].phase # "idle"}) < MaxOpen

LoginEnds(l) == logins' = [logins EXCEPT ![l] = Idle]
LoginAt(l, phase) == logins[l].phase = phase
LoginMoves(l, phase) == logins' = [logins EXCEPT ![l].phase = phase]

\* get_or_provision_user: an address that is verified replaces the copy; on a
\* first login the copy is whatever the profile says.
SignIn(l, u) ==
    /\ LoginAt(l, "idle") /\ HasRoom
    /\ \/ /\ accounts[u] # None
          /\ email' = [email EXCEPT ![u] = accounts[u]]
          /\ logins' = [logins EXCEPT ![l] =
               [phase |-> "profile", user |-> u, profile |-> accounts[u], checked |-> None,
                member |-> FALSE, again |-> FALSE, over |-> FALSE]]
       \/ /\ accounts[u] = None /\ email[u] = None
          /\ \E a \in Addresses : email' = [email EXCEPT ![u] = a]
          /\ UNCHANGED logins
    /\ UNCHANGED <<workos, invitations, memberships, clerks>>

\* pending_invitations_statement under the policy invitations_invitee_select,
\* which compares with the copy of the address.
Pending(l, i) ==
    /\ invitations[i] = "sent" /\ provider[i].state # "expired"
    /\ provider[i].address = logins[l].profile
    /\ email[logins[l].user] = logins[l].profile

ReadCandidate(l) ==
    /\ LoginAt(l, "profile")
    /\ \/ \E i \in Invitations :
            /\ Pending(l, i)
            /\ logins' = [logins EXCEPT ![l].phase = "candidate", ![l].checked = i,
                                        ![l].over = Over(i)]
       \/ (\A i \in Invitations : ~Pending(l, i)) /\ LoginEnds(l)
    /\ UNCHANGED <<workos, tables, clerks>>

\* Mutant of Grantable: the row alone is enough.
Grantable_RowOnly(i) == TRUE

\* _provider_invitation_is_grantable
Grantable(i) == provider[i].state = "pending"

\* Also when WorkOS does not answer, the login goes on without it.
Revalidate(l) ==
    /\ LoginAt(l, "candidate")
    /\ \/ Grantable(logins[l].checked) /\ LoginMoves(l, "grantable")
       \/ LoginEnds(l)
    /\ UNCHANGED <<workos, tables, clerks>>

\* The second read, FOR UPDATE, and the membership that exists.
LockInvitation(l) ==
    LET i == logins[l].checked IN
    /\ LoginAt(l, "grantable")
    /\ RowFree(i)
    /\ IF Pending(l, i)
       THEN logins' = [logins EXCEPT ![l].phase = "locked",
                                     ![l].member = memberships[logins[l].user] # "none"]
       ELSE LoginEnds(l)
    /\ UNCHANGED <<workos, tables, clerks>>

\* An existing membership is never changed by an invitation.
Joins(l) == ~logins[l].member

\* Another transaction inserted the membership after this one looked for it.
LostRace(l) == ~logins[l].member /\ memberships[logins[l].user] # "none"

\* _accept_invitations and the commit.
AcceptInvitation(l) ==
    LET u == logins[l].user IN
    /\ LoginAt(l, "locked") /\ ~LostRace(l)
    /\ invitations' = [invitations EXCEPT ![logins[l].checked] = "accepted"]
    /\ memberships' = [memberships EXCEPT ![u] = IF Joins(l) THEN "active" ELSE @]
    /\ LoginEnds(l)
    /\ UNCHANGED <<workos, email, clerks>>

\* Everything is rolled back and done again, once.
LinkAgain(l) ==
    /\ LoginAt(l, "locked") /\ LostRace(l)
    /\ logins' = [logins EXCEPT ![l] =
         IF @.again THEN Idle
         ELSE [@ EXCEPT !.phase = "profile", !.checked = None, !.again = TRUE]]
    /\ UNCHANGED <<workos, tables, clerks>>

LoginFails(l) ==
    /\ ~LoginAt(l, "idle")
    /\ LoginEnds(l)
    /\ UNCHANGED <<workos, tables, clerks>>

-----------------------------------------------------------------------------
(* Invitations: invite_user and revoke_invitation.                         *)

ClerkAt(c, op, phase) == clerks[c].phase = phase /\ clerks[c].op = op
ClerkEnds(c) == clerks' = [clerks EXCEPT ![c] = Idle]
ClerkMoves(c, phase) == clerks' = [clerks EXCEPT ![c].phase = phase]
Starts(c, op, phase, u, a, i) ==
    /\ clerks[c].phase = "idle" /\ HasRoom
    /\ clerks' = [clerks EXCEPT ![c] =
         [op |-> op, phase |-> phase, user |-> u, address |-> a, invitation |-> i]]

\* A row that is sent, expired or not.
SentTo(a) == {i \in Invitations : invitations[i] = "sent" /\ provider[i].address = a}

CheckPending(c, a) ==
    /\ SentTo(a) = {}
    /\ Starts(c, "invite", "read", None, a, None)
    /\ UNCHANGED <<workos, tables, logins>>

Sent(a) == [state |-> "pending", address |-> a]

SendInvitation(c) ==
    /\ ClerkAt(c, "invite", "read")
    /\ \E i \in Invitations :
         /\ provider[i].state = "none"
         /\ provider' = [provider EXCEPT ![i] = Sent(clerks[c].address)]
         /\ clerks' = [clerks EXCEPT ![c].phase = "called", ![c].invitation = i]
    /\ UNCHANGED <<accounts, events, tables, logins>>

\* Mutant of UniquePending: there is no partial unique index.
UniquePending_NoIndex(a) == TRUE

\* uq_invitations_pending_organisation_email
UniquePending(a) == SentTo(a) = {}

\* A lost race is a unique violation at the flush and rolls the request back (a
\* 500: only one at the commit is a 409); the invitation stays at WorkOS.
CommitInvitation(c) ==
    LET i == clerks[c].invitation IN
    /\ ClerkAt(c, "invite", "called")
    /\ invitations' = IF UniquePending(clerks[c].address)
                      THEN [invitations EXCEPT ![i] = "sent"]
                      ELSE invitations
    /\ ClerkEnds(c)
    /\ UNCHANGED <<workos, email, memberships, logins>>

LockForRevocation(c, i) ==
    /\ RowFree(i)
    /\ invitations[i] = "sent"
    /\ Starts(c, "revoke", "locked", None, provider[i].address, i)
    /\ UNCHANGED <<workos, tables, logins>>

\* Mutant of CallsWorkOS: the row is flipped whatever WorkOS answered.
CallsWorkOS_Optional(i) == UNCHANGED workos

\* WorkOS revokes it first.
CallsWorkOS(i) == RevokeAtWorkOS(i)

\* revoke_invitation, and _revoke_pending_invitations for the one row that
\* can be pending.  An error rolls back: see ClerkFails.
CallRevocation(c) ==
    /\ clerks[c].phase = "locked"
    /\ IF clerks[c].invitation = None THEN UNCHANGED workos ELSE CallsWorkOS(clerks[c].invitation)
    /\ ClerkMoves(c, "called")
    /\ UNCHANGED <<tables, logins>>

CommitRevocation(c) ==
    /\ ClerkAt(c, "revoke", "called")
    /\ invitations' = [invitations EXCEPT ![clerks[c].invitation] = "revoked"]
    /\ ClerkEnds(c)
    /\ UNCHANGED <<workos, email, memberships, logins>>

\* A crash, a lost connection, or a WorkOS error: what WorkOS did stays done.
ClerkFails(c) ==
    /\ clerks[c].phase # "idle"
    /\ ClerkEnds(c)
    /\ UNCHANGED <<workos, tables, logins>>

-----------------------------------------------------------------------------
(* The members: set_membership_status and remove_membership.               *)

\* The address is the copy in users.
ReadMembership(c, op, u) ==
    /\ op \in {"remove", "suspend"}
    /\ IF op = "suspend" THEN memberships[u] = "active" /\ MembershipFree(u)
                         ELSE memberships[u] # "none"
    /\ Starts(c, op, "read", u, email[u], None)
    /\ UNCHANGED <<workos, tables, logins>>

LockPending(c) ==
    /\ \E op \in {"remove", "suspend"} : ClerkAt(c, op, "read")
    /\ LET sent == SentTo(clerks[c].address) IN
         \/ \E i \in sent : /\ RowFree(i)
                            /\ clerks' = [clerks EXCEPT ![c].phase = "locked",
                                                        ![c].invitation = i]
         \/ sent = {} /\ ClerkMoves(c, "locked")
    /\ UNCHANGED <<workos, tables, logins>>

Revoked(i) == IF i = None THEN invitations ELSE [invitations EXCEPT ![i] = "revoked"]

CommitSuspension(c) ==
    /\ ClerkAt(c, "suspend", "called")
    /\ memberships' = [memberships EXCEPT ![clerks[c].user] = "suspended"]
    /\ invitations' = Revoked(clerks[c].invitation)
    /\ ClerkEnds(c)
    /\ UNCHANGED <<workos, email, logins>>

\* It has read the row that c is about to delete, to delete it as well.
SharesRow(c, d) ==
    /\ clerks[d].phase # "idle" /\ clerks[d].op = "remove"
    /\ clerks[d].user = clerks[c].user

\* The row that was read is deleted by its key.  That it has gone, by another
\* removal, is no error (user = None): a membership made since is another row.
CommitRemoval(c) ==
    /\ ClerkAt(c, "remove", "called")
    /\ MembershipFree(clerks[c].user)
    /\ memberships' = [u \in Users |-> IF u = clerks[c].user THEN "none" ELSE memberships[u]]
    /\ invitations' = Revoked(clerks[c].invitation)
    /\ clerks' = [d \in Clerks |-> IF d = c THEN Idle
                                  ELSE IF SharesRow(c, d) THEN [clerks[d] EXCEPT !.user = None]
                                  ELSE clerks[d]]
    /\ UNCHANGED <<workos, email, logins>>

Reactivate(u) ==
    /\ memberships[u] = "suspended" /\ MembershipFree(u)
    /\ memberships' = [memberships EXCEPT ![u] = "active"]
    /\ UNCHANGED <<workos, email, invitations, logins, clerks>>

-----------------------------------------------------------------------------
(* The webhook.  The event id is recorded in the transaction of the        *)
(* handler, so an event is applied once; one about an unknown row is       *)
(* recorded too.                                                           *)

DeliverRevoked(e) ==
    /\ e.kind = "revoked"
    /\ RowFree(e.invitation)
    /\ invitations' = [invitations EXCEPT ![e.invitation] =
                         IF @ = "sent" THEN "revoked" ELSE @]
    /\ UNCHANGED email

\* Nothing says which of two events is the newer one.
DeliverUpdated(e) ==
    /\ e.kind = "updated"
    /\ email' = [email EXCEPT ![e.user] = IF @ = None THEN None ELSE e.address]
    /\ UNCHANGED invitations

ProcessWebhookEvent ==
    /\ \E e \in events : /\ DeliverRevoked(e) \/ DeliverUpdated(e)
                         /\ events' = events \ {e}
    /\ UNCHANGED <<accounts, provider, memberships, logins, clerks>>

-----------------------------------------------------------------------------
LoginStep(l) ==
    \/ \E u \in Users : SignIn(l, u)
    \/ ReadCandidate(l) \/ Revalidate(l) \/ LockInvitation(l)
    \/ AcceptInvitation(l) \/ LinkAgain(l) \/ LoginFails(l)

ClerkStep(c) ==
    \/ \E a \in Addresses : CheckPending(c, a)
    \/ SendInvitation(c) \/ CommitInvitation(c)
    \/ \E i \in Invitations : LockForRevocation(c, i)
    \/ CallRevocation(c) \/ CommitRevocation(c)
    \/ \E u \in Users, op \in {"remove", "suspend"} : ReadMembership(c, op, u)
    \/ LockPending(c) \/ CommitSuspension(c) \/ CommitRemoval(c)
    \/ ClerkFails(c)

Next ==
    \/ \E l \in Logins : LoginStep(l)
    \/ \E c \in Clerks : ClerkStep(c)
    \/ \E u \in Users : ChangeAddress(u) \/ Reactivate(u)
    \/ \E i \in Invitations : EndAtWorkOS(i)
    \/ ProcessWebhookEvent

Spec == Init /\ [][Next]_vars

-----------------------------------------------------------------------------
(* Properties.                                                             *)

\* At most one invitation per address can be accepted, although the check and
\* the insert of invite_user have a call to WorkOS between them.
OnePendingInvitation ==
    \A i, j \in Invitations :
        /\ invitations[i] = "sent" /\ invitations[j] = "sent"
        /\ provider[i].address = provider[j].address
        => i = j

\* What this code calls revoked cannot be accepted at WorkOS either, wherever
\* a request stopped.
RevokedIsRevokedAtWorkOS ==
    \A i \in Invitations : invitations[i] = "revoked" => provider[i].state = "revoked"

Tickets == INSTANCE Admission WITH
    letters <- provider, tickets <- invitations, members <- memberships

\* Logins, requests and webhooks that meet at one invitation, at one person or
\* at one address, and stop or fail anywhere, behave as admissions by ticket:
\* none is spent or withdrawn twice, none is withdrawn that WorkOS still honours,
\* one per address is open, and nobody is suspended who is not an active member.
ImplementsAdmission == Tickets!Spec

\* An invitation is settled once: acceptance, revocation and the webhook never
\* overwrite each other's outcome.
InvitationIsSettledOnce ==
    [][\A i \in Invitations :
         invitations[i] \in {"accepted", "revoked"} => invitations'[i] = invitations[i]]_vars

\* Nobody becomes an active member but by an invitation that is sent until
\* that step and accepted in it, to an address that WorkOS had verified for the
\* very person at this login, and that was not over at WorkOS when the login
\* chose it; or, for a suspended member, by an administrator.
MembershipNeedsAnInvitation ==
    [][\A u \in Users :
         memberships[u] # "active" /\ memberships'[u] = "active" =>
           \/ memberships[u] = "suspended" /\ logins' = logins
           \/ /\ memberships[u] = "none"
              /\ \E l \in Logins :
                   LET i == logins[l].checked IN
                   /\ logins[l].phase = "locked" /\ logins[l].user = u
                   /\ provider[i].address = logins[l].profile
                   /\ invitations[i] = "sent" /\ invitations'[i] = "accepted"
                   /\ ~logins[l].over]_vars
=============================================================================
