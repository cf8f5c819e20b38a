------------------------- MODULE Membership_proofs -------------------------
(***************************************************************************)
(* Theorems of Membership, for any sets of users, addresses, invitations,  *)
(* logins and requests.  RowLocks says who may hold the row of an          *)
(* invitation, and the predicates on a login and on a clerk say what of    *)
(* its reads is still true, whatever WorkOS and the others did since.      *)
(***************************************************************************)
EXTENDS Membership, TLAPS

\* A request that holds the row of an invitation.
LoginHolds(l, i) == logins[l].phase = "locked" /\ logins[l].checked = i
ClerkHolds(c, i) ==
    /\ clerks[c].phase \in {"locked", "called"} /\ clerks[c].op # "invite"
    /\ clerks[c].invitation = i
\* One that has had an invitation sent and has no row for it yet.
Inserts(c, i) == ClerkAt(c, "invite", "called") /\ clerks[c].invitation = i

RowLocks ==
    /\ \A i \in Invitations, k, l \in Logins : LoginHolds(k, i) /\ LoginHolds(l, i) => k = l
    /\ \A i \in Invitations, c, d \in Clerks : ClerkHolds(c, i) /\ ClerkHolds(d, i) => c = d
    /\ \A i \in Invitations, c, d \in Clerks : Inserts(c, i) /\ Inserts(d, i) => c = d
    /\ \A i \in Invitations, l \in Logins, c \in Clerks : ~(LoginHolds(l, i) /\ ClerkHolds(c, i))

LoginOK(l) ==
    LET login == logins[l]
        i == login.checked
    IN  /\ login.phase # "idle" => email[login.user] # None
        /\ login.phase \in {"candidate", "grantable", "locked"} =>
             /\ i \in Invitations
             /\ provider[i].state # "none" /\ provider[i].address = login.profile
             /\ login.over => Over(i)
        /\ login.phase \in {"grantable", "locked"} => ~login.over
        /\ login.phase = "locked" => invitations[i] = "sent"

ClerkOK(c) ==
    LET clerk == clerks[c]
        i == clerk.invitation
    IN  /\ clerk.phase # "idle" /\ clerk.op \in {"remove", "suspend"} =>
             \/ clerk.user \in Users /\ email[clerk.user] # None
             \/ clerk.op = "remove" /\ clerk.user = None
        /\ clerk.phase # "idle" /\ clerk.op = "revoke" => i \in Invitations
        /\ clerk.phase = "called" /\ clerk.op = "invite" =>
             /\ i \in Invitations /\ clerk.address \in Addresses
             /\ provider[i].state # "none" /\ provider[i].address = clerk.address
             /\ invitations[i] = "absent"
        /\ clerk.phase \in {"locked", "called"} /\ clerk.op # "invite" /\ i # None =>
             /\ invitations[i] = "sent"
             /\ clerk.phase = "called" => provider[i].state = "revoked"
        /\ clerk.phase = "locked" => clerk.op # "invite"
        /\ clerk.phase = "read" => i = None
        /\ clerk.phase # "idle" /\ clerk.op = "invite" => clerk.address \in Addresses

RequestsOK == (\A l \in Logins : LoginOK(l)) /\ (\A c \in Clerks : ClerkOK(c))

RevokedInv ==
    /\ RevokedIsRevokedAtWorkOS
    /\ \A e \in events : e.kind = "revoked" => provider[e.invitation].state = "revoked"

IInv == TypeOK /\ RowLocks /\ RequestsOK /\ RevokedInv /\ OnePendingInvitation

-----------------------------------------------------------------------------
(* What WorkOS and the users' copies never take back.                      *)

\* What is known of an invitation at WorkOS stays true.
Settles(i) ==
    /\ provider[i].state # "none" =>
         provider'[i].state # "none" /\ provider'[i].address = provider[i].address
    /\ Over(i) => Over(i)'
    /\ provider[i].state = "revoked" => provider'[i].state = "revoked"

LEMMA EndingSettles ==
    ASSUME TypeOK, NEW i \in Invitations,
           \/ RevokeAtWorkOS(i)
           \/ /\ provider[i].state = "pending"
              /\ \E over \in {"accepted", "expired"} : provider' = [provider EXCEPT ![i].state = over]
    PROVE  /\ \A j \in Invitations : Settles(j)
           /\ provider' \in [Invitations -> [state : ProviderState, address : Addresses \union {None}]]
BY DEF RevokeAtWorkOS, Settles, Over, TypeOK, ProviderState

LEMMA SendingSettles ==
    ASSUME TypeOK, NEW c \in Clerks, SendInvitation(c), clerks[c].address \in Addresses
    PROVE  /\ \A j \in Invitations : Settles(j)
           /\ provider' \in [Invitations -> [state : ProviderState, address : Addresses \union {None}]]
           /\ \E i \in Invitations :
                /\ provider[i].state = "none" /\ provider'[i] = Sent(clerks[c].address)
                /\ clerks' = [clerks EXCEPT ![c].phase = "called", ![c].invitation = i]
                /\ \A j \in Invitations \ {i} : provider'[j] = provider[j]
<1>1. PICK i \in Invitations :
        /\ provider[i].state = "none"
        /\ provider' = [provider EXCEPT ![i] = Sent(clerks[c].address)]
        /\ clerks' = [clerks EXCEPT ![c].phase = "called", ![c].invitation = i]
  BY DEF SendInvitation
<1>2. Sent(clerks[c].address) \in [state : ProviderState, address : Addresses \union {None}]
  BY DEF Sent, ProviderState
<1>3. provider' \in [Invitations -> [state : ProviderState, address : Addresses \union {None}]]
  BY <1>1, <1>2 DEF TypeOK
<1>4. provider'[i] = Sent(clerks[c].address) /\ \A j \in Invitations \ {i} : provider'[j] = provider[j]
  BY <1>1 DEF TypeOK
<1>5. \A j \in Invitations : Settles(j)
  BY <1>1, <1>4 DEF Settles, Over
<1> QED
  BY <1>1, <1>3, <1>4, <1>5

\* The records of requests that are under way.
LEMMA OpenLogin ==
    ASSUME TypeOK, NEW l \in Logins, logins[l].phase # "idle"
    PROVE  logins[l] \in
             [phase : {"profile", "candidate", "grantable", "locked"},
              user : Users, profile : Addresses, checked : Invitations \union {None},
              member : BOOLEAN, again : BOOLEAN, over : BOOLEAN]
BY DEF TypeOK, Login

LEMMA OpenClerk ==
    ASSUME TypeOK, NEW c \in Clerks, clerks[c].phase # "idle"
    PROVE  clerks[c] \in
             [op : {"invite", "revoke", "remove", "suspend"}, phase : {"read", "locked", "called"},
              user : Users \union {None}, address : Addresses \union {None},
              invitation : Invitations \union {None}]
BY DEF TypeOK, Clerk

\* A removal that goes on although its row is gone.
Forgets(d) ==
    /\ clerks[d].phase # "idle" /\ clerks[d].op = "remove"
    /\ clerks'[d] = [clerks[d] EXCEPT !.user = None]

LEMMA ForgetsUserOnly ==
    ASSUME TypeOK, NEW d \in Clerks, Forgets(d)
    PROVE  /\ clerks'[d].phase = clerks[d].phase /\ clerks'[d].op = clerks[d].op
           /\ clerks'[d].address = clerks[d].address
           /\ clerks'[d].invitation = clerks[d].invitation
           /\ clerks'[d].user = None /\ clerks'[d] \in Clerk
BY OpenClerk DEF Forgets, Clerk

LEMMA RemovalForgets ==
    ASSUME TypeOK, NEW c \in Clerks, CommitRemoval(c)
    PROVE  /\ clerks'[c] = Idle /\ clerks' \in [Clerks -> Clerk]
           /\ \A d \in Clerks \ {c} : clerks'[d] = clerks[d] \/ Forgets(d)
<1>1. /\ clerks'[c] = Idle
      /\ \A d \in Clerks \ {c} : clerks'[d] = clerks[d] \/ Forgets(d)
  BY DEF CommitRemoval, SharesRow, Forgets
<1>2. \A d \in Clerks : clerks'[d] \in Clerk
  BY <1>1, ForgetsUserOnly DEF TypeOK, Idle, Clerk
<1>3. clerks' = [d \in Clerks |-> clerks'[d]]
  BY DEF CommitRemoval
<1>4. clerks' \in [Clerks -> Clerk]
  BY <1>2, <1>3
<1> QED
  BY <1>1, <1>4

-----------------------------------------------------------------------------
(* Steps that move one request, and steps at WorkOS.                       *)

Others == RowLocks /\ RequestsOK /\ RevokedInv /\ OnePendingInvitation

\* One login moves, and takes a row only if it is free.
LEMMA LoginMoved ==
    ASSUME TypeOK, Others, NEW l \in Logins,
           \A k \in Logins \ {l} : logins'[k] = logins[k],
           UNCHANGED <<workos, invitations, clerks>>,
           \A u \in Users : email[u] # None => email'[u] # None,
           LoginOK(l)',
           logins'[l].phase = "locked" => RowFree(logins'[l].checked)
    PROVE  Others'
<1> USE DEF workos
<1>1. RowLocks'
  BY DEF Others, RowLocks, LoginHolds, ClerkHolds, Inserts, ClerkAt, RowFree
<1>2. \A k \in Logins : LoginOK(k)'
  BY OpenLogin DEF Others, RequestsOK, LoginOK, Over
<1>3. \A c \in Clerks : ClerkOK(c)'
  BY DEF Others, RequestsOK, ClerkOK
<1>4. RevokedInv' /\ OnePendingInvitation'
  BY DEF Others, RevokedInv, RevokedIsRevokedAtWorkOS, OnePendingInvitation
<1> QED
  BY <1>1, <1>2, <1>3, <1>4 DEF Others, RequestsOK

\* One clerk moves, and takes a row only if it is free.
LEMMA ClerkMoved ==
    ASSUME TypeOK, Others, NEW c \in Clerks,
           \A d \in Clerks \ {c} : clerks'[d] = clerks[d],
           UNCHANGED <<workos, email, invitations, logins>>,
           ClerkOK(c)',
           \A i \in Invitations : ClerkHolds(c, i)' => ClerkHolds(c, i) \/ RowFree(i),
           \A i \in Invitations : Inserts(c, i)' => Inserts(c, i)
    PROVE  Others'
<1> USE DEF workos
<1>1. RowLocks'
  BY DEF Others, RowLocks, LoginHolds, ClerkHolds, Inserts, ClerkAt, RowFree
<1>2. \A l \in Logins : LoginOK(l)'
  BY DEF Others, RequestsOK, LoginOK, Over
<1>3. \A d \in Clerks : ClerkOK(d)'
  BY DEF Others, RequestsOK, ClerkOK
<1>4. RevokedInv' /\ OnePendingInvitation'
  BY DEF Others, RevokedInv, RevokedIsRevokedAtWorkOS, OnePendingInvitation
<1> QED
  BY <1>1, <1>2, <1>3, <1>4 DEF Others, RequestsOK

\* WorkOS changes an invitation, and at most one clerk knows it.
LEMMA ProviderMoved ==
    ASSUME TypeOK, Others,
           \A j \in Invitations : Settles(j),
           UNCHANGED <<tables, logins>>,
           \A e \in events' : e.kind = "revoked" => provider'[e.invitation].state = "revoked",
           \A c, d \in Clerks : c # d => clerks'[c] = clerks[c] \/ clerks'[d] = clerks[d],
           \A c \in Clerks : clerks'[c] # clerks[c] => ClerkOK(c)',
           \A c \in Clerks, i \in Invitations : ClerkHolds(c, i)' => ClerkHolds(c, i),
           \A c \in Clerks, i \in Invitations :
              Inserts(c, i)' => Inserts(c, i) \/ provider[i].state = "none"
    PROVE  Others'
<1> USE DEF tables
<1>1. \A c \in Clerks, i \in Invitations : Inserts(c, i) => provider[i].state # "none"
  BY DEF Others, RequestsOK, ClerkOK, Inserts, ClerkAt
<1>2. \A c, d \in Clerks, i \in Invitations : Inserts(c, i)' /\ Inserts(d, i)' => c = d
  <2> SUFFICES ASSUME NEW c \in Clerks, NEW d \in Clerks, NEW i \in Invitations,
                      Inserts(c, i)', Inserts(d, i)', c # d
               PROVE  FALSE
    OBVIOUS
  <2>1. Inserts(c, i) \/ Inserts(d, i)
    BY DEF Inserts, ClerkAt
  <2>2. Inserts(c, i) /\ Inserts(d, i)
    BY <2>1, <1>1
  <2> QED
    BY <2>2 DEF Others, RowLocks
<1>3. RowLocks'
  BY <1>2 DEF Others, RowLocks, LoginHolds
<1>4. \A l \in Logins : LoginOK(l)'
  BY OpenLogin DEF Others, RequestsOK, LoginOK, Settles
<1>5. \A c \in Clerks : ClerkOK(c)'
  BY OpenClerk DEF Others, RequestsOK, ClerkOK, Settles
<1>6. RevokedInv'
  BY DEF Others, RevokedInv, RevokedIsRevokedAtWorkOS, Settles
<1>7. OnePendingInvitation'
  <2>1. \A i \in Invitations : invitations[i] = "sent" => provider'[i].address = provider[i].address
    BY DEF TypeOK, Settles
  <2> QED
    BY <2>1 DEF Others, OnePendingInvitation
<1> QED
  BY <1>3, <1>4, <1>5, <1>6, <1>7 DEF Others, RequestsOK

\* Only the copies of the addresses, or a membership, change.
LEMMA CopiesMoved ==
    ASSUME TypeOK, Others,
           UNCHANGED <<provider, invitations, logins, clerks>>,
           \A e \in events' : e.kind = "revoked" => e \in events,
           \A u \in Users : email[u] # None => email'[u] # None
    PROVE  Others'
<1>1. RowLocks'
  BY DEF Others, RowLocks, LoginHolds, ClerkHolds, Inserts, ClerkAt
<1>2. \A l \in Logins : LoginOK(l)'
  BY OpenLogin DEF Others, RequestsOK, LoginOK, Over
<1>3. \A c \in Clerks : ClerkOK(c)'
  BY DEF Others, RequestsOK, ClerkOK
<1>4. RevokedInv' /\ OnePendingInvitation'
  BY DEF Others, RevokedInv, RevokedIsRevokedAtWorkOS, OnePendingInvitation
<1> QED
  BY <1>1, <1>2, <1>3, <1>4 DEF Others, RequestsOK

\* A sent invitation is accepted or revoked, and nobody holds its row after.
LEMMA InvitationSettled ==
    ASSUME TypeOK, Others, NEW i \in Invitations, NEW x \in {"accepted", "revoked"},
           invitations[i] = "sent",
           invitations' = [invitations EXCEPT ![i] = x],
           x = "revoked" => provider[i].state = "revoked",
           UNCHANGED <<provider, email>>,
           \A e \in events' : e \in events,
           \A l \in Logins : logins'[l] \in {logins[l], Idle} /\ ~LoginHolds(l, i)',
           \A c \in Clerks : clerks'[c] \in {clerks[c], Idle} \/ Forgets(c),
           \A c \in Clerks : ~ClerkHolds(c, i)'
    PROVE  Others'
<1>1. /\ Idle.phase = "idle" /\ invitations'[i] = x
      /\ \A j \in Invitations \ {i} : invitations'[j] = invitations[j]
  BY DEF Idle, TypeOK
<1>2. RowLocks'
  <2>1. \A c \in Clerks, j \in Invitations :
          (ClerkHolds(c, j)' => ClerkHolds(c, j)) /\ (Inserts(c, j)' => Inserts(c, j))
    BY <1>1, ForgetsUserOnly DEF ClerkHolds, Inserts, ClerkAt
  <2>2. \A l \in Logins, j \in Invitations : LoginHolds(l, j)' => LoginHolds(l, j)
    BY <1>1 DEF LoginHolds
  <2> QED
    BY <2>1, <2>2 DEF Others, RowLocks
<1>3. \A l \in Logins : LoginOK(l)'
  BY <1>1 DEF Others, RequestsOK, LoginOK, LoginHolds, Over
<1>4. ASSUME NEW c \in Clerks PROVE ClerkOK(c)'
  <2>1. ClerkOK(c)
    BY DEF Others, RequestsOK
  <2>2. CASE clerks'[c] \in {clerks[c], Idle}
    BY <1>1, <2>1, <2>2, NoneAssumption DEF ClerkOK, ClerkHolds
  <2>3. CASE Forgets(c)
    <3>1. clerks[c].op = "remove"
      BY <2>3 DEF Forgets
    <3> QED
      BY <1>1, <2>1, <2>3, <3>1, ForgetsUserOnly, NoneAssumption DEF ClerkOK, ClerkHolds
  <2> QED
    BY <2>2, <2>3
<1>5. RevokedInv' /\ OnePendingInvitation'
  BY <1>1 DEF Others, RevokedInv, RevokedIsRevokedAtWorkOS, OnePendingInvitation
<1> QED
  BY <1>2, <1>3, <1>4, <1>5 DEF Others, RequestsOK

-----------------------------------------------------------------------------
(* Each action keeps the rest of the invariant.                            *)

LEMMA LoginKeepsOthers ==
    ASSUME TypeOK, Others, NEW l \in Logins, LoginStep(l)
    PROVE  Others'
<1> USE DEF Others, RequestsOK
<1>1. ASSUME NEW u \in Users, SignIn(l, u) PROVE Others'
  <2>1. /\ \A k \in Logins \ {l} : logins'[k] = logins[k]
        /\ \A v \in Users : email[v] # None => email'[v] # None
    BY <1>1, NoneAssumption DEF SignIn, TypeOK
  <2>2. LoginOK(l)' /\ logins'[l].phase # "locked"
    BY <1>1, NoneAssumption DEF SignIn, LoginAt, LoginOK, TypeOK
  <2> QED
    BY <1>1, <2>1, <2>2, LoginMoved DEF SignIn
<1>2. ASSUME LoginEnds(l), UNCHANGED <<workos, tables, clerks>> PROVE Others'
  <2>1. /\ \A k \in Logins \ {l} : logins'[k] = logins[k]
        /\ logins'[l].phase = "idle"
    BY <1>2 DEF LoginEnds, TypeOK, Idle
  <2> QED
    BY <1>2, <2>1, LoginMoved DEF LoginOK, tables
<1>3. CASE ReadCandidate(l)
  <2>1. ASSUME NEW i \in Invitations, Pending(l, i),
               logins' = [logins EXCEPT ![l].phase = "candidate", ![l].checked = i,
                                        ![l].over = Over(i)]
        PROVE  Others'
    <3>1. /\ \A k \in Logins \ {l} : logins'[k] = logins[k]
          /\ logins'[l] = [logins[l] EXCEPT !.phase = "candidate", !.checked = i, !.over = Over(i)]
      BY <2>1 DEF TypeOK
    <3>2. logins[l].phase = "profile" /\ UNCHANGED <<workos, tables, clerks>>
      BY <1>3 DEF ReadCandidate, LoginAt
    <3>3. provider[i].state # "none" /\ provider[i].address = logins[l].profile
      BY <2>1 DEF Pending, TypeOK
    <3>4. /\ logins'[l].phase = "candidate" /\ logins'[l].checked = i
          /\ logins'[l].over = Over(i) /\ logins'[l].user = logins[l].user
          /\ logins'[l].profile = logins[l].profile
      BY <3>1, <3>2, OpenLogin
    <3>5. LoginOK(l)'
      BY <3>2, <3>3, <3>4 DEF LoginOK, workos, tables, Over
    <3> QED
      BY <3>1, <3>2, <3>4, <3>5, LoginMoved DEF tables
  <2> QED
    BY <1>2, <1>3, <2>1 DEF ReadCandidate
<1>4. CASE Revalidate(l)
  <2>1. ASSUME Grantable(logins[l].checked), LoginMoves(l, "grantable") PROVE Others'
    <3>1. logins[l].phase = "candidate" /\ UNCHANGED <<workos, tables, clerks>>
      BY <1>4 DEF Revalidate, LoginAt
    <3>2. /\ \A k \in Logins \ {l} : logins'[k] = logins[k]
          /\ logins'[l] = [logins[l] EXCEPT !.phase = "grantable"]
      BY <2>1 DEF LoginMoves, TypeOK
    <3>3. /\ logins'[l].phase = "grantable" /\ logins'[l].checked = logins[l].checked
          /\ logins'[l].over = logins[l].over /\ logins'[l].user = logins[l].user
          /\ logins'[l].profile = logins[l].profile
      BY <3>1, <3>2, OpenLogin
    <3>4. LoginOK(l)'
      BY <2>1, <3>1, <3>3 DEF LoginOK, workos, tables, Over, Grantable
    <3> QED
      BY <3>1, <3>2, <3>3, <3>4, LoginMoved DEF tables
  <2> QED
    BY <1>2, <1>4, <2>1 DEF Revalidate
<1>5. CASE LockInvitation(l)
  <2> DEFINE i == logins[l].checked
  <2>1. ASSUME Pending(l, i),
               logins' = [logins EXCEPT ![l].phase = "locked",
                                        ![l].member = memberships[logins[l].user] # "none"]
        PROVE  Others'
    <3>1. logins[l].phase = "grantable" /\ RowFree(i) /\ UNCHANGED <<workos, tables, clerks>>
      BY <1>5 DEF LockInvitation, LoginAt
    <3>2. /\ \A k \in Logins \ {l} : logins'[k] = logins[k]
          /\ logins'[l] = [logins[l] EXCEPT !.phase = "locked",
                                            !.member = memberships[logins[l].user] # "none"]
      BY <2>1 DEF TypeOK
    <3>3. /\ logins'[l].phase = "locked" /\ logins'[l].checked = i
          /\ logins'[l].over = logins[l].over /\ logins'[l].user = logins[l].user
          /\ logins'[l].profile = logins[l].profile
      BY <3>1, <3>2, OpenLogin
    <3>4. LoginOK(l)'
      BY <2>1, <3>1, <3>3 DEF LoginOK, workos, tables, Over, Pending
    <3> QED
      BY <3>1, <3>2, <3>3, <3>4, LoginMoved DEF tables
  <2> QED
    BY <1>2, <1>5, <2>1 DEF LockInvitation
<1>6. CASE AcceptInvitation(l)
  <2>0. PICK i \in Invitations : i = logins[l].checked
    BY <1>6 DEF AcceptInvitation, LoginAt, LoginOK
  <2>1. logins[l].phase = "locked" /\ invitations[i] = "sent" /\ LoginHolds(l, i)
    BY <1>6, <2>0 DEF AcceptInvitation, LoginAt, LoginOK, LoginHolds
  <2>2. /\ logins'[l] = Idle /\ \A k \in Logins \ {l} : logins'[k] = logins[k]
        /\ clerks' = clerks /\ invitations' = [invitations EXCEPT ![i] = "accepted"]
        /\ UNCHANGED <<provider, email, events>>
    BY <1>6, <2>0 DEF AcceptInvitation, LoginEnds, TypeOK, workos
  <2>3. \A k \in Logins : ~LoginHolds(k, i)'
    BY <2>1, <2>2 DEF RowLocks, LoginHolds, Idle
  <2>4. \A c \in Clerks : ~ClerkHolds(c, i)'
    BY <2>1, <2>2 DEF RowLocks, ClerkHolds
  <2> QED
    BY <2>1, <2>2, <2>3, <2>4, InvitationSettled
<1>7. CASE LinkAgain(l)
  <2>1. ASSUME ~logins[l].again,
               logins'[l] = [logins[l] EXCEPT !.phase = "profile", !.checked = None, !.again = TRUE]
        PROVE  Others'
    <3>1. /\ \A k \in Logins \ {l} : logins'[k] = logins[k]
          /\ logins[l].phase = "locked" /\ UNCHANGED <<workos, tables, clerks>>
      BY <1>7 DEF LinkAgain, TypeOK, LoginAt
    <3>2. logins'[l].phase = "profile" /\ logins'[l].user = logins[l].user
      BY <2>1, <3>1, OpenLogin
    <3>3. LoginOK(l)'
      BY <3>1, <3>2 DEF LoginOK, tables
    <3> QED
      BY <3>1, <3>2, <3>3, LoginMoved DEF tables
  <2>2. /\ UNCHANGED <<workos, tables, clerks>>
        /\ LoginEnds(l) \/ (/\ ~logins[l].again
                            /\ logins'[l] = [logins[l] EXCEPT !.phase = "profile", !.checked = None,
                                                             !.again = TRUE])
    BY <1>7 DEF LinkAgain, LoginEnds, TypeOK
  <2> QED
    BY <1>2, <2>1, <2>2
<1>8. CASE LoginFails(l)
  BY <1>2, <1>8 DEF LoginFails
<1> QED
  BY <1>1, <1>3, <1>4, <1>5, <1>6, <1>7, <1>8 DEF LoginStep

\* A clerk ends, and nothing that was agreed on changes.
LEMMA ClerkEndsKeepsOthers ==
    ASSUME TypeOK, Others, NEW c \in Clerks, ClerkEnds(c),
           UNCHANGED <<workos, email, invitations, logins>>
    PROVE  Others'
<1>1. /\ \A d \in Clerks \ {c} : clerks'[d] = clerks[d]
      /\ clerks'[c].phase = "idle"
  BY DEF ClerkEnds, TypeOK, Idle
<1> QED
  BY <1>1, ClerkMoved DEF ClerkOK, ClerkHolds, Inserts, ClerkAt

\* Clerks end, or forget a row that is gone.
LEMMA ClerksForget ==
    ASSUME TypeOK, Others, UNCHANGED <<provider, events, email, invitations, logins>>,
           \A d \in Clerks : clerks'[d] \in {clerks[d], Idle} \/ Forgets(d)
    PROVE  Others'
<1>1. \A d \in Clerks, i \in Invitations :
        (ClerkHolds(d, i)' => ClerkHolds(d, i)) /\ (Inserts(d, i)' => Inserts(d, i))
  BY ForgetsUserOnly DEF ClerkHolds, Inserts, ClerkAt, Idle
<1>2. RowLocks'
  BY <1>1 DEF Others, RowLocks, LoginHolds
<1>3. \A l \in Logins : LoginOK(l)'
  BY DEF Others, RequestsOK, LoginOK, Over
<1>4. ASSUME NEW d \in Clerks PROVE ClerkOK(d)'
  <2>1. ClerkOK(d)
    BY DEF Others, RequestsOK
  <2>2. CASE clerks'[d] \in {clerks[d], Idle}
    BY <2>1, <2>2 DEF ClerkOK, Idle
  <2>3. CASE Forgets(d)
    <3>1. clerks[d].op = "remove"
      BY <2>3 DEF Forgets
    <3> QED
      BY <2>1, <2>3, <3>1, ForgetsUserOnly DEF ClerkOK
  <2> QED
    BY <2>2, <2>3
<1>5. RevokedInv' /\ OnePendingInvitation'
  BY DEF Others, RevokedInv, RevokedIsRevokedAtWorkOS, OnePendingInvitation
<1> QED
  BY <1>2, <1>3, <1>4, <1>5 DEF Others, RequestsOK

\* A clerk commits the revocation that WorkOS agreed to.
LEMMA CommitKeepsOthers ==
    ASSUME TypeOK, Others, NEW c \in Clerks, clerks[c].phase = "called", clerks[c].op # "invite",
           invitations' = Revoked(clerks[c].invitation), clerks'[c] = Idle,
           \A d \in Clerks \ {c} : clerks'[d] = clerks[d] \/ Forgets(d),
           UNCHANGED <<workos, email, logins>>
    PROVE  Others'
<1>1. CASE clerks[c].invitation = None
  BY <1>1, ClerksForget DEF Revoked, workos
<1>2. CASE clerks[c].invitation # None
  <2>1. PICK i \in Invitations : i = clerks[c].invitation
    BY <1>2, OpenClerk
  <2>2. /\ invitations[i] = "sent" /\ provider[i].state = "revoked" /\ ClerkHolds(c, i)
        /\ invitations' = [invitations EXCEPT ![i] = "revoked"]
    BY <1>2, <2>1 DEF Others, RequestsOK, ClerkOK, ClerkHolds, Revoked
  <2>3. UNCHANGED <<provider, email, events, logins>>
    BY DEF workos
  <2>4. \A d \in Clerks : ~ClerkHolds(d, i)'
    BY <2>2, ForgetsUserOnly DEF Others, RowLocks, ClerkHolds, Idle
  <2>5. \A l \in Logins : ~LoginHolds(l, i)'
    BY <2>2, <2>3 DEF Others, RowLocks, LoginHolds
  <2> QED
    BY <2>2, <2>3, <2>4, <2>5, InvitationSettled
<1> QED
  BY <1>1, <1>2

\* A clerk takes the row of a sent invitation, or finds that there is none.
LEMMA LockingKeepsOthers ==
    ASSUME TypeOK, Others, NEW c \in Clerks, NEW i \in Invitations \union {None},
           \A d \in Clerks \ {c} : clerks'[d] = clerks[d],
           clerks'[c].phase = "locked", clerks'[c].op # "invite", clerks'[c].invitation = i,
           clerks'[c].op = "revoke" => i # None,
           clerks'[c].op \in {"remove", "suspend"} =>
              \/ clerks'[c].user \in Users /\ email[clerks'[c].user] # None
              \/ clerks'[c].op = "remove" /\ clerks'[c].user = None,
           i # None => RowFree(i) /\ invitations[i] = "sent",
           UNCHANGED <<workos, tables, logins>>
    PROVE  Others'
<1>1. ClerkOK(c)'
  BY NoneAssumption DEF ClerkOK, tables
<1>2. \A j \in Invitations : ClerkHolds(c, j)' => ClerkHolds(c, j) \/ RowFree(j)
  BY NoneAssumption DEF ClerkHolds
<1> QED
  BY <1>1, <1>2, ClerkMoved DEF tables, Inserts, ClerkAt

LEMMA SendingKeepsOthers ==
    ASSUME TypeOK, Others, NEW c \in Clerks, SendInvitation(c)
    PROVE  Others'
<1>1. clerks[c].phase = "read" /\ clerks[c].op = "invite" /\ clerks[c].address \in Addresses
  BY DEF SendInvitation, ClerkAt, Others, RequestsOK, ClerkOK
<1>2. PICK i \in Invitations :
        /\ provider[i].state = "none" /\ provider'[i] = Sent(clerks[c].address)
        /\ clerks' = [clerks EXCEPT ![c].phase = "called", ![c].invitation = i]
        /\ \A j \in Invitations \ {i} : provider'[j] = provider[j]
  BY <1>1, SendingSettles
<1>3. clerks'[c] = [clerks[c] EXCEPT !.phase = "called", !.invitation = i]
  BY <1>2 DEF TypeOK
<1>4. /\ clerks'[c].phase = "called" /\ clerks'[c].op = "invite" /\ clerks'[c].invitation = i
      /\ clerks'[c].address = clerks[c].address
      /\ \A d \in Clerks \ {c} : clerks'[d] = clerks[d]
  BY <1>1, <1>2, <1>3, OpenClerk DEF TypeOK
<1>5. events' = events /\ UNCHANGED <<tables, logins>>
  BY DEF SendInvitation
<1>6. ClerkOK(c)'
  <2>1. provider'[i].state = "pending" /\ provider'[i].address = clerks'[c].address
    BY <1>2, <1>4 DEF Sent
  <2>2. invitations'[i] = "absent"
    BY <1>2, <1>5 DEF TypeOK, tables
  <2> QED
    BY <1>1, <1>4, <2>1, <2>2 DEF ClerkOK
<1>7. \A e \in events' : e.kind = "revoked" => provider'[e.invitation].state = "revoked"
  <2>1. \A e \in events : e.kind = "revoked" => e.invitation \in Invitations
    BY DEF TypeOK, Event
  <2> QED
    BY <1>5, <2>1, <1>1, SendingSettles DEF Others, RevokedInv, Settles
<1>8. \A d \in Clerks, j \in Invitations : ClerkHolds(d, j)' => ClerkHolds(d, j)
  BY <1>4 DEF ClerkHolds
<1>9. \A d \in Clerks, j \in Invitations :
        Inserts(d, j)' => Inserts(d, j) \/ provider[j].state = "none"
  BY <1>2, <1>4 DEF Inserts, ClerkAt
<1>10. \A j \in Invitations : Settles(j)
  BY <1>1, SendingSettles
<1> QED
  BY <1>4, <1>5, <1>6, <1>7, <1>8, <1>9, <1>10, ProviderMoved

LEMMA CallKeepsOthers ==
    ASSUME TypeOK, Others, NEW c \in Clerks, CallRevocation(c)
    PROVE  Others'
<1> DEFINE clerk == clerks[c]
<1>1. /\ clerk.phase = "locked" /\ clerk.op # "invite"
      /\ clerks' = [clerks EXCEPT ![c].phase = "called"]
      /\ UNCHANGED <<tables, logins>>
  BY DEF CallRevocation, ClerkMoves, Others, RequestsOK, ClerkOK
<1>2. clerks'[c] = [clerks[c] EXCEPT !.phase = "called"]
  BY <1>1 DEF TypeOK
<1>3. /\ clerks'[c].phase = "called" /\ clerks'[c].op = clerks[c].op
      /\ clerks'[c].invitation = clerks[c].invitation
      /\ clerks'[c].user = clerks[c].user /\ clerks'[c].address = clerks[c].address
      /\ \A d \in Clerks \ {c} : clerks'[d] = clerks[d]
  BY <1>1, <1>2, OpenClerk DEF TypeOK
<1>4. /\ \A d \in Clerks, j \in Invitations : ClerkHolds(d, j)' => ClerkHolds(d, j)
      /\ \A d \in Clerks, j \in Invitations : Inserts(d, j)' => Inserts(d, j)
  BY <1>1, <1>3 DEF ClerkHolds, Inserts, ClerkAt
<1>5. CASE clerk.invitation = None
  <2>1. UNCHANGED workos
    BY <1>5 DEF CallRevocation
  <2>2. ClerkOK(c)'
    BY <1>1, <1>3, <1>5, NoneAssumption DEF Others, RequestsOK, ClerkOK, tables
  <2> QED
    BY <1>1, <1>3, <1>4, <2>1, <2>2, ClerkMoved DEF tables
<1>6. CASE clerk.invitation # None
  <2>1. PICK i \in Invitations : i = clerks[c].invitation
    BY <1>1, <1>6, OpenClerk
  <2>2. RevokeAtWorkOS(i)
    BY <1>6, <2>1 DEF CallRevocation, CallsWorkOS
  <2>3. \A j \in Invitations : Settles(j)
    BY <2>2, EndingSettles
  <2>4. provider'[i].state = "revoked"
    BY <2>2 DEF RevokeAtWorkOS, TypeOK
  <2>5. ClerkOK(c)'
    BY <1>1, <1>3, <1>6, <2>1, <2>4 DEF Others, RequestsOK, ClerkOK, tables
  <2>6. \A e \in events' : e.kind = "revoked" => provider'[e.invitation].state = "revoked"
    <3>1. \A e \in events : e.kind = "revoked" => e.invitation \in Invitations
      BY DEF TypeOK, Event
    <3> QED
      BY <2>2, <2>3, <2>4, <3>1 DEF Others, RevokedInv, Settles, RevokeAtWorkOS
  <2> QED
    BY <1>1, <1>3, <1>4, <2>3, <2>5, <2>6, ProviderMoved
<1> QED
  BY <1>5, <1>6

LEMMA InsertKeepsOthers ==
    ASSUME TypeOK, Others, NEW c \in Clerks, CommitInvitation(c)
    PROVE  Others'
<1>1. clerks[c].phase = "called" /\ clerks[c].op = "invite" /\ ClerkEnds(c)
      /\ UNCHANGED <<workos, email, memberships, logins>>
  BY DEF CommitInvitation, ClerkAt
<1>2. CASE ~UniquePending(clerks[c].address)
  BY <1>1, <1>2, ClerkEndsKeepsOthers DEF CommitInvitation
<1>3. CASE UniquePending(clerks[c].address)
  <2>1. PICK i \in Invitations : i = clerks[c].invitation
    BY <1>1 DEF Others, RequestsOK, ClerkOK
  <2>2. invitations' = [invitations EXCEPT ![i] = "sent"]
    BY <1>3, <2>1 DEF CommitInvitation
  <2>3. /\ provider[i].address = clerks[c].address /\ invitations[i] = "absent"
        /\ provider[i].state # "none" /\ Inserts(c, i)
    BY <1>1, <2>1 DEF Others, RequestsOK, ClerkOK, Inserts, ClerkAt
  <2>4. /\ invitations'[i] = "sent"
        /\ \A j \in Invitations \ {i} : invitations'[j] = invitations[j]
        /\ clerks'[c].phase = "idle" /\ \A d \in Clerks \ {c} : clerks'[d] = clerks[d]
        /\ UNCHANGED <<provider, events>>
    BY <1>1, <2>2 DEF ClerkEnds, TypeOK, Idle, workos
  <2>5. RowLocks'
    BY <1>1, <2>4 DEF Others, RowLocks, LoginHolds, ClerkHolds, Inserts, ClerkAt
  <2>6. \A l \in Logins : LoginOK(l)'
    BY <1>1, <2>4 DEF Others, RequestsOK, LoginOK, Over
  <2>7. \A d \in Clerks : ClerkOK(d)'
    <3> SUFFICES ASSUME NEW d \in Clerks, d # c PROVE ClerkOK(d)'
      BY <2>4 DEF ClerkOK
    <3>1. ClerkOK(d) /\ ~Inserts(d, i) /\ ~ClerkHolds(d, i)
      BY <2>3, NoneAssumption DEF Others, RequestsOK, RowLocks, ClerkOK, ClerkHolds, Inserts
    <3>2. clerks[d].phase # "idle" => clerks[d].invitation \in Invitations \union {None}
      BY OpenClerk
    <3> QED
      BY <1>1, <2>3, <2>4, <3>1, <3>2 DEF ClerkOK, ClerkHolds, Inserts, ClerkAt
  <2>8. RevokedInv'
    BY <2>3, <2>4 DEF Others, RevokedInv, RevokedIsRevokedAtWorkOS
  <2>9. OnePendingInvitation'
    BY <1>3, <2>3, <2>4 DEF Others, OnePendingInvitation, UniquePending, SentTo
  <2> QED
    BY <2>5, <2>6, <2>7, <2>8, <2>9 DEF Others, RequestsOK
<1> QED
  BY <1>2, <1>3

LEMMA ClerkKeepsOthers ==
    ASSUME TypeOK, Others, NEW c \in Clerks, ClerkStep(c)
    PROVE  Others'
<1> DEFINE Open(op, phase, u, a, i) ==
             clerks' = [clerks EXCEPT ![c] =
               [op |-> op, phase |-> phase, user |-> u, address |-> a, invitation |-> i]]
<1>1. ASSUME NEW a \in Addresses, CheckPending(c, a) PROVE Others'
  <2>1. Open("invite", "read", None, a, None) /\ UNCHANGED <<workos, tables, logins>>
    BY <1>1 DEF CheckPending, Starts
  <2>2. /\ clerks'[c] = [op |-> "invite", phase |-> "read", user |-> None, address |-> a,
                         invitation |-> None]
        /\ \A d \in Clerks \ {c} : clerks'[d] = clerks[d]
    BY <2>1 DEF TypeOK
  <2>3. ClerkOK(c)'
    BY <2>2 DEF ClerkOK
  <2> QED
    BY <2>1, <2>2, <2>3, ClerkMoved DEF tables, ClerkHolds, Inserts, ClerkAt
<1>2. ASSUME NEW i \in Invitations, LockForRevocation(c, i) PROVE Others'
  <2>1. /\ Open("revoke", "locked", None, provider[i].address, i)
        /\ RowFree(i) /\ invitations[i] = "sent" /\ UNCHANGED <<workos, tables, logins>>
    BY <1>2 DEF LockForRevocation, Starts
  <2>2. /\ clerks'[c] = [op |-> "revoke", phase |-> "locked", user |-> None,
                         address |-> provider[i].address, invitation |-> i]
        /\ \A d \in Clerks \ {c} : clerks'[d] = clerks[d]
    BY <2>1 DEF TypeOK
  <2> QED
    BY <2>1, <2>2, NoneAssumption, LockingKeepsOthers
<1>3. ASSUME NEW u \in Users, NEW op \in {"remove", "suspend"}, ReadMembership(c, op, u)
      PROVE  Others'
  <2>1. /\ Open(op, "read", u, email[u], None) /\ memberships[u] # "none"
        /\ UNCHANGED <<workos, tables, logins>>
    BY <1>3 DEF ReadMembership, Starts
  <2>2. /\ clerks'[c] = [op |-> op, phase |-> "read", user |-> u, address |-> email[u],
                         invitation |-> None]
        /\ \A d \in Clerks \ {c} : clerks'[d] = clerks[d]
    BY <2>1 DEF TypeOK
  <2>3. ClerkOK(c)'
    BY <2>1, <2>2 DEF ClerkOK, TypeOK, tables
  <2> QED
    BY <2>1, <2>2, <2>3, ClerkMoved DEF tables, ClerkHolds, Inserts, ClerkAt
<1>4. CASE LockPending(c)
  <2>1. /\ clerks[c].phase = "read" /\ clerks[c].op \in {"remove", "suspend"}
        /\ UNCHANGED <<workos, tables, logins>>
    BY <1>4 DEF LockPending, ClerkAt
  <2>2. \/ clerks[c].user \in Users /\ email[clerks[c].user] # None
        \/ clerks[c].op = "remove" /\ clerks[c].user = None
    BY <2>1 DEF Others, RequestsOK, ClerkOK
  <2>3. ASSUME NEW i \in SentTo(clerks[c].address), RowFree(i),
               clerks' = [clerks EXCEPT ![c].phase = "locked", ![c].invitation = i]
        PROVE  Others'
    <3>1. i \in Invitations /\ invitations[i] = "sent"
      BY <2>3 DEF SentTo
    <3>2. /\ clerks'[c] = [clerks[c] EXCEPT !.phase = "locked", !.invitation = i]
          /\ \A d \in Clerks \ {c} : clerks'[d] = clerks[d]
      BY <2>3 DEF TypeOK
    <3>3. /\ clerks'[c].phase = "locked" /\ clerks'[c].op = clerks[c].op
          /\ clerks'[c].invitation = i /\ clerks'[c].user = clerks[c].user
      BY <2>1, <3>2, OpenClerk
    <3> QED
      BY <2>1, <2>2, <2>3, <3>1, <3>2, <3>3, LockingKeepsOthers
  <2>4. ASSUME SentTo(clerks[c].address) = {}, ClerkMoves(c, "locked") PROVE Others'
    <3>1. /\ clerks'[c] = [clerks[c] EXCEPT !.phase = "locked"]
          /\ \A d \in Clerks \ {c} : clerks'[d] = clerks[d]
      BY <2>4 DEF ClerkMoves, TypeOK
    <3>2. /\ clerks'[c].phase = "locked" /\ clerks'[c].op = clerks[c].op
          /\ clerks'[c].invitation = clerks[c].invitation /\ clerks'[c].user = clerks[c].user
      BY <2>1, <3>1, OpenClerk
    <3>3. clerks[c].invitation = None
      BY <2>1 DEF Others, RequestsOK, ClerkOK
    <3> QED
      BY <2>1, <2>2, <3>1, <3>2, <3>3, LockingKeepsOthers
  <2> QED
    BY <1>4, <2>3, <2>4 DEF LockPending
<1>5. CASE CommitRevocation(c)
  <2>1. clerks[c].invitation \in Invitations
    BY <1>5 DEF CommitRevocation, ClerkAt, Others, RequestsOK, ClerkOK
  <2>2. invitations' = Revoked(clerks[c].invitation)
    BY <1>5, <2>1, NoneAssumption DEF CommitRevocation, Revoked
  <2> QED
    BY <1>5, <2>2, CommitKeepsOthers DEF CommitRevocation, ClerkAt, ClerkEnds, TypeOK
<1>6. CASE CommitSuspension(c)
  BY <1>6, CommitKeepsOthers DEF CommitSuspension, ClerkAt, ClerkEnds, TypeOK
<1>7. CASE CommitRemoval(c)
  BY <1>7, RemovalForgets, CommitKeepsOthers DEF CommitRemoval, ClerkAt
<1>8. CASE ClerkFails(c)
  BY <1>8, ClerkEndsKeepsOthers DEF ClerkFails, tables
<1>9. CASE SendInvitation(c) \/ CommitInvitation(c) \/ CallRevocation(c)
  BY <1>9, SendingKeepsOthers, InsertKeepsOthers, CallKeepsOthers
<1> QED
  BY <1>1, <1>2, <1>3, <1>4, <1>5, <1>6, <1>7, <1>8, <1>9 DEF ClerkStep

LEMMA EnvironmentKeepsOthers ==
    ASSUME TypeOK, Others,
           \/ \E u \in Users : ChangeAddress(u) \/ Reactivate(u)
           \/ \E i \in Invitations : EndAtWorkOS(i)
           \/ ProcessWebhookEvent
    PROVE  Others'
<1>1. ASSUME NEW u \in Users, ChangeAddress(u) PROVE Others'
  <2>1. \A e \in events' : e.kind = "revoked" => e \in events
    BY <1>1 DEF ChangeAddress
  <2> QED
    BY <1>1, <2>1, CopiesMoved DEF ChangeAddress, tables
<1>2. ASSUME NEW u \in Users, Reactivate(u) PROVE Others'
  BY <1>2, CopiesMoved DEF Reactivate, workos
<1>3. ASSUME NEW i \in Invitations, EndAtWorkOS(i) PROVE Others'
  <2>1. \/ RevokeAtWorkOS(i)
        \/ /\ provider[i].state = "pending" /\ UNCHANGED <<accounts, events>>
           /\ \E over \in {"accepted", "expired"} :
                provider' = [provider EXCEPT ![i].state = over]
    BY <1>3 DEF EndAtWorkOS
  <2>2. \A j \in Invitations : Settles(j)
    BY <2>1, EndingSettles
  <2>3. \A e \in events' : e.kind = "revoked" => provider'[e.invitation].state = "revoked"
    <3>1. \A e \in events : e.kind = "revoked" =>
             e.invitation \in Invitations /\ provider'[e.invitation].state = "revoked"
      BY <2>2 DEF Others, RevokedInv, Settles, TypeOK, Event
    <3>2. CASE RevokeAtWorkOS(i)
      <4>1. provider'[i].state = "revoked"
        BY <3>2 DEF RevokeAtWorkOS, TypeOK
      <4> QED
        BY <3>1, <3>2, <4>1 DEF RevokeAtWorkOS
    <3> QED
      BY <2>1, <3>1, <3>2
  <2> QED
    BY <1>3, <2>2, <2>3, ProviderMoved DEF EndAtWorkOS, ClerkHolds, Inserts, ClerkAt
<1>4. ASSUME NEW e \in events, DeliverUpdated(e), events' = events \ {e},
             UNCHANGED <<accounts, provider, memberships, logins, clerks>>
      PROVE  Others'
  <2>1. e.user \in Users /\ e.address \in Addresses
    BY <1>4 DEF DeliverUpdated, TypeOK, Event
  <2>2. \A u \in Users : email[u] # None => email'[u] # None
    BY <1>4, <2>1, NoneAssumption DEF DeliverUpdated, TypeOK
  <2> QED
    BY <1>4, <2>2, CopiesMoved DEF DeliverUpdated
<1>5. ASSUME NEW e \in events, DeliverRevoked(e), events' = events \ {e},
             UNCHANGED <<accounts, provider, memberships, logins, clerks>>
      PROVE  Others'
  <2>1. PICK i \in Invitations : i = e.invitation
    BY <1>5 DEF DeliverRevoked, TypeOK, Event
  <2>2. RowFree(i) /\ provider[i].state = "revoked" /\ email' = email
    BY <1>5, <2>1 DEF DeliverRevoked, Others, RevokedInv
  <2>3. CASE invitations[i] = "sent"
    <3>1. invitations' = [invitations EXCEPT ![i] = "revoked"]
      BY <1>5, <2>1, <2>3 DEF DeliverRevoked, TypeOK
    <3>2. /\ \A l \in Logins : ~LoginHolds(l, i)'
          /\ \A c \in Clerks : ~ClerkHolds(c, i)'
      BY <1>5, <2>2 DEF RowFree, LoginHolds, ClerkHolds
    <3> QED
      BY <1>5, <2>2, <2>3, <3>1, <3>2, InvitationSettled
  <2>4. CASE invitations[i] # "sent"
    <3>1. invitations' = invitations
      BY <1>5, <2>1, <2>4 DEF DeliverRevoked, TypeOK
    <3> QED
      BY <1>5, <2>2, <3>1, CopiesMoved
  <2> QED
    BY <2>3, <2>4
<1> QED
  BY <1>1, <1>2, <1>3, <1>4, <1>5 DEF ProcessWebhookEvent

-----------------------------------------------------------------------------
(* The variables keep their types.                                         *)

LEMMA LoginKeepsTypes ==
    ASSUME TypeOK, Others, NEW l \in Logins, LoginStep(l)
    PROVE  TypeOK'
<1> USE DEF workos, tables
<1>1. ASSUME LoginEnds(l), UNCHANGED <<workos, tables, clerks>> PROVE TypeOK'
  BY <1>1 DEF LoginEnds, TypeOK, Idle, Login
<1>2. ASSUME NEW u \in Users, SignIn(l, u) PROVE TypeOK'
  <2>1. /\ email' \in [Users -> Addresses \union {None}]
        /\ \A v \in Users : email'[v] = None => email[v] = None
    BY <1>2, NoneAssumption DEF SignIn, TypeOK
  <2>2. CASE accounts[u] # None
    <3>1. [phase |-> "profile", user |-> u, profile |-> accounts[u], checked |-> None,
           member |-> FALSE, again |-> FALSE, over |-> FALSE] \in Login
      BY <2>2 DEF TypeOK, Login
    <3>2. logins' \in [Logins -> Login]
      BY <1>2, <2>2, <3>1 DEF SignIn, TypeOK
    <3> QED
      BY <1>2, <2>1, <3>2 DEF SignIn, TypeOK
  <2>3. CASE accounts[u] = None
    BY <1>2, <2>1, <2>3 DEF SignIn, TypeOK
  <2> QED
    BY <2>2, <2>3
<1>3. ASSUME UNCHANGED <<workos, tables, clerks>>, logins[l].phase # "idle",
             NEW login \in [phase : {"profile", "candidate", "grantable", "locked"},
                           user : Users, profile : Addresses, checked : Invitations \union {None},
                           member : BOOLEAN, again : BOOLEAN, over : BOOLEAN],
             logins' = [logins EXCEPT ![l] = login]
      PROVE  TypeOK'
  BY <1>3 DEF TypeOK, Login
<1>4. CASE ReadCandidate(l)
  <2>1. ASSUME NEW i \in Invitations,
               logins' = [logins EXCEPT ![l].phase = "candidate", ![l].checked = i,
                                        ![l].over = Over(i)]
        PROVE  TypeOK'
    <3>1. logins[l].phase # "idle" /\ UNCHANGED <<workos, tables, clerks>>
      BY <1>4 DEF ReadCandidate, LoginAt
    <3>2. logins' = [logins EXCEPT ![l] = [@ EXCEPT !.phase = "candidate", !.checked = i,
                                                    !.over = Over(i)]]
      BY <2>1
    <3>3. Over(i) \in BOOLEAN
      BY DEF Over
    <3> QED
      BY <1>3, <3>1, <3>2, <3>3, OpenLogin
  <2> QED
    BY <1>1, <1>4, <2>1 DEF ReadCandidate
<1>5. CASE Revalidate(l)
  BY <1>1, <1>3, <1>5, OpenLogin DEF Revalidate, LoginAt, LoginMoves
<1>6. CASE LockInvitation(l)
  BY <1>1, <1>3, <1>6, OpenLogin DEF LockInvitation, LoginAt
<1>7. CASE AcceptInvitation(l)
  <2>1. /\ logins[l].user \in Users /\ email[logins[l].user] # None
        /\ provider[logins[l].checked].state # "none"
    BY <1>7, OpenLogin DEF AcceptInvitation, LoginAt, Others, RequestsOK, LoginOK
  <2> QED
    BY <1>7, <2>1 DEF AcceptInvitation, LoginEnds, TypeOK, Idle, Login, InvitationStatus,
                      MembershipStatus
<1>8. CASE LinkAgain(l)
  BY <1>1, <1>3, <1>8, OpenLogin DEF LinkAgain, LoginAt, LoginEnds
<1>9. CASE LoginFails(l)
  BY <1>1, <1>9 DEF LoginFails
<1> QED
  BY <1>2, <1>4, <1>5, <1>6, <1>7, <1>8, <1>9 DEF LoginStep

LEMMA ClerkKeepsTypes ==
    ASSUME TypeOK, Others, NEW c \in Clerks, ClerkStep(c)
    PROVE  TypeOK'
<1> USE DEF workos, tables
<1>1. ASSUME NEW op \in {"invite", "revoke", "remove", "suspend"}, NEW phase \in {"read", "locked"},
             NEW u \in Users \union {None}, NEW a \in Addresses \union {None},
             NEW i \in Invitations \union {None}, Starts(c, op, phase, u, a, i),
             UNCHANGED <<workos, tables, logins>>
      PROVE  TypeOK'
  BY <1>1 DEF Starts, TypeOK, Clerk
<1>2. ClerkEnds(c) => clerks' \in [Clerks -> Clerk]
  BY DEF ClerkEnds, TypeOK, Idle, Clerk
<1>3. ASSUME clerks[c].phase # "idle", NEW phase \in {"read", "locked", "called"},
             NEW i \in Invitations \union {None},
             clerks' = [clerks EXCEPT ![c] = [@ EXCEPT !.phase = phase, !.invitation = i]]
      PROVE  clerks' \in [Clerks -> Clerk]
  BY <1>3, OpenClerk, ZenonT(60) DEF TypeOK, Clerk
<1>4. ASSUME clerks[c].phase # "idle", NEW phase \in {"read", "locked", "called"},
             ClerkMoves(c, phase)
      PROVE  clerks' \in [Clerks -> Clerk]
  BY <1>4, OpenClerk DEF ClerkMoves, TypeOK, Clerk
<1>5. ASSUME NEW a \in Addresses, CheckPending(c, a) PROVE TypeOK'
  BY <1>1, <1>5 DEF CheckPending
<1>6. ASSUME NEW i \in Invitations, LockForRevocation(c, i) PROVE TypeOK'
  BY <1>1, <1>6 DEF LockForRevocation, TypeOK
<1>7. ASSUME NEW u \in Users, NEW op \in {"remove", "suspend"}, ReadMembership(c, op, u)
      PROVE  TypeOK'
  BY <1>1, <1>7 DEF ReadMembership, TypeOK
<1>8. CASE LockPending(c)
  <2>1. clerks[c].phase # "idle" /\ UNCHANGED <<workos, tables, logins>>
    BY <1>8 DEF LockPending, ClerkAt
  <2>2. ASSUME NEW i \in Invitations,
               clerks' = [clerks EXCEPT ![c].phase = "locked", ![c].invitation = i]
        PROVE  clerks' \in [Clerks -> Clerk]
    BY <1>3, <2>1, <2>2
  <2>3. clerks' \in [Clerks -> Clerk]
    BY <1>4, <1>8, <2>1, <2>2 DEF LockPending, SentTo
  <2> QED
    BY <2>1, <2>3 DEF TypeOK
<1>9. CASE SendInvitation(c)
  <2>1. clerks[c].phase # "idle" /\ clerks[c].address \in Addresses
        /\ UNCHANGED <<accounts, events, tables, logins>>
    BY <1>9 DEF SendInvitation, ClerkAt, Others, RequestsOK, ClerkOK
  <2>2. PICK i \in Invitations :
          clerks' = [clerks EXCEPT ![c] = [@ EXCEPT !.phase = "called", !.invitation = i]]
    BY <1>9 DEF SendInvitation
  <2>3. clerks' \in [Clerks -> Clerk]
    BY <1>3, <2>1, <2>2
  <2>4. /\ provider' \in [Invitations -> [state : ProviderState, address : Addresses \union {None}]]
        /\ \A j \in Invitations : Settles(j)
    BY <1>9, <2>1, SendingSettles
  <2>5. \A j \in Invitations : provider'[j].state = "none" => provider[j].state = "none"
    BY <2>4 DEF Settles
  <2> QED
    BY <2>1, <2>3, <2>4, <2>5 DEF TypeOK
<1>10. CASE CommitInvitation(c)
  <2>1. /\ clerks[c].invitation \in Invitations
        /\ provider[clerks[c].invitation].state # "none"
    BY <1>10 DEF CommitInvitation, ClerkAt, Others, RequestsOK, ClerkOK
  <2> QED
    BY <1>2, <1>10, <2>1 DEF CommitInvitation, TypeOK, InvitationStatus
<1>11. CASE CallRevocation(c)
  <2>1. clerks[c].phase # "idle" /\ UNCHANGED <<tables, logins>> /\ ClerkMoves(c, "called")
    BY <1>11 DEF CallRevocation
  <2>2. clerks' \in [Clerks -> Clerk]
    BY <1>4, <2>1
  <2>3. CASE clerks[c].invitation = None
    BY <1>11, <2>1, <2>2, <2>3 DEF CallRevocation, TypeOK
  <2>4. CASE clerks[c].invitation # None
    <3>1. PICK i \in Invitations : i = clerks[c].invitation
      BY <2>1, <2>4, OpenClerk
    <3>2. RevokeAtWorkOS(i)
      BY <1>11, <2>4, <3>1 DEF CallRevocation, CallsWorkOS
    <3>3. /\ provider' \in [Invitations -> [state : ProviderState, address : Addresses \union {None}]]
          /\ \A j \in Invitations : Settles(j)
      BY <3>2, EndingSettles
    <3>4. \A j \in Invitations : provider'[j].state = "none" => provider[j].state = "none"
      BY <3>3 DEF Settles
    <3>5. accounts' = accounts /\ events' \subseteq Event
      BY <3>2 DEF RevokeAtWorkOS, TypeOK, Event
    <3> QED
      BY <2>1, <2>2, <3>3, <3>4, <3>5 DEF TypeOK
  <2> QED
    BY <2>3, <2>4
<1>12. ASSUME clerks[c].phase = "called", clerks[c].op # "invite"
       PROVE  /\ Revoked(clerks[c].invitation) \in [Invitations -> InvitationStatus]
              /\ \A i \in Invitations :
                   provider[i].state = "none" => Revoked(clerks[c].invitation)[i] = "absent"
  <2>1. clerks[c].invitation \in Invitations => provider[clerks[c].invitation].state = "revoked"
    BY <1>12, NoneAssumption DEF Others, RequestsOK, ClerkOK
  <2>2. clerks[c].invitation \in Invitations \union {None}
    BY <1>12, OpenClerk
  <2> QED
    BY <2>1, <2>2 DEF Revoked, TypeOK, InvitationStatus
<1>13. CASE CommitRevocation(c)
  <2>1. clerks[c].invitation \in Invitations /\ clerks[c].phase = "called" /\ clerks[c].op # "invite"
    BY <1>13 DEF CommitRevocation, ClerkAt, Others, RequestsOK, ClerkOK
  <2>2. invitations' = Revoked(clerks[c].invitation)
    BY <1>13, <2>1, NoneAssumption DEF CommitRevocation, Revoked
  <2> QED
    BY <1>2, <1>12, <1>13, <2>1, <2>2 DEF CommitRevocation, TypeOK
<1>14. CASE CommitSuspension(c) \/ CommitRemoval(c)
  <2>1. clerks[c].phase = "called" /\ clerks[c].op \in {"suspend", "remove"}
    BY <1>14 DEF CommitSuspension, CommitRemoval, ClerkAt
  <2>2. CommitSuspension(c) => clerks[c].user \in Users /\ email[clerks[c].user] # None
    BY DEF CommitSuspension, ClerkAt, Others, RequestsOK, ClerkOK
  <2>3. /\ memberships' \in [Users -> MembershipStatus]
        /\ \A u \in Users : email'[u] = None => memberships'[u] = "none"
    BY <1>14, <2>2 DEF CommitSuspension, CommitRemoval, TypeOK, MembershipStatus
  <2>4. /\ invitations' = Revoked(clerks[c].invitation) /\ clerks' \in [Clerks -> Clerk]
        /\ UNCHANGED <<workos, email, logins>>
    BY <1>2, <1>14, RemovalForgets DEF CommitSuspension, CommitRemoval
  <2> QED
    BY <1>12, <2>1, <2>3, <2>4 DEF TypeOK
<1>15. CASE ClerkFails(c)
  BY <1>2, <1>15 DEF ClerkFails, TypeOK
<1> QED
  BY <1>5, <1>6, <1>7, <1>8, <1>9, <1>10, <1>11, <1>13, <1>14, <1>15 DEF ClerkStep

LEMMA EnvironmentKeepsTypes ==
    ASSUME TypeOK, Others,
           \/ \E u \in Users : ChangeAddress(u) \/ Reactivate(u)
           \/ \E i \in Invitations : EndAtWorkOS(i)
           \/ ProcessWebhookEvent
    PROVE  TypeOK'
<1> USE DEF workos, tables
<1>1. ASSUME NEW u \in Users, ChangeAddress(u) PROVE TypeOK'
  <2>1. accounts' \in [Users -> Addresses \union {None}] /\ events' \subseteq Event
    BY <1>1 DEF ChangeAddress, TypeOK, Event
  <2> QED
    BY <1>1, <2>1 DEF ChangeAddress, TypeOK
<1>2. ASSUME NEW u \in Users, Reactivate(u) PROVE TypeOK'
  BY <1>2 DEF Reactivate, TypeOK, MembershipStatus
<1>3. ASSUME NEW i \in Invitations, EndAtWorkOS(i) PROVE TypeOK'
  <2>1. /\ provider' \in [Invitations -> [state : ProviderState, address : Addresses \union {None}]]
        /\ \A j \in Invitations : Settles(j)
    BY <1>3, EndingSettles DEF EndAtWorkOS
  <2>2. \A j \in Invitations : provider'[j].state = "none" => provider[j].state = "none"
    BY <2>1 DEF Settles
  <2>3. accounts' = accounts /\ events' \subseteq Event
    BY <1>3 DEF EndAtWorkOS, RevokeAtWorkOS, TypeOK, Event
  <2> QED
    BY <1>3, <2>1, <2>2, <2>3 DEF EndAtWorkOS, TypeOK
<1>4. ASSUME NEW e \in events, DeliverUpdated(e), events' = events \ {e},
             UNCHANGED <<accounts, provider, memberships, logins, clerks>>
      PROVE  TypeOK'
  <2>1. e.user \in Users /\ e.address \in Addresses
    BY <1>4 DEF DeliverUpdated, TypeOK, Event
  <2> QED
    BY <1>4, <2>1, NoneAssumption DEF DeliverUpdated, TypeOK
<1>5. ASSUME NEW e \in events, DeliverRevoked(e), events' = events \ {e},
             UNCHANGED <<accounts, provider, memberships, logins, clerks>>
      PROVE  TypeOK'
  <2>1. e.invitation \in Invitations /\ provider[e.invitation].state = "revoked"
    BY <1>5 DEF DeliverRevoked, TypeOK, Event, Others, RevokedInv
  <2> QED
    BY <1>5, <2>1 DEF DeliverRevoked, TypeOK, InvitationStatus
<1> QED
  BY <1>1, <1>2, <1>3, <1>4, <1>5 DEF ProcessWebhookEvent

-----------------------------------------------------------------------------
(* The theorems.                                                           *)

LEMMA Invariance == Spec => []IInv
<1>1. Init => IInv
  <2> SUFFICES ASSUME Init PROVE IInv
    OBVIOUS
  <2>1. TypeOK
    BY DEF Init, TypeOK, ProviderState, InvitationStatus, MembershipStatus, Login, Clerk, Idle
  <2>2. RowLocks
    BY DEF Init, RowLocks, LoginHolds, ClerkHolds, Inserts, ClerkAt, Idle
  <2>3. RequestsOK
    BY DEF Init, RequestsOK, LoginOK, ClerkOK, Idle
  <2>4. RevokedInv /\ OnePendingInvitation
    BY DEF Init, RevokedInv, RevokedIsRevokedAtWorkOS, OnePendingInvitation
  <2> QED
    BY <2>1, <2>2, <2>3, <2>4 DEF IInv
<1>2. IInv /\ [Next]_vars => IInv'
  <2> SUFFICES ASSUME TypeOK, Others, [Next]_vars PROVE TypeOK' /\ Others'
    BY DEF IInv, Others
  <2>1. CASE UNCHANGED vars
    BY <2>1, CopiesMoved DEF vars, workos, tables, TypeOK, Event
  <2>2. CASE Next
    BY <2>2, LoginKeepsTypes, ClerkKeepsTypes, EnvironmentKeepsTypes, LoginKeepsOthers,
       ClerkKeepsOthers, EnvironmentKeepsOthers DEF Next
  <2> QED
    BY <2>1, <2>2
<1> QED
  BY <1>1, <1>2, PTL DEF Spec

\* The variables keep their types: no membership without a provisioned user, no
\* row for an invitation that WorkOS never sent.
THEOREM TypeCorrect == Spec => []TypeOK
BY Invariance, PTL DEF IInv

\* However many administrators invite, revoke and remove at once, an address
\* never has two invitations that can be accepted.
THEOREM OnePendingCorrect == Spec => []OnePendingInvitation
BY Invariance, PTL DEF IInv

\* A row that says "revoked" belongs to an invitation that WorkOS revoked: the
\* row is held from the check until the commit, and WorkOS is asked in between.
THEOREM RevokedCorrect == Spec => []RevokedIsRevokedAtWorkOS
<1>1. IInv => RevokedIsRevokedAtWorkOS
  BY DEF IInv, RevokedInv
<1> QED
  BY <1>1, Invariance, PTL

\* A login, an administrator's request and a webhook that meet at one
\* invitation never overwrite each other's outcome.
THEOREM SettledOnceCorrect == Spec => InvitationIsSettledOnce
<1> DEFINE Kept == \A i \in Invitations :
                     invitations[i] \in {"accepted", "revoked"} => invitations'[i] = invitations[i]
<1>1. IInv /\ [Next]_vars => Kept
  <2> SUFFICES ASSUME IInv, [Next]_vars PROVE Kept
    OBVIOUS
  <2> USE DEF IInv
  <2>1. ASSUME invitations' = invitations PROVE Kept
    BY <2>1
  <2>2. ASSUME NEW l \in Logins, LoginStep(l) PROVE Kept
    <3>1. CASE AcceptInvitation(l)
      <4>1. invitations[logins[l].checked] = "sent"
        BY <3>1 DEF AcceptInvitation, LoginAt, RequestsOK, LoginOK
      <4> QED
        BY <3>1, <4>1 DEF AcceptInvitation, TypeOK
    <3> QED
      BY <2>1, <2>2, <3>1 DEF LoginStep, SignIn, ReadCandidate, Revalidate, LockInvitation,
                              LinkAgain, LoginFails, tables
  <2>3. ASSUME NEW c \in Clerks, clerks[c].phase = "called", clerks[c].op # "invite",
               invitations' = Revoked(clerks[c].invitation)
        PROVE  Kept
    <3>1. clerks[c].invitation = None \/ invitations[clerks[c].invitation] = "sent"
      BY <2>3 DEF RequestsOK, ClerkOK
    <3> QED
      BY <2>3, <3>1 DEF Revoked, TypeOK
  <2>4. ASSUME NEW c \in Clerks, ClerkStep(c) PROVE Kept
    <3>1. CASE CommitInvitation(c)
      <4>1. invitations[clerks[c].invitation] = "absent"
        BY <3>1 DEF CommitInvitation, ClerkAt, RequestsOK, ClerkOK
      <4> QED
        BY <3>1, <4>1 DEF CommitInvitation, TypeOK
    <3>2. CASE CommitRevocation(c)
      <4>1. clerks[c].invitation \in Invitations
        BY <3>2 DEF CommitRevocation, ClerkAt, RequestsOK, ClerkOK
      <4>2. invitations' = Revoked(clerks[c].invitation)
        BY <3>2, <4>1, NoneAssumption DEF CommitRevocation, Revoked
      <4> QED
        BY <2>3, <3>2, <4>2 DEF CommitRevocation, ClerkAt
    <3>3. CASE CommitSuspension(c) \/ CommitRemoval(c)
      BY <2>3, <3>3 DEF CommitSuspension, CommitRemoval, ClerkAt
    <3> QED
      BY <2>1, <2>4, <3>1, <3>2, <3>3
         DEF ClerkStep, CheckPending, SendInvitation, LockForRevocation, CallRevocation,
             ReadMembership, LockPending, ClerkFails, tables
  <2>5. CASE ProcessWebhookEvent
    BY <2>1, <2>5 DEF ProcessWebhookEvent, DeliverRevoked, DeliverUpdated, TypeOK
  <2> QED
    BY <2>1, <2>2, <2>4, <2>5 DEF Next, ChangeAddress, Reactivate, EndAtWorkOS, tables, vars
<1> QED
  BY <1>1, Invariance, PTL DEF Spec, InvitationIsSettledOnce

\* Whatever becomes of the invitation, the address and the other requests while
\* a login talks to WorkOS, a person becomes a member only by an invitation
\* that was good for that very person.
THEOREM MembershipCorrect == Spec => MembershipNeedsAnInvitation
<1> DEFINE Invited(u) ==
             \/ memberships[u] = "suspended" /\ logins' = logins
             \/ /\ memberships[u] = "none"
                /\ \E l \in Logins :
                     LET i == logins[l].checked IN
                     /\ logins[l].phase = "locked" /\ logins[l].user = u
                     /\ provider[i].address = logins[l].profile
                     /\ invitations[i] = "sent" /\ invitations'[i] = "accepted"
                     /\ ~logins[l].over
           Granted == \A u \in Users :
                        memberships[u] # "active" /\ memberships'[u] = "active" => Invited(u)
<1>1. IInv /\ [Next]_vars => Granted
  <2> SUFFICES ASSUME IInv, [Next]_vars, NEW u \in Users,
                      memberships[u] # "active", memberships'[u] = "active"
               PROVE  Invited(u)
    OBVIOUS
  <2> USE DEF IInv
  <2>1. ASSUME NEW l \in Logins, LoginStep(l) PROVE Invited(u)
    <3>1. AcceptInvitation(l)
      BY <2>1 DEF LoginStep, SignIn, ReadCandidate, Revalidate, LockInvitation, LinkAgain,
                  LoginFails, tables
    <3>2. logins[l].user = u /\ Joins(l) /\ memberships[u] = "none"
      BY <3>1 DEF AcceptInvitation, LostRace, Joins, TypeOK
    <3>3. /\ logins[l].phase = "locked" /\ logins[l].checked \in Invitations
          /\ provider[logins[l].checked].address = logins[l].profile
          /\ invitations[logins[l].checked] = "sent" /\ ~logins[l].over
      BY <3>1 DEF AcceptInvitation, LoginAt, RequestsOK, LoginOK
    <3>4. invitations'[logins[l].checked] = "accepted"
      BY <3>1, <3>3 DEF AcceptInvitation, TypeOK
    <3> QED
      BY <3>2, <3>3, <3>4
  <2>2. ASSUME NEW c \in Clerks, ClerkStep(c) PROVE FALSE
    <3>1. CASE CommitSuspension(c) \/ CommitRemoval(c)
      BY <3>1 DEF CommitSuspension, CommitRemoval, TypeOK
    <3> QED
      BY <2>2, <3>1
         DEF ClerkStep, CheckPending, SendInvitation, CommitInvitation, LockForRevocation,
             CallRevocation, CommitRevocation, ReadMembership, LockPending, ClerkFails, tables
  <2>3. ASSUME NEW v \in Users, Reactivate(v) PROVE Invited(u)
    BY <2>3 DEF Reactivate, TypeOK
  <2>4. memberships' # memberships
    OBVIOUS
  <2> QED
    BY <2>1, <2>2, <2>3, <2>4
       DEF Next, ChangeAddress, EndAtWorkOS, ProcessWebhookEvent, tables, vars
<1> QED
  BY <1>1, Invariance, PTL DEF Spec, MembershipNeedsAnInvitation

-----------------------------------------------------------------------------
(* The admission.  Its proof needs one more fact about the members' rows.  *)

Suspends(c) == clerks[c].phase # "idle" /\ clerks[c].op = "suspend"

\* Who suspends a member holds its row, so that nobody else does or removes it.
SuspensionInv ==
    \A c \in Clerks : Suspends(c) =>
      /\ memberships[clerks[c].user] = "active"
      /\ \A d \in Clerks : Suspends(d) /\ clerks[d].user = clerks[c].user => d = c

\* A request that moves on keeps what it is about; one that begins to suspend
\* finds the member's row free.
LEMMA ClerkSuspends ==
    ASSUME TypeOK, NEW c \in Clerks, ClerkStep(c)
    PROVE  /\ \A d \in Clerks \ {c} : clerks'[d] = clerks[d] \/ Forgets(d)
           /\ Suspends(c)' => \/ Suspends(c) /\ clerks'[c].user = clerks[c].user
                              \/ MembershipFree(clerks'[c].user)
                                 /\ memberships[clerks'[c].user] = "active"
<1>1. ASSUME NEW phase, ClerkMoves(c, phase), clerks[c].phase # "idle"
      PROVE  /\ \A d \in Clerks \ {c} : clerks'[d] = clerks[d]
             /\ clerks'[c].op = clerks[c].op /\ clerks'[c].user = clerks[c].user
  BY <1>1, OpenClerk DEF ClerkMoves, TypeOK
<1>2. ASSUME NEW phase, NEW i, clerks[c].phase # "idle",
             clerks' = [clerks EXCEPT ![c].phase = phase, ![c].invitation = i]
      PROVE  /\ \A d \in Clerks \ {c} : clerks'[d] = clerks[d]
             /\ clerks'[c].op = clerks[c].op /\ clerks'[c].user = clerks[c].user
  BY <1>2, OpenClerk DEF TypeOK
<1>3. ASSUME ClerkEnds(c)
      PROVE  (\A d \in Clerks \ {c} : clerks'[d] = clerks[d]) /\ ~Suspends(c)'
  BY <1>3 DEF ClerkEnds, Idle, Suspends, TypeOK
<1>4. ASSUME NEW op, NEW phase, NEW u, NEW a, NEW i, Starts(c, op, phase, u, a, i)
      PROVE  /\ \A d \in Clerks \ {c} : clerks'[d] = clerks[d]
             /\ clerks'[c].op = op /\ clerks'[c].user = u
  BY <1>4 DEF Starts, TypeOK
<1>5. CASE \E u \in Users, op \in {"remove", "suspend"} : ReadMembership(c, op, u)
  BY <1>4, <1>5 DEF ReadMembership, Suspends
<1>6. CASE (\E a \in Addresses : CheckPending(c, a))
           \/ (\E i \in Invitations : LockForRevocation(c, i))
  BY <1>4, <1>6 DEF CheckPending, LockForRevocation, Suspends
<1>7. CASE LockPending(c) \/ SendInvitation(c) \/ CallRevocation(c)
  <2>1. clerks[c].phase # "idle"
    BY <1>7 DEF LockPending, SendInvitation, CallRevocation, ClerkAt
  <2> QED
    BY <1>1, <1>2, <1>7, <2>1
    DEF LockPending, SendInvitation, CallRevocation, Suspends
<1>8. CASE CommitInvitation(c) \/ CommitRevocation(c) \/ CommitSuspension(c)
           \/ ClerkFails(c)
  BY <1>3, <1>8 DEF CommitInvitation, CommitRevocation, CommitSuspension, ClerkFails
<1>9. CASE CommitRemoval(c)
  BY <1>9, RemovalForgets DEF Suspends, Idle
<1> QED
  BY <1>5, <1>6, <1>7, <1>8, <1>9 DEF ClerkStep

LEMMA NextSuspension ==
    ASSUME IInv, SuspensionInv, [Next]_vars
    PROVE  SuspensionInv'
<1> USE DEF IInv
<1>1. ASSUME clerks' = clerks,
             \A u \in Users : memberships[u] = "active" => memberships'[u] = "active"
      PROVE  SuspensionInv'
  <2>1. \A c \in Clerks : Suspends(c) => clerks[c].user \in Users
    BY DEF RequestsOK, ClerkOK, Suspends
  <2> QED
    BY <1>1, <2>1 DEF SuspensionInv, Suspends
<1>2. ASSUME NEW l \in Logins, LoginStep(l) PROVE SuspensionInv'
  <2>1. clerks' = clerks /\ (memberships' = memberships \/ AcceptInvitation(l))
    BY <1>2 DEF LoginStep, SignIn, ReadCandidate, Revalidate, LockInvitation,
       AcceptInvitation, LinkAgain, LoginFails, tables
  <2>2. AcceptInvitation(l) =>
           \A u \in Users : memberships[u] = "active" => memberships'[u] = "active"
    BY DEF AcceptInvitation, TypeOK
  <2> QED
    BY <1>1, <2>1, <2>2
<1>3. ASSUME NEW c \in Clerks, ClerkStep(c) PROVE SuspensionInv'
  <2>1. /\ \A d \in Clerks \ {c} : Suspends(d)' => Suspends(d) /\ clerks'[d] = clerks[d]
        /\ Suspends(c)' => \/ Suspends(c) /\ clerks'[c].user = clerks[c].user
                           \/ MembershipFree(clerks'[c].user)
                              /\ memberships[clerks'[c].user] = "active"
    <3>1. \A d \in Clerks : Forgets(d) => ~Suspends(d)'
      BY ForgetsUserOnly DEF Forgets, Suspends
    <3> QED
      BY <1>3, <3>1, ClerkSuspends DEF Suspends
  <2>2. CASE memberships' = memberships
    <3>1. \A d, e \in Clerks : Suspends(d)' /\ Suspends(e)'
                               /\ clerks'[d].user = clerks'[e].user => d = e
      BY <2>1 DEF SuspensionInv, Suspends, MembershipFree
    <3>2. \A d \in Clerks : Suspends(d)' => memberships[clerks'[d].user] = "active"
      BY <2>1 DEF SuspensionInv, Suspends
    <3> QED
      BY <2>2, <3>1, <3>2 DEF SuspensionInv
  <2>3. CASE CommitSuspension(c) \/ CommitRemoval(c)
    <3>1. clerks'[c].phase = "idle"
      BY <2>3, RemovalForgets DEF CommitSuspension, ClerkEnds, Idle, TypeOK
    <3>2. \A d \in Clerks : Suspends(d)' => d # c /\ clerks'[d] = clerks[d] /\ Suspends(d)
      BY <2>1, <3>1 DEF Suspends
    <3>3. \A d \in Clerks \ {c} : Suspends(d) => clerks[d].user # clerks[c].user
      BY <2>3 DEF CommitSuspension, CommitRemoval, ClerkAt, MembershipFree, SuspensionInv,
         Suspends
    <3>4. \A u \in Users : u # clerks[c].user => memberships'[u] = memberships[u]
      BY <2>3 DEF CommitSuspension, CommitRemoval, TypeOK
    <3>5. \A d \in Clerks : Suspends(d) => clerks[d].user \in Users
      BY DEF RequestsOK, ClerkOK, Suspends
    <3>6. \A d \in Clerks : Suspends(d)' => memberships'[clerks'[d].user] = "active"
      BY <3>2, <3>3, <3>4, <3>5 DEF SuspensionInv
    <3>7. \A d, e \in Clerks : Suspends(d)' /\ Suspends(e)'
                               /\ clerks'[d].user = clerks'[e].user => d = e
      BY <3>2 DEF SuspensionInv
    <3> QED
      BY <3>6, <3>7 DEF SuspensionInv
  <2> QED
    BY <1>3, <2>2, <2>3 DEF ClerkStep, CheckPending, SendInvitation, CommitInvitation,
       LockForRevocation, CallRevocation, CommitRevocation, ReadMembership, LockPending,
       ClerkFails, tables
<1>4. ASSUME NEW u \in Users, Reactivate(u) PROVE SuspensionInv'
  BY <1>1, <1>4 DEF Reactivate, TypeOK
<1>5. CASE \/ \E u \in Users : ChangeAddress(u)
           \/ \E i \in Invitations : EndAtWorkOS(i)
           \/ ProcessWebhookEvent \/ UNCHANGED vars
  BY <1>1, <1>5 DEF ChangeAddress, EndAtWorkOS, ProcessWebhookEvent, tables, vars
<1> QED
  BY <1>2, <1>3, <1>4, <1>5 DEF Next

\* A login only ever admits.
LEMMA LoginRefines ==
    ASSUME IInv, NEW l \in Logins, LoginStep(l)
    PROVE  Tickets!Next \/ UNCHANGED Tickets!admissionVars
<1> USE DEF IInv
<1>1. CASE AcceptInvitation(l)
  <2> DEFINE i == logins[l].checked
             u == logins[l].user
  <2>1. /\ LoginAt(l, "locked") /\ i \in Invitations /\ invitations[i] = "sent"
        /\ provider' = provider
        /\ invitations' = [invitations EXCEPT ![i] = "accepted"]
        /\ memberships' = [memberships EXCEPT ![u] = IF Joins(l) THEN "active" ELSE @]
    BY <1>1 DEF AcceptInvitation, LoginAt, RequestsOK, LoginOK, workos
  <2>2. u \in Users
    BY <2>1, OpenLogin DEF LoginAt
  <2>3. Joins(l) => memberships[u] = "none"
    BY <1>1 DEF AcceptInvitation, LostRace, Joins
  <2>4. \/ memberships[u] = "none" /\ memberships' = [memberships EXCEPT ![u] = "active"]
        \/ memberships' = memberships
    BY <2>1, <2>2, <2>3 DEF TypeOK
  <2> HIDE DEF i, u
  <2>5. Tickets!Admit(i, u)
    BY <2>1, <2>4 DEF Tickets!Admit
  <2> QED
    BY <2>1, <2>2, <2>5 DEF Tickets!Next
<1> QED
  BY <1>1 DEF LoginStep, SignIn, ReadCandidate, Revalidate, LockInvitation, LinkAgain,
     LoginFails, tables, workos, Tickets!admissionVars

\* What a clerk that holds a row, or none, does to the tickets at its commit.
LEMMA RevokedRefines ==
    ASSUME IInv, NEW c \in Clerks, clerks[c].phase = "called", clerks[c].op # "invite",
           invitations' = Revoked(clerks[c].invitation)
    PROVE  IF clerks[c].invitation = None THEN invitations' = invitations
           ELSE clerks[c].invitation \in Invitations
                /\ Tickets!Withdraws(clerks[c].invitation)
<1>1. clerks[c].invitation \in Invitations \union {None}
  BY OpenClerk DEF IInv
<1>2. clerks[c].invitation # None =>
         /\ invitations[clerks[c].invitation] = "sent"
         /\ provider[clerks[c].invitation].state = "revoked"
  BY DEF IInv, RequestsOK, ClerkOK
<1> QED
  BY <1>1, <1>2 DEF Revoked, Tickets!Withdraws

\* The steps of a clerk at WorkOS.
LEMMA CallRefines ==
    ASSUME IInv, NEW c \in Clerks, SendInvitation(c) \/ CallRevocation(c)
    PROVE  Tickets!Next \/ UNCHANGED Tickets!admissionVars
<1>1. UNCHANGED <<invitations, memberships>>
  BY DEF SendInvitation, CallRevocation, tables
<1>2. CASE SendInvitation(c)
  <2>1. clerks[c].address \in Addresses
    BY <1>2 DEF IInv, RequestsOK, ClerkOK, SendInvitation, ClerkAt
  <2>2. PICK i \in Invitations :
          /\ provider[i].state = "none"
          /\ provider' = [provider EXCEPT ![i] = Sent(clerks[c].address)]
    BY <1>2 DEF SendInvitation
  <2>3. Tickets!Send(i, clerks[c].address)
    BY <1>1, <2>2 DEF Tickets!Send, Sent
  <2> QED
    BY <2>1, <2>3 DEF Tickets!Next
<1>3. CASE CallRevocation(c)
  <2>1. CASE clerks[c].invitation = None
    BY <1>1, <1>3, <2>1 DEF CallRevocation, workos, Tickets!admissionVars
  <2>2. CASE clerks[c].invitation # None
    <3>1. clerks[c].invitation \in Invitations
      BY <1>3, <2>2, OpenClerk DEF IInv, CallRevocation
    <3>2. RevokeAtWorkOS(clerks[c].invitation)
      BY <1>3, <2>2 DEF CallRevocation, CallsWorkOS
    <3>3. Tickets!Lapse(clerks[c].invitation)
      BY <1>1, <3>2 DEF RevokeAtWorkOS, Tickets!Lapse
    <3> QED
      BY <3>1, <3>3 DEF Tickets!Next
  <2> QED
    BY <2>1, <2>2
<1> QED
  BY <1>2, <1>3

\* The row of an invitation is inserted if no other of its address is open.
LEMMA InsertRefines ==
    ASSUME IInv, NEW c \in Clerks, CommitInvitation(c)
    PROVE  Tickets!Next \/ UNCHANGED Tickets!admissionVars
<1> DEFINE i == clerks[c].invitation
<1>1. UNCHANGED <<provider, memberships>>
  BY DEF CommitInvitation, workos
<1>2. CASE UniquePending(clerks[c].address)
  <2>1. /\ i \in Invitations /\ invitations[i] = "absent"
        /\ provider[i].state # "none" /\ provider[i].address = clerks[c].address
    BY DEF IInv, RequestsOK, ClerkOK, CommitInvitation, ClerkAt
  <2>2. \A j \in Invitations : invitations[j] = "sent" => provider[j].address # provider[i].address
    BY <1>2, <2>1 DEF UniquePending, SentTo
  <2>3. invitations' = [invitations EXCEPT ![i] = "sent"]
    BY <1>2 DEF CommitInvitation
  <2> HIDE DEF i
  <2>4. Tickets!Register(i)
    BY <1>1, <2>1, <2>2, <2>3 DEF Tickets!Register
  <2> QED
    BY <2>1, <2>4 DEF Tickets!Next
<1>3. CASE ~UniquePending(clerks[c].address)
  BY <1>1, <1>3 DEF CommitInvitation, Tickets!admissionVars
<1> QED
  BY <1>2, <1>3

\* Every step of a clerk.
LEMMA ClerkRefines ==
    ASSUME IInv, SuspensionInv, NEW c \in Clerks, ClerkStep(c)
    PROVE  Tickets!Next \/ UNCHANGED Tickets!admissionVars
<1> DEFINE i == clerks[c].invitation
           u == clerks[c].user
<1>1. CASE CommitRevocation(c)
  <2>1. i \in Invitations /\ clerks[c].phase = "called" /\ clerks[c].op # "invite"
    BY <1>1 DEF IInv, RequestsOK, ClerkOK, CommitRevocation, ClerkAt
  <2>2. invitations' = Revoked(i) /\ i # None
    BY <1>1, <2>1, NoneAssumption DEF CommitRevocation, Revoked
  <2>3. Tickets!Withdraws(i)
    BY <2>1, <2>2, RevokedRefines
  <2>4. UNCHANGED <<provider, memberships>>
    BY <1>1 DEF CommitRevocation, workos
  <2> QED
    BY <2>1, <2>3, <2>4 DEF Tickets!Next, Tickets!Withdraw
<1>2. CASE CommitSuspension(c) \/ CommitRemoval(c)
  <2>1. /\ clerks[c].phase = "called" /\ clerks[c].op \in {"suspend", "remove"}
        /\ invitations' = Revoked(i) /\ provider' = provider
    BY <1>2 DEF CommitSuspension, CommitRemoval, ClerkAt, workos
  <2>3. Tickets!MayWithdraw
    BY <2>1, RevokedRefines DEF Tickets!MayWithdraw
  <2>4. CASE CommitSuspension(c)
    <3>1. memberships[u] = "active"
      BY <2>4 DEF CommitSuspension, ClerkAt, SuspensionInv, Suspends
    <3>2. memberships' = [memberships EXCEPT ![u] = "suspended"]
      BY <2>4 DEF CommitSuspension
    <3> HIDE DEF u
    <3>3. Tickets!Suspend(u)
      BY <2>1, <2>3, <3>1, <3>2 DEF Tickets!Suspend
    <3>4. u \in Users
      BY <2>4 DEF CommitSuspension, ClerkAt, IInv, RequestsOK, ClerkOK, u
    <3> QED
      BY <3>3, <3>4 DEF Tickets!Next
  <2>5. CASE CommitRemoval(c) /\ u \in Users
    <3>1. memberships' = [memberships EXCEPT ![u] = "none"]
      BY <2>5 DEF CommitRemoval, IInv, TypeOK
    <3>2. u \in Users
      BY <2>5
    <3> HIDE DEF u
    <3>3. Tickets!Leave(u)
      BY <2>1, <2>3, <3>1 DEF Tickets!Leave
    <3> QED
      BY <3>2, <3>3 DEF Tickets!Next
  <2>6. CASE CommitRemoval(c) /\ u \notin Users
    <3>1. memberships' = memberships
      BY <2>6 DEF CommitRemoval, IInv, TypeOK
    <3>2. CASE i = None
      BY <2>1, <3>1, <3>2 DEF Revoked, Tickets!admissionVars
    <3>3. CASE i # None
      <4>1. i \in Invitations /\ Tickets!Withdraws(i)
        BY <2>1, <3>3, RevokedRefines
      <4> QED
        BY <2>1, <3>1, <4>1 DEF Tickets!Next, Tickets!Withdraw
    <3> QED
      BY <3>2, <3>3
  <2> QED
    BY <1>2, <2>4, <2>5, <2>6
<1>3. CASE SendInvitation(c) \/ CallRevocation(c)
  BY <1>3, CallRefines
<1>4. CASE CommitInvitation(c)
  BY <1>4, InsertRefines
<1>5. CASE \/ \E a \in Addresses : CheckPending(c, a)
           \/ \E j \in Invitations : LockForRevocation(c, j)
           \/ \E v \in Users, op \in {"remove", "suspend"} : ReadMembership(c, op, v)
           \/ LockPending(c) \/ ClerkFails(c)
  BY <1>5 DEF CheckPending, LockForRevocation, ReadMembership, LockPending, ClerkFails,
     tables, workos, Tickets!admissionVars
<1> QED
  BY <1>1, <1>2, <1>3, <1>4, <1>5 DEF ClerkStep

\* WorkOS, the account's owner, an administrator's reactivation and the webhooks.
LEMMA EnvironmentRefines ==
    ASSUME IInv,
           \/ \E u \in Users : ChangeAddress(u) \/ Reactivate(u)
           \/ \E i \in Invitations : EndAtWorkOS(i)
           \/ ProcessWebhookEvent
    PROVE  Tickets!Next \/ UNCHANGED Tickets!admissionVars
<1>1. ASSUME NEW u \in Users, ChangeAddress(u)
      PROVE  UNCHANGED Tickets!admissionVars
  BY <1>1 DEF ChangeAddress, tables, Tickets!admissionVars
<1>2. ASSUME NEW u \in Users, Reactivate(u)
      PROVE  Tickets!Next
  BY <1>2 DEF Reactivate, workos, Tickets!Next, Tickets!Reactivate
<1>3. ASSUME NEW i \in Invitations, EndAtWorkOS(i)
      PROVE  Tickets!Next
  <2>1. Tickets!Lapse(i)
    BY <1>3 DEF EndAtWorkOS, RevokeAtWorkOS, tables, Tickets!Lapse
  <2> QED
    BY <2>1 DEF Tickets!Next
<1>4. ASSUME NEW e \in events, DeliverRevoked(e), UNCHANGED <<provider, memberships>>
      PROVE  Tickets!Next \/ UNCHANGED Tickets!admissionVars
  <2>1. PICK i \in Invitations : i = e.invitation
    BY <1>4 DEF DeliverRevoked, IInv, TypeOK, Event
  <2>2. provider[i].state = "revoked"
    BY <1>4, <2>1 DEF DeliverRevoked, IInv, RevokedInv
  <2>3. CASE invitations[i] = "sent"
    <3>1. invitations' = [invitations EXCEPT ![i] = "revoked"]
      BY <1>4, <2>1, <2>3 DEF DeliverRevoked
    <3> QED
      BY <1>4, <2>2, <2>3, <3>1 DEF Tickets!Next, Tickets!Withdraw, Tickets!Withdraws
  <2>4. CASE invitations[i] # "sent"
    <3>1. invitations' = invitations
      BY <1>4, <2>1, <2>4 DEF DeliverRevoked, IInv, TypeOK
    <3> QED
      BY <1>4, <3>1 DEF Tickets!admissionVars
  <2> QED
    BY <2>3, <2>4
<1>5. ASSUME NEW e \in events, DeliverUpdated(e), UNCHANGED <<provider, memberships>>
      PROVE  UNCHANGED Tickets!admissionVars
  BY <1>5 DEF DeliverUpdated, Tickets!admissionVars
<1> QED
  BY <1>1, <1>2, <1>3, <1>4, <1>5 DEF ProcessWebhookEvent

\* For any people, invitations, logins and requests, what they do together are
\* admissions by ticket.
THEOREM AdmissionRefinement == Spec => ImplementsAdmission
<1>1. Init => Tickets!Init /\ SuspensionInv
  BY DEF Init, Tickets!Init, SuspensionInv, Suspends, Idle
<1>2. IInv /\ SuspensionInv /\ [Next]_vars => SuspensionInv'
  BY NextSuspension
<1>3. IInv /\ SuspensionInv /\ [Next]_vars => [Tickets!Next]_(Tickets!admissionVars)
  <2> SUFFICES ASSUME IInv, SuspensionInv, [Next]_vars
               PROVE  Tickets!Next \/ UNCHANGED Tickets!admissionVars
    OBVIOUS
  <2>1. CASE UNCHANGED vars
    BY <2>1 DEF vars, workos, tables, Tickets!admissionVars
  <2>2. CASE Next
    BY <2>2, LoginRefines, ClerkRefines, EnvironmentRefines DEF Next
  <2> QED
    BY <2>1, <2>2
<1> QED
  BY <1>1, <1>2, <1>3, Invariance, PTL DEF Spec, ImplementsAdmission, Tickets!Spec

=============================================================================
