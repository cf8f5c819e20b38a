--------------------------- MODULE TenantSession ---------------------------
(* The database sessions of the API, the workers and the coordinator, and   *)
(* the transaction-local settings their code binds for the row policies of  *)
(* RowSecurity. A connection of a pool runs one request, message or webhook *)
(* after another; a step is the code between two commits, rollbacks or      *)
(* points where another session matters. A step names the statements it     *)
(* issues by the rows they are meant for: a row the policies hide from them *)
(* under the settings bound at that moment is one the code misses.          *)
EXTENDS RowSecurity, DatabaseRoles, Naturals, Sequences

Processes == {"api", "worker", "coordinator"}

CONSTANTS
  Users, Orgs, Jobs, Invitations,
  Connections,         \* of the pools of the three processes
  ProcessOf,           \* [Connections -> Processes]
  Deployments,         \* the deployments a process may be started in
  OrgOf, RecipientOf,  \* of a job: its organisation, its created_by_user_id
  InvitedTo, InvitedAs,\* of an invitation: its organisation, its address
  Mailbox,             \* [Users -> sequence of addresses, oldest first]
  BootstrapUser,       \* whose verified e-mail is the configured one
  Founders,            \* set of <<user, org>>: the memberships there are at first
  MaxSessions,         \* bound: requests, messages and webhooks started
  MaxChanges,          \* bound: changes made by somebody else's session
  MaxVersion           \* bound: versions of a record

ASSUME SessionAssumption ==
  /\ NONE \notin Users \cup Orgs \cup Jobs \cup Invitations
  /\ ProcessOf \in [Connections -> Processes]
  /\ OrgOf \in [Jobs -> Orgs] /\ RecipientOf \in [Jobs -> Users]
  /\ InvitedTo \in [Invitations -> Orgs]
  /\ \A u \in Users : Len(Mailbox[u]) > 0
  /\ BootstrapUser \in Users
  /\ ApplicationRoles \subseteq Roles
  /\ \A d \in Deployments :
       d.bootstrapOrg \in Orgs \cup {NONE} /\ d.grants \subseteq Roles \X Roles
  /\ Founders \subseteq Users \X Orgs
  /\ {MaxSessions, MaxChanges} \subseteq Nat /\ MaxVersion \in Nat \ {0}

VARIABLES
  deployment, serving,       \* how it is deployed; the processes that passed their gate
  membership,                \* [Users \X Orgs -> {"none", "active", "inactive"}]
  invitation, mailbox,   \* status of each; users.email: how far into the mailbox
  profile,                   \* the address WorkOS holds: how far into the mailbox
  enabled,                   \* users.is_active
  platform, consumed,        \* platform memberships; the bootstrap sentinel
  flag,                      \* records.deletion per organisation: "absent", "on"
  record,                    \* per organisation, its one record: [live, version]
  revisions,                 \* its immutable history: the versions edits started from
  job,                       \* job status
  conn,                      \* per connection: what it runs, where it is, its settings
  standing,                  \* per connection: what its principal has been entitled to
  started, changes

database == <<membership, invitation, mailbox, profile, enabled, platform,
              consumed, flag, record, revisions, job>>
sessionVars == <<deployment, serving, database, conn, standing, started, changes>>

(* What a connection does: flow, program counter, the authenticated user    *)
(* and the address of the WorkOS profile, the organisation of the header or *)
(* the platform target, the plane or the job or the invitation, what it     *)
(* holds for the next step, the settings, and what its statements missed.   *)
Free == [flow |-> "idle", pc |-> "idle", who |-> NONE, aim |-> NONE, task |-> NONE,
         held |-> {}, fresh |-> {}, expect |-> 0, address |-> NONE, ctx |-> Unset,
         missed |-> {}]

NoStanding == [orgs |-> {}, admin |-> FALSE]

-----------------------------------------------------------------------------
(* The rows, as the policies see them. *)
Row(t, o) == [table |-> t, org |-> o]
Personal(t, o, u) == [table |-> t, org |-> o, user |-> u]
MembershipRow(u, o) == Personal("membership", o, u)
NotificationRow(o, u) == [table |-> "notification", org |-> o, user |-> u, attention |-> FALSE]
JobRow(j) == [table |-> "job", org |-> OrgOf[j], id |-> j, status |-> job[j],
              dispatched |-> TRUE]
InvitationRow(i) ==
  [table |-> "invitation", org |-> InvitedTo[i], id |-> i,
   invitees |-> {u \in Users : Mailbox[u][mailbox[u]] = InvitedAs[i]}]
PlatformRow(u) == [table |-> "platform", org |-> NONE, user |-> u]
Sentinel == Row("sentinel", NONE)
OutboxRow(o) == [table |-> "outbox", org |-> o, status |-> "pending"]
RecordRows == {Row("record", o) : o \in {p \in Orgs : record[p].live}}
FlagRows == {Row("flag", o) : o \in {p \in Orgs : flag[p] # "absent"}}
MembershipRows ==
  {MembershipRow(m[1], m[2]) : m \in {n \in Users \X Orgs : membership[n] # "none"}}

Rows ==
  {Row(t, o) : t \in {"file", "ai"}, o \in Orgs} \cup RecordRows \cup FlagRows
  \cup MembershipRows \cup {[r EXCEPT !.table = "grant"] : r \in MembershipRows}
  \cup {JobRow(j) : j \in Jobs} \cup {InvitationRow(i) : i \in Invitations}
  \cup {NotificationRow(o, u) : o \in Orgs, u \in Users}
  \cup {Row("audit", o) : o \in Orgs \cup {NONE}}
  \cup {OutboxRow(o) : o \in Orgs \cup {NONE}}
  \cup {PlatformRow(u) : u \in platform}
  \cup (IF consumed THEN {Sentinel} ELSE {})

RoleOf(c) == LoginRole(deployment, ProcessOf[c])

(* A statement meant for these rows, and the ones among them it misses. *)
Missed(c, ctx, cmd, rows) == {r \in rows : ~Admits(RoleOf(c), ctx, cmd, r)}
MissedLock(c, ctx, rows) == {r \in rows : ~Lockable(RoleOf(c), ctx, r)}
MissedUpdate(c, ctx, old, new) ==
  IF MayRewrite(RoleOf(c), ctx, old, new) THEN {} ELSE {old}

-----------------------------------------------------------------------------
(* Settings: bound by set_config(.., true), gone with the transaction.      *)
BindOrg(ctx, o) == [ctx EXCEPT !.org = o]
BindUser(ctx, u) == [ctx EXCEPT !.user = u]
BindJob(ctx, j) == [ctx EXCEPT !.job = j]
BindInvitation(ctx, i) == [ctx EXCEPT !.invitation = i]
BindPlatform(ctx) == [ctx EXCEPT !.admin = TRUE]
BindService(ctx) == [ctx EXCEPT !.service = TRUE]
ClearJob(ctx) == [ctx EXCEPT !.job = NONE]
ClearService(ctx) == [ctx EXCEPT !.service = FALSE]
\* Mutant of AfterBoundary: set_config(.., false).
AfterBoundary_Session(ctx) == ctx
AfterBoundary(ctx) == Unset       \* what commit, rollback and close leave

SessionInit ==
  /\ deployment \in Deployments
  /\ serving = {p \in Processes : MayServe(deployment, p)}
  /\ membership = [m \in Users \X Orgs |-> IF m \in Founders THEN "active" ELSE "none"]
  /\ invitation = [i \in Invitations |-> "sent"]
  /\ mailbox = [u \in Users |-> 1]
  /\ profile = [u \in Users |-> 1]
  /\ enabled = Users
  /\ platform = {}
  /\ consumed = FALSE
  /\ flag = [o \in Orgs |-> "absent"]
  /\ record = [o \in Orgs |-> [live |-> TRUE, version |-> 1]]
  /\ revisions = [o \in Orgs |-> <<0>>]
  /\ job = [j \in Jobs |-> "queued"]
  /\ conn = [c \in Connections |-> Free]
  /\ standing = [c \in Connections |-> NoStanding]
  /\ started = 0 /\ changes = 0

-----------------------------------------------------------------------------
(* How a step leaves its connection. Each takes the settings and the misses *)
(* of its statements.                                                       *)
Blames(c, rows) == conn[c].missed \cup {[row |-> r, who |-> conn[c].who] : r \in rows}

Stays(c, pc, ctx, missed) ==
  [conn[c] EXCEPT !.pc = pc, !.ctx = ctx, !.held = {}, !.fresh = {},
                  !.missed = Blames(c, missed)]

Goes(c, pc, ctx, missed) == conn' = [conn EXCEPT ![c] = Stays(c, pc, ctx, missed)]

Holds(c, pc, ctx, missed, held, fresh) ==
  conn' = [conn EXCEPT ![c] = [Stays(c, pc, ctx, missed) EXCEPT !.held = held,
                                                                !.fresh = fresh]]

(* The session is closed and its connection goes back to the pool: what the *)
(* close leaves of the settings stays with the connection.                  *)
Finishes(c, ctx, missed) ==
  conn' = [conn EXCEPT ![c] = [Free EXCEPT !.ctx = AfterBoundary(ctx),
                                           !.missed = Blames(c, missed)]]

(* What a connection's principal has been entitled to since it started: the *)
(* organisations it was an active member of, or that its job or invitation  *)
(* names, and the platform if it was an administrator.                      *)
Entitled(e, past) ==
  LET administers == e.flow = "api" /\ e.task = "platform" /\ e.who \in platform
      of == CASE e.flow = "api" ->
                   {o \in Orgs : membership[<<e.who, o>>] = "active"}
                   \cup (IF administers THEN {e.aim} ELSE {})
              [] e.flow \in {"job", "dead"} -> {OrgOf[e.task]}
              [] e.flow = "revoked" -> {InvitedTo[e.task]}
              [] OTHER -> {}
  IN  IF e.flow = "idle" THEN NoStanding
      ELSE [orgs |-> past.orgs \cup of, admin |-> past.admin \/ administers]

Notice == standing' = [c \in Connections |-> Entitled(conn'[c], standing[c])]

At(c, flow, pc) == conn[c].flow = flow /\ conn[c].pc = pc

Starts(c, entry) ==
  /\ ProcessOf[c] \in serving /\ Production(deployment)
  /\ conn[c].flow = "idle" /\ started < MaxSessions
  /\ conn' = [conn EXCEPT ![c] = [entry EXCEPT !.ctx = conn[c].ctx]]
  /\ started' = started + 1
  /\ UNCHANGED <<deployment, serving, database, changes>>
  /\ Notice

Same == UNCHANGED <<deployment, serving, started, changes>> /\ Notice

-----------------------------------------------------------------------------
(* Authentication: every API request, on either plane.                      *)
Request(c) ==
  \E u \in Users, o \in Orgs, plane \in {"organisation", "platform"} :
    /\ ProcessOf[c] = "api"
    /\ Starts(c, [Free EXCEPT !.flow = "api", !.pc = "provision", !.who = u, !.aim = o,
                              !.task = plane, !.expect = record[o].version])

(* get_or_provision_user refreshes the e-mail and commits; the account must *)
(* be enabled; the authenticated user is bound.                             *)
Provision(c) ==
  LET u == conn[c].who
      ctx == BindUser(AfterBoundary(conn[c].ctx), u)
  IN
  /\ At(c, "api", "provision")
  /\ mailbox' = [mailbox EXCEPT ![u] = profile[u]]
  /\ IF u \in enabled
     THEN conn' = [conn EXCEPT ![c] = [Stays(c, "bootstrap", ctx, {}) EXCEPT
                                         !.address = Mailbox[u][profile[u]]]]
     ELSE Finishes(c, conn[c].ctx, {})
  /\ Same
  /\ UNCHANGED <<membership, invitation, profile, enabled, platform, consumed, flag,
                 record, revisions, job>>

(* maybe_grant_bootstrap_platform_admin: only the configured user gets past *)
(* the profile check; the service flag is bound to read the sentinel, and   *)
(* cleared when it is there. The bootstrap organisation, when one is        *)
(* configured, follows in the same transaction.                             *)
Home == deployment.bootstrapOrg

Bootstrap(c) ==
  LET u == conn[c].who
      ctx == BindService(conn[c].ctx)
      there == IF consumed THEN {Sentinel} ELSE {}
      mine == MembershipRows \cap {MembershipRow(u, Home)}
      asked == IF Home = NONE THEN ctx ELSE BindUser(ctx, u)
      joins == Home # NONE /\ mine \subseteq Missed(c, asked, "select", mine)
  IN
  /\ At(c, "api", "bootstrap")
  /\ IF u # BootstrapUser THEN Goes(c, "link", conn[c].ctx, {})
     ELSE IF there \ Missed(c, ctx, "select", there) # {}
          THEN Goes(c, "link", ClearService(ctx), {})
          ELSE Goes(c, "grant", IF joins THEN BindOrg(asked, Home) ELSE asked,
                    Missed(c, ctx, "select", there) \cup Missed(c, asked, "select", mine))
  /\ Same /\ UNCHANGED database

(* The inserts and the commit. A sentinel somebody else has committed is an *)
(* IntegrityError that rolls everything back and is handled; a membership   *)
(* somebody else has committed surfaces in the flush of                     *)
(* _ensure_bootstrap_organisation, outside the try, and ends the request.   *)
BootstrapGrant(c) ==
  LET u == conn[c].who
      m == <<u, Home>>
      ctx == conn[c].ctx
      joins == ctx.org # NONE
      new == {PlatformRow(u), Sentinel, Row("audit", NONE)}
             \cup {MembershipRow(u, o) : o \in {ctx.org} \ {NONE}}
      denied == Missed(c, ctx, "insert", new)
      refused == (joins /\ membership[m] # "none") \/ (denied # {} /\ ~consumed)
  IN
  /\ At(c, "api", "grant")
  /\ IF refused \/ consumed
     THEN /\ IF refused THEN Finishes(c, ctx, denied)
             ELSE Goes(c, "regrant", AfterBoundary(ctx), {})
          /\ UNCHANGED <<membership, platform, consumed>>
     ELSE /\ platform' = platform \cup {u}
          /\ consumed' = TRUE
          /\ membership' = IF joins THEN [membership EXCEPT ![m] = "active"] ELSE membership
          /\ Goes(c, "link", AfterBoundary(ctx), {})
  /\ Same
  /\ UNCHANGED <<invitation, mailbox, profile, enabled, flag, record, revisions, job>>

(* After the rollback: the service flag again, the sentinel again. Unseen,  *)
(* the login ends in a 503.                                                 *)
BootstrapAgain(c) ==
  LET ctx == BindService(conn[c].ctx)
      there == IF consumed THEN {Sentinel} ELSE {}
      missed == Missed(c, ctx, "select", there)
  IN
  /\ At(c, "api", "regrant")
  /\ IF there \ missed # {} THEN Goes(c, "link", ClearService(ctx), {})
     ELSE Finishes(c, ctx, missed)
  /\ Same /\ UNCHANGED database

-----------------------------------------------------------------------------
(* link_invitation_on_login: candidates by the WorkOS profile's e-mail, read *)
(* under the policy that goes by users.email; WorkOS is asked of each; the   *)
(* ones it still grants are read again FOR UPDATE.                          *)
Sent(c) == {i \in Invitations : invitation[i] = "sent" /\ InvitedAs[i] = conn[c].address}
InvitationRows(S) == {InvitationRow(i) : i \in S}
Locked(i) == \E d \in Connections : conn[d].pc \in {"accept", "revoke"} /\ i \in conn[d].held

Link(c) ==
  LET ctx == BindUser(conn[c].ctx, conn[c].who)
      missed == Missed(c, ctx, "select", InvitationRows(Sent(c)))
      seen == {i \in Sent(c) : InvitationRow(i) \notin missed}
  IN
  /\ At(c, "api", "link")
  /\ IF seen = {} THEN Goes(c, "authorise", ctx, missed)
     ELSE Holds(c, "relock", ctx, missed, seen, {})
  /\ Same /\ UNCHANGED database

Relock(c) ==
  \E granted \in SUBSET (conn[c].held \cap Sent(c)) :
    LET missed == MissedLock(c, conn[c].ctx, InvitationRows(granted))
        seen == {i \in granted : InvitationRow(i) \notin missed}
    IN
    /\ At(c, "api", "relock")
    /\ \A i \in granted : ~Locked(i)
    /\ IF seen = {} THEN Goes(c, "authorise", conn[c].ctx, missed)
       ELSE Holds(c, "accept", conn[c].ctx, missed, seen,
                  {InvitedTo[i] : i \in seen}
                    \cap {o \in Orgs : membership[<<conn[c].who, o>>] = "none"})
    /\ Same /\ UNCHANGED database

(* _accept_invitations: for each, its organisation is bound, the membership *)
(* is looked up and inserted when there is none, the invitation is marked   *)
(* and both events are recorded; one commit. A membership committed by      *)
(* another login after this one looked is an IntegrityError: rollback, and  *)
(* the whole link once more (a second collision, a 503, would take a third  *)
(* invitation to one organisation).                                         *)
Accept(c) ==
  LET u == conn[c].who
      Under(i) == BindOrg(conn[c].ctx, InvitedTo[i])
      missed == UNION {LET o == InvitedTo[i] IN
                         Missed(c, Under(i), "select", MembershipRows \cap {MembershipRow(u, o)})
                         \cup Missed(c, Under(i), "insert", {MembershipRow(u, o), Row("audit", o)})
                         \cup Missed(c, Under(i), "update", {InvitationRow(i)})
                       : i \in conn[c].held}
      taken == \E o \in conn[c].fresh : membership[<<u, o>>] # "none"
  IN
  /\ At(c, "api", "accept")
  /\ IF taken \/ missed # {}
     THEN /\ IF taken THEN Goes(c, "link", AfterBoundary(conn[c].ctx), {})
                      ELSE Finishes(c, conn[c].ctx, missed)
          /\ UNCHANGED <<membership, invitation>>
     ELSE /\ membership' = [m \in Users \X Orgs |->
               IF m[1] = u /\ m[2] \in {InvitedTo[i] : i \in conn[c].held}
                  /\ membership[m] = "none"
               THEN "active" ELSE membership[m]]
          /\ invitation' = [i \in Invitations |->
               IF i \in conn[c].held THEN "accepted" ELSE invitation[i]]
          /\ Goes(c, "authorise", AfterBoundary(conn[c].ctx), {})
  /\ Same
  /\ UNCHANGED <<mailbox, profile, enabled, platform, consumed, flag, record, revisions, job>>

-----------------------------------------------------------------------------
(* get_current_membership: the user is bound again, the membership of the   *)
(* header's organisation is read, and only an active one binds it.          *)
OrganisationPlane(c) ==
  LET u == conn[c].who
      ctx == BindUser(conn[c].ctx, u)
      mine == MembershipRows \cap {MembershipRow(u, conn[c].aim)}
      missed == Missed(c, ctx, "select", mine)
      active == membership[<<u, conn[c].aim>>] = "active"
  IN
  /\ At(c, "api", "authorise") /\ conn[c].task = "organisation"
  /\ IF mine \ missed # {} /\ active
     THEN Goes(c, "work", BindOrg(ctx, conn[c].aim), {})
     ELSE Finishes(c, ctx, missed)
  /\ Same /\ UNCHANGED database

(* require_platform_permission: one's own platform memberships, then the    *)
(* platform flag.                                                           *)
PlatformPlane(c) ==
  LET u == conn[c].who
      ctx == BindUser(conn[c].ctx, u)
      mine == {PlatformRow(v) : v \in platform \cap {u}}
      missed == Missed(c, ctx, "select", mine)
  IN
  /\ At(c, "api", "authorise") /\ conn[c].task = "platform"
  /\ IF mine \ missed # {} THEN Goes(c, "operate", BindPlatform(ctx), {})
     ELSE Finishes(c, ctx, missed)
  /\ Same /\ UNCHANGED database

-----------------------------------------------------------------------------
(* Operations of an organisation, under the settings authorise left.        *)
\* Mutant of RecordLocked: the row is read without FOR UPDATE.
RecordLocked_Never(o) == FALSE

RecordLocked(o) ==
  \E d \in Connections : conn[d].pc \in {"save", "erase"} /\ conn[d].aim = o

(* update_record and delete_record: the row is locked, the version the      *)
(* client read is compared, deletion asks its feature flag.                 *)
LockRecord(c) ==
  LET o == conn[c].aim
      ctx == conn[c].ctx
      rows == RecordRows \cap {Row("record", o)}
      missed == MissedLock(c, ctx, rows)
      found == rows \ missed # {} /\ record[o].version = conn[c].expect
      flags == FlagRows \cap {Row("flag", o)}
      hidden == Missed(c, ctx, "select", flags)
  IN
  /\ At(c, "api", "work")
  /\ ~RecordLocked(o)
  /\ \/ IF found /\ record[o].version < MaxVersion THEN Goes(c, "save", ctx, {})
        ELSE Finishes(c, ctx, missed)
     \/ IF found /\ flags \ hidden # {} THEN Goes(c, "erase", ctx, {})
        ELSE Finishes(c, ctx, missed \cup hidden)
  /\ Same /\ UNCHANGED database

(* The write, its revision and its audit event, and the refresh of the row  *)
(* before the commit.                                                       *)
SaveRecord(c) ==
  LET o == conn[c].aim
      ctx == BindOrg(conn[c].ctx, o)
      missed == Missed(c, conn[c].ctx, "update", {Row("record", o)})
                \cup Missed(c, ctx, "insert", {Row("record", o), Row("audit", o)})
                \cup Missed(c, ctx, "select", {Row("record", o)})
  IN
  /\ At(c, "api", "save")
  /\ record' = [record EXCEPT ![o].version = @ + 1]
  /\ revisions' = [revisions EXCEPT ![o] = Append(@, conn[c].expect)]
  /\ Finishes(c, ctx, missed)
  /\ Same
  /\ UNCHANGED <<membership, invitation, mailbox, profile, enabled, platform, consumed,
                 flag, job>>

EraseRecord(c) ==
  LET o == conn[c].aim
      ctx == BindOrg(conn[c].ctx, o)
      missed == Missed(c, conn[c].ctx, "delete", {Row("record", o)})
                \cup Missed(c, ctx, "insert", {Row("record", o), Row("audit", o)})
  IN
  /\ At(c, "api", "erase")
  /\ record' = [record EXCEPT ![o].live = FALSE]
  /\ revisions' = [revisions EXCEPT ![o] = Append(@, conn[c].expect)]
  /\ Finishes(c, ctx, missed)
  /\ Same
  /\ UNCHANGED <<membership, invitation, mailbox, profile, enabled, platform, consumed,
                 flag, job>>

(* send_test_notification: a notification of the caller, its delivery, the  *)
(* audit event, a job and its outbox event; schedule_job commits, and the   *)
(* rows are refreshed in the transaction after it.                          *)
Notify(c) ==
  LET o == conn[c].aim
      ctx == BindUser(BindOrg(conn[c].ctx, o), conn[c].who)
      new == {NotificationRow(o, conn[c].who), Row("audit", o), OutboxRow(o)}
             \cup {JobRow(j) : j \in {k \in Jobs : OrgOf[k] = o}}
  IN
  /\ At(c, "api", "work")
  /\ Goes(c, "refresh", AfterBoundary(ctx), Missed(c, ctx, "insert", new))
  /\ Same /\ UNCHANGED database

RefreshNotification(c) ==
  LET ctx == BindUser(BindOrg(conn[c].ctx, conn[c].aim), conn[c].who) IN
  /\ At(c, "api", "refresh")
  /\ Finishes(c, ctx, Missed(c, ctx, "select", {NotificationRow(conn[c].aim, conn[c].who)}))
  /\ Same /\ UNCHANGED database

-----------------------------------------------------------------------------
(* Operations of the platform plane: the organisation they target is bound  *)
(* on top of the platform flag. A self-commit drops both, and only the      *)
(* organisation is bound again.                                             *)
ListAudit(c) ==
  /\ At(c, "api", "operate")
  /\ Finishes(c, conn[c].ctx,
              Missed(c, conn[c].ctx, "select", {Row("audit", o) : o \in Orgs \cup {NONE}}))
  /\ Same /\ UNCHANGED database

FlagRow(o) == FlagRows \cap {Row("flag", o)}

(* _apply_override reads the pair's row; the write and its audit event      *)
(* commit. A row somebody else inserted meanwhile is an IntegrityError: the *)
(* rollback, and the whole write once more under the organisation alone.    *)
ReadFlag(c) ==
  LET ctx == BindOrg(conn[c].ctx, conn[c].aim)
      hidden == Missed(c, ctx, "select", FlagRow(conn[c].aim))
  IN
  /\ At(c, "api", "operate")
  /\ Holds(c, "upsert", ctx, hidden, {},
           IF FlagRow(conn[c].aim) = hidden THEN {conn[c].aim} ELSE {})
  /\ Same /\ UNCHANGED database

\* Mutant of SetFlag: the organisation is bound before the first attempt only.
SetFlag_Unbound(c) ==
  LET o == conn[c].aim
      again == AfterBoundary(conn[c].ctx)
      hidden == Missed(c, again, "select", FlagRow(o))
      write == IF conn[c].fresh = {} THEN "update" ELSE "insert"
  IN
  /\ At(c, "api", "upsert")
  /\ IF o \in conn[c].fresh /\ flag[o] # "absent"
     THEN /\ Holds(c, "upsert", again, hidden, {}, {})
          /\ UNCHANGED flag
     ELSE /\ flag' = [flag EXCEPT ![o] = "on"]
          /\ Finishes(c, conn[c].ctx,
                      Missed(c, conn[c].ctx, write, {Row("flag", o)})
                      \cup Missed(c, conn[c].ctx, "insert", {Row("audit", o)}))
  /\ Same
  /\ UNCHANGED <<membership, invitation, mailbox, profile, enabled, platform, consumed,
                 record, revisions, job>>

SetFlag(c) ==
  LET o == conn[c].aim
      again == BindOrg(AfterBoundary(conn[c].ctx), o)
      hidden == Missed(c, again, "select", FlagRow(o))
      write == IF conn[c].fresh = {} THEN "update" ELSE "insert"
  IN
  /\ At(c, "api", "upsert")
  /\ IF o \in conn[c].fresh /\ flag[o] # "absent"
     THEN /\ Holds(c, "upsert", again, hidden, {}, {})
          /\ UNCHANGED flag
     ELSE /\ flag' = [flag EXCEPT ![o] = "on"]
          /\ Finishes(c, conn[c].ctx,
                      Missed(c, conn[c].ctx, write, {Row("flag", o)})
                      \cup Missed(c, conn[c].ctx, "insert", {Row("audit", o)}))
  /\ Same
  /\ UNCHANGED <<membership, invitation, mailbox, profile, enabled, platform, consumed,
                 record, revisions, job>>

(* set_membership_status and remove_membership: the member's invitations    *)
(* into the organisation that are still sent go with a suspension or a      *)
(* removal. assign_role and remove_role issue a subset of these statements. *)
ManageMember(c) ==
  LET o == conn[c].aim
      ctx == BindOrg(conn[c].ctx, o)
  IN
  \E u \in Users, becomes \in {"active", "inactive", "none"} :
    LET row == MembershipRow(u, o)
        grant == [row EXCEPT !.table = "grant"]
        pending == IF becomes = "active" THEN {}
                   ELSE {i \in Invitations : /\ invitation[i] = "sent" /\ InvitedTo[i] = o
                                             /\ InvitedAs[i] = Mailbox[u][mailbox[u]]}
        missed == Missed(c, ctx, "select", {row})
                  \cup (IF becomes = "none" THEN Missed(c, ctx, "delete", {row, grant})
                        ELSE MissedUpdate(c, ctx, row, row))
                  \cup MissedLock(c, ctx, InvitationRows(pending))
                  \cup Missed(c, ctx, "insert", {Row("audit", o)})
    IN
    /\ At(c, "api", "operate")
    /\ membership[<<u, o>>] \notin {"none", becomes}
    /\ \A i \in pending : ~Locked(i)
    /\ membership' = [membership EXCEPT ![<<u, o>>] = becomes]
    /\ invitation' = [i \in Invitations |->
                        IF i \in pending THEN "revoked" ELSE invitation[i]]
    /\ IF becomes = "none" THEN Finishes(c, ctx, missed)
       ELSE Holds(c, "detail", AfterBoundary(ctx), missed, {u}, {})
    /\ Same
    /\ UNCHANGED <<mailbox, profile, enabled, platform, consumed, flag, record, revisions, job>>

MemberDetail(c) ==
  LET o == conn[c].aim
      ctx == BindOrg(conn[c].ctx, o)
      member == MembershipRows \cap {MembershipRow(u, o) : u \in conn[c].held}
  IN
  /\ At(c, "api", "detail")
  /\ Finishes(c, ctx, Missed(c, ctx, "select",
                             member \cup {[r EXCEPT !.table = "grant"] : r \in member}))
  /\ Same /\ UNCHANGED database

-----------------------------------------------------------------------------
(* A worker's message names a job; the row names its organisation. The claim *)
(* locks it under that organisation and commits; the handler runs in a      *)
(* session of its own, bound from the claimed row.                          *)
JobLocked(j) == \E d \in Connections : conn[d].pc = "settled" /\ conn[d].task = j

Message(c) ==
  \E j \in Jobs :
    /\ ProcessOf[c] = "worker"
    /\ Starts(c, [Free EXCEPT !.flow = "job", !.pc = "read", !.task = j])

ReadJob(c) ==
  LET j == conn[c].task
      named == BindJob(conn[c].ctx, j)
      missed == Missed(c, named, "select", {JobRow(j)})
  IN
  /\ At(c, "job", "read")
  /\ IF missed # {} THEN Finishes(c, named, missed)
     ELSE Goes(c, "claim", BindOrg(ClearJob(named), OrgOf[j]), {})
  /\ Same /\ UNCHANGED database

ClaimJob(c) ==
  LET j == conn[c].task
      missed == MissedLock(c, conn[c].ctx, {JobRow(j)})
                \cup MissedUpdate(c, conn[c].ctx, JobRow(j),
                                  [JobRow(j) EXCEPT !.status = "running"])
  IN
  /\ At(c, "job", "claim")
  /\ ~JobLocked(j)
  /\ IF missed = {} /\ job[j] = "queued"
     THEN /\ job' = [job EXCEPT ![j] = "running"]
          /\ Goes(c, "handle", BindOrg(AfterBoundary(conn[c].ctx), OrgOf[j]), {})
     ELSE /\ Finishes(c, conn[c].ctx, missed)
          /\ UNCHANGED job
  /\ Same
  /\ UNCHANGED <<membership, invitation, mailbox, profile, enabled, platform, consumed,
                 flag, record, revisions>>

(* The handler of a notification binds the recipient the job row names and  *)
(* reads under both; the message's job is resolved again for the settlement. *)
HandleJob(c) ==
  LET j == conn[c].task
      ctx == BindUser(BindOrg(conn[c].ctx, OrgOf[j]), RecipientOf[j])
      mail == {NotificationRow(OrgOf[j], RecipientOf[j])}
  IN
  /\ At(c, "job", "handle")
  /\ Goes(c, "settle", BindJob(ctx, j),
          Missed(c, ctx, "select", mail) \cup Missed(c, ctx, "update", mail)
          \cup Missed(c, BindJob(ctx, j), "select", {JobRow(j)}))
  /\ Same /\ UNCHANGED database

(* The outcome, its attempt, its audit event and, on a failure, the         *)
(* notification's: one commit, and the row read again under its tenant.     *)
SettleJob(c) ==
  LET j == conn[c].task
      ctx == BindOrg(ClearJob(conn[c].ctx), OrgOf[j])
      after == BindOrg(AfterBoundary(ctx), OrgOf[j])
      mail == NotificationRow(OrgOf[j], RecipientOf[j])
  IN
  \E outcome \in {"succeeded", "failed"} :
    /\ At(c, "job", "settle")
    /\ job' = [job EXCEPT ![j] = outcome]
    /\ Finishes(c, after,
                MissedLock(c, ctx, {JobRow(j)})
                \cup MissedUpdate(c, ctx, JobRow(j), [JobRow(j) EXCEPT !.status = outcome])
                \cup MissedUpdate(c, BindUser(ctx, RecipientOf[j]), mail, mail)
                \cup Missed(c, ctx, "insert", {Row("audit", OrgOf[j])})
                \cup Missed(c, after, "select", {JobRow(j)}))
    /\ Same
    /\ UNCHANGED <<membership, invitation, mailbox, profile, enabled, platform, consumed,
                   flag, record, revisions>>

(* settle_dead_initial_dispatch, in the coordinator: the job is locked      *)
(* before any organisation is bound, then settled under its own.            *)
DeadEvent(c) ==
  \E j \in Jobs :
    /\ ProcessOf[c] = "coordinator"
    /\ Starts(c, [Free EXCEPT !.flow = "dead", !.pc = "lock", !.task = j])

LockJob(c) ==
  LET j == conn[c].task
      missed == MissedLock(c, conn[c].ctx, {JobRow(j)} \cap
                           {JobRow(k) : k \in {l \in Jobs : job[l] = "queued"}})
  IN
  /\ At(c, "dead", "lock")
  /\ ~JobLocked(j)
  /\ IF job[j] # "queued" \/ missed # {} THEN Finishes(c, conn[c].ctx, missed)
     ELSE Goes(c, "settled", BindUser(BindOrg(conn[c].ctx, OrgOf[j]), RecipientOf[j]), {})
  /\ Same /\ UNCHANGED database

FailJob(c) ==
  LET j == conn[c].task
      ctx == conn[c].ctx
      mail == NotificationRow(OrgOf[j], RecipientOf[j])
  IN
  /\ At(c, "dead", "settled")
  /\ job' = [job EXCEPT ![j] = "failed"]
  /\ Finishes(c, ctx,
              MissedUpdate(c, ctx, JobRow(j), [JobRow(j) EXCEPT !.status = "failed"])
              \cup Missed(c, ctx, "insert", {Row("audit", OrgOf[j])})
              \cup MissedUpdate(c, ctx, mail, mail))
  /\ Same
  /\ UNCHANGED <<membership, invitation, mailbox, profile, enabled, platform, consumed,
                 flag, record, revisions>>

-----------------------------------------------------------------------------
(* Webhooks of WorkOS, on the API's connections and without a user.         *)
InvitationRevoked(c) ==
  \E i \in Invitations :
    /\ ProcessOf[c] = "api"
    /\ Starts(c, [Free EXCEPT !.flow = "revoked", !.pc = "read", !.task = i])

ReadInvitation(c) ==
  LET i == conn[c].task
      ctx == BindInvitation(conn[c].ctx, i)
      missed == MissedLock(c, ctx, {InvitationRow(i)})
  IN
  /\ At(c, "revoked", "read")
  /\ ~Locked(i)
  /\ IF missed = {} /\ invitation[i] = "sent"
     THEN Holds(c, "revoke", BindOrg(ctx, InvitedTo[i]), {}, {i}, {})
     ELSE Finishes(c, ctx, missed)
  /\ Same /\ UNCHANGED database

RevokeInvitation(c) ==
  LET i == conn[c].task IN
  /\ At(c, "revoked", "revoke")
  /\ invitation' = [invitation EXCEPT ![i] = "revoked"]
  /\ Finishes(c, conn[c].ctx,
              Missed(c, conn[c].ctx, "update", {InvitationRow(i)})
              \cup Missed(c, conn[c].ctx, "insert", {Row("audit", InvitedTo[i])}))
  /\ Same
  /\ UNCHANGED <<membership, mailbox, profile, enabled, platform, consumed, flag, record,
                 revisions, job>>

(* user.deleted: whether the last administrator goes is read from everybody's *)
(* platform memberships, under the service flag.                            *)
UserDeleted(c) ==
  \E u \in Users :
    /\ ProcessOf[c] = "api"
    /\ Starts(c, [Free EXCEPT !.flow = "deleted", !.pc = "lock", !.who = u])

LockUser(c) ==
  /\ At(c, "deleted", "lock")
  /\ Goes(c, "deactivate", BindService(conn[c].ctx), {})
  /\ Same /\ UNCHANGED database

Deactivate(c) ==
  /\ At(c, "deleted", "deactivate")
  /\ enabled' = enabled \ {conn[c].who}
  /\ Finishes(c, conn[c].ctx,
              Missed(c, conn[c].ctx, "select", {PlatformRow(u) : u \in platform})
              \cup Missed(c, conn[c].ctx, "insert", {Row("audit", NONE)}))
  /\ Same
  /\ UNCHANGED <<membership, invitation, mailbox, profile, platform, consumed, flag,
                 record, revisions, job>>

(* What happens elsewhere: a user changes the address at WorkOS; a          *)
(* user.updated event arrives, possibly an old one, and the row takes its   *)
(* address (users carry no policy).                                         *)
ProfileChanges(u) ==
  /\ changes < MaxChanges /\ profile[u] < Len(Mailbox[u])
  /\ profile' = [profile EXCEPT ![u] = @ + 1]
  /\ changes' = changes + 1
  /\ UNCHANGED <<deployment, serving, membership, invitation, mailbox, enabled, platform,
                 consumed, flag, record, revisions, job, conn, standing, started>>

UserUpdated(u) ==
  /\ changes < MaxChanges
  /\ \E n \in 1..profile[u] \ {mailbox[u]} : mailbox' = [mailbox EXCEPT ![u] = n]
  /\ changes' = changes + 1
  /\ UNCHANGED <<deployment, serving, membership, invitation, profile, enabled, platform,
                 consumed, flag, record, revisions, job, conn, standing, started>>

-----------------------------------------------------------------------------
OfRequests(c) ==
  \/ Request(c) \/ Provision(c) \/ Bootstrap(c) \/ BootstrapGrant(c) \/ BootstrapAgain(c)
  \/ Link(c) \/ Relock(c) \/ Accept(c) \/ OrganisationPlane(c) \/ PlatformPlane(c)
  \/ LockRecord(c) \/ SaveRecord(c) \/ EraseRecord(c) \/ Notify(c) \/ RefreshNotification(c)
  \/ ListAudit(c) \/ ReadFlag(c) \/ SetFlag(c) \/ ManageMember(c) \/ MemberDetail(c)

OfJobs(c) ==
  \/ Message(c) \/ ReadJob(c) \/ ClaimJob(c) \/ HandleJob(c) \/ SettleJob(c)
  \/ DeadEvent(c) \/ LockJob(c) \/ FailJob(c)

OfWebhooks(c) ==
  \/ InvitationRevoked(c) \/ ReadInvitation(c) \/ RevokeInvitation(c)
  \/ UserDeleted(c) \/ LockUser(c) \/ Deactivate(c)

SessionNext ==
  \/ \E c \in Connections : OfRequests(c) \/ OfJobs(c) \/ OfWebhooks(c)
  \/ \E u \in Users : ProfileChanges(u) \/ UserUpdated(u)

SessionSpec == SessionInit /\ [][SessionNext]_sessionVars

-----------------------------------------------------------------------------
SessionTypeOK ==
  /\ serving \subseteq Processes
  /\ membership \in [Users \X Orgs -> {"none", "active", "inactive"}]
  /\ invitation \in [Invitations -> {"sent", "accepted", "revoked"}]
  /\ \A u \in Users : mailbox[u] \in 1..profile[u] /\ profile[u] \in 1..Len(Mailbox[u])
  /\ enabled \subseteq Users /\ platform \subseteq Users /\ consumed \in BOOLEAN
  /\ flag \in [Orgs -> {"absent", "on"}]
  /\ record \in [Orgs -> [live : BOOLEAN, version : 1..MaxVersion]]
  /\ job \in [Jobs -> {"queued", "running", "succeeded", "failed"}]
  /\ \A c \in Connections :
       /\ DOMAIN conn[c] = DOMAIN Free
       /\ conn[c].ctx.org \in Orgs \cup {NONE} /\ conn[c].ctx.user \in Users \cup {NONE}
       /\ standing[c].orgs \subseteq Orgs
  /\ started \in 0..MaxSessions /\ changes \in 0..MaxChanges

(* The rows and commands the principal of connection c has a reason to      *)
(* reach, whatever the policies say. The user it acts for is the one that   *)
(* signed in, or the recipient its job names.                               *)
ActsFor(c, u) ==
  \/ conn[c].flow = "api" /\ u = conn[c].who
  \/ conn[c].flow = "job" /\ u = RecipientOf[conn[c].task]

Reaches(c, cmd, row) ==
  LET e == conn[c] IN
  \/ /\ \/ row.org \in standing[c].orgs
        \/ e.flow = "api" /\ e.pc = "grant" /\ row.org \in {Home} \ {NONE}
     /\ row.table = "notification" => ActsFor(c, row.user)
  \/ /\ cmd = "select" /\ row.table \in {"membership", "grant", "platform"}
     /\ ActsFor(c, row.user)
  \/ /\ row.table = "invitation" /\ cmd \in {"select", "update"}
     /\ \/ \E u \in row.invitees : ActsFor(c, u)
        \/ e.flow = "revoked" /\ row.id = e.task
  \/ row.table = "job" /\ cmd = "select" /\ e.flow = "job" /\ row.id = e.task
  \/ /\ row.table \in {"platform", "sentinel"}
     /\ \/ standing[c].admin \/ e.flow = "deleted"
        \/ e.flow = "api" /\ e.pc = "grant" /\ e.who = BootstrapUser
  \/ row.table = "audit" /\ standing[c].admin
  \/ cmd = "insert" /\ row.org = NONE /\ row.table \in {"audit", "outbox"}

Served == IF Production(deployment) THEN {c \in Connections : ProcessOf[c] \in serving} ELSE {}

(* No session of the API or a worker, between any two of its steps, is bound *)
(* to settings under which PostgreSQL would let it reach a row that its      *)
(* user, its job or its webhook has no claim to: not another tenant's, not  *)
(* another recipient's, not through what the connection's last session left. *)
ExposureIsBounded ==
  \A row \in Rows, c \in {d \in Served : ProcessOf[d] # "coordinator"}, cmd \in Commands :
    Admits(RoleOf(c), conn[c].ctx, cmd, row) => Reaches(c, cmd, row)

(* No statement of the modelled flows is meant for a row that the policies  *)
(* hide from it, with one exception: an invitation whose address users.email *)
(* no longer holds, because a user.updated event wrote another over it.     *)
NeverBlind ==
  \A c \in Connections : \A x \in conn[c].missed :
    x.row.table = "invitation" /\ x.who # NONE /\ x.who \notin x.row.invitees

(* No UPDATE under any settings a session reaches moves a row from one      *)
(* organisation to another: an invited user's policy admits the old row and *)
(* the new one alike, and only the column grant stands in the way.          *)
RowsKeepTheirTenant ==
  \A row \in {r \in Rows : r.org # NONE}, c \in Served : \A o \in Orgs \ {row.org} :
    ~MayRewrite(RoleOf(c), conn[c].ctx, row, [row EXCEPT !.org = o])

(* A production process that serves logs in as a role from which no chain of *)
(* grants leads to a superuser, to BYPASSRLS or to the owner of a table.    *)
ServesUnderPolicies ==
  \A p \in serving : Production(deployment) =>
    \E S \in SUBSET Roles :
      /\ LoginRole(deployment, p) \in S
      /\ \A g \in deployment.grants : g[1] \in S => g[2] \in S
      /\ \A r \in S : deployment.facts[r] \cap {"super", "bypass", "owner"} = {}

(* Every revision of a record was written over the version its editor had   *)
(* read: no two of them start from the same one.                            *)
NoLostUpdate ==
  \A o \in Orgs : \A i \in DOMAIN revisions[o] : revisions[o][i] = i - 1
=============================================================================
