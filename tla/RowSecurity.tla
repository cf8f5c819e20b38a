---------------------------- MODULE RowSecurity ----------------------------
(* The row-level security the migrations install: which command on which    *)
(* row PostgreSQL admits under a database role and the settings of the      *)
(* current transaction. Policies of one table are permissive: a command is  *)
(* admitted when one of them admits it. Every policy is a predicate on the  *)
(* settings (a context) and the row; an unset setting matches no row.       *)
EXTENDS FiniteSets

CONSTANT NONE   \* SQL NULL: an unset setting, an absent organisation key

(* The settings a transaction may carry. *)
Unset == [org |-> NONE, user |-> NONE, job |-> NONE, invitation |-> NONE,
          admin |-> FALSE, service |-> FALSE]

Commands == {"select", "insert", "update", "delete"}

(* The restricted roles; every other role is the owner or bypasses the      *)
(* policies, as app_operator does.                                          *)
RestrictedRoles == {"app_runtime", "app_coordinator", "app_metrics"}

SameTenant(ctx, row) == ctx.org # NONE /\ row.org = ctx.org
SameUser(ctx, row) == ctx.user # NONE /\ row.user = ctx.user
Global(row) == row.org = NONE
PlatformOrService(ctx) == ctx.admin \/ ctx.service

(* Tables keyed by the organisation alone: records and their revisions,     *)
(* files, the AI ledger and its copies, feature overrides and AI settings.  *)
RecordPolicy(ctx, cmd, row) == SameTenant(ctx, row)
FilePolicy(ctx, cmd, row) == SameTenant(ctx, row)
AIPolicy(ctx, cmd, row) == SameTenant(ctx, row)
FlagPolicy(ctx, cmd, row) == SameTenant(ctx, row)

(* A worker may read the one job its message names before it has a tenant.  *)
JobPolicy(ctx, cmd, row) ==
  \/ SameTenant(ctx, row)
  \/ cmd = "select" /\ ctx.job # NONE /\ row.id = ctx.job

(* Notifications, and their deliveries through the parent, are private to   *)
(* their recipient inside the organisation.                                 *)
NotificationPolicy(ctx, cmd, row) == SameTenant(ctx, row) /\ SameUser(ctx, row)

(* Memberships are also readable by their own user before any organisation  *)
(* is known; a role grant is readable with its membership and writable only *)
(* inside the organisation.                                                 *)
MembershipPolicy(ctx, cmd, row) ==
  \/ SameTenant(ctx, row)
  \/ cmd = "select" /\ SameUser(ctx, row)

GrantPolicy(ctx, cmd, row) ==
  \/ cmd = "select" /\ MembershipPolicy(ctx, "select", row)
  \/ SameTenant(ctx, row)

(* Invitations: the organisation's own, the ones addressed to the e-mail    *)
(* users.email holds for the bound user, and the one a webhook names.       *)
InvitationPolicy(ctx, cmd, row) ==
  \/ SameTenant(ctx, row)
  \/ cmd \in {"select", "update"}
     /\ \/ ctx.user \in row.invitees
        \/ ctx.invitation # NONE /\ row.id = ctx.invitation

(* The append-only ledger: nobody updates or deletes. *)
AuditPolicy(ctx, cmd, row) ==
  \/ cmd = "select" /\ (SameTenant(ctx, row) \/ ctx.admin)
  \/ cmd = "insert" /\ (SameTenant(ctx, row) \/ Global(row) \/ ctx.admin)

OutboxPolicy(ctx, cmd, row) ==
  \/ cmd = "select" /\ SameTenant(ctx, row)
  \/ cmd = "insert" /\ (SameTenant(ctx, row) \/ Global(row))

(* Who administers the platform: one's own rows before the authorisation,   *)
(* everybody's only under the validated platform or service flag.           *)
PlatformPolicy(ctx, cmd, row) ==
  \/ cmd = "select" /\ SameUser(ctx, row)
  \/ PlatformOrService(ctx)

(* The bootstrap sentinel is never updated. *)
SentinelPolicy(ctx, cmd, row) == cmd # "update" /\ PlatformOrService(ctx)

RuntimeAdmits(ctx, cmd, row) ==
  CASE row.table = "record" -> RecordPolicy(ctx, cmd, row)
    [] row.table = "file" -> FilePolicy(ctx, cmd, row)
    [] row.table = "ai" -> AIPolicy(ctx, cmd, row)
    [] row.table = "flag" -> FlagPolicy(ctx, cmd, row)
    [] row.table = "job" -> JobPolicy(ctx, cmd, row)
    [] row.table = "notification" -> NotificationPolicy(ctx, cmd, row)
    [] row.table = "membership" -> MembershipPolicy(ctx, cmd, row)
    [] row.table = "grant" -> GrantPolicy(ctx, cmd, row)
    [] row.table = "invitation" -> InvitationPolicy(ctx, cmd, row)
    [] row.table = "audit" -> AuditPolicy(ctx, cmd, row)
    [] row.table = "outbox" -> OutboxPolicy(ctx, cmd, row)
    [] row.table = "platform" -> PlatformPolicy(ctx, cmd, row)
    [] row.table = "sentinel" -> SentinelPolicy(ctx, cmd, row)

(* The coordinator sees the dispatch state of every organisation's jobs,    *)
(* settles the ones in flight, owns the outbox, appends to the ledger, and  *)
(* touches a notification only under its organisation and recipient.        *)
CoordinatorUsing(ctx, cmd, row) ==
  CASE row.table = "job" ->
         \/ cmd = "select" /\ row.dispatched
         \/ cmd = "update" /\ row.status \in {"queued", "running"}
    [] row.table = "outbox" ->
         \/ cmd = "select"
         \/ cmd = "update" /\ row.status \in {"pending", "publishing", "published"}
         \/ cmd = "delete" /\ row.status = "published"
    [] row.table = "notification" ->
         cmd \in {"select", "update"} /\ NotificationPolicy(ctx, cmd, row)
    [] OTHER -> FALSE

CoordinatorCheck(ctx, cmd, row) ==
  CASE row.table = "job" -> cmd = "update" /\ row.status \in {"queued", "failed"}
    [] row.table = "outbox" ->
         \/ cmd = "insert"
         \/ cmd = "update" /\ row.status \in {"pending", "publishing", "published", "dead"}
    [] row.table = "notification" -> cmd = "update" /\ NotificationPolicy(ctx, cmd, row)
    [] row.table = "audit" -> cmd = "insert" /\ (SameTenant(ctx, row) \/ Global(row))
    [] OTHER -> FALSE

(* The aggregate count of deliveries that need attention runs as a role of  *)
(* its own, which sees nothing else.                                        *)
MetricsAdmits(ctx, cmd, row) ==
  cmd = "select" /\ row.table = "notification" /\ row.attention

(* USING: the existing rows a command may see; WITH CHECK: the rows it may  *)
(* leave behind.                                                            *)
Using(role, ctx, cmd, row) ==
  \/ role \notin RestrictedRoles
  \/ role = "app_runtime" /\ RuntimeAdmits(ctx, cmd, row)
  \/ role = "app_coordinator" /\ CoordinatorUsing(ctx, cmd, row)
  \/ role = "app_metrics" /\ MetricsAdmits(ctx, cmd, row)

Check(role, ctx, cmd, row) ==
  \/ role \notin RestrictedRoles
  \/ role = "app_runtime" /\ RuntimeAdmits(ctx, cmd, row)
  \/ role = "app_coordinator" /\ CoordinatorCheck(ctx, cmd, row)

(* A locking read needs the SELECT and the UPDATE policies. *)
Lockable(role, ctx, row) ==
  Using(role, ctx, "select", row) /\ Using(role, ctx, "update", row)

Admits(role, ctx, cmd, row) ==
  IF cmd = "insert" THEN Check(role, ctx, cmd, row) ELSE Using(role, ctx, cmd, row)

\* Mutant of ColumnsGranted: UPDATE is granted on the whole table.
ColumnsGranted_Every(role, old, new) == TRUE

(* Column grants: on these tables an UPDATE may change the listed columns   *)
(* only, the tenant key not among them. Every column elsewhere.             *)
ColumnsGranted(role, old, new) ==
  \/ role = "app_runtime" /\ old.table # "invitation"
  \/ role = "app_coordinator" /\ old.table \notin {"job", "outbox"}
  \/ old.org = new.org

(* An UPDATE that turns old into new is one the database carries out. *)
MayRewrite(role, ctx, old, new) ==
  /\ Using(role, ctx, "update", old)
  /\ Check(role, ctx, "update", new)
  /\ role \in RestrictedRoles => ColumnsGranted(role, old, new)
=============================================================================
