--------------------------- MODULE DatabaseRoles ---------------------------
(* The credential a process connects with, and the check that a production  *)
(* process makes of it before it serves: app/db/session.py picks the URL,   *)
(* app/db/role_checks.py reads the server's catalogue. A deployment is a    *)
(* record of the environment, the role behind each configured URL, what the *)
(* catalogue says of each role, and who was granted which role.             *)

CONSTANTS
  Roles,     \* database roles, the four of the application among them
  NoUrl      \* a setting that is empty

(* deployment == [env, owner, runtime, coordinator : Roles or NoUrl,        *)
(*                facts : [Roles -> Facts], grants : set of <<member, role>>] *)
Attributes == {"super", "bypass", "createdb", "createrole", "owner"}
ApplicationRoles == {"app_runtime", "app_coordinator", "app_metrics", "app_operator"}
Production(d) == d.env = "production"

RuntimeUrl(d) ==
  IF d.runtime # NoUrl THEN d.runtime
  ELSE IF Production(d) THEN NoUrl ELSE d.owner

CoordinatorUrl(d) ==
  IF d.coordinator # NoUrl THEN d.coordinator
  ELSE IF Production(d) THEN NoUrl ELSE RuntimeUrl(d)

(* The roles SET ROLE reaches from r: the recursive query over the grants   *)
(* ends in the least set that has the roles granted to r and, with a role,  *)
(* the ones granted to it.                                                  *)
GrantedTo(d, r) == {g[2] : g \in {h \in d.grants : h[1] = r}}
Follows(d, r, S) == \A g \in d.grants : g[1] \in S \cup {r} => g[2] \in S
\* Mutant of ReachableRoles: the grants are not followed.
ReachableRoles_Direct(d, r) == GrantedTo(d, r)

ReachableRoles(d, r) ==
  {q \in Roles : \A S \in SUBSET Roles : Follows(d, r, S) => q \in S}

PrivilegedMemberships(d, r) ==
  {g \in ReachableRoles(d, r) : d.facts[g] \cap {"super", "bypass", "owner"} # {}}

RoleProblems(d, r, expected) ==
  \/ r # expected
  \/ d.facts[r] # {}
  \/ PrivilegedMemberships(d, r) # {}

(* app_operator alone may bypass the policies; it owns nothing, is a member *)
(* of nothing, and nothing is a member of it.                               *)
OperatorProblems(d, r) ==
  \/ "app_operator" \notin DOMAIN d.facts
  \/ \/ "super" \in d.facts["app_operator"]
     \/ "bypass" \notin d.facts["app_operator"]
     \/ "owner" \in d.facts["app_operator"]
     \/ \E g \in d.grants : "app_operator" \in {g[1], g[2]}
     \/ \E a \in ApplicationRoles \cap DOMAIN d.facts :
          a # "app_operator" /\ "bypass" \in d.facts[a]
     \/ "app_operator" \in ReachableRoles(d, r)

(* verify_runtime_database_role, verify_coordinator_database_role. *)
RuntimeIsSafe(d) ==
  LET r == RuntimeUrl(d) IN
  ~RoleProblems(d, r, "app_runtime") /\ ~OperatorProblems(d, r)

CoordinatorIsSafe(d) ==
  ~RoleProblems(d, CoordinatorUrl(d), "app_coordinator")

(* The startup gates: a missing URL stops a production process at import,   *)
(* the catalogue check before it serves. Every process resolves both URLs,  *)
(* and none of this holds anything up outside production.                   *)
UrlsResolve(d) == RuntimeUrl(d) # NoUrl /\ CoordinatorUrl(d) # NoUrl

MayServe(d, process) ==
  /\ UrlsResolve(d)
  /\ Production(d) =>
       CASE process = "api" -> RuntimeIsSafe(d) /\ CoordinatorIsSafe(d)
         [] process = "worker" -> RuntimeIsSafe(d)
         [] process = "coordinator" -> CoordinatorIsSafe(d)

LoginRole(d, process) ==
  IF process = "coordinator" THEN CoordinatorUrl(d) ELSE RuntimeUrl(d)
=============================================================================
