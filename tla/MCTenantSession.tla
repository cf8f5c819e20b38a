-------------------------- MODULE MCTenantSession --------------------------
(* An API with two pooled connections, a worker and a coordinator, over two *)
(* organisations; the deployments they may be started in.                   *)
EXTENDS TenantSession, TLC

CONSTANTS u1, u2, o1, o2, j1, i1, i2, a1, a2, w1, k1, oldMail, newMail, otherMail

MCUsers == {u1, u2}
MCOrgs == {o1, o2}
MCJobs == {j1}
MCInvitations == {i1, i2}
MCConnections == {a1, a2, w1, k1}
MCProcessOf == [c \in MCConnections |->
  IF c = w1 THEN "worker" ELSE IF c = k1 THEN "coordinator" ELSE "api"]

Pool == Permutations({a1, a2})

MCOrgOf == [j \in MCJobs |-> o1]
MCRecipientOf == [j \in MCJobs |-> u2]
MCInvitedTo == [i \in MCInvitations |-> o2]
MCInvitedAs == [i \in MCInvitations |-> IF i = i1 THEN oldMail ELSE newMail]
MCMailbox == [u \in MCUsers |-> IF u = u1 THEN <<oldMail, newMail>> ELSE <<otherMail>>]
MCFounders == {<<u1, o1>>, <<u2, o1>>, <<u2, o2>>}

MCRoles == ApplicationRoles \cup {"app_owner", "reporting"}

(* The documented production set-up, a harmless grant in it.                *)
Documented ==
  [env |-> "production", owner |-> "app_owner", runtime |-> "app_runtime",
   coordinator |-> "app_coordinator",
   facts |-> [r \in MCRoles |-> IF r = "app_owner" THEN {"owner", "createdb"}
                                ELSE IF r = "app_operator" THEN {"bypass"} ELSE {}],
   grants |-> {<<"app_runtime", "reporting">>}, bootstrapOrg |-> NONE]

(* Its mistakes: a URL forgotten, the owner's URL used, a privilege left on *)
(* the role, and a chain of grants that ends in the owner or the operator.  *)
Mistaken ==
  {[Documented EXCEPT !.runtime = NoUrl],
   [Documented EXCEPT !.coordinator = NoUrl],
   [Documented EXCEPT !.runtime = "app_owner"],
   [Documented EXCEPT !.facts["app_runtime"] = {"bypass"}],
   [Documented EXCEPT !.grants = @ \cup {<<"reporting", "app_owner">>}],
   [Documented EXCEPT !.grants = @ \cup {<<"app_coordinator", "app_operator">>}]}

MCDeployments ==
  {Documented, [Documented EXCEPT !.bootstrapOrg = o2]} \cup Mistaken
  \cup {[Documented EXCEPT !.env = "development", !.runtime = NoUrl]}
=============================================================================
