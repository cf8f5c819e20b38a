----------------------------- MODULE Admission -----------------------------
(***************************************************************************)
(* What the membership of an organisation promises, with no requests, row  *)
(* locks, webhooks or copies of addresses: one is admitted by spending an  *)
(* open ticket, a ticket is spent or withdrawn once, one per address is    *)
(* open at a time, and none is withdrawn whose letter may still be         *)
(* accepted.                                                               *)
(***************************************************************************)
CONSTANTS Users, Addresses, Invitations, None

VARIABLES
    letters,     \* the invitations as the provider has them: state and address
    tickets,     \* [Invitations -> {"absent", "sent", "accepted", "revoked"}]
    members      \* [Users -> {"none", "active", "suspended"}]

admissionVars == <<letters, tickets, members>>

Init ==
    /\ letters = [i \in Invitations |-> [state |-> "none", address |-> None]]
    /\ tickets = [i \in Invitations |-> "absent"]
    /\ members = [u \in Users |-> "none"]

Send(i, a) ==
    /\ letters[i].state = "none"
    /\ letters' = [letters EXCEPT ![i] = [state |-> "pending", address |-> a]]
    /\ UNCHANGED <<tickets, members>>

Lapse(i) ==
    /\ letters[i].state = "pending"
    /\ \E over \in {"accepted", "revoked", "expired"} :
         letters' = [letters EXCEPT ![i].state = over]
    /\ UNCHANGED <<tickets, members>>

\* The letter may be over already.
Register(i) ==
    /\ tickets[i] = "absent" /\ letters[i].state # "none"
    /\ \A j \in Invitations : tickets[j] = "sent" => letters[j].address # letters[i].address
    /\ tickets' = [tickets EXCEPT ![i] = "sent"]
    /\ UNCHANGED <<letters, members>>

\* Who is a member already, or was when asked, spends the ticket for nothing.
Admit(i, u) ==
    /\ tickets[i] = "sent"
    /\ tickets' = [tickets EXCEPT ![i] = "accepted"]
    /\ \/ members[u] = "none" /\ members' = [members EXCEPT ![u] = "active"]
       \/ members' = members
    /\ letters' = letters

Withdraws(i) ==
    /\ tickets[i] = "sent" /\ letters[i].state = "revoked"
    /\ tickets' = [tickets EXCEPT ![i] = "revoked"]

\* Of one ticket at most.
MayWithdraw == tickets' = tickets \/ \E i \in Invitations : Withdraws(i)

Withdraw ==
    /\ \E i \in Invitations : Withdraws(i)
    /\ UNCHANGED <<letters, members>>

Leave(u) ==
    /\ members' = [members EXCEPT ![u] = "none"]
    /\ MayWithdraw
    /\ letters' = letters

Suspend(u) ==
    /\ members[u] = "active"
    /\ members' = [members EXCEPT ![u] = "suspended"]
    /\ MayWithdraw
    /\ letters' = letters

Reactivate(u) ==
    /\ members[u] = "suspended"
    /\ members' = [members EXCEPT ![u] = "active"]
    /\ UNCHANGED <<letters, tickets>>

Next ==
    \/ \E i \in Invitations, a \in Addresses : Send(i, a)
    \/ \E i \in Invitations : Lapse(i) \/ Register(i)
    \/ \E i \in Invitations, u \in Users : Admit(i, u)
    \/ Withdraw
    \/ \E u \in Users : Leave(u) \/ Suspend(u) \/ Reactivate(u)

Spec == Init /\ [][Next]_admissionVars
=============================================================================
