---------------------------- MODULE JobLifecycle ----------------------------
(***************************************************************************)
(* What the delivery machinery promises about one job, with no broker, no  *)
(* outbox and no clock: it is accepted, it is started a bounded number of  *)
(* times, each start under a credential never used before, it returns to   *)
(* the queue only between starts, and it gets exactly one outcome.         *)
(***************************************************************************)
EXTENDS Naturals

CONSTANT MaxStarts

VARIABLES
    state,       \* "absent", "queued", "running", "succeeded" or "failed"
    starts,      \* how often it was started
    owner,       \* the credential in force; larger is newer
    outcomes     \* outcomes recorded

jobVars == <<state, starts, owner, outcomes>>

Open == state \in {"queued", "running"}

Init == state = "absent" /\ starts = 0 /\ owner = 0 /\ outcomes = 0

Accept ==
    /\ state = "absent"
    /\ state' = "queued"
    /\ UNCHANGED <<starts, owner, outcomes>>

\* From the queue, or in place of an attempt that is taken over.
Start ==
    /\ Open
    /\ starts < MaxStarts
    /\ state' = "running"
    /\ starts' = starts + 1
    /\ owner' = owner + 1
    /\ outcomes' = outcomes

\* For a retry under the same credential, or recovered under a new one.
Requeue ==
    /\ state = "running"
    /\ starts < MaxStarts
    /\ state' = "queued"
    /\ owner' \in {owner, owner + 1}
    /\ UNCHANGED <<starts, outcomes>>

Settle ==
    /\ Open
    /\ state' \in {"succeeded", "failed"}
    /\ state' = "succeeded" => state = "running"
    /\ outcomes' = outcomes + 1
    /\ UNCHANGED <<starts, owner>>

Next == Accept \/ Start \/ Requeue \/ Settle

Spec == Init /\ [][Next]_jobVars
=============================================================================
