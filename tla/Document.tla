------------------------------ MODULE Document ------------------------------
(***************************************************************************)
(* What the upload pipeline promises about one document, with no requests, *)
(* workers or locks: verified bytes are pinned once; a reader gets those   *)
(* bytes or nothing, and nothing once they were lost; what a reader may    *)
(* get is never rejected, and what was rejected is never read; the check   *)
(* that is due has one outcome, which agrees with the document and with    *)
(* what its uploader was told.                                             *)
(***************************************************************************)
CONSTANTS
    Bytes, Harmful,
    NoBytes

VARIABLES
    status,      \* "absent", "pending", "accepted", "ready", "rejected" or "deleted"
    pinned,      \* the verified bytes, NoBytes before they are accepted
    readable,    \* what a reader gets
    told,        \* what the uploader was notified of: "ready", "failed"
    outcome      \* of the check: "none", "due", "succeeded", "rejected", "gone" or "failed"

documentVars == <<status, pinned, readable, told, outcome>>

Init ==
    /\ status = "absent" /\ outcome = "none"
    /\ pinned = NoBytes /\ readable = NoBytes
    /\ told = {}

Offer ==
    /\ status = "absent"
    /\ status' = "pending"
    /\ UNCHANGED <<pinned, readable, told, outcome>>

\* The check becomes due in the same step.
Accept ==
    /\ status = "pending" /\ outcome = "none"
    /\ status' = "accepted"
    /\ pinned' \in Bytes
    /\ outcome' = "due"
    /\ UNCHANGED <<readable, told>>

\* Also of a document that was ready, but only if its bytes were lost, and never
\* after its check has ended.
Reject ==
    /\ status \in {"pending", "accepted", "ready"}
    /\ outcome \in {"none", "due"}
    /\ readable = NoBytes
    /\ status' = "rejected"
    /\ UNCHANGED <<pinned, readable, told, outcome>>

Trust ==
    /\ status = "accepted" /\ outcome = "due"
    /\ status' = "ready"
    /\ readable' \in {NoBytes} \union ({pinned} \ Harmful)
    /\ UNCHANGED <<pinned, told, outcome>>

\* The bytes are overwritten or removed.
Lose ==
    /\ readable' = NoBytes
    /\ UNCHANGED <<status, pinned, told, outcome>>

Delete ==
    /\ status \notin {"absent", "deleted"}
    /\ status' = "deleted"
    /\ readable' = NoBytes
    /\ UNCHANGED <<pinned, told, outcome>>

Tell ==
    /\ outcome = "due"
    /\ \/ status \in {"ready", "deleted"} /\ told' = told \union {"ready"}
       \/ status \in {"rejected", "deleted"} /\ told' = told \union {"failed"}
    /\ UNCHANGED <<status, pinned, readable, outcome>>

\* "failed": without a verdict, for want of attempts or of a valid dispatch.
Conclude ==
    /\ outcome = "due"
    /\ \/ outcome' = "succeeded" /\ status \in {"ready", "deleted"} /\ "ready" \in told
       \/ outcome' = "rejected" /\ status \in {"rejected", "deleted"} /\ "failed" \in told
       \/ outcome' = "gone" /\ status = "deleted"
       \/ outcome' = "failed"
    /\ UNCHANGED <<status, pinned, readable, told>>

Next ==
    \/ Offer \/ Accept \/ Reject \/ Trust \/ Lose \/ Delete \/ Tell \/ Conclude

Spec == Init /\ [][Next]_documentVars
=============================================================================
