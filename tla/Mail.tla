-------------------------------- MODULE Mail --------------------------------
(***************************************************************************)
(* What the delivery of one e-mail promises to whoever asked for it, with  *)
(* no attempts, leases or recovery: there is at most one mail, there is    *)
(* one report of it together with the verdict on the job, and the report   *)
(* is true.  A report that the retries are exhausted says that the mail is *)
(* definitely unsent; only "unknown" leaves it open whether it was or will *)
(* be accepted.                                                            *)
(***************************************************************************)
EXTENDS Naturals

VARIABLES
    report,      \* "none", "open", or one of Reports
    mails,       \* how many the provider accepted
    verdict      \* on the job: "none", "open", "succeeded" or "failed"

mailVars == <<report, mails, verdict>>

\* What a report says of the number of mails.
Says == [sent |-> {1}, rejected |-> {0}, undispatched |-> {0},
         exhausted |-> {0}, unknown |-> {0, 1}]
Reports == DOMAIN Says

Init == report = "none" /\ mails = 0 /\ verdict = "none"

Request ==
    /\ report = "none"
    /\ report' = "open" /\ verdict' = "open"
    /\ mails' = mails

\* The provider accepts it.
Accept ==
    /\ mails = 0
    /\ report \in {"open", "unknown"}
    /\ mails' = 1
    /\ UNCHANGED <<report, verdict>>

Conclude ==
    /\ report = "open"
    /\ report' \in {r \in Reports : mails \in Says[r]}
    /\ verdict' = IF report' = "sent" THEN "succeeded" ELSE "failed"
    /\ mails' = mails

Next == Request \/ Accept \/ Conclude

Spec == Init /\ [][Next]_mailVars
=============================================================================
