------------------------- MODULE ControlledDocument -------------------------
(***************************************************************************)
(* What the ERP promises of a document that must be approved before it is  *)
(* booked to the general ledger: a payment voucher, or a manual journal.   *)
(*                                                                         *)
(* The document is edited only while it is editable, a review either       *)
(* releases it or hands it back, only a released document is booked, it is *)
(* booked once, and what is booked is the content that was released.  A    *)
(* document that is not booked can be dropped, for good.                   *)
(*                                                                         *)
(* PaymentVoucher and JournalLifecycle implement it when their handlers do *)
(* not overlap.                                                            *)
(***************************************************************************)

CONSTANTS
    Contents,   \* what a document can say: its lines, amounts, accounts
    NoContent   \* "nothing booked yet"

VARIABLES
    stage,      \* where the document stands
    content,    \* what it says now
    booked      \* what the general ledger says it says

docVars == <<stage, content, booked>>

Stages == {"editable", "review", "released", "booked", "dropped"}

Init ==
    /\ stage = "editable"
    /\ content \in Contents
    /\ booked = NoContent

(* The maker rewrites the document. *)
Edit ==
    /\ stage = "editable"
    /\ content' \in Contents
    /\ UNCHANGED <<stage, booked>>

(* The maker hands the document to its approvers. *)
Submit ==
    /\ stage = "editable"
    /\ stage' = "review"
    /\ UNCHANGED <<content, booked>>

(* The maker takes it back, or an approver rejects or returns it. *)
HandBack ==
    /\ stage = "review"
    /\ stage' = "editable"
    /\ UNCHANGED <<content, booked>>

(* The last approver agrees. *)
Release ==
    /\ stage = "review"
    /\ stage' = "released"
    /\ UNCHANGED <<content, booked>>

(* The released content enters the general ledger. *)
Book ==
    /\ stage = "released"
    /\ stage' = "booked"
    /\ booked' = content
    /\ UNCHANGED content

Drop ==
    /\ stage \in {"editable", "review", "released"}
    /\ stage' = "dropped"
    /\ UNCHANGED <<content, booked>>

Next == Edit \/ Submit \/ HandBack \/ Release \/ Book \/ Drop

Spec == Init /\ [][Next]_docVars
=============================================================================
