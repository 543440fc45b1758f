--------------------------- MODULE AccountingPeriod ---------------------------
(***************************************************************************)
(* What the ERP promises of one accounting period, whatever requests       *)
(* overlap: apps/api/src/modules/admin/admin.service.ts.                   *)
(*                                                                         *)
(* A request decides on a status for the period while it looks at it, and  *)
(* writes that status later, or never.  Of a period it sees locked it only *)
(* asks that it be locked.  So a locked period is reopened by nobody but a *)
(* request that looked before it was locked.                               *)
(*                                                                         *)
(* FiscalYears implements this for every period of every year, and the     *)
(* period PaymentVoucher and JournalLifecycle post into is one of these.   *)
(***************************************************************************)
CONSTANTS
    Requests    \* the requests that may be in flight together

VARIABLES
    status,     \* of the period
    asked       \* the status each request is going to write, if any

periodVars == <<status, asked>>

Statuses == {"OPEN", "CLOSED", "LOCKED"}

Nothing == "nothing"

Init ==
    /\ status \in Statuses
    /\ asked = [r \in Requests |-> Nothing]

Ask(r) ==
    /\ asked[r] = Nothing
    /\ \E wanted \in Statuses :
          /\ status = "LOCKED" => wanted = "LOCKED"
          /\ asked' = [asked EXCEPT ![r] = wanted]
    /\ UNCHANGED status

Write(r) ==
    /\ asked[r] # Nothing
    /\ status' = asked[r]
    /\ asked' = [asked EXCEPT ![r] = Nothing]

GiveUp(r) ==
    /\ asked[r] # Nothing
    /\ asked' = [asked EXCEPT ![r] = Nothing]
    /\ UNCHANGED status

Next == \E r \in Requests : Ask(r) \/ Write(r) \/ GiveUp(r)

Spec == Init /\ [][Next]_periodVars
=============================================================================
