--------------------------- MODULE PaymentVoucher ---------------------------
(***************************************************************************)
(* The life of one AP payment voucher, from its draft to its general       *)
(* ledger entry and its payment:                                           *)
(* apps/api/src/modules/payment-vouchers/payment-vouchers.service.ts.      *)
(*                                                                         *)
(* Every handler reads the voucher (getById), checks its guards on that    *)
(* copy, works out the new values from it, awaits, and then writes the     *)
(* header "where: { id }", with no condition on what it had read and no    *)
(* lock.  A handler is therefore two or more actions here: XRead checks    *)
(* the guards and keeps the values to write, XWrite writes them over       *)
(* whatever the row says by then.  A guard that fails answers the client   *)
(* with an error and changes nothing, so it is a disabled XRead.           *)
(* Requests are the HTTP requests in flight on this voucher.  Two vouchers *)
(* share nothing but their numbering, so one stands for all.               *)
(***************************************************************************)
EXTENDS Naturals, Sequences

CONSTANTS
    Users,            \* the people holding the permission accounting:voucher
    RoleOf,           \* the role in each one's access token
    Requests,         \* the requests that may be in flight together
    Contents,         \* what the maker can enter
    Nobody, NoContent,
    MaxFiles,         \* bound: attachments counted on the voucher
    MaxInstructions   \* bound: payment instructions sent to the gateway

Roles == {"ADMIN", "FINANCE", "HR", "WAREHOUSE", "VIEWER"}

(* One row of a template's approval matrix, and what a maker enters.       *)
(* "lines" stands for the voucher's lines, "bankAccount" says whether it   *)
(* is settled from a bank account (else from a cash account).              *)
MatrixRow == [level : Nat, role : Roles]

VoucherContent(lines) ==
    [ lines : lines,
      totalAmount : Nat,
      voucherType : {"SUPPLIER_PAYMENT", "TAX_REMITTANCE"},
      paymentMethod : {"BANK_TRANSFER", "CASH", "GATEWAY"},
      bankAccount : BOOLEAN,
      requiresAttachment : BOOLEAN,
      allowRecall : BOOLEAN,
      approvalMatrix : Seq(MatrixRow) ]

ASSUME RolesAssumption == RoleOf \in [Users -> Roles]

ASSUME ContentsAssumption ==
    \A c \in Contents : c \in VoucherContent({c.lines})

ASSUME MarkersAssumption == Nobody \notin Users /\ NoContent \notin Contents

ASSUME BoundsAssumption == MaxFiles \in Nat /\ MaxInstructions \in Nat

VARIABLES
    voucher,       \* the APPaymentVoucherHeader row, its lines and attachments
    period,        \* status of the accounting period the voucher names
    ledger,        \* journal entries whose reference is PV-<voucherNumber>
    finalApprovers, \* who the approval history says gave a final approval
    instructions,  \* payment instructions the gateway was given
    req            \* what each request in flight is about to do

vars == <<voucher, period, ledger, finalApprovers, instructions, req>>

-----------------------------------------------------------------------------
(* The approval chain.                                                     *)

StepStatuses == {"PENDING", "APPROVED", "REJECTED"}

(* A step of the chain.  "seen" is auxiliary: what the voucher said when   *)
(* its actor decided.                                                      *)
Step ==
    [ level : Nat, role : Roles, status : StepStatuses,
      actor : Users \union {Nobody}, seen : Contents \union {NoContent} ]

NewStep(level, role) ==
    [ level |-> level, role |-> role, status |-> "PENDING",
      actor |-> Nobody, seen |-> NoContent ]

(* The template's matrix decides when there is one; otherwise the amount,  *)
(* the voucher type and the payment method do.                             *)
ResolveApprovalChain(c) ==
    IF c.approvalMatrix # <<>>
    THEN [i \in DOMAIN c.approvalMatrix |->
             NewStep(c.approvalMatrix[i].level, c.approvalMatrix[i].role)]
    ELSE LET controller == \/ c.totalAmount >= 250000
                           \/ c.voucherType = "TAX_REMITTANCE"
             treasury   == \/ c.totalAmount >= 1000000
                           \/ c.paymentMethod = "GATEWAY"
         IN  <<NewStep(1, "FINANCE")>>
             \o (IF controller THEN <<NewStep(2, "ADMIN")>> ELSE <<>>)
             \o (IF treasury THEN <<NewStep(3, "FINANCE")>> ELSE <<>>)

PendingSteps(chain) == {i \in DOMAIN chain : chain[i].status = "PENDING"}

(* nextPendingStep: the first step still pending. *)
NextPending(chain) ==
    CHOOSE i \in PendingSteps(chain) : \A j \in PendingSteps(chain) : i <= j

NextLevel(chain) == chain[NextPending(chain)].level

(* The next pending step and every other step of its level take the        *)
(* decision of user u, who saw content c.                                  *)
Decide(chain, decision, u, c) ==
    [i \in DOMAIN chain |->
        IF chain[i].level = NextLevel(chain)
        THEN [chain[i] EXCEPT !.status = decision, !.actor = u, !.seen = c]
        ELSE chain[i]]

ResetChain(chain) ==
    [i \in DOMAIN chain |-> NewStep(chain[i].level, chain[i].role)]

WorkflowStatusForLevel(level) ==
    CASE level = 1 -> "AWAITING_LEVEL_1_APPROVAL"
      [] level = 2 -> "AWAITING_LEVEL_2_APPROVAL"
      [] OTHER     -> "AWAITING_FINAL_APPROVAL"

-----------------------------------------------------------------------------
(* The voucher row and the requests.                                       *)

Editable == {"DRAFT", "REJECTED"}
Awaiting == {"PENDING_APPROVAL", "PARTIALLY_APPROVED"}

Statuses ==
    Editable \union Awaiting \union
    {"APPROVED", "POSTED", "PAID", "FAILED_PAYMENT", "CANCELLED"}

WorkflowStatuses ==
    { "AWAITING_SUBMISSION", "AWAITING_LEVEL_1_APPROVAL",
      "AWAITING_LEVEL_2_APPROVAL", "AWAITING_FINAL_APPROVAL", "APPROVED",
      "REJECTED", "RETURNED_FOR_CORRECTION" }

PaymentStatuses == {"NOT_PAID", "PAYMENT_PROCESSING", "PAID", "FAILED"}

Voucher ==
    [ status : Statuses,
      workflowStatus : WorkflowStatuses,
      paymentStatus : PaymentStatuses,
      content : Contents,
      chain : Seq(Step),
      createdBy : Users,
      approvedBy : Users \union {Nobody},
      isPostedToGL : BOOLEAN,
      files : Nat,             \* rows of APPaymentVoucherAttachment
      attachmentCount : Nat ]  \* the header's own count of them

NewDraft(u, c, n) ==
    [ status |-> "DRAFT",
      workflowStatus |-> "AWAITING_SUBMISSION",
      paymentStatus |-> "NOT_PAID",
      content |-> c,
      chain |-> ResolveApprovalChain(c),
      createdBy |-> u,
      approvedBy |-> Nobody,
      isPostedToGL |-> FALSE,
      files |-> n,
      attachmentCount |-> n ]

PeriodStatuses == {"OPEN", "CLOSED", "LOCKED"}

Idle == [pc |-> "idle"]

NoData == "none"

Entry == [content : Contents, period : PeriodStatuses]

-----------------------------------------------------------------------------
(* A request begins by reading the voucher and working out, from that      *)
(* copy, the values it is going to write ("data").  It ends with its last  *)
(* write.                                                                  *)

Begin(r, operation, data) ==
    /\ req[r] = Idle
    /\ req' = [req EXCEPT ![r] = [pc |-> operation, data |-> data]]
    /\ UNCHANGED <<voucher, period, ledger, finalApprovers, instructions>>

End(r, operation) ==
    /\ req[r].pc = operation
    /\ req' = [req EXCEPT ![r] = Idle]

headerOnly == UNCHANGED <<period, ledger, finalApprovers, instructions>>

(* Slip: an edit is let through while the voucher is in review. *)
UpdateDraftReadInReview(r, u) ==
    /\ voucher.status \in Editable \union Awaiting
    /\ u = voucher.createdBy
    /\ \E c \in Contents, n \in 0..MaxFiles :
          Begin(r, "update", [content |-> c, files |-> n])

(* PATCH :id.  The maker's new content replaces lines and attachments, the *)
(* chain is resolved afresh, and the status stays what it is.              *)
UpdateDraftRead(r, u) ==
    /\ voucher.status \in Editable
    /\ u = voucher.createdBy
    /\ \E c \in Contents, n \in 0..MaxFiles :
          Begin(r, "update", [content |-> c, files |-> n])

(* Slip: an edit leaves the decisions taken on the old content standing. *)
UpdateDraftWriteKeepsChain(r) ==
    /\ End(r, "update")
    /\ voucher' = [voucher EXCEPT !.content = req[r].data.content,
                                  !.files = req[r].data.files,
                                  !.attachmentCount = req[r].data.files]
    /\ headerOnly

UpdateDraftWrite(r) ==
    LET new == req[r].data
    IN  /\ End(r, "update")
        /\ voucher' = [voucher EXCEPT
              !.content = new.content,
              !.chain = ResolveApprovalChain(new.content),
              !.files = new.files,
              !.attachmentCount = new.files]
        /\ headerOnly

(* Slip: a resubmission is shown to the first level again. *)
SubmitReadFromLevelOne(r, u) ==
    /\ voucher.status \in Editable
    /\ u = voucher.createdBy
    /\ period = "OPEN"
    /\ voucher.content.requiresAttachment => voucher.attachmentCount >= 1
    /\ PendingSteps(voucher.chain) # {}
    /\ Begin(r, "submit", WorkflowStatusForLevel(1))

(* POST :id/submit.  The chain keeps the decisions already taken on it.    *)
SubmitRead(r, u) ==
    /\ voucher.status \in Editable
    /\ u = voucher.createdBy
    /\ period = "OPEN"
    /\ voucher.content.requiresAttachment => voucher.attachmentCount >= 1
    /\ PendingSteps(voucher.chain) # {}
    /\ Begin(r, "submit", WorkflowStatusForLevel(NextLevel(voucher.chain)))

SubmitWrite(r) ==
    /\ End(r, "submit")
    /\ voucher' = [voucher EXCEPT !.status = "PENDING_APPROVAL",
                                  !.workflowStatus = req[r].data]
    /\ headerOnly

(* POST :id/recall. *)
RecallRead(r, u) ==
    /\ voucher.status \in Awaiting
    /\ u = voucher.createdBy
    /\ voucher.content.allowRecall
    /\ Begin(r, "recall", ResetChain(voucher.chain))

RecallWrite(r) ==
    /\ End(r, "recall")
    /\ voucher' = [voucher EXCEPT !.status = "DRAFT",
                                  !.workflowStatus = "AWAITING_SUBMISSION",
                                  !.chain = req[r].data]
    /\ headerOnly

(* The next step of the chain is waiting for the role of user u.  No       *)
(* handler ever names a currentApproverId, so the role alone decides.      *)
IsCurrentApprover(u) ==
    /\ voucher.status \in Awaiting
    /\ PendingSteps(voucher.chain) # {}
    /\ voucher.chain[NextPending(voucher.chain)].role = RoleOf[u]

(* Slip: the maker may approve. *)
ApproveReadByMaker(r, u) ==
    LET chain == Decide(voucher.chain, "APPROVED", u, voucher.content)
        final == PendingSteps(chain) = {}
    IN  /\ IsCurrentApprover(u)
        /\ Begin(r, "approve",
              [ status |-> IF final THEN "APPROVED" ELSE "PARTIALLY_APPROVED",
                workflowStatus |-> IF final THEN "APPROVED"
                                   ELSE WorkflowStatusForLevel(NextLevel(chain)),
                chain |-> chain,
                actor |-> u,
                approvedBy |-> IF final THEN u ELSE voucher.approvedBy ])

(* POST :id/approve. *)
ApproveRead(r, u) ==
    LET chain == Decide(voucher.chain, "APPROVED", u, voucher.content)
        final == PendingSteps(chain) = {}
    IN  /\ IsCurrentApprover(u)
        /\ u # voucher.createdBy
        /\ Begin(r, "approve",
              [ status |-> IF final THEN "APPROVED" ELSE "PARTIALLY_APPROVED",
                workflowStatus |-> IF final THEN "APPROVED"
                                   ELSE WorkflowStatusForLevel(NextLevel(chain)),
                chain |-> chain,
                actor |-> u,
                approvedBy |-> IF final THEN u ELSE voucher.approvedBy ])

ApproveWrite(r) ==
    LET new == req[r].data
    IN  /\ End(r, "approve")
        /\ voucher' = [voucher EXCEPT !.status = new.status,
                                      !.workflowStatus = new.workflowStatus,
                                      !.chain = new.chain,
                                      !.approvedBy = new.approvedBy]
        /\ finalApprovers' = IF new.status = "APPROVED"
                             THEN finalApprovers \union {new.actor}
                             ELSE finalApprovers
        /\ UNCHANGED <<period, ledger, instructions>>

(* POST :id/reject: unlike approve, the maker is not excluded. *)
RejectRead(r, u) ==
    /\ IsCurrentApprover(u)
    /\ Begin(r, "reject",
             Decide(voucher.chain, "REJECTED", u, voucher.content))

RejectWrite(r) ==
    /\ End(r, "reject")
    /\ voucher' = [voucher EXCEPT !.status = "REJECTED",
                                  !.workflowStatus = "REJECTED",
                                  !.chain = req[r].data]
    /\ headerOnly

(* POST :id/return: anyone may, and the chain keeps its approvals. *)
ReturnRead(r) ==
    /\ voucher.status \in Awaiting
    /\ Begin(r, "return", NoData)

ReturnWrite(r) ==
    /\ End(r, "return")
    /\ voucher' = [voucher EXCEPT !.status = "DRAFT",
                                  !.workflowStatus = "RETURNED_FOR_CORRECTION"]
    /\ headerOnly

(* POST :id/cancel: anyone may, in every status but POSTED and PAID. *)
CancelRead(r) ==
    /\ voucher.status \notin {"POSTED", "PAID"}
    /\ Begin(r, "cancel", NoData)

CancelWrite(r) ==
    /\ End(r, "cancel")
    /\ voucher' = [voucher EXCEPT !.status = "CANCELLED"]
    /\ headerOnly

(* POST :id/attachments/upload: the attachment row first, then the count.  *)
AttachRead(r) ==
    /\ voucher.files < MaxFiles
    /\ voucher.attachmentCount < MaxFiles
    /\ Begin(r, "attachRow", voucher.attachmentCount + 1)

AttachRow(r) ==
    /\ req[r].pc = "attachRow"
    /\ req' = [req EXCEPT ![r] = [pc |-> "attachCount", data |-> @.data]]
    /\ voucher' = [voucher EXCEPT !.files = @ + 1]
    /\ headerOnly

AttachCount(r) ==
    /\ End(r, "attachCount")
    /\ voucher' = [voucher EXCEPT !.attachmentCount = req[r].data]
    /\ headerOnly

(* Slip: the period is not looked at. *)
PostReadAnyPeriod(r) ==
    /\ ~ voucher.isPostedToGL
    /\ voucher.status = "APPROVED"
    /\ Begin(r, "post",
             [ content |-> voucher.content,
               status |-> IF voucher.paymentStatus = "PAID" THEN "PAID"
                          ELSE "POSTED" ])

(* POST :id/post.  One transaction creates the journal entry, with the     *)
(* lines of the copy, and updates the header.  JournalEntry.reference is   *)
(* unique: the transaction fails when an entry PV-<voucherNumber> exists.  *)
PostRead(r) ==
    /\ ~ voucher.isPostedToGL
    /\ voucher.status = "APPROVED"
    /\ period = "OPEN"
    /\ Begin(r, "post",
             [ content |-> voucher.content,
               status |-> IF voucher.paymentStatus = "PAID" THEN "PAID"
                          ELSE "POSTED" ])

(* Slip: the journal reference is not unique. *)
ReferenceNotUnique == TRUE

ReferenceIsFree == ledger = <<>>

PostWrite(r) ==
    LET new == req[r].data
    IN  /\ End(r, "post")
        /\ ReferenceIsFree
        /\ ledger' = Append(ledger, [content |-> new.content,
                                     period |-> period])
        /\ voucher' = [voucher EXCEPT !.status = new.status,
                                      !.isPostedToGL = TRUE]
        /\ UNCHANGED <<period, finalApprovers, instructions>>

(* Slip: a paid voucher can be paid again. *)
InitiateReadPaid(r) ==
    /\ voucher.status \in {"APPROVED", "POSTED"}
    /\ voucher.content.bankAccount
    /\ Begin(r, "instruct", voucher.status)

(* POST :id/initiate-payment.  The gateway is called between the read and  *)
(* the write; a payment already processing does not stop another.          *)
InitiateRead(r) ==
    /\ voucher.status \in {"APPROVED", "POSTED"}
    /\ voucher.paymentStatus # "PAID"
    /\ voucher.content.bankAccount
    /\ Begin(r, "instruct", voucher.status)

InitiateGateway(r) ==
    /\ req[r].pc = "instruct"
    /\ \E accepted \in BOOLEAN :
          /\ accepted => instructions < MaxInstructions
          /\ instructions' = IF accepted THEN instructions + 1 ELSE instructions
          /\ req' = [req EXCEPT ![r] =
                [ pc |-> "instructed",
                  data |-> IF accepted
                    THEN [paymentStatus |-> "PAYMENT_PROCESSING",
                          status |-> req[r].data]
                    ELSE [paymentStatus |-> "FAILED",
                          status |-> "FAILED_PAYMENT"] ]]
    /\ UNCHANGED <<voucher, period, ledger, finalApprovers>>

InitiateWrite(r) ==
    /\ End(r, "instructed")
    /\ voucher' = [voucher EXCEPT !.paymentStatus = req[r].data.paymentStatus,
                                  !.status = req[r].data.status]
    /\ headerOnly

(* Slip: a posted voucher keeps its status when it is paid. *)
MarkPaidReadKeepsStatus(r) ==
    /\ voucher.paymentStatus # "PAID"
    /\ Begin(r, "markPaid", voucher.status)

(* POST :id/mark-paid: anyone may, in every status. *)
MarkPaidRead(r) ==
    /\ voucher.paymentStatus # "PAID"
    /\ Begin(r, "markPaid",
             IF voucher.isPostedToGL THEN "PAID" ELSE voucher.status)

MarkPaidWrite(r) ==
    /\ End(r, "markPaid")
    /\ voucher' = [voucher EXCEPT !.paymentStatus = "PAID",
                                  !.status = req[r].data]
    /\ headerOnly

(* PATCH periods/:id/status: closes, locks or reopens the period.  A locked *)
(* period is not reopened, unless it was locked since the read.  (Locking  *)
(* its fiscal year writes LOCKED too.)                                     *)
UpdatePeriodRead(r) ==
    \E status \in PeriodStatuses :
       /\ period = "LOCKED" => status = "LOCKED"
       /\ Begin(r, "period", status)

UpdatePeriodWrite(r) ==
    /\ End(r, "period")
    /\ period' = req[r].data
    /\ UNCHANGED <<voucher, ledger, finalApprovers, instructions>>

(* A request ends without its remaining writes: the API process stops, the *)
(* database refuses the statement, or rolls the transaction back.          *)
Abort(r) ==
    /\ req[r] # Idle
    /\ req' = [req EXCEPT ![r] = Idle]
    /\ UNCHANGED <<voucher, period, ledger, finalApprovers, instructions>>

-----------------------------------------------------------------------------
Init ==
    /\ \E u \in Users, c \in Contents, n \in 0..MaxFiles :
          voucher = NewDraft(u, c, n)
    /\ period \in PeriodStatuses
    /\ ledger = <<>>
    /\ finalApprovers = {}
    /\ instructions = 0
    /\ req = [r \in Requests |-> Idle]

Call(r) ==
    \/ \E u \in Users : \/ UpdateDraftRead(r, u)
                       \/ SubmitRead(r, u)
                       \/ RecallRead(r, u)
                       \/ ApproveRead(r, u)
                       \/ RejectRead(r, u)
    \/ ReturnRead(r)
    \/ CancelRead(r)
    \/ AttachRead(r)
    \/ PostRead(r)
    \/ InitiateRead(r)
    \/ MarkPaidRead(r)
    \/ UpdatePeriodRead(r)

Proceed(r) ==
    \/ UpdateDraftWrite(r)
    \/ SubmitWrite(r)
    \/ RecallWrite(r)
    \/ ApproveWrite(r)
    \/ RejectWrite(r)
    \/ ReturnWrite(r)
    \/ CancelWrite(r)
    \/ AttachRow(r)
    \/ AttachCount(r)
    \/ PostWrite(r)
    \/ InitiateGateway(r)
    \/ InitiateWrite(r)
    \/ MarkPaidWrite(r)
    \/ UpdatePeriodWrite(r)
    \/ Abort(r)

Next == \E r \in Requests : Call(r) \/ Proceed(r)

Spec == Init /\ [][Next]_vars

(* With one element in Requests no two handlers overlap, which is how each *)
(* of them was written to be read: some properties below are of that case. *)
-----------------------------------------------------------------------------
(* Properties.                                                             *)

(* What a request in flight has worked out, for each operation.            *)
RequestOK(q) ==
    \/ q = Idle
    \/ /\ q.pc = "update"
       /\ q.data \in [content : Contents, files : 0..MaxFiles]
    \/ /\ q.pc = "submit"
       /\ q.data \in WorkflowStatuses
    \/ /\ q.pc \in {"recall", "reject"}
       /\ q.data \in Seq(Step)
    \/ /\ q.pc = "approve"
       /\ q.data \in [ status : {"APPROVED", "PARTIALLY_APPROVED"},
                       workflowStatus : WorkflowStatuses,
                       chain : Seq(Step),
                       actor : Users,
                       approvedBy : Users \union {Nobody} ]
    \/ q.pc \in {"return", "cancel"}
    \/ /\ q.pc \in {"attachRow", "attachCount"}
       /\ q.data \in Nat
    \/ /\ q.pc = "post"
       /\ q.data \in [content : Contents, status : {"POSTED", "PAID"}]
    \/ /\ q.pc = "instruct"
       /\ q.data \in {"APPROVED", "POSTED"}
    \/ /\ q.pc = "instructed"
       /\ q.data \in [ status : {"APPROVED", "POSTED", "FAILED_PAYMENT"},
                       paymentStatus : {"PAYMENT_PROCESSING", "FAILED"} ]
    \/ /\ q.pc = "markPaid"
       /\ q.data \in Statuses
    \/ /\ q.pc = "period"
       /\ q.data \in PeriodStatuses

(* The row, what the requests hold and the ledger have their types. *)
TypeOK ==
    /\ voucher \in Voucher
    /\ period \in PeriodStatuses
    /\ ledger \in Seq(Entry)
    /\ finalApprovers \in SUBSET Users
    /\ instructions \in Nat
    /\ DOMAIN req = Requests
    /\ \A r \in Requests : RequestOK(req[r])

(* However requests overlap, the general ledger holds at most one entry    *)
(* for the voucher, and the header says so exactly when it does.           *)
PostedIffBookedOnce ==
    /\ Len(ledger) <= 1
    /\ voucher.isPostedToGL <=> ledger # <<>>

(* Someone other than the maker gave a final approval. *)
ApprovedByAnother == \E u \in finalApprovers : u # voucher.createdBy

(* However requests overlap, no stale copy written back ever releases a    *)
(* voucher: what is approved, posted or paid with an entry had a last      *)
(* approval by someone other than its maker.                               *)
ReleasedByAnother ==
    (voucher.status \in {"APPROVED", "POSTED"} \/ ledger # <<>>)
        => ApprovedByAnother

(* However requests overlap, a payment shown as processing was really      *)
(* handed to the gateway.                                                  *)
ProcessingWasInstructed ==
    voucher.paymentStatus = "PAYMENT_PROCESSING" => instructions > 0

(* Why the last three hold: what a request in flight is going to write     *)
(* was already true when it began and is never undone.  A released status  *)
(* has its final approval on record, a payment its instruction.            *)
IsOnRecord(q) ==
    /\ q.pc = "approve" => q.data.actor # voucher.createdBy
    /\ \/ q.pc \in {"post", "instruct"}
       \/ q.pc = "instructed" /\ q.data.status \in {"APPROVED", "POSTED"}
       \/ q.pc = "markPaid" /\ q.data \in {"APPROVED", "POSTED"}
       => ApprovedByAnother
    /\ q.pc = "instructed" /\ q.data.paymentStatus = "PAYMENT_PROCESSING"
       => instructions > 0

OverlapInv ==
    /\ TypeOK
    /\ PostedIffBookedOnce
    /\ ReleasedByAnother
    /\ ProcessingWasInstructed
    /\ \A r \in Requests : IsOnRecord(req[r])

(* However requests overlap, an entry in the ledger is never withdrawn or  *)
(* rewritten, nor its link on the voucher.                                 *)
BooksAreAppendOnly ==
    [][ /\ SubSeq(ledger', 1, Len(ledger)) = ledger
        /\ voucher.isPostedToGL => voucher'.isPostedToGL ]_vars

(* One request at a time: every approval standing on the chain was given   *)
(* by someone other than the maker, holding a role that level asks for,    *)
(* on exactly what the voucher says now.                                   *)
ApprovalsCoverContent ==
    \A i \in DOMAIN voucher.chain :
        LET step == voucher.chain[i]
        IN  step.status = "APPROVED" =>
              /\ step.seen = voucher.content
              /\ step.actor # voucher.createdBy
              /\ \E j \in DOMAIN voucher.chain :
                    /\ voucher.chain[j].level = step.level
                    /\ voucher.chain[j].role = RoleOf[step.actor]

(* One request at a time, and whatever request dies halfway, what the      *)
(* header repeats of other rows agrees with them: a voucher in review has  *)
(* a step to decide and its workflow status names that step's level, a     *)
(* released one has none, and the count of attachments that submit trusts  *)
(* never exceeds the attachments there are.                                *)
HeaderAgreesWithRows ==
    /\ voucher.attachmentCount <= voucher.files
    /\ voucher.status \in Awaiting =>
         /\ PendingSteps(voucher.chain) # {}
         /\ voucher.workflowStatus =
              WorkflowStatusForLevel(NextLevel(voucher.chain))
    /\ voucher.status \in {"APPROVED", "POSTED", "FAILED_PAYMENT"} =>
         PendingSteps(voucher.chain) = {}

(* One request at a time: the entry holds what the voucher says, and went  *)
(* into an open period.                                                    *)
BookedAsItStands ==
    \A i \in DOMAIN ledger : ledger[i] = [content |-> voucher.content,
                                          period |-> "OPEN"]

(* One request at a time: a voucher is PAID exactly when it is posted and  *)
(* its payment is confirmed, whichever of the two came first.              *)
PaidMeansPostedAndSettled ==
    voucher.status = "PAID" <=>
        voucher.isPostedToGL /\ voucher.paymentStatus = "PAID"

(* One request at a time: a confirmed payment stays confirmed, and no      *)
(* further instruction is sent for it.                                     *)
PaidOnce ==
    [][voucher.paymentStatus = "PAID" =>
          voucher'.paymentStatus = "PAID" /\ instructions' = instructions]_vars

(* One request at a time: the voucher keeps the promise of a controlled    *)
(* document.  Its ledger entry, while there is one, decides the stage.     *)
Stage ==
    CASE voucher.isPostedToGL          -> "booked"
      [] ~ voucher.isPostedToGL
         /\ voucher.status = "CANCELLED" -> "dropped"
      [] OTHER ->
         IF voucher.status \in Editable THEN "editable"
         ELSE IF voucher.status \in Awaiting THEN "review" ELSE "released"

Document ==
    INSTANCE ControlledDocument
        WITH stage <- Stage,
             content <- voucher.content,
             booked <- IF ledger = <<>> THEN NoContent ELSE ledger[1].content

ImplementsControlledDocument == Document!Spec

(* However many requests overlap, the period is no freer than the periods  *)
(* of the fiscal years, which keep this promise too.                       *)
PostingPeriod ==
    INSTANCE AccountingPeriod
        WITH status <- period,
             asked <- [r \in Requests |-> IF req[r].pc = "period"
                                          THEN req[r].data ELSE "nothing"]

ImplementsAccountingPeriod == PostingPeriod!Spec

(* cancel: "Posted or paid vouchers cannot be cancelled".                  *)
CancelledIsNotPosted == voucher.status = "CANCELLED" => ~ voucher.isPostedToGL
=============================================================================
