------------------------ MODULE PaymentVoucherProofs ------------------------
(***************************************************************************)
(* Theorems about PaymentVoucher, for every set of users, of contents and  *)
(* of requests: first however they overlap, then when there is at most one *)
(* in flight, which may still die before any of its writes; and that the   *)
(* period it is posted into is an AccountingPeriod.                        *)
(***************************************************************************)
EXTENDS PaymentVoucher, SequenceTheorems, SumsProofs

(* The chain helpers return chains. *)
LEMMA NewStepType ==
    ASSUME NEW level \in Nat, NEW role \in Roles
    PROVE  NewStep(level, role) \in Step
  BY DEF NewStep, Step, StepStatuses

LEMMA ContentType ==
    ASSUME NEW c \in Contents
    PROVE  /\ c.approvalMatrix \in Seq(MatrixRow)
           /\ c.totalAmount \in Nat
  <1>1. c \in VoucherContent({c.lines})
    BY ContentsAssumption
  <1> QED
    BY <1>1 DEF VoucherContent

LEMMA ResolveType ==
    ASSUME NEW c \in Contents
    PROVE  ResolveApprovalChain(c) \in Seq(Step)
  <1>1. CASE c.approvalMatrix # <<>>
    <2>1. c.approvalMatrix \in Seq(MatrixRow)
      BY ContentType
    <2>2. \A i \in DOMAIN c.approvalMatrix :
             NewStep(c.approvalMatrix[i].level, c.approvalMatrix[i].role) \in Step
      <3> TAKE i \in DOMAIN c.approvalMatrix
      <3>1. c.approvalMatrix[i] \in MatrixRow
        BY <2>1
      <3> QED
        BY <3>1, NewStepType DEF MatrixRow
    <2> QED
      BY <1>1, <2>1, <2>2 DEF ResolveApprovalChain
  <1>2. CASE c.approvalMatrix = <<>>
    <2>1. /\ <<NewStep(1, "FINANCE")>> \in Seq(Step)
          /\ <<NewStep(2, "ADMIN")>> \in Seq(Step)
          /\ <<NewStep(3, "FINANCE")>> \in Seq(Step)
          /\ <<>> \in Seq(Step)
      BY NewStepType DEF Roles
    <2>2. \A a, b \in Seq(Step) : a \o b \in Seq(Step)
      BY ConcatProperties
    <2> QED
      BY <1>2, <2>1, <2>2 DEF ResolveApprovalChain
  <1> QED
    BY <1>1, <1>2

LEMMA DecideType ==
    ASSUME NEW chain \in Seq(Step), NEW decision \in StepStatuses,
           NEW u \in Users, NEW c \in Contents
    PROVE  Decide(chain, decision, u, c) \in Seq(Step)
  <1> DEFINE After(i) ==
        IF chain[i].level = NextLevel(chain)
        THEN [chain[i] EXCEPT !.status = decision, !.actor = u, !.seen = c]
        ELSE chain[i]
  <1>1. ASSUME NEW i \in DOMAIN chain
        PROVE  After(i) \in Step
    <2>1. chain[i] \in Step
      OBVIOUS
    <2> QED
      BY <2>1 DEF Step
  <1>2. Decide(chain, decision, u, c) = [i \in DOMAIN chain |-> After(i)]
    BY DEF Decide
  <1> HIDE DEF After
  <1> QED
    BY <1>1, <1>2

LEMMA ResetType ==
    ASSUME NEW chain \in Seq(Step)
    PROVE  ResetChain(chain) \in Seq(Step)
  <1>1. ASSUME NEW i \in DOMAIN chain
        PROVE  NewStep(chain[i].level, chain[i].role) \in Step
    <2>1. chain[i] \in Step
      OBVIOUS
    <2>2. chain[i].level \in Nat /\ chain[i].role \in Roles
      BY <2>1 DEF Step
    <2> QED
      BY <2>2, NewStepType
  <1> QED
    BY <1>1 DEF ResetChain

LEMMA WorkflowType ==
    ASSUME NEW level
    PROVE  WorkflowStatusForLevel(level) \in WorkflowStatuses
  BY DEF WorkflowStatusForLevel, WorkflowStatuses

-----------------------------------------------------------------------------
(* Every step either begins a request, or moves one on, or changes the     *)
(* period: nothing but req changes when a request begins or is aborted.    *)

(* Type correctness of a request that begins. *)
LEMMA BeginType ==
    ASSUME NEW r \in Requests, NEW operation, NEW data,
           TypeOK, Begin(r, operation, data),
           RequestOK([pc |-> operation, data |-> data])
    PROVE  TypeOK'
  BY DEF TypeOK, Begin

LEMMA CallType ==
    ASSUME TypeOK, NEW r \in Requests, Call(r)
    PROVE  TypeOK'
  <1> USE DEF RequestOK
  <1>1. ASSUME NEW u \in Users, UpdateDraftRead(r, u) PROVE TypeOK'
    BY <1>1, BeginType DEF UpdateDraftRead
  <1>2. ASSUME NEW u \in Users, SubmitRead(r, u) PROVE TypeOK'
    BY <1>2, BeginType, WorkflowType DEF SubmitRead
  <1>3. ASSUME NEW u \in Users, RecallRead(r, u) PROVE TypeOK'
    <2>1. voucher.chain \in Seq(Step)
      BY DEF TypeOK, Voucher
    <2> QED
      BY <1>3, <2>1, BeginType, ResetType DEF RecallRead
  <1>4. ASSUME NEW u \in Users, ApproveRead(r, u) PROVE TypeOK'
    <2> DEFINE chain == Decide(voucher.chain, "APPROVED", u, voucher.content)
               final == PendingSteps(chain) = {}
               data == [ status |-> IF final THEN "APPROVED"
                                    ELSE "PARTIALLY_APPROVED",
                         workflowStatus |-> IF final THEN "APPROVED"
                             ELSE WorkflowStatusForLevel(NextLevel(chain)),
                         chain |-> chain,
                         actor |-> u,
                         approvedBy |-> IF final THEN u
                                        ELSE voucher.approvedBy ]
    <2>1. /\ voucher.chain \in Seq(Step)
          /\ voucher.content \in Contents
          /\ voucher.approvedBy \in Users \union {Nobody}
      BY DEF TypeOK, Voucher
    <2>2. chain \in Seq(Step)
      BY <2>1, DecideType DEF StepStatuses
    <2>3. WorkflowStatusForLevel(NextLevel(chain)) \in WorkflowStatuses
      BY WorkflowType
    <2>4. Begin(r, "approve", data)
      BY <1>4 DEF ApproveRead
    <2>5. data \in [ status : {"APPROVED", "PARTIALLY_APPROVED"},
                     workflowStatus : WorkflowStatuses,
                     chain : Seq(Step),
                     actor : Users,
                     approvedBy : Users \union {Nobody} ]
      <3> HIDE DEF chain, final
      <3> QED
        BY <2>1, <2>2, <2>3 DEF WorkflowStatuses
    <2> HIDE DEF data
    <2> QED
      BY <2>4, <2>5, BeginType
  <1>5. ASSUME NEW u \in Users, RejectRead(r, u) PROVE TypeOK'
    <2>1. /\ voucher.chain \in Seq(Step)
          /\ voucher.content \in Contents
      BY DEF TypeOK, Voucher
    <2>2. Decide(voucher.chain, "REJECTED", u, voucher.content) \in Seq(Step)
      BY <2>1, DecideType DEF StepStatuses
    <2> QED
      BY <1>5, <2>2, BeginType DEF RejectRead
  <1>6. ASSUME ReturnRead(r) PROVE TypeOK'
    BY <1>6, BeginType DEF ReturnRead
  <1>7. ASSUME CancelRead(r) PROVE TypeOK'
    BY <1>7, BeginType DEF CancelRead
  <1>8. ASSUME AttachRead(r) PROVE TypeOK'
    <2>1. voucher.attachmentCount + 1 \in Nat
      BY DEF TypeOK, Voucher
    <2> QED
      BY <1>8, <2>1, BeginType DEF AttachRead
  <1>9. ASSUME PostRead(r) PROVE TypeOK'
    <2>1. voucher.content \in Contents
      BY DEF TypeOK, Voucher
    <2> QED
      BY <1>9, <2>1, BeginType DEF PostRead
  <1>10. ASSUME InitiateRead(r) PROVE TypeOK'
    BY <1>10, BeginType DEF InitiateRead
  <1>11. ASSUME MarkPaidRead(r) PROVE TypeOK'
    <2>1. /\ voucher.status \in Statuses
          /\ "PAID" \in Statuses
      BY DEF TypeOK, Voucher, Statuses
    <2> QED
      BY <1>11, <2>1, BeginType DEF MarkPaidRead
  <1>12. ASSUME UpdatePeriodRead(r) PROVE TypeOK'
    BY <1>12, BeginType DEF UpdatePeriodRead
  <1> QED
    BY <1>1, <1>2, <1>3, <1>4, <1>5, <1>6, <1>7, <1>8, <1>9, <1>10, <1>11,
       <1>12
    DEF Call

(* What the write at the end of a request leaves of req. *)
LEMMA EndType ==
    ASSUME NEW r \in Requests, NEW operation, TypeOK, End(r, operation)
    PROVE  /\ DOMAIN req' = Requests
           /\ \A q \in Requests : RequestOK(req'[q])
  <1>1. /\ DOMAIN req' = Requests
        /\ \A q \in Requests : req'[q] = IF q = r THEN Idle ELSE req[q]
    BY DEF End, TypeOK
  <1>2. RequestOK(Idle)
    BY DEF RequestOK
  <1> QED
    BY <1>1, <1>2 DEF TypeOK

(* The steps that write the header and nothing else. *)
LEMMA HeaderType ==
    ASSUME NEW r \in Requests, NEW operation, TypeOK,
           End(r, operation), headerOnly, voucher' \in Voucher
    PROVE  TypeOK'
  <1>1. /\ DOMAIN req' = Requests
        /\ \A q \in Requests : RequestOK(req'[q])
    BY EndType
  <1> QED
    BY <1>1 DEF TypeOK, headerOnly

LEMMA ProceedType ==
    ASSUME TypeOK, NEW r \in Requests, Proceed(r)
    PROVE  TypeOK'
  <1>0. RequestOK(req[r]) /\ voucher \in Voucher
    BY DEF TypeOK
  <1>1. CASE UpdateDraftWrite(r)
    <2> DEFINE new == req[r].data
               chain == ResolveApprovalChain(new.content)
    <2>1. new \in [content : Contents, files : 0..MaxFiles]
      BY <1>0, <1>1 DEF RequestOK, UpdateDraftWrite, End, Idle
    <2>2. new.content \in Contents /\ new.files \in Nat
      BY <2>1, BoundsAssumption
    <2>3. chain \in Seq(Step)
      BY <2>2, ResolveType
    <2>4. voucher' = [voucher EXCEPT !.content = new.content,
                                     !.chain = chain,
                                     !.files = new.files,
                                     !.attachmentCount = new.files]
      BY <1>1 DEF UpdateDraftWrite
    <2>5. voucher' \in Voucher
      <3> HIDE DEF new, chain
      <3> QED
        BY <1>0, <2>2, <2>3, <2>4 DEF Voucher
    <2> QED
      BY <1>1, <2>5, HeaderType DEF UpdateDraftWrite
  <1>2. CASE SubmitWrite(r)
    <2>1. req[r].data \in WorkflowStatuses
      BY <1>0, <1>2 DEF RequestOK, SubmitWrite, End, Idle
    <2>2. voucher' \in Voucher
      BY <1>0, <1>2, <2>1 DEF SubmitWrite, Voucher, Statuses, Awaiting
    <2> QED
      BY <1>2, <2>2, HeaderType DEF SubmitWrite
  <1>3. CASE RecallWrite(r)
    <2>1. req[r].data \in Seq(Step)
      BY <1>0, <1>3 DEF RequestOK, RecallWrite, End, Idle
    <2>2. voucher' \in Voucher
      BY <1>0, <1>3, <2>1
      DEF RecallWrite, Voucher, Statuses, Editable, WorkflowStatuses
    <2> QED
      BY <1>3, <2>2, HeaderType DEF RecallWrite
  <1>4. CASE ApproveWrite(r)
    <2>1. req[r].data \in [ status : {"APPROVED", "PARTIALLY_APPROVED"},
                            workflowStatus : WorkflowStatuses,
                            chain : Seq(Step),
                            actor : Users,
                            approvedBy : Users \union {Nobody} ]
      BY <1>0, <1>4 DEF RequestOK, ApproveWrite, End, Idle
    <2>2. voucher' \in Voucher
      BY <1>0, <1>4, <2>1 DEF ApproveWrite, Voucher, Statuses, Awaiting
    <2>3. finalApprovers' \in SUBSET Users
      BY <1>4, <2>1 DEF ApproveWrite, TypeOK
    <2>4. /\ DOMAIN req' = Requests
          /\ \A q \in Requests : RequestOK(req'[q])
      BY <1>4, EndType DEF ApproveWrite
    <2> QED
      BY <1>4, <2>2, <2>3, <2>4 DEF ApproveWrite, TypeOK
  <1>5. CASE RejectWrite(r)
    <2>1. req[r].data \in Seq(Step)
      BY <1>0, <1>5 DEF RequestOK, RejectWrite, End, Idle
    <2>2. voucher' \in Voucher
      BY <1>0, <1>5, <2>1
      DEF RejectWrite, Voucher, Statuses, Editable, WorkflowStatuses
    <2> QED
      BY <1>5, <2>2, HeaderType DEF RejectWrite
  <1>6. CASE ReturnWrite(r)
    <2>1. voucher' \in Voucher
      BY <1>0, <1>6
      DEF ReturnWrite, Voucher, Statuses, Editable, WorkflowStatuses
    <2> QED
      BY <1>6, <2>1, HeaderType DEF ReturnWrite
  <1>7. CASE CancelWrite(r)
    <2>1. voucher' \in Voucher
      BY <1>0, <1>7 DEF CancelWrite, Voucher, Statuses
    <2> QED
      BY <1>7, <2>1, HeaderType DEF CancelWrite
  <1>8. CASE AttachRow(r)
    <2>1. req[r].data \in Nat
      BY <1>0, <1>8 DEF RequestOK, AttachRow, Idle
    <2>2. voucher' \in Voucher
      BY <1>0, <1>8 DEF AttachRow, Voucher
    <2>3. /\ DOMAIN req' = Requests
          /\ \A q \in Requests :
                req'[q] = IF q = r
                          THEN [pc |-> "attachCount", data |-> req[r].data]
                          ELSE req[q]
      BY <1>8 DEF AttachRow, TypeOK
    <2>4. RequestOK([pc |-> "attachCount", data |-> req[r].data])
      BY <2>1 DEF RequestOK
    <2> QED
      BY <1>8, <2>2, <2>3, <2>4 DEF AttachRow, TypeOK, headerOnly
  <1>9. CASE AttachCount(r)
    <2>1. req[r].data \in Nat
      BY <1>0, <1>9 DEF RequestOK, AttachCount, End, Idle
    <2>2. voucher' \in Voucher
      BY <1>0, <1>9, <2>1 DEF AttachCount, Voucher
    <2> QED
      BY <1>9, <2>2, HeaderType DEF AttachCount
  <1>10. CASE PostWrite(r)
    <2>1. req[r].data \in [content : Contents, status : {"POSTED", "PAID"}]
      BY <1>0, <1>10 DEF RequestOK, PostWrite, End, Idle
    <2>2. voucher' \in Voucher
      BY <1>0, <1>10, <2>1 DEF PostWrite, Voucher, Statuses
    <2>3. [content |-> req[r].data.content, period |-> period] \in Entry
      BY <2>1 DEF Entry, TypeOK
    <2>4. ledger' \in Seq(Entry)
      BY <1>10, <2>3 DEF PostWrite, TypeOK
    <2>5. /\ DOMAIN req' = Requests
          /\ \A q \in Requests : RequestOK(req'[q])
      BY <1>10, EndType DEF PostWrite
    <2> QED
      BY <1>10, <2>2, <2>4, <2>5 DEF PostWrite, TypeOK
  <1>11. CASE InitiateGateway(r)
    <2>1. req[r].data \in {"APPROVED", "POSTED"}
      BY <1>0, <1>11 DEF RequestOK, InitiateGateway, Idle
    <2>2. PICK accepted \in BOOLEAN :
            /\ instructions' = IF accepted THEN instructions + 1
                               ELSE instructions
            /\ req' = [req EXCEPT ![r] =
                 [ pc |-> "instructed",
                   data |-> IF accepted
                     THEN [paymentStatus |-> "PAYMENT_PROCESSING",
                           status |-> req[r].data]
                     ELSE [paymentStatus |-> "FAILED",
                           status |-> "FAILED_PAYMENT"] ]]
      BY <1>11 DEF InitiateGateway
    <2> DEFINE new == [ pc |-> "instructed",
                        data |-> IF accepted
                          THEN [paymentStatus |-> "PAYMENT_PROCESSING",
                                status |-> req[r].data]
                          ELSE [paymentStatus |-> "FAILED",
                                status |-> "FAILED_PAYMENT"] ]
    <2>3. RequestOK(new)
      BY <2>1 DEF RequestOK
    <2>4. /\ DOMAIN req' = Requests
          /\ \A q \in Requests : req'[q] = IF q = r THEN new ELSE req[q]
      BY <2>2 DEF TypeOK
    <2>5. instructions' \in Nat
      BY <2>2 DEF TypeOK
    <2> HIDE DEF new
    <2> QED
      BY <1>11, <2>3, <2>4, <2>5 DEF InitiateGateway, TypeOK
  <1>12. CASE InitiateWrite(r)
    <2>1. req[r].data \in
            [ status : {"APPROVED", "POSTED", "FAILED_PAYMENT"},
              paymentStatus : {"PAYMENT_PROCESSING", "FAILED"} ]
      BY <1>0, <1>12 DEF RequestOK, InitiateWrite, End, Idle
    <2>2. voucher' \in Voucher
      BY <1>0, <1>12, <2>1
      DEF InitiateWrite, Voucher, Statuses, PaymentStatuses
    <2> QED
      BY <1>12, <2>2, HeaderType DEF InitiateWrite
  <1>13. CASE MarkPaidWrite(r)
    <2>1. req[r].data \in Statuses
      BY <1>0, <1>13 DEF RequestOK, MarkPaidWrite, End, Idle
    <2>2. voucher' \in Voucher
      BY <1>0, <1>13, <2>1 DEF MarkPaidWrite, Voucher, PaymentStatuses
    <2> QED
      BY <1>13, <2>2, HeaderType DEF MarkPaidWrite
  <1>14. CASE Abort(r)
    <2>1. RequestOK(Idle)
      BY DEF RequestOK
    <2> QED
      BY <1>14, <2>1 DEF Abort, TypeOK
  <1>15. CASE UpdatePeriodWrite(r)
    <2>1. req[r].data \in PeriodStatuses
      BY <1>0, <1>15 DEF RequestOK, UpdatePeriodWrite, End, Idle
    <2>2. /\ DOMAIN req' = Requests
          /\ \A q \in Requests : RequestOK(req'[q])
      BY <1>15, EndType DEF UpdatePeriodWrite
    <2> QED
      BY <1>15, <2>1, <2>2 DEF UpdatePeriodWrite, TypeOK
  <1> QED
    BY <1>1, <1>2, <1>3, <1>4, <1>5, <1>6, <1>7, <1>8, <1>9, <1>10, <1>11,
       <1>12, <1>13, <1>14, <1>15 DEF Proceed

LEMMA InitType == Init => TypeOK
  <1> SUFFICES ASSUME Init PROVE TypeOK
    OBVIOUS
  <1>1. PICK u \in Users, c \in Contents, n \in 0..MaxFiles :
          voucher = NewDraft(u, c, n)
    BY DEF Init
  <1>2. ResolveApprovalChain(c) \in Seq(Step) /\ n \in Nat
    BY ResolveType, BoundsAssumption
  <1>3. voucher \in Voucher
    BY <1>1, <1>2 DEF NewDraft, Voucher, Statuses, Editable, WorkflowStatuses,
                      PaymentStatuses
  <1>4. DOMAIN req = Requests /\ \A r \in Requests : RequestOK(req[r])
    BY DEF Init, RequestOK
  <1> QED
    BY <1>3, <1>4 DEF Init, TypeOK

LEMMA StepType == TypeOK /\ [Next]_vars => TypeOK'
  <1> SUFFICES ASSUME TypeOK, [Next]_vars PROVE TypeOK'
    OBVIOUS
  <1>1. CASE Next
    BY <1>1, CallType, ProceedType DEF Next
  <1>2. CASE UNCHANGED vars
    BY <1>2 DEF vars, TypeOK
  <1> QED
    BY <1>1, <1>2

(* However many requests overlap, and whatever dies halfway, the row, the  *)
(* ledger and what each request holds keep their types: no handler writes  *)
(* a status, a chain or an amount of files the schema does not have.       *)
THEOREM TypeCorrect == Spec => []TypeOK
  BY InitType, StepType, PTL DEF Spec

-----------------------------------------------------------------------------
(* The ledger and its link.  Only PostWrite touches them, and only once.   *)

LEMMA BooksStep ==
    ASSUME TypeOK, [Next]_vars
    PROVE  \/ /\ ledger' = ledger
              /\ voucher'.isPostedToGL = voucher.isPostedToGL
           \/ /\ ledger = <<>>
              /\ \E entry \in Entry : ledger' = Append(ledger, entry)
              /\ voucher'.isPostedToGL = TRUE
  <1> USE DEF headerOnly
  <1>0. voucher \in Voucher
    BY DEF TypeOK
  <1>1. ASSUME NEW r \in Requests, Call(r)
        PROVE  ledger' = ledger /\ voucher' = voucher
    BY <1>1 DEF Call, Begin, UpdateDraftRead, SubmitRead, RecallRead,
                ApproveRead, RejectRead, ReturnRead, CancelRead, AttachRead,
                PostRead, InitiateRead, MarkPaidRead, UpdatePeriodRead
  <1>2. ASSUME NEW r \in Requests, Proceed(r), ~ PostWrite(r)
        PROVE  /\ ledger' = ledger
               /\ voucher'.isPostedToGL = voucher.isPostedToGL
    <2>1. ledger' = ledger
      BY <1>2 DEF Proceed, UpdateDraftWrite, SubmitWrite, RecallWrite,
                  ApproveWrite, RejectWrite, ReturnWrite, CancelWrite,
                  AttachRow, AttachCount, InitiateGateway, InitiateWrite,
                  MarkPaidWrite, UpdatePeriodWrite, Abort
    <2>2. voucher'.isPostedToGL = voucher.isPostedToGL
      BY <1>0, <1>2
      DEF Voucher, Proceed, UpdateDraftWrite, SubmitWrite, RecallWrite,
          ApproveWrite, RejectWrite, ReturnWrite, CancelWrite,
          AttachRow, AttachCount, InitiateGateway, InitiateWrite,
          MarkPaidWrite, UpdatePeriodWrite, Abort
    <2> QED
      BY <2>1, <2>2
  <1>3. ASSUME NEW r \in Requests, PostWrite(r)
        PROVE  /\ ledger = <<>>
               /\ \E entry \in Entry : ledger' = Append(ledger, entry)
               /\ voucher'.isPostedToGL = TRUE
    <2>1. RequestOK(req[r]) /\ req[r].pc = "post"
      BY <1>3 DEF TypeOK, PostWrite, End
    <2>2. [content |-> req[r].data.content, period |-> period] \in Entry
      BY <2>1 DEF RequestOK, Idle, Entry, TypeOK
    <2> QED
      BY <1>0, <1>3, <2>2 DEF PostWrite, ReferenceIsFree, Voucher
  <1>4. CASE UNCHANGED vars
    BY <1>4 DEF vars
  <1> QED
    BY <1>1, <1>2, <1>3, <1>4 DEF Next

(* The maker never changes, nor does a final approval leave the history,   *)
(* nor is an instruction recalled.                                         *)
LEMMA RecordStep ==
    ASSUME TypeOK, [Next]_vars
    PROVE  /\ voucher'.createdBy = voucher.createdBy
           /\ finalApprovers \subseteq finalApprovers'
           /\ instructions' \in Nat /\ instructions' >= instructions
           /\ ApprovedByAnother => ApprovedByAnother'
  <1> USE DEF headerOnly
  <1>0. voucher \in Voucher /\ instructions \in Nat
    BY DEF TypeOK
  <1>1. ASSUME NEW r \in Requests, Call(r)
        PROVE  UNCHANGED <<voucher, finalApprovers, instructions>>
    BY <1>1 DEF Call, Begin, UpdateDraftRead, SubmitRead, RecallRead,
                ApproveRead, RejectRead, ReturnRead, CancelRead, AttachRead,
                PostRead, InitiateRead, MarkPaidRead, UpdatePeriodRead
  <1>2. ASSUME NEW r \in Requests, Proceed(r)
        PROVE  /\ voucher'.createdBy = voucher.createdBy
               /\ finalApprovers \subseteq finalApprovers'
               /\ instructions' \in Nat /\ instructions' >= instructions
    <2>1. voucher'.createdBy = voucher.createdBy
      BY <1>0, <1>2
      DEF Voucher, Proceed, UpdateDraftWrite, SubmitWrite, RecallWrite,
          ApproveWrite, RejectWrite, ReturnWrite, CancelWrite,
          AttachRow, AttachCount, PostWrite, InitiateGateway, InitiateWrite,
          MarkPaidWrite, UpdatePeriodWrite, Abort
    <2>2. finalApprovers \subseteq finalApprovers'
      BY <1>2 DEF Proceed, UpdateDraftWrite, SubmitWrite, RecallWrite,
                  ApproveWrite, RejectWrite, ReturnWrite, CancelWrite,
                  AttachRow, AttachCount, PostWrite, InitiateGateway,
                  InitiateWrite, MarkPaidWrite, UpdatePeriodWrite, Abort
    <2>3. instructions' = instructions \/ instructions' = instructions + 1
      BY <1>2 DEF Proceed, UpdateDraftWrite, SubmitWrite, RecallWrite,
                  ApproveWrite, RejectWrite, ReturnWrite, CancelWrite,
                  AttachRow, AttachCount, PostWrite, InitiateGateway,
                  InitiateWrite, MarkPaidWrite, UpdatePeriodWrite, Abort
    <2> QED
      BY <1>0, <2>1, <2>2, <2>3
  <1>3. ASSUME UNCHANGED vars
        PROVE  UNCHANGED <<voucher, finalApprovers, instructions>>
    BY <1>3 DEF vars
  <1>4. /\ voucher'.createdBy = voucher.createdBy
        /\ finalApprovers \subseteq finalApprovers'
        /\ instructions' \in Nat /\ instructions' >= instructions
    BY <1>0, <1>1, <1>2, <1>3 DEF Next
  <1> QED
    BY <1>4 DEF ApprovedByAnother

-----------------------------------------------------------------------------
(* OverlapInv is inductive.  Three lemmas say what is left to show of a    *)
(* request that begins, that ends, and that changes nothing of its own.    *)

LEMMA OthersOnRecord ==
    ASSUME OverlapInv, [Next]_vars,
           NEW q \in Requests, req'[q] = req[q]
    PROVE  IsOnRecord(req[q])'
  <1>1. IsOnRecord(req[q])
    BY DEF OverlapInv
  <1>2. /\ voucher'.createdBy = voucher.createdBy
        /\ instructions' \in Nat /\ instructions' >= instructions
        /\ ApprovedByAnother => ApprovedByAnother'
    BY RecordStep DEF OverlapInv
  <1>3. instructions \in Nat
    BY DEF OverlapInv, TypeOK
  <1>4. instructions > 0 => instructions' > 0
    BY <1>2, <1>3
  <1> QED
    BY <1>1, <1>2, <1>4 DEF IsOnRecord

LEMMA IdleOnRecord ==
    ASSUME NEW q \in Requests, req'[q] = Idle
    PROVE  IsOnRecord(req[q])'
  BY DEF IsOnRecord, Idle

LEMMA CallOnRecord ==
    ASSUME OverlapInv, NEW r \in Requests, Call(r)
    PROVE  IsOnRecord(req[r])'
  <1>0. DOMAIN req = Requests /\ voucher \in Voucher
    BY DEF OverlapInv, TypeOK
  <1>1. ASSUME NEW operation, NEW data, Begin(r, operation, data),
               operation = "approve" => data.actor # voucher.createdBy,
               operation \in {"post", "instruct"} => ApprovedByAnother,
               operation # "instructed",
               operation = "markPaid" /\ data \in {"APPROVED", "POSTED"}
                 => ApprovedByAnother
        PROVE  IsOnRecord(req[r])'
    <2>1. req'[r] = [pc |-> operation, data |-> data]
      BY <1>0, <1>1 DEF Begin
    <2>2. /\ voucher' = voucher
          /\ ApprovedByAnother => ApprovedByAnother'
      BY <1>1 DEF Begin, ApprovedByAnother
    <2> QED
      BY <1>1, <2>1, <2>2 DEF IsOnRecord
  <1>2. voucher.status \in {"APPROVED", "POSTED"} => ApprovedByAnother
    BY DEF OverlapInv, ReleasedByAnother
  <1>3. ASSUME NEW u \in Users, ApproveRead(r, u)
        PROVE  IsOnRecord(req[r])'
    BY <1>1, <1>3 DEF ApproveRead
  <1>4. CASE PostRead(r)
    BY <1>1, <1>2, <1>4 DEF PostRead
  <1>5. CASE InitiateRead(r)
    BY <1>1, <1>2, <1>5 DEF InitiateRead
  <1>6. CASE MarkPaidRead(r)
    BY <1>1, <1>2, <1>6 DEF MarkPaidRead
  <1>7. ASSUME NEW u \in Users, UpdateDraftRead(r, u)
        PROVE  IsOnRecord(req[r])'
    BY <1>1, <1>7 DEF UpdateDraftRead
  <1>8. ASSUME NEW u \in Users, SubmitRead(r, u)
        PROVE  IsOnRecord(req[r])'
    BY <1>1, <1>8 DEF SubmitRead
  <1>9. ASSUME NEW u \in Users, RecallRead(r, u)
        PROVE  IsOnRecord(req[r])'
    BY <1>1, <1>9 DEF RecallRead
  <1>10. ASSUME NEW u \in Users, RejectRead(r, u)
         PROVE  IsOnRecord(req[r])'
    BY <1>1, <1>10 DEF RejectRead
  <1>11. CASE ReturnRead(r) \/ CancelRead(r) \/ AttachRead(r)
    BY <1>1, <1>11 DEF ReturnRead, CancelRead, AttachRead
  <1>12. CASE UpdatePeriodRead(r)
    BY <1>1, <1>12 DEF UpdatePeriodRead
  <1> QED
    BY <1>3, <1>4, <1>5, <1>6, <1>7, <1>8, <1>9, <1>10, <1>11, <1>12 DEF Call

LEMMA ProceedOnRecord ==
    ASSUME OverlapInv, NEW r \in Requests, Proceed(r)
    PROVE  IsOnRecord(req[r])'
  <1>0. DOMAIN req = Requests /\ IsOnRecord(req[r]) /\ instructions \in Nat
    BY DEF OverlapInv, TypeOK
  <1>1. CASE AttachRow(r)
    <2>1. req'[r].pc = "attachCount"
      BY <1>0, <1>1 DEF AttachRow
    <2> QED
      BY <2>1 DEF IsOnRecord
  <1>2. CASE InitiateGateway(r)
    <2>1. PICK accepted \in BOOLEAN :
            /\ instructions' = IF accepted THEN instructions + 1
                               ELSE instructions
            /\ req'[r] =
                 [ pc |-> "instructed",
                   data |-> IF accepted
                     THEN [paymentStatus |-> "PAYMENT_PROCESSING",
                           status |-> req[r].data]
                     ELSE [paymentStatus |-> "FAILED",
                           status |-> "FAILED_PAYMENT"] ]
      BY <1>0, <1>2 DEF InitiateGateway
    <2>2. ApprovedByAnother /\ ApprovedByAnother'
      BY <1>0, <1>2 DEF InitiateGateway, IsOnRecord, ApprovedByAnother
    <2>3. CASE accepted
      <3>1. /\ req'[r].pc = "instructed"
            /\ instructions' > 0
        BY <1>0, <2>1, <2>3
      <3> QED
        BY <2>2, <3>1 DEF IsOnRecord
    <2>4. CASE ~ accepted
      <3>1. /\ req'[r].pc = "instructed"
            /\ req'[r].data.paymentStatus = "FAILED"
        BY <2>1, <2>4
      <3> QED
        BY <2>2, <3>1 DEF IsOnRecord
    <2> QED
      BY <2>3, <2>4
  <1>3. CASE ~ AttachRow(r) /\ ~ InitiateGateway(r)
    <2>1. req'[r] = Idle
      BY <1>0, <1>3
      DEF Proceed, End, UpdateDraftWrite, SubmitWrite, RecallWrite,
          ApproveWrite, RejectWrite, ReturnWrite, CancelWrite, AttachCount,
          PostWrite, InitiateWrite, MarkPaidWrite, UpdatePeriodWrite, Abort
    <2> QED
      BY <2>1, IdleOnRecord
  <1> QED
    BY <1>1, <1>2, <1>3

(* A write that releases the voucher, or books it, has its final approval  *)
(* on record: the request's own, or the one it saw when it began.          *)
LEMMA ReleaseStep ==
    ASSUME OverlapInv, [Next]_vars
    PROVE  ReleasedByAnother'
  <1> USE DEF headerOnly
  <1>0. voucher \in Voucher /\ TypeOK /\ ReleasedByAnother
    BY DEF OverlapInv, TypeOK
  <1>1. ApprovedByAnother => ApprovedByAnother'
    BY <1>0, RecordStep
  <1>2. ASSUME NEW r \in Requests, Call(r)
        PROVE  ReleasedByAnother'
    <2>1. UNCHANGED <<voucher, ledger>>
      BY <1>2 DEF Call, Begin, UpdateDraftRead, SubmitRead, RecallRead,
                  ApproveRead, RejectRead, ReturnRead, CancelRead, AttachRead,
                  PostRead, InitiateRead, MarkPaidRead, UpdatePeriodRead
    <2> QED
      BY <1>0, <1>1, <2>1 DEF ReleasedByAnother
  <1>3. ASSUME NEW r \in Requests, Proceed(r)
        PROVE  ReleasedByAnother'
    <2>0. IsOnRecord(req[r])
      BY DEF OverlapInv
    <2>1. CASE ApproveWrite(r)
      <3>1. req[r].pc = "approve" /\ RequestOK(req[r])
        BY <1>0, <2>1 DEF ApproveWrite, End, TypeOK
      <3>2. req[r].data.actor # voucher'.createdBy
        BY <1>0, <2>0, <2>1, <3>1 DEF ApproveWrite, IsOnRecord, Voucher
      <3>3. CASE req[r].data.status = "APPROVED"
        <4>1. req[r].data.actor \in finalApprovers'
          BY <2>1, <3>3 DEF ApproveWrite
        <4> QED
          BY <3>2, <4>1 DEF ReleasedByAnother, ApprovedByAnother
      <3>4. CASE req[r].data.status # "APPROVED"
        <4>1. req[r].data.status = "PARTIALLY_APPROVED"
          BY <3>1, <3>4 DEF RequestOK, Idle
        <4> QED
          BY <1>0, <1>1, <2>1, <4>1
          DEF ApproveWrite, ReleasedByAnother, Voucher
      <3> QED
        BY <3>3, <3>4
    <2>2. CASE PostWrite(r)
      BY <1>1, <2>0, <2>2 DEF PostWrite, End, IsOnRecord, ReleasedByAnother
    <2>3. CASE InitiateWrite(r)
      BY <1>0, <1>1, <2>0, <2>3
      DEF InitiateWrite, End, IsOnRecord, ReleasedByAnother, Voucher
    <2>4. CASE MarkPaidWrite(r)
      BY <1>0, <1>1, <2>0, <2>4
      DEF MarkPaidWrite, End, IsOnRecord, ReleasedByAnother, Voucher
    <2>5. CASE \/ SubmitWrite(r) \/ RecallWrite(r) \/ RejectWrite(r)
               \/ ReturnWrite(r) \/ CancelWrite(r)
      BY <1>0, <1>1, <2>5
      DEF SubmitWrite, RecallWrite, RejectWrite, ReturnWrite, CancelWrite,
          ReleasedByAnother, Voucher
    <2>6. CASE \/ UpdateDraftWrite(r) \/ AttachRow(r) \/ AttachCount(r)
               \/ InitiateGateway(r) \/ UpdatePeriodWrite(r) \/ Abort(r)
      <3>1. ledger' = ledger /\ voucher'.status = voucher.status
        BY <1>0, <2>6
        DEF UpdateDraftWrite, AttachRow, AttachCount, InitiateGateway,
            UpdatePeriodWrite, Abort, Voucher
      <3> QED
        BY <1>0, <1>1, <3>1 DEF ReleasedByAnother
    <2> QED
      BY <1>3, <2>1, <2>2, <2>3, <2>4, <2>5, <2>6 DEF Proceed
  <1>4. CASE UNCHANGED vars
    BY <1>0, <1>1, <1>4 DEF vars, ReleasedByAnother
  <1> QED
    BY <1>2, <1>3, <1>4 DEF Next

(* PAYMENT_PROCESSING is written by initiatePayment alone, and only after  *)
(* the gateway has taken the instruction.                                  *)
LEMMA ProcessingStep ==
    ASSUME OverlapInv, [Next]_vars
    PROVE  ProcessingWasInstructed'
  <1> USE DEF headerOnly
  <1>0. /\ voucher \in Voucher /\ TypeOK /\ ProcessingWasInstructed
        /\ instructions \in Nat
    BY DEF OverlapInv, TypeOK
  <1>1. instructions > 0 => instructions' > 0
    <2>1. instructions' \in Nat /\ instructions' >= instructions
      BY <1>0, RecordStep
    <2> QED
      BY <1>0, <2>1
  <1>2. ASSUME NEW r \in Requests, InitiateWrite(r)
        PROVE  ProcessingWasInstructed'
    <2>1. IsOnRecord(req[r])
      BY DEF OverlapInv
    <2> QED
      BY <1>0, <1>2, <2>1
      DEF InitiateWrite, End, IsOnRecord, ProcessingWasInstructed, Voucher
  <1>3. ASSUME NEW r \in Requests, MarkPaidWrite(r)
        PROVE  ProcessingWasInstructed'
    BY <1>0, <1>3 DEF MarkPaidWrite, ProcessingWasInstructed, Voucher
  <1>4. ASSUME NEW r \in Requests, Call(r) \/ Proceed(r),
               ~ InitiateWrite(r), ~ MarkPaidWrite(r)
        PROVE  voucher'.paymentStatus = voucher.paymentStatus
    BY <1>0, <1>4
    DEF Voucher, Call, Begin, UpdateDraftRead, SubmitRead, RecallRead,
        ApproveRead, RejectRead, ReturnRead, CancelRead, AttachRead,
        PostRead, InitiateRead, MarkPaidRead, UpdatePeriodRead,
        Proceed, UpdateDraftWrite, SubmitWrite, RecallWrite, ApproveWrite,
        RejectWrite, ReturnWrite, CancelWrite, AttachRow, AttachCount,
        PostWrite, InitiateGateway, UpdatePeriodWrite, Abort
  <1>5. ASSUME voucher'.paymentStatus = voucher.paymentStatus
        PROVE  ProcessingWasInstructed'
    BY <1>0, <1>1, <1>5 DEF ProcessingWasInstructed
  <1>6. CASE UNCHANGED vars
    BY <1>5, <1>6 DEF vars
  <1> QED
    BY <1>2, <1>3, <1>4, <1>5, <1>6 DEF Next

LEMMA OverlapInit == Init => OverlapInv
  <1> SUFFICES ASSUME Init PROVE OverlapInv
    OBVIOUS
  <1>1. TypeOK
    BY InitType
  <1>2. /\ voucher.status = "DRAFT"
        /\ voucher.paymentStatus = "NOT_PAID"
        /\ voucher.isPostedToGL = FALSE
    BY DEF Init, NewDraft
  <1>3. ledger = <<>> /\ Len(ledger) = 0
    BY DEF Init
  <1>4. \A r \in Requests : IsOnRecord(req[r])
    BY DEF Init, IsOnRecord, Idle
  <1> QED
    BY <1>1, <1>2, <1>3, <1>4
    DEF OverlapInv, PostedIffBookedOnce, ReleasedByAnother,
        ProcessingWasInstructed

LEMMA OverlapStep == OverlapInv /\ [Next]_vars => OverlapInv'
  <1> SUFFICES ASSUME OverlapInv, [Next]_vars PROVE OverlapInv'
    OBVIOUS
  <1>0. TypeOK /\ PostedIffBookedOnce
    BY DEF OverlapInv
  <1>1. TypeOK'
    BY <1>0, StepType
  <1>2. PostedIffBookedOnce'
    <2>1. CASE ledger' = ledger /\ voucher'.isPostedToGL = voucher.isPostedToGL
      BY <1>0, <2>1 DEF PostedIffBookedOnce
    <2>2. ASSUME ledger = <<>>, voucher'.isPostedToGL = TRUE,
                 NEW entry \in Entry, ledger' = Append(ledger, entry)
          PROVE  PostedIffBookedOnce'
      <3>1. Len(ledger') = 1 /\ ledger' # <<>>
        BY <2>2
      <3> QED
        BY <2>2, <3>1 DEF PostedIffBookedOnce
    <2> QED
      BY <1>0, <2>1, <2>2, BooksStep
  <1>3. ReleasedByAnother' /\ ProcessingWasInstructed'
    BY ReleaseStep, ProcessingStep
  <1>4. ASSUME NEW q \in Requests PROVE IsOnRecord(req[q])'
    <2>1. CASE req'[q] = req[q]
      BY <2>1, OthersOnRecord
    <2>2. CASE req'[q] # req[q]
      <3>1. DOMAIN req = Requests
        BY <1>0 DEF TypeOK
      <3>2. PICK r \in Requests : Call(r) \/ Proceed(r)
        BY <2>2 DEF Next, vars
      <3>3. q = r
        BY <2>2, <3>1, <3>2
        DEF Call, Begin, UpdateDraftRead, SubmitRead, RecallRead,
            ApproveRead, RejectRead, ReturnRead, CancelRead, AttachRead,
            PostRead, InitiateRead, MarkPaidRead, UpdatePeriodRead, End,
            Proceed, UpdateDraftWrite, SubmitWrite, RecallWrite, ApproveWrite,
            RejectWrite, ReturnWrite, CancelWrite, AttachRow, AttachCount,
            PostWrite, InitiateGateway, InitiateWrite, MarkPaidWrite,
            UpdatePeriodWrite, Abort
      <3> QED
        BY <3>2, <3>3, CallOnRecord, ProceedOnRecord
    <2> QED
      BY <2>1, <2>2
  <1> QED
    BY <1>1, <1>2, <1>3, <1>4 DEF OverlapInv

(* The inductive invariant behind the theorems below.                      *)
THEOREM OverlapCorrect == Spec => []OverlapInv
  BY OverlapInit, OverlapStep, PTL DEF Spec

(* postToGl, however many posts, cancels and payments race: at most one    *)
(* journal entry, and isPostedToGL says exactly whether there is one.      *)
THEOREM BookedOnce == Spec => []PostedIffBookedOnce
  <1>1. OverlapInv => PostedIffBookedOnce
    BY DEF OverlapInv
  <1> QED
    BY <1>1, OverlapCorrect, PTL

(* approve is the only way out of review: an APPROVED or POSTED voucher,   *)
(* and every entry in the ledger, was finally approved by someone else     *)
(* than its maker, whatever stale copies were written back meanwhile.      *)
THEOREM NeverReleasedByItsMaker == Spec => []ReleasedByAnother
  <1>1. OverlapInv => ReleasedByAnother
    BY DEF OverlapInv
  <1> QED
    BY <1>1, OverlapCorrect, PTL

(* initiatePayment: PAYMENT_PROCESSING is never shown of a payment that no *)
(* gateway was told of.                                                    *)
THEOREM NoPhantomPayment == Spec => []ProcessingWasInstructed
  <1>1. OverlapInv => ProcessingWasInstructed
    BY DEF OverlapInv
  <1> QED
    BY <1>1, OverlapCorrect, PTL

(* No request, in whatever state the others are, takes an entry back from  *)
(* the ledger, changes it, or unlinks it from the voucher.                 *)
THEOREM LedgerIsAppendOnly == Spec => BooksAreAppendOnly
  <1>1. ASSUME TypeOK, [Next]_vars
        PROVE  [ /\ SubSeq(ledger', 1, Len(ledger)) = ledger
                 /\ voucher.isPostedToGL => voucher'.isPostedToGL ]_vars
    <2>0. ledger \in Seq(Entry)
      BY <1>1 DEF TypeOK
    <2>1. CASE ledger' = ledger /\ voucher'.isPostedToGL = voucher.isPostedToGL
      <3>1. SubSeq(ledger, 1, Len(ledger)) = ledger
        BY <2>0
      <3> QED
        BY <2>1, <3>1
    <2>2. ASSUME ledger = <<>>, voucher'.isPostedToGL = TRUE,
                 NEW entry \in Entry, ledger' = Append(ledger, entry)
          PROVE  /\ SubSeq(ledger', 1, Len(ledger)) = ledger
                 /\ voucher.isPostedToGL => voucher'.isPostedToGL
      <3>1. Len(ledger) = 0 /\ SubSeq(ledger', 1, 0) = <<>>
        BY <2>2
      <3> QED
        BY <2>2, <3>1
    <2> QED
      BY <1>1, <2>1, <2>2, BooksStep
  <1> QED
    BY <1>1, TypeCorrect, PTL DEF Spec, BooksAreAppendOnly

-----------------------------------------------------------------------------
(* One request at a time.                                                  *)

OneRequest == \A r, s \in Requests : r = s

(* What the request in flight worked out still follows from the rows.      *)
IsFresh(q) ==
    /\ q.pc = "update" => voucher.status \in Editable
    /\ q.pc = "submit" =>
         /\ voucher.status \in Editable
         /\ PendingSteps(voucher.chain) # {}
         /\ q.data = WorkflowStatusForLevel(NextLevel(voucher.chain))
    /\ q.pc = "recall" =>
         /\ voucher.status \in Awaiting
         /\ q.data = ResetChain(voucher.chain)
    /\ q.pc = "approve" =>
         /\ voucher.status \in Awaiting
         /\ \E u \in Users :
               /\ IsCurrentApprover(u)
               /\ u # voucher.createdBy
               /\ q.data.chain =
                    Decide(voucher.chain, "APPROVED", u, voucher.content)
         /\ PendingSteps(q.data.chain) = {} => q.data.status = "APPROVED"
         /\ PendingSteps(q.data.chain) # {} =>
              /\ q.data.status = "PARTIALLY_APPROVED"
              /\ q.data.workflowStatus =
                   WorkflowStatusForLevel(NextLevel(q.data.chain))
    /\ q.pc = "reject" =>
         /\ voucher.status \in Awaiting
         /\ \E u \in Users :
               q.data = Decide(voucher.chain, "REJECTED", u, voucher.content)
    /\ q.pc = "return" => voucher.status \in Awaiting
    /\ q.pc = "cancel" => voucher.status \notin {"POSTED", "PAID"}
    /\ q.pc = "attachRow" => q.data <= voucher.files + 1
    /\ q.pc = "attachCount" => q.data <= voucher.files
    /\ q.pc = "post" =>
         /\ voucher.status = "APPROVED"
         /\ period = "OPEN"
         /\ q.data.content = voucher.content
         /\ q.data.status = IF voucher.paymentStatus = "PAID" THEN "PAID"
                            ELSE "POSTED"
    /\ q.pc \in {"instruct", "instructed"} =>
         /\ voucher.paymentStatus # "PAID"
         /\ voucher.status \in {"APPROVED", "POSTED"}
    /\ q.pc = "instruct" => q.data = voucher.status
    /\ q.pc = "instructed" =>
         q.data.status \in {voucher.status, "FAILED_PAYMENT"}
    /\ q.pc = "markPaid" =>
         q.data = IF voucher.isPostedToGL THEN "PAID" ELSE voucher.status

(* A voucher in the ledger is out of the hands of its maker and approvers, *)
(* and POSTED is said only of one that is there.                           *)
BookedIsFinal ==
    /\ voucher.isPostedToGL =>
         voucher.status \in {"POSTED", "PAID", "FAILED_PAYMENT", "CANCELLED"}
    /\ voucher.status = "POSTED" => voucher.isPostedToGL

RowsAgree ==
    /\ ApprovalsCoverContent
    /\ HeaderAgreesWithRows
    /\ BookedAsItStands
    /\ PaidMeansPostedAndSettled
    /\ BookedIsFinal

SerialInv ==
    /\ OverlapInv
    /\ RowsAgree
    /\ \A r \in Requests : IsFresh(req[r])

-----------------------------------------------------------------------------
(* The chain.                                                              *)

(* nextPendingStep finds a pending step when there is one. *)
LEMMA PendingStepIsFound ==
    ASSUME NEW chain \in Seq(Step), PendingSteps(chain) # {}
    PROVE  NextPending(chain) \in PendingSteps(chain)
  <1>1. PendingSteps(chain) \subseteq Nat
    BY DEF PendingSteps
  <1>2. \E i \in PendingSteps(chain) : \A j \in PendingSteps(chain) : i <= j
    BY <1>1, LeastNumber
  <1> QED
    BY <1>2 DEF NextPending

AllPending(chain) == \A i \in DOMAIN chain : chain[i].status = "PENDING"

LEMMA PendingTogether ==
    ASSUME NEW a \in Seq(Step), NEW b \in Seq(Step),
           AllPending(a), AllPending(b)
    PROVE  a \o b \in Seq(Step) /\ AllPending(a \o b)
  <1>1. a \o b \in Seq(Step)
    OBVIOUS
  <1>2. ASSUME NEW i \in DOMAIN (a \o b)
        PROVE  (a \o b)[i].status = "PENDING"
    <2>1. CASE i <= Len(a)
      <3>1. i \in DOMAIN a /\ (a \o b)[i] = a[i]
        BY <1>2, <2>1
      <3> QED
        BY <3>1 DEF AllPending
    <2>2. CASE ~ (i <= Len(a))
      <3>1. (i - Len(a)) \in DOMAIN b /\ (a \o b)[i] = b[i - Len(a)]
        BY <1>2, <2>2
      <3> QED
        BY <3>1 DEF AllPending
    <2> QED
      BY <2>1, <2>2
  <1> QED
    BY <1>1, <1>2 DEF AllPending

LEMMA FreshChainsArePending ==
    ASSUME NEW c \in Contents
    PROVE  AllPending(ResolveApprovalChain(c))
  <1>1. CASE c.approvalMatrix # <<>>
    BY <1>1 DEF ResolveApprovalChain, NewStep, AllPending
  <1>2. CASE c.approvalMatrix = <<>>
    <2>1. ASSUME NEW level \in Nat, NEW role \in Roles
          PROVE  /\ <<NewStep(level, role)>> \in Seq(Step)
                 /\ AllPending(<<NewStep(level, role)>>)
      <3>1. NewStep(level, role) \in Step
        BY NewStepType
      <3> QED
        BY <3>1 DEF AllPending, NewStep
    <2>2. <<>> \in Seq(Step) /\ AllPending(<<>>)
      BY DEF AllPending
    <2> DEFINE first == <<NewStep(1, "FINANCE")>>
               second == IF \/ c.totalAmount >= 250000
                            \/ c.voucherType = "TAX_REMITTANCE"
                         THEN <<NewStep(2, "ADMIN")>> ELSE <<>>
               third == IF \/ c.totalAmount >= 1000000
                           \/ c.paymentMethod = "GATEWAY"
                        THEN <<NewStep(3, "FINANCE")>> ELSE <<>>
    <2>3. ResolveApprovalChain(c) = (first \o second) \o third
      BY <1>2, SMT DEF ResolveApprovalChain
    <2>4. /\ first \in Seq(Step) /\ AllPending(first)
          /\ second \in Seq(Step) /\ AllPending(second)
          /\ third \in Seq(Step) /\ AllPending(third)
      <3>1. /\ second = <<NewStep(2, "ADMIN")>> \/ second = <<>>
            /\ third = <<NewStep(3, "FINANCE")>> \/ third = <<>>
        BY SMT
      <3>2. "FINANCE" \in Roles /\ "ADMIN" \in Roles
        BY DEF Roles
      <3> HIDE DEF second, third
      <3> QED
        BY <2>1, <2>2, <3>1, <3>2
    <2> HIDE DEF first, second, third
    <2>5. first \o second \in Seq(Step) /\ AllPending(first \o second)
      BY <2>4, PendingTogether
    <2> QED
      BY <2>3, <2>4, <2>5, PendingTogether
  <1> QED
    BY <1>1, <1>2

(* A decision falls on the level that is due, and on nothing else. *)
LEMMA DecideOutcome ==
    ASSUME NEW chain \in Seq(Step), NEW decision, NEW u, NEW c,
           NEW after, after = Decide(chain, decision, u, c)
    PROVE  /\ DOMAIN after = DOMAIN chain
           /\ \A i \in DOMAIN chain :
                 /\ after[i].level = chain[i].level
                 /\ after[i].role = chain[i].role
                 /\ chain[i].level = NextLevel(chain) =>
                      /\ after[i].status = decision
                      /\ after[i].actor = u
                      /\ after[i].seen = c
                 /\ chain[i].level # NextLevel(chain) => after[i] = chain[i]
  <1>1. \A i \in DOMAIN chain : chain[i] \in Step
    OBVIOUS
  <1>2. /\ DOMAIN after = DOMAIN chain
        /\ \A i \in DOMAIN chain :
              after[i] = IF chain[i].level = NextLevel(chain)
                         THEN [chain[i] EXCEPT !.status = decision,
                                               !.actor = u, !.seen = c]
                         ELSE chain[i]
    BY DEF Decide
  <1> QED
    BY <1>1, <1>2 DEF Step

(* Approving covers the level that was due, rejecting takes it out, and    *)
(* neither changes who may decide.                                         *)
LEMMA DecideCovers ==
    ASSUME TypeOK, ApprovalsCoverContent, NEW u \in Users,
           NEW decision \in {"APPROVED", "REJECTED"},
           decision = "APPROVED" =>
              IsCurrentApprover(u) /\ u # voucher.createdBy,
           voucher'.chain = Decide(voucher.chain, decision, u, voucher.content),
           voucher'.content = voucher.content,
           voucher'.createdBy = voucher.createdBy
    PROVE  ApprovalsCoverContent'
  <1> DEFINE chain == voucher.chain
             after == voucher'.chain
  <1>1. chain \in Seq(Step)
    BY DEF TypeOK, Voucher
  <1>2. /\ DOMAIN after = DOMAIN chain
        /\ \A i \in DOMAIN chain :
              /\ after[i].level = chain[i].level
              /\ after[i].role = chain[i].role
              /\ chain[i].level = NextLevel(chain) =>
                   /\ after[i].status = decision
                   /\ after[i].actor = u
                   /\ after[i].seen = voucher.content
              /\ chain[i].level # NextLevel(chain) => after[i] = chain[i]
    BY <1>1, DecideOutcome
  <1>3. ASSUME NEW i \in DOMAIN after, after[i].status = "APPROVED"
        PROVE  /\ after[i].seen = voucher'.content
               /\ after[i].actor # voucher'.createdBy
               /\ \E j \in DOMAIN after :
                     /\ after[j].level = after[i].level
                     /\ after[j].role = RoleOf[after[i].actor]
    <2>1. CASE chain[i].level = NextLevel(chain)
      <3>1. decision = "APPROVED"
        BY <1>2, <1>3, <2>1
      <3>2. /\ NextPending(chain) \in DOMAIN chain
            /\ chain[NextPending(chain)].role = RoleOf[u]
        BY <1>1, <3>1, PendingStepIsFound DEF IsCurrentApprover, PendingSteps
      <3>3. chain[NextPending(chain)].level = chain[i].level
        BY <2>1 DEF NextLevel
      <3> QED
        BY <1>2, <2>1, <3>1, <3>2, <3>3
    <2>2. CASE chain[i].level # NextLevel(chain)
      <3>1. after[i] = chain[i] /\ i \in DOMAIN chain
        BY <1>2, <2>2
      <3>2. /\ chain[i].seen = voucher.content
            /\ chain[i].actor # voucher.createdBy
            /\ \E j \in DOMAIN chain :
                  /\ chain[j].level = chain[i].level
                  /\ chain[j].role = RoleOf[chain[i].actor]
        BY <1>3, <3>1 DEF ApprovalsCoverContent
      <3> QED
        BY <1>2, <3>1, <3>2
    <2> QED
      BY <2>1, <2>2
  <1> HIDE DEF chain, after
  <1> QED
    BY <1>3 DEF ApprovalsCoverContent, after

(* A chain on which everything is pending has nothing to cover. *)
LEMMA PendingCovers ==
    ASSUME AllPending(voucher'.chain)
    PROVE  ApprovalsCoverContent'
  BY DEF ApprovalsCoverContent, AllPending

LEMMA SameChainCovers ==
    ASSUME ApprovalsCoverContent, voucher'.chain = voucher.chain,
           voucher'.content = voucher.content,
           voucher'.createdBy = voucher.createdBy
    PROVE  ApprovalsCoverContent'
  BY DEF ApprovalsCoverContent

-----------------------------------------------------------------------------
(* A request that begins, and one that ends.                               *)

LEMMA BeginSerial ==
    ASSUME OneRequest, SerialInv, NEW r \in Requests, NEW operation, NEW data,
           Begin(r, operation, data), OverlapInv',
           IsFresh([pc |-> operation, data |-> data])
    PROVE  SerialInv'
  <1>1. /\ req'[r] = [pc |-> operation, data |-> data]
        /\ voucher' = voucher /\ period' = period /\ ledger' = ledger
    BY DEF Begin, SerialInv, OverlapInv, TypeOK
  <1>2. RowsAgree'
    BY <1>1
    DEF SerialInv, RowsAgree, ApprovalsCoverContent,
        HeaderAgreesWithRows, BookedAsItStands, PaidMeansPostedAndSettled,
        BookedIsFinal
  <1>3. IsFresh(req[r])'
    BY <1>1 DEF IsFresh, IsCurrentApprover
  <1> QED
    BY <1>2, <1>3 DEF SerialInv, OneRequest

LEMMA EndSerial ==
    ASSUME OneRequest, NEW r \in Requests, req'[r] = Idle,
           OverlapInv', RowsAgree'
    PROVE  SerialInv'
  <1>1. IsFresh(req[r])'
    BY DEF IsFresh, Idle
  <1> QED
    BY <1>1 DEF SerialInv, OneRequest

LEMMA CallSerial ==
    ASSUME OneRequest, SerialInv, NEW r \in Requests, Call(r)
    PROVE  SerialInv'
  <1> USE DEF IsFresh
  <1>0. TypeOK /\ OverlapInv'
    BY OverlapStep DEF SerialInv, OverlapInv, Next
  <1>1. ASSUME NEW u \in Users, UpdateDraftRead(r, u) PROVE SerialInv'
    BY <1>0, <1>1, BeginSerial DEF UpdateDraftRead
  <1>2. ASSUME NEW u \in Users, SubmitRead(r, u) PROVE SerialInv'
    BY <1>0, <1>2, BeginSerial DEF SubmitRead
  <1>3. ASSUME NEW u \in Users, RecallRead(r, u) PROVE SerialInv'
    BY <1>0, <1>3, BeginSerial DEF RecallRead
  <1>4. ASSUME NEW u \in Users, ApproveRead(r, u) PROVE SerialInv'
    <2> DEFINE chain == Decide(voucher.chain, "APPROVED", u, voucher.content)
    <2>1. PICK data :
             /\ Begin(r, "approve", data)
             /\ data.chain = chain
             /\ PendingSteps(chain) = {} => data.status = "APPROVED"
             /\ PendingSteps(chain) # {} =>
                  /\ data.status = "PARTIALLY_APPROVED"
                  /\ data.workflowStatus =
                       WorkflowStatusForLevel(NextLevel(chain))
      BY <1>4 DEF ApproveRead
    <2>2. /\ voucher.status \in Awaiting
          /\ IsCurrentApprover(u) /\ u # voucher.createdBy
      BY <1>4 DEF ApproveRead, IsCurrentApprover
    <2>3. IsFresh([pc |-> "approve", data |-> data])
      BY <2>1, <2>2
    <2> QED
      BY <1>0, <2>1, <2>3, BeginSerial
  <1>5. ASSUME NEW u \in Users, RejectRead(r, u) PROVE SerialInv'
    BY <1>0, <1>5, BeginSerial DEF RejectRead, IsCurrentApprover
  <1>6. CASE ReturnRead(r)
    BY <1>0, <1>6, BeginSerial DEF ReturnRead
  <1>7. CASE CancelRead(r)
    BY <1>0, <1>7, BeginSerial DEF CancelRead
  <1>8. CASE AttachRead(r)
    <2>1. voucher.attachmentCount + 1 <= voucher.files + 1
      BY <1>0
      DEF SerialInv, RowsAgree, HeaderAgreesWithRows, TypeOK, Voucher
    <2> QED
      BY <1>0, <1>8, <2>1, BeginSerial DEF AttachRead
  <1>9. CASE PostRead(r)
    BY <1>0, <1>9, BeginSerial DEF PostRead
  <1>10. CASE InitiateRead(r)
    BY <1>0, <1>10, BeginSerial DEF InitiateRead
  <1>11. CASE MarkPaidRead(r)
    BY <1>0, <1>11, BeginSerial DEF MarkPaidRead
  <1>12. CASE UpdatePeriodRead(r)
    BY <1>0, <1>12, BeginSerial DEF UpdatePeriodRead
  <1> QED
    BY <1>1, <1>2, <1>3, <1>4, <1>5, <1>6, <1>7, <1>8, <1>9, <1>10, <1>11,
       <1>12
    DEF Call

-----------------------------------------------------------------------------
(* A request that writes.                                                  *)

(* What a write may rely on: the rows as the request saw them.             *)
LEMMA WriteFacts ==
    ASSUME SerialInv, NEW r \in Requests
    PROVE  /\ voucher \in Voucher /\ TypeOK
           /\ IsFresh(req[r]) /\ RequestOK(req[r])
           /\ ApprovalsCoverContent /\ HeaderAgreesWithRows
           /\ BookedAsItStands /\ PaidMeansPostedAndSettled /\ BookedIsFinal
           /\ voucher.isPostedToGL <=> ledger # <<>>
  BY DEF SerialInv, OverlapInv, RowsAgree, TypeOK, PostedIffBookedOnce

LEMMA UpdateDraftSerial ==
    ASSUME SerialInv, NEW r \in Requests, UpdateDraftWrite(r)
    PROVE  RowsAgree'
  <1> DEFINE new == req[r].data
  <1>1. /\ voucher \in Voucher /\ IsFresh(req[r])
        /\ RequestOK(req[r]) /\ req[r].pc = "update"
        /\ PaidMeansPostedAndSettled /\ BookedIsFinal
        /\ voucher.isPostedToGL <=> ledger # <<>>
    BY WriteFacts DEF UpdateDraftWrite, End
  <1>2. new.content \in Contents /\ new.files \in Nat
    BY <1>1, BoundsAssumption DEF RequestOK, Idle
  <1>3. /\ voucher'.status = voucher.status
        /\ voucher'.paymentStatus = voucher.paymentStatus
        /\ voucher'.isPostedToGL = voucher.isPostedToGL
        /\ voucher'.chain = ResolveApprovalChain(new.content)
        /\ voucher'.files = new.files /\ voucher'.attachmentCount = new.files
        /\ ledger' = ledger
    BY <1>1 DEF UpdateDraftWrite, Voucher, headerOnly
  <1>4. voucher.status \in Editable /\ ledger = <<>>
    BY <1>1 DEF IsFresh, BookedIsFinal, Editable
  <1>5. ApprovalsCoverContent'
    BY <1>2, <1>3, FreshChainsArePending, PendingCovers
  <1>6. HeaderAgreesWithRows'
    BY <1>2, <1>3, <1>4 DEF HeaderAgreesWithRows, Editable, Awaiting
  <1>7. BookedAsItStands'
    BY <1>3, <1>4 DEF BookedAsItStands
  <1>8. PaidMeansPostedAndSettled' /\ BookedIsFinal'
    BY <1>1, <1>3 DEF PaidMeansPostedAndSettled, BookedIsFinal
  <1> QED
    BY <1>5, <1>6, <1>7, <1>8 DEF RowsAgree

LEMMA BooksStay ==
    ASSUME BookedAsItStands, ledger' = ledger,
           voucher'.content = voucher.content
    PROVE  BookedAsItStands'
  BY DEF BookedAsItStands

(* submit, return and cancel leave the chain and the books alone. *)
LEMMA StatusSerial ==
    ASSUME SerialInv, NEW r \in Requests,
           SubmitWrite(r) \/ ReturnWrite(r) \/ CancelWrite(r)
    PROVE  RowsAgree'
  <1>1. /\ voucher \in Voucher /\ IsFresh(req[r])
        /\ ApprovalsCoverContent /\ HeaderAgreesWithRows
        /\ BookedAsItStands /\ PaidMeansPostedAndSettled /\ BookedIsFinal
    BY WriteFacts
  <1>2. /\ voucher'.paymentStatus = voucher.paymentStatus
        /\ voucher'.isPostedToGL = voucher.isPostedToGL
        /\ voucher'.content = voucher.content
        /\ voucher'.chain = voucher.chain
        /\ voucher'.createdBy = voucher.createdBy
        /\ voucher'.files = voucher.files
        /\ voucher'.attachmentCount = voucher.attachmentCount
        /\ ledger' = ledger
    BY <1>1 DEF SubmitWrite, ReturnWrite, CancelWrite, Voucher, headerOnly
  <1>3. ApprovalsCoverContent' /\ BookedAsItStands'
    BY <1>1, <1>2, SameChainCovers, BooksStay
  <1>4. CASE SubmitWrite(r)
    <2>1. /\ voucher'.status = "PENDING_APPROVAL"
          /\ voucher.status \in Editable
          /\ PendingSteps(voucher'.chain) # {}
          /\ voucher'.workflowStatus =
               WorkflowStatusForLevel(NextLevel(voucher'.chain))
      BY <1>1, <1>2, <1>4 DEF SubmitWrite, End, IsFresh, Voucher
    <2> QED
      BY <1>1, <1>2, <1>3, <2>1
      DEF RowsAgree, HeaderAgreesWithRows, PaidMeansPostedAndSettled,
          BookedIsFinal, Editable, Awaiting
  <1>5. CASE ReturnWrite(r)
    <2>1. voucher'.status = "DRAFT" /\ voucher.status \in Awaiting
      BY <1>1, <1>5 DEF ReturnWrite, End, IsFresh, Voucher
    <2> QED
      BY <1>1, <1>2, <1>3, <2>1
      DEF RowsAgree, HeaderAgreesWithRows, PaidMeansPostedAndSettled,
          BookedIsFinal, Editable, Awaiting
  <1>6. CASE CancelWrite(r)
    <2>1. /\ voucher'.status = "CANCELLED"
          /\ voucher.status \notin {"POSTED", "PAID"}
      BY <1>1, <1>6 DEF CancelWrite, End, IsFresh, Voucher
    <2> QED
      BY <1>1, <1>2, <1>3, <2>1
      DEF RowsAgree, HeaderAgreesWithRows, PaidMeansPostedAndSettled,
          BookedIsFinal, Editable, Awaiting
  <1> QED
    BY <1>4, <1>5, <1>6

(* recall, approve and reject decide on the chain they saw. *)
LEMMA ChainSerial ==
    ASSUME SerialInv, NEW r \in Requests,
           RecallWrite(r) \/ ApproveWrite(r) \/ RejectWrite(r)
    PROVE  RowsAgree'
  <1>1. /\ voucher \in Voucher /\ TypeOK
        /\ IsFresh(req[r]) /\ RequestOK(req[r])
        /\ ApprovalsCoverContent /\ HeaderAgreesWithRows
        /\ BookedAsItStands /\ PaidMeansPostedAndSettled /\ BookedIsFinal
    BY WriteFacts
  <1>2. /\ voucher'.paymentStatus = voucher.paymentStatus
        /\ voucher'.isPostedToGL = voucher.isPostedToGL
        /\ voucher'.content = voucher.content
        /\ voucher'.createdBy = voucher.createdBy
        /\ voucher'.files = voucher.files
        /\ voucher'.attachmentCount = voucher.attachmentCount
        /\ ledger' = ledger
    BY <1>1 DEF RecallWrite, ApproveWrite, RejectWrite, Voucher, headerOnly
  <1>3. BookedAsItStands' /\ voucher.status \in Awaiting
    BY <1>1, <1>2, BooksStay
    DEF RecallWrite, ApproveWrite, RejectWrite, End, IsFresh
  <1>4. ASSUME ApprovalsCoverContent', voucher'.status \in Editable
        PROVE  RowsAgree'
    BY <1>1, <1>2, <1>3, <1>4
    DEF RowsAgree, HeaderAgreesWithRows, PaidMeansPostedAndSettled,
        BookedIsFinal, Editable, Awaiting
  <1>5. CASE RecallWrite(r)
    <2>1. /\ voucher'.status \in Editable
          /\ voucher'.chain = ResetChain(voucher.chain)
      BY <1>1, <1>5 DEF RecallWrite, End, IsFresh, Voucher, Editable
    <2>2. AllPending(voucher'.chain)
      BY <2>1 DEF ResetChain, NewStep, AllPending
    <2> QED
      BY <1>4, <2>1, <2>2, PendingCovers
  <1>6. CASE RejectWrite(r)
    <2>1. voucher'.status \in Editable /\ voucher'.chain = req[r].data
      BY <1>1, <1>6 DEF RejectWrite, Voucher, Editable
    <2>2. PICK u \in Users :
             req[r].data = Decide(voucher.chain, "REJECTED", u, voucher.content)
      BY <1>1, <1>6 DEF RejectWrite, End, IsFresh
    <2> QED
      BY <1>1, <1>2, <1>4, <2>1, <2>2, DecideCovers
  <1>7. CASE ApproveWrite(r)
    <2> DEFINE new == req[r].data
    <2>1. /\ voucher'.chain = new.chain
          /\ voucher'.status = new.status
          /\ voucher'.workflowStatus = new.workflowStatus
      BY <1>1, <1>7 DEF ApproveWrite, Voucher
    <2>2. /\ \E u \in Users :
               /\ IsCurrentApprover(u)
               /\ u # voucher.createdBy
               /\ new.chain =
                    Decide(voucher.chain, "APPROVED", u, voucher.content)
          /\ PendingSteps(new.chain) = {} => new.status = "APPROVED"
          /\ PendingSteps(new.chain) # {} =>
               /\ new.status = "PARTIALLY_APPROVED"
               /\ new.workflowStatus =
                    WorkflowStatusForLevel(NextLevel(new.chain))
      BY <1>1, <1>7 DEF ApproveWrite, End, IsFresh
    <2> HIDE DEF new
    <2>3. ApprovalsCoverContent'
      BY <1>1, <1>2, <2>1, <2>2, DecideCovers
    <2>4. HeaderAgreesWithRows'
      BY <1>1, <1>2, <2>1, <2>2 DEF HeaderAgreesWithRows, Awaiting
    <2>5. voucher'.status \in {"APPROVED", "PARTIALLY_APPROVED"}
      BY <2>1, <2>2
    <2>6. PaidMeansPostedAndSettled' /\ BookedIsFinal'
      BY <1>1, <1>2, <1>3, <2>5
      DEF PaidMeansPostedAndSettled, BookedIsFinal, Awaiting
    <2> QED
      BY <1>3, <2>3, <2>4, <2>6 DEF RowsAgree
  <1> QED
    BY <1>5, <1>6, <1>7

LEMMA AttachSerial ==
    ASSUME SerialInv, NEW r \in Requests, AttachRow(r) \/ AttachCount(r)
    PROVE  RowsAgree'
  <1>1. /\ voucher \in Voucher /\ IsFresh(req[r]) /\ RequestOK(req[r])
        /\ ApprovalsCoverContent /\ HeaderAgreesWithRows
        /\ BookedAsItStands /\ PaidMeansPostedAndSettled /\ BookedIsFinal
    BY WriteFacts
  <1>2. /\ voucher'.status = voucher.status
        /\ voucher'.workflowStatus = voucher.workflowStatus
        /\ voucher'.paymentStatus = voucher.paymentStatus
        /\ voucher'.isPostedToGL = voucher.isPostedToGL
        /\ voucher'.content = voucher.content
        /\ voucher'.chain = voucher.chain
        /\ voucher'.createdBy = voucher.createdBy
        /\ ledger' = ledger
    BY <1>1 DEF AttachRow, AttachCount, Voucher, headerOnly
  <1>3. voucher.files \in Nat /\ voucher.attachmentCount \in Nat
    BY <1>1 DEF Voucher
  <1>4. voucher'.attachmentCount <= voucher'.files
    <2>1. CASE AttachRow(r)
      <3>1. /\ voucher'.attachmentCount = voucher.attachmentCount
            /\ voucher'.files = voucher.files + 1
        BY <1>1, <2>1 DEF AttachRow, Voucher
      <3> QED
        BY <1>1, <1>3, <3>1 DEF HeaderAgreesWithRows
    <2>2. CASE AttachCount(r)
      <3>1. /\ voucher'.attachmentCount = req[r].data
            /\ voucher'.files = voucher.files
            /\ req[r].data <= voucher.files
        BY <1>1, <2>2 DEF AttachCount, End, IsFresh, Voucher
      <3> QED
        BY <3>1
    <2> QED
      BY <2>1, <2>2
  <1>5. ApprovalsCoverContent' /\ BookedAsItStands'
    BY <1>1, <1>2, SameChainCovers, BooksStay
  <1> QED
    BY <1>1, <1>2, <1>4, <1>5
    DEF RowsAgree, HeaderAgreesWithRows, PaidMeansPostedAndSettled,
        BookedIsFinal

LEMMA PostSerial ==
    ASSUME SerialInv, NEW r \in Requests, PostWrite(r)
    PROVE  RowsAgree'
  <1>1. /\ voucher \in Voucher /\ IsFresh(req[r])
        /\ ApprovalsCoverContent /\ HeaderAgreesWithRows
    BY WriteFacts
  <1>2. /\ voucher'.status = req[r].data.status
        /\ voucher'.isPostedToGL = TRUE
        /\ voucher'.workflowStatus = voucher.workflowStatus
        /\ voucher'.paymentStatus = voucher.paymentStatus
        /\ voucher'.content = voucher.content
        /\ voucher'.chain = voucher.chain
        /\ voucher'.createdBy = voucher.createdBy
        /\ voucher'.files = voucher.files
        /\ voucher'.attachmentCount = voucher.attachmentCount
    BY <1>1 DEF PostWrite, Voucher
  <1>3. /\ voucher.status = "APPROVED"
        /\ period = "OPEN"
        /\ req[r].data.content = voucher.content
        /\ req[r].data.status = IF voucher.paymentStatus = "PAID" THEN "PAID"
                                ELSE "POSTED"
    BY <1>1 DEF PostWrite, End, IsFresh
  <1>4. BookedAsItStands'
    <2>1. ledger' = <<[content |-> voucher'.content, period |-> "OPEN"]>>
      BY <1>2, <1>3 DEF PostWrite, ReferenceIsFree
    <2> QED
      BY <2>1 DEF BookedAsItStands
  <1>5. ApprovalsCoverContent'
    BY <1>1, <1>2, SameChainCovers
  <1> QED
    BY <1>1, <1>2, <1>3, <1>4, <1>5
    DEF RowsAgree, HeaderAgreesWithRows, PaidMeansPostedAndSettled,
        BookedIsFinal, Awaiting

LEMMA PaymentSerial ==
    ASSUME SerialInv, NEW r \in Requests, InitiateWrite(r) \/ MarkPaidWrite(r)
    PROVE  RowsAgree'
  <1>1. /\ voucher \in Voucher /\ IsFresh(req[r]) /\ RequestOK(req[r])
        /\ ApprovalsCoverContent /\ HeaderAgreesWithRows
        /\ BookedAsItStands /\ PaidMeansPostedAndSettled /\ BookedIsFinal
    BY WriteFacts
  <1>2. /\ voucher'.workflowStatus = voucher.workflowStatus
        /\ voucher'.isPostedToGL = voucher.isPostedToGL
        /\ voucher'.content = voucher.content
        /\ voucher'.chain = voucher.chain
        /\ voucher'.createdBy = voucher.createdBy
        /\ voucher'.files = voucher.files
        /\ voucher'.attachmentCount = voucher.attachmentCount
        /\ ledger' = ledger
    BY <1>1 DEF InitiateWrite, MarkPaidWrite, Voucher, headerOnly
  <1>3. ApprovalsCoverContent' /\ BookedAsItStands'
    BY <1>1, <1>2, SameChainCovers, BooksStay
  <1>4. CASE InitiateWrite(r)
    <2>1. /\ voucher'.paymentStatus \in {"PAYMENT_PROCESSING", "FAILED"}
          /\ voucher'.status \in {voucher.status, "FAILED_PAYMENT"}
          /\ voucher.status \in {"APPROVED", "POSTED"}
      BY <1>1, <1>4
      DEF InitiateWrite, End, IsFresh, RequestOK, Idle, Voucher
    <2> QED
      BY <1>1, <1>2, <1>3, <2>1
      DEF RowsAgree, HeaderAgreesWithRows, PaidMeansPostedAndSettled,
          BookedIsFinal, Awaiting
  <1>5. CASE MarkPaidWrite(r)
    <2>1. /\ voucher'.paymentStatus = "PAID"
          /\ voucher'.status = IF voucher.isPostedToGL THEN "PAID"
                               ELSE voucher.status
      BY <1>1, <1>5 DEF MarkPaidWrite, End, IsFresh, Voucher
    <2> QED
      BY <1>1, <1>2, <1>3, <2>1
      DEF RowsAgree, HeaderAgreesWithRows, PaidMeansPostedAndSettled,
          BookedIsFinal, Awaiting
  <1> QED
    BY <1>4, <1>5

(* Steps after which the rows are what they were. *)
LEMMA SameRows ==
    ASSUME RowsAgree, voucher' = voucher, ledger' = ledger
    PROVE  RowsAgree'
  BY DEF RowsAgree, ApprovalsCoverContent, HeaderAgreesWithRows,
         BookedAsItStands, PaidMeansPostedAndSettled, BookedIsFinal

LEMMA ProceedSerial ==
    ASSUME OneRequest, SerialInv, NEW r \in Requests, Proceed(r), OverlapInv'
    PROVE  SerialInv'
  <1>0. /\ DOMAIN req = Requests /\ RowsAgree /\ voucher \in Voucher
        /\ IsFresh(req[r])
    BY DEF SerialInv, OverlapInv, TypeOK
  <1>1. CASE AttachRow(r)
    <2>1. /\ req'[r] = [pc |-> "attachCount", data |-> req[r].data]
          /\ voucher'.files = voucher.files + 1
          /\ req[r].data <= voucher.files + 1
      BY <1>0, <1>1 DEF AttachRow, Voucher, IsFresh
    <2>2. IsFresh(req[r])'
      BY <2>1 DEF IsFresh
    <2> QED
      BY <1>1, <2>2, AttachSerial DEF SerialInv, OneRequest
  <1>2. CASE InitiateGateway(r)
    <2>1. /\ voucher' = voucher /\ ledger' = ledger
          /\ req[r].pc = "instruct"
      BY <1>2 DEF InitiateGateway
    <2>2. /\ req'[r].pc = "instructed"
          /\ req'[r].data.status \in {req[r].data, "FAILED_PAYMENT"}
      BY <1>0, <1>2 DEF InitiateGateway
    <2>3. IsFresh(req[r])'
      BY <1>0, <2>1, <2>2 DEF IsFresh
    <2> QED
      BY <1>0, <2>1, <2>3, SameRows DEF SerialInv, OneRequest
  <1>3. CASE ~ AttachRow(r) /\ ~ InitiateGateway(r)
    <2>1. req'[r] = Idle
      BY <1>0, <1>3
      DEF Proceed, End, UpdateDraftWrite, SubmitWrite, RecallWrite,
          ApproveWrite, RejectWrite, ReturnWrite, CancelWrite, AttachCount,
          PostWrite, InitiateWrite, MarkPaidWrite, UpdatePeriodWrite, Abort
    <2>2. CASE UpdatePeriodWrite(r) \/ Abort(r)
      <3>1. voucher' = voucher /\ ledger' = ledger
        BY <2>2 DEF UpdatePeriodWrite, Abort
      <3> QED
        BY <1>0, <2>1, <3>1, SameRows, EndSerial
    <2>3. CASE ~ UpdatePeriodWrite(r) /\ ~ Abort(r)
      <3>1. RowsAgree'
        BY <1>3, <2>3, UpdateDraftSerial, StatusSerial, ChainSerial,
           AttachSerial, PostSerial, PaymentSerial
        DEF Proceed
      <3> QED
        BY <2>1, <3>1, EndSerial
    <2> QED
      BY <2>2, <2>3
  <1> QED
    BY <1>1, <1>2, <1>3

LEMMA SerialStep ==
    ASSUME OneRequest, SerialInv, [Next]_vars
    PROVE  SerialInv'
  <1>1. OverlapInv'
    BY OverlapStep DEF SerialInv
  <1>2. CASE Next
    BY <1>1, <1>2, CallSerial, ProceedSerial DEF Next
  <1>3. CASE UNCHANGED vars
    <2>1. /\ voucher' = voucher /\ ledger' = ledger
          /\ period' = period /\ req' = req
      BY <1>3 DEF vars
    <2>2. RowsAgree'
      BY <2>1, SameRows DEF SerialInv
    <2>3. ASSUME NEW r \in Requests PROVE IsFresh(req[r])'
      BY <2>1 DEF SerialInv, IsFresh, IsCurrentApprover
    <2> QED
      BY <1>1, <2>2, <2>3 DEF SerialInv
  <1> QED
    BY <1>2, <1>3

LEMMA SerialInit == Init => SerialInv
  <1> SUFFICES ASSUME Init PROVE SerialInv
    OBVIOUS
  <1>1. OverlapInv
    BY OverlapInit
  <1>2. PICK u \in Users, c \in Contents, n \in 0..MaxFiles :
           voucher = NewDraft(u, c, n)
    BY DEF Init
  <1>3. /\ voucher.status = "DRAFT"
        /\ voucher.isPostedToGL = FALSE
        /\ voucher.chain = ResolveApprovalChain(c)
        /\ voucher.files = n /\ voucher.attachmentCount = n
        /\ ledger = <<>>
    BY <1>2 DEF NewDraft, Init
  <1>4. AllPending(voucher.chain)
    BY <1>3, FreshChainsArePending
  <1>5. ApprovalsCoverContent
    BY <1>4 DEF ApprovalsCoverContent, AllPending
  <1>6. HeaderAgreesWithRows
    BY <1>3, BoundsAssumption DEF HeaderAgreesWithRows, Awaiting
  <1>7. BookedAsItStands /\ PaidMeansPostedAndSettled /\ BookedIsFinal
    BY <1>3 DEF BookedAsItStands, PaidMeansPostedAndSettled, BookedIsFinal
  <1>8. \A r \in Requests : IsFresh(req[r])
    BY DEF Init, Idle, IsFresh
  <1> QED
    BY <1>1, <1>5, <1>6, <1>7, <1>8 DEF SerialInv, RowsAgree

(* The inductive invariant behind the theorems below.                      *)
THEOREM OneRequestKeepsTheVoucher ==
    ASSUME OneRequest
    PROVE  Spec => []SerialInv
  <1>1. SerialInv /\ [Next]_vars => SerialInv'
    BY SerialStep
  <1> QED
    BY <1>1, SerialInit, PTL DEF Spec

(* One request at a time, an approval on the chain is of the present       *)
(* content, by somebody of that level's role who is not the maker:         *)
(* updateDraft voids what was decided on the old content, and no decision  *)
(* is written back over it.                                                *)
THEOREM ApprovalsStandOnContent ==
    ASSUME OneRequest
    PROVE  Spec => []ApprovalsCoverContent
  <1>1. SerialInv => ApprovalsCoverContent
    BY DEF SerialInv, RowsAgree
  <1> QED
    BY <1>1, OneRequestKeepsTheVoucher, PTL

(* One request at a time, status, workflow status and chain agree, and no  *)
(* more attachments are counted than there are, even when addAttachment    *)
(* dies between its row and its count.                                     *)
THEOREM HeaderIsTrue ==
    ASSUME OneRequest
    PROVE  Spec => []HeaderAgreesWithRows
  <1>1. SerialInv => HeaderAgreesWithRows
    BY DEF SerialInv, RowsAgree
  <1> QED
    BY <1>1, OneRequestKeepsTheVoucher, PTL

(* One request at a time, postToGl books the voucher as it then is, in an  *)
(* open period, and no handler rewrites it afterwards.                     *)
THEOREM EntryIsTheVoucher ==
    ASSUME OneRequest
    PROVE  Spec => []BookedAsItStands
  <1>1. SerialInv => BookedAsItStands
    BY DEF SerialInv, RowsAgree
  <1> QED
    BY <1>1, OneRequestKeepsTheVoucher, PTL

(* One request at a time, a voucher is PAID exactly when it is posted and  *)
(* its payment confirmed: postToGl and markPaid may come in either order.  *)
THEOREM PaidIsPostedAndSettled ==
    ASSUME OneRequest
    PROVE  Spec => []PaidMeansPostedAndSettled
  <1>1. SerialInv => PaidMeansPostedAndSettled
    BY DEF SerialInv, RowsAgree
  <1> QED
    BY <1>1, OneRequestKeepsTheVoucher, PTL

-----------------------------------------------------------------------------
(* What a step never does.                                                 *)

(* One request at a time, a payment that markPaid confirmed stays          *)
(* confirmed, and initiatePayment sends no instruction after it.           *)
THEOREM ConfirmedForGood ==
    ASSUME OneRequest
    PROVE  Spec => PaidOnce
  <1> DEFINE Kept == voucher.paymentStatus = "PAID" =>
                        /\ voucher'.paymentStatus = "PAID"
                        /\ instructions' = instructions
  <1>1. ASSUME SerialInv, [Next]_vars PROVE [Kept]_vars
    <2>1. ASSUME NEW r \in Requests, Call(r) PROVE Kept
      BY <2>1 DEF Call, Begin, UpdateDraftRead, SubmitRead, RecallRead,
                  ApproveRead, RejectRead, ReturnRead, CancelRead, AttachRead,
                  PostRead, InitiateRead, MarkPaidRead, UpdatePeriodRead
    <2>2. ASSUME NEW r \in Requests, Proceed(r) PROVE Kept
      <3>1. voucher \in Voucher /\ IsFresh(req[r])
        BY <1>1, WriteFacts
      <3>2. CASE InitiateGateway(r) \/ InitiateWrite(r)
        BY <3>1, <3>2 DEF InitiateGateway, InitiateWrite, End, IsFresh
      <3>3. CASE ~ InitiateGateway(r) /\ ~ InitiateWrite(r)
        BY <2>2, <3>1, <3>3
        DEF Proceed, UpdateDraftWrite, SubmitWrite, RecallWrite,
            ApproveWrite, RejectWrite, ReturnWrite, CancelWrite, AttachRow,
            AttachCount, PostWrite, MarkPaidWrite, UpdatePeriodWrite, Abort,
            headerOnly, Voucher
      <3> QED
        BY <3>2, <3>3
    <2> QED
      BY <1>1, <2>1, <2>2 DEF Next
  <1>2. Spec => [][Next]_vars
    BY DEF Spec
  <1> QED
    BY <1>1, <1>2, OneRequestKeepsTheVoucher, PTL DEF PaidOnce
-----------------------------------------------------------------------------
(* The refinement of ControlledDocument.                                   *)

(* The stage of a voucher, before and after a step. *)
LEMMA StageIs ==
    ASSUME voucher.isPostedToGL \in BOOLEAN
    PROVE  /\ voucher.isPostedToGL => Stage = "booked"
           /\ ~ voucher.isPostedToGL =>
                /\ voucher.status = "CANCELLED" => Stage = "dropped"
                /\ voucher.status \in Editable => Stage = "editable"
                /\ voucher.status \in Awaiting => Stage = "review"
                /\ voucher.status \in {"APPROVED", "FAILED_PAYMENT"} =>
                      Stage = "released"
  BY DEF Stage, Editable, Awaiting

LEMMA StageBecomes ==
    ASSUME voucher'.isPostedToGL \in BOOLEAN
    PROVE  /\ voucher'.isPostedToGL => Stage' = "booked"
           /\ ~ voucher'.isPostedToGL =>
                /\ voucher'.status = "CANCELLED" => Stage' = "dropped"
                /\ voucher'.status \in Editable => Stage' = "editable"
                /\ voucher'.status \in Awaiting => Stage' = "review"
                /\ voucher'.status \in {"APPROVED", "FAILED_PAYMENT"} =>
                      Stage' = "released"
  BY DEF Stage, Editable, Awaiting

LEMMA DocumentInit == Init => Document!Init
  <1> SUFFICES ASSUME Init PROVE Document!Init
    OBVIOUS
  <1>1. /\ voucher.status = "DRAFT" /\ voucher.isPostedToGL = FALSE
        /\ voucher.content \in Contents
        /\ ledger = <<>>
    BY DEF Init, NewDraft
  <1>2. Stage = "editable"
    BY <1>1, StageIs DEF Editable
  <1> QED
    BY <1>1, <1>2 DEF Document!Init

(* A step that keeps stage, content and entry is none of the document's.   *)
LEMMA DocumentStays ==
    ASSUME Stage' = Stage, voucher'.content = voucher.content,
           ledger' = ledger
    PROVE  UNCHANGED Document!docVars
  BY DEF Document!docVars

LEMMA RowStaysStage ==
    ASSUME voucher \in Voucher, voucher' \in Voucher,
           voucher'.isPostedToGL = voucher.isPostedToGL,
           voucher'.status = voucher.status
    PROVE  Stage' = Stage
  BY DEF Stage

(* submit, the decisions and cancel move the document on; once it is       *)
(* booked they do nothing to it.                                           *)
LEMMA DecisionSteps ==
    ASSUME SerialInv, TypeOK', NEW r \in Requests,
           \/ SubmitWrite(r) \/ RecallWrite(r) \/ ApproveWrite(r)
           \/ RejectWrite(r) \/ ReturnWrite(r) \/ CancelWrite(r)
    PROVE  Document!Next \/ UNCHANGED Document!docVars
  <1>1. /\ voucher \in Voucher /\ IsFresh(req[r]) /\ BookedIsFinal
    BY WriteFacts
  <1>2. voucher.isPostedToGL \in BOOLEAN /\ voucher'.isPostedToGL \in BOOLEAN
    BY <1>1 DEF TypeOK, Voucher
  <1>3. /\ voucher'.isPostedToGL = voucher.isPostedToGL
        /\ voucher'.content = voucher.content
        /\ ledger' = ledger
    BY <1>1 DEF SubmitWrite, RecallWrite, ApproveWrite, RejectWrite,
                ReturnWrite, CancelWrite, Voucher, headerOnly
  <1>4. CASE SubmitWrite(r)
    <2>1. /\ voucher.status \in Editable /\ voucher'.status \in Awaiting
          /\ ~ voucher.isPostedToGL
      BY <1>1, <1>4
      DEF SubmitWrite, End, IsFresh, Voucher, Editable, Awaiting, BookedIsFinal
    <2>2. Stage = "editable" /\ Stage' = "review"
      BY <1>2, <1>3, <2>1, StageIs, StageBecomes
    <2> QED
      BY <1>3, <2>2 DEF Document!Next, Document!Submit
  <1>5. CASE RecallWrite(r) \/ RejectWrite(r) \/ ReturnWrite(r)
    <2>1. /\ voucher.status \in Awaiting /\ voucher'.status \in Editable
          /\ ~ voucher.isPostedToGL
      BY <1>1, <1>5
      DEF RecallWrite, RejectWrite, ReturnWrite, End, IsFresh, Voucher,
          Editable, Awaiting, BookedIsFinal
    <2>2. Stage = "review" /\ Stage' = "editable"
      BY <1>2, <1>3, <2>1, StageIs, StageBecomes
    <2> QED
      BY <1>3, <2>2 DEF Document!Next, Document!HandBack
  <1>6. CASE ApproveWrite(r)
    <2>1. voucher.status \in Awaiting /\ ~ voucher.isPostedToGL
      BY <1>1, <1>6 DEF ApproveWrite, End, IsFresh, Awaiting, BookedIsFinal
    <2>2. voucher'.status \in {"APPROVED", "PARTIALLY_APPROVED"}
      BY <1>1, <1>6 DEF ApproveWrite, End, IsFresh, Voucher
    <2>3. Stage = "review" /\ Stage' \in {"released", "review"}
      BY <1>2, <1>3, <2>1, <2>2, StageIs, StageBecomes DEF Awaiting
    <2> QED
      BY <1>3, <2>3, DocumentStays DEF Document!Next, Document!Release
  <1>7. CASE CancelWrite(r)
    <2>1. /\ voucher.status \notin {"POSTED", "PAID"}
          /\ voucher'.status = "CANCELLED"
      BY <1>1, <1>7 DEF CancelWrite, End, IsFresh, Voucher
    <2>2. CASE voucher.isPostedToGL
      <3>1. Stage = "booked" /\ Stage' = "booked"
        BY <1>2, <1>3, <2>2, StageIs, StageBecomes
      <3> QED
        BY <1>3, <3>1, DocumentStays
    <2>3. CASE ~ voucher.isPostedToGL
      <3>1. Stage' = "dropped"
        BY <1>2, <1>3, <2>1, <2>3, StageBecomes
      <3>2. Stage \in {"editable", "review", "released", "dropped"}
        BY <2>3 DEF Stage
      <3> QED
        BY <1>3, <3>1, <3>2, DocumentStays DEF Document!Next, Document!Drop
    <2> QED
      BY <2>2, <2>3
  <1> QED
    BY <1>4, <1>5, <1>6, <1>7

LEMMA EditSteps ==
    ASSUME SerialInv, TypeOK', NEW r \in Requests, UpdateDraftWrite(r)
    PROVE  Document!Next
  <1>1. /\ voucher \in Voucher /\ IsFresh(req[r]) /\ BookedIsFinal
    BY WriteFacts
  <1>2. /\ voucher.isPostedToGL \in BOOLEAN
        /\ voucher'.isPostedToGL \in BOOLEAN
        /\ voucher'.content \in Contents
    BY <1>1 DEF TypeOK, Voucher
  <1>3. /\ voucher.status \in Editable /\ voucher'.status = voucher.status
        /\ voucher'.isPostedToGL = voucher.isPostedToGL
        /\ ~ voucher.isPostedToGL
        /\ ledger' = ledger
    BY <1>1
    DEF UpdateDraftWrite, End, IsFresh, Voucher, headerOnly, Editable,
        BookedIsFinal
  <1>4. Stage = "editable" /\ Stage' = "editable"
    BY <1>2, <1>3, StageIs, StageBecomes
  <1> QED
    BY <1>2, <1>3, <1>4 DEF Document!Next, Document!Edit

LEMMA BookSteps ==
    ASSUME SerialInv, TypeOK', NEW r \in Requests, PostWrite(r)
    PROVE  Document!Next
  <1>1. /\ voucher \in Voucher /\ IsFresh(req[r])
        /\ voucher.isPostedToGL <=> ledger # <<>>
    BY WriteFacts
  <1>2. voucher.isPostedToGL \in BOOLEAN /\ voucher'.isPostedToGL \in BOOLEAN
    BY <1>1 DEF TypeOK, Voucher
  <1>3. /\ voucher.status = "APPROVED" /\ req[r].data.content = voucher.content
        /\ ledger = <<>> /\ ~ voucher.isPostedToGL
        /\ voucher'.isPostedToGL /\ voucher'.content = voucher.content
    BY <1>1 DEF PostWrite, End, IsFresh, ReferenceIsFree, Voucher
  <1>4. Stage = "released" /\ Stage' = "booked"
    BY <1>2, <1>3, StageIs, StageBecomes
  <1>5. ledger' # <<>> /\ ledger'[1].content = voucher.content
    BY <1>3 DEF PostWrite
  <1> QED
    BY <1>3, <1>4, <1>5 DEF Document!Next, Document!Book

(* Payments and attachments are outside the document. *)
LEMMA PaymentSteps ==
    ASSUME SerialInv, TypeOK', NEW r \in Requests,
           \/ InitiateWrite(r) \/ MarkPaidWrite(r)
           \/ AttachRow(r) \/ AttachCount(r)
    PROVE  UNCHANGED Document!docVars
  <1>1. /\ voucher \in Voucher /\ IsFresh(req[r]) /\ BookedIsFinal
    BY WriteFacts
  <1>2. /\ voucher.isPostedToGL \in BOOLEAN /\ voucher'.isPostedToGL \in BOOLEAN
        /\ voucher' \in Voucher
    BY <1>1 DEF TypeOK, Voucher
  <1>3. /\ voucher'.isPostedToGL = voucher.isPostedToGL
        /\ voucher'.content = voucher.content
        /\ ledger' = ledger
    BY <1>1
    DEF InitiateWrite, MarkPaidWrite, AttachRow, AttachCount, Voucher,
        headerOnly
  <1>4. CASE voucher.isPostedToGL
    <2>1. Stage = "booked" /\ Stage' = "booked"
      BY <1>2, <1>3, <1>4, StageIs, StageBecomes
    <2> QED
      BY <1>3, <2>1, DocumentStays
  <1>5. CASE ~ voucher.isPostedToGL
    <2>1. CASE InitiateWrite(r)
      <3>1. /\ voucher.status = "APPROVED"
            /\ voucher'.status \in {"APPROVED", "FAILED_PAYMENT"}
        BY <1>1, <1>5, <2>1
        DEF InitiateWrite, End, IsFresh, Voucher, BookedIsFinal
      <3>2. Stage = "released" /\ Stage' = "released"
        BY <1>2, <1>3, <1>5, <3>1, StageIs, StageBecomes
      <3> QED
        BY <1>3, <3>2, DocumentStays
    <2>2. CASE ~ InitiateWrite(r)
      <3>1. voucher'.status = voucher.status
        BY <1>1, <1>5, <2>2
        DEF MarkPaidWrite, AttachRow, AttachCount, End, IsFresh, Voucher
      <3> QED
        BY <1>1, <1>2, <1>3, <3>1, RowStaysStage, DocumentStays
    <2> QED
      BY <2>1, <2>2
  <1> QED
    BY <1>4, <1>5

LEMMA DocumentStep ==
    ASSUME SerialInv, [Next]_vars
    PROVE  [Document!Next]_(Document!docVars)
  <1>1. TypeOK'
    BY StepType DEF SerialInv, OverlapInv
  <1>2. ASSUME voucher' = voucher, ledger' = ledger
        PROVE  UNCHANGED Document!docVars
    <2>1. Stage' = Stage
      BY <1>2 DEF Stage
    <2> QED
      BY <1>2, <2>1, DocumentStays
  <1>3. ASSUME NEW r \in Requests, Call(r)
        PROVE  UNCHANGED Document!docVars
    BY <1>2, <1>3
    DEF Call, Begin, UpdateDraftRead, SubmitRead, RecallRead,
        ApproveRead, RejectRead, ReturnRead, CancelRead, AttachRead,
        PostRead, InitiateRead, MarkPaidRead, UpdatePeriodRead
  <1>4. ASSUME NEW r \in Requests, Proceed(r)
        PROVE  Document!Next \/ UNCHANGED Document!docVars
    <2>1. CASE InitiateGateway(r) \/ UpdatePeriodWrite(r) \/ Abort(r)
      BY <1>2, <2>1 DEF InitiateGateway, UpdatePeriodWrite, Abort
    <2>2. CASE ~ (InitiateGateway(r) \/ UpdatePeriodWrite(r) \/ Abort(r))
      BY <1>1, <1>4, <2>2, DecisionSteps, EditSteps, BookSteps, PaymentSteps
      DEF Proceed
    <2> QED
      BY <2>1, <2>2
  <1>5. CASE UNCHANGED vars
    BY <1>2, <1>5 DEF vars
  <1> QED
    BY <1>3, <1>4, <1>5 DEF Next

(* With one request at a time, which may die halfway, the eleven handlers  *)
(* of a voucher keep the promise of a controlled document.                 *)
THEOREM VoucherIsControlled ==
    ASSUME OneRequest
    PROVE  Spec => ImplementsControlledDocument
  <1>1. SerialInv /\ [Next]_vars => [Document!Next]_(Document!docVars)
    BY DocumentStep
  <1>2. Spec => [][Next]_vars
    BY DEF Spec
  <1>3. Spec => Document!Init
    BY DocumentInit DEF Spec
  <1> QED
    BY <1>1, <1>2, <1>3, OneRequestKeepsTheVoucher, PTL
    DEF ImplementsControlledDocument, Document!Spec

-----------------------------------------------------------------------------
(* The period the voucher is posted into keeps the promise of an accounting  *)
(* period, however requests overlap.                                       *)

Wanted(q) == IF q.pc = "period" THEN q.data ELSE "nothing"

AllWanted == [s \in Requests |-> Wanted(req[s])]

(* A step that neither asks for a status of the period nor writes one. *)
LEMMA PeriodIsLeft ==
    ASSUME DOMAIN req = Requests, NEW r \in Requests, NEW q,
           req' = [req EXCEPT ![r] = q], period' = period,
           Wanted(q) = Wanted(req[r])
    PROVE  AllWanted' = AllWanted /\ period' = period
  BY DEF AllWanted, Wanted

LEMMA OtherCalls ==
    ASSUME TypeOK, NEW r \in Requests, NEW operation, NEW data,
           operation # "period", Begin(r, operation, data)
    PROVE  AllWanted' = AllWanted /\ period' = period
  <1>1. PICK q : q = [pc |-> operation, data |-> data]
    OBVIOUS
  <1>2. /\ DOMAIN req = Requests /\ period' = period
        /\ req' = [req EXCEPT ![r] = q]
        /\ Wanted(q) = "nothing" /\ Wanted(req[r]) = "nothing"
    BY <1>1 DEF TypeOK, Begin, Wanted, Idle
  <1> QED
    BY <1>2, PeriodIsLeft

LEMMA OtherEnds ==
    ASSUME TypeOK, NEW r \in Requests, NEW operation,
           operation # "period", End(r, operation), period' = period
    PROVE  AllWanted' = AllWanted /\ period' = period
  <1>1. /\ DOMAIN req = Requests
        /\ req' = [req EXCEPT ![r] = Idle]
        /\ Wanted(Idle) = "nothing" /\ Wanted(req[r]) = "nothing"
    BY DEF TypeOK, End, Wanted, Idle
  <1> QED
    BY <1>1, PeriodIsLeft

(* The period's own handler asks, writes, or gives up. *)
LEMMA PeriodIsAsked ==
    ASSUME TypeOK, NEW r \in Requests, UpdatePeriodRead(r)
    PROVE  PostingPeriod!Next
  <1>1. PICK status \in PeriodStatuses :
           /\ period = "LOCKED" => status = "LOCKED"
           /\ Begin(r, "period", status)
    BY DEF UpdatePeriodRead
  <1>2. PICK q : q = [pc |-> "period", data |-> status]
    OBVIOUS
  <1>3. /\ DOMAIN req = Requests /\ req' = [req EXCEPT ![r] = q]
        /\ Wanted(q) = status /\ Wanted(req[r]) = "nothing"
        /\ period' = period
    BY <1>1, <1>2 DEF TypeOK, Begin, Wanted, Idle
  <1>4. AllWanted' = [AllWanted EXCEPT ![r] = status]
    BY <1>3 DEF AllWanted, Wanted
  <1>5. AllWanted[r] = "nothing"
    BY <1>3 DEF AllWanted
  <1>6. PostingPeriod!Ask(r)
    BY <1>1, <1>3, <1>4, <1>5
    DEF PostingPeriod!Ask, PostingPeriod!Statuses, PostingPeriod!Nothing,
        PeriodStatuses, AllWanted, Wanted
  <1> QED
    BY <1>6 DEF PostingPeriod!Next

LEMMA PeriodIsWritten ==
    ASSUME TypeOK, NEW r \in Requests, req[r].pc = "period",
           req' = [req EXCEPT ![r] = Idle], period' \in {period, req[r].data}
    PROVE  PostingPeriod!Next
  <1>1. /\ DOMAIN req = Requests /\ req[r].data \in PeriodStatuses
        /\ Wanted(Idle) = "nothing" /\ Wanted(req[r]) = req[r].data
    BY DEF TypeOK, RequestOK, Wanted, Idle
  <1>2. AllWanted' = [AllWanted EXCEPT ![r] = "nothing"]
    BY <1>1 DEF AllWanted, Wanted
  <1>3. AllWanted[r] = req[r].data /\ AllWanted[r] # "nothing"
    BY <1>1 DEF AllWanted, PeriodStatuses
  <1>4. CASE period' = period
    <2>1. PostingPeriod!GiveUp(r)
      BY <1>2, <1>3, <1>4
      DEF PostingPeriod!GiveUp, PostingPeriod!Nothing, AllWanted, Wanted
    <2> QED
      BY <2>1 DEF PostingPeriod!Next
  <1>5. CASE period' = req[r].data
    <2>1. PostingPeriod!Write(r)
      BY <1>2, <1>3, <1>5
      DEF PostingPeriod!Write, PostingPeriod!Nothing, AllWanted, Wanted
    <2> QED
      BY <2>1 DEF PostingPeriod!Next
  <1> QED
    BY <1>4, <1>5

LEMMA PeriodCalls ==
    ASSUME TypeOK, NEW r \in Requests, Call(r)
    PROVE  PostingPeriod!Next \/ (AllWanted' = AllWanted /\ period' = period)
  <1> DEFINE Left == AllWanted' = AllWanted /\ period' = period
  <1>1. ASSUME NEW operation, NEW data,
               Begin(r, operation, data), operation # "period"
        PROVE  Left
    BY <1>1, OtherCalls
  <1> HIDE DEF Left
  <1>2. (\E u \in Users : UpdateDraftRead(r, u)) => Left
    BY <1>1 DEF UpdateDraftRead
  <1>3. (\E u \in Users : SubmitRead(r, u)) => Left
    BY <1>1 DEF SubmitRead
  <1>4. (\E u \in Users : RecallRead(r, u)) => Left
    BY <1>1 DEF RecallRead
  <1>5. (\E u \in Users : ApproveRead(r, u)) => Left
    BY <1>1 DEF ApproveRead
  <1>6. (\E u \in Users : RejectRead(r, u)) => Left
    BY <1>1 DEF RejectRead
  <1>7. ReturnRead(r) => Left
    BY <1>1 DEF ReturnRead
  <1>8. CancelRead(r) => Left
    BY <1>1 DEF CancelRead
  <1>9. AttachRead(r) => Left
    BY <1>1 DEF AttachRead
  <1>10. PostRead(r) => Left
    BY <1>1 DEF PostRead
  <1>11. InitiateRead(r) => Left
    BY <1>1 DEF InitiateRead
  <1>12. MarkPaidRead(r) => Left
    BY <1>1 DEF MarkPaidRead
  <1>13. UpdatePeriodRead(r) => PostingPeriod!Next
    BY PeriodIsAsked
  <1> QED
    BY <1>2, <1>3, <1>4, <1>5, <1>6, <1>7, <1>8, <1>9, <1>10, <1>11,
       <1>12, <1>13 DEF Call, Left

LEMMA PeriodProceeds ==
    ASSUME TypeOK, NEW r \in Requests, Proceed(r)
    PROVE  PostingPeriod!Next \/ (AllWanted' = AllWanted /\ period' = period)
  <1>1. CASE UpdatePeriodWrite(r)
    BY <1>1, PeriodIsWritten DEF UpdatePeriodWrite, End
  <1>2. CASE Abort(r)
    <2>1. req' = [req EXCEPT ![r] = Idle] /\ period' = period
      BY <1>2 DEF Abort
    <2>2. CASE req[r].pc = "period"
      BY <2>1, <2>2, PeriodIsWritten
    <2>3. CASE req[r].pc # "period"
      <3>1. Wanted(Idle) = Wanted(req[r]) /\ DOMAIN req = Requests
        BY <2>3 DEF Wanted, Idle, TypeOK
      <3> QED
        BY <2>1, <3>1, PeriodIsLeft
    <2> QED
      BY <2>2, <2>3
  <1>3. CASE AttachRow(r) \/ InitiateGateway(r)
    <2>1. PICK q : /\ req' = [req EXCEPT ![r] = q]
                   /\ q.pc \in {"attachCount", "instructed"}
      <3>1. CASE AttachRow(r)
        <4>1. PICK q : q = [pc |-> "attachCount", data |-> req[r].data]
          OBVIOUS
        <4>2. req' = [req EXCEPT ![r] = q] /\ q.pc = "attachCount"
          BY <3>1, <4>1 DEF AttachRow
        <4> QED
          BY <4>2
      <3>2. CASE InitiateGateway(r)
        <4>1. PICK data :
                 req' = [req EXCEPT ![r] = [pc |-> "instructed",
                                            data |-> data]]
          BY <3>2 DEF InitiateGateway
        <4>2. PICK q : q = [pc |-> "instructed", data |-> data]
          OBVIOUS
        <4>3. req' = [req EXCEPT ![r] = q] /\ q.pc = "instructed"
          BY <4>1, <4>2
        <4> QED
          BY <4>3
      <3> QED
        BY <1>3, <3>1, <3>2
    <2>2. /\ req[r].pc # "period" /\ period' = period /\ DOMAIN req = Requests
      BY <1>3 DEF AttachRow, InitiateGateway, headerOnly, TypeOK
    <2>3. Wanted(q) = Wanted(req[r])
      BY <2>1, <2>2 DEF Wanted
    <2> QED
      BY <2>1, <2>2, <2>3, PeriodIsLeft
  <1>4. CASE ~ (\/ UpdatePeriodWrite(r) \/ Abort(r)
                \/ AttachRow(r) \/ InitiateGateway(r))
    <2>1. PICK operation : operation # "period" /\ End(r, operation)
      BY <1>4
      DEF Proceed, UpdateDraftWrite, SubmitWrite, RecallWrite, ApproveWrite,
          RejectWrite, ReturnWrite, CancelWrite, AttachCount, PostWrite,
          InitiateWrite, MarkPaidWrite
    <2>2. period' = period
      BY <1>4
      DEF Proceed, UpdateDraftWrite, SubmitWrite, RecallWrite, ApproveWrite,
          RejectWrite, ReturnWrite, CancelWrite, AttachCount, PostWrite,
          InitiateWrite, MarkPaidWrite, headerOnly
    <2> QED
      BY <2>1, <2>2, OtherEnds
  <1> QED
    BY <1>1, <1>2, <1>3, <1>4

(* However requests overlap, what the vouchers assume of their period is what *)
(* the fiscal years keep of every one (EveryPeriodKeepsItsPromise).        *)
THEOREM PostingPeriodKeepsItsPromise == Spec => ImplementsAccountingPeriod
  <1>1. Init => PostingPeriod!Init
    BY DEF Init, Idle, PostingPeriod!Init, PostingPeriod!Statuses,
           PostingPeriod!Nothing, PeriodStatuses
  <1>2. TypeOK /\ [Next]_vars =>
           [PostingPeriod!Next]_(PostingPeriod!periodVars)
    <2> SUFFICES ASSUME TypeOK, [Next]_vars
                 PROVE  \/ PostingPeriod!Next
                        \/ AllWanted' = AllWanted /\ period' = period
      BY DEF AllWanted, Wanted, PostingPeriod!periodVars
    <2>1. CASE UNCHANGED vars
      BY <2>1 DEF vars, AllWanted, Wanted
    <2>2. CASE Next
      <3>1. PICK r \in Requests : Call(r) \/ Proceed(r)
        BY <2>2 DEF Next
      <3> QED
        BY <3>1, PeriodCalls, PeriodProceeds
    <2> QED
      BY <2>1, <2>2
  <1> QED
    BY <1>1, <1>2, TypeCorrect, PTL
    DEF Spec, ImplementsAccountingPeriod, PostingPeriod!Spec
=============================================================================
