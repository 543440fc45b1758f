----------------------- MODULE CustomerReceiptsProofs -----------------------
(***************************************************************************)
(* Proofs about CustomerReceipts and the documents of TradeLedger, for any *)
(* companies, forms and posting rules and any number of requests that      *)
(* overlap: every document is booked exactly once, the receipts of a       *)
(* company are numbered without a gap, every entry balances to a cent and  *)
(* the receivables of the ledger agree with the documents; and if requests *)
(* do not overlap, invoices are settled as booked and issues are covered.  *)
(*                                                                         *)
(* The first two rest on a unique index.  An idempotency key that is free  *)
(* names a document that is not booked; a receipt number that is free, and *)
(* at most the next one, is the next one.  The last two rest on sums: an   *)
(* entry is the merged lines of the posting engine, merging keeps what an  *)
(* account comes to, and each step adds one entry and one document.  What  *)
(* needs one request at a time rests on AllReady: what a request found     *)
(* when it began still holds when it commits.  And step by step: what is   *)
(* written stands, and the status of an invoice only advances.             *)
(***************************************************************************)
EXTENDS CustomerReceipts, SumsProofs, SequenceTheorems

InvoiceStatuses == {"OPEN", "PARTIALLY_PAID", "PAID"}
Totals(forms) == UNION { { Stored(a.total) : a \in AmountsOf(form) } : form \in forms }

InvoiceRow ==
    [ status : InvoiceStatuses, company : { form.company : form \in InvoiceForms },
      customer : { form.party : form \in InvoiceForms }, total : Totals(InvoiceForms) ]

BillRow ==
    [ status : {"OPEN"}, company : { form.company : form \in BillForms },
      supplier : { form.party : form \in BillForms }, total : Totals(BillForms) ]

ReceiptRow ==
    [ status : {"DRAFT", "POSTED"}, company : Companies, number : Nat \ {0},
      bank : { form.bank : form \in ReceiptForms },
      cash : { form.cash : form \in ReceiptForms },
      receivable : { form.receivable : form \in ReceiptForms },
      amount : { AmountOf(form.lines) : form \in ReceiptForms },
      lines : { form.lines : form \in ReceiptForms } ]

Assignments == UNION { [ids -> InvoiceStatuses] : ids \in SUBSET Invoices }

LinesOfInvoices ==
    UNION { { InvoiceLines(form, a) : a \in AmountsOf(form) } : form \in InvoiceForms }
LinesOfBills ==
    UNION { { BillLines(form, a) : a \in AmountsOf(form) } : form \in BillForms }

InvoiceWork ==
    [ op : {"createInvoice"}, id : Invoices, form : InvoiceForms,
      total : Totals(InvoiceForms), lines : LinesOfInvoices ]
BillWork ==
    [ op : {"createBill"}, id : Bills, form : BillForms,
      total : Totals(BillForms), lines : LinesOfBills ]
StockWork == [ op : {"moveStock"}, id : {None}, move : StockMoves ]
DraftWork ==
    [ op : {"createReceipt"}, id : Receipts, form : ReceiptForms, number : Nat \ {0} ]
PostWork == [ op : {"postReceipt"}, id : Receipts, statuses : {<<>>} ]
CommitWork == [ op : {"commitReceipt"}, id : Receipts, statuses : Assignments ]

Work ==
    InvoiceWork \union BillWork \union StockWork
    \union DraftWork \union PostWork \union CommitWork

TypeOK ==
    /\ invoices \in [Invoices -> InvoiceRow \union {Absent}]
    /\ bills \in [Bills -> BillRow \union {Absent}]
    /\ receipts \in [Receipts -> ReceiptRow \union {Absent}]
    /\ sequence \in [Companies -> Nat]
    /\ req \in [Requests -> Work \union {Idle}]

-----------------------------------------------------------------------------
(* Each audit row has the key of the document it is of. *)
AuditOfInvoice(i) == [key |-> <<"sales-invoice-posted", i>>, entry |-> <<"invoice", i>>]
AuditOfBill(b) == [key |-> <<"purchase-bill-posted", b>>, entry |-> <<"bill", b>>]

AuditsAreKeyed ==
    \A audit \in audits :
        \/ \E i \in Invoices : audit = AuditOfInvoice(i)
        \/ \E b \in Bills : audit = AuditOfBill(b)

(* Lines that settle an invoice settle one that exists. *)
InvoicesExist(lines, rows) ==
    \A k \in DOMAIN lines :
        lines[k].invoice \in Invoices => rows[lines[k].invoice] # Absent

LinesNameInvoices ==
    /\ \A id \in Receipts : receipts[id] # Absent => InvoicesExist(receipts[id].lines, invoices)
    /\ \A r \in Requests : req[r].op = "createReceipt" => InvoicesExist(req[r].form.lines, invoices)
    /\ \A r \in Requests : req[r].op = "commitReceipt" =>
          \A i \in DOMAIN req[r].statuses : invoices[i] # Absent

(* A receipt about to be drafted is not there yet, one about to be posted  *)
(* is, and no two requests are about to draft the same one.                *)
ReceiptsReserved ==
    /\ \A r \in Requests : req[r].op = "createReceipt" => receipts[req[r].id] = Absent
    /\ \A r \in Requests : req[r].op \in {"postReceipt", "commitReceipt"} =>
          receipts[req[r].id] # Absent
    /\ \A r, s \in Requests :
          /\ req[r].op = "createReceipt" /\ req[s].op = "createReceipt"
          /\ req[r].id = req[s].id
          => r = s

(* A request holds a number that was the next one when it read it. *)
ReceiptsOf(c) == { id \in Receipts : receipts[id] # Absent /\ receipts[id].company = c }

Numbered(c) ==
    /\ { receipts[id].number : id \in ReceiptsOf(c) } = 1 .. Cardinality(ReceiptsOf(c))
    /\ NextNumber(c) = Cardinality(ReceiptsOf(c)) + 1
    /\ ReceiptsOf(c) # {} => sequence[c] # 0

NumbersAreTaken ==
    /\ \A c \in Companies : Numbered(c)
    /\ \A r \in Requests : req[r].op = "createReceipt" =>
          req[r].number <= NextNumber(req[r].form.company)

BooksInv ==
    /\ TypeOK /\ AuditsAreKeyed /\ LinesNameInvoices /\ ReceiptsReserved
    /\ DocumentsBookedOnce /\ NumbersAreTaken

-----------------------------------------------------------------------------
LEMMA IdleIsNothing == Idle.op = "idle"
  BY DEF Idle

LEMMA InitTypes == Init => TypeOK
  BY DEF Init, TradeInit, TypeOK

(* What a request is about to write once its checks are made.              *)
LEMMA InvoiceIsBegun ==
    ASSUME NEW r, NEW i \in Invoices, NEW form \in InvoiceForms,
           CreateInvoiceRead(r, i, form)
    PROVE  \E a \in AmountsOf(form), work \in InvoiceWork :
              /\ work.op = "createInvoice" /\ work.form = form
              /\ work.total = Stored(a.total) /\ work.lines = InvoiceLines(form, a)
              /\ FormValid(form, a)
              /\ Postable(PostingMatrix, SalesContext(form, a), "SALES_INVOICE", a)
              /\ Begin(r, work)
              /\ UNCHANGED <<alone, period, invoices, bills, movements, entries, audits>>
  <1>1. PICK a \in AmountsOf(form) :
            /\ FormValid(form, a)
            /\ Postable(PostingMatrix, SalesContext(form, a), "SALES_INVOICE", a)
            /\ Begin(r, DocumentWork("createInvoice", i, form, a.total, InvoiceLines(form, a)))
    BY Zenon DEF CreateInvoiceRead
  <1>2. PICK total, lines : total = Stored(a.total) /\ lines = InvoiceLines(form, a)
    OBVIOUS
  <1>3. total \in Totals(InvoiceForms) /\ lines \in LinesOfInvoices
    BY <1>2 DEF Totals, LinesOfInvoices
  <1>4. PICK work : work = [op |-> "createInvoice", id |-> i, form |-> form,
                            total |-> total, lines |-> lines]
    OBVIOUS
  <1>5. /\ work \in InvoiceWork /\ work.op = "createInvoice" /\ work.form = form
        /\ work.total = total /\ work.lines = lines
    BY <1>3, <1>4 DEF InvoiceWork
  <1>6. Begin(r, work)
    BY <1>1, <1>2, <1>4, Zenon DEF DocumentWork
  <1>7. UNCHANGED <<alone, period, invoices, bills, movements, entries, audits>>
    BY Zenon DEF CreateInvoiceRead
  <1> QED
    BY <1>1, <1>2, <1>5, <1>6, <1>7, Zenon

LEMMA BillIsBegun ==
    ASSUME NEW r, NEW b \in Bills, NEW form \in BillForms, CreateBillRead(r, b, form)
    PROVE  \E a \in AmountsOf(form), work \in BillWork :
              /\ work.op = "createBill" /\ work.form = form
              /\ work.total = Stored(a.total) /\ work.lines = BillLines(form, a)
              /\ FormValid(form, a)
              /\ Postable(PostingMatrix, BillContext(form, a), "PURCHASE_BILL", a)
              /\ Begin(r, work)
              /\ UNCHANGED <<alone, period, invoices, bills, movements, entries, audits>>
  <1>1. PICK a \in AmountsOf(form) :
            /\ FormValid(form, a)
            /\ Postable(PostingMatrix, BillContext(form, a), "PURCHASE_BILL", a)
            /\ Begin(r, DocumentWork("createBill", b, form, a.total, BillLines(form, a)))
    BY Zenon DEF CreateBillRead
  <1>2. PICK total, lines : total = Stored(a.total) /\ lines = BillLines(form, a)
    OBVIOUS
  <1>3. total \in Totals(BillForms) /\ lines \in LinesOfBills
    BY <1>2 DEF Totals, LinesOfBills
  <1>4. PICK work : work = [op |-> "createBill", id |-> b, form |-> form,
                            total |-> total, lines |-> lines]
    OBVIOUS
  <1>5. /\ work \in BillWork /\ work.op = "createBill" /\ work.form = form
        /\ work.total = total /\ work.lines = lines
    BY <1>3, <1>4 DEF BillWork
  <1>6. Begin(r, work)
    BY <1>1, <1>2, <1>4, Zenon DEF DocumentWork
  <1>7. UNCHANGED <<alone, period, invoices, bills, movements, entries, audits>>
    BY Zenon DEF CreateBillRead
  <1> QED
    BY <1>1, <1>2, <1>5, <1>6, <1>7, Zenon

LEMMA StatusesAreAssigned ==
    ASSUME NEW id \in Receipts
    PROVE  StatusesAfter(id) \in Assignments
  <1>1. InvoicesOf(id) \in SUBSET Invoices
    BY DEF InvoicesOf
  <1>2. StatusesAfter(id) \in [InvoicesOf(id) -> InvoiceStatuses]
    BY DEF StatusesAfter, InvoiceStatus, InvoiceStatuses
  <1> QED
    BY <1>1, <1>2 DEF Assignments

(* A commit finds the receipt and the invoices it settles.                 *)
LEMMA CommitFinds ==
    ASSUME TypeOK, ReceiptsReserved, LinesNameInvoices,
           NEW r \in Requests, req[r].op = "commitReceipt"
    PROVE  /\ req[r] \in CommitWork
           /\ receipts[req[r].id] \in ReceiptRow
           /\ \A i \in DOMAIN req[r].statuses :
                 /\ i \in Invoices /\ invoices[i] \in InvoiceRow
                 /\ req[r].statuses[i] \in InvoiceStatuses
  <1>1. req[r] \in CommitWork
    BY DEF TypeOK, Work, InvoiceWork, BillWork, StockWork, DraftWork, PostWork, CommitWork,
           Idle
  <1>2. receipts[req[r].id] \in ReceiptRow
    BY <1>1 DEF TypeOK, ReceiptsReserved, CommitWork
  <1>3. PICK ids \in SUBSET Invoices : req[r].statuses \in [ids -> InvoiceStatuses]
    BY <1>1 DEF CommitWork, Assignments
  <1>4. ASSUME NEW i \in DOMAIN req[r].statuses
        PROVE  /\ i \in Invoices /\ invoices[i] \in InvoiceRow
               /\ req[r].statuses[i] \in InvoiceStatuses
    BY <1>3 DEF TypeOK, LinesNameInvoices
  <1> QED
    BY <1>1, <1>2, <1>4

LEMMA MarkedIsPosted ==
    ASSUME TypeOK, NEW id \in Receipts, receipts[id] \in ReceiptRow
    PROVE  /\ Marked(id) \in [Receipts -> ReceiptRow \union {Absent}]
           /\ Marked(id)[id].status = "POSTED"
           /\ \A x \in Receipts :
                 /\ Marked(id)[x] = Absent <=> receipts[x] = Absent
                 /\ x # id => Marked(id)[x] = receipts[x]
           /\ Marked(id)[id].lines = receipts[id].lines
           /\ Marked(id)[id].company = receipts[id].company
           /\ Marked(id)[id].number = receipts[id].number
  <1>1. /\ [receipts[id] EXCEPT !.status = "POSTED"] \in ReceiptRow
        /\ [receipts[id] EXCEPT !.status = "POSTED"].status = "POSTED"
        /\ [receipts[id] EXCEPT !.status = "POSTED"].lines = receipts[id].lines
        /\ [receipts[id] EXCEPT !.status = "POSTED"].company = receipts[id].company
        /\ [receipts[id] EXCEPT !.status = "POSTED"].number = receipts[id].number
    BY DEF ReceiptRow
  <1>2. Absent \notin ReceiptRow
    BY DEF Absent, ReceiptRow
  <1> QED
    BY <1>1, <1>2 DEF Marked, TypeOK

LEMMA RefreshedKeepsInvoices ==
    ASSUME TypeOK, NEW statuses,
           \A i \in DOMAIN statuses :
              i \in Invoices /\ invoices[i] \in InvoiceRow /\ statuses[i] \in InvoiceStatuses
    PROVE  /\ Refreshed(statuses) \in [Invoices -> InvoiceRow \union {Absent}]
           /\ \A i \in Invoices : Refreshed(statuses)[i] = Absent <=> invoices[i] = Absent
  <1>1. Absent \notin InvoiceRow
    BY DEF Absent, InvoiceRow, InvoiceStatuses
  <1>2. ASSUME NEW i \in Invoices, i \in DOMAIN statuses
        PROVE  [invoices[i] EXCEPT !.status = statuses[i]] \in InvoiceRow
    <2>1. invoices[i] \in InvoiceRow /\ statuses[i] \in InvoiceStatuses
      BY <1>2
    <2> QED
      BY <2>1 DEF InvoiceRow
  <1>3. ASSUME NEW i \in Invoices
        PROVE  /\ Refreshed(statuses)[i] \in InvoiceRow \union {Absent}
               /\ Refreshed(statuses)[i] = Absent <=> invoices[i] = Absent
    BY <1>1, <1>2 DEF Refreshed, TypeOK
  <1>4. Refreshed(statuses) = [i \in Invoices |-> Refreshed(statuses)[i]]
    BY DEF Refreshed
  <1> QED
    BY <1>3, <1>4

(* Every step keeps the types. *)
LEMMA StepTypes ==
    ASSUME TypeOK, ReceiptsReserved, LinesNameInvoices, [Next]_vars
    PROVE  TypeOK'
  <1> USE DEF TypeOK
  <1>1. ASSUME NEW r \in Requests, NEW i \in Invoices, NEW form \in InvoiceForms,
               CreateInvoiceRead(r, i, form), UNCHANGED receiptVars
        PROVE  TypeOK'
    <2>1. PICK work \in InvoiceWork :
              /\ Begin(r, work)
              /\ UNCHANGED <<alone, period, invoices, bills, movements, entries, audits>>
      BY <1>1, InvoiceIsBegun
    <2>2. req' \in [Requests -> Work \union {Idle}]
      BY <2>1 DEF Begin, Work
    <2> QED
      BY <1>1, <2>1, <2>2 DEF receiptVars
  <1>2. ASSUME NEW r \in Requests, CreateInvoiceWrite(r), UNCHANGED receiptVars
        PROVE  TypeOK'
    <2>1. req[r] \in InvoiceWork
      BY <1>2 DEF CreateInvoiceWrite, Work, InvoiceWork, BillWork, StockWork, DraftWork,
                  PostWork, CommitWork, Idle
    <2> QED
      BY <1>2, <2>1 DEF CreateInvoiceWrite, Finish, receiptVars, InvoiceWork, InvoiceRow,
                        InvoiceStatuses
  <1>3. ASSUME NEW r \in Requests, NEW b \in Bills, NEW form \in BillForms,
               CreateBillRead(r, b, form), UNCHANGED receiptVars
        PROVE  TypeOK'
    <2>1. PICK work \in BillWork :
              /\ Begin(r, work)
              /\ UNCHANGED <<alone, period, invoices, bills, movements, entries, audits>>
      BY <1>3, BillIsBegun
    <2>2. req' \in [Requests -> Work \union {Idle}]
      BY <2>1 DEF Begin, Work
    <2> QED
      BY <1>3, <2>1, <2>2 DEF receiptVars
  <1>4. ASSUME NEW r \in Requests, CreateBillWrite(r), UNCHANGED receiptVars
        PROVE  TypeOK'
    <2>1. req[r] \in BillWork
      BY <1>4 DEF CreateBillWrite, Work, InvoiceWork, BillWork, StockWork, DraftWork,
                  PostWork, CommitWork, Idle
    <2> QED
      BY <1>4, <2>1 DEF CreateBillWrite, Finish, receiptVars, BillWork, BillRow
  <1>5. ASSUME NEW r \in Requests, NEW move \in StockMoves, MoveStockRead(r, move),
               UNCHANGED receiptVars
        PROVE  TypeOK'
    BY <1>5 DEF MoveStockRead, Begin, receiptVars, Work, StockWork
  <1>6. ASSUME NEW r \in Requests, MoveStockWrite(r) \/ Abort(r), UNCHANGED receiptVars
        PROVE  TypeOK'
    BY <1>6 DEF MoveStockWrite, Abort, Finish, receiptVars
  <1>7. ASSUME NEW c \in Companies, ChangePeriod(c), UNCHANGED receiptVars
        PROVE  TypeOK'
    BY <1>7 DEF ChangePeriod, receiptVars
  <1>8. ASSUME NEW r \in Requests, NEW id \in Receipts, NEW form \in ReceiptForms,
               CreateReceiptRead(r, id, form)
        PROVE  TypeOK'
    <2>1. NextNumber(form.company) \in Nat \ {0}
      BY FormsAssumption DEF NextNumber
    <2> QED
      BY <1>8, <2>1 DEF CreateReceiptRead, Begin, receiptVars, Work, DraftWork
  <1>9. ASSUME NEW r \in Requests, CreateReceiptWrite(r)
        PROVE  TypeOK'
    <2>1. req[r] \in DraftWork
      BY <1>9 DEF CreateReceiptWrite, Work, InvoiceWork, BillWork, StockWork, DraftWork,
                  PostWork, CommitWork, Idle
    <2>2. req[r].form.company \in Companies
      BY <2>1, FormsAssumption DEF DraftWork
    <2> QED
      BY <1>9, <2>1, <2>2 DEF CreateReceiptWrite, Finish, DraftWork, ReceiptRow
  <1>10. ASSUME NEW r \in Requests, NEW id \in Receipts, PostReceiptRead(r, id)
         PROVE  TypeOK'
    BY <1>10 DEF PostReceiptRead, Begin, receiptVars, Work, PostWork
  <1>11. ASSUME NEW r \in Requests, PostReceiptRefresh(r)
         PROVE  TypeOK'
    <2>1. req[r] \in PostWork
      BY <1>11 DEF PostReceiptRefresh, Work, InvoiceWork, BillWork, StockWork, DraftWork,
                   PostWork, CommitWork, Idle
    <2>2. StatusesAfter(req[r].id) \in Assignments
      BY <2>1, StatusesAreAssigned DEF PostWork
    <2> QED
      BY <1>11, <2>1, <2>2 DEF PostReceiptRefresh, receiptVars, Work, PostWork, CommitWork
  <1>12. ASSUME NEW r \in Requests, PostReceiptWrite(r)
         PROVE  TypeOK'
    <2>1. /\ req[r] \in CommitWork /\ receipts[req[r].id] \in ReceiptRow
          /\ \A i \in DOMAIN req[r].statuses :
                /\ i \in Invoices /\ invoices[i] \in InvoiceRow
                /\ req[r].statuses[i] \in InvoiceStatuses
      BY <1>12, CommitFinds DEF PostReceiptWrite
    <2>2. req[r].id \in Receipts
      BY <2>1 DEF CommitWork
    <2>3. receipts' \in [Receipts -> ReceiptRow \union {Absent}]
      BY <1>12, <2>1, <2>2, MarkedIsPosted DEF PostReceiptWrite
    <2>4. invoices' \in [Invoices -> InvoiceRow \union {Absent}]
      BY <1>12, <2>1, RefreshedKeepsInvoices DEF PostReceiptWrite
    <2> QED
      BY <1>12, <2>3, <2>4 DEF PostReceiptWrite, Finish
  <1> QED
    BY <1>1, <1>2, <1>3, <1>4, <1>5, <1>6, <1>7, <1>8, <1>9, <1>10, <1>11, <1>12
    DEF Next, TradeNext, ReceiptNext, vars, tradeVars

-----------------------------------------------------------------------------
(* What the steps have in common: most write no row, and few take up a     *)
(* receipt.                                                                *)

RowsKept == UNCHANGED <<invoices, bills, entries, audits, receipts, sequence>>

Reserving == {"createReceipt", "postReceipt", "commitReceipt"}

RequestsKept == \A s \in Requests : req'[s] = req[s] \/ req'[s].op \notin Reserving

LEMMA StepKinds ==
    ASSUME TypeOK, [Next]_vars
    PROVE  \/ RowsKept /\ RequestsKept
           \/ \E r \in Requests :
                 \/ CreateInvoiceWrite(r) /\ UNCHANGED receiptVars
                 \/ CreateBillWrite(r) /\ UNCHANGED receiptVars
                 \/ CreateReceiptWrite(r)
                 \/ PostReceiptWrite(r)
                 \/ \E id \in Receipts, form \in ReceiptForms : CreateReceiptRead(r, id, form)
                 \/ \E id \in Receipts : PostReceiptRead(r, id)
                 \/ PostReceiptRefresh(r)
  <1> USE DEF RowsKept, receiptVars
  <1>1. ASSUME NEW r \in Requests, NEW work, work.op \notin Reserving,
               req' = [req EXCEPT ![r] = work]
        PROVE  RequestsKept
    BY <1>1 DEF RequestsKept, TypeOK
  <1>2. ASSUME NEW r \in Requests, NEW i \in Invoices, NEW form \in InvoiceForms,
               CreateInvoiceRead(r, i, form), UNCHANGED receiptVars
        PROVE  RowsKept /\ RequestsKept
    <2>1. "createInvoice" \notin Reserving
      BY DEF Reserving
    <2> QED
      BY <1>1, <1>2, <2>1, InvoiceIsBegun DEF Begin
  <1>3. ASSUME NEW r \in Requests, NEW b \in Bills, NEW form \in BillForms,
               CreateBillRead(r, b, form), UNCHANGED receiptVars
        PROVE  RowsKept /\ RequestsKept
    <2>1. "createBill" \notin Reserving
      BY DEF Reserving
    <2> QED
      BY <1>1, <1>3, <2>1, BillIsBegun DEF Begin
  <1>4. ASSUME NEW r \in Requests, NEW move \in StockMoves, MoveStockRead(r, move),
               UNCHANGED receiptVars
        PROVE  RowsKept /\ RequestsKept
    <2>1. [op |-> "moveStock", id |-> None, move |-> move].op \notin Reserving
      BY DEF Reserving
    <2> QED
      BY <1>1, <1>4, <2>1 DEF MoveStockRead, Begin
  <1>5. Idle.op \notin Reserving
    BY IdleIsNothing DEF Reserving
  <1>6. ASSUME NEW r \in Requests, MoveStockWrite(r) \/ Abort(r), UNCHANGED receiptVars
        PROVE  RowsKept /\ RequestsKept
    BY <1>1, <1>5, <1>6 DEF MoveStockWrite, Abort, Finish
  <1>7. ASSUME NEW c \in Companies, ChangePeriod(c), UNCHANGED receiptVars
        PROVE  RowsKept /\ RequestsKept
    BY <1>7 DEF ChangePeriod, RequestsKept
  <1>8. ASSUME UNCHANGED vars
        PROVE  RowsKept /\ RequestsKept
    BY <1>8 DEF vars, tradeVars, RequestsKept
  <1> QED
    BY <1>2, <1>3, <1>4, <1>6, <1>7, <1>8 DEF Next, TradeNext, ReceiptNext

(* The request that commits is done, the others go on. *)
LEMMA FinishKeepsRequests ==
    ASSUME TypeOK, NEW r \in Requests, Finish(r)
    PROVE  /\ RequestsKept
           /\ req'[r].op = "idle"
           /\ \A s \in Requests : s # r => req'[s] = req[s]
  BY IdleIsNothing DEF TypeOK, Finish, RequestsKept, Reserving

-----------------------------------------------------------------------------
(* Every document is booked once. *)

LEMMA StepAudits ==
    ASSUME TypeOK, AuditsAreKeyed, [Next]_vars
    PROVE  AuditsAreKeyed'
  <1> USE DEF AuditsAreKeyed
  <1>1. ASSUME NEW r \in Requests, CreateInvoiceWrite(r)
        PROVE  AuditsAreKeyed'
    <2>1. req[r].id \in Invoices
      BY <1>1 DEF CreateInvoiceWrite, TypeOK, Work, InvoiceWork, BillWork, StockWork,
                  DraftWork, PostWork, CommitWork, Idle
    <2>2. audits' = audits \union {AuditOfInvoice(req[r].id)}
      BY <1>1 DEF CreateInvoiceWrite, AuditOfInvoice
    <2> QED
      BY <2>1, <2>2
  <1>2. ASSUME NEW r \in Requests, CreateBillWrite(r)
        PROVE  AuditsAreKeyed'
    <2>1. req[r] \in BillWork
      BY <1>2 DEF CreateBillWrite, TypeOK, Work, InvoiceWork, BillWork, StockWork,
                  DraftWork, PostWork, CommitWork, Idle
    <2>2. req[r].id \in Bills
      BY <2>1 DEF BillWork
    <2>3. audits' = audits \union {AuditOfBill(req[r].id)}
      BY <1>2 DEF CreateBillWrite, AuditOfBill
    <2> QED
      BY <2>2, <2>3
  <1>3. ASSUME UNCHANGED audits
        PROVE  AuditsAreKeyed'
    BY <1>3
  <1> QED
    BY <1>1, <1>2, <1>3, StepKinds
    DEF RowsKept, CreateReceiptWrite, PostReceiptWrite, CreateReceiptRead, PostReceiptRead,
        PostReceiptRefresh

LEMMA EntryIsOf ==
    \A source, company, amount, lines : EntryFor(source, company, amount, lines).source = source
  BY DEF EntryFor

(* What is booked and audited under a free key is booked once. *)
LEMMA BookingOnce ==
    ASSUME DocumentsBookedOnce, NEW source, NEW entry, NEW audit,
           entry.source = source, audit.entry = source,
           source \notin Booked \union { <<"receipt", id>> : id \in Posted },
           \A other \in audits : other.key # audit.key,
           entries' = entries \union {entry}, audits' = audits \union {audit},
           Booked' = Booked \union {source}, Posted' = Posted
    PROVE  DocumentsBookedOnce'
  <1> USE DEF DocumentsBookedOnce
  <1>1. \A e \in entries : e.source # source
    OBVIOUS
  <1>2. (\A e, f \in entries : e.source = f.source => e = f)'
    BY <1>1
  <1>3. { e.source : e \in entries' } = { e.source : e \in entries } \union {source}
    OBVIOUS
  <1>4. { a.entry : a \in audits' } = { a.entry : a \in audits } \union {source}
    OBVIOUS
  <1>5. (\A a, b \in audits : a.key = b.key => a = b)'
    OBVIOUS
  <1> QED
    BY <1>2, <1>3, <1>4, <1>5

LEMMA StepBooked ==
    ASSUME TypeOK, TypeOK', AuditsAreKeyed, ReceiptsReserved, LinesNameInvoices,
           DocumentsBookedOnce, [Next]_vars
    PROVE  DocumentsBookedOnce'
  <1>1. ASSUME UNCHANGED <<entries, audits>>, Booked' = Booked, Posted' = Posted
        PROVE  DocumentsBookedOnce'
    BY <1>1 DEF DocumentsBookedOnce
  <1>2. ASSUME UNCHANGED <<invoices, bills>>
        PROVE  Booked' = Booked
    BY <1>2 DEF Booked
  <1>3. ASSUME UNCHANGED receipts
        PROVE  Posted' = Posted
    BY <1>3 DEF Posted
  <1>4. ASSUME NEW r \in Requests, CreateInvoiceWrite(r), UNCHANGED receiptVars
        PROVE  DocumentsBookedOnce'
    <2> DEFINE i == req[r].id
    <2>1. req[r] \in InvoiceWork /\ i \in Invoices
      BY <1>4 DEF CreateInvoiceWrite, TypeOK, Work, InvoiceWork, BillWork, StockWork,
                  DraftWork, PostWork, CommitWork, Idle
    <2>2. invoices' = [invoices EXCEPT ![i] = invoices'[i]] /\ invoices'[i] # Absent
      BY <1>4, <2>1 DEF CreateInvoiceWrite, TypeOK, Absent
    <2>3. Booked' = Booked \union {<<"invoice", i>>}
      BY <1>4, <2>1, <2>2 DEF Booked, CreateInvoiceWrite, TypeOK
    <2>4. \A audit \in audits : audit.key # AuditOfInvoice(i).key
      BY <1>4 DEF CreateInvoiceWrite, KeyIsFree, AuditOfInvoice
    <2>5. \A audit \in audits : audit.entry # <<"invoice", i>>
      BY <2>4 DEF AuditsAreKeyed, AuditOfInvoice, AuditOfBill
    <2>6. <<"invoice", i>> \notin Booked \union { <<"receipt", id>> : id \in Posted }
      BY <2>5 DEF DocumentsBookedOnce
    <2>7. PICK entry : entry.source = <<"invoice", i>> /\ entries' = entries \union {entry}
      <3>1. \E company, amount, lines :
               entries' = entries \union {EntryFor(<<"invoice", i>>, company, amount, lines)}
        BY <1>4 DEF CreateInvoiceWrite
      <3> QED
        BY <3>1, EntryIsOf, Zenon
    <2>8. /\ AuditOfInvoice(i).entry = <<"invoice", i>>
          /\ audits' = audits \union {AuditOfInvoice(i)}
      BY <1>4 DEF CreateInvoiceWrite, AuditOfInvoice
    <2>9. Posted' = Posted
      BY <1>3, <1>4 DEF receiptVars
    <2> QED
      BY <2>3, <2>4, <2>6, <2>7, <2>8, <2>9, BookingOnce
  <1>5. ASSUME NEW r \in Requests, CreateBillWrite(r), UNCHANGED receiptVars
        PROVE  DocumentsBookedOnce'
    <2> DEFINE b == req[r].id
    <2>1. req[r] \in BillWork /\ b \in Bills
      BY <1>5 DEF CreateBillWrite, TypeOK, Work, InvoiceWork, BillWork, StockWork,
                  DraftWork, PostWork, CommitWork, Idle
    <2>2. bills' = [bills EXCEPT ![b] = bills'[b]] /\ bills'[b] # Absent
      BY <1>5, <2>1 DEF CreateBillWrite, TypeOK, Absent
    <2>3. Booked' = Booked \union {<<"bill", b>>}
      BY <1>5, <2>1, <2>2 DEF Booked, CreateBillWrite, TypeOK
    <2>4. \A audit \in audits : audit.key # AuditOfBill(b).key
      BY <1>5 DEF CreateBillWrite, KeyIsFree, AuditOfBill
    <2>5. \A audit \in audits : audit.entry # <<"bill", b>>
      BY <2>4 DEF AuditsAreKeyed, AuditOfInvoice, AuditOfBill
    <2>6. <<"bill", b>> \notin Booked \union { <<"receipt", id>> : id \in Posted }
      BY <2>5 DEF DocumentsBookedOnce
    <2>7. PICK entry : entry.source = <<"bill", b>> /\ entries' = entries \union {entry}
      <3>1. \E company, amount, lines :
               entries' = entries \union {EntryFor(<<"bill", b>>, company, amount, lines)}
        BY <1>5 DEF CreateBillWrite
      <3> QED
        BY <3>1, EntryIsOf, Zenon
    <2>8. /\ AuditOfBill(b).entry = <<"bill", b>>
          /\ audits' = audits \union {AuditOfBill(b)}
      BY <1>5 DEF CreateBillWrite, AuditOfBill
    <2>9. Posted' = Posted
      BY <1>3, <1>5 DEF receiptVars
    <2> QED
      BY <2>3, <2>4, <2>6, <2>7, <2>8, <2>9, BookingOnce
  <1>6. ASSUME NEW r \in Requests, CreateReceiptWrite(r)
        PROVE  DocumentsBookedOnce'
    <2>1. req[r] \in DraftWork /\ receipts[req[r].id] = Absent
      BY <1>6 DEF CreateReceiptWrite, TypeOK, Work, InvoiceWork, BillWork, StockWork,
                  DraftWork, PostWork, CommitWork, Idle, ReceiptsReserved
    <2>2. req[r].id \in Receipts
      BY <2>1 DEF DraftWork
    <2>3. Posted' = Posted
      BY <1>6, <2>1, <2>2 DEF CreateReceiptWrite, Posted, TypeOK, Absent
    <2> QED
      BY <1>1, <1>2, <1>6, <2>3 DEF CreateReceiptWrite
  <1>7. ASSUME NEW r \in Requests, PostReceiptWrite(r)
        PROVE  DocumentsBookedOnce'
    <2> DEFINE id == req[r].id
    <2>1. /\ req[r] \in CommitWork /\ receipts[id] \in ReceiptRow
          /\ \A i \in DOMAIN req[r].statuses :
                /\ i \in Invoices /\ invoices[i] \in InvoiceRow
                /\ req[r].statuses[i] \in InvoiceStatuses
      BY <1>7, CommitFinds DEF PostReceiptWrite
    <2>2. id \in Receipts
      BY <2>1 DEF CommitWork
    <2>3. Posted' = Posted \union {id}
      BY <1>7, <2>1, <2>2, MarkedIsPosted DEF PostReceiptWrite, Posted
    <2>4. Booked' = Booked
      BY <1>7, <2>1, RefreshedKeepsInvoices DEF PostReceiptWrite, Booked
    <2>5. PICK entry : entry.source = <<"receipt", id>> /\ entries' = entries \union {entry}
      <3>1. \E company, amount, lines :
               entries' = entries \union {EntryFor(<<"receipt", id>>, company, amount, lines)}
        BY <1>7 DEF PostReceiptWrite
      <3> QED
        BY <3>1, EntryIsOf, Zenon
    <2>6. \A e \in entries : e.source # <<"receipt", id>>
      BY <1>7 DEF PostReceiptWrite, ReferenceIsFree
    <2>7. (\A e, f \in entries : e.source = f.source => e = f)'
      BY <2>5, <2>6 DEF DocumentsBookedOnce
    <2>8. { e.source : e \in entries' } = { e.source : e \in entries } \union {<<"receipt", id>>}
      BY <2>5
    <2>9. { <<"receipt", x>> : x \in Posted' }
            = { <<"receipt", x>> : x \in Posted } \union {<<"receipt", id>>}
      BY <2>3
    <2>10. audits' = audits
      BY <1>7 DEF PostReceiptWrite
    <2> QED
      BY <2>4, <2>7, <2>8, <2>9, <2>10 DEF DocumentsBookedOnce
  <1>8. CASE UNCHANGED <<invoices, bills, receipts, entries, audits>>
    BY <1>1, <1>2, <1>3, <1>8
  <1> QED
    BY <1>4, <1>5, <1>6, <1>7, <1>8, StepKinds
    DEF RowsKept, CreateReceiptRead, PostReceiptRead, PostReceiptRefresh, receiptVars

-----------------------------------------------------------------------------
(* What requests and receipts refer to exists. *)

LEMMA WritesKeepDocuments ==
    ASSUME TypeOK, TypeOK', ReceiptsReserved, LinesNameInvoices, [Next]_vars
    PROVE  /\ \A i \in Invoices : invoices[i] # Absent => invoices'[i] # Absent
           /\ \A id \in Receipts : receipts[id] # Absent => receipts'[id] # Absent
  <1>1. ASSUME NEW r \in Requests, CreateInvoiceWrite(r)
        PROVE  \A i \in Invoices : invoices[i] # Absent => invoices'[i] # Absent
    BY <1>1 DEF CreateInvoiceWrite, TypeOK, Absent
  <1>2. ASSUME NEW r \in Requests, CreateReceiptWrite(r)
        PROVE  \A id \in Receipts : receipts[id] # Absent => receipts'[id] # Absent
    BY <1>2 DEF CreateReceiptWrite, TypeOK, Absent
  <1>3. ASSUME NEW r \in Requests, PostReceiptWrite(r)
        PROVE  /\ \A i \in Invoices : invoices[i] # Absent => invoices'[i] # Absent
               /\ \A id \in Receipts : receipts[id] # Absent => receipts'[id] # Absent
    <2>1. /\ req[r] \in CommitWork /\ receipts[req[r].id] \in ReceiptRow
          /\ \A i \in DOMAIN req[r].statuses :
                /\ i \in Invoices /\ invoices[i] \in InvoiceRow
                /\ req[r].statuses[i] \in InvoiceStatuses
      BY <1>3, CommitFinds DEF PostReceiptWrite
    <2>2. req[r].id \in Receipts
      BY <2>1 DEF CommitWork
    <2> QED
      BY <1>3, <2>1, <2>2, MarkedIsPosted, RefreshedKeepsInvoices DEF PostReceiptWrite
  <1> QED
    BY <1>1, <1>2, <1>3, StepKinds
    DEF RowsKept, CreateInvoiceWrite, CreateBillWrite, CreateReceiptWrite, CreateReceiptRead,
        PostReceiptRead, PostReceiptRefresh, receiptVars

LEMMA StepLines ==
    ASSUME TypeOK, TypeOK', ReceiptsReserved, LinesNameInvoices, [Next]_vars
    PROVE  LinesNameInvoices'
  <1>1. \A lines : InvoicesExist(lines, invoices) => InvoicesExist(lines, invoices')
    BY WritesKeepDocuments DEF InvoicesExist
  <1>2. \A r \in Requests : req[r].op = "commitReceipt" =>
            \A i \in DOMAIN req[r].statuses : i \in Invoices /\ invoices'[i] # Absent
    BY CommitFinds, WritesKeepDocuments DEF LinesNameInvoices
  <1>3. ASSUME RequestsKept
        PROVE  /\ \A s \in Requests :
                     req'[s].op = "createReceipt" => InvoicesExist(req'[s].form.lines, invoices')
               /\ \A s \in Requests : req'[s].op = "commitReceipt" =>
                     \A i \in DOMAIN req'[s].statuses : invoices'[i] # Absent
    BY <1>1, <1>2, <1>3 DEF RequestsKept, Reserving, LinesNameInvoices
  <1>4. ASSUME UNCHANGED receipts
        PROVE  \A id \in Receipts : receipts'[id] # Absent => InvoicesExist(receipts'[id].lines, invoices')
    BY <1>1, <1>4 DEF LinesNameInvoices
  <1>5. CASE RowsKept /\ RequestsKept
    BY <1>3, <1>4, <1>5 DEF RowsKept, LinesNameInvoices
  <1>6. ASSUME NEW r \in Requests,
               \/ CreateInvoiceWrite(r) /\ UNCHANGED receiptVars
               \/ CreateBillWrite(r) /\ UNCHANGED receiptVars
        PROVE  LinesNameInvoices'
    <2>1. RequestsKept /\ UNCHANGED receipts
      BY <1>6, FinishKeepsRequests DEF CreateInvoiceWrite, CreateBillWrite, receiptVars
    <2> QED
      BY <1>3, <1>4, <2>1 DEF LinesNameInvoices
  <1>7. ASSUME NEW r \in Requests, CreateReceiptWrite(r)
        PROVE  LinesNameInvoices'
    <2>1. RequestsKept
      BY <1>7, FinishKeepsRequests DEF CreateReceiptWrite
    <2>2. req[r] \in DraftWork /\ InvoicesExist(req[r].form.lines, invoices)
      BY <1>7 DEF CreateReceiptWrite, TypeOK, Work, InvoiceWork, BillWork, StockWork,
                  DraftWork, PostWork, CommitWork, Idle, LinesNameInvoices
    <2>3. req[r].id \in Receipts
      BY <2>2 DEF DraftWork
    <2>4. \A id \in Receipts : \/ receipts'[id] = receipts[id]
                              \/ receipts'[id].lines = req[r].form.lines
      BY <1>7, <2>3 DEF CreateReceiptWrite, TypeOK
    <2>5. \A id \in Receipts : receipts'[id] # Absent => InvoicesExist(receipts'[id].lines, invoices')
      BY <1>1, <2>2, <2>4 DEF LinesNameInvoices
    <2> QED
      BY <1>3, <2>1, <2>5 DEF LinesNameInvoices
  <1>8. ASSUME NEW r \in Requests, PostReceiptWrite(r)
        PROVE  LinesNameInvoices'
    <2>1. RequestsKept
      BY <1>8, FinishKeepsRequests DEF PostReceiptWrite
    <2>2. req[r] \in CommitWork /\ receipts[req[r].id] \in ReceiptRow
      BY <1>8, CommitFinds DEF PostReceiptWrite
    <2>3. req[r].id \in Receipts
      BY <2>2 DEF CommitWork
    <2>4. \A id \in Receipts :
              /\ receipts'[id] # Absent => receipts[id] # Absent
              /\ receipts'[id] = receipts[id] \/ receipts'[id].lines = receipts[id].lines
      BY <1>8, <2>2, <2>3, MarkedIsPosted DEF PostReceiptWrite
    <2>5. \A id \in Receipts : receipts'[id] # Absent => InvoicesExist(receipts'[id].lines, invoices')
      BY <1>1, <2>4 DEF LinesNameInvoices
    <2> QED
      BY <1>3, <2>1, <2>5 DEF LinesNameInvoices
  <1>9. ASSUME NEW r \in Requests, NEW id \in Receipts, NEW form \in ReceiptForms,
               CreateReceiptRead(r, id, form)
        PROVE  LinesNameInvoices'
    <2>1. InvoicesExist(form.lines, invoices)
      BY <1>9, FormsAssumption DEF CreateReceiptRead, Prepared, InvoicesExist
    <2>2. /\ req'[r].op = "createReceipt" /\ req'[r].form = form
          /\ \A s \in Requests : s # r => req'[s] = req[s]
      BY <1>9 DEF CreateReceiptRead, Begin, TypeOK
    <2> QED
      BY <1>1, <1>2, <1>4, <1>9, <2>1, <2>2 DEF CreateReceiptRead, receiptVars, LinesNameInvoices
  <1>10. ASSUME NEW r \in Requests, NEW id \in Receipts, PostReceiptRead(r, id)
         PROVE  LinesNameInvoices'
    <2>1. /\ req'[r].op = "postReceipt"
          /\ \A s \in Requests : s # r => req'[s] = req[s]
      BY <1>10 DEF PostReceiptRead, Begin, TypeOK
    <2> QED
      BY <1>1, <1>2, <1>4, <1>10, <2>1 DEF PostReceiptRead, receiptVars, LinesNameInvoices
  <1>11. ASSUME NEW r \in Requests, PostReceiptRefresh(r)
         PROVE  LinesNameInvoices'
    <2>1. req[r] \in PostWork /\ receipts[req[r].id] # Absent
      BY <1>11 DEF PostReceiptRefresh, TypeOK, Work, InvoiceWork, BillWork, StockWork,
                   DraftWork, PostWork, CommitWork, Idle, ReceiptsReserved
    <2>2. InvoicesExist(receipts[req[r].id].lines, invoices)
      BY <2>1 DEF LinesNameInvoices, PostWork
    <2>3. \A i \in DOMAIN StatusesAfter(req[r].id) : invoices[i] # Absent
      BY <2>2 DEF StatusesAfter, InvoicesOf, LinesOn, InvoicesExist
    <2>4. /\ req'[r].op = "commitReceipt" /\ req'[r].statuses = StatusesAfter(req[r].id)
          /\ \A s \in Requests : s # r => req'[s] = req[s]
      BY <1>11 DEF PostReceiptRefresh, TypeOK
    <2>5. UNCHANGED <<invoices, receipts>>
      BY <1>11 DEF PostReceiptRefresh, receiptVars
    <2> QED
      BY <1>1, <1>2, <1>4, <2>3, <2>4, <2>5 DEF LinesNameInvoices
  <1> QED
    BY <1>5, <1>6, <1>7, <1>8, <1>9, <1>10, <1>11, StepKinds

LEMMA StepReserved ==
    ASSUME TypeOK, TypeOK', ReceiptsReserved, LinesNameInvoices, [Next]_vars
    PROVE  ReceiptsReserved'
  <1>1. ASSUME RequestsKept, UNCHANGED receipts
        PROVE  ReceiptsReserved'
    BY <1>1 DEF RequestsKept, Reserving, ReceiptsReserved
  <1>2. ASSUME NEW r \in Requests,
               \/ CreateInvoiceWrite(r) /\ UNCHANGED receiptVars
               \/ CreateBillWrite(r) /\ UNCHANGED receiptVars
        PROVE  ReceiptsReserved'
    <2>1. RequestsKept /\ UNCHANGED receipts
      BY <1>2, FinishKeepsRequests DEF CreateInvoiceWrite, CreateBillWrite, receiptVars
    <2> QED
      BY <1>1, <2>1
  <1>3. ASSUME NEW r \in Requests, CreateReceiptWrite(r)
        PROVE  ReceiptsReserved'
    <2>1. /\ req'[r].op = "idle"
          /\ \A s \in Requests : s # r => req'[s] = req[s]
      BY <1>3, FinishKeepsRequests DEF CreateReceiptWrite
    <2>2. req[r].op = "createReceipt" /\ req[r] \in DraftWork
      BY <1>3 DEF CreateReceiptWrite, TypeOK, Work, InvoiceWork, BillWork, StockWork,
                  DraftWork, PostWork, CommitWork, Idle
    <2>3. \A id \in Receipts : id # req[r].id => receipts'[id] = receipts[id]
      BY <1>3 DEF CreateReceiptWrite, TypeOK
    <2>4. \A s \in Requests : req[s].op \in Reserving => req[s].id \in Receipts
      BY DEF TypeOK, Work, InvoiceWork, BillWork, StockWork, DraftWork, PostWork, CommitWork,
             Idle, Reserving
    <2>5. \A id \in Receipts : receipts[id] # Absent => receipts'[id] # Absent
      BY WritesKeepDocuments
    <2> QED
      BY <2>1, <2>2, <2>3, <2>4, <2>5 DEF ReceiptsReserved, Reserving
  <1>4. ASSUME NEW r \in Requests, PostReceiptWrite(r)
        PROVE  ReceiptsReserved'
    <2>1. /\ req'[r].op = "idle"
          /\ \A s \in Requests : s # r => req'[s] = req[s]
      BY <1>4, FinishKeepsRequests DEF PostReceiptWrite
    <2>2. req[r] \in CommitWork /\ receipts[req[r].id] \in ReceiptRow
      BY <1>4, CommitFinds DEF PostReceiptWrite
    <2>3. \A id \in Receipts : receipts'[id] = Absent <=> receipts[id] = Absent
      BY <1>4, <2>2, MarkedIsPosted DEF PostReceiptWrite, CommitWork
    <2>4. \A s \in Requests : req[s].op \in Reserving => req[s].id \in Receipts
      BY DEF TypeOK, Work, InvoiceWork, BillWork, StockWork, DraftWork, PostWork, CommitWork,
             Idle, Reserving
    <2> QED
      BY <2>1, <2>3, <2>4 DEF ReceiptsReserved, Reserving
  <1>5. ASSUME NEW r \in Requests, NEW id \in Receipts, NEW form \in ReceiptForms,
               CreateReceiptRead(r, id, form)
        PROVE  ReceiptsReserved'
    <2>1. /\ req'[r].op = "createReceipt" /\ req'[r].id = id
          /\ \A s \in Requests : s # r => req'[s] = req[s]
      BY <1>5 DEF CreateReceiptRead, Begin, TypeOK
    <2>2. /\ receipts[id] = Absent /\ UNCHANGED receipts
          /\ \A s \in Requests : req[s].op # "idle" => req[s].id # id
      BY <1>5, IdleIsNothing DEF CreateReceiptRead, IsNew, receiptVars
    <2> QED
      BY <2>1, <2>2 DEF ReceiptsReserved
  <1>6. ASSUME NEW r \in Requests, NEW id \in Receipts, PostReceiptRead(r, id)
        PROVE  ReceiptsReserved'
    <2>1. /\ req'[r].op = "postReceipt" /\ req'[r].id = id
          /\ \A s \in Requests : s # r => req'[s] = req[s]
      BY <1>6 DEF PostReceiptRead, Begin, TypeOK
    <2>2. receipts[id] # Absent /\ UNCHANGED receipts
      BY <1>6 DEF PostReceiptRead, receiptVars
    <2> QED
      BY <2>1, <2>2 DEF ReceiptsReserved
  <1>7. ASSUME NEW r \in Requests, PostReceiptRefresh(r)
        PROVE  ReceiptsReserved'
    <2>1. /\ req'[r].op = "commitReceipt" /\ req'[r].id = req[r].id
          /\ \A s \in Requests : s # r => req'[s] = req[s]
      BY <1>7 DEF PostReceiptRefresh, TypeOK
    <2>2. req[r].op = "postReceipt" /\ UNCHANGED receipts
      BY <1>7 DEF PostReceiptRefresh, receiptVars
    <2> QED
      BY <2>1, <2>2 DEF ReceiptsReserved
  <1> QED
    BY <1>1, <1>2, <1>3, <1>4, <1>5, <1>6, <1>7, StepKinds DEF RowsKept

-----------------------------------------------------------------------------
(* The numbers of a company. *)

(* A number that was the next one when it was read and is free now is the  *)
(* next one still.                                                         *)
LEMMA FreeNumberIsNext ==
    ASSUME TypeOK, NumbersAreTaken, NEW r \in Requests, CreateReceiptWrite(r)
    PROVE  req[r].number = Cardinality(ReceiptsOf(req[r].form.company)) + 1
  <1> DEFINE c == req[r].form.company
  <1>1. req[r] \in DraftWork
    BY DEF CreateReceiptWrite, TypeOK, Work, InvoiceWork, BillWork, StockWork,
           DraftWork, PostWork, CommitWork, Idle
  <1>2. c \in Companies /\ req[r].number \in Nat \ {0}
    BY <1>1, FormsAssumption DEF DraftWork
  <1>3. Numbered(c) /\ req[r].number <= NextNumber(c)
    BY <1>2 DEF NumbersAreTaken, CreateReceiptWrite
  <1>4. IsFiniteSet(ReceiptsOf(c))
    BY RowsAreBounded, FS_Subset DEF ReceiptsOf
  <1>5. Cardinality(ReceiptsOf(c)) \in Nat
    BY <1>4, FS_CardinalityType
  <1>6. req[r].number \notin { receipts[id].number : id \in ReceiptsOf(c) }
    BY DEF CreateReceiptWrite, NumberIsFree, ReceiptsOf
  <1>7. req[r].number \notin 1 .. Cardinality(ReceiptsOf(c))
    BY <1>3, <1>6 DEF Numbered
  <1>8. req[r].number <= Cardinality(ReceiptsOf(c)) + 1
    BY <1>3 DEF Numbered
  <1> QED
    BY <1>2, <1>5, <1>7, <1>8

LEMMA StepNumbers ==
    ASSUME TypeOK, TypeOK', ReceiptsReserved, LinesNameInvoices, NumbersAreTaken, [Next]_vars
    PROVE  NumbersAreTaken'
  <1>1. ASSUME UNCHANGED <<receipts, sequence>>
        PROVE  \A c \in Companies : Numbered(c)' /\ NextNumber(c)' = NextNumber(c)
    <2> SUFFICES ASSUME NEW c \in Companies
                 PROVE  Numbered(c)' /\ NextNumber(c)' = NextNumber(c)
      OBVIOUS
    <2>1. receipts' = receipts /\ sequence' = sequence
      BY <1>1
    <2>2. ReceiptsOf(c)' = ReceiptsOf(c)
      BY <2>1, Zenon DEF ReceiptsOf
    <2>3. NextNumber(c)' = NextNumber(c)
      BY <2>1 DEF NextNumber
    <2>4. Numbered(c)
      BY DEF NumbersAreTaken
    <2>5. Numbered(c)'
      <3> DEFINE numbers == { receipts[id].number : id \in ReceiptsOf(c) }
      <3>1. numbers' = numbers
        BY <2>1, <2>2, Zenon
      <3> QED
        BY <2>1, <2>2, <2>3, <2>4, <3>1, Zenon DEF Numbered
    <2> QED
      BY <2>3, <2>5
  <1>2. \A s \in Requests : req[s].op = "createReceipt" =>
            req[s].form.company \in Companies /\ req[s].number \in Nat
    BY FormsAssumption DEF TypeOK, Work, InvoiceWork, BillWork, StockWork, DraftWork,
                           PostWork, CommitWork, Idle
  <1>3. ASSUME UNCHANGED <<receipts, sequence>>, RequestsKept
        PROVE  NumbersAreTaken'
    BY <1>1, <1>2, <1>3 DEF RequestsKept, Reserving, NumbersAreTaken
  <1>4. ASSUME NEW r \in Requests,
               \/ CreateInvoiceWrite(r) /\ UNCHANGED receiptVars
               \/ CreateBillWrite(r) /\ UNCHANGED receiptVars
        PROVE  NumbersAreTaken'
    <2>1. RequestsKept /\ UNCHANGED <<receipts, sequence>>
      BY <1>4, FinishKeepsRequests DEF CreateInvoiceWrite, CreateBillWrite, receiptVars
    <2> QED
      BY <1>3, <2>1
  <1>5. ASSUME NEW r \in Requests, CreateReceiptWrite(r)
        PROVE  NumbersAreTaken'
    <2>1. req[r] \in DraftWork /\ receipts[req[r].id] = Absent
      BY <1>5 DEF CreateReceiptWrite, TypeOK, Work, InvoiceWork, BillWork, StockWork,
                  DraftWork, PostWork, CommitWork, Idle, ReceiptsReserved
    <2>2. PICK c \in Companies, n \in Nat \ {0}, id \in Receipts :
              c = req[r].form.company /\ n = req[r].number /\ id = req[r].id
      BY <2>1, FormsAssumption DEF DraftWork
    <2>3. n = Cardinality(ReceiptsOf(c)) + 1
      BY <1>5, <2>2, FreeNumberIsNext
    <2>4. /\ receipts'[id] # Absent
          /\ receipts'[id].company = c /\ receipts'[id].number = n
          /\ \A x \in Receipts : x # id => receipts'[x] = receipts[x]
      BY <1>5, <2>2 DEF CreateReceiptWrite, TypeOK, Absent
    <2>5. /\ sequence'[c] = n + 1
          /\ \A d \in Companies : d # c => sequence'[d] = sequence[d]
      BY <1>5, <2>2 DEF CreateReceiptWrite, TypeOK
    <2>6. PICK old : old = ReceiptsOf(c) /\ IsFiniteSet(old) /\ id \notin old
      <3>1. IsFiniteSet(ReceiptsOf(c))
        BY RowsAreBounded, FS_Subset DEF ReceiptsOf
      <3>2. id \notin ReceiptsOf(c)
        BY <2>1, <2>2 DEF ReceiptsOf
      <3> QED
        BY <3>1, <3>2
    <2>7. ReceiptsOf(c)' = old \union {id}
      BY <2>2, <2>4, <2>6 DEF ReceiptsOf
    <2>8. Cardinality(ReceiptsOf(c)') = n
      BY <2>3, <2>6, <2>7, FS_AddElement, FS_CardinalityType
    <2>9. { receipts'[x].number : x \in ReceiptsOf(c)' } = (1 .. n - 1) \union {n}
      <3>1. { receipts[x].number : x \in old } = 1 .. n - 1
        BY <2>2, <2>3, <2>6, FS_CardinalityType DEF NumbersAreTaken, Numbered
      <3>2. \A x \in old : x \in Receipts /\ receipts'[x] = receipts[x]
        BY <2>4, <2>6 DEF ReceiptsOf
      <3>3. { receipts'[x].number : x \in old } = { receipts[x].number : x \in old }
        BY <3>2
      <3>4. { receipts'[x].number : x \in old \union {id} }
              = { receipts'[x].number : x \in old } \union {n}
        BY <2>4
      <3> QED
        BY <2>7, <3>1, <3>3, <3>4
    <2>10. Numbered(c)'
      <3>1. (1 .. n - 1) \union {n} = 1 .. n
        BY <2>2
      <3>2. NextNumber(c)' = n + 1 /\ sequence'[c] # 0
        BY <2>2, <2>5 DEF NextNumber
      <3> QED
        BY <2>8, <2>9, <3>1, <3>2 DEF Numbered
    <2>11. ASSUME NEW d \in Companies, d # c
           PROVE  Numbered(d)' /\ NextNumber(d)' = NextNumber(d)
      <3>1. ReceiptsOf(d)' = ReceiptsOf(d)
        BY <2>1, <2>2, <2>4, <2>11 DEF ReceiptsOf
      <3>2. \A x \in ReceiptsOf(d) : receipts'[x] = receipts[x]
        BY <2>1, <2>2, <2>4 DEF ReceiptsOf
      <3>3. { receipts'[x].number : x \in ReceiptsOf(d) }
              = { receipts[x].number : x \in ReceiptsOf(d) }
        BY <3>2
      <3>4. NextNumber(d)' = NextNumber(d) /\ sequence'[d] = sequence[d]
        BY <2>5, <2>11 DEF NextNumber
      <3> QED
        BY <3>1, <3>3, <3>4 DEF Numbered, NumbersAreTaken
    <2>12. NextNumber(c)' = n + 1 /\ NextNumber(c) = n
      BY <2>2, <2>3, <2>5 DEF NextNumber, NumbersAreTaken, Numbered
    <2>13. RequestsKept
      BY <1>5, FinishKeepsRequests DEF CreateReceiptWrite
    <2>14. \A s \in Requests : req'[s].op = "createReceipt" =>
               /\ req'[s] = req[s]
               /\ req[s].number \in Nat /\ req[s].form.company \in Companies
               /\ req[s].number <= NextNumber(req[s].form.company)
      BY <1>2, <2>13 DEF RequestsKept, Reserving, NumbersAreTaken
    <2>15. ASSUME NEW s \in Requests, req'[s].op = "createReceipt"
           PROVE  (req[s].number <= NextNumber(req[s].form.company))'
      <3>1. PICK d \in Companies : d = req[s].form.company /\ req'[s] = req[s]
        BY <2>14, <2>15
      <3>2. req[s].number <= NextNumber(d)'
        BY <2>2, <2>11, <2>12, <2>14, <2>15, <3>1
      <3> QED
        BY <3>1, <3>2 DEF NextNumber
    <2> QED
      BY <2>10, <2>11, <2>15, <2>2 DEF NumbersAreTaken, NextNumber
  <1>6. ASSUME NEW r \in Requests, PostReceiptWrite(r)
        PROVE  NumbersAreTaken'
    <2>1. req[r] \in CommitWork /\ receipts[req[r].id] \in ReceiptRow
      BY <1>6, CommitFinds DEF PostReceiptWrite
    <2>2. \A x \in Receipts :
              /\ receipts'[x] = Absent <=> receipts[x] = Absent
              /\ receipts'[x].company = receipts[x].company
              /\ receipts'[x].number = receipts[x].number
      BY <1>6, <2>1, MarkedIsPosted DEF PostReceiptWrite, CommitWork
    <2>3. ASSUME NEW c \in Companies
          PROVE  Numbered(c)' /\ NextNumber(c)' = NextNumber(c)
      <3>1. ReceiptsOf(c)' = ReceiptsOf(c)
        BY <2>2 DEF ReceiptsOf
      <3>2. { receipts'[x].number : x \in ReceiptsOf(c) }
              = { receipts[x].number : x \in ReceiptsOf(c) }
        BY <2>2 DEF ReceiptsOf
      <3>3. sequence' = sequence
        BY <1>6 DEF PostReceiptWrite
      <3> QED
        BY <3>1, <3>2, <3>3 DEF Numbered, NextNumber, NumbersAreTaken
    <2>4. RequestsKept
      BY <1>6, FinishKeepsRequests DEF PostReceiptWrite
    <2> QED
      BY <1>2, <2>3, <2>4 DEF RequestsKept, Reserving, NumbersAreTaken
  <1>7. ASSUME NEW r \in Requests, NEW id \in Receipts, NEW form \in ReceiptForms,
               CreateReceiptRead(r, id, form)
        PROVE  NumbersAreTaken'
    <2>1. /\ req'[r].form = form /\ req'[r].number = NextNumber(form.company)
          /\ \A s \in Requests : s # r => req'[s] = req[s]
      BY <1>7 DEF CreateReceiptRead, Begin, TypeOK
    <2>2. UNCHANGED <<receipts, sequence>>
      BY <1>7 DEF CreateReceiptRead, receiptVars
    <2>3. form.company \in Companies /\ NextNumber(form.company) \in Nat
      BY FormsAssumption DEF NextNumber, TypeOK
    <2> QED
      BY <1>1, <1>2, <2>1, <2>2, <2>3 DEF NumbersAreTaken
  <1>8. ASSUME NEW r \in Requests, NEW id \in Receipts, PostReceiptRead(r, id)
        PROVE  NumbersAreTaken'
    <2>1. /\ req'[r].op = "postReceipt"
          /\ \A s \in Requests : s # r => req'[s] = req[s]
      BY <1>8 DEF PostReceiptRead, Begin, TypeOK
    <2>2. UNCHANGED <<receipts, sequence>>
      BY <1>8 DEF PostReceiptRead, receiptVars
    <2> QED
      BY <1>1, <1>2, <2>1, <2>2 DEF NumbersAreTaken
  <1>9. ASSUME NEW r \in Requests, PostReceiptRefresh(r)
        PROVE  NumbersAreTaken'
    <2>1. /\ req'[r].op = "commitReceipt"
          /\ \A s \in Requests : s # r => req'[s] = req[s]
      BY <1>9 DEF PostReceiptRefresh, TypeOK
    <2>2. UNCHANGED <<receipts, sequence>>
      BY <1>9 DEF PostReceiptRefresh, receiptVars
    <2> QED
      BY <1>1, <1>2, <2>1, <2>2 DEF NumbersAreTaken
  <1> QED
    BY <1>3, <1>4, <1>5, <1>6, <1>7, <1>8, <1>9, StepKinds DEF RowsKept

-----------------------------------------------------------------------------
LEMMA InitBooks == Init => BooksInv
  <1> SUFFICES ASSUME Init
               PROVE  BooksInv
    OBVIOUS
  <1> USE DEF Init, TradeInit
  <1>1. TypeOK
    BY InitTypes
  <1>2. AuditsAreKeyed
    BY DEF AuditsAreKeyed
  <1>3. LinesNameInvoices /\ ReceiptsReserved
    BY IdleIsNothing DEF LinesNameInvoices, ReceiptsReserved
  <1>4. Booked = {} /\ Posted = {}
    BY DEF Booked, Posted, Absent
  <1>5. DocumentsBookedOnce
    BY <1>4 DEF DocumentsBookedOnce
  <1>6. ASSUME NEW c \in Companies
        PROVE  Numbered(c)
    <2>1. ReceiptsOf(c) = {}
      BY DEF ReceiptsOf
    <2>2. Cardinality(ReceiptsOf(c)) = 0
      BY <2>1, FS_EmptySet
    <2> QED
      BY <2>1, <2>2 DEF Numbered, NextNumber
  <1>7. NumbersAreTaken
    BY <1>6, IdleIsNothing DEF NumbersAreTaken
  <1> QED
    BY <1>1, <1>2, <1>3, <1>5, <1>7 DEF BooksInv

LEMMA StepBooks == BooksInv /\ [Next]_vars => BooksInv'
  <1> SUFFICES ASSUME BooksInv, [Next]_vars
               PROVE  BooksInv'
    OBVIOUS
  <1>1. TypeOK'
    BY StepTypes DEF BooksInv
  <1> QED
    BY <1>1, StepAudits, StepLines, StepReserved, StepBooked, StepNumbers DEF BooksInv

LEMMA BooksCorrect == Spec => []BooksInv
  BY InitBooks, StepBooks, PTL DEF Spec

(* Every variable of the documents and of the requests keeps its type,     *)
(* whatever forms the clients send (createInvoice, createBill, moveStock,  *)
(* createReceipt, postReceipt).                                            *)
THEOREM TypeCorrect == Spec => []TypeOK
  <1>1. BooksInv => TypeOK
    BY DEF BooksInv
  <1> QED
    BY <1>1, BooksCorrect, PTL

(* However requests overlap or die, a document has one journal entry, and  *)
(* every entry and audit row is of a document (post, postReceipt).         *)
THEOREM EachDocumentBookedOnce == Spec => []DocumentsBookedOnce
  <1>1. BooksInv => DocumentsBookedOnce
    BY DEF BooksInv
  <1> QED
    BY <1>1, BooksCorrect, PTL

(* However requests overlap or die, the receipts of a company are numbered *)
(* from 1 without a gap (nextReceiptNumber).                               *)
THEOREM ReceiptNumbersHaveNoGaps == Spec => []NumbersGapFree
  <1>1. BooksInv => NumbersGapFree
    BY DEF BooksInv, NumbersAreTaken, Numbered, NextNumber, NumbersGapFree, ReceiptsOf
  <1> QED
    BY <1>1, BooksCorrect, PTL

-----------------------------------------------------------------------------
(* mergeLines leaves lines with different keys as they are: the fold over  *)
(* the lines is unfolded one set of indices at a time.                     *)

MergeStep(lines, s, g) ==
    IF s = {} THEN <<>> ELSE Merge(g[s \ {Max(s)}], lines[Max(s)])

Merged(lines, S) == CHOOSE g : g = [s \in SUBSET S |-> MergeStep(lines, s, g)]

LEMMA MergeLinesIsMerged ==
    ASSUME NEW lines
    PROVE  MergeLines(lines) = Merged(lines, DOMAIN lines)[DOMAIN lines]
  BY DEF MergeLines, FoldLeft, MapThenFoldSet, Merged, MergeStep

LEMMA MaxOfNumbers ==
    ASSUME NEW n \in Nat, NEW s \in SUBSET (1 .. n), s # {}
    PROVE  Max(s) \in s /\ \A y \in s : Max(s) >= y
  <1> DEFINE T == {n - x : x \in s}
             Is(x) == x \in s /\ \A y \in s : x >= y
  <1>1. \A x \in s : x \in 1 .. n /\ n - x \in Nat
    OBVIOUS
  <1>2. PICK m \in T : \A k \in T : m <= k
    <2>1. T \subseteq Nat /\ T # {}
      BY <1>1
    <2> QED
      BY <2>1, LeastNumber
  <1>3. PICK x \in s : m = n - x
    BY <1>2
  <1>4. \A y \in s : n - y \in T
    OBVIOUS
  <1>5. Is(x)
    BY <1>1, <1>2, <1>3, <1>4
  <1>6. Max(s) = CHOOSE y : Is(y)
    BY DEF Max
  <1> HIDE DEF Is
  <1>7. Is(Max(s))
    BY <1>5, <1>6
  <1> QED
    BY <1>7 DEF Is

LEMMA MergedExists ==
    ASSUME NEW n \in Nat, NEW lines
    PROVE  \E g : g = [s \in SUBSET (1 .. n) |-> MergeStep(lines, s, g)]
  <1> DEFINE Small(k) == SUBSET (1 .. k)
             Has(k) == \E g : g = [s \in Small(k) |-> MergeStep(lines, s, g)]
             Fails == {k \in 0 .. n : ~ Has(k)}
  <1>1. Has(0)
    <2>1. \A s \in Small(0) : s = {}
      OBVIOUS
    <2> DEFINE g == [s \in Small(0) |-> <<>>]
    <2>2. g = [s \in Small(0) |-> MergeStep(lines, s, g)]
      BY <2>1 DEF MergeStep
    <2> QED
      BY <2>2
  <1>2. ASSUME NEW k \in 0 .. n, k + 1 <= n, Has(k)
        PROVE  Has(k + 1)
    <2>1. PICK g : g = [s \in Small(k) |-> MergeStep(lines, s, g)]
      BY <1>2
    <2> DEFINE h == [s \in Small(k + 1) |-> MergeStep(lines, s, g)]
    <2>2. Small(k) \subseteq Small(k + 1)
      BY SMT
    <2>3. \A s \in Small(k) : h[s] = g[s]
      BY <2>1, <2>2
    <2>4. ASSUME NEW s \in Small(k + 1), s # {}
          PROVE  s \ {Max(s)} \in Small(k)
      <3>1. k + 1 \in Nat /\ s \in SUBSET (1 .. (k + 1))
        BY <1>2
      <3>2. PICK m : m = Max(s)
        OBVIOUS
      <3>3. m \in s /\ \A y \in s : m >= y
        BY <2>4, <3>1, <3>2, MaxOfNumbers
      <3>4. \A y \in s \ {m} : y \in 1 .. k
        BY <3>1, <3>3
      <3> QED
        BY <3>2, <3>4
    <2>5. ASSUME NEW s \in Small(k + 1)
          PROVE  MergeStep(lines, s, g) = MergeStep(lines, s, h)
      BY <2>3, <2>4 DEF MergeStep
    <2> HIDE DEF Small
    <2>6. h = [s \in Small(k + 1) |-> MergeStep(lines, s, h)]
      BY <2>5
    <2> QED
      BY <2>6
  <1>0. SUFFICES Has(n)
    OBVIOUS
  <1> HIDE DEF Has
  <1>3. SUFFICES ASSUME Fails # {} PROVE FALSE
    OBVIOUS
  <1>4. PICK k \in Fails : \A m \in Fails : k <= m
    <2>1. Fails \subseteq Nat
      OBVIOUS
    <2> QED
      BY <1>3, <2>1, LeastNumber
  <1>5. k # 0
    BY <1>1, <1>4
  <1>6. k - 1 \in 0 .. n /\ k - 1 \notin Fails
    BY <1>4, <1>5
  <1>7. Has((k - 1) + 1)
    BY <1>2, <1>4, <1>6
  <1> QED
    BY <1>4, <1>7

LEMMA MergedEquation ==
    ASSUME NEW n \in Nat, NEW lines, NEW s \in SUBSET (1 .. n)
    PROVE  Merged(lines, 1 .. n)[s] = MergeStep(lines, s, Merged(lines, 1 .. n))
  <1> DEFINE Is(g) == g = [t \in SUBSET (1 .. n) |-> MergeStep(lines, t, g)]
  <1>1. \E g : Is(g)
    BY MergedExists
  <1>2. Merged(lines, 1 .. n) = CHOOSE g : Is(g)
    BY DEF Merged
  <1> HIDE DEF Is
  <1>3. Is(Merged(lines, 1 .. n))
    BY <1>1, <1>2
  <1>4. PICK g : g = Merged(lines, 1 .. n)
    OBVIOUS
  <1>5. g = [t \in SUBSET (1 .. n) |-> MergeStep(lines, t, g)]
    BY <1>3, <1>4 DEF Is
  <1>6. g[s] = MergeStep(lines, s, g)
    BY <1>5
  <1> QED
    BY <1>4, <1>6

LEMMA NothingMerges ==
    ASSUME NEW lines, NEW n \in Nat, DOMAIN lines = 1 .. n,
           lines = [i \in 1 .. n |-> lines[i]],
           \A i, j \in 1 .. n : lines[i].memo = lines[j].memo => i = j
    PROVE  MergeLines(lines) = lines
  <1> DEFINE Prefix(k) == [i \in 1 .. k |-> lines[i]]
             Fails == {k \in 0 .. n : Merged(lines, 1 .. n)[1 .. k] # Prefix(k)}
  <1>1. Merged(lines, 1 .. n)[1 .. 0] = Prefix(0)
    <2>1. 1 .. 0 = {} /\ {} \in SUBSET (1 .. n)
      OBVIOUS
    <2>2. Merged(lines, 1 .. n)[{}] = <<>>
      BY <2>1, MergedEquation DEF MergeStep
    <2> QED
      BY <2>1, <2>2
  <1>2. ASSUME NEW k \in 0 .. n, k + 1 <= n,
               Merged(lines, 1 .. n)[1 .. k] = Prefix(k)
        PROVE  Merged(lines, 1 .. n)[1 .. (k + 1)] = Prefix(k + 1)
    <2> DEFINE s == 1 .. (k + 1)
    <2>1. s \in SUBSET (1 .. n) /\ s # {} /\ k + 1 \in s
      BY <1>2
    <2>2. Max(s) = k + 1
      <3>1. PICK m : m = Max(s)
        OBVIOUS
      <3>2. m \in s /\ \A y \in s : m >= y
        BY <2>1, <3>1, MaxOfNumbers
      <3> QED
        BY <2>1, <3>1, <3>2
    <2>3. s \ {k + 1} = 1 .. k
      BY <1>2
    <2>4. Merged(lines, 1 .. n)[s] = MergeStep(lines, s, Merged(lines, 1 .. n))
      BY <2>1, MergedEquation
    <2>5. Merged(lines, 1 .. n)[s] = Merge(Prefix(k), lines[k + 1])
      BY <1>2, <2>1, <2>2, <2>3, <2>4 DEF MergeStep
    <2>6. ~ \E i \in DOMAIN Prefix(k) : SameKey(Prefix(k)[i], lines[k + 1])
      BY <1>2 DEF SameKey
    <2>7. Merge(Prefix(k), lines[k + 1]) = Append(Prefix(k), lines[k + 1])
      <3>1. PICK rows : rows = Prefix(k)
        OBVIOUS
      <3>2. ~ \E i \in DOMAIN rows : SameKey(rows[i], lines[k + 1])
        BY <2>6, <3>1
      <3> QED
        BY <3>1, <3>2 DEF Merge
    <2>8. Len(Prefix(k)) = k
      OBVIOUS
    <2>9. Append(Prefix(k), lines[k + 1]) = Prefix(k + 1)
      BY <2>8
    <2> QED
      BY <2>5, <2>7, <2>9
  <1> HIDE DEF Prefix
  <1>3. Fails = {}
    <2>1. SUFFICES ASSUME Fails # {} PROVE FALSE
      OBVIOUS
    <2>2. PICK k \in Fails : \A m \in Fails : k <= m
      <3>1. Fails \subseteq Nat
        OBVIOUS
      <3> QED
        BY <2>1, <3>1, LeastNumber
    <2>3. k # 0
      BY <1>1, <2>2
    <2>4. k - 1 \in 0 .. n /\ k - 1 \notin Fails
      BY <2>2, <2>3
    <2>5. Merged(lines, 1 .. n)[1 .. ((k - 1) + 1)] = Prefix((k - 1) + 1)
      BY <1>2, <2>2, <2>4
    <2> QED
      BY <2>2, <2>5
  <1>4. Merged(lines, 1 .. n)[1 .. n] = Prefix(n)
    BY <1>3
  <1> QED
    BY <1>4, MergeLinesIsMerged DEF Prefix

-----------------------------------------------------------------------------
(* The lines of an entry, and what they come to once they are stored.      *)

DrLine(account, amount, memo) ==
    [account |-> account, debit |-> amount, credit |-> 0, memo |-> memo]

CrLine(account, amount, memo) ==
    [account |-> account, debit |-> 0, credit |-> amount, memo |-> memo]

LEMMA Concatenations ==
    ASSUME NEW x, NEW y, NEW z
    PROVE  /\ <<x>> \o <<y>> = <<x, y>>
           /\ <<x, y>> \o <<z>> = <<x, y, z>>
           /\ <<x, y>> \o <<>> = <<x, y>>
           /\ <<x, y, z>> \o <<>> = <<x, y, z>>
  <1> DEFINE S == {x, y, z}
  <1>0. /\ <<x>> \in Seq(S) /\ <<y>> \in Seq(S) /\ <<z>> \in Seq(S)
        /\ <<x, y>> \in Seq(S) /\ <<x, y, z>> \in Seq(S)
    OBVIOUS
  <1>1. <<x>> \o <<y>> = <<x, y>>
    <2>1. PICK s \in Seq(S), t \in Seq(S) : s = <<x>> /\ t = <<y>>
      BY <1>0
    <2>2. /\ s \o t \in Seq(S) /\ Len(s \o t) = 2
          /\ (s \o t)[1] = x /\ (s \o t)[2] = y
      BY <2>1, ConcatProperties
    <2>3. s \o t = <<x, y>>
      <3>1. PICK v \in Seq(S), w \in Seq(S) : v = s \o t /\ w = <<x, y>>
        BY <1>0, <2>2
      <3>2. Len(v) = Len(w) /\ \A i \in 1 .. Len(v) : v[i] = w[i]
        BY <2>2, <3>1
      <3>3. v = w
        BY <3>2, SeqEqual
      <3> QED
        BY <3>1, <3>3
    <2> QED
      BY <2>1, <2>3
  <1>2. <<x, y>> \o <<z>> = <<x, y, z>>
    <2>1. PICK s \in Seq(S), t \in Seq(S) : s = <<x, y>> /\ t = <<z>>
      BY <1>0
    <2>2. /\ s \o t \in Seq(S) /\ Len(s \o t) = 3
          /\ (s \o t)[1] = x /\ (s \o t)[2] = y /\ (s \o t)[3] = z
      BY <2>1, ConcatProperties
    <2>3. s \o t = <<x, y, z>>
      <3>1. PICK v \in Seq(S), w \in Seq(S) : v = s \o t /\ w = <<x, y, z>>
        BY <1>0, <2>2
      <3>2. Len(v) = Len(w) /\ \A i \in 1 .. Len(v) : v[i] = w[i]
        BY <2>2, <3>1
      <3>3. v = w
        BY <3>2, SeqEqual
      <3> QED
        BY <3>1, <3>3
    <2> QED
      BY <2>1, <2>3
  <1>3. <<x, y>> \o <<>> = <<x, y>>
    OBVIOUS
  <1>4. <<x, y, z>> \o <<>> = <<x, y, z>>
    OBVIOUS
  <1> QED
    BY <1>1, <1>2, <1>3, <1>4

LEMMA NoAdjustments ==
    ASSUME NEW a, NEW rule, a.rounding = 0, a.exchange = 0
    PROVE  AdjustmentLines(a, rule) = <<>>
  <1>1. <<>> \o <<>> = <<>>
    OBVIOUS
  <1> QED
    BY <1>1 DEF AdjustmentLines, When

LEMMA TwoLines ==
    ASSUME NEW x, NEW y, x.memo # y.memo
    PROVE  MergeLines(<<x, y>> \o <<>>) = <<x, y>>
  <1> DEFINE lines == <<x, y>>
  <1>1. /\ DOMAIN lines = 1 .. 2 /\ lines = [i \in 1 .. 2 |-> lines[i]]
        /\ \A i, j \in 1 .. 2 : lines[i].memo = lines[j].memo => i = j
    OBVIOUS
  <1> HIDE DEF lines
  <1>2. MergeLines(lines) = lines
    BY <1>1, NothingMerges
  <1> QED
    BY <1>2, Concatenations, Zenon DEF lines

LEMMA ThreeLines ==
    ASSUME NEW x, NEW y, NEW z,
           x.memo # y.memo, x.memo # z.memo, y.memo # z.memo
    PROVE  MergeLines(<<x, y, z>> \o <<>>) = <<x, y, z>>
  <1> DEFINE lines == <<x, y, z>>
  <1>1. /\ DOMAIN lines = 1 .. 3 /\ lines = [i \in 1 .. 3 |-> lines[i]]
        /\ \A i, j \in 1 .. 3 : lines[i].memo = lines[j].memo => i = j
    OBVIOUS
  <1> HIDE DEF lines
  <1>2. MergeLines(lines) = lines
    BY <1>1, NothingMerges
  <1> QED
    BY <1>2, Concatenations, Zenon DEF lines

LEMMA InvoiceIsBuilt ==
    ASSUME NEW a, NEW rule, a.rounding = 0, a.exchange = 0
    PROVE  BuildLines("SALES_INVOICE", a, rule) =
             IF a.tax > 0
             THEN << DrLine(rule.debitAccount, a.total, "receivable"),
                     CrLine(rule.creditAccount, a.base, "revenue"),
                     CrLine(rule.taxAccount, a.tax, "outputTax") >>
             ELSE << DrLine(rule.debitAccount, a.total, "receivable"),
                     CrLine(rule.creditAccount, a.base, "revenue") >>
  <1> DEFINE x == DrLine(rule.debitAccount, a.total, "receivable")
             y == CrLine(rule.creditAccount, a.base, "revenue")
             z == CrLine(rule.taxAccount, a.tax, "outputTax")
  <1>1. x.memo # y.memo /\ x.memo # z.memo /\ y.memo # z.memo
    BY DEF DrLine, CrLine
  <1>2. PatternLines("SALES_INVOICE", a, rule) =
          (<<x>> \o <<y>>) \o When(a.tax > 0, <<z>>)
    BY DEF PatternLines, Dr, Cr, DrLine, CrLine
  <1> HIDE DEF x, y, z
  <1>3. PatternLines("SALES_INVOICE", a, rule) =
          IF a.tax > 0 THEN <<x, y, z>> ELSE <<x, y>>
    BY <1>2, Concatenations, Zenon DEF When
  <1>4. BuildLines("SALES_INVOICE", a, rule) =
          MergeLines(PatternLines("SALES_INVOICE", a, rule) \o <<>>)
    BY NoAdjustments, Zenon DEF BuildLines
  <1>5. BuildLines("SALES_INVOICE", a, rule) =
          IF a.tax > 0 THEN <<x, y, z>> ELSE <<x, y>>
    BY <1>1, <1>3, <1>4, TwoLines, ThreeLines, Zenon
  <1> QED
    BY <1>5, Zenon DEF x, y, z

LEMMA BillIsBuilt ==
    ASSUME NEW a, NEW rule, a.rounding = 0, a.exchange = 0
    PROVE  BuildLines("PURCHASE_BILL", a, rule) =
             IF a.tax > 0
             THEN << DrLine(rule.debitAccount, a.base, "expense"),
                     CrLine(rule.creditAccount, a.total, "payables"),
                     DrLine(rule.taxAccount, a.tax, "inputTax") >>
             ELSE << DrLine(rule.debitAccount, a.base, "expense"),
                     CrLine(rule.creditAccount, a.total, "payables") >>
  <1> DEFINE x == DrLine(rule.debitAccount, a.base, "expense")
             y == CrLine(rule.creditAccount, a.total, "payables")
             z == DrLine(rule.taxAccount, a.tax, "inputTax")
  <1>1. x.memo # y.memo /\ x.memo # z.memo /\ y.memo # z.memo
    BY DEF DrLine, CrLine
  <1>2. PatternLines("PURCHASE_BILL", a, rule) =
          (<<x>> \o <<y>>) \o When(a.tax > 0, <<z>>)
    BY DEF PatternLines, Dr, Cr, DrLine, CrLine
  <1> HIDE DEF x, y, z
  <1>3. PatternLines("PURCHASE_BILL", a, rule) =
          IF a.tax > 0 THEN <<x, y, z>> ELSE <<x, y>>
    BY <1>2, Concatenations, Zenon DEF When
  <1>4. BuildLines("PURCHASE_BILL", a, rule) =
          MergeLines(PatternLines("PURCHASE_BILL", a, rule) \o <<>>)
    BY NoAdjustments, Zenon DEF BuildLines
  <1>5. BuildLines("PURCHASE_BILL", a, rule) =
          IF a.tax > 0 THEN <<x, y, z>> ELSE <<x, y>>
    BY <1>1, <1>3, <1>4, TwoLines, ThreeLines, Zenon
  <1> QED
    BY <1>5, Zenon DEF x, y, z

(* What the rounding of each line by itself does to the balance.           *)
LEMMA StoredIsNear ==
    ASSUME NEW x \in Int
    PROVE  \E k \in Int : /\ Stored(x) = k * Cent
                          /\ 2 * (Stored(x) - x) <= Cent
                          /\ 2 * (x - Stored(x)) <= Cent
  <1>1. CASE x >= 0
    <2>1. PICK k \in Int : k = (x + Cent \div 2) \div Cent
      BY SMT DEF Cent
    <2> QED
      BY <1>1, <2>1, SMT DEF Stored, Cent
  <1>2. CASE x < 0
    <2>1. PICK k \in Int : k = (Cent \div 2 - x) \div Cent
      BY SMT DEF Cent
    <2>2. -k \in Int
      OBVIOUS
    <2> QED
      BY <1>2, <2>1, <2>2, SMT DEF Stored, Cent
  <1> QED
    BY <1>1, <1>2

LEMMA StoredIsCents ==
    ASSUME NEW x \in Int, NEW m \in Int, NEW e \in Int,
           x = m * Cent + e, -(Cent \div 2) < e, e < Cent \div 2
    PROVE  Stored(x) = m * Cent
  <1>1. PICK k \in Int : /\ Stored(x) = k * Cent
                         /\ 2 * (Stored(x) - x) <= Cent
                         /\ 2 * (x - Stored(x)) <= Cent
    BY StoredIsNear
  <1>2. k = m
    BY <1>1, SMT DEF Cent
  <1> QED
    BY <1>1, <1>2

(* The computed total is off by a unit from the sum of its parts.          *)
LEMMA CentsApart ==
    ASSUME NEW base \in Int, NEW tax \in Int, NEW total \in Int,
           total > 0, total - base - tax \in -1 .. 1,
           tax <= 0 => total - base \in -1000 .. 1000
    PROVE  /\ Stored(base) \in Int /\ Stored(tax) \in Int /\ Stored(total) \in Nat
           /\ tax > 0 => Stored(total) - Stored(base) - Stored(tax) \in {-Cent, 0, Cent}
           /\ tax <= 0 => Stored(total) - Stored(base) \in {-Cent, 0, Cent}
  <1>1. PICK b \in Int : /\ Stored(base) = b * Cent
                         /\ 2 * (Stored(base) - base) <= Cent
                         /\ 2 * (base - Stored(base)) <= Cent
    BY StoredIsNear
  <1>2. PICK t \in Int : /\ Stored(tax) = t * Cent
                         /\ 2 * (Stored(tax) - tax) <= Cent
                         /\ 2 * (tax - Stored(tax)) <= Cent
    BY StoredIsNear
  <1>3. PICK s \in Int : /\ Stored(total) = s * Cent
                         /\ 2 * (Stored(total) - total) <= Cent
                         /\ 2 * (total - Stored(total)) <= Cent
    BY StoredIsNear
  <1>4. Stored(total) \in Nat
    BY SMT DEF Stored, Cent
  <1>5. ASSUME tax > 0
        PROVE  Stored(total) - Stored(base) - Stored(tax) \in {-Cent, 0, Cent}
    <2>1. s - b - t \in {-1, 0, 1}
      BY <1>1, <1>2, <1>3, SMT DEF Cent
    <2> QED
      BY <1>1, <1>2, <1>3, <2>1, SMT DEF Cent
  <1>6. ASSUME tax <= 0
        PROVE  Stored(total) - Stored(base) \in {-Cent, 0, Cent}
    <2>1. s - b \in {-1, 0, 1}
      BY <1>1, <1>3, <1>6, SMT DEF Cent
    <2> QED
      BY <1>1, <1>3, <2>1, SMT DEF Cent
  <1>7. Stored(base) \in Int /\ Stored(tax) \in Int
    BY <1>1, <1>2, SMT DEF Cent
  <1> QED
    BY <1>4, <1>5, <1>6, <1>7

(* No error crosses half a cent: b and t are what base and tax are without *)
(* their errors.                                                           *)
LEMMA NothingInDoubt ==
    ASSUME NEW base \in Int, NEW tax \in Int, NEW total \in Int,
           total - base - tax \in -1 .. 1,
           tax <= 0 => total - base \in -1000 .. 1000,
           NEW b \in Int, NEW t \in Int, base - b \in -1 .. 1, tax - t \in -1 .. 1,
           b % Cent = 0, t % Cent \notin Cent \div 2 - 3 .. Cent \div 2 + 3
    PROVE  /\ tax > 0 => Stored(total) = Stored(base) + Stored(tax)
           /\ tax <= 0 => Stored(total) = Stored(base)
  <1>1. PICK m \in Int : b = m * Cent
    <2>1. b \div Cent \in Int /\ b = (b \div Cent) * Cent
      BY SMT DEF Cent
    <2> QED
      BY <2>1
  <1>2. Stored(base) = m * Cent
    <2>1. PICK e \in Int : e = base - b
      OBVIOUS
    <2>2. base = m * Cent + e /\ -(Cent \div 2) < e /\ e < Cent \div 2
      BY <1>1, <2>1, SMT DEF Cent
    <2> QED
      BY <2>2, StoredIsCents
  <1>3. ASSUME tax <= 0
        PROVE  Stored(total) = m * Cent
    <2>1. PICK e \in Int : e = total - b
      OBVIOUS
    <2>2. total = m * Cent + e /\ -(Cent \div 2) < e /\ e < Cent \div 2
      BY <1>1, <1>3, <2>1, SMT DEF Cent
    <2> QED
      BY <2>2, StoredIsCents
  <1>4. PICK k \in Int, d \in Int : /\ t = k * Cent + d
                                    /\ -(Cent \div 2) + 3 < d /\ d < Cent \div 2 - 3
    <2>1. PICK q \in Int, f \in Int : q = t \div Cent /\ f = t % Cent
      BY SMT DEF Cent
    <2>2. t = q * Cent + f /\ 0 <= f /\ f < Cent
      BY <2>1, SMT DEF Cent
    <2>3. CASE f < Cent \div 2 - 3
      BY <2>2, <2>3, SMT DEF Cent
    <2>4. CASE f > Cent \div 2 + 3
      <3>1. t = (q + 1) * Cent + (f - Cent)
        BY <2>2, SMT DEF Cent
      <3>2. -(Cent \div 2) + 3 < f - Cent /\ f - Cent < Cent \div 2 - 3
        BY <2>2, <2>4, SMT DEF Cent
      <3>3. q + 1 \in Int /\ f - Cent \in Int
        BY DEF Cent
      <3> QED
        BY <3>1, <3>2, <3>3
    <2> QED
      BY <2>1, <2>2, <2>3, <2>4, SMT DEF Cent
  <1>5. Stored(tax) = k * Cent
    <2>1. PICK e \in Int : e = d + (tax - t)
      OBVIOUS
    <2>2. tax = k * Cent + e /\ -(Cent \div 2) < e /\ e < Cent \div 2
      BY <1>4, <2>1, SMT DEF Cent
    <2> QED
      BY <2>2, StoredIsCents
  <1>6. Stored(total) = (m + k) * Cent
    <2>1. PICK e \in Int : e = d + (total - b - t)
      OBVIOUS
    <2>2. total = (m + k) * Cent + e /\ -(Cent \div 2) < e /\ e < Cent \div 2
      BY <1>1, <1>4, <2>1, SMT DEF Cent
    <2>3. m + k \in Int
      OBVIOUS
    <2> QED
      BY <2>2, <2>3, StoredIsCents
  <1>7. (m + k) * Cent = m * Cent + k * Cent
    BY SMT DEF Cent
  <1> QED
    BY <1>2, <1>3, <1>5, <1>6, <1>7

LEMMA ItemsAreRows ==
    ASSUME NEW form \in InvoiceForms \union BillForms
    PROVE  \E D : /\ IsFiniteSet(D)
                  /\ Nets(form) \in [D -> Int] /\ Taxes(form) \in [D -> Int]
  <1> DEFINE items == form.items
             D == DOMAIN items
  <1>1. IsFiniteSet(D)
    <2>1. items \in Seq(Range(items))
      BY ItemsAssumption
    <2>2. Len(items) \in Nat /\ D = 1 .. Len(items)
      BY <2>1
    <2>3. 1 \in Int /\ Len(items) \in Int
      BY <2>2
    <2>4. IsFiniteSet(1 .. Len(items))
      BY <2>3, FS_Interval, Zenon
    <2> QED
      BY <2>2, <2>4
  <1>2. \A i \in D : /\ items[i].quantity \in Int
                     /\ items[i].unitPrice \in Int
                     /\ items[i].taxRate \in Int
    BY ItemsAssumption DEF Range
  <1>3. Nets(form) \in [D -> Int] /\ Taxes(form) \in [D -> Int]
    BY <1>2 DEF NetOf, Nets, Taxes
  <1> QED
    BY <1>1, <1>3

LEMMA AmountTypes ==
    ASSUME NEW form \in InvoiceForms \union BillForms
    PROVE  Total(Nets(form)) \in Int /\ Total(Taxes(form)) \in Int
  <1>1. PICK D : /\ IsFiniteSet(D)
                 /\ Nets(form) \in [D -> Int] /\ Taxes(form) \in [D -> Int]
    BY ItemsAreRows
  <1> QED
    BY <1>1, TotalIsOver, OverType

(* What was computed is near what it should be.                            *)
LEMMA AmountsAre ==
    ASSUME NEW form \in InvoiceForms \union BillForms, NEW a \in AmountsOf(form)
    PROVE  /\ a.base \in Int /\ a.tax \in Int /\ a.total \in Int
           /\ a.base - Total(Nets(form)) \in -1 .. 1
           /\ a.tax - Total(Taxes(form)) \in -1 .. 1
           /\ a.total - a.base - a.tax \in -1 .. 1
           /\ a.rounding = 0 /\ a.exchange = 0
  <1>1. PICK net \in Int, tax \in Int : net = Total(Nets(form)) /\ tax = Total(Taxes(form))
    BY AmountTypes
  <1>2. ASSUME NEW terms, NEW total \in Int, total = Total(terms),
               NEW x \in Computed(terms),
               (\A i \in DOMAIN terms : terms[i] = 0) => total = 0
        PROVE  x \in Int /\ x - total \in -1 .. 1
    BY <1>2 DEF Computed
  <1>3. ASSUME NEW terms, NEW D, IsFiniteSet(D), terms \in [D -> Int],
               \A i \in DOMAIN terms : terms[i] = 0
        PROVE  Total(terms) = 0
    BY <1>3, TotalIsOver, OverZero
  <1>4. PICK x \in Computed(Nets(form)), y \in Computed(Taxes(form)), error \in -1 .. 1 :
            a = [ base |-> x, tax |-> y, total |-> IF y = 0 THEN x ELSE x + y + error,
                  principal |-> 0, interest |-> 0, fee |-> 0, rounding |-> 0, exchange |-> 0 ]
    BY DEF AmountsOf
  <1>5. /\ a.base = x /\ a.tax = y /\ a.rounding = 0 /\ a.exchange = 0
        /\ a.total = IF y = 0 THEN x ELSE x + y + error
    BY <1>4
  <1>6. /\ x \in Int /\ x - net \in -1 .. 1
        /\ y \in Int /\ y - tax \in -1 .. 1
    <2>1. PICK D : /\ IsFiniteSet(D)
                   /\ Nets(form) \in [D -> Int] /\ Taxes(form) \in [D -> Int]
      BY ItemsAreRows
    <2>2. /\ (\A i \in DOMAIN Nets(form) : Nets(form)[i] = 0) => net = 0
          /\ (\A i \in DOMAIN Taxes(form) : Taxes(form)[i] = 0) => tax = 0
      BY <1>1, <1>3, <2>1
    <2> QED
      BY <1>1, <1>2, <2>2
  <1> QED
    BY <1>1, <1>5, <1>6

LEMMA TotalsOfPair ==
    ASSUME NEW x, NEW y, x.debit \in Int, y.debit \in Int,
           x.credit \in Int, y.credit \in Int
    PROVE  /\ TotalDebit(<<x, y>>) = x.debit + y.debit
           /\ TotalCredit(<<x, y>>) = x.credit + y.credit
  <1> DEFINE lines == <<x, y>>
             d == [i \in DOMAIN lines |-> lines[i].debit]
             c == [i \in DOMAIN lines |-> lines[i].credit]
  <1>1. DOMAIN lines = 1 .. 2 /\ lines[1] = x /\ lines[2] = y
    OBVIOUS
  <1>2. TotalDebit(lines) = Total(d) /\ TotalCredit(lines) = Total(c)
    BY DEF TotalDebit, TotalCredit
  <1> HIDE DEF lines
  <1>3. /\ d \in [1 .. 2 -> Int] /\ d[1] = x.debit /\ d[2] = y.debit
        /\ c \in [1 .. 2 -> Int] /\ c[1] = x.credit /\ c[2] = y.credit
    BY <1>1
  <1> HIDE DEF d, c
  <1>4. Total(d) = d[1] + d[2] /\ Total(c) = c[1] + c[2]
    BY <1>3, TotalOfTwo
  <1> QED
    BY <1>2, <1>3, <1>4 DEF lines

LEMMA TotalsOfTriple ==
    ASSUME NEW x, NEW y, NEW z,
           x.debit \in Int, y.debit \in Int, z.debit \in Int,
           x.credit \in Int, y.credit \in Int, z.credit \in Int
    PROVE  /\ TotalDebit(<<x, y, z>>) = x.debit + y.debit + z.debit
           /\ TotalCredit(<<x, y, z>>) = x.credit + y.credit + z.credit
  <1> DEFINE lines == <<x, y, z>>
             d == [i \in DOMAIN lines |-> lines[i].debit]
             c == [i \in DOMAIN lines |-> lines[i].credit]
  <1>1. /\ DOMAIN lines = 1 .. 3
        /\ lines[1] = x /\ lines[2] = y /\ lines[3] = z
    OBVIOUS
  <1>2. TotalDebit(lines) = Total(d) /\ TotalCredit(lines) = Total(c)
    BY DEF TotalDebit, TotalCredit
  <1> HIDE DEF lines
  <1>3. /\ d \in [1 .. 3 -> Int]
        /\ d[1] = x.debit /\ d[2] = y.debit /\ d[3] = z.debit
        /\ c \in [1 .. 3 -> Int]
        /\ c[1] = x.credit /\ c[2] = y.credit /\ c[3] = z.credit
    BY <1>1
  <1> HIDE DEF d, c
  <1>4. Total(d) = d[1] + d[2] + d[3] /\ Total(c) = c[1] + c[2] + c[3]
    BY <1>3, TotalOfThree
  <1> QED
    BY <1>2, <1>3, <1>4 DEF lines

StoredRow(line) == [line EXCEPT !.debit = Stored(@), !.credit = Stored(@)]

LEMMA NothingStored == Stored(0) = 0
  BY SMT DEF Stored, Cent

LEMMA StoredLine ==
    ASSUME NEW account, NEW amount, NEW memo
    PROVE  /\ StoredRow(DrLine(account, amount, memo)).account = account
           /\ StoredRow(DrLine(account, amount, memo)).debit = Stored(amount)
           /\ StoredRow(DrLine(account, amount, memo)).credit = 0
           /\ StoredRow(CrLine(account, amount, memo)).account = account
           /\ StoredRow(CrLine(account, amount, memo)).debit = 0
           /\ StoredRow(CrLine(account, amount, memo)).credit = Stored(amount)
  <1>1. ASSUME NEW x, x = DrLine(account, amount, memo)
        PROVE  /\ StoredRow(x).account = account
               /\ StoredRow(x).debit = Stored(amount)
               /\ StoredRow(x).credit = 0
    BY <1>1, NothingStored DEF StoredRow, DrLine
  <1>2. ASSUME NEW x, x = CrLine(account, amount, memo)
        PROVE  /\ StoredRow(x).account = account
               /\ StoredRow(x).debit = 0
               /\ StoredRow(x).credit = Stored(amount)
    BY <1>2, NothingStored DEF StoredRow, CrLine
  <1> QED
    BY <1>1, <1>2

LEMMA StoredTuples ==
    ASSUME NEW x, NEW y, NEW z
    PROVE  /\ StoredLines(<<x, y>>) = <<StoredRow(x), StoredRow(y)>>
           /\ StoredLines(<<x, y, z>>) = <<StoredRow(x), StoredRow(y), StoredRow(z)>>
  <1>1. /\ StoredLines(<<x, y>>) = [i \in DOMAIN <<x, y>> |-> StoredRow(<<x, y>>[i])]
        /\ StoredLines(<<x, y, z>>) =
             [i \in DOMAIN <<x, y, z>> |-> StoredRow(<<x, y, z>>[i])]
    BY Zenon DEF StoredLines, StoredRow
  <1>2. [i \in DOMAIN <<x, y>> |-> StoredRow(<<x, y>>[i])] =
          <<StoredRow(x), StoredRow(y)>>
    OBVIOUS
  <1>3. [i \in DOMAIN <<x, y, z>> |-> StoredRow(<<x, y, z>>[i])] =
          <<StoredRow(x), StoredRow(y), StoredRow(z)>>
    OBVIOUS
  <1> QED
    BY <1>1, <1>2, <1>3

LEMMA OwedOfPair ==
    ASSUME NEW x, NEW y, x.debit \in Int, y.debit \in Int,
           x.credit \in Int, y.credit \in Int
    PROVE  Owed(<<x, y>>) =
              (IF x.account = Receivable THEN x.debit - x.credit ELSE 0)
            + (IF y.account = Receivable THEN y.debit - y.credit ELSE 0)
  <1> DEFINE lines == <<x, y>>
             R == {n \in DOMAIN lines : lines[n].account = Receivable}
             w == [k \in R |-> lines[k].debit - lines[k].credit]
             v == [k \in 1 .. 2 |->
                     IF lines[k].account = Receivable
                     THEN lines[k].debit - lines[k].credit ELSE 0]
  <1>1. DOMAIN lines = 1 .. 2 /\ lines[1] = x /\ lines[2] = y
    OBVIOUS
  <1>2. Owed(lines) = Total(w)
    BY DEF Owed
  <1> HIDE DEF lines
  <1>3. /\ v \in [1 .. 2 -> Int]
        /\ v[1] = IF x.account = Receivable THEN x.debit - x.credit ELSE 0
        /\ v[2] = IF y.account = Receivable THEN y.debit - y.credit ELSE 0
    BY <1>1
  <1>4. /\ R \in SUBSET (1 .. 2) /\ w \in [R -> Int]
        /\ \A k \in R : w[k] = v[k]
        /\ \A k \in (1 .. 2) \ R : v[k] = 0
    BY <1>1
  <1>5. IsFiniteSet(1 .. 2)
    BY 1 \in Int, 2 \in Int, FS_Interval, Zenon
  <1> HIDE DEF v, w, R
  <1>6. Total(w) = Over(w, R) /\ Over(w, R) = Over(v, R)
    BY <1>4, TotalIsOver, OverSame
  <1>7. Over(v, 1 .. 2) = Over(v, R)
    BY <1>3, <1>4, <1>5, OverSupport
  <1>8. Total(v) = Over(v, 1 .. 2) /\ Total(v) = v[1] + v[2]
    BY <1>3, TotalIsOver, TotalOfTwo
  <1> QED
    BY <1>2, <1>3, <1>6, <1>7, <1>8 DEF lines

LEMMA OwedOfTriple ==
    ASSUME NEW x, NEW y, NEW z,
           x.debit \in Int, y.debit \in Int, z.debit \in Int,
           x.credit \in Int, y.credit \in Int, z.credit \in Int
    PROVE  Owed(<<x, y, z>>) =
              (IF x.account = Receivable THEN x.debit - x.credit ELSE 0)
            + (IF y.account = Receivable THEN y.debit - y.credit ELSE 0)
            + (IF z.account = Receivable THEN z.debit - z.credit ELSE 0)
  <1> DEFINE lines == <<x, y, z>>
             R == {n \in DOMAIN lines : lines[n].account = Receivable}
             w == [k \in R |-> lines[k].debit - lines[k].credit]
             v == [k \in 1 .. 3 |->
                     IF lines[k].account = Receivable
                     THEN lines[k].debit - lines[k].credit ELSE 0]
  <1>1. /\ DOMAIN lines = 1 .. 3
        /\ lines[1] = x /\ lines[2] = y /\ lines[3] = z
    OBVIOUS
  <1>2. Owed(lines) = Total(w)
    BY DEF Owed
  <1> HIDE DEF lines
  <1>3. /\ v \in [1 .. 3 -> Int]
        /\ v[1] = IF x.account = Receivable THEN x.debit - x.credit ELSE 0
        /\ v[2] = IF y.account = Receivable THEN y.debit - y.credit ELSE 0
        /\ v[3] = IF z.account = Receivable THEN z.debit - z.credit ELSE 0
    BY <1>1
  <1>4. /\ R \in SUBSET (1 .. 3) /\ w \in [R -> Int]
        /\ \A k \in R : w[k] = v[k]
        /\ \A k \in (1 .. 3) \ R : v[k] = 0
    BY <1>1
  <1>5. IsFiniteSet(1 .. 3)
    BY 1 \in Int, 3 \in Int, FS_Interval, Zenon
  <1> HIDE DEF v, w, R
  <1>6. Total(w) = Over(w, R) /\ Over(w, R) = Over(v, R)
    BY <1>4, TotalIsOver, OverSame
  <1>7. Over(v, 1 .. 3) = Over(v, R)
    BY <1>3, <1>4, <1>5, OverSupport
  <1>8. Total(v) = Over(v, 1 .. 3) /\ Total(v) = v[1] + v[2] + v[3]
    BY <1>3, TotalIsOver, TotalOfThree
  <1> QED
    BY <1>2, <1>3, <1>6, <1>7, <1>8 DEF lines

(* The entry of an invoice is out of balance by a cent at most, and what   *)
(* it says the customer owes is the total of the invoice.                  *)
Balances(lines, exact) ==
    /\ TotalDebit(lines) - TotalCredit(lines) \in {-Cent, 0, Cent}
    /\ exact => TotalDebit(lines) - TotalCredit(lines) = 0

LEMMA RuleIsOfTheMatrix ==
    ASSUME NEW context, Resolves(PostingMatrix, context)
    PROVE  LET rule == ResolveRule(PostingMatrix, context)
           IN  /\ rule \in PostingMatrix
               /\ rule.module = context.module
               /\ rule.transactionType = context.transactionType
  <1>1. TopRanked(PostingMatrix, context) # {}
    <2>1. SUFFICES ASSUME TopRanked(PostingMatrix, context) = {} PROVE FALSE
      OBVIOUS
    <2> QED
      BY <2>1, FS_EmptySet DEF Resolves
  <1>2. ResolveRule(PostingMatrix, context) \in TopRanked(PostingMatrix, context)
    BY <1>1 DEF ResolveRule
  <1> QED
    BY <1>2 DEF TopRanked, Scoped, IsCandidate

(* A line of tax that is negative is left out: it is a hundredth of a cent *)
(* at most, or ensureBalanced refuses.                                     *)
LEMMA TaxIsBooked ==
    ASSUME NEW base \in Int, NEW total \in Int, NEW x, NEW y,
           \/ x.debit = total /\ x.credit = 0 /\ y.debit = 0 /\ y.credit = base
           \/ x.debit = base /\ x.credit = 0 /\ y.debit = 0 /\ y.credit = total,
           EnsureBalanced(<<x, y>>)
    PROVE  total - base \in -1000 .. 1000
  <1>1. /\ TotalDebit(<<x, y>>) = x.debit + y.debit
        /\ TotalCredit(<<x, y>>) = x.credit + y.credit
    BY TotalsOfPair
  <1>2. TotalDebit(<<x, y>>) - TotalCredit(<<x, y>>) \in -(Cent \div 100) .. Cent \div 100
    BY DEF EnsureBalanced
  <1>3. Cent \div 100 = 1000
    BY SMT DEF Cent
  <1> QED
    BY <1>1, <1>2, <1>3

LEMMA InvoiceEntry ==
    ASSUME NEW form \in InvoiceForms, NEW a \in AmountsOf(form), FormValid(form, a),
           Postable(PostingMatrix, SalesContext(form, a), "SALES_INVOICE", a)
    PROVE  /\ Balances(InvoiceLines(form, a), IsExact(form))
           /\ Owed(InvoiceLines(form, a)) = Stored(a.total)
           /\ Stored(a.total) \in Nat
  <1> DEFINE rule == ResolveRule(PostingMatrix, SalesContext(form, a))
             built == BuildLines("SALES_INVOICE", a, rule)
  <1>1. PICK base \in Int, tax \in Int, total \in Int :
            base = a.base /\ tax = a.tax /\ total = a.total
    BY AmountsAre
  <1>2. /\ a.base = base /\ a.tax = tax /\ a.total = total
        /\ a.rounding = 0 /\ a.exchange = 0
    BY <1>1, AmountsAre, Zenon
  <1>3. total > 0
    BY <1>2, Zenon DEF FormValid
  <1>4. PICK d, c, t : d = rule.debitAccount /\ c = rule.creditAccount /\ t = rule.taxAccount
    OBVIOUS
  <1>5. d = Receivable /\ c # Receivable /\ t # Receivable
    <2>1. Resolves(PostingMatrix, SalesContext(form, a))
      BY Zenon DEF Postable
    <2>2. /\ SalesContext(form, a).module = "SALES"
          /\ SalesContext(form, a).transactionType = "INVOICE"
      BY DEF SalesContext, PostingContext
    <2>3. /\ rule \in PostingMatrix /\ rule.module = "SALES"
          /\ rule.transactionType = "INVOICE"
      BY <2>1, <2>2, RuleIsOfTheMatrix, Zenon
    <2> HIDE DEF rule
    <2> QED
      BY <1>4, <2>3, ReceivableIsControlled
  <1>6. EnsureBalanced(built)
    BY Zenon DEF Postable
  <1>7. InvoiceLines(form, a) = StoredLines(built)
    BY Zenon DEF InvoiceLines, PostedLines
  <1> DEFINE x == DrLine(d, total, "receivable")
             y == CrLine(c, base, "revenue")
             z == CrLine(t, tax, "outputTax")
  <1>8. built = IF tax > 0 THEN <<x, y, z>> ELSE <<x, y>>
    BY <1>2, <1>4, InvoiceIsBuilt, Zenon
  <1> HIDE DEF built, rule
  <1>9. tax <= 0 => total - base \in -1000 .. 1000
    <2>1. SUFFICES ASSUME ~ (tax > 0) PROVE total - base \in -1000 .. 1000
      OBVIOUS
    <2>2. EnsureBalanced(<<x, y>>)
      BY <1>6, <1>8, <2>1, Zenon
    <2>3. x.debit = total /\ x.credit = 0 /\ y.debit = 0 /\ y.credit = base
      BY DEF DrLine, CrLine
    <2> HIDE DEF x, y
    <2> QED
      BY <2>2, <2>3, TaxIsBooked
  <1>9a. total - base - tax \in -1 .. 1
    BY <1>1, AmountsAre
  <1>9b. IsExact(form) => /\ tax > 0 => Stored(total) = Stored(base) + Stored(tax)
                          /\ tax <= 0 => Stored(total) = Stored(base)
    <2>1. SUFFICES ASSUME IsExact(form)
                   PROVE  /\ tax > 0 => Stored(total) = Stored(base) + Stored(tax)
                          /\ tax <= 0 => Stored(total) = Stored(base)
      OBVIOUS
    <2>2. PICK m \in Int, n \in Int : m = Total(Nets(form)) /\ n = Total(Taxes(form))
      BY AmountTypes
    <2>3. base - m \in -1 .. 1 /\ tax - n \in -1 .. 1
      BY <1>1, <2>2, AmountsAre
    <2>4. m % Cent = 0 /\ n % Cent \notin Cent \div 2 - 3 .. Cent \div 2 + 3
      BY <2>1, <2>2, Zenon DEF IsExact
    <2> QED
      BY <1>9, <1>9a, <2>3, <2>4, NothingInDoubt, ZenonT(60)
  <1>10. PICK sb \in Int, st \in Int, ss \in Nat :
            sb = Stored(base) /\ st = Stored(tax) /\ ss = Stored(total)
    <2>1. Stored(base) \in Int /\ Stored(tax) \in Int /\ Stored(total) \in Nat
      BY <1>3, <1>9, <1>9a, CentsApart, ZenonT(60)
    <2> QED
      BY <2>1
  <1>11. /\ Stored(0) = 0
         /\ tax > 0 => /\ ss - sb - st \in {-Cent, 0, Cent}
                       /\ IsExact(form) => ss = sb + st
         /\ tax <= 0 => /\ ss - sb \in {-Cent, 0, Cent}
                        /\ IsExact(form) => ss = sb
    BY <1>3, <1>9, <1>10, <1>9a, <1>9b, NothingStored, CentsApart, Zenon
  <1> DEFINE sx == StoredRow(x)
             sy == StoredRow(y)
             sz == StoredRow(z)
  <1>12. InvoiceLines(form, a) = IF tax > 0 THEN <<sx, sy, sz>> ELSE <<sx, sy>>
    <2>1. /\ StoredLines(<<x, y>>) = <<sx, sy>>
          /\ StoredLines(<<x, y, z>>) = <<sx, sy, sz>>
      BY StoredTuples
    <2> HIDE DEF x, y, z, sx, sy, sz
    <2> QED
      BY <1>7, <1>8, <2>1
  <1>13. /\ sx.debit = ss /\ sx.credit = 0 /\ sx.account = Receivable
         /\ sy.debit = 0 /\ sy.credit = sb /\ sy.account # Receivable
         /\ sz.debit = 0 /\ sz.credit = st /\ sz.account # Receivable
    <2>1. sx.account = d /\ sx.debit = Stored(total) /\ sx.credit = 0
      BY StoredLine
    <2>2. sy.account = c /\ sy.debit = 0 /\ sy.credit = Stored(base)
      BY StoredLine
    <2>3. sz.account = t /\ sz.debit = 0 /\ sz.credit = Stored(tax)
      <3>1. sz.account = t
        BY StoredLine
      <3>2. sz.debit = 0
        BY StoredLine
      <3>3. sz.credit = Stored(tax)
        BY StoredLine
      <3> HIDE DEF sz
      <3> QED
        BY <3>1, <3>2, <3>3
    <2> HIDE DEF sx, sy, sz
    <2> QED
      BY <1>5, <1>10, <2>1, <2>2, <2>3
  <1> HIDE DEF x, y, z, sx, sy, sz
  <1>14. CASE tax > 0
    <2>1. InvoiceLines(form, a) = <<sx, sy, sz>>
      BY <1>12, <1>14, Zenon
    <2>2. /\ TotalDebit(<<sx, sy, sz>>) = ss /\ TotalCredit(<<sx, sy, sz>>) = sb + st
      BY <1>13, TotalsOfTriple
    <2>3. Owed(<<sx, sy, sz>>) = ss
      BY <1>13, OwedOfTriple
    <2>4. Balances(<<sx, sy, sz>>, IsExact(form))
      BY <1>11, <1>14, <2>2 DEF Balances
    <2> QED
      BY <1>1, <1>2, <1>10, <2>1, <2>3, <2>4, Zenon
  <1>15. CASE ~ (tax > 0)
    <2>1. InvoiceLines(form, a) = <<sx, sy>>
      BY <1>12, <1>15, Zenon
    <2>2. /\ TotalDebit(<<sx, sy>>) = ss /\ TotalCredit(<<sx, sy>>) = sb
      BY <1>13, TotalsOfPair
    <2>3. Owed(<<sx, sy>>) = ss
      BY <1>13, OwedOfPair
    <2>4. Balances(<<sx, sy>>, IsExact(form))
      BY <1>11, <1>15, <2>2 DEF Balances
    <2> QED
      BY <1>1, <1>2, <1>10, <2>1, <2>3, <2>4, Zenon
  <1> QED
    BY <1>14, <1>15

LEMMA BillEntry ==
    ASSUME NEW form \in BillForms, NEW a \in AmountsOf(form), FormValid(form, a),
           Postable(PostingMatrix, BillContext(form, a), "PURCHASE_BILL", a)
    PROVE  /\ Balances(BillLines(form, a), IsExact(form))
           /\ Owed(BillLines(form, a)) = 0
           /\ Stored(a.total) \in Nat
  <1> DEFINE rule == ResolveRule(PostingMatrix, BillContext(form, a))
             built == BuildLines("PURCHASE_BILL", a, rule)
  <1>1. PICK base \in Int, tax \in Int, total \in Int :
            base = a.base /\ tax = a.tax /\ total = a.total
    BY AmountsAre
  <1>2. /\ a.base = base /\ a.tax = tax /\ a.total = total
        /\ a.rounding = 0 /\ a.exchange = 0
    BY <1>1, AmountsAre, Zenon
  <1>3. total > 0
    BY <1>2, Zenon DEF FormValid
  <1>4. PICK d, c, t : d = rule.debitAccount /\ c = rule.creditAccount /\ t = rule.taxAccount
    OBVIOUS
  <1>5. d # Receivable /\ c # Receivable /\ (tax > 0 => t # Receivable)
    <2>1. BillContext(form, a).module = "PROCUREMENT"
      BY DEF BillContext, PostingContext
    <2>2. ContextValid(BillContext(form, a), a, rule)
      BY Zenon DEF Postable
    <2>3. /\ Chart[d].controlSource \in {None, "PROCUREMENT"}
          /\ Chart[c].controlSource \in {None, "PROCUREMENT"}
          /\ tax > 0 => Chart[t].controlSource \in {None, "PROCUREMENT"}
      BY <1>2, <1>4, <2>1, <2>2, Zenon DEF ContextValid, AccountAllowed
    <2> QED
      BY <2>3, ReceivableIsControlled
  <1>6. EnsureBalanced(built)
    BY Zenon DEF Postable
  <1>7. BillLines(form, a) = StoredLines(built)
    BY Zenon DEF BillLines, PostedLines
  <1> DEFINE x == DrLine(d, base, "expense")
             y == CrLine(c, total, "payables")
             z == DrLine(t, tax, "inputTax")
  <1>8. built = IF tax > 0 THEN <<x, y, z>> ELSE <<x, y>>
    BY <1>2, <1>4, BillIsBuilt, Zenon
  <1> HIDE DEF built, rule
  <1>9. tax <= 0 => total - base \in -1000 .. 1000
    <2>1. SUFFICES ASSUME ~ (tax > 0) PROVE total - base \in -1000 .. 1000
      OBVIOUS
    <2>2. EnsureBalanced(<<x, y>>)
      BY <1>6, <1>8, <2>1, Zenon
    <2>3. x.debit = base /\ x.credit = 0 /\ y.debit = 0 /\ y.credit = total
      BY DEF DrLine, CrLine
    <2> HIDE DEF x, y
    <2> QED
      BY <2>2, <2>3, TaxIsBooked
  <1>9a. total - base - tax \in -1 .. 1
    BY <1>1, AmountsAre
  <1>9b. IsExact(form) => /\ tax > 0 => Stored(total) = Stored(base) + Stored(tax)
                          /\ tax <= 0 => Stored(total) = Stored(base)
    <2>1. SUFFICES ASSUME IsExact(form)
                   PROVE  /\ tax > 0 => Stored(total) = Stored(base) + Stored(tax)
                          /\ tax <= 0 => Stored(total) = Stored(base)
      OBVIOUS
    <2>2. PICK m \in Int, n \in Int : m = Total(Nets(form)) /\ n = Total(Taxes(form))
      BY AmountTypes
    <2>3. base - m \in -1 .. 1 /\ tax - n \in -1 .. 1
      BY <1>1, <2>2, AmountsAre
    <2>4. m % Cent = 0 /\ n % Cent \notin Cent \div 2 - 3 .. Cent \div 2 + 3
      BY <2>1, <2>2, Zenon DEF IsExact
    <2> QED
      BY <1>9, <1>9a, <2>3, <2>4, NothingInDoubt, ZenonT(60)
  <1>10. PICK sb \in Int, st \in Int, ss \in Nat :
            sb = Stored(base) /\ st = Stored(tax) /\ ss = Stored(total)
    <2>1. Stored(base) \in Int /\ Stored(tax) \in Int /\ Stored(total) \in Nat
      BY <1>3, <1>9, <1>9a, CentsApart, ZenonT(60)
    <2> QED
      BY <2>1
  <1>11. /\ Stored(0) = 0
         /\ tax > 0 => /\ sb + st - ss \in {-Cent, 0, Cent}
                       /\ IsExact(form) => ss = sb + st
         /\ tax <= 0 => /\ sb - ss \in {-Cent, 0, Cent}
                        /\ IsExact(form) => ss = sb
    <2>1. /\ Stored(0) = 0
          /\ tax > 0 => /\ ss - sb - st \in {-Cent, 0, Cent}
                        /\ IsExact(form) => ss = sb + st
          /\ tax <= 0 => /\ ss - sb \in {-Cent, 0, Cent}
                         /\ IsExact(form) => ss = sb
      BY <1>3, <1>9, <1>10, <1>9a, <1>9b, NothingStored, CentsApart, Zenon
    <2>2. Cent \in Int
      BY DEF Cent
    <2> QED
      BY <2>1, <2>2
  <1> DEFINE sx == StoredRow(x)
             sy == StoredRow(y)
             sz == StoredRow(z)
  <1>12. BillLines(form, a) = IF tax > 0 THEN <<sx, sy, sz>> ELSE <<sx, sy>>
    <2>1. /\ StoredLines(<<x, y>>) = <<sx, sy>>
          /\ StoredLines(<<x, y, z>>) = <<sx, sy, sz>>
      BY StoredTuples
    <2> HIDE DEF x, y, z, sx, sy, sz
    <2> QED
      BY <1>7, <1>8, <2>1
  <1>13. /\ sx.debit = sb /\ sx.credit = 0 /\ sx.account # Receivable
         /\ sy.debit = 0 /\ sy.credit = ss /\ sy.account # Receivable
         /\ sz.debit = st /\ sz.credit = 0
         /\ tax > 0 => sz.account # Receivable
    <2>1. sx.account = d /\ sx.debit = Stored(base) /\ sx.credit = 0
      BY StoredLine
    <2>2. sy.account = c /\ sy.debit = 0 /\ sy.credit = Stored(total)
      BY StoredLine
    <2>3. sz.account = t /\ sz.debit = Stored(tax) /\ sz.credit = 0
      <3>1. sz.account = t
        BY StoredLine
      <3>2. sz.debit = Stored(tax)
        BY StoredLine
      <3>3. sz.credit = 0
        BY StoredLine
      <3> HIDE DEF sz
      <3> QED
        BY <3>1, <3>2, <3>3
    <2> HIDE DEF sx, sy, sz
    <2> QED
      BY <1>5, <1>10, <2>1, <2>2, <2>3
  <1> HIDE DEF x, y, z, sx, sy, sz
  <1>14. CASE tax > 0
    <2>1. BillLines(form, a) = <<sx, sy, sz>>
      BY <1>12, <1>14, Zenon
    <2>2. /\ TotalDebit(<<sx, sy, sz>>) = sb + st /\ TotalCredit(<<sx, sy, sz>>) = ss
      BY <1>13, TotalsOfTriple
    <2>3. Owed(<<sx, sy, sz>>) = 0
      BY <1>13, <1>14, OwedOfTriple
    <2>4. Balances(<<sx, sy, sz>>, IsExact(form))
      BY <1>11, <1>14, <2>2 DEF Balances
    <2> QED
      BY <1>1, <1>2, <1>10, <2>1, <2>3, <2>4, Zenon
  <1>15. CASE ~ (tax > 0)
    <2>1. BillLines(form, a) = <<sx, sy>>
      BY <1>12, <1>15, Zenon
    <2>2. /\ TotalDebit(<<sx, sy>>) = sb /\ TotalCredit(<<sx, sy>>) = ss
      BY <1>13, TotalsOfPair
    <2>3. Owed(<<sx, sy>>) = 0
      BY <1>13, OwedOfPair
    <2>4. Balances(<<sx, sy>>, IsExact(form))
      BY <1>11, <1>15, <2>2 DEF Balances
    <2> QED
      BY <1>1, <1>2, <1>10, <2>1, <2>3, <2>4, Zenon
  <1> QED
    BY <1>14, <1>15

(* A receipt clears what it collects, where its accounts say so. *)
LEMMA ReceiptEntry ==
    ASSUME NEW receipt, receipt.amount \in Int
    PROVE  /\ Balances(ReceiptLines(receipt, receipt.amount), TRUE)
           /\ Clears(receipt) \in Int
           /\ Owed(ReceiptLines(receipt, receipt.amount)) = -Clears(receipt)
  <1>1. PICK amount, d, c :
            /\ amount \in Int /\ amount = receipt.amount
            /\ d = Settlement(receipt) /\ c = receipt.receivable
    OBVIOUS
  <1> DEFINE x == DrLine(d, amount, "settlement")
             y == CrLine(c, amount, "clearance")
  <1>2. ReceiptLines(receipt, receipt.amount) = <<x, y>>
    <2>1. ReceiptLines(receipt, receipt.amount) = <<x>> \o <<y>>
      BY <1>1, Zenon DEF ReceiptLines, Dr, Cr, DrLine, CrLine
    <2> HIDE DEF x, y
    <2> QED
      BY <2>1, Concatenations
  <1>3. /\ x.debit = amount /\ x.credit = 0 /\ x.account = d
        /\ y.debit = 0 /\ y.credit = amount /\ y.account = c
    BY DEF DrLine, CrLine
  <1> HIDE DEF x, y
  <1>4. TotalDebit(<<x, y>>) = amount /\ TotalCredit(<<x, y>>) = amount
    BY <1>1, <1>3, TotalsOfPair
  <1>5. Owed(<<x, y>>) = (IF d = Receivable THEN amount ELSE 0)
                         + (IF c = Receivable THEN -amount ELSE 0)
    BY <1>1, <1>3, OwedOfPair
  <1>6. Clears(receipt) = (IF c = Receivable THEN amount ELSE 0)
                          - (IF d = Receivable THEN amount ELSE 0)
    BY <1>1, Zenon DEF Clears
  <1>7. amount \in Int
    BY <1>1
  <1>8. Clears(receipt) \in Int /\ Owed(<<x, y>>) = -Clears(receipt)
    BY <1>5, <1>6, <1>7
  <1> QED
    BY <1>2, <1>4, <1>7, <1>8 DEF Balances

-----------------------------------------------------------------------------
(* The ledger: the work in flight may be posted, the entries balance, and  *)
(* what they say is owed agrees with the documents.                        *)

MayBePosted(work) ==
    /\ work.op = "createInvoice" => \E a \in AmountsOf(work.form) :
          /\ work.total = Stored(a.total) /\ work.lines = InvoiceLines(work.form, a)
          /\ FormValid(work.form, a)
          /\ Postable(PostingMatrix, SalesContext(work.form, a), "SALES_INVOICE", a)
    /\ work.op = "createBill" => \E a \in AmountsOf(work.form) :
          /\ work.total = Stored(a.total) /\ work.lines = BillLines(work.form, a)
          /\ FormValid(work.form, a)
          /\ Postable(PostingMatrix, BillContext(work.form, a), "PURCHASE_BILL", a)

WorkMayBePosted == \A r \in Requests : MayBePosted(req[r])

EntriesAreSums ==
    /\ IsFiniteSet(entries)
    /\ \A e \in entries : Owed(e.lines) \in Int

LedgerInv ==
    BooksInv /\ WorkMayBePosted /\ EntriesAreSums /\ EntriesBalance /\ ReceivablesReconcile

LEMMA OtherWorkMayBePosted ==
    ASSUME NEW work, work.op \notin {"createInvoice", "createBill"}
    PROVE  MayBePosted(work)
  BY DEF MayBePosted

LEMMA StepWork ==
    ASSUME TypeOK, WorkMayBePosted, [Next]_vars
    PROVE  WorkMayBePosted'
  <1>1. ASSUME NEW r \in Requests, NEW work, MayBePosted(work),
               req' = [req EXCEPT ![r] = work]
        PROVE  WorkMayBePosted'
    <2>1. \A s \in Requests : req'[s] = IF s = r THEN work ELSE req[s]
      BY <1>1 DEF TypeOK
    <2>2. \A s \in Requests : MayBePosted(req'[s])
      BY <1>1, <2>1, Zenon DEF WorkMayBePosted
    <2> QED
      BY <2>2 DEF WorkMayBePosted, MayBePosted
  <1>2. ASSUME NEW r \in Requests, NEW work,
               work.op \notin {"createInvoice", "createBill"},
               req' = [req EXCEPT ![r] = work]
        PROVE  WorkMayBePosted'
    BY <1>1, <1>2, OtherWorkMayBePosted
  <1>3. ASSUME NEW r \in Requests, NEW i \in Invoices, NEW form \in InvoiceForms,
               CreateInvoiceRead(r, i, form)
        PROVE  WorkMayBePosted'
    <2>1. PICK a \in AmountsOf(form), work \in InvoiceWork :
              /\ work.op = "createInvoice" /\ work.form = form
              /\ work.total = Stored(a.total) /\ work.lines = InvoiceLines(form, a)
              /\ FormValid(form, a)
              /\ Postable(PostingMatrix, SalesContext(form, a), "SALES_INVOICE", a)
              /\ Begin(r, work)
      BY <1>3, InvoiceIsBegun
    <2>2. MayBePosted(work)
      BY <2>1 DEF MayBePosted
    <2> QED
      BY <1>1, <2>1, <2>2 DEF Begin
  <1>4. ASSUME NEW r \in Requests, NEW b \in Bills, NEW form \in BillForms,
               CreateBillRead(r, b, form)
        PROVE  WorkMayBePosted'
    <2>1. PICK a \in AmountsOf(form), work \in BillWork :
              /\ work.op = "createBill" /\ work.form = form
              /\ work.total = Stored(a.total) /\ work.lines = BillLines(form, a)
              /\ FormValid(form, a)
              /\ Postable(PostingMatrix, BillContext(form, a), "PURCHASE_BILL", a)
              /\ Begin(r, work)
      BY <1>4, BillIsBegun
    <2>2. MayBePosted(work)
      BY <2>1 DEF MayBePosted
    <2> QED
      BY <1>1, <2>1, <2>2 DEF Begin
  <1>5. ASSUME NEW r \in Requests, Finish(r)
        PROVE  WorkMayBePosted'
    BY <1>2, <1>5, IdleIsNothing DEF Finish
  <1>6. ASSUME NEW r \in Requests, NEW move \in StockMoves, MoveStockRead(r, move)
        PROVE  WorkMayBePosted'
    <2>1. [op |-> "moveStock", id |-> None, move |-> move].op
            \notin {"createInvoice", "createBill"}
      OBVIOUS
    <2> QED
      BY <1>2, <1>6, <2>1 DEF MoveStockRead, Begin
  <1>7. ASSUME NEW r \in Requests, NEW id \in Receipts, NEW form \in ReceiptForms,
               CreateReceiptRead(r, id, form)
        PROVE  WorkMayBePosted'
    <2>1. [op |-> "createReceipt", id |-> id, form |-> form,
           number |-> NextNumber(form.company)].op \notin {"createInvoice", "createBill"}
      OBVIOUS
    <2> QED
      BY <1>2, <1>7, <2>1 DEF CreateReceiptRead, Begin
  <1>8. ASSUME NEW r \in Requests, NEW id \in Receipts, PostReceiptRead(r, id)
        PROVE  WorkMayBePosted'
    <2>1. [op |-> "postReceipt", id |-> id, statuses |-> <<>>].op
            \notin {"createInvoice", "createBill"}
      OBVIOUS
    <2> QED
      BY <1>2, <1>8, <2>1 DEF PostReceiptRead, Begin
  <1>9. ASSUME NEW r \in Requests, PostReceiptRefresh(r)
        PROVE  WorkMayBePosted'
    <2>1. [op |-> "commitReceipt", id |-> req[r].id,
           statuses |-> StatusesAfter(req[r].id)].op
             \notin {"createInvoice", "createBill"}
      OBVIOUS
    <2> QED
      BY <1>2, <1>9, <2>1 DEF PostReceiptRefresh
  <1>10. ASSUME UNCHANGED req
         PROVE  WorkMayBePosted'
    BY <1>10 DEF WorkMayBePosted
  <1> QED
    BY <1>3, <1>4, <1>5, <1>6, <1>7, <1>8, <1>9, <1>10
    DEF Next, TradeNext, ReceiptNext, CreateInvoiceWrite, CreateBillWrite, MoveStockWrite,
        Abort, ChangePeriod, CreateReceiptWrite, PostReceiptWrite, vars, tradeVars

LEMMA EntryHas ==
    ASSUME NEW source, NEW company, NEW exact, NEW lines, NEW e,
           e = EntryFor(source, company, exact, lines)
    PROVE  e.source = source /\ e.lines = lines /\ e.exact = exact
  BY DEF EntryFor

(* What a commit adds to the ledger.                                       *)
LEMMA InvoiceIsWritten ==
    ASSUME TypeOK, AuditsAreKeyed, DocumentsBookedOnce, WorkMayBePosted,
           NEW r \in Requests, CreateInvoiceWrite(r)
    PROVE  \E i, e :
              /\ i \in Invoices /\ i = req[r].id
              /\ invoices[i] = Absent /\ i \notin Invoiced /\ invoices'[i] # Absent
              /\ \A j \in Invoices : j # i => invoices'[j] = invoices[j]
              /\ entries' = entries \union {e} /\ e \notin entries
              /\ Balances(e.lines, e.exact)
              /\ Owed(e.lines) = invoices'[i].total /\ invoices'[i].total \in Nat
              /\ invoices'[i].status = "OPEN"
  <1>1. PICK i, form : i = req[r].id /\ form = req[r].form
    OBVIOUS
  <1>2. req[r].op = "createInvoice"
    BY DEF CreateInvoiceWrite
  <1>3. req[r] \in InvoiceWork
    BY <1>2 DEF TypeOK, Work, InvoiceWork, BillWork, StockWork, DraftWork, PostWork,
                CommitWork, Idle
  <1>4. i \in Invoices /\ form \in InvoiceForms
    BY <1>1, <1>3 DEF InvoiceWork
  <1>5. PICK a \in AmountsOf(form) :
            /\ req[r].total = Stored(a.total) /\ req[r].lines = InvoiceLines(form, a)
            /\ FormValid(form, a)
            /\ Postable(PostingMatrix, SalesContext(form, a), "SALES_INVOICE", a)
    BY <1>1, <1>2, Zenon DEF WorkMayBePosted, MayBePosted
  <1>6. /\ Balances(req[r].lines, IsExact(form))
        /\ Owed(req[r].lines) = req[r].total
        /\ req[r].total \in Nat
    BY <1>4, <1>5, InvoiceEntry, Zenon
  <1>7. PICK e : e = EntryFor(<<"invoice", i>>, form.company, IsExact(form), req[r].lines)
    OBVIOUS
  <1>8. e.source = <<"invoice", i>> /\ e.lines = req[r].lines /\ e.exact = IsExact(form)
    BY <1>7, EntryHas
  <1>9. entries' = entries \union {e}
    BY <1>1, <1>7, Zenon DEF CreateInvoiceWrite
  <1>10. \A audit \in audits : audit.key # AuditOfInvoice(i).key
    BY <1>1 DEF CreateInvoiceWrite, KeyIsFree, AuditOfInvoice
  <1>11. \A audit \in audits : audit.entry # <<"invoice", i>>
    BY <1>10 DEF AuditsAreKeyed, AuditOfInvoice, AuditOfBill
  <1>12. <<"invoice", i>> \notin Booked \union { <<"receipt", id>> : id \in Posted }
    BY <1>11 DEF DocumentsBookedOnce
  <1>13. invoices[i] = Absent /\ i \notin Invoiced
    BY <1>4, <1>12 DEF Booked, Invoiced
  <1>14. e \notin entries
    BY <1>8, <1>12 DEF DocumentsBookedOnce
  <1>15. PICK row : /\ row.total = req[r].total
                    /\ row.status = "OPEN"
                    /\ invoices' = [invoices EXCEPT ![i] = row]
    BY <1>1, Zenon DEF CreateInvoiceWrite
  <1>16. /\ invoices'[i] = row
         /\ \A j \in Invoices : j # i => invoices'[j] = invoices[j]
    BY <1>4, <1>15 DEF TypeOK
  <1>17. invoices'[i] # Absent
    BY <1>15, <1>16 DEF Absent
  <1>18. /\ Balances(e.lines, e.exact) /\ Owed(e.lines) = invoices'[i].total
         /\ invoices'[i].total \in Nat /\ invoices'[i].status = "OPEN"
    BY <1>6, <1>8, <1>15, <1>16, Zenon
  <1> QED
    BY <1>1, <1>4, <1>9, <1>13, <1>14, <1>16, <1>17, <1>18

LEMMA BillIsWritten ==
    ASSUME TypeOK, AuditsAreKeyed, DocumentsBookedOnce, WorkMayBePosted,
           NEW r \in Requests, CreateBillWrite(r)
    PROVE  \E e : /\ entries' = entries \union {e} /\ e \notin entries
                  /\ Balances(e.lines, e.exact) /\ Owed(e.lines) = 0
  <1>1. PICK b, form : b = req[r].id /\ form = req[r].form
    OBVIOUS
  <1>2. req[r].op = "createBill"
    BY DEF CreateBillWrite
  <1>3. req[r] \in BillWork
    BY <1>2 DEF TypeOK, Work, InvoiceWork, BillWork, StockWork, DraftWork, PostWork,
                CommitWork, Idle
  <1>4. b \in Bills /\ form \in BillForms
    BY <1>1, <1>3 DEF BillWork
  <1>5. PICK a \in AmountsOf(form) :
            /\ req[r].total = Stored(a.total) /\ req[r].lines = BillLines(form, a)
            /\ FormValid(form, a)
            /\ Postable(PostingMatrix, BillContext(form, a), "PURCHASE_BILL", a)
    BY <1>1, <1>2, Zenon DEF WorkMayBePosted, MayBePosted
  <1>6. /\ Balances(req[r].lines, IsExact(form))
        /\ Owed(req[r].lines) = 0
    BY <1>4, <1>5, BillEntry, Zenon
  <1>7. PICK e : e = EntryFor(<<"bill", b>>, form.company, IsExact(form), req[r].lines)
    OBVIOUS
  <1>8. e.source = <<"bill", b>> /\ e.lines = req[r].lines /\ e.exact = IsExact(form)
    BY <1>7, EntryHas
  <1>9. entries' = entries \union {e}
    BY <1>1, <1>7, Zenon DEF CreateBillWrite
  <1>10. \A audit \in audits : audit.key # AuditOfBill(b).key
    BY <1>1 DEF CreateBillWrite, KeyIsFree, AuditOfBill
  <1>11. \A audit \in audits : audit.entry # <<"bill", b>>
    BY <1>10 DEF AuditsAreKeyed, AuditOfInvoice, AuditOfBill
  <1>12. <<"bill", b>> \notin Booked \union { <<"receipt", id>> : id \in Posted }
    BY <1>11 DEF DocumentsBookedOnce
  <1>13. e \notin entries
    BY <1>8, <1>12 DEF DocumentsBookedOnce
  <1> QED
    BY <1>6, <1>8, <1>9, <1>13, Zenon

LEMMA ReceiptAmounts ==
    ASSUME NEW form \in ReceiptForms
    PROVE  AmountOf(form.lines) \in Int
  <1> DEFINE D == DOMAIN form.lines
             w == [k \in D |-> form.lines[k].amount]
  <1>1. form.lines \in Seq(Range(form.lines))
    BY FormsAssumption
  <1>2. Len(form.lines) \in Int /\ D = 1 .. Len(form.lines)
    BY <1>1
  <1>3. IsFiniteSet(1 .. Len(form.lines))
    BY <1>2, 1 \in Int, FS_Interval, Zenon
  <1>4. w \in [D -> Int]
    BY FormsAssumption DEF Range
  <1>5. AmountOf(form.lines) = Total(w)
    BY DEF AmountOf
  <1> HIDE DEF D, w
  <1>6. Total(w) = Over(w, D) /\ Over(w, D) \in Int
    BY <1>2, <1>3, <1>4, TotalIsOver, OverType
  <1> QED
    BY <1>5, <1>6

LEMMA ReceiptIsPosted ==
    ASSUME TypeOK, ReceiptsReserved, LinesNameInvoices, DocumentsBookedOnce,
           NEW r \in Requests, PostReceiptWrite(r)
    PROVE  \E id, e :
              /\ id \in Receipts /\ id = req[r].id /\ id \notin Posted /\ Posted' = Posted \union {id}
              /\ receipts[id] \in ReceiptRow
              /\ \A x \in Receipts : Clears(receipts'[x]) = Clears(receipts[x])
              /\ entries' = entries \union {e} /\ e \notin entries
              /\ Balances(e.lines, e.exact)
              /\ Clears(receipts[id]) \in Int
              /\ Owed(e.lines) = -Clears(receipts[id])
  <1>1. PICK id : id = req[r].id
    OBVIOUS
  <1>2. /\ req[r] \in CommitWork /\ receipts[id] \in ReceiptRow /\ id \in Receipts
    BY <1>1, CommitFinds DEF PostReceiptWrite, CommitWork
  <1>3. PICK e : e = EntryFor(<<"receipt", id>>, receipts[id].company, TRUE,
                              ReceiptLines(receipts[id], receipts[id].amount))
    OBVIOUS
  <1>4. /\ e.source = <<"receipt", id>> /\ e.exact = TRUE
        /\ e.lines = ReceiptLines(receipts[id], receipts[id].amount)
    <2>1. PICK company, lines :
              /\ company = receipts[id].company
              /\ lines = ReceiptLines(receipts[id], receipts[id].amount)
      OBVIOUS
    <2>2. e = EntryFor(<<"receipt", id>>, company, TRUE, lines)
      BY <1>3, <2>1
    <2>3. e.source = <<"receipt", id>> /\ e.exact = TRUE /\ e.lines = lines
      BY <2>2 DEF EntryFor
    <2> QED
      BY <2>1, <2>3
  <1>5. entries' = entries \union {e}
    BY <1>1, <1>3, Zenon DEF PostReceiptWrite
  <1>6. \A f \in entries : f.source # <<"receipt", id>>
    BY <1>1 DEF PostReceiptWrite, ReferenceIsFree
  <1>7. e \notin entries
    BY <1>4, <1>6
  <1>8. id \notin Posted
    <2>1. SUFFICES ASSUME id \in Posted PROVE FALSE
      OBVIOUS
    <2>2. <<"receipt", id>> \in { f.source : f \in entries }
      BY <2>1 DEF DocumentsBookedOnce
    <2> QED
      BY <1>6, <2>2
  <1>9. Posted' = Posted \union {id}
    BY <1>1, <1>2, MarkedIsPosted DEF PostReceiptWrite, Posted
  <1>10. PICK form \in ReceiptForms : receipts[id].amount = AmountOf(form.lines)
    BY <1>2 DEF ReceiptRow
  <1>11. receipts[id].amount \in Int
    BY <1>10, ReceiptAmounts
  <1>12. /\ Balances(e.lines, e.exact)
         /\ Clears(receipts[id]) \in Int
         /\ Owed(e.lines) = -Clears(receipts[id])
    BY <1>4, <1>11, ReceiptEntry, Zenon
  <1>13. receipts' = Marked(id)
    BY <1>1 DEF PostReceiptWrite
  <1>14. Clears(Marked(id)[id]) = Clears(receipts[id])
    <2>1. /\ Marked(id)[id].amount = receipts[id].amount
          /\ Marked(id)[id].bank = receipts[id].bank
          /\ Marked(id)[id].cash = receipts[id].cash
          /\ Marked(id)[id].receivable = receipts[id].receivable
      BY <1>2 DEF Marked, ReceiptRow, TypeOK
    <2> QED
      BY <2>1, Zenon DEF Clears, Settlement
  <1>15. \A x \in Receipts : x # id => receipts'[x] = receipts[x]
    BY <1>2, <1>13, MarkedIsPosted
  <1>16. \A x \in Receipts : Clears(receipts'[x]) = Clears(receipts[x])
    BY <1>13, <1>14, <1>15
  <1> QED
    BY <1>1, <1>2, <1>5, <1>7, <1>8, <1>9, <1>12, <1>16

(* What the rows of documents come to, as they change.                     *)
Claims(E) == Total([e \in E |-> Owed(e.lines)])
Billed(rows, I) == Total([i \in I |-> rows[i].total])
Collected(rows, P) == Total([id \in P |-> Clears(rows[id])])

LEMMA ClaimsGrow ==
    ASSUME NEW E, IsFiniteSet(E), NEW e, e \notin E,
           \A x \in E \union {e} : Owed(x.lines) \in Int
    PROVE  Claims(E \union {e}) = Claims(E) + Owed(e.lines)
  <1> DEFINE v == [x \in E |-> Owed(x.lines)]
             w == [x \in E \union {e} |-> Owed(x.lines)]
  <1>1. /\ v \in [E -> Int] /\ w \in [E \union {e} -> Int]
        /\ \A x \in E : w[x] = v[x]
        /\ w[e] = Owed(e.lines)
    OBVIOUS
  <1>2. Claims(E) = Total(v) /\ Claims(E \union {e}) = Total(w)
    BY DEF Claims
  <1> HIDE DEF v, w
  <1> QED
    BY <1>1, <1>2, TotalGrows

LEMMA BilledSame ==
    ASSUME NEW I, NEW rows, NEW later, \A x \in I : later[x].total = rows[x].total
    PROVE  Billed(later, I) = Billed(rows, I)
  <1>1. [x \in I |-> later[x].total] = [x \in I |-> rows[x].total]
    OBVIOUS
  <1> QED
    BY <1>1, Zenon DEF Billed

LEMMA CollectedSame ==
    ASSUME NEW P, NEW rows, NEW later, \A x \in P : Clears(later[x]) = Clears(rows[x])
    PROVE  Collected(later, P) = Collected(rows, P)
  <1>1. [x \in P |-> Clears(later[x])] = [x \in P |-> Clears(rows[x])]
    OBVIOUS
  <1> QED
    BY <1>1, Zenon DEF Collected

LEMMA BilledGrows ==
    ASSUME IsFiniteSet(Invoiced), NEW i, i \notin Invoiced,
           \A x \in Invoiced : invoices[x].total \in Int,
           \A x \in Invoiced : invoices'[x].total = invoices[x].total,
           invoices'[i].total \in Int
    PROVE  Billed(invoices', Invoiced \union {i})
             = Billed(invoices, Invoiced) + invoices'[i].total
  <1>1. PICK I, v, w :
            /\ I = Invoiced
            /\ v = [x \in I |-> invoices[x].total]
            /\ w = [x \in I \union {i} |-> invoices'[x].total]
    OBVIOUS
  <1>2. v \in [I -> Int] /\ w \in [I \union {i} -> Int]
    BY <1>1
  <1>3. (\A x \in I : w[x] = v[x]) /\ w[i] = invoices'[i].total
    BY <1>1
  <1>4. IsFiniteSet(I) /\ i \notin I
    BY <1>1
  <1>5. Total(w) = Total(v) + w[i]
    BY <1>2, <1>3, <1>4, TotalGrows
  <1> QED
    BY <1>1, <1>3, <1>5, Zenon DEF Billed

LEMMA CollectedGrows ==
    ASSUME IsFiniteSet(Posted), NEW id, id \notin Posted,
           \A x \in Posted : Clears(receipts[x]) \in Int,
           \A x \in Posted : Clears(receipts'[x]) = Clears(receipts[x]),
           Clears(receipts'[id]) \in Int
    PROVE  Collected(receipts', Posted \union {id})
             = Collected(receipts, Posted) + Clears(receipts'[id])
  <1>1. PICK P, v, w :
            /\ P = Posted
            /\ v = [x \in P |-> Clears(receipts[x])]
            /\ w = [x \in P \union {id} |-> Clears(receipts'[x])]
    OBVIOUS
  <1>2. v \in [P -> Int] /\ w \in [P \union {id} -> Int]
    BY <1>1
  <1>3. (\A x \in P : w[x] = v[x]) /\ w[id] = Clears(receipts'[id])
    BY <1>1
  <1>4. IsFiniteSet(P) /\ id \notin P
    BY <1>1
  <1>5. Total(w) = Total(v) + w[id]
    BY <1>2, <1>3, <1>4, TotalGrows
  <1> QED
    BY <1>1, <1>3, <1>5, Zenon DEF Collected

(* The three totals are numbers.                                           *)
LEMMA RowsAreNumbers ==
    ASSUME TypeOK, EntriesAreSums
    PROVE  /\ IsFiniteSet(Invoiced) /\ IsFiniteSet(Posted)
           /\ \A i \in Invoiced : invoices[i] \in InvoiceRow /\ invoices[i].total \in Int
           /\ \A id \in Posted : Clears(receipts[id]) \in Int
           /\ Claims(entries) \in Int
           /\ Billed(invoices, Invoiced) \in Int
           /\ Collected(receipts, Posted) \in Int
  <1>1. Invoiced \in SUBSET Invoices /\ Posted \in SUBSET Receipts
    BY DEF Invoiced, Posted
  <1>2. IsFiniteSet(Invoiced) /\ IsFiniteSet(Posted)
    BY <1>1, RowsAreBounded, FS_Subset
  <1>3. ASSUME NEW form \in InvoiceForms, NEW a \in AmountsOf(form)
        PROVE  Stored(a.total) \in Int
    <2>1. PICK x : x = a.total
      OBVIOUS
    <2>2. x \in Int
      BY <2>1, AmountsAre
    <2>3. \E k \in Int : Stored(x) = k * Cent
      BY <2>2, StoredIsNear
    <2>4. Stored(x) \in Int
      BY <2>3 DEF Cent
    <2> QED
      BY <2>1, <2>4
  <1>4. ASSUME NEW i \in Invoiced
        PROVE  invoices[i] \in InvoiceRow /\ invoices[i].total \in Int
    <2>1. invoices[i] \in InvoiceRow
      BY DEF Invoiced, TypeOK
    <2>2. invoices[i].total \in Totals(InvoiceForms)
      BY <2>1 DEF InvoiceRow
    <2> QED
      BY <1>3, <2>1, <2>2 DEF Totals
  <1>5. ASSUME NEW id \in Posted
        PROVE  Clears(receipts[id]) \in Int
    <2>1. receipts[id] \in ReceiptRow
      BY DEF Posted, TypeOK, Absent
    <2>2. PICK form \in ReceiptForms : receipts[id].amount = AmountOf(form.lines)
      BY <2>1 DEF ReceiptRow
    <2>3. receipts[id].amount \in Int
      BY <2>2, ReceiptAmounts
    <2> QED
      BY <2>3, ReceiptEntry
  <1>6. ASSUME NEW S, IsFiniteSet(S), NEW w \in [S -> Int]
        PROVE  Total(w) \in Int
    BY <1>6, TotalIsOver, OverType
  <1>7. Claims(entries) \in Int
    <2>1. [e \in entries |-> Owed(e.lines)] \in [entries -> Int]
      BY DEF EntriesAreSums
    <2> QED
      BY <1>6, <2>1 DEF Claims, EntriesAreSums
  <1>8. Billed(invoices, Invoiced) \in Int
    <2>1. [i \in Invoiced |-> invoices[i].total] \in [Invoiced -> Int]
      BY <1>4
    <2> QED
      BY <1>2, <1>6, <2>1 DEF Billed
  <1>9. Collected(receipts, Posted) \in Int
    <2>1. [id \in Posted |-> Clears(receipts[id])] \in [Posted -> Int]
      BY <1>5
    <2> QED
      BY <1>2, <1>6, <2>1 DEF Collected
  <1> QED
    BY <1>2, <1>4, <1>5, <1>7, <1>8, <1>9

LEMMA ReconcileIs ==
    ReceivablesReconcile
      <=> Claims(entries) = Billed(invoices, Invoiced) - Collected(receipts, Posted)
  BY DEF ReceivablesReconcile, Claims, Billed, Collected

LEMMA ReconcileIsLater ==
    ReceivablesReconcile'
      <=> Claims(entries') = Billed(invoices', Invoiced') - Collected(receipts', Posted')
  BY DEF ReceivablesReconcile, Claims, Billed, Collected

LEMMA EntryAdded ==
    ASSUME EntriesAreSums, EntriesBalance, NEW e, entries' = entries \union {e},
           Owed(e.lines) \in Int, Balances(e.lines, e.exact)
    PROVE  EntriesAreSums' /\ EntriesBalance'
  <1>1. IsFiniteSet(entries')
    BY FS_AddElement DEF EntriesAreSums
  <1>2. \A f \in entries' : Owed(f.lines) \in Int
    BY DEF EntriesAreSums
  <1>3. \A f \in entries' : Balances(f.lines, f.exact)
    BY Zenon DEF EntriesBalance, Balances
  <1> QED
    BY <1>1, <1>2, <1>3, Zenon DEF EntriesAreSums, EntriesBalance, Balances

LEMMA StepLedger ==
    ASSUME BooksInv, BooksInv', WorkMayBePosted, EntriesAreSums, EntriesBalance,
           ReceivablesReconcile, [Next]_vars
    PROVE  EntriesAreSums' /\ EntriesBalance' /\ ReceivablesReconcile'
  <1> USE DEF BooksInv
  <1>1. /\ IsFiniteSet(Invoiced) /\ IsFiniteSet(Posted) /\ IsFiniteSet(entries)
        /\ \A i \in Invoiced : invoices[i] \in InvoiceRow /\ invoices[i].total \in Int
        /\ \A id \in Posted : Clears(receipts[id]) \in Int
        /\ \A e \in entries : Owed(e.lines) \in Int
        /\ Claims(entries) \in Int
        /\ Billed(invoices, Invoiced) \in Int
        /\ Collected(receipts, Posted) \in Int
        /\ Claims(entries) = Billed(invoices, Invoiced) - Collected(receipts, Posted)
    BY RowsAreNumbers, ReconcileIs DEF EntriesAreSums
  <1>2. ASSUME UNCHANGED entries
        PROVE  EntriesAreSums' /\ EntriesBalance' /\ Claims(entries') = Claims(entries)
    BY <1>2 DEF EntriesAreSums, EntriesBalance
  <1>3. ASSUME UNCHANGED invoices
        PROVE  Billed(invoices', Invoiced') = Billed(invoices, Invoiced)
    BY <1>3 DEF Invoiced
  <1>4. ASSUME UNCHANGED receipts
        PROVE  Collected(receipts', Posted') = Collected(receipts, Posted)
    BY <1>4 DEF Posted
  <1>5. ASSUME UNCHANGED <<entries, invoices, receipts>>
        PROVE  EntriesAreSums' /\ EntriesBalance' /\ ReceivablesReconcile'
    BY <1>1, <1>2, <1>3, <1>4, <1>5, ReconcileIsLater
  <1>6. ASSUME NEW r \in Requests, CreateInvoiceWrite(r), UNCHANGED receiptVars
        PROVE  EntriesAreSums' /\ EntriesBalance' /\ ReceivablesReconcile'
    <2>1. PICK i, e :
              /\ i \in Invoices
              /\ i \notin Invoiced /\ invoices'[i] # Absent
              /\ \A j \in Invoices : j # i => invoices'[j] = invoices[j]
              /\ entries' = entries \union {e} /\ e \notin entries
              /\ Balances(e.lines, e.exact)
              /\ Owed(e.lines) = invoices'[i].total /\ invoices'[i].total \in Nat
      BY <1>6, InvoiceIsWritten
    <2>2. EntriesAreSums' /\ EntriesBalance'
      BY <2>1, EntryAdded
    <2>3. Claims(entries') = Claims(entries) + invoices'[i].total
      BY <1>1, <2>1, ClaimsGrow
    <2>4. Invoiced' = Invoiced \union {i}
      BY <2>1 DEF Invoiced
    <2>5. \A x \in Invoiced : invoices[x].total \in Int
                              /\ invoices'[x].total = invoices[x].total
      BY <1>1, <2>1 DEF Invoiced
    <2>6. Billed(invoices', Invoiced \union {i})
            = Billed(invoices, Invoiced) + invoices'[i].total
      <3>1. /\ \A x \in Invoiced : invoices[x].total \in Int
            /\ \A x \in Invoiced : invoices'[x].total = invoices[x].total
            /\ invoices'[i].total \in Int
        BY <2>1, <2>5
      <3> QED
        BY <1>1, <2>1, <3>1, BilledGrows
    <2>7. Collected(receipts', Posted') = Collected(receipts, Posted)
      BY <1>4, <1>6 DEF receiptVars
    <2> QED
      BY <1>1, <2>1, <2>2, <2>3, <2>4, <2>6, <2>7, ReconcileIsLater
  <1>7. ASSUME NEW r \in Requests, CreateBillWrite(r), UNCHANGED receiptVars
        PROVE  EntriesAreSums' /\ EntriesBalance' /\ ReceivablesReconcile'
    <2>1. PICK e : /\ entries' = entries \union {e} /\ e \notin entries
                   /\ Balances(e.lines, e.exact) /\ Owed(e.lines) = 0
      BY <1>7, BillIsWritten
    <2>2. EntriesAreSums' /\ EntriesBalance'
      BY <2>1, EntryAdded
    <2>3. Claims(entries') = Claims(entries)
      BY <1>1, <2>1, ClaimsGrow
    <2>4. UNCHANGED <<invoices, receipts>>
      BY <1>7 DEF CreateBillWrite, receiptVars
    <2> QED
      BY <1>1, <1>3, <1>4, <2>2, <2>3, <2>4, ReconcileIsLater
  <1>8. ASSUME NEW r \in Requests, CreateReceiptWrite(r)
        PROVE  EntriesAreSums' /\ EntriesBalance' /\ ReceivablesReconcile'
    <2>1. PICK id : id = req[r].id
      OBVIOUS
    <2>2. req[r] \in DraftWork /\ receipts[id] = Absent
      BY <1>8, <2>1 DEF CreateReceiptWrite, TypeOK, Work, InvoiceWork, BillWork,
                        StockWork, DraftWork, PostWork, CommitWork, Idle, ReceiptsReserved
    <2>3. id \in Receipts
      BY <2>1, <2>2 DEF DraftWork
    <2>4. receipts'[id].status = "DRAFT"
          /\ \A x \in Receipts : x # id => receipts'[x] = receipts[x]
      BY <1>8, <2>1, <2>3 DEF CreateReceiptWrite, TypeOK
    <2>5. Posted' = Posted /\ \A x \in Posted : Clears(receipts'[x]) = Clears(receipts[x])
      BY <2>2, <2>4 DEF Posted, Absent
    <2>6. Collected(receipts', Posted) = Collected(receipts, Posted)
      BY <2>5, CollectedSame
    <2>7. UNCHANGED <<entries, invoices>>
      BY <1>8 DEF CreateReceiptWrite
    <2> QED
      BY <1>1, <1>2, <1>3, <2>5, <2>6, <2>7, ReconcileIsLater
  <1>9. ASSUME NEW r \in Requests, PostReceiptWrite(r)
        PROVE  EntriesAreSums' /\ EntriesBalance' /\ ReceivablesReconcile'
    <2>1. PICK id, e :
              /\ id \in Receipts /\ id = req[r].id /\ id \notin Posted /\ Posted' = Posted \union {id}
              /\ \A x \in Receipts : Clears(receipts'[x]) = Clears(receipts[x])
              /\ entries' = entries \union {e} /\ e \notin entries
              /\ Balances(e.lines, e.exact)
              /\ Clears(receipts[id]) \in Int
              /\ Owed(e.lines) = -Clears(receipts[id])
      BY <1>9, ReceiptIsPosted
    <2>2. EntriesAreSums' /\ EntriesBalance'
      BY <2>1, EntryAdded
    <2>3. Claims(entries') = Claims(entries) - Clears(receipts[id])
      BY <1>1, <2>1, ClaimsGrow
    <2>4. Collected(receipts', Posted \union {id})
            = Collected(receipts, Posted) + Clears(receipts[id])
      <3>1. /\ \A x \in Posted : Clears(receipts[x]) \in Int
            /\ \A x \in Posted : Clears(receipts'[x]) = Clears(receipts[x])
            /\ Clears(receipts'[id]) = Clears(receipts[id])
        BY <1>1, <2>1 DEF Posted
      <3>2. Clears(receipts'[id]) \in Int
        BY <2>1, <3>1
      <3>3. Collected(receipts', Posted \union {id})
              = Collected(receipts, Posted) + Clears(receipts'[id])
        BY <1>1, <2>1, <3>1, <3>2, CollectedGrows
      <3> QED
        BY <3>1, <3>3
    <2>5. PICK statuses : invoices' = Refreshed(statuses)
                          /\ \A i \in DOMAIN statuses :
                                /\ i \in Invoices /\ invoices[i] \in InvoiceRow
                                /\ statuses[i] \in InvoiceStatuses
      BY <1>9, CommitFinds DEF PostReceiptWrite
    <2>6. Invoiced' = Invoiced
      BY <2>5, RefreshedKeepsInvoices DEF Invoiced
    <2>7. ASSUME NEW i \in Invoiced
          PROVE  invoices'[i].total = invoices[i].total
      <3>1. invoices[i] \in InvoiceRow /\ i \in Invoices
        BY <1>1 DEF Invoiced
      <3> QED
        BY <2>5, <3>1 DEF Refreshed, InvoiceRow
    <2>8. Billed(invoices', Invoiced) = Billed(invoices, Invoiced)
      BY <2>7, BilledSame
    <2> QED
      BY <1>1, <2>1, <2>2, <2>3, <2>4, <2>6, <2>8, ReconcileIsLater
  <1> QED
    BY <1>5, <1>6, <1>7, <1>8, <1>9, StepKinds
    DEF RowsKept, CreateReceiptRead, PostReceiptRead, PostReceiptRefresh, receiptVars

LEMMA InitLedger == Init => LedgerInv
  <1> SUFFICES ASSUME Init
               PROVE  LedgerInv
    OBVIOUS
  <1>1. BooksInv
    BY InitBooks
  <1>2. entries = {} /\ Invoiced = {} /\ Posted = {}
    BY DEF Init, TradeInit, Invoiced, Posted, Absent
  <1>3. WorkMayBePosted
    BY IdleIsNothing, OtherWorkMayBePosted DEF Init, TradeInit, WorkMayBePosted
  <1>4. EntriesAreSums /\ EntriesBalance
    BY <1>2, FS_EmptySet DEF EntriesAreSums, EntriesBalance
  <1>5. ASSUME NEW w, DOMAIN w = {}, w = [x \in {} |-> 0]
        PROVE  Total(w) = 0
    <2>1. w \in [{} -> Int]
      BY <1>5
    <2> QED
      BY <2>1, TotalIsOver, OverEmpty
  <1>6. /\ Claims({}) = 0 /\ Billed(invoices, {}) = 0 /\ Collected(receipts, {}) = 0
    <2>1. /\ [e \in {} |-> Owed(e.lines)] = [x \in {} |-> 0]
          /\ [i \in {} |-> invoices[i].total] = [x \in {} |-> 0]
          /\ [id \in {} |-> Clears(receipts[id])] = [x \in {} |-> 0]
          /\ DOMAIN [x \in {} |-> 0] = {}
      OBVIOUS
    <2>2. Total([x \in {} |-> 0]) = 0
      BY <1>5, <2>1
    <2> QED
      BY <2>1, <2>2, Zenon DEF Claims, Billed, Collected
  <1>7. ReceivablesReconcile
    BY <1>2, <1>6, ReconcileIs
  <1> QED
    BY <1>1, <1>3, <1>4, <1>7 DEF LedgerInv

LEMMA StepLedgerInv == LedgerInv /\ [Next]_vars => LedgerInv'
  <1> SUFFICES ASSUME LedgerInv, [Next]_vars
               PROVE  LedgerInv'
    OBVIOUS
  <1>1. BooksInv'
    BY StepBooks DEF LedgerInv
  <1>2. WorkMayBePosted'
    BY StepWork DEF LedgerInv, BooksInv
  <1> QED
    BY <1>1, <1>2, StepLedger DEF LedgerInv

LEMMA LedgerCorrect == Spec => []LedgerInv
  BY InitLedger, StepLedgerInv, PTL DEF Spec

(* However requests overlap or die, the control account of receivables is  *)
(* what the invoices come to, less the posted receipts that credit it and  *)
(* with those paid into it, whatever accounts the receipts name            *)
(* (createInvoice, createBill, prepareReceipt, postReceipt and post).      *)
THEOREM ReceivablesAgree == Spec => []ReceivablesReconcile
  <1>1. LedgerInv => ReceivablesReconcile
    BY DEF LedgerInv
  <1> QED
    BY <1>1, LedgerCorrect, PTL

(* An entry is out of balance by a cent at most, and not at all when the   *)
(* base of its document is whole cents and its tax is not as good as half  *)
(* way between two, although both and their sum are computed in doubles    *)
(* (createInvoice, createBill, buildLines, ensureBalanced and the two      *)
(* decimals of the column).                                                *)
THEOREM EntriesBalanceToACent == Spec => []EntriesBalance
  <1>1. LedgerInv => EntriesBalance
    BY DEF LedgerInv
  <1> QED
    BY <1>1, LedgerCorrect, PTL

-----------------------------------------------------------------------------
(* One request at a time: what a request found when it began still holds   *)
(* when it commits, so invoices are settled as booked and issues covered.  *)

(* The operators of the module, of the rows they are given.                *)
PostedIn(recs) == { id \in Receipts : recs[id].status = "POSTED" }

AppliedIn(recs, ids, i) == Total([id \in ids |-> AppliedTo(recs[id].lines, i)])

DueIn(invs, recs, ids, i) == invs[i].total - AppliedIn(recs, ids, i)

NamesIn(recs, id) == { i \in Invoices : LinesOn(recs[id].lines, i) # {} }

NamedIn(recs, i) == \E id \in PostedIn(recs) : i \in NamesIn(recs, id)

NamedTwiceIn(recs, i) ==
    \E id \in PostedIn(recs) : Cardinality(LinesOn(recs[id].lines, i)) > 1

SettledIn(invs, recs, i) ==
    /\ DueIn(invs, recs, PostedIn(recs), i) >= -Cent \/ NamedTwiceIn(recs, i)
    /\ invs[i].status =
          IF NamedIn(recs, i)
          THEN InvoiceStatus(invs[i].total, DueIn(invs, recs, PostedIn(recs), i))
          ELSE "OPEN"

SettledRows(invs, recs) == \A i \in Invoices : invs[i] # Absent => SettledIn(invs, recs, i)

FitsIn(invs, recs, id) ==
    \A k \in DOMAIN recs[id].lines :
        recs[id].lines[k].invoice # None =>
            recs[id].lines[k].amount
              - DueIn(invs, recs, PostedIn(recs) \ {id}, recs[id].lines[k].invoice) <= Cent

StatusesIn(invs, recs, id) ==
    [ i \in NamesIn(recs, id) |->
        InvoiceStatus(invs[i].total,
                      DueIn(invs, recs, PostedIn(recs) \ {id}, i)
                        - AppliedTo(recs[id].lines, i)) ]

CoveredRows(rows) ==
    \A k \in DOMAIN rows :
        rows[k].source = ByMoveStock /\ rows[k].quantity < 0
        => Stock(SubSeq(rows, 1, k), rows[k].product) >= 0

(* What a request in flight may count on. *)
Ready(invs, recs, rows, work) ==
    /\ work.op \in {"postReceipt", "commitReceipt"} => FitsIn(invs, recs, work.id)
    /\ work.op = "commitReceipt" => work.statuses = StatusesIn(invs, recs, work.id)
    /\ work.op = "moveStock" =>
          /\ work.move.quantity > 0
          /\ work.move.direction = "OUT" =>
                Stock(rows, work.move.product) >= work.move.quantity

OneAtATime == \A r, s \in Requests : r # s => req[r] = Idle \/ req[s] = Idle

AllReady == \A r \in Requests : Ready(invoices, receipts, movements, req[r])

(* Each movement is of a number.                                           *)
NumberRows(rows) ==
    /\ rows \in Seq(Range(rows))
    /\ \A k \in DOMAIN rows : rows[k].quantity \in Int

DeskInv ==
    /\ BooksInv /\ WorkMayBePosted /\ NumberRows(movements)
    /\ alone => /\ OneAtATime /\ AllReady
                /\ SettledRows(invoices, receipts) /\ CoveredRows(movements)

(* They are the operators of the module. *)
LEMMA SettledIs ==
    /\ InvoicesSettledAsBooked <=> (alone => SettledRows(invoices, receipts))
    /\ IssuesCovered <=> (alone => CoveredRows(movements))
    /\ \A id : StatusesAfter(id) = StatusesIn(invoices, receipts, id)
    /\ \A id : FitsIn(invoices, receipts, id)
                 <=> \A k \in DOMAIN receipts[id].lines : LineFits(receipts[id].lines[k], {id})
  <1>1. \A ids, i : Applied(ids, i) = AppliedIn(receipts, ids, i)
    BY Zenon DEF Applied, AppliedIn
  <1>2. Posted = PostedIn(receipts) /\ Posted \ {} = Posted
    BY DEF Posted, PostedIn
  <1>3. \A i : /\ Outstanding(i, {}) = DueIn(invoices, receipts, PostedIn(receipts), i)
               /\ \A id : Outstanding(i, {id})
                            = DueIn(invoices, receipts, PostedIn(receipts) \ {id}, i)
    BY <1>1, <1>2, Zenon DEF Outstanding, DueIn
  <1>4. \A id : InvoicesOf(id) = NamesIn(receipts, id)
    BY Zenon DEF InvoicesOf, NamesIn
  <1>5. \A i \in Invoices :
            /\ NamedTwice(i) <=> NamedTwiceIn(receipts, i)
            /\ (\E id \in Posted : i \in InvoicesOf(id)) <=> NamedIn(receipts, i)
    BY <1>2, <1>4, Zenon DEF NamedTwice, NamedTwiceIn, NamedIn
  <1>6. InvoicesSettledAsBooked <=> (alone => SettledRows(invoices, receipts))
    BY <1>3, <1>5 DEF InvoicesSettledAsBooked, SettledRows, SettledIn
  <1>7. \A id : StatusesAfter(id) = StatusesIn(invoices, receipts, id)
    BY <1>3, <1>4 DEF StatusesAfter, StatusesIn
  <1>8. \A id : FitsIn(invoices, receipts, id)
                 <=> \A k \in DOMAIN receipts[id].lines : LineFits(receipts[id].lines[k], {id})
    BY <1>3 DEF FitsIn, LineFits
  <1>9. IssuesCovered <=> (alone => CoveredRows(movements))
    BY DEF IssuesCovered, CoveredRows
  <1> QED
    BY <1>6, <1>7, <1>8, <1>9

LEMMA IdleIsReady ==
    ASSUME NEW invs, NEW recs, NEW rows
    PROVE  Ready(invs, recs, rows, Idle)
  BY IdleIsNothing DEF Ready

LEMMA AloneIsFixed ==
    ASSUME [Next]_vars
    PROVE  alone' = alone
  BY DEF Next, TradeNext, ReceiptNext, vars, tradeVars, receiptVars,
         CreateInvoiceRead, CreateInvoiceWrite, CreateBillRead, CreateBillWrite,
         MoveStockRead, MoveStockWrite, Abort, ChangePeriod, CreateReceiptRead,
         CreateReceiptWrite, PostReceiptRead, PostReceiptRefresh, PostReceiptWrite

(* Nothing but its own request acts while a request is in flight.          *)
LEMMA StepDesk ==
    ASSUME TypeOK, alone => OneAtATime /\ AllReady, [Next]_vars
    PROVE  alone' => OneAtATime' /\ AllReady'
  <1> DEFINE Fine == alone' => OneAtATime' /\ AllReady'
  <1>1. alone' = alone
    BY AloneIsFixed
  <1>2. ASSUME NEW r \in Requests, NEW work, Begin(r, work),
               UNCHANGED <<invoices, receipts, movements>>,
               alone => Ready(invoices, receipts, movements, work)
        PROVE  Fine
    <2>1. SUFFICES ASSUME alone PROVE OneAtATime' /\ AllReady'
      BY <1>1
    <2>2. \A s \in Requests : req[s] = Idle
      BY <1>2, <2>1 DEF Begin, MayBegin, InFlight
    <2>3. \A s \in Requests : req'[s] = IF s = r THEN work ELSE Idle
      BY <1>2, <2>2 DEF Begin, TypeOK
    <2>4. OneAtATime'
      BY <2>3 DEF OneAtATime
    <2>5. \A s \in Requests : Ready(invoices, receipts, movements, req'[s])
      BY <1>2, <2>1, <2>3, IdleIsReady, Zenon
    <2>6. \A s \in Requests : Ready(invoices', receipts', movements', req'[s])
      BY <1>2, <2>5, Zenon
    <2> QED
      BY <2>4, <2>6 DEF AllReady
  <1>3. ASSUME NEW r \in Requests, Finish(r), req[r].op # "idle"
        PROVE  Fine
    <2>1. SUFFICES ASSUME alone PROVE OneAtATime' /\ AllReady'
      BY <1>1
    <2>2. \A s \in Requests : s # r => req[s] = Idle
      BY <1>3, <2>1, IdleIsNothing DEF OneAtATime
    <2>3. \A s \in Requests : req'[s] = Idle
      BY <1>3, <2>2 DEF Finish, TypeOK
    <2>4. OneAtATime'
      BY <2>3 DEF OneAtATime
    <2>5. \A s \in Requests : Ready(invoices', receipts', movements', req'[s])
      BY <2>3, IdleIsReady, Zenon
    <2> QED
      BY <2>4, <2>5 DEF AllReady
  <1>4. ASSUME UNCHANGED <<req, invoices, receipts, movements>>
        PROVE  Fine
    BY <1>1, <1>4 DEF OneAtATime, AllReady
  <1>5. ASSUME NEW work, work.op \notin {"postReceipt", "commitReceipt", "moveStock"}
        PROVE  Ready(invoices, receipts, movements, work)
    BY <1>5 DEF Ready
  <1>6. ASSUME NEW r \in Requests, NEW i \in Invoices, NEW form \in InvoiceForms,
               CreateInvoiceRead(r, i, form), UNCHANGED receiptVars
        PROVE  Fine
    <2>1. PICK work : /\ work.op = "createInvoice" /\ Begin(r, work)
                      /\ UNCHANGED <<invoices, receipts, movements>>
      BY <1>6, InvoiceIsBegun DEF receiptVars
    <2> QED
      BY <1>2, <1>5, <2>1
  <1>7. ASSUME NEW r \in Requests, NEW b \in Bills, NEW form \in BillForms,
               CreateBillRead(r, b, form), UNCHANGED receiptVars
        PROVE  Fine
    <2>1. PICK work : /\ work.op = "createBill" /\ Begin(r, work)
                      /\ UNCHANGED <<invoices, receipts, movements>>
      BY <1>7, BillIsBegun DEF receiptVars
    <2> QED
      BY <1>2, <1>5, <2>1
  <1>8. ASSUME NEW r \in Requests, NEW move \in StockMoves, MoveStockRead(r, move),
               UNCHANGED receiptVars
        PROVE  Fine
    <2>1. PICK work : work = [op |-> "moveStock", id |-> None, move |-> move]
      OBVIOUS
    <2>2. work.op = "moveStock" /\ work.move = move
      BY <2>1
    <2>3. Begin(r, work) /\ UNCHANGED <<invoices, receipts, movements>>
      BY <1>8, <2>1, Zenon DEF MoveStockRead, receiptVars
    <2>4. Ready(invoices, receipts, movements, work)
      BY <1>8, <2>2 DEF MoveStockRead, Ready
    <2> QED
      BY <1>2, <2>3, <2>4
  <1>9. ASSUME NEW r \in Requests, NEW id \in Receipts, NEW form \in ReceiptForms,
               CreateReceiptRead(r, id, form)
        PROVE  Fine
    <2>1. PICK work : work = [op |-> "createReceipt", id |-> id, form |-> form,
                              number |-> NextNumber(form.company)]
      OBVIOUS
    <2>2. work.op = "createReceipt"
      BY <2>1
    <2>3. Begin(r, work) /\ UNCHANGED <<invoices, receipts, movements>>
      BY <1>9, <2>1, Zenon DEF CreateReceiptRead, receiptVars
    <2> QED
      BY <1>2, <1>5, <2>2, <2>3
  <1>10. ASSUME NEW r \in Requests, NEW id \in Receipts, PostReceiptRead(r, id)
         PROVE  Fine
    <2>1. PICK work : work = [op |-> "postReceipt", id |-> id, statuses |-> <<>>]
      OBVIOUS
    <2>2. work.op = "postReceipt" /\ work.id = id
      BY <2>1
    <2>3. Begin(r, work) /\ UNCHANGED <<invoices, receipts, movements>>
      BY <1>10, <2>1, Zenon DEF PostReceiptRead, receiptVars
    <2>4. FitsIn(invoices, receipts, id)
      BY <1>10, SettledIs DEF PostReceiptRead
    <2>5. Ready(invoices, receipts, movements, work)
      BY <2>2, <2>4 DEF Ready
    <2> QED
      BY <1>2, <2>3, <2>5
  <1>11. ASSUME NEW r \in Requests, PostReceiptRefresh(r)
         PROVE  Fine
    <2>1. SUFFICES ASSUME alone PROVE OneAtATime' /\ AllReady'
      BY <1>1
    <2>2. PICK id, work : id = req[r].id /\ work = [op |-> "commitReceipt", id |-> id,
                                                    statuses |-> StatusesAfter(id)]
      OBVIOUS
    <2>3. /\ work.op = "commitReceipt" /\ work.id = id
          /\ work.statuses = StatusesIn(invoices, receipts, id)
      BY <2>2, SettledIs
    <2>4. req[r].op = "postReceipt" /\ req' = [req EXCEPT ![r] = work]
          /\ UNCHANGED <<invoices, receipts, movements>>
      BY <1>11, <2>2, Zenon DEF PostReceiptRefresh, receiptVars
    <2>5. FitsIn(invoices, receipts, id)
      BY <2>1, <2>2, <2>4 DEF AllReady, Ready
    <2>6. Ready(invoices, receipts, movements, work)
      BY <2>3, <2>5 DEF Ready
    <2>7. \A s \in Requests : s # r => req[s] = Idle
      BY <2>1, <2>4, IdleIsNothing DEF OneAtATime
    <2>8. \A s \in Requests : req'[s] = IF s = r THEN work ELSE Idle
      BY <2>4, <2>7 DEF TypeOK
    <2>9. OneAtATime'
      BY <2>8 DEF OneAtATime
    <2>10. \A s \in Requests : Ready(invoices, receipts, movements, req'[s])
      BY <2>6, <2>8, IdleIsReady, Zenon
    <2>11. \A s \in Requests : Ready(invoices', receipts', movements', req'[s])
      BY <2>4, <2>10, Zenon
    <2> QED
      BY <2>9, <2>11 DEF AllReady
  <1>12. ASSUME NEW r \in Requests,
                CreateInvoiceWrite(r) \/ CreateBillWrite(r) \/ MoveStockWrite(r)
                \/ CreateReceiptWrite(r) \/ PostReceiptWrite(r)
         PROVE  Fine
    <2>1. Finish(r) /\ req[r].op # "idle"
      BY <1>12 DEF CreateInvoiceWrite, CreateBillWrite, MoveStockWrite, CreateReceiptWrite,
                   PostReceiptWrite
    <2> QED
      BY <1>3, <2>1
  <1>13. ASSUME NEW r \in Requests, Abort(r)
         PROVE  Fine
    <2>1. Finish(r) /\ req[r] # Idle /\ req[r] \in Work \union {Idle}
      BY <1>13 DEF Abort, TypeOK
    <2>2. req[r].op # "idle"
      BY <2>1 DEF Work, InvoiceWork, BillWork, StockWork, DraftWork, PostWork, CommitWork
    <2> QED
      BY <1>3, <2>1, <2>2
  <1>14. ASSUME NEW c \in Companies, ChangePeriod(c), UNCHANGED receiptVars
         PROVE  Fine
    BY <1>4, <1>14 DEF ChangePeriod, receiptVars
  <1>15. ASSUME UNCHANGED vars
         PROVE  Fine
    BY <1>4, <1>15 DEF vars, tradeVars
  <1> HIDE DEF Fine
  <1>16. Fine
    BY <1>6, <1>7, <1>8, <1>9, <1>10, <1>11, <1>12, <1>13, <1>14, <1>15
    DEF Next, TradeNext, ReceiptNext
  <1> QED
    BY <1>16 DEF Fine

-----------------------------------------------------------------------------
(* What the lines of a receipt apply to an invoice is a number: none if it *)
(* is not named, and the amount of the line if it is named once.           *)
LEMMA AppliedIsNumber ==
    ASSUME NEW form \in ReceiptForms, NEW i
    PROVE  /\ IsFiniteSet(LinesOn(form.lines, i))
           /\ AppliedTo(form.lines, i) \in Int
           /\ LinesOn(form.lines, i) = {} => AppliedTo(form.lines, i) = 0
           /\ \A k : LinesOn(form.lines, i) = {k}
                     => AppliedTo(form.lines, i) = form.lines[k].amount
  <1>1. PICK L : L = LinesOn(form.lines, i)
    OBVIOUS
  <1>2. PICK w : w = [k \in L |-> form.lines[k].amount]
    OBVIOUS
  <1>3. form.lines \in Seq(Range(form.lines))
    BY FormsAssumption
  <1>4. Len(form.lines) \in Int /\ L \in SUBSET (1 .. Len(form.lines))
        /\ DOMAIN form.lines = 1 .. Len(form.lines)
    BY <1>1, <1>3 DEF LinesOn
  <1>5. IsFiniteSet(1 .. Len(form.lines))
    BY <1>4, 1 \in Int, FS_Interval, Zenon
  <1>6. IsFiniteSet(L)
    BY <1>4, <1>5, FS_Subset
  <1>7. \A k \in L : form.lines[k].amount \in Int
    BY <1>4, FormsAssumption DEF Range
  <1>8. w \in [L -> Int]
    BY <1>2, <1>7
  <1>9. AppliedTo(form.lines, i) = Total(w)
    BY <1>1, <1>2, Zenon DEF AppliedTo
  <1>10. Total(w) = Over(w, L) /\ Over(w, L) \in Int
    BY <1>6, <1>8, TotalIsOver, OverType
  <1>11. L = {} => Over(w, L) = 0
    BY OverEmpty
  <1>12. ASSUME NEW k, L = {k}
         PROVE  Over(w, L) = form.lines[k].amount
    <2>1. Over(w, L) = w[k] + Over(w, L \ {k})
      BY <1>6, <1>8, <1>12, OverElement
    <2>2. L \ {k} = {} /\ w[k] = form.lines[k].amount /\ w[k] \in Int
      BY <1>2, <1>8, <1>12
    <2>3. Over(w, L \ {k}) = 0
      BY <2>2, OverEmpty
    <2> QED
      BY <2>1, <2>2, <2>3
  <1> QED
    BY <1>1, <1>6, <1>9, <1>10, <1>11, <1>12

LEMMA RowApplies ==
    ASSUME TypeOK, NEW id \in Receipts, receipts[id] # Absent, NEW i
    PROVE  /\ IsFiniteSet(LinesOn(receipts[id].lines, i))
           /\ AppliedTo(receipts[id].lines, i) \in Int
           /\ LinesOn(receipts[id].lines, i) = {} => AppliedTo(receipts[id].lines, i) = 0
           /\ \A k : LinesOn(receipts[id].lines, i) = {k}
                     => AppliedTo(receipts[id].lines, i) = receipts[id].lines[k].amount
           /\ DOMAIN receipts[id].lines = 1 .. Len(receipts[id].lines)
           /\ \A k \in DOMAIN receipts[id].lines : receipts[id].lines[k].amount \in Int
  <1>1. PICK form \in ReceiptForms : receipts[id].lines = form.lines
    BY DEF TypeOK, ReceiptRow
  <1>2. form.lines \in Seq(Range(form.lines))
    BY FormsAssumption
  <1>3. DOMAIN form.lines = 1 .. Len(form.lines)
    BY <1>2
  <1>4. \A k \in DOMAIN form.lines : form.lines[k].amount \in Int
    BY FormsAssumption DEF Range
  <1> QED
    BY <1>1, <1>3, <1>4, AppliedIsNumber

(* A posted receipt is there, and the posted receipts are finitely many.   *)
LEMMA PostedAreRows ==
    ASSUME TypeOK
    PROVE  /\ IsFiniteSet(PostedIn(receipts))
           /\ \A id \in PostedIn(receipts) : id \in Receipts /\ receipts[id] # Absent
           /\ \A i : AppliedIn(receipts, PostedIn(receipts), i) \in Int
  <1>1. PostedIn(receipts) \in SUBSET Receipts
    BY DEF PostedIn
  <1>2. IsFiniteSet(PostedIn(receipts))
    BY <1>1, RowsAreBounded, FS_Subset
  <1>3. \A id \in PostedIn(receipts) : id \in Receipts /\ receipts[id] # Absent
    BY DEF PostedIn, Absent
  <1>4. ASSUME NEW i
        PROVE  AppliedIn(receipts, PostedIn(receipts), i) \in Int
    <2>1. PICK P, w : P = PostedIn(receipts)
                      /\ w = [id \in P |-> AppliedTo(receipts[id].lines, i)]
      OBVIOUS
    <2>2. w \in [P -> Int]
      BY <1>3, <2>1, RowApplies
    <2>3. Total(w) = Over(w, P) /\ Over(w, P) \in Int
      BY <1>2, <2>1, <2>2, TotalIsOver, OverType
    <2> QED
      BY <2>1, <2>3, Zenon DEF AppliedIn
  <1> QED
    BY <1>2, <1>3, <1>4

LEMMA TotalsAreNumbers ==
    ASSUME TypeOK, NEW i \in Invoices, invoices[i] # Absent
    PROVE  invoices[i] \in InvoiceRow /\ invoices[i].total \in Int
  <1>1. invoices[i] \in InvoiceRow
    BY DEF TypeOK
  <1>0. PICK form \in InvoiceForms :
            \E a \in AmountsOf(form) : invoices[i].total = Stored(a.total)
    BY <1>1 DEF InvoiceRow, Totals
  <1>2. PICK a \in AmountsOf(form) : invoices[i].total = Stored(a.total)
    BY <1>0
  <1>3. PICK x : x = a.total
    OBVIOUS
  <1>4. x \in Int
    BY <1>3, AmountsAre
  <1>5. \E k \in Int : Stored(x) = k * Cent
    BY <1>4, StoredIsNear
  <1>6. Stored(x) \in Int
    BY <1>5 DEF Cent
  <1> QED
    BY <1>1, <1>2, <1>3, <1>6

(* What is settled depends on the posted receipts and the invoice itself.  *)
LEMMA SettledSame ==
    ASSUME NEW invs, NEW later, NEW recs, NEW new, NEW i,
           later[i].total = invs[i].total, later[i].status = invs[i].status,
           PostedIn(new) = PostedIn(recs),
           \A id \in PostedIn(recs) : new[id].lines = recs[id].lines,
           SettledIn(invs, recs, i)
    PROVE  SettledIn(later, new, i)
  <1>1. [id \in PostedIn(recs) |-> AppliedTo(new[id].lines, i)]
          = [id \in PostedIn(recs) |-> AppliedTo(recs[id].lines, i)]
    OBVIOUS
  <1>2. AppliedIn(new, PostedIn(new), i) = AppliedIn(recs, PostedIn(recs), i)
    BY <1>1, Zenon DEF AppliedIn
  <1>3. NamedIn(new, i) <=> NamedIn(recs, i)
    BY DEF NamedIn, NamesIn
  <1>4. NamedTwiceIn(new, i) <=> NamedTwiceIn(recs, i)
    BY DEF NamedTwiceIn
  <1>5. DueIn(later, new, PostedIn(new), i) = DueIn(invs, recs, PostedIn(recs), i)
    BY <1>2 DEF DueIn
  <1> QED
    BY <1>3, <1>4, <1>5 DEF SettledIn

(* A new invoice is named by no receipt.                                   *)
LEMMA NewInvoiceIsOpen ==
    ASSUME TypeOK, LinesNameInvoices, NEW i \in Invoices, invoices[i] = Absent,
           NEW later, later[i].total \in Nat, later[i].status = "OPEN"
    PROVE  SettledIn(later, receipts, i)
  <1>1. \A id \in PostedIn(receipts) : LinesOn(receipts[id].lines, i) = {}
    BY PostedAreRows DEF LinesNameInvoices, InvoicesExist, LinesOn
  <1>2. PICK P, w : P = PostedIn(receipts)
                    /\ w = [id \in P |-> AppliedTo(receipts[id].lines, i)]
    OBVIOUS
  <1>3. \A id \in P : w[id] = 0
    BY <1>1, <1>2, PostedAreRows, RowApplies
  <1>4. w \in [P -> Int] /\ IsFiniteSet(P)
    BY <1>2, <1>3, PostedAreRows
  <1>5. Total(w) = 0
    BY <1>3, <1>4, TotalIsOver, OverZero
  <1>6. DueIn(later, receipts, PostedIn(receipts), i) = later[i].total
    BY <1>2, <1>5 DEF DueIn, AppliedIn
  <1>7. ~ NamedIn(receipts, i)
    BY <1>1 DEF NamedIn, NamesIn
  <1> QED
    BY <1>6, <1>7 DEF SettledIn, Cent

(* Posting a receipt adds what it applies.                                 *)
LEMMA PostedAdds ==
    ASSUME TypeOK, NEW id \in Receipts, receipts[id] # Absent, id \notin PostedIn(receipts),
           NEW new, PostedIn(new) = PostedIn(receipts) \union {id},
           \A x \in PostedIn(new) : new[x].lines = receipts[x].lines, NEW i
    PROVE  AppliedIn(new, PostedIn(new), i)
             = AppliedIn(receipts, PostedIn(receipts), i) + AppliedTo(receipts[id].lines, i)
  <1>1. PICK P, Q, v, w :
            /\ P = PostedIn(receipts) /\ Q = PostedIn(new)
            /\ v = [x \in P |-> AppliedTo(receipts[x].lines, i)]
            /\ w = [x \in Q |-> AppliedTo(new[x].lines, i)]
    OBVIOUS
  <1>2. IsFiniteSet(P) /\ id \notin P /\ Q = P \union {id}
    BY <1>1, PostedAreRows
  <1>3. \A x \in Q : AppliedTo(receipts[x].lines, i) \in Int
    BY <1>1, <1>2, PostedAreRows, RowApplies
  <1>4. \A x \in Q : w[x] = AppliedTo(receipts[x].lines, i)
    BY <1>1
  <1>5. v \in [P -> Int] /\ w \in [Q -> Int]
    BY <1>1, <1>2, <1>3, <1>4
  <1>6. \A x \in P : w[x] = v[x]
    BY <1>1, <1>2, <1>4
  <1>7. Total(w) = Total(v) + w[id]
    BY <1>2, <1>5, <1>6, TotalGrows
  <1>8. w[id] = AppliedTo(receipts[id].lines, i)
    BY <1>2, <1>4
  <1>9. AppliedIn(new, PostedIn(new), i) = Total(w)
        /\ AppliedIn(receipts, PostedIn(receipts), i) = Total(v)
    BY <1>1, Zenon DEF AppliedIn
  <1> QED
    BY <1>7, <1>8, <1>9

(* An invoice the receipt names is settled by what was checked.            *)
LEMMA NamedIsSettled ==
    ASSUME TypeOK, NEW id \in Receipts, receipts[id] # Absent, id \notin PostedIn(receipts),
           FitsIn(invoices, receipts, id),
           NEW new, PostedIn(new) = PostedIn(receipts) \union {id},
           \A x \in PostedIn(new) : new[x].lines = receipts[x].lines,
           NEW i \in Invoices, invoices[i] # Absent, i \in NamesIn(receipts, id),
           NEW later, later[i].total = invoices[i].total,
           later[i].status = StatusesIn(invoices, receipts, id)[i]
    PROVE  SettledIn(later, new, i)
  <1>1. PICK lines, L : lines = receipts[id].lines /\ L = LinesOn(lines, i)
    OBVIOUS
  <1>2. PICK due, paid, total : /\ due = DueIn(invoices, receipts, PostedIn(receipts), i)
                                /\ paid = AppliedTo(lines, i)
                                /\ total = invoices[i].total
    OBVIOUS
  <1>3. PICK applied : applied = AppliedIn(receipts, PostedIn(receipts), i)
    OBVIOUS
  <1>4. applied \in Int /\ total \in Int /\ paid \in Int
    BY <1>1, <1>2, <1>3, PostedAreRows, TotalsAreNumbers, RowApplies
  <1>5. due = total - applied
    BY <1>2, <1>3 DEF DueIn
  <1>6. AppliedIn(new, PostedIn(new), i) = applied + paid
    BY <1>1, <1>2, <1>3, PostedAdds
  <1>7. DueIn(later, new, PostedIn(new), i) = due - paid
    BY <1>2, <1>4, <1>5, <1>6 DEF DueIn
  <1>8. PostedIn(receipts) \ {id} = PostedIn(receipts)
    OBVIOUS
  <1>9. later[i].status = InvoiceStatus(total, due - paid)
    BY <1>1, <1>2, <1>8 DEF StatusesIn
  <1>10. NamedIn(new, i)
    <2>1. id \in PostedIn(new) /\ LinesOn(new[id].lines, i) # {}
      BY DEF NamesIn
    <2> QED
      BY <2>1 DEF NamedIn, NamesIn
  <1>11. due - paid >= -Cent \/ NamedTwiceIn(new, i)
    <2>1. IsFiniteSet(L) /\ L # {}
      BY <1>1, RowApplies DEF NamesIn
    <2>2. CASE \E k : L = {k}
      <3>1. PICK k : L = {k}
        BY <2>2
      <3>2. paid = lines[k].amount /\ k \in DOMAIN lines /\ lines[k].invoice = i
        <4>1. k \in DOMAIN lines /\ lines[k].invoice = i
          BY <1>1, <3>1 DEF LinesOn
        <4>2. LinesOn(receipts[id].lines, i) = {k}
                => AppliedTo(receipts[id].lines, i) = receipts[id].lines[k].amount
          BY RowApplies
        <4>3. paid = lines[k].amount
          BY <1>1, <1>2, <3>1, <4>2, Zenon
        <4> QED
          BY <4>1, <4>3
      <3>3. i # None
        BY FormsAssumption
      <3>4. lines[k].amount - DueIn(invoices, receipts, PostedIn(receipts) \ {id}, i) <= Cent
        BY <1>1, <3>2, <3>3 DEF FitsIn
      <3>5. paid - due <= Cent
        BY <1>2, <1>8, <3>2, <3>4
      <3> QED
        BY <1>4, <1>5, <3>5 DEF Cent
    <2>3. CASE ~ \E k : L = {k}
      <3>1. Cardinality(L) \in Nat /\ Cardinality(L) # 0 /\ Cardinality(L) # 1
        <4>1. Cardinality(L) \in Nat
          BY <2>1, FS_CardinalityType
        <4>2. Cardinality(L) # 0
          BY <2>1, FS_EmptySet
        <4>3. Cardinality(L) # 1
          BY <2>1, <2>3, FS_Singleton
        <4> QED
          BY <4>1, <4>2, <4>3
      <3>2. id \in PostedIn(new) /\ LinesOn(new[id].lines, i) = L
        BY <1>1
      <3> QED
        BY <3>1, <3>2 DEF NamedTwiceIn
    <2> QED
      BY <2>2, <2>3
  <1> QED
    BY <1>2, <1>7, <1>9, <1>10, <1>11 DEF SettledIn

(* Of the other invoices it changes nothing.                               *)
LEMMA UnnamedIsSettled ==
    ASSUME TypeOK, NEW id \in Receipts, receipts[id] # Absent, id \notin PostedIn(receipts),
           NEW new, PostedIn(new) = PostedIn(receipts) \union {id},
           \A x \in PostedIn(new) : new[x].lines = receipts[x].lines,
           NEW i \in Invoices, invoices[i] # Absent, i \notin NamesIn(receipts, id),
           NEW later, later[i] = invoices[i], SettledIn(invoices, receipts, i)
    PROVE  SettledIn(later, new, i)
  <1>1. AppliedTo(receipts[id].lines, i) = 0
    BY RowApplies DEF NamesIn
  <1>2. AppliedIn(new, PostedIn(new), i) = AppliedIn(receipts, PostedIn(receipts), i)
    <2>1. AppliedIn(new, PostedIn(new), i)
            = AppliedIn(receipts, PostedIn(receipts), i) + AppliedTo(receipts[id].lines, i)
      BY PostedAdds
    <2>2. AppliedIn(receipts, PostedIn(receipts), i) \in Int
      BY PostedAreRows
    <2> QED
      BY <1>1, <2>1, <2>2
  <1>3. DueIn(later, new, PostedIn(new), i)
          = DueIn(invoices, receipts, PostedIn(receipts), i)
    BY <1>2 DEF DueIn
  <1>4. NamedIn(new, i) <=> NamedIn(receipts, i)
    BY DEF NamedIn, NamesIn
  <1>5. NamedTwiceIn(receipts, i) => NamedTwiceIn(new, i)
    BY DEF NamedTwiceIn
  <1> QED
    BY <1>3, <1>4, <1>5 DEF SettledIn

LEMMA StepSettled ==
    ASSUME BooksInv, WorkMayBePosted, AllReady, SettledRows(invoices, receipts), [Next]_vars
    PROVE  SettledRows(invoices', receipts')
  <1>1. /\ TypeOK /\ AuditsAreKeyed /\ LinesNameInvoices /\ ReceiptsReserved
        /\ DocumentsBookedOnce
    BY DEF BooksInv
  <1>2. PICK invs, recs : invs = invoices' /\ recs = receipts'
    OBVIOUS
  <1>3. ASSUME UNCHANGED <<invoices, receipts>>
        PROVE  SettledRows(invs, recs)
    BY <1>2, <1>3
  <1>4. ASSUME NEW r \in Requests, CreateInvoiceWrite(r), UNCHANGED receiptVars
        PROVE  SettledRows(invs, recs)
    <2>1. PICK i \in Invoices :
              /\ invoices[i] = Absent
              /\ invs[i].total \in Nat /\ invs[i].status = "OPEN"
              /\ \A j \in Invoices : j # i => invs[j] = invoices[j]
      BY <1>1, <1>2, <1>4, InvoiceIsWritten
    <2>2. recs = receipts
      BY <1>2, <1>4 DEF receiptVars
    <2>3. SettledIn(invs, receipts, i)
      BY <1>1, <2>1, NewInvoiceIsOpen
    <2>4. ASSUME NEW j \in Invoices, j # i, invs[j] # Absent
          PROVE  SettledIn(invs, receipts, j)
      <3>1. invs[j] = invoices[j] /\ SettledIn(invoices, receipts, j)
        BY <2>1, <2>4 DEF SettledRows
      <3> QED
        BY <3>1, SettledSame
    <2> QED
      BY <2>2, <2>3, <2>4 DEF SettledRows
  <1>5. ASSUME NEW r \in Requests, CreateReceiptWrite(r)
        PROVE  SettledRows(invs, recs)
    <2>1. PICK id : id = req[r].id
      OBVIOUS
    <2>2. req[r] \in DraftWork /\ receipts[id] = Absent
      BY <1>1, <1>5, <2>1 DEF CreateReceiptWrite, TypeOK, Work, InvoiceWork, BillWork,
                              StockWork, DraftWork, PostWork, CommitWork, Idle,
                              ReceiptsReserved
    <2>3. id \in Receipts
      BY <2>1, <2>2 DEF DraftWork
    <2>4. recs[id].status = "DRAFT"
          /\ \A x \in Receipts : x # id => recs[x] = receipts[x]
      BY <1>1, <1>2, <1>5, <2>1, <2>3 DEF CreateReceiptWrite, TypeOK
    <2>5. PostedIn(recs) = PostedIn(receipts)
          /\ \A x \in PostedIn(receipts) : recs[x].lines = receipts[x].lines
      BY <2>2, <2>4 DEF PostedIn, Absent
    <2>6. invs = invoices
      BY <1>2, <1>5 DEF CreateReceiptWrite
    <2>7. ASSUME NEW j \in Invoices, invoices[j] # Absent
          PROVE  SettledIn(invoices, recs, j)
      <3>1. SettledIn(invoices, receipts, j)
        BY <2>7 DEF SettledRows
      <3> QED
        BY <2>5, <3>1, SettledSame
    <2> QED
      BY <2>6, <2>7 DEF SettledRows
  <1>6. ASSUME NEW r \in Requests, PostReceiptWrite(r)
        PROVE  SettledRows(invs, recs)
    <2>1. PICK id, statuses : id = req[r].id /\ statuses = req[r].statuses
      OBVIOUS
    <2>2. /\ id \in Receipts /\ receipts[id] \in ReceiptRow
          /\ \A i \in DOMAIN statuses :
                /\ i \in Invoices /\ invoices[i] \in InvoiceRow
                /\ statuses[i] \in InvoiceStatuses
      BY <1>1, <1>6, <2>1, CommitFinds DEF PostReceiptWrite, CommitWork
    <2>3. receipts[id] # Absent
      BY <2>2 DEF ReceiptRow, Absent
    <2>4. id \notin PostedIn(receipts)
      BY <1>1, <1>6, <2>1, ReceiptIsPosted, Zenon DEF Posted, PostedIn
    <2>5. /\ FitsIn(invoices, receipts, id)
          /\ statuses = StatusesIn(invoices, receipts, id)
      BY <1>6, <2>1 DEF AllReady, Ready, PostReceiptWrite
    <2>6. recs = Marked(id) /\ invs = Refreshed(statuses)
      BY <1>2, <1>6, <2>1 DEF PostReceiptWrite
    <2>7. /\ recs[id].status = "POSTED" /\ recs[id].lines = receipts[id].lines
          /\ \A x \in Receipts : x # id => recs[x] = receipts[x]
      BY <1>1, <2>2, <2>6, MarkedIsPosted
    <2>8. PostedIn(recs) = PostedIn(receipts) \union {id}
      BY <2>2, <2>7 DEF PostedIn
    <2>9. \A x \in PostedIn(recs) : recs[x].lines = receipts[x].lines
      BY <2>7 DEF PostedIn
    <2>10. ASSUME NEW i \in Invoices, invs[i] # Absent, i \in NamesIn(receipts, id)
           PROVE  SettledIn(invs, recs, i)
      <3>1. i \in DOMAIN statuses /\ statuses[i] = StatusesIn(invoices, receipts, id)[i]
        BY <2>5, <2>10 DEF StatusesIn
      <3>2. invoices[i] \in InvoiceRow /\ invs[i] = [invoices[i] EXCEPT !.status = statuses[i]]
        BY <2>2, <2>6, <3>1 DEF Refreshed
      <3>3. /\ invs[i].total = invoices[i].total
            /\ invs[i].status = StatusesIn(invoices, receipts, id)[i]
        BY <3>1, <3>2 DEF InvoiceRow
      <3>4. invoices[i] # Absent
        BY <3>2 DEF InvoiceRow, InvoiceStatuses, Absent
      <3> QED
        BY <1>1, <2>2, <2>3, <2>4, <2>5, <2>8, <2>9, <2>10, <3>3, <3>4, NamedIsSettled
    <2>11. ASSUME NEW i \in Invoices, invs[i] # Absent, i \notin NamesIn(receipts, id)
           PROVE  SettledIn(invs, recs, i)
      <3>1. i \notin DOMAIN statuses
        BY <2>5, <2>11 DEF StatusesIn
      <3>2. invs[i] = invoices[i]
        BY <2>6, <3>1 DEF Refreshed
      <3>3. SettledIn(invoices, receipts, i) /\ invoices[i] # Absent
        BY <2>11, <3>2 DEF SettledRows
      <3> QED
        BY <1>1, <2>2, <2>3, <2>4, <2>8, <2>9, <2>11, <3>2, <3>3, UnnamedIsSettled
    <2> QED
      BY <2>10, <2>11 DEF SettledRows
  <1>7. SettledRows(invs, recs)
    BY <1>1, <1>3, <1>4, <1>5, <1>6, StepKinds
    DEF RowsKept, CreateBillWrite, CreateReceiptRead, PostReceiptRead, PostReceiptRefresh,
        receiptVars
  <1> QED
    BY <1>2, <1>7

-----------------------------------------------------------------------------
(* Movements.                                                              *)
LEMMA MovementsOfForm ==
    ASSUME NEW form \in InvoiceForms \union BillForms, NEW sign \in Int, NEW source
    PROVE  /\ NumberRows(MovementsOf(form, sign, source))
           /\ \A k \in DOMAIN MovementsOf(form, sign, source) :
                 MovementsOf(form, sign, source)[k].source = source
  <1>1. CASE form.branch = None
    BY <1>1 DEF MovementsOf, NumberRows, Range
  <1>2. CASE form.branch # None
    <2>1. PICK rows, n : rows = Moved(form, sign, source) /\ n = Len(form.items)
      OBVIOUS
    <2>2. form.items \in Seq(Range(form.items))
      BY ItemsAssumption
    <2>3. DOMAIN form.items = 1 .. n /\ n \in Nat
      BY <2>1, <2>2
    <2>4. \A k \in 1 .. n : form.items[k].quantity \in Int
      BY <2>3, ItemsAssumption DEF Range
    <2>5. rows = [k \in 1 .. n |-> [product |-> form.items[k].product,
                      quantity |-> sign * form.items[k].quantity, source |-> source]]
      BY <2>1, <2>3 DEF Moved
    <2>6. \A k \in 1 .. n : rows[k].source = source
                            /\ rows[k].quantity = sign * form.items[k].quantity
      BY <2>5
    <2>7. rows \in Seq(Range(rows))
      <3>1. PICK S : S = Range(rows)
        OBVIOUS
      <3>2. DOMAIN rows = 1 .. n /\ rows = [k \in 1 .. n |-> rows[k]]
        BY <2>5
      <3>3. \A k \in 1 .. n : rows[k] \in S
        BY <3>1, <3>2 DEF Range
      <3>4. rows \in Seq(S)
        BY <2>3, <3>2, <3>3
      <3> QED
        BY <3>1, <3>4
    <2>8. \A k \in 1 .. n : sign * form.items[k].quantity \in Int
      BY <2>4
    <2>9. DOMAIN rows = 1 .. n
      BY <2>5
    <2>10. NumberRows(rows)
      BY <2>6, <2>7, <2>8, <2>9 DEF NumberRows
    <2>11. MovementsOf(form, sign, source) = rows
      BY <1>2, <2>1, Zenon DEF MovementsOf
    <2> QED
      BY <2>6, <2>9, <2>10, <2>11
  <1> QED
    BY <1>1, <1>2

LEMMA NumberRowsJoined ==
    ASSUME NEW a, NumberRows(a), NEW b, NumberRows(b)
    PROVE  /\ NumberRows(a \o b)
           /\ Len(a) \in Nat /\ DOMAIN a = 1 .. Len(a)
           /\ DOMAIN (a \o b) = 1 .. Len(a) + Len(b)
           /\ \A k \in DOMAIN a : (a \o b)[k] = a[k]
           /\ \A k \in DOMAIN (a \o b) : k > Len(a) =>
                 k - Len(a) \in DOMAIN b /\ (a \o b)[k] = b[k - Len(a)]
           /\ \A k \in DOMAIN a : SubSeq(a \o b, 1, k) = SubSeq(a, 1, k)
  <1>1. PICK S, c : S = Range(a) \union Range(b) /\ c = a \o b
    OBVIOUS
  <1>2. a \in Seq(S) /\ b \in Seq(S)
    <2>1. \A k \in DOMAIN a : a[k] \in S
      BY <1>1 DEF Range
    <2>2. \A k \in DOMAIN b : b[k] \in S
      BY <1>1 DEF Range
    <2> QED
      BY <2>1, <2>2 DEF NumberRows
  <1>3. /\ c \in Seq(S) /\ Len(a) \in Nat /\ Len(b) \in Nat
        /\ DOMAIN a = 1 .. Len(a) /\ DOMAIN b = 1 .. Len(b)
        /\ DOMAIN c = 1 .. Len(a) + Len(b)
    BY <1>1, <1>2
  <1>4. \A k \in DOMAIN a : c[k] = a[k]
    BY <1>1, <1>2, <1>3
  <1>5. \A k \in DOMAIN c : k > Len(a) => k - Len(a) \in DOMAIN b /\ c[k] = b[k - Len(a)]
    BY <1>1, <1>2, <1>3
  <1>6. NumberRows(c)
    <2>1. c \in Seq(Range(c))
      BY <1>3 DEF Range
    <2>2. \A k \in DOMAIN c : c[k].quantity \in Int
      BY <1>3, <1>4, <1>5 DEF NumberRows
    <2> QED
      BY <2>1, <2>2 DEF NumberRows
  <1>7. ASSUME NEW k \in DOMAIN a
        PROVE  SubSeq(c, 1, k) = SubSeq(a, 1, k)
    BY <1>2, <1>3, <1>4
  <1> QED
    BY <1>1, <1>3, <1>4, <1>5, <1>6, <1>7

RowsStand(rows, later) ==
    Len(rows) <= Len(later) /\ SubSeq(later, 1, Len(rows)) = rows

LEMMA JoinedRowsStand ==
    ASSUME NEW a, NumberRows(a), NEW b, NumberRows(b)
    PROVE  RowsStand(a, a \o b)
  <1>1. a \in Seq(Range(a) \union Range(b)) /\ b \in Seq(Range(a) \union Range(b))
    BY DEF NumberRows, Range
  <1> QED
    BY <1>1 DEF RowsStand

(* Rows of documents are not issues of moveStock.                          *)
LEMMA DocumentsAreCovered ==
    ASSUME NEW a, NumberRows(a), CoveredRows(a), NEW b, NumberRows(b),
           \A k \in DOMAIN b : b[k].source # ByMoveStock
    PROVE  NumberRows(a \o b) /\ CoveredRows(a \o b)
  <1>1. PICK c : c = a \o b
    OBVIOUS
  <1>2. /\ NumberRows(c) /\ Len(a) \in Nat /\ DOMAIN a = 1 .. Len(a)
        /\ DOMAIN c = 1 .. Len(a) + Len(b)
        /\ \A k \in DOMAIN a : c[k] = a[k]
        /\ \A k \in DOMAIN c : k > Len(a) =>
              k - Len(a) \in DOMAIN b /\ c[k] = b[k - Len(a)]
        /\ \A k \in DOMAIN a : SubSeq(c, 1, k) = SubSeq(a, 1, k)
    BY <1>1, NumberRowsJoined
  <1>3. ASSUME NEW k \in DOMAIN c, c[k].source = ByMoveStock, c[k].quantity < 0
        PROVE  Stock(SubSeq(c, 1, k), c[k].product) >= 0
    <2>1. ~ (k > Len(a))
      BY <1>2, <1>3
    <2>2. k \in DOMAIN a
      <3>1. k \in 1 .. Len(a) + Len(b)
        BY <1>2, <1>3, Zenon
      <3>2. k \in Int /\ k >= 1
        BY <3>1
      <3> QED
        BY <1>2, <2>1, <3>2
    <2>3. c[k] = a[k] /\ SubSeq(c, 1, k) = SubSeq(a, 1, k)
      BY <1>2, <2>2
    <2>4. Stock(SubSeq(a, 1, k), a[k].product) >= 0
      BY <1>3, <2>2, <2>3 DEF CoveredRows
    <2> QED
      BY <2>3, <2>4
  <1>4. CoveredRows(c)
    BY <1>3 DEF CoveredRows
  <1> QED
    BY <1>1, <1>2, <1>4

(* The stock of a product grows by the row that is appended.               *)
LEMMA StockGrows ==
    ASSUME NEW rows, NumberRows(rows), NEW row, row.quantity \in Int
    PROVE  /\ Stock(rows, row.product) \in Int
           /\ Stock(Append(rows, row), row.product)
                = Stock(rows, row.product) + row.quantity
  <1>1. PICK n, later, p : n = Len(rows) /\ later = Append(rows, row) /\ p = row.product
    OBVIOUS
  <1>2. PICK S : S = Range(rows) \union {row}
    OBVIOUS
  <1>3. rows \in Seq(S)
    <2>1. \A k \in DOMAIN rows : rows[k] \in S
      BY <1>2 DEF Range
    <2> QED
      BY <2>1 DEF NumberRows
  <1>4. n \in Nat /\ DOMAIN rows = 1 .. n /\ later \in Seq(S) /\ DOMAIN later = 1 .. n + 1
        /\ later[n + 1] = row /\ \A k \in 1 .. n : later[k] = rows[k]
    BY <1>1, <1>2, <1>3
  <1>5. PICK K, L : K = RowsOf(rows, p) /\ L = RowsOf(later, p)
    OBVIOUS
  <1>6. K \in SUBSET (1 .. n) /\ L = K \union {n + 1} /\ n + 1 \notin K
    <2>1. K = {k \in 1 .. n : rows[k].product = p}
      BY <1>4, <1>5 DEF RowsOf
    <2>2. L = {k \in 1 .. n + 1 : later[k].product = p}
      BY <1>4, <1>5 DEF RowsOf
    <2>3. n + 1 \in L
      BY <1>1, <1>4, <2>2
    <2>4. \A k \in 1 .. n : k \in L <=> k \in K
      BY <1>4, <2>1, <2>2
    <2>5. \A k \in L : k \in 1 .. n \/ k = n + 1
      BY <1>4, <2>2
    <2> QED
      BY <1>4, <2>1, <2>3, <2>4, <2>5
  <1>7. IsFiniteSet(1 .. n)
    BY <1>4, 1 \in Int, n \in Int, FS_Interval, Zenon
  <1>8. IsFiniteSet(K)
    BY <1>6, <1>7, FS_Subset
  <1>9. PICK v, w : v = [k \in K |-> rows[k].quantity] /\ w = [k \in L |-> later[k].quantity]
    OBVIOUS
  <1>10. v \in [K -> Int]
    BY <1>4, <1>6, <1>9 DEF NumberRows
  <1>11. (\A k \in K : w[k] = v[k]) /\ w[n + 1] = row.quantity
    BY <1>4, <1>6, <1>9
  <1>12. \A k \in L : later[k].quantity \in Int
    <2>1. \A k \in K : w[k] \in Int
      BY <1>10, <1>11
    <2> QED
      BY <1>6, <1>9, <1>11, <2>1
  <1>13. w \in [L -> Int]
    BY <1>9, <1>12
  <1>14. Total(w) = Total(v) + w[n + 1]
    <2>1. PICK last : last = n + 1
      OBVIOUS
    <2>2. last \notin K /\ L = K \union {last} /\ \A k \in K : w[k] = v[k]
      BY <1>6, <1>11, <2>1, Zenon
    <2>3. Total(w) = Total(v) + w[last]
      BY <1>8, <1>10, <1>13, <2>2, TotalGrows
    <2> QED
      BY <2>1, <2>3
  <1>15. Total(v) = Over(v, K) /\ Over(v, K) \in Int
    BY <1>8, <1>10, TotalIsOver, OverType
  <1>16. Stock(rows, p) = Total(v) /\ Stock(later, p) = Total(w)
    BY <1>5, <1>9, Zenon DEF Stock
  <1> QED
    BY <1>1, <1>11, <1>14, <1>15, <1>16

LEMMA IssuesAreCovered ==
    ASSUME NEW a, NumberRows(a), CoveredRows(a), NEW row, row.quantity \in Int,
           row.quantity < 0 => Stock(a, row.product) + row.quantity >= 0
    PROVE  NumberRows(Append(a, row)) /\ CoveredRows(Append(a, row))
  <1>1. PICK b, c, n : b = <<row>> /\ c = Append(a, row) /\ n = Len(a)
    OBVIOUS
  <1>2. NumberRows(b) /\ DOMAIN b = {1} /\ Len(b) = 1
    BY <1>1 DEF NumberRows, Range
  <1>3. c = a \o b
    BY <1>1 DEF NumberRows
  <1>4. /\ NumberRows(c) /\ n \in Nat /\ DOMAIN a = 1 .. n /\ DOMAIN c = 1 .. n + 1
        /\ \A k \in DOMAIN a : c[k] = a[k]
        /\ \A k \in DOMAIN a : SubSeq(c, 1, k) = SubSeq(a, 1, k)
    <2>1. /\ NumberRows(a \o b) /\ Len(a) \in Nat /\ DOMAIN a = 1 .. Len(a)
          /\ DOMAIN (a \o b) = 1 .. Len(a) + Len(b)
          /\ \A k \in DOMAIN a : (a \o b)[k] = a[k]
          /\ \A k \in DOMAIN a : SubSeq(a \o b, 1, k) = SubSeq(a, 1, k)
      BY <1>2, NumberRowsJoined
    <2> QED
      BY <1>1, <1>2, <1>3, <2>1, Zenon
  <1>5. c[n + 1] = row
    BY <1>1 DEF NumberRows
  <1>6. SubSeq(c, 1, n + 1) = c
    <2>1. c \in Seq(Range(c)) /\ Len(c) = n + 1
      BY <1>4 DEF NumberRows
    <2> QED
      BY <1>4, <2>1
  <1>7. Stock(c, row.product) = Stock(a, row.product) + row.quantity
    BY <1>1, StockGrows
  <1>8. ASSUME NEW k \in DOMAIN c, c[k].source = ByMoveStock, c[k].quantity < 0
        PROVE  Stock(SubSeq(c, 1, k), c[k].product) >= 0
    <2>1. CASE k \in 1 .. n
      <3>1. c[k] = a[k] /\ SubSeq(c, 1, k) = SubSeq(a, 1, k)
        BY <1>4, <2>1
      <3>2. Stock(SubSeq(a, 1, k), a[k].product) >= 0
        BY <1>4, <1>8, <2>1, <3>1 DEF CoveredRows
      <3> QED
        BY <3>1, <3>2
    <2>2. CASE k = n + 1
      BY <1>5, <1>6, <1>7, <1>8, <2>2
    <2> QED
      BY <1>4, <1>8, <2>1, <2>2
  <1>9. CoveredRows(c)
    BY <1>8 DEF CoveredRows
  <1> QED
    BY <1>1, <1>4, <1>9

LEMMA StepMovements ==
    ASSUME TypeOK, NumberRows(movements), [Next]_vars
    PROVE  /\ NumberRows(movements')
           /\ RowsStand(movements, movements')
           /\ AllReady /\ CoveredRows(movements) => CoveredRows(movements')
  <1>1. PICK later : later = movements'
    OBVIOUS
  <1> DEFINE Fine == /\ NumberRows(later)
                     /\ RowsStand(movements, later)
                     /\ AllReady /\ CoveredRows(movements) => CoveredRows(later)
  <1>2. ASSUME UNCHANGED movements
        PROVE  Fine
    <2>1. RowsStand(movements, movements)
      BY DEF RowsStand, NumberRows
    <2> QED
      BY <1>1, <1>2, <2>1
  <1>3. ASSUME NEW rows, NumberRows(rows), later = movements \o rows,
               \A k \in DOMAIN rows : rows[k].source # ByMoveStock
        PROVE  Fine
    <2>1. NumberRows(later) /\ RowsStand(movements, later)
      BY <1>3, NumberRowsJoined, JoinedRowsStand
    <2>2. CoveredRows(movements) => CoveredRows(later)
      BY <1>3, DocumentsAreCovered
    <2> QED
      BY <2>1, <2>2
  <1>4. ASSUME NEW r \in Requests, CreateInvoiceWrite(r)
        PROVE  Fine
    <2>1. PICK form, rows, i :
              /\ form = req[r].form /\ i = req[r].id
              /\ rows = MovementsOf(form, -1, <<"invoice", i>>)
      OBVIOUS
    <2>2. req[r] \in InvoiceWork
      BY <1>4 DEF CreateInvoiceWrite, TypeOK, Work, InvoiceWork, BillWork, StockWork,
                  DraftWork, PostWork, CommitWork, Idle
    <2>3. form \in InvoiceForms \union BillForms
      BY <2>1, <2>2 DEF InvoiceWork
    <2>4. NumberRows(rows) /\ \A k \in DOMAIN rows : rows[k].source = <<"invoice", i>>
      BY <2>1, <2>3, -1 \in Int, MovementsOfForm
    <2>5. <<"invoice", i>> # ByMoveStock
      BY DEF ByMoveStock
    <2>6. later = movements \o rows
      BY <1>1, <1>4, <2>1, Zenon DEF CreateInvoiceWrite
    <2>7. \A k \in DOMAIN rows : rows[k].source # ByMoveStock
      BY <2>4, <2>5
    <2> QED
      BY <1>3, <2>4, <2>6, <2>7, Zenon
  <1>5. ASSUME NEW r \in Requests, CreateBillWrite(r)
        PROVE  Fine
    <2>1. PICK form, rows, b :
              /\ form = req[r].form /\ b = req[r].id
              /\ rows = MovementsOf(form, 1, <<"bill", b>>)
      OBVIOUS
    <2>2. req[r] \in BillWork
      BY <1>5 DEF CreateBillWrite, TypeOK, Work, InvoiceWork, BillWork, StockWork,
                  DraftWork, PostWork, CommitWork, Idle
    <2>3. form \in InvoiceForms \union BillForms
      BY <2>1, <2>2 DEF BillWork
    <2>4. NumberRows(rows) /\ \A k \in DOMAIN rows : rows[k].source = <<"bill", b>>
      BY <2>1, <2>3, 1 \in Int, MovementsOfForm
    <2>5. <<"bill", b>> # ByMoveStock
      BY DEF ByMoveStock
    <2>6. later = movements \o rows
      BY <1>1, <1>5, <2>1, Zenon DEF CreateBillWrite
    <2>7. \A k \in DOMAIN rows : rows[k].source # ByMoveStock
      BY <2>4, <2>5
    <2> QED
      BY <1>3, <2>4, <2>6, <2>7, Zenon
  <1>6. ASSUME NEW r \in Requests, MoveStockWrite(r)
        PROVE  Fine
    <2>1. PICK move, row :
              /\ move = req[r].move
              /\ row = [ product |-> move.product, source |-> ByMoveStock,
                         quantity |-> IF move.direction = "OUT"
                                      THEN -move.quantity ELSE move.quantity ]
      OBVIOUS
    <2>2. req[r].op = "moveStock" /\ later = Append(movements, row)
      BY <1>1, <1>6, <2>1, Zenon DEF MoveStockWrite
    <2>3. req[r] \in StockWork
      BY <2>2 DEF TypeOK, Work, InvoiceWork, BillWork, StockWork, DraftWork, PostWork,
                  CommitWork, Idle
    <2>4. move.quantity \in Int
      BY <2>1, <2>3, MovesAssumption DEF StockWork
    <2>5. /\ row.product = move.product /\ row.quantity \in Int
          /\ row.quantity = IF move.direction = "OUT"
                            THEN -move.quantity ELSE move.quantity
      BY <2>1, <2>4
    <2>6. NumberRows(later) /\ RowsStand(movements, later)
      <3>1. PICK b : b = <<row>>
        OBVIOUS
      <3>2. NumberRows(b)
        BY <2>5, <3>1 DEF NumberRows, Range
      <3>3. later = movements \o b
        BY <2>2, <3>1 DEF NumberRows
      <3> QED
        BY <3>2, <3>3, NumberRowsJoined, JoinedRowsStand
    <2>7. ASSUME AllReady, CoveredRows(movements)
          PROVE  CoveredRows(later)
      <3>1. /\ move.quantity > 0
            /\ move.direction = "OUT" => Stock(movements, move.product) >= move.quantity
        BY <2>1, <2>2, <2>7 DEF AllReady, Ready
      <3>2. Stock(movements, row.product) \in Int
        BY <2>5, StockGrows
      <3>3. row.quantity < 0 => Stock(movements, row.product) + row.quantity >= 0
        BY <2>4, <2>5, <3>1, <3>2
      <3> QED
        BY <2>2, <2>5, <2>7, <3>3, IssuesAreCovered
    <2> QED
      BY <2>6, <2>7
  <1> HIDE DEF Fine
  <1>7. Fine
    BY <1>2, <1>4, <1>5, <1>6
    DEF Next, TradeNext, ReceiptNext, vars, tradeVars, CreateInvoiceRead, CreateBillRead,
        MoveStockRead, Abort, ChangePeriod, CreateReceiptRead, CreateReceiptWrite,
        PostReceiptRead, PostReceiptRefresh, PostReceiptWrite
  <1> QED
    BY <1>1, <1>7 DEF Fine

LEMMA InitDesk == Init => DeskInv
  <1> SUFFICES ASSUME Init
               PROVE  DeskInv
    OBVIOUS
  <1>1. BooksInv /\ WorkMayBePosted
    BY InitLedger DEF LedgerInv
  <1>2. movements = <<>> /\ \A r \in Requests : req[r] = Idle
    BY DEF Init, TradeInit
  <1>3. NumberRows(movements) /\ CoveredRows(movements)
    BY <1>2 DEF NumberRows, CoveredRows, Range
  <1>4. OneAtATime /\ AllReady
    BY <1>2, IdleIsReady DEF OneAtATime, AllReady
  <1>5. SettledRows(invoices, receipts)
    BY DEF Init, TradeInit, SettledRows
  <1> QED
    BY <1>1, <1>3, <1>4, <1>5 DEF DeskInv

LEMMA StepDeskInv == DeskInv /\ [Next]_vars => DeskInv'
  <1> SUFFICES ASSUME DeskInv, [Next]_vars
               PROVE  DeskInv'
    OBVIOUS
  <1>1. /\ BooksInv /\ TypeOK /\ WorkMayBePosted /\ NumberRows(movements)
        /\ alone => OneAtATime /\ AllReady
        /\ alone => SettledRows(invoices, receipts) /\ CoveredRows(movements)
    BY DEF DeskInv, BooksInv
  <1>2. BooksInv' /\ WorkMayBePosted'
    BY <1>1, StepBooks, StepWork
  <1>3. alone' => alone /\ OneAtATime' /\ AllReady'
    <2>1. alone' = alone
      BY AloneIsFixed
    <2> QED
      BY <1>1, <2>1, StepDesk
  <1>4. NumberRows(movements') /\ (alone => CoveredRows(movements'))
    BY <1>1, StepMovements
  <1>5. alone => SettledRows(invoices', receipts')
    BY <1>1, StepSettled
  <1> QED
    BY <1>2, <1>3, <1>4, <1>5, Zenon DEF DeskInv

LEMMA DeskCorrect == Spec => []DeskInv
  BY InitDesk, StepDeskInv, PTL DEF Spec

(* One request at a time, an invoice is never paid more than it comes to   *)
(* and one cent unless a receipt names it twice, and its status says how   *)
(* much of it is paid (createReceipt, postReceipt and                      *)
(* refreshInvoiceReceiptStatus).                                           *)
THEOREM SettledOneAtATime == Spec => []InvoicesSettledAsBooked
  <1>1. DeskInv => InvoicesSettledAsBooked
    BY SettledIs DEF DeskInv
  <1> QED
    BY <1>1, DeskCorrect, PTL

(* One request at a time, moveStock issues no more of a product than there *)
(* is (moveStock, with the rows that createInvoice and createBill append). *)
THEOREM IssuesCoveredOneAtATime == Spec => []IssuesCovered
  <1>1. DeskInv => IssuesCovered
    BY SettledIs DEF DeskInv
  <1> QED
    BY <1>1, DeskCorrect, PTL

-----------------------------------------------------------------------------
(* What is written stands.                                                 *)

(* A row that does not change stands.                                      *)
LEMMA SameRowStands ==
    ASSUME TypeOK
    PROVE  /\ \A i \in Invoices :
                 invoices[i] # Absent /\ invoices'[i] = invoices[i] => InvoiceStands(i)
           /\ \A id \in Receipts : receipts'[id] = receipts[id] => ReceiptStands(id)
           /\ \A c \in Companies : sequence[c] \in Nat
  <1>1. ASSUME NEW row \in InvoiceRow
        PROVE  row = [row EXCEPT !.status = row.status]
    BY DEF InvoiceRow
  <1>2. ASSUME NEW i \in Invoices, invoices[i] # Absent, invoices'[i] = invoices[i]
        PROVE  InvoiceStands(i)
    <2>1. invoices[i] \in InvoiceRow
      BY <1>2 DEF TypeOK
    <2> QED
      BY <1>1, <1>2, <2>1 DEF InvoiceStands
  <1> QED
    BY <1>2 DEF ReceiptStands, TypeOK

LEMMA BillIsNew ==
    ASSUME TypeOK, AuditsAreKeyed, DocumentsBookedOnce,
           NEW r \in Requests, CreateBillWrite(r)
    PROVE  \A b \in Bills : bills[b] # Absent => bills'[b] = bills[b]
  <1>1. PICK b : b = req[r].id
    OBVIOUS
  <1>2. \A audit \in audits : audit.key # AuditOfBill(b).key
    BY <1>1 DEF CreateBillWrite, KeyIsFree, AuditOfBill
  <1>3. \A audit \in audits : audit.entry # <<"bill", b>>
    BY <1>2 DEF AuditsAreKeyed, AuditOfInvoice, AuditOfBill
  <1>4. <<"bill", b>> \notin Booked
    BY <1>3 DEF DocumentsBookedOnce
  <1>5. b \in Bills => bills[b] = Absent
    BY <1>4 DEF Booked
  <1>6. PICK row : bills' = [bills EXCEPT ![b] = row]
    BY <1>1, Zenon DEF CreateBillWrite
  <1> QED
    BY <1>5, <1>6 DEF TypeOK

(* A number that is free is no lower than the sequence.                    *)
LEMMA SequenceStands ==
    ASSUME TypeOK, NumbersAreTaken, NEW r \in Requests, CreateReceiptWrite(r)
    PROVE  \A c \in Companies : sequence[c] <= sequence'[c]
  <1>1. req[r] \in DraftWork
    BY DEF CreateReceiptWrite, TypeOK, Work, InvoiceWork, BillWork, StockWork,
           DraftWork, PostWork, CommitWork, Idle
  <1>2. PICK c \in Companies, n \in Nat \ {0} : c = req[r].form.company /\ n = req[r].number
    BY <1>1, FormsAssumption DEF DraftWork
  <1>3. n = NextNumber(c)
    BY <1>2, FreeNumberIsNext DEF NumbersAreTaken, Numbered
  <1>4. sequence[c] \in Nat /\ sequence[c] <= n
    BY <1>2, <1>3 DEF NextNumber, TypeOK
  <1>5. sequence'[c] = n + 1 /\ \A d \in Companies : d # c => sequence'[d] = sequence[d]
    BY <1>2 DEF CreateReceiptWrite, TypeOK
  <1> QED
    BY <1>2, <1>4, <1>5 DEF TypeOK

(* A commit posts a draft, and marks invoices with nothing but a status.   *)
LEMMA PostingStands ==
    ASSUME TypeOK, ReceiptsReserved, LinesNameInvoices, DocumentsBookedOnce,
           NEW r \in Requests, PostReceiptWrite(r)
    PROVE  /\ \A i \in Invoices : invoices[i] # Absent => InvoiceStands(i)
           /\ \A id \in Receipts : receipts[id] # Absent => ReceiptStands(id)
  <1>1. PICK id, statuses : id = req[r].id /\ statuses = req[r].statuses
    OBVIOUS
  <1>2. /\ id \in Receipts /\ receipts[id] \in ReceiptRow
        /\ receipts' = Marked(id) /\ invoices' = Refreshed(statuses)
    BY <1>1, CommitFinds DEF PostReceiptWrite, CommitWork
  <1>3. receipts[id].status = "DRAFT"
    <2>1. id \notin Posted
      BY <1>1, ReceiptIsPosted, Zenon
    <2> QED
      BY <1>2, <2>1 DEF Posted, ReceiptRow
  <1>4. ReceiptStands(id)
    BY <1>2, <1>3 DEF Marked, TypeOK, ReceiptStands
  <1>5. \A x \in Receipts : x # id => receipts'[x] = receipts[x]
    BY <1>2, MarkedIsPosted
  <1>6. ASSUME NEW i \in Invoices, invoices[i] # Absent, i \in DOMAIN statuses
        PROVE  InvoiceStands(i)
    <2>1. PICK row, s : row = invoices[i] /\ s = statuses[i]
      OBVIOUS
    <2>2. row \in InvoiceRow /\ invoices'[i] = [row EXCEPT !.status = s]
      BY <1>2, <1>6, <2>1 DEF Refreshed, TypeOK
    <2>3. [row EXCEPT !.status = s].status = s
      BY <2>2 DEF InvoiceRow
    <2> QED
      BY <2>1, <2>2, <2>3 DEF InvoiceStands
  <1>7. ASSUME NEW i \in Invoices, i \notin DOMAIN statuses
        PROVE  invoices'[i] = invoices[i]
    BY <1>2, <1>7 DEF Refreshed
  <1> QED
    BY <1>4, <1>5, <1>6, <1>7, SameRowStands

LEMMA StepStands ==
    ASSUME BooksInv, WorkMayBePosted, NumberRows(movements), [Next]_vars
    PROVE  BooksStand
  <1>1. /\ TypeOK /\ AuditsAreKeyed /\ LinesNameInvoices /\ ReceiptsReserved
        /\ DocumentsBookedOnce /\ NumbersAreTaken
    BY DEF BooksInv
  <1>2. Len(movements) <= Len(movements') /\ SubSeq(movements', 1, Len(movements)) = movements
    BY <1>1, StepMovements DEF RowsStand
  <1> DEFINE Ledger == entries \subseteq entries' /\ audits \subseteq audits'
             Numbers == \A c \in Companies : sequence[c] <= sequence'[c]
             Bought == \A b \in Bills : bills[b] # Absent => bills'[b] = bills[b]
             Sold == \A i \in Invoices : invoices[i] # Absent => InvoiceStands(i)
             Received == \A id \in Receipts : receipts[id] # Absent => ReceiptStands(id)
             Stand == Ledger /\ Numbers /\ Bought /\ Sold /\ Received
  <1>3. /\ UNCHANGED <<entries, audits>> => Ledger
        /\ UNCHANGED sequence => Numbers
        /\ UNCHANGED bills => Bought
        /\ UNCHANGED invoices => Sold
        /\ UNCHANGED receipts => Received
    <2>1. \A n \in Nat : n <= n
      OBVIOUS
    <2> QED
      BY <1>1, <2>1, SameRowStands
  <1>4. ASSUME NEW r \in Requests, CreateInvoiceWrite(r), UNCHANGED receiptVars
        PROVE  Stand
    <2>1. Ledger /\ UNCHANGED <<bills, receipts, sequence>>
      BY <1>4, Zenon DEF CreateInvoiceWrite, receiptVars
    <2>2. Sold
      <3>1. PICK i \in Invoices : /\ invoices[i] = Absent
                                  /\ \A j \in Invoices : j # i => invoices'[j] = invoices[j]
        BY <1>1, <1>4, InvoiceIsWritten
      <3> QED
        BY <1>1, <3>1, SameRowStands
    <2> QED
      BY <1>3, <2>1, <2>2
  <1>5. ASSUME NEW r \in Requests, CreateBillWrite(r), UNCHANGED receiptVars
        PROVE  Stand
    <2>1. Ledger /\ UNCHANGED <<invoices, receipts, sequence>>
      BY <1>5, Zenon DEF CreateBillWrite, receiptVars
    <2> QED
      BY <1>1, <1>3, <1>5, <2>1, BillIsNew
  <1>6. ASSUME NEW r \in Requests, CreateReceiptWrite(r)
        PROVE  Stand
    <2>1. UNCHANGED <<entries, audits, bills, invoices>>
      BY <1>6 DEF CreateReceiptWrite
    <2>2. Received
      <3>1. PICK id : id = req[r].id
        OBVIOUS
      <3>2. req[r] \in DraftWork /\ receipts[id] = Absent
        BY <1>1, <1>6, <3>1 DEF CreateReceiptWrite, TypeOK, Work, InvoiceWork, BillWork,
                                StockWork, DraftWork, PostWork, CommitWork, Idle,
                                ReceiptsReserved
      <3>3. PICK row : receipts' = [receipts EXCEPT ![id] = row]
        BY <1>6, <3>1, Zenon DEF CreateReceiptWrite
      <3>4. \A x \in Receipts : x # id => receipts'[x] = receipts[x]
        BY <1>1, <3>3 DEF TypeOK
      <3> QED
        BY <1>1, <3>2, <3>4, SameRowStands
    <2> QED
      BY <1>1, <1>3, <1>6, <2>1, <2>2, SequenceStands
  <1>7. ASSUME NEW r \in Requests, PostReceiptWrite(r)
        PROVE  Stand
    <2>1. Ledger /\ UNCHANGED <<bills, sequence>>
      BY <1>7, Zenon DEF PostReceiptWrite
    <2> QED
      BY <1>1, <1>3, <1>7, <2>1, PostingStands
  <1>8. ASSUME UNCHANGED <<invoices, bills, receipts, entries, audits, sequence>>
        PROVE  Stand
    BY <1>3, <1>8
  <1> HIDE DEF Stand
  <1>9. Stand
    BY <1>1, <1>4, <1>5, <1>6, <1>7, <1>8, StepKinds
    DEF RowsKept, CreateReceiptRead, PostReceiptRead, PostReceiptRefresh, receiptVars
  <1> QED
    BY <1>2, <1>9 DEF Stand, BooksStand

(* However requests overlap or die, what is written stands: the ledger,    *)
(* its audit rows, the stock movements and the numbers are only added to,  *)
(* bills stay as they are, invoices change in their status only, and a     *)
(* receipt once, from DRAFT to POSTED (createInvoice, createBill,          *)
(* moveStock, createReceipt and postReceipt).                              *)
THEOREM WhatIsWrittenStands == Spec => BooksOnlyGrow
  <1>1. DeskInv /\ [Next]_vars => [BooksStand]_vars
    BY StepStands DEF DeskInv
  <1> QED
    BY <1>1, DeskCorrect, PTL DEF Spec, BooksOnlyGrow

-----------------------------------------------------------------------------
(* One request at a time, the status of an invoice only advances: what a   *)
(* receipt applies is never negative.                                      *)

PositiveLines(lines) == \A k \in DOMAIN lines : lines[k].amount > 0

(* prepareReceipt lets only positive amounts through. *)
LinesArePositive ==
    /\ \A id \in Receipts : receipts[id] # Absent => PositiveLines(receipts[id].lines)
    /\ \A r \in Requests : req[r].op = "createReceipt" => PositiveLines(req[r].form.lines)

LEMMA StepPositive ==
    ASSUME TypeOK, ReceiptsReserved, LinesNameInvoices, LinesArePositive, [Next]_vars
    PROVE  LinesArePositive'
  <1>1. ASSUME UNCHANGED receipts, RequestsKept
        PROVE  LinesArePositive'
    BY <1>1 DEF LinesArePositive, RequestsKept, Reserving
  <1>2. ASSUME NEW r \in Requests,
               \/ CreateInvoiceWrite(r) /\ UNCHANGED receiptVars
               \/ CreateBillWrite(r) /\ UNCHANGED receiptVars
        PROVE  LinesArePositive'
    <2>1. RequestsKept /\ UNCHANGED receipts
      BY <1>2, FinishKeepsRequests DEF CreateInvoiceWrite, CreateBillWrite, receiptVars
    <2> QED
      BY <1>1, <2>1
  <1>3. ASSUME NEW r \in Requests, CreateReceiptWrite(r)
        PROVE  LinesArePositive'
    <2>1. RequestsKept
      BY <1>3, FinishKeepsRequests DEF CreateReceiptWrite
    <2>2. PositiveLines(req[r].form.lines)
      BY <1>3 DEF CreateReceiptWrite, LinesArePositive
    <2>3. \A id \in Receipts : \/ receipts'[id] = receipts[id]
                              \/ receipts'[id].lines = req[r].form.lines
      BY <1>3 DEF CreateReceiptWrite, TypeOK
    <2>4. \A id \in Receipts : receipts'[id] # Absent => PositiveLines(receipts'[id].lines)
      BY <2>2, <2>3 DEF LinesArePositive
    <2> QED
      BY <2>1, <2>4 DEF RequestsKept, Reserving, LinesArePositive
  <1>4. ASSUME NEW r \in Requests, PostReceiptWrite(r)
        PROVE  LinesArePositive'
    <2>1. RequestsKept
      BY <1>4, FinishKeepsRequests DEF PostReceiptWrite
    <2>2. req[r] \in CommitWork /\ receipts[req[r].id] \in ReceiptRow
      BY <1>4, CommitFinds DEF PostReceiptWrite
    <2>3. \A id \in Receipts :
              /\ receipts'[id] # Absent => receipts[id] # Absent
              /\ receipts'[id] = receipts[id] \/ receipts'[id].lines = receipts[id].lines
      BY <1>4, <2>2, MarkedIsPosted DEF PostReceiptWrite, CommitWork
    <2>4. \A id \in Receipts : receipts'[id] # Absent => PositiveLines(receipts'[id].lines)
      BY <2>3 DEF LinesArePositive
    <2> QED
      BY <2>1, <2>4 DEF RequestsKept, Reserving, LinesArePositive
  <1>5. ASSUME NEW r \in Requests, NEW id \in Receipts, NEW form \in ReceiptForms,
               CreateReceiptRead(r, id, form)
        PROVE  LinesArePositive'
    <2>1. PositiveLines(form.lines)
      BY <1>5 DEF CreateReceiptRead, Prepared, PositiveLines
    <2>2. /\ req'[r].form = form /\ UNCHANGED receipts
          /\ \A s \in Requests : s # r => req'[s] = req[s]
      BY <1>5 DEF CreateReceiptRead, Begin, TypeOK, receiptVars
    <2> QED
      BY <2>1, <2>2 DEF LinesArePositive
  <1>6. ASSUME NEW r \in Requests, NEW id \in Receipts, PostReceiptRead(r, id)
        PROVE  LinesArePositive'
    <2>1. /\ req'[r].op = "postReceipt" /\ UNCHANGED receipts
          /\ \A s \in Requests : s # r => req'[s] = req[s]
      BY <1>6 DEF PostReceiptRead, Begin, TypeOK, receiptVars
    <2> QED
      BY <2>1 DEF LinesArePositive
  <1>7. ASSUME NEW r \in Requests, PostReceiptRefresh(r)
        PROVE  LinesArePositive'
    <2>1. /\ req'[r].op = "commitReceipt" /\ UNCHANGED receipts
          /\ \A s \in Requests : s # r => req'[s] = req[s]
      BY <1>7 DEF PostReceiptRefresh, TypeOK, receiptVars
    <2> QED
      BY <2>1 DEF LinesArePositive
  <1> QED
    BY <1>1, <1>2, <1>3, <1>4, <1>5, <1>6, <1>7, StepKinds DEF RowsKept

(* What a receipt applies to an invoice is not negative.                   *)
LEMMA AppliedIsNatural ==
    ASSUME TypeOK, LinesArePositive, NEW id \in Receipts, receipts[id] # Absent, NEW i
    PROVE  AppliedTo(receipts[id].lines, i) \in Nat
  <1>1. PICK lines, L, w : /\ lines = receipts[id].lines /\ L = LinesOn(lines, i)
                           /\ w = [k \in L |-> lines[k].amount]
    OBVIOUS
  <1>2. IsFiniteSet(L) /\ L \subseteq DOMAIN lines
    <2>1. IsFiniteSet(LinesOn(receipts[id].lines, i))
      BY RowApplies, Zenon
    <2> QED
      BY <1>1, <2>1 DEF LinesOn
  <1>3. \A k \in L : lines[k].amount \in Int /\ lines[k].amount > 0
    BY <1>1, <1>2, RowApplies DEF LinesArePositive, PositiveLines
  <1>4. w \in [L -> Int] /\ \A k \in L : w[k] \in Nat
    BY <1>1, <1>3
  <1>5. Total(w) \in Nat
    BY <1>2, <1>4, TotalIsOver, OverNat
  <1> QED
    BY <1>1, <1>5, Zenon DEF AppliedTo

(* The less is outstanding, the further the status.                        *)
LEMMA LessDueIsFurther ==
    ASSUME NEW total \in Int, NEW due \in Int, NEW paid \in Nat
    PROVE  /\ SettlementOrder[InvoiceStatus(total, due)]
                <= SettlementOrder[InvoiceStatus(total, due - paid)]
           /\ SettlementOrder["OPEN"] <= SettlementOrder[InvoiceStatus(total, due - paid)]
  BY DEF SettlementOrder, InvoiceStatus, Cent

LEMMA StepAdvances ==
    ASSUME DeskInv, LinesArePositive, [Next]_vars, alone,
           NEW i \in Invoices, invoices[i] # Absent
    PROVE  SettlementOrder[invoices[i].status] <= SettlementOrder[invoices'[i].status]
  <1>1. /\ TypeOK /\ AuditsAreKeyed /\ LinesNameInvoices /\ ReceiptsReserved
        /\ DocumentsBookedOnce /\ WorkMayBePosted /\ AllReady
        /\ SettledIn(invoices, receipts, i)
    BY DEF DeskInv, BooksInv, SettledRows
  <1> DEFINE Further == SettlementOrder[invoices[i].status] <= SettlementOrder[invoices'[i].status]
  <1>2. ASSUME invoices'[i] = invoices[i]
        PROVE  Further
    <2>1. invoices[i].status \in InvoiceStatuses
      BY <1>1, TotalsAreNumbers DEF InvoiceRow
    <2> QED
      BY <1>2, <2>1 DEF SettlementOrder, InvoiceStatuses
  <1>3. ASSUME NEW r \in Requests, CreateInvoiceWrite(r)
        PROVE  Further
    <2>1. PICK j \in Invoices : /\ invoices[j] = Absent
                                /\ \A k \in Invoices : k # j => invoices'[k] = invoices[k]
      BY <1>1, <1>3, InvoiceIsWritten
    <2> QED
      BY <1>2, <2>1
  <1>4. ASSUME NEW r \in Requests, PostReceiptWrite(r)
        PROVE  Further
    <2>1. PICK id, statuses : id = req[r].id /\ statuses = req[r].statuses
      OBVIOUS
    <2>2. /\ id \in Receipts /\ receipts[id] \in ReceiptRow
          /\ invoices' = Refreshed(statuses)
      BY <1>1, <1>4, <2>1, CommitFinds DEF PostReceiptWrite, CommitWork
    <2>3. statuses = StatusesIn(invoices, receipts, id)
      BY <1>1, <1>4, <2>1 DEF AllReady, Ready, PostReceiptWrite
    <2>4. id \notin PostedIn(receipts)
      BY <1>1, <1>4, <2>1, ReceiptIsPosted, Zenon DEF Posted, PostedIn
    <2>5. ASSUME i \in NamesIn(receipts, id)
          PROVE  Further
      <3>1. PICK total, due, paid :
                /\ total = invoices[i].total
                /\ due = DueIn(invoices, receipts, PostedIn(receipts), i)
                /\ paid = AppliedTo(receipts[id].lines, i)
        OBVIOUS
      <3>2. total \in Int /\ due \in Int
        BY <1>1, <3>1, TotalsAreNumbers, PostedAreRows DEF DueIn
      <3>3. paid \in Nat
        <4>1. receipts[id] # Absent
          BY <2>2 DEF ReceiptRow, Absent
        <4> QED
          BY <1>1, <2>2, <3>1, <4>1, AppliedIsNatural
      <3>4. PostedIn(receipts) \ {id} = PostedIn(receipts)
        BY <2>4
      <3>5. i \in DOMAIN statuses /\ statuses[i] = InvoiceStatus(total, due - paid)
        BY <2>3, <2>5, <3>1, <3>4 DEF StatusesIn
      <3>6. invoices'[i].status = statuses[i]
        <4>1. PICK row, s : row = invoices[i] /\ s = statuses[i]
          OBVIOUS
        <4>2. row \in InvoiceRow /\ invoices'[i] = [row EXCEPT !.status = s]
          BY <1>1, <2>2, <3>5, <4>1, TotalsAreNumbers DEF Refreshed
        <4> QED
          BY <4>1, <4>2 DEF InvoiceRow
      <3>7. invoices[i].status \in {"OPEN", InvoiceStatus(total, due)}
        BY <1>1, <3>1 DEF SettledIn
      <3> QED
        BY <3>2, <3>3, <3>5, <3>6, <3>7, LessDueIsFurther
    <2>6. ASSUME i \notin NamesIn(receipts, id)
          PROVE  Further
      <3>1. i \notin DOMAIN statuses
        BY <2>3, <2>6 DEF StatusesIn
      <3> QED
        BY <1>2, <2>2, <3>1 DEF Refreshed
    <2> QED
      BY <2>5, <2>6
  <1>5. ASSUME UNCHANGED invoices
        PROVE  Further
    BY <1>2, <1>5
  <1> HIDE DEF Further
  <1>6. Further
    BY <1>1, <1>3, <1>4, <1>5, StepKinds
    DEF RowsKept, CreateBillWrite, CreateReceiptWrite, CreateReceiptRead, PostReceiptRead,
        PostReceiptRefresh, receiptVars
  <1> QED
    BY <1>6 DEF Further

(* One request at a time, an invoice goes from OPEN to PARTIALLY_PAID and  *)
(* to PAID and never back (postReceipt, refreshInvoiceReceiptStatus).      *)
THEOREM SettledForGood == Spec => SettlementAdvances
  <1>1. Init => LinesArePositive
    <2>1. Init => /\ \A id \in Receipts : receipts[id] = Absent
                  /\ \A r \in Requests : req[r] = Idle
      BY DEF Init, TradeInit
    <2> QED
      BY <2>1, IdleIsNothing DEF LinesArePositive
  <1>2. DeskInv /\ LinesArePositive /\ [Next]_vars => LinesArePositive'
    BY StepPositive DEF DeskInv, BooksInv
  <1>3. DeskInv /\ LinesArePositive /\ [Next]_vars =>
          [ alone => \A i \in Invoices : invoices[i] # Absent =>
              SettlementOrder[invoices[i].status] <= SettlementOrder[invoices'[i].status] ]_vars
    BY StepAdvances
  <1> QED
    BY <1>1, <1>2, <1>3, DeskCorrect, PTL DEF Spec, SettlementAdvances

=============================================================================
