---------------------------- MODULE TradeLedger -----------------------------
(***************************************************************************)
(* Sales invoices, purchase bills and stock, posted by the posting engine: *)
(*   sales/sales.service.ts (createInvoice),                               *)
(*   purchases/purchases.service.ts (createBill),                          *)
(*   inventory/inventory.service.ts (moveStock), posting/posting.service.ts*)
(*                                                                         *)
(* Each handler is one database transaction at READ COMMITTED: its checks  *)
(* read what is committed at the time, its writes appear together when it  *)
(* commits.  XRead makes the checks and keeps what will be written; XWrite *)
(* commits.  Abort is a refusal by the database, a rollback or a crash.    *)
(*                                                                         *)
(* Quantities are in tenths, prices in cents, tax rates in tenths of a     *)
(* percent.  The services compute with them in doubles: each result is off *)
(* by less than a unit as long as amounts stay below 10^8 (bound).         *)
(***************************************************************************)
EXTENDS PostingRules

CONSTANTS
    Companies,
    CompanyOf,        \* the company of each party, product and branch
    CategoryOf,       \* the category of each product
    PostingMatrix,    \* PostingRule rows
    Invoices, Bills,  \* bound: the documents there may be
    InvoiceForms, BillForms, StockMoves,  \* what the clients send
    MaxMovements,     \* bound: stock movements made by moveStock
    Requests          \* the requests that may be in flight together

(* An item is a row of numbers (SalesItemDto, PurchaseItemDto). *)
ASSUME ItemsAssumption ==
    \A form \in InvoiceForms \union BillForms :
        /\ form.items \in Seq(Range(form.items))
        /\ \A item \in Range(form.items) :
              /\ item.quantity \in Int
              /\ item.unitPrice \in Int
              /\ item.taxRate \in Int

ASSUME MovesAssumption == \A move \in StockMoves : move.quantity \in Int

VARIABLES
    alone,       \* TRUE if there is never more than one request in flight
    period,      \* of each company: status of the period of today
    invoices,    \* SalesInvoice rows
    bills,       \* PurchaseBill rows
    movements,   \* StockMovement rows, oldest first
    entries,     \* JournalEntry rows with their lines
    audits,      \* PostingAudit rows: idempotency key and entry
    req          \* what each request in flight is about to write

tradeVars == <<alone, period, invoices, bills, movements, entries, audits, req>>

Today == 0
Idle == [op |-> "idle"]
Absent == [status |-> "ABSENT"]

-----------------------------------------------------------------------------
(* What the documents come to.                                             *)

Products(form) == { form.items[i].product : i \in DOMAIN form.items }

NetOf(item) == item.quantity * item.unitPrice

Nets(form) == [i \in DOMAIN form.items |-> NetOf(form.items[i]) * 10000]

Taxes(form) ==
    [i \in DOMAIN form.items |-> NetOf(form.items[i]) * form.items[i].taxRate * 10]

(* What a reduce in double arithmetic makes of these terms. It is off by   *)
(* less than a unit; of nothing but zeros it is zero.                      *)
Computed(terms) ==
    IF \A i \in DOMAIN terms : terms[i] = 0 THEN {0}
    ELSE Total(terms) - 1 .. Total(terms) + 1

(* baseTotal, taxTotal and their sum, which is rounded once more.          *)
AmountsOf(form) ==
    { [ base |-> base, tax |-> tax,
        total |-> IF tax = 0 THEN base ELSE base + tax + error,
        principal |-> 0, interest |-> 0, fee |-> 0, rounding |-> 0, exchange |-> 0 ] :
      base \in Computed(Nets(form)), tax \in Computed(Taxes(form)), error \in -1 .. 1 }

(* Auxiliary: no rounding to cents is in doubt. The base is whole cents,   *)
(* and the tax lies half way between two of them by no error of the three. *)
IsExact(form) ==
    /\ Total(Nets(form)) % Cent = 0
    /\ Total(Taxes(form)) % Cent \notin Cent \div 2 - 3 .. Cent \div 2 + 3

(* The checks before the document is created.  A product named twice is    *)
(* found once, so it is refused as missing.                                *)
FormValid(form, amounts) ==
    /\ CompanyOf[form.party] = form.company
    /\ \A p \in Products(form) : CompanyOf[p] = form.company
    /\ form.branch # None => CompanyOf[form.branch] = form.company
    /\ Cardinality(Products(form)) = Len(form.items)
    /\ Cardinality({ CategoryOf[p] : p \in Products(form) }) = 1
    /\ amounts.total > 0

PostingContext(form, amounts, module, transactionType, taxCode) ==
    [ module |-> module,
      transactionType |-> transactionType,
      transactionSubtype |->
          IF \A i \in DOMAIN form.items : form.items[i].taxRate > 0
          THEN "TAXED" ELSE "STANDARD",
      postingDate |-> Today,
      sourceStatus |-> "OPEN",
      given |-> {"subledger"},
      scope |->
        [ d \in Dimensions |->
            CASE d = "legalEntity" -> form.company
              [] d = "branch" -> form.branch
              [] d = "productCategory" -> CategoryOf[form.items[1].product]
              [] d = "taxCode" -> IF amounts.tax > 0 THEN taxCode ELSE None
              [] d = "currency" -> "NGN"
              [] OTHER -> None ] ]

SalesContext(form, amounts) ==
    PostingContext(form, amounts, "SALES", "INVOICE", "OUTPUT_TAX")

BillContext(form, amounts) ==
    PostingContext(form, amounts, "PROCUREMENT", "PURCHASE_BILL", "INPUT_TAX")

InvoiceLines(form, amounts) ==
    PostedLines(PostingMatrix, SalesContext(form, amounts), "SALES_INVOICE", amounts)

BillLines(form, amounts) ==
    PostedLines(PostingMatrix, BillContext(form, amounts), "PURCHASE_BILL", amounts)

Moved(form, sign, source) ==
    [ i \in DOMAIN form.items |->
        [ product |-> form.items[i].product,
          quantity |-> sign * form.items[i].quantity, source |-> source ] ]

MovementsOf(form, sign, source) ==
    IF form.branch = None THEN <<>> ELSE Moved(form, sign, source)

RowsOf(rows, product) == { k \in DOMAIN rows : rows[k].product = product }

Stock(rows, product) ==
    Total([k \in RowsOf(rows, product) |-> rows[k].quantity])

-----------------------------------------------------------------------------
(* The requests.                                                           *)

InFlight == { r \in Requests : req[r] # Idle }

MayBegin(r) == req[r] = Idle /\ (alone => InFlight = {})

Begin(r, work) ==
    /\ MayBegin(r)
    /\ req' = [req EXCEPT ![r] = work]

Finish(r) == req' = [req EXCEPT ![r] = Idle]

IsNew(rows, id) ==
    /\ rows[id] = Absent
    /\ \A r \in Requests : req[r] # Idle => req[r].id # id

(* ensureIdempotency, and the unique index behind it. *)
KeyIsFree(key) == \A audit \in audits : audit.key # key

(* ensureOpenPeriod: a period is always of one company. *)
PeriodIsOpen(company) == period[company] = "OPEN"

(* The entry and its lines. *)
EntryFor(source, company, exact, lines) ==
    [ source |-> source, company |-> company, lines |-> lines, exact |-> exact ]

(* A document about to be written, with its total and its journal lines.   *)
DocumentWork(op, id, form, total, lines) ==
    [op |-> op, id |-> id, form |-> form, total |-> Stored(total), lines |-> lines]

(* Slip: the engine is not given the transaction of its caller, which then *)
(* fails after the posting.                                                *)
CreateInvoiceReadOutside(r, i, form) ==
    /\ MayBegin(r)
    /\ IsNew(invoices, i)
    /\ PeriodIsOpen(form.company)
    /\ KeyIsFree(<<"sales-invoice-posted", i>>)
    /\ \E amounts \in AmountsOf(form) :
          /\ FormValid(form, amounts)
          /\ Begin(r, DocumentWork("createInvoice", i, form, amounts.total,
                                    InvoiceLines(form, amounts)))
          /\ entries' = entries \union {EntryFor(<<"invoice", i>>, form.company,
                                         IsExact(form), InvoiceLines(form, amounts))}
    /\ UNCHANGED <<alone, period, invoices, bills, movements, audits>>

(* createInvoice up to the writes, with the checks post makes inside it.   *)
CreateInvoiceRead(r, i, form) ==
    /\ MayBegin(r)
    /\ IsNew(invoices, i)
    /\ PeriodIsOpen(form.company)
    /\ KeyIsFree(<<"sales-invoice-posted", i>>)
    /\ \E amounts \in AmountsOf(form) :
          /\ FormValid(form, amounts)
          /\ Postable(PostingMatrix, SalesContext(form, amounts), "SALES_INVOICE", amounts)
          /\ Begin(r, DocumentWork("createInvoice", i, form, amounts.total,
                                    InvoiceLines(form, amounts)))
    /\ UNCHANGED <<alone, period, invoices, bills, movements, entries, audits>>

CreateInvoiceWrite(r) ==
    LET i == req[r].id
        form == req[r].form
    IN  /\ req[r].op = "createInvoice"
        /\ KeyIsFree(<<"sales-invoice-posted", i>>)
        /\ invoices' = [invoices EXCEPT ![i] =
               [ status |-> "OPEN", company |-> form.company,
                 customer |-> form.party, total |-> req[r].total ]]
        /\ movements' = movements \o MovementsOf(form, -1, <<"invoice", i>>)
        /\ entries' = entries \union
               {EntryFor(<<"invoice", i>>, form.company, IsExact(form), req[r].lines)}
        /\ audits' = audits \union
               {[key |-> <<"sales-invoice-posted", i>>, entry |-> <<"invoice", i>>]}
        /\ Finish(r)
        /\ UNCHANGED <<alone, period, bills>>

CreateBillRead(r, b, form) ==
    /\ MayBegin(r)
    /\ IsNew(bills, b)
    /\ PeriodIsOpen(form.company)
    /\ KeyIsFree(<<"purchase-bill-posted", b>>)
    /\ \E amounts \in AmountsOf(form) :
          /\ FormValid(form, amounts)
          /\ Postable(PostingMatrix, BillContext(form, amounts), "PURCHASE_BILL", amounts)
          /\ Begin(r, DocumentWork("createBill", b, form, amounts.total,
                                    BillLines(form, amounts)))
    /\ UNCHANGED <<alone, period, invoices, bills, movements, entries, audits>>

CreateBillWrite(r) ==
    LET b == req[r].id
        form == req[r].form
    IN  /\ req[r].op = "createBill"
        /\ KeyIsFree(<<"purchase-bill-posted", b>>)
        /\ bills' = [bills EXCEPT ![b] =
               [ status |-> "OPEN", company |-> form.company,
                 supplier |-> form.party, total |-> req[r].total ]]
        /\ movements' = movements \o MovementsOf(form, 1, <<"bill", b>>)
        /\ entries' = entries \union
               {EntryFor(<<"bill", b>>, form.company, IsExact(form), req[r].lines)}
        /\ audits' = audits \union
               {[key |-> <<"purchase-bill-posted", b>>, entry |-> <<"bill", b>>]}
        /\ Finish(r)
        /\ UNCHANGED <<alone, period, invoices>>

(* The moves made by moveStock, and the bound on them.                     *)
ByMoveStock == <<"moveStock", None>>

MayMove ==
    Cardinality({ k \in DOMAIN movements : movements[k].source = ByMoveStock })
        < MaxMovements

(* Slip: an issue is compared with what was received, not with what is left.*)
MoveStockReadReceived(r, move) ==
    /\ move.quantity > 0
    /\ MayMove
    /\ move.direction = "OUT" =>
          Stock(SelectSeq(movements, LAMBDA row : row.quantity > 0), move.product)
             >= move.quantity
    /\ Begin(r, [op |-> "moveStock", id |-> None, move |-> move])
    /\ UNCHANGED <<alone, period, invoices, bills, movements, entries, audits>>

(* moveStock: an issue needs enough in stock, which is the sum of the rows.*)
MoveStockRead(r, move) ==
    /\ move.quantity > 0
    /\ MayMove
    /\ move.direction = "OUT" => Stock(movements, move.product) >= move.quantity
    /\ Begin(r, [op |-> "moveStock", id |-> None, move |-> move])
    /\ UNCHANGED <<alone, period, invoices, bills, movements, entries, audits>>

MoveStockWrite(r) ==
    LET move == req[r].move IN
    /\ req[r].op = "moveStock"
    /\ movements' = Append(movements,
           [ product |-> move.product, source |-> ByMoveStock,
             quantity |-> IF move.direction = "OUT" THEN -move.quantity ELSE move.quantity ])
    /\ Finish(r)
    /\ UNCHANGED <<alone, period, invoices, bills, entries, audits>>

Abort(r) ==
    /\ req[r] # Idle
    /\ Finish(r)
    /\ UNCHANGED <<alone, period, invoices, bills, movements, entries, audits>>

(* An accountant opens or closes the period of a company: a request of the *)
(* administration, which has its own module.                               *)
ChangePeriod(c) ==
    /\ alone => InFlight = {}
    /\ period' = [period EXCEPT ![c] = IF period[c] = "OPEN" THEN "CLOSED" ELSE "OPEN"]
    /\ UNCHANGED <<alone, invoices, bills, movements, entries, audits, req>>

TradeInit ==
    /\ alone \in BOOLEAN
    /\ period = [c \in Companies |-> "OPEN"]
    /\ invoices = [i \in Invoices |-> Absent]
    /\ bills = [b \in Bills |-> Absent]
    /\ movements = <<>>
    /\ entries = {}
    /\ audits = {}
    /\ req = [r \in Requests |-> Idle]

TradeNext ==
    \/ \E r \in Requests :
        \/ \E i \in Invoices, form \in InvoiceForms : CreateInvoiceRead(r, i, form)
        \/ CreateInvoiceWrite(r)
        \/ \E b \in Bills, form \in BillForms : CreateBillRead(r, b, form)
        \/ CreateBillWrite(r)
        \/ \E move \in StockMoves : MoveStockRead(r, move)
        \/ MoveStockWrite(r)
        \/ Abort(r)
    \/ \E c \in Companies : ChangePeriod(c)

=============================================================================
