-------------------------- MODULE CustomerReceipts --------------------------
(***************************************************************************)
(* Customer receipts and what they settle, over the invoices and the       *)
(* ledger of TradeLedger: sales/sales.service.ts (createReceipt,           *)
(* postReceipt and their helpers).                                         *)
(*                                                                         *)
(* postReceipt works out the new status of each invoice inside its own     *)
(* transaction, from the receipts that are committed by then and its own   *)
(* (PostReceiptRefresh), and the status appears when it commits            *)
(* (PostReceiptWrite).                                                     *)
(***************************************************************************)
EXTENDS TradeLedger

CONSTANTS
    BankAccounts,    \* BankAccount rows
    Receipts,        \* bound: the receipts there may be
    ReceiptForms     \* what the clients send

ASSUME RowsAreBounded == IsFiniteSet(Invoices) /\ IsFiniteSet(Receipts)

(* The amount of a line is whole cents: roundMoney sees to it. *)
ASSUME FormsAssumption ==
    /\ None \notin Invoices
    /\ \A form \in ReceiptForms :
          /\ form.company \in Companies
          /\ form.lines \in Seq(Range(form.lines))
          /\ \A line \in Range(form.lines) :
                line.amount \in Int /\ line.amount % Cent = 0

VARIABLES
    receipts,        \* CustomerReceiptHeader rows with their lines
    sequence         \* of each company: next number in NumberingSequence, 0 without a row

vars == <<tradeVars, receipts, sequence>>
receiptVars == <<receipts, sequence>>

Receivable == "receivable"

(* How the accounts and the posting matrix are set up: the control account *)
(* of receivables is reserved for sales, and invoices debit it and no      *)
(* other account of theirs is it.                                          *)
ASSUME ReceivableIsControlled ==
    /\ Chart[Receivable].controlSource \notin {None, "PROCUREMENT"}
    /\ \A rule \in PostingMatrix :
          /\ rule.module = "SALES"
          /\ rule.transactionType = "INVOICE"
          => /\ rule.debitAccount = Receivable
             /\ Receivable \notin {rule.creditAccount, rule.taxAccount}

Posted == { id \in Receipts : receipts[id].status = "POSTED" }

AmountOf(lines) == Total([k \in DOMAIN lines |-> lines[k].amount])

LinesOn(lines, i) == { k \in DOMAIN lines : lines[k].invoice = i }

AppliedTo(lines, i) == Total([k \in LinesOn(lines, i) |-> lines[k].amount])

(* What the receipts in ids apply to invoice i. *)
Applied(ids, i) == Total([id \in ids |-> AppliedTo(receipts[id].lines, i)])

(* invoiceOutstandingAmount, without the receipts in "excluded". *)
Outstanding(i, excluded) == invoices[i].total - Applied(Posted \ excluded, i)

(* A line may exceed what is outstanding by a cent at most. Each line is   *)
(* compared by itself.                                                     *)
LineFits(line, excluded) ==
    line.invoice # None => line.amount - Outstanding(line.invoice, excluded) <= Cent

-----------------------------------------------------------------------------
(* createReceipt                                                           *)

(* The accounts of the form. The one to be credited may be any that is     *)
(* open for posting and not reserved for another module; what is reserved  *)
(* does not matter for the one to be debited.                              *)
AccountsValid(form) ==
    /\ AccountAllowed(form.receivable, "SALES")
    /\ (form.bank = None) # (form.cash = None)
    /\ form.bank # None =>
          /\ BankAccounts[form.bank].isActive
          /\ BankAccounts[form.bank].glAccount # None
          /\ BankAccounts[form.bank].company \in {None, form.company}
    /\ form.cash # None => Chart[form.cash].isActive /\ Chart[form.cash].allowsPosting

(* prepareReceipt *)
Prepared(form) ==
    /\ AccountsValid(form)
    /\ CompanyOf[form.branch] = form.company
    /\ CompanyOf[form.customer] = form.company
    /\ \A k \in DOMAIN form.lines :
        LET line == form.lines[k] IN
        /\ line.amount > 0
        /\ line.invoice # None =>
              /\ invoices[line.invoice] # Absent
              /\ invoices[line.invoice].company = form.company
              /\ invoices[line.invoice].customer = form.customer
        /\ LineFits(line, {})

(* nextReceiptNumber: the first of a company is 1, and makes its row. *)
NextNumber(c) == IF sequence[c] = 0 THEN 1 ELSE sequence[c]

(* Slip: the number is taken outside the transaction, and lost if it fails.*)
CreateReceiptReadTakesNumber(r, id, form) ==
    /\ IsNew(receipts, id)
    /\ Prepared(form)
    /\ Begin(r, [op |-> "createReceipt", id |-> id, form |-> form,
                 number |-> NextNumber(form.company)])
    /\ sequence' = [sequence EXCEPT ![form.company] = NextNumber(form.company) + 1]
    /\ UNCHANGED <<alone, period, invoices, bills, movements, entries, audits, receipts>>

CreateReceiptRead(r, id, form) ==
    /\ IsNew(receipts, id)
    /\ Prepared(form)
    /\ Begin(r, [op |-> "createReceipt", id |-> id, form |-> form,
                 number |-> NextNumber(form.company)])
    /\ UNCHANGED <<alone, period, invoices, bills, movements, entries, audits, receiptVars>>

(* receiptNumber is unique over all companies. *)
NumberIsFree(number) ==
    \A id \in Receipts : receipts[id] # Absent => receipts[id].number # number

CreateReceiptWrite(r) ==
    LET form == req[r].form IN
    /\ req[r].op = "createReceipt"
    /\ NumberIsFree(req[r].number)
    /\ sequence' = [sequence EXCEPT ![form.company] = req[r].number + 1]
    /\ receipts' = [receipts EXCEPT ![req[r].id] =
           [ status |-> "DRAFT", company |-> form.company, number |-> req[r].number,
             bank |-> form.bank, cash |-> form.cash, receivable |-> form.receivable,
             amount |-> AmountOf(form.lines), lines |-> form.lines ]]
    /\ Finish(r)
    /\ UNCHANGED <<alone, period, invoices, bills, movements, entries, audits>>

-----------------------------------------------------------------------------
(* postReceipt                                                             *)

(* The account a receipt is paid into. *)
Settlement(receipt) ==
    IF receipt.bank # None THEN BankAccounts[receipt.bank].glAccount ELSE receipt.cash

(* The checks of postReceipt, ensureOpenPostingPeriod and                  *)
(* validateReceiptForPosting.                                              *)
PostReceiptRead(r, id) ==
    /\ receipts[id] # Absent
    /\ receipts[id].status = "DRAFT"
    /\ PeriodIsOpen(receipts[id].company)
    /\ receipts[id].lines # <<>>
    /\ Settlement(receipts[id]) # None
    /\ \A k \in DOMAIN receipts[id].lines : LineFits(receipts[id].lines[k], {id})
    /\ Begin(r, [op |-> "postReceipt", id |-> id, statuses |-> <<>>])
    /\ UNCHANGED <<alone, period, invoices, bills, movements, entries, audits, receiptVars>>

InvoiceStatus(total, outstanding) ==
    IF outstanding <= Cent THEN "PAID"
    ELSE IF outstanding < total THEN "PARTIALLY_PAID"
    ELSE "OPEN"

InvoicesOf(id) ==
    { i \in Invoices : LinesOn(receipts[id].lines, i) # {} }

(* Slip: the receipt being posted is left out of the balance. *)
StatusesBefore(id) ==
    [ i \in InvoicesOf(id) |-> InvoiceStatus(invoices[i].total, Outstanding(i, {id})) ]

(* refreshInvoiceReceiptStatus of each invoice, before the commit: this    *)
(* receipt counts, those of other transactions only once they committed.   *)
StatusesAfter(id) ==
    [ i \in InvoicesOf(id) |->
        InvoiceStatus(invoices[i].total,
                      Outstanding(i, {id}) - AppliedTo(receipts[id].lines, i)) ]

PostReceiptRefresh(r) ==
    LET id == req[r].id IN
    /\ req[r].op = "postReceipt"
    /\ req' = [req EXCEPT ![r] =
           [op |-> "commitReceipt", id |-> id, statuses |-> StatusesAfter(id)]]
    /\ UNCHANGED <<alone, period, invoices, bills, movements, entries, audits, receiptVars>>

(* The entry's reference is the receipt's number, and unique. *)
ReferenceIsFree(id) == \A e \in entries : e.source # <<"receipt", id>>

ReceiptLines(receipt, amount) ==
    Dr(Settlement(receipt), amount, "settlement")
    \o Cr(receipt.receivable, amount, "clearance")

(* The rows as the commit leaves them. *)
Marked(id) == [receipts EXCEPT ![id] = [receipts[id] EXCEPT !.status = "POSTED"]]

Refreshed(statuses) ==
    [ i \in Invoices |->
        IF i \in DOMAIN statuses
        THEN [invoices[i] EXCEPT !.status = statuses[i]] ELSE invoices[i] ]

(* Slip: only the first line is booked. *)
PostReceiptWriteFirstLine(r) ==
    LET id == req[r].id IN
    /\ req[r].op = "commitReceipt"
    /\ ReferenceIsFree(id)
    /\ entries' = entries \union {EntryFor(<<"receipt", id>>,
           receipts[id].company, TRUE,
           ReceiptLines(receipts[id], receipts[id].lines[1].amount))}
    /\ receipts' = Marked(id)
    /\ invoices' = Refreshed(req[r].statuses)
    /\ Finish(r)
    /\ UNCHANGED <<alone, period, bills, movements, audits, sequence>>

PostReceiptWrite(r) ==
    LET id == req[r].id IN
    /\ req[r].op = "commitReceipt"
    /\ ReferenceIsFree(id)
    /\ entries' = entries \union {EntryFor(<<"receipt", id>>,
           receipts[id].company, TRUE,
           ReceiptLines(receipts[id], receipts[id].amount))}
    /\ receipts' = Marked(id)
    /\ invoices' = Refreshed(req[r].statuses)
    /\ Finish(r)
    /\ UNCHANGED <<alone, period, bills, movements, audits, sequence>>

-----------------------------------------------------------------------------
Init ==
    /\ TradeInit
    /\ receipts = [id \in Receipts |-> Absent]
    /\ sequence = [c \in Companies |-> 0]

ReceiptNext ==
    \E r \in Requests :
        \/ \E id \in Receipts, form \in ReceiptForms : CreateReceiptRead(r, id, form)
        \/ CreateReceiptWrite(r)
        \/ \E id \in Receipts : PostReceiptRead(r, id)
        \/ PostReceiptRefresh(r)
        \/ PostReceiptWrite(r)

Next == \/ TradeNext /\ UNCHANGED receiptVars
        \/ ReceiptNext

Spec == Init /\ [][Next]_vars

-----------------------------------------------------------------------------
(* Properties. "However requests overlap" holds of every behaviour; "one   *)
(* request at a time" of those that are alone.                             *)

(* However requests overlap or die, every invoice, bill and posted receipt *)
(* has exactly one journal entry, every entry is of one of these, and the  *)
(* engine's audit rows name the entries of the invoices and bills.         *)
Booked ==
    { <<"invoice", i>> : i \in {x \in Invoices : invoices[x] # Absent} }
    \union { <<"bill", b>> : b \in {x \in Bills : bills[x] # Absent} }

DocumentsBookedOnce ==
    /\ \A e, f \in entries : e.source = f.source => e = f
    /\ { e.source : e \in entries } =
          Booked \union { <<"receipt", id>> : id \in Posted }
    /\ { audit.entry : audit \in audits } = Booked
    /\ \A a, b \in audits : a.key = b.key => a = b

(* However requests overlap, what the control account of receivables says  *)
(* is owed is what the invoices come to, less the posted receipts that     *)
(* credit it, and with those that were paid into it: it agrees with the    *)
(* documents behind it as far as the receipts name it, and receipts that   *)
(* credit another account, which the code admits, are all it is off by.    *)
Owed(lines) ==
    Total([ k \in { n \in DOMAIN lines : lines[n].account = Receivable } |->
              lines[k].debit - lines[k].credit ])

Invoiced == { i \in Invoices : invoices[i] # Absent }

Clears(receipt) ==
    (IF receipt.receivable = Receivable THEN receipt.amount ELSE 0)
    - (IF Settlement(receipt) = Receivable THEN receipt.amount ELSE 0)

ReceivablesReconcile ==
    Total([e \in entries |-> Owed(e.lines)])
    = Total([i \in Invoiced |-> invoices[i].total])
      - Total([id \in Posted |-> Clears(receipts[id])])

(* An entry is out of balance by a cent at most, and only when the base of *)
(* its document is not whole cents or its tax lies half way between two,   *)
(* as near as doubles tell: ensureBalanced compares the amounts before the *)
(* database rounds each line by itself.                                    *)
EntriesBalance ==
    \A e \in entries :
        LET difference == TotalDebit(e.lines) - TotalCredit(e.lines) IN
        /\ difference \in {-Cent, 0, Cent}
        /\ e.exact => difference = 0

(* One request at a time: an invoice is never paid more than it comes to   *)
(* and one cent, unless one receipt names it on two of its lines; it is    *)
(* OPEN until a receipt names it, and then its status says how much of it  *)
(* is paid.                                                                *)
NamedTwice(i) ==
    \E id \in Posted : Cardinality(LinesOn(receipts[id].lines, i)) > 1

InvoicesSettledAsBooked ==
    alone => \A i \in Invoices : invoices[i] # Absent =>
        /\ Outstanding(i, {}) >= -Cent \/ NamedTwice(i)
        /\ invoices[i].status =
              IF \E id \in Posted : i \in InvoicesOf(id)
              THEN InvoiceStatus(invoices[i].total, Outstanding(i, {}))
              ELSE "OPEN"

(* One request at a time: when moveStock issues a product there is enough  *)
(* of it, whatever invoices have issued without asking.                    *)
IssuesCovered ==
    alone => \A k \in DOMAIN movements :
        /\ movements[k].source = ByMoveStock
        /\ movements[k].quantity < 0
        => Stock(SubSeq(movements, 1, k), movements[k].product) >= 0

(* However requests overlap or die, the receipts of a company are numbered *)
(* from 1 without a gap, and its sequence stands at the next number.       *)
NumbersGapFree ==
    \A c \in Companies :
        LET ids == { id \in Receipts : receipts[id] # Absent /\ receipts[id].company = c }
        IN  /\ { receipts[id].number : id \in ids } = 1 .. Cardinality(ids)
            /\ ids # {} => sequence[c] = Cardinality(ids) + 1

(* However requests overlap or die, what is written stands: no entry,      *)
(* audit row or stock movement is withdrawn or rewritten, no number is     *)
(* counted back, no bill changes, an invoice changes in its status only,   *)
(* and a receipt only when it is posted, and then from DRAFT.              *)
InvoiceStands(i) == invoices'[i] = [invoices[i] EXCEPT !.status = invoices'[i].status]

ReceiptStands(id) ==
    \/ receipts'[id] = receipts[id]
    \/ /\ receipts[id].status = "DRAFT"
       /\ receipts'[id] = [receipts[id] EXCEPT !.status = "POSTED"]

BooksStand ==
    /\ entries \subseteq entries'
    /\ audits \subseteq audits'
    /\ Len(movements) <= Len(movements')
    /\ SubSeq(movements', 1, Len(movements)) = movements
    /\ \A c \in Companies : sequence[c] <= sequence'[c]
    /\ \A b \in Bills : bills[b] # Absent => bills'[b] = bills[b]
    /\ \A i \in Invoices : invoices[i] # Absent => InvoiceStands(i)
    /\ \A id \in Receipts : receipts[id] # Absent => ReceiptStands(id)

BooksOnlyGrow == [][BooksStand]_vars

(* One request at a time, an invoice goes from OPEN to PARTIALLY_PAID and  *)
(* to PAID and never back.                                                 *)
SettlementOrder == [OPEN |-> 0, PARTIALLY_PAID |-> 1, PAID |-> 2]

SettlementAdvances ==
    [][ alone => \A i \in Invoices : invoices[i] # Absent =>
            SettlementOrder[invoices[i].status] <= SettlementOrder[invoices'[i].status] ]_vars

=============================================================================
