------------------------- MODULE MCCustomerReceipts -------------------------
(***************************************************************************)
(* CustomerReceipts with two companies.  Amounts of receipts are chosen    *)
(* around what the invoice comes to: 2.00.                                 *)
(***************************************************************************)
EXTENDS CustomerReceipts

CONSTANTS i1, b1, R1, R2, r1, r2

Free == [isActive |-> TRUE, allowsPosting |-> TRUE, controlSource |-> None]

MCChart ==
    [ a \in {"receivable", "revenue", "tax", "expense", "payables", "bank", "till"} |->
        IF a = "receivable" THEN [Free EXCEPT !.controlSource = "SALES"]
        ELSE IF a = "till" THEN [Free EXCEPT !.controlSource = "TREASURY"] ELSE Free ]

MCBankAccounts ==
    [ main |-> [isActive |-> TRUE, company |-> None, glAccount |-> "bank"],
      foreign |-> [isActive |-> TRUE, company |-> "c2", glAccount |-> "bank"],
      closed |-> [isActive |-> FALSE, company |-> None, glAccount |-> "bank"] ]

Rule(module, type, subtype, debit, credit) ==
    [ module |-> module, transactionType |-> type, transactionSubtype |-> subtype,
      status |-> "ACTIVE", effectiveStartDate |-> 0, effectiveEndDate |-> None,
      scope |-> [d \in Dimensions |-> None], requires |-> {"subledger"},
      debitAccount |-> debit, creditAccount |-> credit, taxAccount |-> "tax",
      roundingAccount |-> None, exchangeGainAccount |-> None, exchangeLossAccount |-> None ]

MCMatrix ==
    { Rule("SALES", "INVOICE", "STANDARD", "receivable", "revenue"),
      Rule("SALES", "INVOICE", "TAXED", "receivable", "revenue"),
      Rule("PROCUREMENT", "PURCHASE_BILL", "STANDARD", "expense", "payables"),
      Rule("PROCUREMENT", "PURCHASE_BILL", "TAXED", "expense", "payables") }

MCCompanyOf == [ x \in {"ada", "sup", "oak", "main", "c1"} |-> "c1" ]
               @@ [ x \in {"ben", "c2"} |-> "c2" ]
MCCategoryOf == [ p \in {"oak"} |-> "wood" ]

Form(party, quantity, unitPrice, taxRate) ==
    [ company |-> "c1", party |-> party, branch |-> "main",
      items |-> << [ product |-> "oak", quantity |-> quantity,
                     unitPrice |-> unitPrice, taxRate |-> taxRate ] >> ]

(* One at 2.00; one of four tenths at 0.41 with 7.5% tax, a base of 0.164  *)
(* and a tax of 0.0123; one at 0.41, taxed; and one at 8.20, whose tax of  *)
(* 0.615 is computed as a little less.                                     *)
PlainInvoice == Form("ada", 10, 200, 0)
FractionInvoice == Form("ada", 4, 41, 75)
TaxedInvoice == Form("ada", 10, 41, 75)
HalfCentInvoice == Form("ada", 10, 820, 75)

(* One of a cent, which is OPEN although no more than a cent is due.       *)
CentInvoice == Form("ada", 1, 10, 0)
MCInvoiceForms ==
    {PlainInvoice, FractionInvoice, TaxedInvoice, HalfCentInvoice, CentInvoice}
MCBillForms == {Form("sup", 5, 100, 75)}

MCStockMoves == { [product |-> "oak", direction |-> d, quantity |-> 10] : d \in {"IN", "OUT"} }

Line(i, cents) == [invoice |-> i, amount |-> cents * Cent]
ReceiptForm(company, customer, receivable, bank, cash, lines) ==
    [ company |-> company, customer |-> customer, branch |-> company,
      receivable |-> receivable, bank |-> bank, cash |-> cash, lines |-> lines ]

(* Two that credit the control account, one that credits another and one   *)
(* that is paid into it; and four whose accounts are refused.              *)
MCReceiptForms ==
    { ReceiptForm("c1", "ada", "receivable", "main", None, << Line(i1, 120) >>),
      ReceiptForm("c1", "ada", "revenue", None, "till", << Line(i1, 81) >>),
      ReceiptForm("c1", "ada", "receivable", None, "till",
                  << Line(i1, 110), Line(i1, 110) >>),
      ReceiptForm("c2", "ben", "revenue", None, "receivable", << Line(None, 5) >>),
      ReceiptForm("c1", "ada", "till", "main", None, << Line(i1, 120) >>),
      ReceiptForm("c1", "ada", "receivable", "foreign", None, << Line(i1, 120) >>),
      ReceiptForm("c1", "ada", "receivable", "closed", None, << Line(i1, 120) >>),
      ReceiptForm("c1", "ada", "receivable", "main", "till", << Line(i1, 120) >>) }

(* Bound: a behaviour is explored as long as it is about receipts or about *)
(* bills and stock, not both. They share no row but the invoice.           *)
OneDesk ==
    \/ /\ \A id \in Receipts : receipts[id] = Absent
       /\ \A r \in Requests : req[r].op # "createReceipt"
    \/ /\ \A b \in Bills : bills[b] = Absent
       /\ \A k \in DOMAIN movements : movements[k].source # ByMoveStock
       /\ \A r \in Requests : req[r].op \notin {"createBill", "moveStock"}

=============================================================================
