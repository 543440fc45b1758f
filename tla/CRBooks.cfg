SPECIFICATION Spec
CONSTANTS
    None = None
    i1 = i1
    b1 = b1
    R1 = R1
    R2 = R2
    r1 = r1
    r2 = r2
    Chart <- MCChart
    Companies = {"c1", "c2"}
    CompanyOf <- MCCompanyOf
    CategoryOf <- MCCategoryOf
    PostingMatrix <- MCMatrix
    Invoices = {i1}
    Bills = {b1}
    InvoiceForms <- MCInvoiceForms
    BillForms <- MCBillForms
    StockMoves <- MCStockMoves
    MaxMovements = 2
    Requests = {r1, r2}
    BankAccounts <- MCBankAccounts
    Receipts = {R1, R2}
    ReceiptForms <- MCReceiptForms
CONSTRAINT OneDesk
INVARIANTS
    DocumentsBookedOnce
    ReceivablesReconcile
    EntriesBalance
    InvoicesSettledAsBooked
    IssuesCovered
    NumbersGapFree
