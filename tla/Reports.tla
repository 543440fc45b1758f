------------------------------ MODULE Reports -------------------------------
(***************************************************************************)
(* The reports of reports/reports.service.ts: trial balance, statement of  *)
(* an account and its summary, the financial statements and the ratios.    *)
(*                                                                         *)
(* A report is several queries, each of what is committed when it runs,    *)
(* with no transaction around them; accounts and entries go on being added *)
(* in between.  One request keeps in "read" what each of its queries saw;  *)
(* the report is then a function of that.                                  *)
(*                                                                         *)
(* Time is cut in three instants a day: its first, one in the middle and   *)
(* its last.                                                               *)
(*                                                                         *)
(* Amounts are in cents, as they are stored.  The service adds them in     *)
(* doubles, so what it sends is not these sums but what is near them: a    *)
(* hundred-thousandth of a cent off at most for each of its operations, as *)
(* long as sums stay below 10^8 (bound).  SumOf says so of the totals of a *)
(* trial balance; the other definitions are of the sums as they should be. *)
(***************************************************************************)
EXTENDS Integers, Sequences, FiniteSets, Sums

CONSTANTS
    None,
    TypeOf,           \* Account.type of each account there may be
    StatementCategory,\* Account.financialStatementCategory, None where unset
    OldAccounts,      \* the accounts there are at first
    CompanyOfBranch,
    Bookings,         \* the journal entries that may be booked
    Now,              \* the instant reports are asked at
    DaysInYear,       \* bound: a year is that many days
    Queries,          \* the ReportQueryDto sent for each kind of report
    Desks,            \* the requests that may be in flight together
    Changes           \* bound: what may be added while a report is gathered

VARIABLES
    chart,   \* the accounts there are
    entries, \* JournalEntry rows with their lines
    req      \* of each desk: the report being made

vars == <<chart, entries, req>>

AllAccounts == DOMAIN TypeOf
Idle == [kind |-> None]

-----------------------------------------------------------------------------
(* Dates.                                                                  *)

StartOf(day) == 3 * day
EndOf(day) == 3 * day + 2
DayOf(instant) == instant \div 3

(* Slip: the range before ends where this one begins. *)
SameInstant(instant) == instant

DayBefore(instant) == EndOf(DayOf(instant) - 1)

NewYear(instant) == StartOf(DayOf(instant) - (DayOf(instant) % DaysInYear))

(* resolvePrimaryRange and resolveComparativeRange. *)
PrimaryRange(q) ==
    LET to == IF q.to = None THEN Now ELSE EndOf(q.to)
    IN  [ from |-> IF q.from = None THEN NewYear(to) ELSE StartOf(q.from), to |-> to ]

ComparativeRange(q) ==
    LET range == PrimaryRange(q)
        to == DayBefore(range.from)
    IN  IF q.compareFrom # None /\ q.compareTo # None
        THEN [from |-> StartOf(q.compareFrom), to |-> EndOf(q.compareTo)]
        ELSE [from |-> StartOf(DayOf(to - (range.to - range.from))), to |-> to]

-----------------------------------------------------------------------------
(* Journal lines, as <<entry, index>>.                                     *)

LineOf(ref) == ref[1].lines[ref[2]]

InScope(line, q) ==
    /\ q.branch # None => line.branch = q.branch
    /\ q.company # None => line.branch # None /\ CompanyOfBranch[line.branch] = q.company

(* The lines in scope of the entries of a book. *)
LinesOf(book, q) ==
    { ref \in UNION { {e} \X DOMAIN e.lines : e \in book } : InScope(LineOf(ref), q) }

LinesUpTo(book, q, to) == LinesOf({ e \in book : e.date <= to }, q)

LinesBetween(book, q, from, to) ==
    LinesOf({ e \in book : from <= e.date /\ e.date <= to }, q)

Debit(lines, a) ==
    Total([ref \in { x \in lines : LineOf(x).account = a } |-> LineOf(ref).debit])

Credit(lines, a) ==
    Total([ref \in { x \in lines : LineOf(x).account = a } |-> LineOf(ref).credit])

Net(lines, a) == Debit(lines, a) - Credit(lines, a)

Positive(n) == IF n > 0 THEN n ELSE 0

-----------------------------------------------------------------------------
(* What the queries of each kind of report are and in which order they are *)
(* made: those of one set run together.                                    *)

SnapshotReads ==
    { "accounts", "opening", "period", "closing",
      "comparativeOpening", "comparativePeriod", "comparativeClosing" }

(* Slip: the accounts are listed before the lines are read. *)
QueriesAccountsFirst(kind, q) ==
    CASE kind = "trial-balance" -> << {"accounts"}, {"period"}, {"opening"} >>
      [] kind = "account-statement-summary" -> << {"period"} >>
      [] kind = "account-statement" -> << {"period"}, {"opening"} >>
      [] kind = "financial-statements" -> << SnapshotReads >>

QueriesOf(kind, q) ==
    CASE kind = "trial-balance" /\ q.from = None -> << {"period"}, {"accounts"} >>
      [] kind = "trial-balance" /\ q.from # None -> << {"period"}, {"opening"}, {"accounts"} >>
      [] kind = "account-statement-summary" -> << {"period"} >>
      [] kind = "account-statement" /\ q.from = None -> << {"period"} >>
      [] kind = "account-statement" /\ q.from # None -> << {"period"}, {"opening"} >>
      [] kind = "financial-statements" -> << SnapshotReads >>

(* The reports that take dates as they are asked: a missing one is no      *)
(* bound.                                                                  *)
PeriodLines(book, q) ==
    LinesOf({ e \in book : /\ q.from # None => StartOf(q.from) <= e.date
                           /\ q.to # None => e.date <= EndOf(q.to) }, q)

OpeningLines(book, q) ==
    IF q.from = None THEN {} ELSE LinesOf({ e \in book : e.date < StartOf(q.from) }, q)

-----------------------------------------------------------------------------
(* Trial balance and statements of account.                                *)

TrialBalanceRow(opening, period, a) ==
    LET before == Net(opening, a)
        after == before + Net(period, a)
    IN  [ openingDebit |-> Positive(before), openingCredit |-> Positive(-before),
          periodDebit |-> Debit(period, a), periodCredit |-> Credit(period, a),
          closingDebit |-> Positive(after), closingCredit |-> Positive(-after) ]

LinesBefore(r) ==
    IF r.query.from = None THEN {} ELSE OpeningLines(r.read.opening, r.query)

LinesDuring(r) == PeriodLines(r.read.period, r.query)

(* getTrialBalanceRows: one row for every account of the chart. *)
TrialBalanceRows(r) ==
    LET opening == LinesBefore(r)
        period == LinesDuring(r)
    IN  [ a \in r.read.accounts |-> TrialBalanceRow(opening, period, a) ]

ColumnTotal(rows, column) == Total([a \in DOMAIN rows |-> rows[a][column]])

Cent == 100000

(* The operations behind the totals: two numbers of a line are converted   *)
(* and added, and a row makes two sums of its own and one in the total.    *)
Operations(r) ==
    4 * (Cardinality(LinesBefore(r)) + Cardinality(LinesDuring(r)))
        + 3 * Cardinality(r.read.accounts)

(* The least and the most that the total of a column may be sent as.       *)
SumOf(rows, column, operations) ==
    [ least |-> Cent * ColumnTotal(rows, column) - operations,
      most |-> Cent * ColumnTotal(rows, column) + operations ]

(* pdfMoney: an amount with two decimals. *)
InCents(amount) == (amount + Cent \div 2) \div Cent

(* getAccountStatementRows: the running balance of the last row. *)
ClosingBalance(r, a) ==
    (IF r.query.from = None THEN 0 ELSE Net(OpeningLines(r.read.opening, r.query), a))
        + Net(PeriodLines(r.read.period, r.query), a)

(* getAccountStatementSummaryRows: only accounts with lines have a row. *)
SummaryRows(r) ==
    LET period == PeriodLines(r.read.period, r.query)
    IN  [ a \in { LineOf(ref).account : ref \in period } |->
            [ debit |-> Debit(period, a), credit |-> Credit(period, a),
              balance |-> Net(period, a) ] ]

-----------------------------------------------------------------------------
(* The account snapshots the financial statements are built from.          *)

NormalBalance(lines, a) ==
    IF TypeOf[a] \in {"ASSET", "EXPENSE"} THEN Net(lines, a) ELSE -Net(lines, a)

SnapshotLines(r, mode) ==
    LET primary == PrimaryRange(r.query)
        comparative == ComparativeRange(r.query)
    IN  CASE mode = "opening" ->
                LinesUpTo(r.read.opening, r.query, DayBefore(primary.from))
          [] mode = "period" ->
                LinesBetween(r.read.period, r.query, primary.from, primary.to)
          [] mode = "closing" ->
                LinesUpTo(r.read.closing, r.query, primary.to)
          [] mode = "comparativeOpening" ->
                LinesUpTo(r.read.comparativeOpening, r.query, DayBefore(comparative.from))
          [] mode = "comparativePeriod" ->
                LinesBetween(r.read.comparativePeriod, r.query, comparative.from, comparative.to)
          [] mode = "comparativeClosing" ->
                LinesUpTo(r.read.comparativeClosing, r.query, comparative.to)

Modes == SnapshotReads \ {"accounts"}

(* buildAccountSnapshots: the amounts of each account in each mode. *)
Snapshots(r) ==
    [ mode \in Modes |->
        LET lines == SnapshotLines(r, mode)
        IN  [ a \in r.read.accounts |-> NormalBalance(lines, a) ] ]

SumByCategories(s, categories, mode) ==
    Total([a \in { x \in DOMAIN s[mode] : StatementCategory[x] \in categories } |-> s[mode][a]])

CurrentAssets == {"ASSET_CURRENT", "INVENTORY", "RECEIVABLE", "CASH_AND_EQUIVALENT"}
Equity == {"EQUITY_SHARE_CAPITAL", "EQUITY_RETAINED_EARNINGS", "EQUITY_RESERVE"}
Liabilities == {"LIABILITY_CURRENT", "LIABILITY_NONCURRENT"}
OperatingExpenses == {"OPERATING_EXPENSE", "DEPRECIATION_AND_AMORTIZATION"}

(* buildProfitOrLossPayload, for mode "period" or "comparativePeriod". *)
ProfitOrLoss(s, mode) ==
    LET sum(categories) == SumByCategories(s, categories, mode)
        gross == sum({"REVENUE"}) - sum({"COST_OF_SALES"})
        operating == gross + sum({"OTHER_INCOME"}) - sum(OperatingExpenses)
        beforeTax == operating + sum({"FINANCE_INCOME"}) - sum({"FINANCE_COST"})
        afterTax == beforeTax - sum({"INCOME_TAX"})
    IN  [ grossProfit |-> gross, operatingProfit |-> operating,
          profitBeforeTax |-> beforeTax, profitAfterTax |-> afterTax,
          totalComprehensiveIncome |-> afterTax + sum({"OTHER_COMPREHENSIVE_INCOME"}) ]

(* Slip: the non-current liabilities are forgotten. *)
FinancialPositionCurrentOnly(s, mode) ==
    LET sum(categories) == SumByCategories(s, categories, mode)
        assets == sum({"ASSET_NONCURRENT"}) + sum(CurrentAssets)
    IN  [ totalAssets |-> assets, totalEquity |-> sum(Equity),
          totalLiabilities |-> sum({"LIABILITY_CURRENT"}),
          difference |-> assets - sum(Equity) - sum({"LIABILITY_CURRENT"}) ]

(* buildFinancialPositionPayload, for mode "closing" or                    *)
(* "comparativeClosing".                                                   *)
FinancialPosition(s, mode) ==
    LET sum(categories) == SumByCategories(s, categories, mode)
        assets == sum({"ASSET_NONCURRENT"}) + sum(CurrentAssets)
    IN  [ totalAssets |-> assets, totalEquity |-> sum(Equity),
          totalLiabilities |-> sum(Liabilities),
          difference |-> assets - sum(Equity) - sum(Liabilities) ]

(* Slip: a growing stock brings cash in. *)
CashFlowStockAdded(s, opening, period, closing) ==
    LET sum(categories) == SumByCategories(s, categories, period)
        movement(categories) ==
            SumByCategories(s, categories, closing) - SumByCategories(s, categories, opening)
    IN  [ operating |-> ProfitOrLoss(s, period).profitBeforeTax
                          + sum({"DEPRECIATION_AND_AMORTIZATION"})
                          - movement({"RECEIVABLE"}) + movement({"INVENTORY"})
                          + movement({"LIABILITY_CURRENT"}),
          investing |-> -movement({"ASSET_NONCURRENT"}),
          financing |-> movement({"LIABILITY_NONCURRENT"})
                          + sum({"EQUITY_SHARE_CAPITAL"}) - sum({"DIVIDEND"}),
          actual |-> movement({"CASH_AND_EQUIVALENT"}) ]

(* buildCashFlowPayload, of the current or of the comparative range. *)
CashFlow(s, opening, period, closing) ==
    LET sum(categories) == SumByCategories(s, categories, period)
        movement(categories) ==
            SumByCategories(s, categories, closing) - SumByCategories(s, categories, opening)
        beforeTax == ProfitOrLoss(s, period).profitBeforeTax
    IN  [ operating |-> beforeTax + sum({"DEPRECIATION_AND_AMORTIZATION"})
                          - movement({"RECEIVABLE"}) - movement({"INVENTORY"})
                          + movement({"LIABILITY_CURRENT"}),
          investing |-> -movement({"ASSET_NONCURRENT"}),
          financing |-> movement({"LIABILITY_NONCURRENT"})
                          + sum({"EQUITY_SHARE_CAPITAL"}) - sum({"DIVIDEND"}),
          actual |-> movement({"CASH_AND_EQUIVALENT"}) ]

NetIncrease(flow) == flow.operating + flow.investing + flow.financing

(* buildChangesInEquityPayload. *)
ChangesInEquity(s) ==
    [ profit |-> ProfitOrLoss(s, "period").profitAfterTax,
      opening |-> [ c \in Equity |-> SumByCategories(s, {c}, "opening") ],
      closing |-> [ c \in Equity |-> SumByCategories(s, {c}, "closing") ] ]

(* buildNotesPayload: the accounts left out of every statement. *)
Unmapped(s) ==
    { a \in DOMAIN s["closing"] :
        StatementCategory[a] = None /\ (s["closing"][a] # 0 \/ s["period"][a] # 0) }

(* buildRatioAnalysis: numerator and denominator. An average is left as    *)
(* the sum of its two terms, its numerator doubled.                        *)
Ratios(s) ==
    LET sum(categories, mode) == SumByCategories(s, categories, mode)
        revenue == sum({"REVENUE"}, "period")
        gross == revenue - sum({"COST_OF_SALES"}, "period")
        operating == gross + sum({"OTHER_INCOME"}, "period") - sum(OperatingExpenses, "period")
        financeCost == sum({"FINANCE_COST"}, "period")
        profit == operating - financeCost - sum({"INCOME_TAX"}, "period")
        assets(mode) == sum(CurrentAssets \union {"ASSET_NONCURRENT"}, mode)
        both(categories) == sum(categories, "comparativeClosing") + sum(categories, "closing")
        averageAssets == assets("comparativeClosing") + assets("closing")
    IN  [ currentRatio |-> <<sum(CurrentAssets, "closing"), sum({"LIABILITY_CURRENT"}, "closing")>>,
          quickRatio |-> <<sum(CurrentAssets, "closing") - sum({"INVENTORY"}, "closing"),
                           sum({"LIABILITY_CURRENT"}, "closing")>>,
          grossMargin |-> <<gross, revenue>>,
          netMargin |-> <<profit, revenue>>,
          returnOnAssets |-> <<2 * profit, averageAssets>>,
          returnOnEquity |-> <<2 * profit, both(Equity)>>,
          debtToEquity |-> <<sum(Liabilities, "closing"), sum(Equity, "closing")>>,
          interestCoverage |-> <<operating, financeCost>>,
          assetTurnover |-> <<2 * revenue, averageAssets>>,
          receivableTurnover |-> <<2 * revenue, both({"RECEIVABLE"})>> ]

-----------------------------------------------------------------------------
(* The requests.                                                           *)

(* Bound: how often the books change while a report is being gathered. *)
Counted ==
    [ d \in Desks |->
        IF req[d] = Idle THEN Idle ELSE [req[d] EXCEPT !.changed = @ + 1] ]

MayChange == \A d \in Desks : req[d] # Idle => req[d].changed < Changes[req[d].kind]

(* An account is added: createAccount of accounting.service.ts. *)
CreateAccount(a) ==
    /\ a \notin chart /\ MayChange
    /\ chart' = chart \union {a}
    /\ req' = Counted
    /\ UNCHANGED entries

(* An entry is booked, with all its lines, by any of the modules that do.  *)
Book(e) ==
    /\ e \notin entries /\ MayChange
    /\ \A i \in DOMAIN e.lines : e.lines[i].account \in chart
    /\ entries' = entries \union {e}
    /\ req' = Counted
    /\ UNCHANGED chart

Ask(d, kind, q) ==
    /\ req[d] = Idle
    /\ req' = [req EXCEPT ![d] =
           [ kind |-> kind, query |-> q, due |-> QueriesOf(kind, q),
             read |-> <<>>, changed |-> 0 ]]
    /\ UNCHANGED <<chart, entries>>

(* One query of the report runs; the next ones wait for its set. *)
Query(d) ==
    /\ req[d] # Idle /\ req[d].due # <<>>
    /\ \E what \in Head(req[d].due) :
         LET seen == IF what = "accounts" THEN chart ELSE entries
             left == Head(req[d].due) \ {what}
             known == req[d].read
         IN  req' = [req EXCEPT
                 ![d].read = [ x \in DOMAIN known \union {what} |->
                                 IF x = what THEN seen ELSE known[x] ],
                 ![d].due = IF left = {} THEN Tail(req[d].due)
                            ELSE [req[d].due EXCEPT ![1] = left]]
    /\ UNCHANGED <<chart, entries>>

(* The report is sent. *)
Answer(d) ==
    /\ req[d] # Idle /\ req[d].due = <<>>
    /\ req' = [req EXCEPT ![d] = Idle]
    /\ UNCHANGED <<chart, entries>>

Init ==
    /\ chart = OldAccounts
    /\ entries = {}
    /\ req = [d \in Desks |-> Idle]

Next ==
    \/ \E a \in AllAccounts : CreateAccount(a)
    \/ \E e \in Bookings : Book(e)
    \/ \E d \in Desks :
        \/ \E kind \in DOMAIN Queries : \E q \in Queries[kind] : Ask(d, kind, q)
        \/ Query(d)
        \/ Answer(d)

Spec == Init /\ [][Next]_vars

-----------------------------------------------------------------------------
(* Properties.  Ready: the reports about to be sent.                       *)

Ready(kind) == { req[d] : d \in { x \in Desks : req[x].kind = kind /\ req[x].due = <<>> } }

(* What is booked balances: every entry by itself, which each module that  *)
(* books shows of its own.                                                 *)
EntryBalances(e, q) ==
    LET lines == LinesOf({e}, q)
    IN  Total([a \in AllAccounts |-> Net(lines, a)]) = 0

ASSUME BookingsBalance ==
    \A e \in Bookings :
        EntryBalances(e, [company |-> None, branch |-> None])

(* The accounts, the entries that may be booked, with the lines of a       *)
(* sequence, and the dates a report may be asked between.                  *)
ASSUME AccountsAssumption == IsFiniteSet(AllAccounts) /\ OldAccounts \subseteq AllAccounts

ASSUME BookingsAssumption ==
    /\ IsFiniteSet(Bookings)
    /\ \A e \in Bookings :
         /\ e.date \in Int
         /\ IsFiniteSet(DOMAIN e.lines)
         /\ \A i \in DOMAIN e.lines :
              /\ e.lines[i].account \in AllAccounts
              /\ e.lines[i].debit \in Int /\ e.lines[i].credit \in Int

ASSUME DatesAssumption ==
    /\ None \notin Int /\ Now \in Int /\ DaysInYear \in Nat \ {0}
    /\ \A kind \in DOMAIN Queries : \A q \in Queries[kind] :
         { q.from, q.to, q.compareFrom, q.compareTo } \subseteq Int \union {None}

Kinds ==
    { "trial-balance", "account-statement-summary", "account-statement", "financial-statements" }

ASSUME KindsAssumption == None \notin Kinds /\ DOMAIN Queries \subseteq Kinds

(* enum FinancialStatementCategory of schema.prisma. *)
Categories ==
    CurrentAssets \union Equity \union Liabilities \union OperatingExpenses \union
    { "REVENUE", "COST_OF_SALES", "OTHER_INCOME", "FINANCE_INCOME", "FINANCE_COST",
      "INCOME_TAX", "OTHER_COMPREHENSIVE_INCOME", "ASSET_NONCURRENT", "DIVIDEND" }

ASSUME CategoriesAssumption ==
    /\ None \notin Categories
    /\ \A a \in AllAccounts : StatementCategory[a] \in Categories \union {None}

(* A chart filled in as the statements read it: accounts of the debit      *)
(* types are those of the assets, costs and dividends.                     *)
ASSUME ChartIsConventional ==
    \A a \in AllAccounts : StatementCategory[a] # None =>
        (TypeOf[a] \in {"ASSET", "EXPENSE"} <=>
           StatementCategory[a] \in
             CurrentAssets \union OperatingExpenses \union
             {"ASSET_NONCURRENT", "COST_OF_SALES", "FINANCE_COST", "INCOME_TAX", "DIVIDEND"})

(* A report of one branch or company cuts no entry in two. *)
CutsNoEntry(r) == \A e \in entries : EntryBalances(e, r.query)

Undisturbed(r) == r.changed = 0

InOrder(range) == range.from <= range.to

RangesInOrder(q) == InOrder(PrimaryRange(q)) /\ InOrder(ComparativeRange(q))

(* A trial balance of less than ten thousand lines and accounts shows the  *)
(* same amount in cents under debits and credits of its opening, movement  *)
(* and closing columns, whatever errors its additions make, and also when  *)
(* accounts are opened and entries booked between its three queries (the   *)
(* listing of the accounts is the last of them): getTrialBalanceRows,      *)
(* sumTrialBalanceRows, pdfMoney.                                          *)
ShownAlike(debit, credit) ==
    /\ InCents(debit.least) = InCents(credit.most)
    /\ InCents(debit.most) = InCents(credit.least)

TrialBalanceBalances ==
    \A r \in Ready("trial-balance") :
        CutsNoEntry(r) /\ 2 * Operations(r) < Cent =>
            LET rows == TrialBalanceRows(r)
                total(column) == SumOf(rows, column, Operations(r))
            IN  /\ ShownAlike(total("openingDebit"), total("openingCredit"))
                /\ ShownAlike(total("periodDebit"), total("periodCredit"))
                /\ ShownAlike(total("closingDebit"), total("closingCredit"))

(* The lines there are up to the last day asked for. *)
LedgerLines(book, q) == LinesOf({ e \in book : q.to # None => e.date <= EndOf(q.to) }, q)

(* When nothing is booked meanwhile, every report counts every line up to  *)
(* its last day once: the trial balance and the statement of an account    *)
(* close at what the ledger comes to, the snapshots' opening and movement  *)
(* make their closing amount, and the range compared with by default ends  *)
(* where the range asked for begins: getTrialBalanceRows,                  *)
(* getAccountStatementRows, buildAccountSnapshots, dayBefore.              *)
BalancesTie ==
    /\ \A r \in Ready("trial-balance") \union Ready("account-statement") :
         Undisturbed(r) /\ (r.query.from = None \/ r.query.to = None \/ InOrder(PrimaryRange(r.query))) =>
            LET upTo == LedgerLines(entries, r.query) IN
            IF r.kind = "account-statement"
            THEN \A a \in chart : ClosingBalance(r, a) = Net(upTo, a)
            ELSE LET rows == TrialBalanceRows(r)
                 IN  \A a \in chart : rows[a].closingDebit - rows[a].closingCredit = Net(upTo, a)
    /\ \A r \in Ready("account-statement-summary") :
         Undisturbed(r) =>
            \A a \in chart :
                LET rows == SummaryRows(r) IN
                Net(PeriodLines(entries, r.query), a) = IF a \in DOMAIN rows THEN rows[a].balance ELSE 0
    /\ \A r \in Ready("financial-statements") :
         Undisturbed(r) /\ RangesInOrder(r.query) =>
            LET s == Snapshots(r) IN
            \A a \in chart :
                /\ s["opening"][a] + s["period"][a] = s["closing"][a]
                /\ s["comparativeOpening"][a] + s["comparativePeriod"][a]
                      = s["comparativeClosing"][a]
                /\ r.query.compareFrom = None => s["comparativeClosing"][a] = s["opening"][a]

(* What the accounts outside the statement of financial position came to.  *)
NetOutside(r, mode) ==
    Total([a \in { x \in chart : StatementCategory[x] \notin
                      CurrentAssets \union {"ASSET_NONCURRENT"} \union Equity \union Liabilities }
           |-> -Net(SnapshotLines(r, mode), a)])

(* The statements fit together.  The statement of financial position,      *)
(* whose equity leaves the profit out, is off by exactly what the accounts *)
(* outside it have come to; over the period that is the total              *)
(* comprehensive income less the dividends, up to unmapped accounts.  The  *)
(* statement of changes in equity and the cash flow start from the profit  *)
(* of the profit or loss statement; the ratios' profit is that less the    *)
(* finance income.                                                         *)
StatementsArticulate ==
    \A r \in Ready("financial-statements") :
        CutsNoEntry(r) /\ Undisturbed(r) /\ RangesInOrder(r.query) =>
            LET s == Snapshots(r)
                result == ProfitOrLoss(s, "period")
                position == FinancialPosition(s, "closing")
                before == FinancialPosition(s, "opening")
                ratios == Ratios(s)
            IN  /\ position.difference = NetOutside(r, "closing")
                /\ position.difference - before.difference =
                      result.totalComprehensiveIncome - SumByCategories(s, {"DIVIDEND"}, "period")
                        - Total([a \in Unmapped(s) |-> Net(SnapshotLines(r, "period"), a)])
                /\ ChangesInEquity(s).profit = result.profitAfterTax
                /\ ratios.netMargin[1] + SumByCategories(s, {"FINANCE_INCOME"}, "period")
                      = result.profitAfterTax
                /\ ratios.debtToEquity = <<position.totalLiabilities, position.totalEquity>>
                /\ ratios.assetTurnover[2] =
                      position.totalAssets + FinancialPosition(s, "comparativeClosing").totalAssets

(* What the categories the cash flow does not read moved in the period. *)
LeftOut(r, period) ==
    Total([a \in { x \in chart : StatementCategory[x] \in
                      { None, "INCOME_TAX", "OTHER_COMPREHENSIVE_INCOME", "ASSET_CURRENT",
                        "EQUITY_RETAINED_EARNINGS", "EQUITY_RESERVE" } }
           |-> Net(SnapshotLines(r, period), a)])

CashGapIs(r, opening, period, closing) ==
    LET s == Snapshots(r)
        flow == CashFlow(s, opening, period, closing)
    IN  NetIncrease(flow) - flow.actual =
            SumByCategories(s, {"DEPRECIATION_AND_AMORTIZATION"}, period) + LeftOut(r, period)

(* The cash flow statement, derived from the profit, differs from what     *)
(* cash really moved by what the accounts it leaves out moved and by the   *)
(* depreciation, which it counts twice (added back to the profit, and in   *)
(* the movement of the non-current assets), and by nothing else, in both   *)
(* its columns: buildCashFlowPayload.                                      *)
CashGapExplained ==
    \A r \in Ready("financial-statements") :
        CutsNoEntry(r) /\ Undisturbed(r) /\ RangesInOrder(r.query) =>
            /\ CashGapIs(r, "opening", "period", "closing")
            /\ CashGapIs(r, "comparativeOpening", "comparativePeriod", "comparativeClosing")

=============================================================================
