----------------------------- MODULE MCReports ------------------------------
(***************************************************************************)
(* Reports over four days, years of two, two branches of one company, and  *)
(* entries on the first and the last instant of a day.                     *)
(***************************************************************************)
EXTENDS Reports, TLC

Chart ==
    { <<"cash", "ASSET", "CASH_AND_EQUIVALENT">>, <<"debtors", "ASSET", "RECEIVABLE">>,
      <<"stock", "ASSET", "INVENTORY">>, <<"van", "ASSET", "ASSET_NONCURRENT">>,
      <<"creditors", "LIABILITY", "LIABILITY_CURRENT">>,
      <<"loan", "LIABILITY", "LIABILITY_NONCURRENT">>,
      <<"capital", "EQUITY", "EQUITY_SHARE_CAPITAL">>,
      <<"sales", "INCOME", "REVENUE">>, <<"cost", "EXPENSE", "COST_OF_SALES">>,
      <<"interest", "INCOME", "FINANCE_INCOME">>, <<"tax", "EXPENSE", "INCOME_TAX">>,
      <<"wear", "EXPENSE", "DEPRECIATION_AND_AMORTIZATION">>,
      <<"dividend", "EXPENSE", "DIVIDEND">>, <<"petty", "ASSET", None>> }

Names == { row[1] : row \in Chart }
RowOf(a) == CHOOSE row \in Chart : row[1] = a
MCTypeOf == [ a \in Names |-> RowOf(a)[2] ]
MCStatementCategory == [ a \in Names |-> RowOf(a)[3] ]
MCOldAccounts == Names \ {"petty"}
MCCompanyOfBranch == [ b \in {"north", "south"} |-> "c1" ]

Dr(account, amount, branch) ==
    [account |-> account, debit |-> amount, credit |-> 0, branch |-> branch]
Cr(account, amount, branch) ==
    [account |-> account, debit |-> 0, credit |-> amount, branch |-> branch]

Founding ==
    [ date |-> StartOf(0),
      lines |-> << Dr("cash", 60, "north"), Dr("van", 40, "north"),
                   Cr("capital", 80, "north"), Cr("loan", 20, "north") >> ]

Purchase ==
    [ date |-> EndOf(1),
      lines |-> << Dr("stock", 30, "south"), Cr("creditors", 30, "south") >> ]

Sale ==
    [ date |-> StartOf(2),
      lines |-> << Dr("debtors", 25, "north"), Cr("sales", 25, "north"),
                   Dr("cost", 9, "north"), Cr("stock", 9, "north") >> ]

YearEnd ==
    [ date |-> EndOf(3),
      lines |-> << Dr("wear", 4, "north"), Cr("van", 4, "north"),
                   Dr("tax", 3, "north"), Cr("creditors", 3, "north"),
                   Dr("cash", 2, "north"), Cr("interest", 2, "north"),
                   Dr("dividend", 1, "north"), Cr("cash", 1, "north") >> ]

(* Between two branches, to an account opened later and with no category.  *)
Transfer ==
    [ date |-> StartOf(2) + 1,
      lines |-> << Dr("petty", 5, "south"), Cr("cash", 5, "north") >> ]

MCBookings == {Founding, Purchase, Sale, YearEnd, Transfer}

Asked(from, to, branch) ==
    [ from |-> from, to |-> to, compareFrom |-> None, compareTo |-> None,
      company |-> IF branch = None THEN None ELSE "c1", branch |-> branch ]

ByDate == { Asked(None, None, None), Asked(2, 2, None), Asked(2, 3, "north") }

MCQueries ==
    [ kind \in { "trial-balance", "account-statement-summary", "account-statement" } |-> ByDate ]
    @@ [ kind \in {"financial-statements"} |->
           { Asked(None, 3, None), Asked(2, 2, None), Asked(2, None, "north"),
             [Asked(3, 3, None) EXCEPT !.compareFrom = 1, !.compareTo = 2] } ]

(* Two changes during the reports of two or three queries, one during      *)
(* those of seven.                                                         *)
MCChanges == [ kind \in DOMAIN MCQueries |-> IF kind = "financial-statements" THEN 1 ELSE 2 ]

=============================================================================
