SPECIFICATION Spec
CONSTANTS
    None = None
    TypeOf <- MCTypeOf
    StatementCategory <- MCStatementCategory
    OldAccounts <- MCOldAccounts
    CompanyOfBranch <- MCCompanyOfBranch
    Bookings <- MCBookings
    Now = 10
    DaysInYear = 2
    Queries <- MCQueries
    Desks = {"d1"}
    Changes <- MCChanges
INVARIANTS
    TrialBalanceBalances
    BalancesTie
    StatementsArticulate
    CashGapExplained
