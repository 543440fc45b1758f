CONSTANTS
    ann = ann
    bob = bob
    r1 = r1
    r2 = r2
    main = main
    rev1 = rev1
    rev2 = rev2
    cash = cash
    income = income
    Nobody = Nobody
    NoJournal = NoJournal
    NoContent = NoContent
    Users = {ann, bob}
    Main = main
    Accounts = {cash, income}
    Requests = {r1, r2}
    Journals = {main, rev1, rev2}
    Contents <- OverlapContents
SPECIFICATION Spec
SYMMETRY OverlapSymmetry
INVARIANTS
    PostedIffBookedOnce
    DraftsNeedAnotherApprover
