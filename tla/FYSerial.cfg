CONSTANTS
    r1 = r1
    r2 = r2
    y1 = y1
    y2 = y2
    fyA = fyA
    fyB = fyB
    Requests = {r1}
    Years = {y1, y2}
    Names = {fyA, fyB}
    LastDay = 6
    MonthLength = 2
SPECIFICATION Spec
SYMMETRY YearSymmetry
INVARIANTS
    EveryDayHasItsPeriod
    YearFollowsPeriods
PROPERTIES
    LockedIsForGood
