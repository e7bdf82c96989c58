\* Two customers, months of two seconds, a period of two and a half.
CONSTANTS
    None = None
    s1 = s1
    s2 = s2
    cA = cA
    cB = cB
    Subs = {s1, s2}
    Customers = {cA, cB}
    CustomerOf <- OneEach
    Price <- Prices
    Statuses = {"active", "unpaid"}
    MonthTicks = 4
    PeriodTicks = 5
    Months = 2
    MaxTime = 8
SPECIFICATION Spec
INVARIANTS
    CustomersSumToMrr
    TrendEndsNow
    TrendMovesWithMovements
    ChurnIsExplained
PROPERTIES
    PastNeedsAChange
\* The clock has run to its bound.
CHECK_DEADLOCK FALSE
