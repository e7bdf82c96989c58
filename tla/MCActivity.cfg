\* Two charges and a subscription of one customer, within a lookback and after it.
CONSTANTS
    None = None
    c1 = c1
    c2 = c2
    s1 = s1
    cA = cA
    Charges = {c1, c2}
    Subs = {s1}
    Customers = {cA}
    CustomerOf <- AllOfOne
    Amount <- Amounts
    LookbackDays = 2
    TopDays = 2
    PeriodDays = 1
    FeedDays = 1
    ReviewDays = 1
    FeedLimit = 1
    PageLimit = 1
    MaxTime = 4
SPECIFICATION Spec
INVARIANTS
    FiguresAreAsOfSync
    LifetimeCoversRecent
    FailuresAreInFeed
    ReviewAddsUp
