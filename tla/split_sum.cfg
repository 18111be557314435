\* Two requests in flight, splits in whole cents.
SPECIFICATION SpendingSpec
CONSTANTS
    t1 = t1
    t2 = t2
    t3 = t3
    s1 = s1
    s2 = s2
    m1 = m1
    r1 = r1
    c1 = c1
    Txn = {t1, t2, t3}
    Merchant = {m1, Empty}
    Empty = Empty
    Category = {c1}
    Statement = {s1, s2}
    StatementOf <- MCStatementOf
    MerchantOf <- MCMerchantOf
    Process = {p1, p2}
    NoCategory = NoCategory
    NoMerchant = NoMerchant
    AnyCategory = AnyCategory
    Threshold = 2
    MaxLog = 2
    MonthDays = 2
    Today = 3
    RawMerchant <- MCRawMerchant
    Amount <- MCAmount
    Date <- MCDate
    Cent = 2
    Allocation <- MCAllocation
    Period <- MCPeriod
SYMMETRY Symmetry
INVARIANT
    SplitsSumUp
