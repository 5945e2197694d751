CONSTANTS
    None = None
    u1 = u1
    u2 = u2
    v1 = v1
    Shipments = {s1, s2, s3}
    Customers = {u1, u2}
    Vehicles = {v1}
    Calls = {c1, c2}
    PeriodLength <- MCPeriodLength
    MonthStart <- MCMonthStart
    Rows <- MCRows
    Asks <- MCAsks
SPECIFICATION Spec
SYMMETRY Alike
INVARIANT TypeOK
INVARIANT SeriesExact
INVARIANT NoGaps
INVARIANT TotalsAgree
INVARIANT UnknownIsExplained
