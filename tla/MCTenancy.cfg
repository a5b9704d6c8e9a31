SPECIFICATION SmallSpec
CONSTANTS
    Proc = {p1, p2, p3}
    Conn = {c1, c2}
    a = a
    b = b
    u = u
    v = v
    Account = {a, b}
    Membership <- TwoTenants
    Requests <- Mixed
    Audited = a
    PageSize = 1
    MaxRecords = 3
    Millisecond <- TwoAtOnce
    Skew = 0
    None = None
SYMMETRY Symmetry
INVARIANTS TypeOK IdleConnectionsAreClean ReadsStayInTenant NewestRecordTellsSetting
    PagesDescend PagesAreComplete SomebodyGoesOn
CHECK_DEADLOCK FALSE
