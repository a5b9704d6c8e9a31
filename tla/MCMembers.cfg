SPECIFICATION Spec
CONSTANTS
    Proc = {p1, p2}
    o1 = o1
    o2 = o2
    m = m
    g = g
    keeper = keeper
    auditor = auditor
    User = {o1, o2, m, g}
    Role = {keeper, auditor}
    Owner = Owner
    NoRole = NoRole
    Permission <- AllPermissions
    Actor = {m}
    Assignable = {keeper, auditor, Owner}
    InitialRole <- Staff
    InitialGrants <- StaffGrants
INVARIANTS TypeOK AccountHasOwner NoEscalation MembersHaveRoles
SYMMETRY Symmetry
CHECK_DEADLOCK FALSE
