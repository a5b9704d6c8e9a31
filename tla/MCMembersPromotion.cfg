SPECIFICATION Spec
CONSTANTS
    Proc = {p1, p2}
    o1 = o1
    o2 = o2
    m = m
    g = g
    keeper = keeper
    auditor = auditor
    User = {o1, m}
    Role = {keeper}
    Owner = Owner
    NoRole = NoRole
    Permission <- AllPermissions
    Actor = {o1}
    Assignable = {keeper, Owner}
    InitialRole <- OneOwner
    InitialGrants <- KeeperGrants
INVARIANT AccountHasOwner
CHECK_DEADLOCK FALSE
