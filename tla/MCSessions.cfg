SPECIFICATION Spec
CONSTANTS
    Proc = {p1, p2}
    Family = {f1, f2}
    Row = {r1, r2, r3}
    User = {u}
    Account = {a}
    Factor = {TRUE}
    NoFamily = NoFamily
    NoRow = NoRow
    NoOne = NoOne
SYMMETRY Symmetry
INVARIANTS TypeOK AtMostOneLiveRow DeadExactlyWhenClosed ChainIsLinear
PROPERTY ImplementsTokenFamily
CHECK_DEADLOCK FALSE
