SPECIFICATION StillSpec
CONSTANTS
    Proc = {p1, p2}
    Family = {f1, f2}
    Row = {r1, r2, r3}
    User = {u}
    Account = {a}
    Factor = {FALSE}
    NoFamily = NoFamily
    NoRow = NoRow
    NoOne = NoOne
PROPERTY RequestsFinish
CHECK_DEADLOCK FALSE
