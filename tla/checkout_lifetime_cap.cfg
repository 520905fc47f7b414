\* An envelope that pays more than its body declares.
SPECIFICATION Spec
CONSTANTS
    Request <- Request3
    Token = {t1, t2, t3}
    Item = {i1, i2}
    Payment = {p1, p2}
    Key = {k1}
    NoPayment = NoPayment
    NoKey = NoKey
    Body <- Bodies
    Registered = {t1, t3}
    Executing = {t1}
    Scoped = {t1, t2, t3}
    Stocked = {i1}
    MaxSpend <- LifetimeCaps
    MaxDaily <- DailyCaps
    Worth <- MoreThanDeclared
    Days = 2
    t1 = t1
    t2 = t2
    t3 = t3
    i1 = i1
    i2 = i2
    p1 = p1
    p2 = p2
    k1 = k1
CHECK_DEADLOCK FALSE
INVARIANT
    LifetimeCap
