CONSTANTS
    None = None
    Threads = {t1, t2}
    Accounts = {a1}
    Customers = {c1}
    Keys = {k1}
    Refs = {x1, x2}
    Amounts = {1}
    Fees = {0}
    MaxLong = 2
SYMMETRY Symmetry
SPECIFICATION Spec
PROPERTIES RetryGetsOriginal
CHECK_DEADLOCK FALSE
