CONSTANTS
    None = None
    Threads = {t1, t2}
    Accounts = {a1}
    Customers = {c1}
    Keys = {k1}
    Refs = {x1, x2}
    Amounts = {1}
    Fees = {0, 1}
    MaxLong = 2
SPECIFICATION FairSpec
 
PROPERTIES RequestsEnd
CHECK_DEADLOCK FALSE
