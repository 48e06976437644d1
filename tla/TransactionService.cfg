CONSTANTS
    None = None
    Threads = {t1, t2}
    Accounts = {a1, a2}
    Customers = {c1, c2}
    Keys = {k1}
    Refs = {x1, x2}
    Amounts = {1}
    Fees = {0, 2}
    MaxLong = 3
SYMMETRY Symmetry
SPECIFICATION Spec
INVARIANTS TypeOK BalanceIsLedger OneEffectPerKey AnswersSettled AuditsMatch OneAccountPerCustomer
PROPERTIES ImplementsBook
CHECK_DEADLOCK FALSE
