CONSTANTS
    None = None
    requester = requester
    Threads = {t1, t2}
    Users = {requester, lead}
    Approvers = {requester, lead}
    Executors = {requester}
    Runs = {r1}
    RunUser <- MCRunUser
    Intents = {i1, i2}
    Messages = {m1}
    Keys = {k1, k2}
    MaxVersion = 2
SYMMETRY Symmetry
SPECIFICATION Spec
INVARIANTS TypeOK SingleExecutor CommandsAuthorised KeyNamesOneCommand ReceiptsHonest
PROPERTIES OutcomeKept ImplementsApprovedRecovery
CHECK_DEADLOCK FALSE
