CONSTANTS
    None = None
    requester = requester
    Threads = {t1, t2}
    Users = {requester, lead}
    Approvers = {requester, lead}
    Executors = {requester}
    Runs = {r1}
    RunUser <- MCRunUser
    Intents = {i1}
    Messages = {m1}
    Keys = {k1}
    MaxVersion = 2
SPECIFICATION LiveSpec
PROPERTIES ExecutionEnds
CHECK_DEADLOCK FALSE
