CONSTANTS
    None = None
    Threads = {t1, t2}
    RunIds = {r1}
    Keys = {k1}
    Users = {u1, u2}
    Scopes = {s1}
    Subjects = {voucher, mutation}
    Guarded = {mutation}
    Facts = {f1}
SPECIFICATION Spec
INVARIANT KeyReplayable
CHECK_DEADLOCK FALSE
