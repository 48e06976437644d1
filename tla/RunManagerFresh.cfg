CONSTANTS
    None = None
    Threads = {t1}
    RunIds = {r1, r2}
    Keys = {k1, k2}
    Users = {u1, u2}
    Scopes = {s1}
    Subjects = {voucher, mutation}
    Guarded = {mutation}
    Facts = {f1}
SPECIFICATION Spec
PROPERTIES EvidenceCurrent
CHECK_DEADLOCK FALSE
