CONSTANTS
    None = None
    Threads = {t1, t2}
    RunIds = {r1, r2}
    Keys = {k1, k2}
    Users = {u1, u2}
    Scopes = {s1}
    Subjects = {voucher, mutation}
    Guarded = {mutation}
    Facts = {f1, f2}
SYMMETRY Symmetry
SPECIFICATION Spec
INVARIANTS TypeOK OneAnswerPerKey ProposalsGrounded ClosedIsDecided
PROPERTIES DecisionStands StrictTransitions
CHECK_DEADLOCK FALSE
