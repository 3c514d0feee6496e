\* Three posts of two accounts' forms on two servers, and a key in use, beside suspensions and revocations.
SPECIFICATION Spec
CONSTANTS
    Accounts = {a1, a2}
    NoAccount = NoAccount
    Keys = {k1, k2}
    NoKey = NoKey
    Forms = {f1, f2}
    NoForm = NoForm
    Servers = {s1, s2}
    NoServer = NoServer
    Posts = {p1, p2, p3}
    Calls = {c1}
    Lifetime = 1
    DailyQuota = 1
    LastTick = 1
SYMMETRY MCSymmetry
INVARIANTS TypeOK FormsAreServedOnce
PROPERTIES ImplementsRegister
CHECK_DEADLOCK FALSE
