\* A repeated post that waits for the writer while another rotation removes expired submissions.
SPECIFICATION Spec
CONSTANTS
    Accounts = {a1}
    NoAccount = NoAccount
    Keys = {k1, k2}
    NoKey = NoKey
    Forms = {f1}
    NoForm = NoForm
    Servers = {s1, s2}
    NoServer = NoServer
    Posts = {p1, p2, p3}
    Calls = {}
    Lifetime = 1
    DailyQuota = 1
    LastTick = 1
SYMMETRY MCSymmetry
INVARIANT FormRotatesOnce
CHECK_DEADLOCK FALSE
