\* The parts of a hosted deployment, one at a time.
SPECIFICATION HostedSpec
CONSTANTS
    Requests = {r1, r2}
    Tokens <- MCTokens
    NoToken = NoToken
    Kind <- MCKind
    Scopes <- MCScopes
    Expiry <- MCExpiry
    NotBefore <- MCNotBefore
    Foreign = {"foreign"}
    Operations = {"search", "preflight"}
    Required <- MCRequired
    Capacity = 1
    Horizon = 1
    MaxLost = 1
    Browsers = {"b1", "b2"}
    NoBrowser = NoBrowser
    Users = {"u1", "u2"}
    NoUser = NoUser
    States = {"s1", "s2"}
    NoState = NoState
    MaxAttempts = 2
    Window = 2
    SignInHorizon = 3
    Principals = {p1}
    OpIds = {op1, op2, op3}
    Owners = {o1}
    NoKey = NoKey
    NoOwner = NoOwner
    NoPrincipal = NoPrincipal
    NoRequest = NoRequest
    GlobalLimit = 1
    PrincipalLimit = 1
    DailyLimit = 2
    RetentionDays = 2
    LastDay = 2
    Jobs = {j1, j2}
    Mortal = {w1}
    Cancellable = {}
    Perishable = {}
    Generations = {g1}
    GenOf <- MCGenOf
    NoJob = NoJob
    Workers = {w1}
    NoWorker = NoWorker
    g1 = g1
    NCases = 1
    MaxCalls = 1
    QueueLimit = 2
SYMMETRY MCSymmetry
INVARIANTS AccessIsEarned SignInIsSound DailyAllowance ArchiveRetained
CHECK_DEADLOCK FALSE
