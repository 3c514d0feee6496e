\* The lease sweep racing a reservation and a crash.
SPECIFICATION Spec
CONSTANTS
    Principals = {p1}
    OpIds = {op1}
    Owners = {o1, o2}
    Keys = {}
    NoKey = NoKey
    Requests = {"case"}
    WorkUnits <- MCWorkUnits
    Outcomes = {"completed", "cancelled"}
    NoOwner = NoOwner
    NoPrincipal = NoPrincipal
    NoRequest = NoRequest
    GlobalLimit = 1
    PrincipalLimit = 1
    DailyLimit = 3
    RetentionDays = 2
    LastDay = 0
INVARIANT UnresolvedWorkKeepsItsLease
CHECK_DEADLOCK FALSE
