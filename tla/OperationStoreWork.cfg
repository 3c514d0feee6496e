\* Interactive and queued work: two instances that open, sweep, work, close and crash; two principals, around midnight.
SPECIFICATION Spec
CONSTANTS
    Principals = {p1, p2}
    OpIds = {op1, op2}
    Owners = {o1, o2}
    Keys = {k1}
    NoKey = NoKey
    Requests = {"case"}
    WorkUnits <- MCWorkUnits
    Outcomes = {"completed"}
    NoOwner = NoOwner
    NoPrincipal = NoPrincipal
    NoRequest = NoRequest
    GlobalLimit = 1
    PrincipalLimit = 1
    DailyLimit = 3
    RetentionDays = 2
    LastDay = 1
SYMMETRY MCSymmetry
INVARIANTS TypeOK LiveWorkHoldsItsSlot CapacityRespected LiveOwnerKeepsItsLease LeakedSlotIsReported
PROPERTIES ImplementsLedger HistoryIsFinal
CHECK_DEADLOCK FALSE
