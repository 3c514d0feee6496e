\* The parts of a serving process, one at a time.
SPECIFICATION ServingSpec
CONSTANTS
    c1 = c1
    c2 = c2
    c3 = c3
    p1 = p1
    p2 = p2
    Calls = {c1, c2, c3}
    Principals = {p1, p2}
    NoPrincipal = NoPrincipal
    PrincipalOf <- MCPrincipalOf
    Submitters = {c2}
    Capacity = 2
    PrincipalLimit = 1
    MaxUses = 1
    Requests = 2
    MaxRetries = 2
    MaxProviderCalls = 3
    Deadline = 5
    Horizon = 6
    RetryInitial = 1
    RetryMax = 2
    RetryAfters = {0, 1, 2, 3}
    Usages = {1}
    Ids = {g1, g2}
    NoId = NoId
    Commands = {m1, m2}
    NoCommand = NoCommand
    Readers = {r1}
    Askers = {a1, a2}
    Parts = 2
    MaxDamage = 1
INVARIANTS CallsAreAccounted ReportsAreSealed
PROPERTIES CallsAreWelcomeAndRecorded ServingEnds
CHECK_DEADLOCK FALSE
