\* One job of two cases: cancellation, deadlines, and a worker that may die and its successor.
SPECIFICATION FairSpec
CONSTANTS
    Jobs = {j1}
    NoJob = NoJob
    Workers = {w1, w2}
    NoWorker = NoWorker
    Mortal = {w1}
    Cancellable = {j1}
    Perishable = {j1}
    g1 = g1
    Generations = {g1}
    GenOf <- MCGenOf
    NCases = 2
    MaxCalls = 2
    QueueLimit = 2
INVARIANTS TypeOK WorkIsOwnedOrPrepaid OutcomesAreAccounted
PROPERTIES TerminalJobIsFinal ImplementsCaseLedger EveryJobSettles
CHECK_DEADLOCK FALSE
