\* A worker that is stopped while it runs a job.
SPECIFICATION Spec
CONSTANTS
    Jobs = {j1}
    NoJob = NoJob
    Workers = {w1}
    NoWorker = NoWorker
    Mortal = {w1}
    Cancellable = {}
    Perishable = {}
    g1 = g1
    Generations = {g1}
    GenOf <- MCGenOf
    NCases = 1
    MaxCalls = 1
    QueueLimit = 1
INVARIANT ShutdownIsRecordedInBoth
CHECK_DEADLOCK FALSE
