------------------------------ MODULE MCServing ------------------------------
(***************************************************************************)
(* The parts of a serving process that have to end, in one run: a behaviour*)
(* is one of ToolExecutor, of ProviderRequest, of Generations (a reader    *)
(* beside commands that publish) or of JobReports, and `part` says of which.*)
(***************************************************************************)
EXTENDS ToolExecutor, Sequences, TLC

CONSTANTS
    c1, c2, c3, p1, p2,
    Requests, MaxRetries, MaxProviderCalls, Deadline, Horizon, RetryInitial, RetryMax, RetryAfters, Usages,
    Ids, NoId, Commands, Readers, NoCommand,
    Askers, Parts, MaxDamage

\* Two calls of one principal, of which one submits a job, and one of another.
MCPrincipalOf == (c1 :> p1) @@ (c2 :> p1) @@ (c3 :> p2)

VARIABLES
    part,
    clock, revoked, pc, request, attempt, counted, recorded, response, wake, result, sent, notBefore, sentStopped,
    objects, staging, pointer, unsynced, onDisk, writerLock, publishLock, course, op, target, expected, observed,
    doomed, reader, wanted, leased, holders, leaving, markers,
    version, state, inputs, report, sum, count, parts, due, expired, damage, asking, want, got

Provider == INSTANCE ProviderRequest WITH cancelled <- revoked
Store == INSTANCE Generations WITH pc <- course, AutoKeep <- 0, PruneKeep <- 0, MaxHolders <- 1
Reports == INSTANCE JobReports WITH pc <- asking, Readers <- Askers

ASSUME PartsAssumption == Provider!RequestAssumption /\ Reports!ReportsAssumption

ofRequest == <<clock, revoked, pc, request, attempt, counted, recorded, response, wake, result, sent, notBefore, sentStopped>>
ofStore == <<objects, staging, pointer, unsynced, onDisk, writerLock, publishLock, course, op, target, expected,
             observed, doomed, reader, wanted, leased, holders, leaving, markers>>

ofReports == <<version, state, inputs, report, sum, count, parts, due, expired, damage, asking, want, got>>

servingVars == <<part, vars, ofRequest, ofStore, ofReports>>

\* What a part does not use has some constant value.
NoRequest ==
    /\ clock = 0 /\ revoked = FALSE /\ pc = "none" /\ request = 0 /\ attempt = 0 /\ counted = 0 /\ recorded = 0 /\ response = 0
    /\ wake = 0 /\ result = 0 /\ sent = 0 /\ notBefore = 0 /\ sentStopped = 0
NoStore ==
    /\ objects = {} /\ staging = {} /\ pointer = 0 /\ unsynced = {} /\ onDisk = {} /\ writerLock = 0 /\ publishLock = 0
    /\ course = 0 /\ op = 0 /\ target = 0 /\ expected = 0 /\ observed = 0 /\ doomed = 0 /\ reader = [r \in Readers |-> "none"]
    /\ wanted = 0 /\ leased = 0 /\ holders = 0 /\ leaving = 0 /\ markers = {}
NoReports ==
    /\ version = 0 /\ state = "none" /\ inputs = FALSE /\ report = 0 /\ sum = 0 /\ count = 0 /\ parts = 0 /\ due = FALSE
    /\ expired = FALSE /\ damage = 0 /\ asking = [r \in Askers |-> "none"] /\ want = 0 /\ got = 0

ServingInit ==
    /\ Init
    /\ \/ part = "tools" /\ NoRequest /\ NoStore /\ NoReports
       \/ part = "provider" /\ Provider!Init /\ NoStore /\ NoReports
       \/ part = "reader" /\ Store!Init /\ NoRequest /\ NoReports
       \/ part = "reports" /\ Reports!Init /\ NoRequest /\ NoStore

InTools(action) == part = "tools" /\ action /\ UNCHANGED <<part, ofRequest, ofStore, ofReports>>
InProvider(action) == part = "provider" /\ action /\ UNCHANGED <<part, vars, ofStore, ofReports>>
InStore(action) == part = "reader" /\ action /\ UNCHANGED <<part, vars, ofRequest, ofReports>>
InReports(action) == part = "reports" /\ action /\ UNCHANGED <<part, vars, ofRequest, ofStore>>

ServingNext == InTools(Next) \/ InProvider(Provider!Next) \/ InStore(Store!Next) \/ InReports(Reports!Next)

\* The fairness of ToolExecutor, ProviderRequest, Generations and JobReports.
ServingFairness ==
    /\ \A c \in Calls : WF_servingVars(InTools(Thread(c) \/ Leave(c)))
    /\ WF_servingVars(InTools(CloseClients \/ CloseUsage \/ CloseJobs))
    /\ WF_servingVars(InProvider(Provider!Progress)) /\ WF_servingVars(InProvider(Provider!Tick))
    /\ \A c \in Commands : WF_servingVars(InStore(Store!SyncPointer(c)))
    /\ \A r \in Readers : WF_servingVars(InStore(Store!Pin(r) \/ Store!Refuse(r)))
    /\ \A r \in Askers : WF_servingVars(InReports(Reports!ReadPart(r) \/ Reports!VerifyReport(r) \/ Reports!Migrate(r)))

ServingSpec == ServingInit /\ [][ServingNext]_servingVars /\ ServingFairness

-----------------------------------------------------------------------------
\* ProviderRequest: what has been sent is on the durable record, within the
\* budget; nothing is sent early, and almost nothing after the end.  (Its type
\* invariant goes along; the other parts' are checked by their own runs.)
CallsAreWelcomeAndRecorded ==
    [][part = "provider" => Provider!TypeOK' /\ Provider!SentIsRecorded' /\ Provider!WelcomeSend]_servingVars

\* JobReports: whatever the disk does, a reader is given fragments of the report
\* that was sealed, and nothing of it stays after the retention.
ReportsAreSealed ==
    part = "reports" => Reports!TypeOK /\ Reports!FragmentsAreSealed /\ Reports!PurgedLeavesNothing

\* ToolExecutor, ProviderRequest, Generations and JobReports: a shutdown ends,
\* admitted calls are answered, an operation returns, a reader is served although
\* commands may prepare forever, and a request for a report is answered.
ServingEnds ==
    /\ part = "tools" => ShutdownCompletes
    /\ part = "provider" => Provider!OperationEnds
    /\ part = "reader" => Store!ReadersAreServed
    /\ part = "reports" => Reports!ReadersAreAnswered

=============================================================================
