------------------------------- MODULE MCHosted -------------------------------
(***************************************************************************)
(* The parts of a hosted deployment that share no state, explored in one   *)
(* run: a behaviour is one of HostedAccess, of SignIn, of OperationStore   *)
(* (charges and retention over several days) or of EvaluationJobs (jobs    *)
(* that share an archive), and `part` says of which.                       *)
(***************************************************************************)
EXTENDS HostedAccess, EvaluationJobs, TLC

CONSTANTS
    Browsers, NoBrowser, Users, NoUser, States, NoState, MaxAttempts, Window, SignInHorizon,
    Principals, OpIds, Owners, NoKey, NoOwner, NoPrincipal, NoRequest, GlobalLimit, PrincipalLimit,
    DailyLimit, RetentionDays, LastDay, g1

\* The configured token, a key of the portal, and three tokens of the issuer: with
\* all scopes, with one scope and valid later, and one for another resource.
MCTokens == {"operator", "key", "full", "partial", "foreign"}
MCKind == [t \in MCTokens |-> IF t \in {"operator", "key"} THEN t ELSE "oauth"]
MCScopes == [t \in MCTokens |-> IF t = "partial" THEN {"read"} ELSE {"read", "evaluate"}]
MCExpiry == [t \in MCTokens |-> IF t = "partial" THEN 2 ELSE 1]
MCNotBefore == [t \in MCTokens |-> IF t = "partial" THEN 1 ELSE 0]
MCRequired == [o \in {"search", "preflight"} |-> IF o = "search" THEN {"read"} ELSE {"read", "evaluate"}]

\* All browsers are behind one address.
MCAddressOf == [b \in Browsers |-> "address"]

\* Two digests: one unit (a single case) and two units.
MCWorkUnits == "small" :> 1 @@ "large" :> 2

\* All jobs capture the same generation, so that they share its archive.
MCGenOf == [j \in Jobs |-> g1]

MCSymmetry == Permutations(Requests) \cup Permutations(Jobs)

VARIABLES
    part,
    moment, attempts, cookie, starter, code, redeemed, exchange, passed, asked,
    rows, phase, held, leaseFile, hasAdmitted, incomplete, runner, ran, sweeping, retired, valid, day, charged

SigningIn == INSTANCE SignIn WITH AddressOf <- MCAddressOf, Horizon <- SignInHorizon, now <- moment, accepted <- passed
Usage == INSTANCE OperationStore WITH Keys <- {"key"}, Requests <- {"small", "large"}, WorkUnits <- MCWorkUnits,
                                      Outcomes <- {"completed"}

ASSUME PartsAssumption == SigningIn!SignInAssumption

ofSignIn == <<moment, attempts, cookie, starter, code, redeemed, exchange, passed, asked>>
ofUsage == <<rows, phase, held, leaseFile, hasAdmitted, incomplete, runner, ran, sweeping, retired, valid, day, charged>>

hostedVars == <<part, accessVars, vars, ofSignIn, ofUsage>>

\* What a part does not use has some constant value.
NoAccess == mode = "open" /\ legacy = FALSE
NoSignIn ==
    /\ moment = 0 /\ attempts = 0 /\ cookie = 0 /\ starter = 0 /\ code = 0 /\ redeemed = {} /\ exchange = 0
    /\ passed = 0 /\ asked = 0
NoUsage ==
    /\ rows = 0 /\ phase = 0 /\ held = {} /\ leaseFile = {} /\ hasAdmitted = {} /\ incomplete = {} /\ runner = 0
    /\ ran = {} /\ sweeping = {} /\ retired = {} /\ valid = {} /\ day = 0 /\ charged = 0

HostedInit ==
    /\ AccessInit /\ Init
    /\ \/ part = "access" /\ NoSignIn /\ NoUsage
       \/ part = "signIn" /\ SigningIn!Init /\ NoAccess /\ NoUsage
       \/ part = "usage" /\ Usage!Init /\ NoAccess /\ NoSignIn
       \/ part = "queue" /\ NoAccess /\ NoSignIn /\ NoUsage

InAccess(action) == part = "access" /\ action /\ UNCHANGED <<part, vars, ofSignIn, ofUsage>>
InSignIn(action) == part = "signIn" /\ action /\ UNCHANGED <<part, accessVars, vars, ofUsage>>
InUsage(action) == part = "usage" /\ action /\ UNCHANGED <<part, accessVars, vars, ofSignIn>>
InQueue(action) == part = "queue" /\ action /\ UNCHANGED <<part, accessVars, ofSignIn, ofUsage>>

HostedNext ==
    \/ InAccess(AccessNext)
    \/ InSignIn(SigningIn!Next)
    \/ InUsage(Usage!Next)
    \/ InQueue(Next)

HostedSpec == HostedInit /\ [][HostedNext]_hostedVars

-----------------------------------------------------------------------------
\* SignIn: browsers are signed in as those who approved it, attempts are limited
\* and the table of attempts is that of the last window.
SignInIsSound ==
    part = "signIn" => /\ SigningIn!TypeOK /\ SigningIn!SessionsAreOwn
                       /\ SigningIn!AttemptsAreLimited /\ SigningIn!TableIsTheLastWindow

\* OperationStore: no principal is charged more than a day allows.
DailyAllowance == part = "usage" => Usage!DailyAllowance

=============================================================================
