------------------------------- MODULE MCLocal -------------------------------
(***************************************************************************)
(* The components that commands of an operator's machine run and that      *)
(* share no state, explored in one run: a behaviour is one of              *)
(* RuntimeExecution, Onboarding, ProfileUpdate, IndexBuild, VectorReplica, *)
(* OwnedRemoval or Bootstrap, and `part` says of which.  Executions are    *)
(* also the sessions, commands, publishers and servers of the other parts. *)
(***************************************************************************)
EXTENDS OwnedRemoval, RuntimeExecution, TLC

CONSTANTS
    Nobody,
    SourceModes, WithProfile, Tasks, MaxVersion, MaxFiles,
    Versions, Invalid, MaxTexts, MaxEdits,
    Builds, MaxTouched,
    Sealed, Searches, Backends, KeyCount, BatchSize, TopK, MaxTampers,
    Importers, Seed, Imports, MaxRoots

VARIABLES
    part,
    sources, active, config, profile, files, session, op,
    packs, pinned, lock, stance, token, read, staged, edits, late,
    index, rules, stage, opened, touched, displaced,
    backend, selected, remote, command, search, ready, tampered, tampers,
    root, owned, interrupted, furnished, strange, pointer, publishLock, writerLock, at, mine, served

Setup == INSTANCE Onboarding WITH Sessions <- Executions, NoSession <- Nobody
Pinning == INSTANCE ProfileUpdate WITH Commands <- Executions, NoCommand <- Nobody,
                                       profile <- pinned, pc <- stance
Indexing == INSTANCE IndexBuild WITH NoBuild <- Nobody
Replicating == INSTANCE VectorReplica WITH Publishers <- Executions, NoGeneration <- Nobody
Starting == INSTANCE Bootstrap WITH Servers <- Executions, Publishers <- Importers, NoId <- Nobody

ASSUME PartsAssumption ==
    /\ Setup!OnboardingAssumption /\ Pinning!ProfileAssumption /\ Indexing!BuildAssumption
    /\ Replicating!ReplicaAssumption /\ RulesAssumption /\ Starting!BootstrapAssumption

ofSetup == <<sources, active, config, profile, files, session, op>>
ofPinning == <<packs, pinned, lock, stance, token, read, staged, edits, late>>
ofIndexing == <<index, rules, stage, opened, touched, displaced>>
ofReplicas == <<backend, selected, remote, command, search, ready, tampered, tampers>>
ofStart == <<root, owned, interrupted, furnished, strange, pointer, publishLock, writerLock, at, mine, served>>
ofStore == <<removalVars, ofStart>>

localVars == <<part, vars, ofSetup, ofPinning, ofIndexing, ofReplicas, ofStore>>

\* What a part does not use has some constant value.
NoAction == kind = [e \in Executions |-> "file_write"] /\ matched = [e \in Executions |-> {}]
NoSetup ==
    /\ sources = 0 /\ active = 0 /\ config = 0 /\ profile = 0 /\ files = 0 /\ session = 0 /\ op = 0
NoPinning ==
    /\ packs = 0 /\ pinned = 0 /\ lock = 0 /\ stance = 0 /\ token = 0 /\ read = 0 /\ staged = 0
    /\ edits = 0 /\ late = FALSE
NoIndexing ==
    /\ index = 0 /\ rules = 0 /\ stage = 0 /\ opened = 0 /\ touched = 0 /\ displaced = FALSE
NoReplicas ==
    /\ backend = 0 /\ selected = 0 /\ remote = 0 /\ command = 0 /\ search = 0
    /\ ready = {} /\ tampered = {} /\ tampers = 0
NoRemoval ==
    /\ place = "nowhere" /\ content = 0 /\ marker = 0 /\ extra = {} /\ step = 0 /\ claim = 0
    /\ seen = {} /\ since = {} /\ refused = FALSE /\ changes = 0
NoStart ==
    /\ root = 0 /\ owned = FALSE /\ interrupted = FALSE /\ furnished = FALSE /\ strange = {}
    /\ pointer = Nobody /\ publishLock = Nobody /\ writerLock = Nobody /\ at = 0 /\ mine = 0 /\ served = 0

\* A part begins in its initial states, beside constant values of the others.
Begin(name, init, none) == IF part = name THEN init ELSE none

LocalInit ==
    /\ part \in {"action", "setup", "profile", "index", "replica", "removal", "bootstrap"}
    /\ Init /\ Begin("action", TRUE, NoAction)
    /\ Begin("setup", Setup!Init, NoSetup)
    /\ Begin("profile", Pinning!Init, NoPinning)
    /\ Begin("index", Indexing!Init, NoIndexing)
    /\ Begin("replica", Replicating!Init, NoReplicas)
    /\ Begin("removal", RemovalInit, NoRemoval)
    /\ Begin("bootstrap", Starting!Init, NoStart)

InAction(action) ==
    part = "action" /\ action /\ UNCHANGED <<part, ofSetup, ofPinning, ofIndexing, ofReplicas, ofStore>>
InSetup(action) ==
    part = "setup" /\ action /\ UNCHANGED <<part, vars, ofPinning, ofIndexing, ofReplicas, ofStore>>
InPinning(action) ==
    part = "profile" /\ action /\ UNCHANGED <<part, vars, ofSetup, ofIndexing, ofReplicas, ofStore>>
InIndexing(action) ==
    part = "index" /\ action /\ UNCHANGED <<part, vars, ofSetup, ofPinning, ofReplicas, ofStore>>
InReplicas(action) ==
    part = "replica" /\ action /\ UNCHANGED <<part, vars, ofSetup, ofPinning, ofIndexing, ofStore>>
InRemoval(action) ==
    part = "removal" /\ action /\ UNCHANGED <<part, vars, ofSetup, ofPinning, ofIndexing, ofReplicas, ofStart>>
InStart(action) ==
    part = "bootstrap" /\ action /\ UNCHANGED <<part, vars, ofSetup, ofPinning, ofIndexing, ofReplicas, removalVars>>

LocalNext ==
    \/ InAction(Next)
    \/ InSetup(Setup!Next)
    \/ InPinning(Pinning!Next)
    \/ InIndexing(Indexing!Next)
    \/ InReplicas(Replicating!Next)
    \/ InRemoval(RemovalNext)
    \/ InStart(Starting!Next)

LocalSpec == LocalInit /\ [][LocalNext]_localVars

MCSymmetry == Permutations(Executions)

-----------------------------------------------------------------------------
\* The type invariants of all parts.
LocalTypeOK ==
    /\ TypeOK
    /\ part = "setup" => Setup!TypeOK
    /\ part = "profile" => Pinning!TypeOK
    /\ part = "index" => Indexing!TypeOK
    /\ part = "replica" => Replicating!TypeOK
    /\ part = "removal" => RemovalTypeOK
    /\ part = "bootstrap" => Starting!TypeOK

\* Onboarding, ProfileUpdate, OwnedRemoval and Bootstrap: nothing of somebody
\* else that was there when a command last looked is replaced, removed or
\* selected over: config files and edits of a new profile, a profile that was
\* not reviewed, a changed generation, a root or a selection found in place.
\* What each conjunct leaves out is the moment after a last look: a profile
\* edited just before it is unlinked or replaced, an empty directory that takes
\* the place of a store and gets an owner record.
EditsAreKept ==
    [][/\ part = "setup" => Setup!ForeignFilesStay
       /\ part = "profile" => Pinning!AsReviewed
       /\ part = "removal" => PreservesChanges
       /\ part = "bootstrap" => Starting!SeedsItsOwn]_localVars

\* Onboarding, IndexBuild and VectorReplica: a saved config stands for a verified
\* answer and keeps its profile; what is reported ready is whole and belongs
\* together, and nothing else is searched.
ReadyMeansWhole ==
    /\ part = "setup" => Setup!SavedWasVerified /\ Setup!SavedPairStays
    /\ part = "index" => Indexing!ReadyIndexHasItsRules
    /\ part = "replica" => Replicating!ReportedReplicaIsWhole /\ Replicating!AnswersComeFromWhole

\* OwnedRemoval and Bootstrap: what killed processes leave behind is reclaimed
\* or recovered from by the next command, and not mistaken for somebody else's.
LeftoversAreReclaimed ==
    /\ part = "removal" => TrashIsReclaimed /\ StagesAreReclaimed /\ ObjectsAreWhole
    /\ part = "bootstrap" => Starting!RootsAreRecoverable

=============================================================================
