---------------------------- MODULE Generations ----------------------------
(***************************************************************************)
(* The generation store of services/generations.py: one directory shared   *)
(* by commands that publish, activate, roll back and prune, and by readers *)
(* that lease a generation while they use it.                              *)
(*                                                                         *)
(* Commands serialize under .writer.lock.  Reader admission, the           *)
(* replacement of the activation pointer and the removal of an object      *)
(* serialize under the short .publish.lock, so that readers are admitted   *)
(* while a command prepares a generation.  Locks are kernel locks: a       *)
(* process that dies releases them and leaves its files behind.            *)
(*                                                                         *)
(* Abstracted: a generation is its content id, and an object that is       *)
(* present is complete and intact (external damage is left out); sources   *)
(* that changed, failed inspections, providers and operation budgets are   *)
(* nondeterministic aborts; modification times are left out, so any        *)
(* keep_recent unprotected objects may be the recent ones; lease           *)
(* directories are made and removed under .publish.lock when empty and are *)
(* left out, as are the validation caches.  How stages and trash are       *)
(* deleted is module OwnedRemoval, how a root comes to be is Bootstrap.    *)
(* Durability is tracked, not lost: onDisk and unsynced say what a power   *)
(* failure could leave behind.                                             *)
(***************************************************************************)
EXTENDS Naturals, FiniteSets

CONSTANTS
    Ids, NoId,      \* generation ids
    Commands,       \* pool of command invocations, each run once
    Readers,        \* pool of reader leases, each with its own marker name
    NoCommand,
    AutoKeep,       \* keep_recent of the retention that follows a publication
    PruneKeep,      \* keep_recent of generation prune
    MaxHolders      \* bound: processes that share one lease through fork

\* A selection, as active.json holds it.
Pointer == [active : Ids, previous : Ids \cup {NoId}]

ASSUME StoreAssumption ==
    /\ NoId \notin Ids /\ NoId \notin Pointer /\ NoCommand \notin Commands
    /\ IsFiniteSet(Ids)
    /\ AutoKeep \in Nat /\ PruneKeep \in Nat
    /\ MaxHolders \in Nat \ {0}

VARIABLES
    objects,      \* objects/: ids with a complete directory
    staging,      \* staging/: commands whose build directory exists
    pointer,      \* active.json: a Pointer, or NoId
    unsynced,     \* objects whose directory entry a power failure may undo
    onDisk,       \* what active.json may hold after a power failure
    writerLock,   \* holder of .writer.lock
    publishLock,  \* command that holds .publish.lock over several steps
    pc,           \* position of each command
    op,           \* what each command does
    target,       \* the generation it builds or selects
    expected,     \* the active id its operator has seen
    observed,     \* the pointer its retention has read
    doomed,       \* objects its retention has still to remove
    reader,       \* state of each reader
    wanted,       \* what it asks for: an id, or NoId for the active one
    leased,       \* the generation it holds or held
    holders,      \* processes with the reader's locked descriptor
    leaving,      \* processes that closed it and have yet to clean the marker
    markers       \* readers whose lease marker exists

objectVars == <<objects, staging, pointer>>
durableVars == <<unsynced, onDisk>>
lockVars == <<writerLock, publishLock>>
commandVars == <<pc, op, target, expected, observed, doomed>>
readerVars == <<reader, wanted, leased, holders, leaving, markers>>
vars == <<objectVars, durableVars, lockVars, commandVars, readerVars>>

Positions == {"new", "waiting", "entered", "staged", "prepared", "installed", "synced",
              "replaced", "activated", "retaining", "ended", "dead"}

Active == IF pointer = NoId THEN NoId ELSE pointer.active

\* Mutant of Protected: only the active generation is.
ProtectedActive == {Active} \ {NoId}

\* What _prune protects: the active and the previous generation.
Protected == IF pointer = NoId THEN {} ELSE {pointer.active, pointer.previous} \ {NoId}

\* Mutant of NextPointer: the previous id is always the one that was active.
NextPointerRepeats(g) == [active |-> g, previous |-> Active]

\* _commit_activation: selecting the active generation again keeps its previous.
NextPointer(g) ==
    [active   |-> g,
     previous |-> IF Active # g THEN Active ELSE pointer.previous]

\* The kernel lock of r's marker is held by somebody.
Locked(r) == holders[r] > 0

\* _has_readers: some marker of g is locked.
HasReaders(g) == \E r \in markers : leased[r] = g /\ Locked(r)

\* Its markers that nobody locks: closed or dead readers left them.
Stale(g) == {r \in markers : leased[r] = g /\ ~Locked(r)}

-----------------------------------------------------------------------------
Init ==
    /\ objects = {} /\ staging = {} /\ pointer = NoId
    /\ unsynced = {} /\ onDisk = {NoId}
    /\ writerLock = NoCommand /\ publishLock = NoCommand
    /\ pc = [c \in Commands |-> "new"]
    /\ op = [c \in Commands |-> "none"]
    /\ target = [c \in Commands |-> NoId]
    /\ expected = [c \in Commands |-> NoId]
    /\ observed = [c \in Commands |-> NoId]
    /\ doomed = [c \in Commands |-> {}]
    /\ reader = [r \in Readers |-> "new"]
    /\ wanted = [r \in Readers |-> NoId]
    /\ leased = [r \in Readers |-> NoId]
    /\ holders = [r \in Readers |-> 0]
    /\ leaving = [r \in Readers |-> 0]
    /\ markers = {}

\* One step of command c from one position to another.
Step(c, from, to) ==
    /\ pc[c] = from
    /\ pc' = [pc EXCEPT ![c] = to]

requestVars == <<op, target, expected>>
pruneVars == <<observed, doomed>>

(* Commands.                                                               *)

\* build, migrate and import name the generation they will produce; activate
\* and rollback carry the active id that the operator has seen.
Request(c, what, g) ==
    /\ Step(c, "new", "waiting")
    /\ op' = [op EXCEPT ![c] = what]
    /\ target' = [target EXCEPT ![c] = IF what \in {"publish", "activate"} THEN g ELSE NoId]
    /\ expected' = [expected EXCEPT ![c] = IF what \in {"activate", "rollback"} THEN Active ELSE NoId]
    /\ UNCHANGED <<objectVars, durableVars, lockVars, pruneVars, readerVars>>

\* Mutant of Enter: commands run side by side.
EnterUnlocked(c) ==
    /\ publishLock = NoCommand
    /\ Step(c, "waiting", "entered")
    /\ writerLock' = c
    /\ UNCHANGED <<objectVars, durableVars, publishLock, requestVars, pruneVars, readerVars>>

\* _writer: the root is checked under .publish.lock, before and after
\* .writer.lock is taken.
Enter(c) ==
    /\ writerLock = NoCommand /\ publishLock = NoCommand
    /\ Step(c, "waiting", "entered")
    /\ writerLock' = c
    /\ UNCHANGED <<objectVars, durableVars, publishLock, requestVars, pruneVars, readerVars>>

\* _publish_stage makes the build directory and marks it as owned.
Stage(c) ==
    /\ op[c] = "publish"
    /\ Step(c, "entered", "staged")
    /\ staging' = staging \cup {c}
    /\ UNCHANGED <<objects, pointer, durableVars, lockVars, requestVars, pruneVars, readerVars>>

\* The provider embeds, the artifacts are written, sealed, inspected and synced.
Prepare(c) ==
    /\ Step(c, "staged", "prepared")
    /\ UNCHANGED <<objectVars, durableVars, lockVars, requestVars, pruneVars, readerVars>>

\* activate and rollback: the expectation is checked by the lock holder, and
\* the selected object is inspected.
Choose(c) ==
    /\ \/ op[c] = "activate" /\ target' = target
       \/ /\ op[c] = "rollback" /\ pointer # NoId /\ pointer.previous # NoId
          /\ target' = [target EXCEPT ![c] = pointer.previous]
    /\ Active = expected[c]
    /\ target'[c] \in objects
    /\ Step(c, "entered", "installed")
    /\ UNCHANGED <<objectVars, durableVars, lockVars, op, expected, pruneVars, readerVars>>

\* Mutant of Install: an object that is already there is trusted to be durable.
InstallTrusting(c) ==
    /\ Step(c, "prepared", IF target[c] \in objects THEN "synced" ELSE "installed")
    /\ objects' = objects \cup {target[c]}
    /\ staging' = IF target[c] \in objects THEN staging ELSE staging \ {c}
    /\ unsynced' = IF target[c] \in objects THEN unsynced ELSE unsynced \cup {target[c]}
    /\ UNCHANGED <<pointer, onDisk, lockVars, requestVars, pruneVars, readerVars>>

\* _activate: the build is renamed into objects/, unless its content is there
\* already, perhaps left by a publication that died.
Install(c) ==
    /\ Step(c, "prepared", "installed")
    /\ objects' = objects \cup {target[c]}
    /\ staging' = IF target[c] \in objects THEN staging ELSE staging \ {c}
    /\ unsynced' = IF target[c] \in objects THEN unsynced ELSE unsynced \cup {target[c]}
    /\ UNCHANGED <<pointer, onDisk, lockVars, requestVars, pruneVars, readerVars>>

\* The durability barriers: the object, objects/ and staging/ are synced.
Barrier(c) ==
    /\ Step(c, "installed", "synced")
    /\ unsynced' = {}
    /\ UNCHANGED <<objectVars, onDisk, lockVars, requestVars, pruneVars, readerVars>>

\* The pointer file is replaced under .publish.lock ...
Replace(c) ==
    /\ publishLock \in {NoCommand, c}
    /\ Step(c, "synced", "replaced")
    /\ publishLock' = c
    /\ pointer' = NextPointer(target[c])
    /\ onDisk' = onDisk \cup {pointer'}
    /\ UNCHANGED <<objects, staging, unsynced, writerLock, requestVars, pruneVars, readerVars>>

\* ... and its directory is synced; a failure becomes a warning.
SyncPointer(c) ==
    /\ Step(c, "replaced", "activated")
    /\ publishLock' = NoCommand
    /\ onDisk' \in {onDisk, {pointer}}
    /\ UNCHANGED <<objectVars, unsynced, writerLock, requestVars, pruneVars, readerVars>>

\* A refusal or failure before the commit point: the build directory is
\* removed, or kept when even that fails, and the locks are released.
Abort(c) ==
    /\ \E from \in {"waiting", "entered", "staged", "prepared", "installed", "synced"} :
        Step(c, from, "ended")
    /\ staging' \in {staging, staging \ {c}}
    /\ writerLock' = IF writerLock = c THEN NoCommand ELSE writerLock
    /\ publishLock' = IF publishLock = c THEN NoCommand ELSE publishLock
    /\ UNCHANGED <<objects, pointer, durableVars, requestVars, pruneVars, readerVars>>

-----------------------------------------------------------------------------
(* Retention: _prune, after a commit or as a command of its own.           *)

Keep(c) == IF op[c] = "prune" THEN PruneKeep ELSE AutoKeep

\* The recent objects are the newest keep_recent unprotected ones.
RecentSets(c) ==
    LET others == objects \ Protected
    IN  {recent \in SUBSET others :
            Cardinality(recent) = IF Cardinality(others) < Keep(c) THEN Cardinality(others)
                                  ELSE Keep(c)}

\* The candidates are chosen by the writer, without .publish.lock.
Survey(c) ==
    /\ \/ op[c] = "prune" /\ Step(c, "entered", "retaining") /\ staging' = staging
       \/ Step(c, "activated", "retaining") /\ staging' \in {staging, staging \ {c}}
    /\ observed' = [observed EXCEPT ![c] = pointer]
    /\ \E recent \in RecentSets(c) :
        doomed' = [doomed EXCEPT ![c] = objects \ (Protected \cup recent)]
    /\ UNCHANGED <<objects, pointer, durableVars, lockVars, requestVars, readerVars>>

\* Under .publish.lock: a leased candidate is kept; another one loses its
\* stale markers, is renamed into trash/, and both directories are synced.
Remove(c, g) ==
    /\ pc[c] = "retaining" /\ g \in doomed[c] /\ publishLock = NoCommand
    /\ doomed' = [doomed EXCEPT ![c] = @ \ {g}]
    /\ IF HasReaders(g)
       THEN /\ \E some \in SUBSET Stale(g) : markers' = markers \ some
            /\ UNCHANGED <<objects, unsynced>>
       ELSE /\ markers' = markers \ Stale(g)
            /\ pointer = observed[c]
            /\ objects' = objects \ {g}
            /\ unsynced' = {}
    /\ UNCHANGED <<staging, pointer, onDisk, lockVars, pc, requestVars, observed, reader, wanted,
                   leased, holders, leaving>>

\* A candidate that cannot be inspected is kept with a warning.
Spare(c, g) ==
    /\ pc[c] = "retaining" /\ g \in doomed[c]
    /\ doomed' = [doomed EXCEPT ![c] = @ \ {g}]
    /\ UNCHANGED <<objectVars, durableVars, lockVars, pc, requestVars, observed, readerVars>>

\* What is left in staging/ is removed, as far as it can be, and the writer
\* lock is released.  Retention may also stop early, with a warning.
Finish(c) ==
    /\ Step(c, "retaining", "ended")
    /\ staging' \in SUBSET staging
    /\ doomed' = [doomed EXCEPT ![c] = {}]
    /\ writerLock' = NoCommand
    /\ UNCHANGED <<objects, pointer, durableVars, publishLock, requestVars, observed, readerVars>>

\* The process dies: its kernel locks go, its files stay.
Kill(c) ==
    /\ pc[c] \notin {"new", "ended", "dead"}
    /\ pc' = [pc EXCEPT ![c] = "dead"]
    /\ doomed' = [doomed EXCEPT ![c] = {}]
    /\ writerLock' = IF writerLock = c THEN NoCommand ELSE writerLock
    /\ publishLock' = IF publishLock = c THEN NoCommand ELSE publishLock
    /\ UNCHANGED <<objectVars, durableVars, requestVars, observed, readerVars>>

-----------------------------------------------------------------------------
(* Readers.                                                                *)

askVars == <<wanted, leased>>

Ask(r, g) ==
    /\ reader[r] = "new"
    /\ reader' = [reader EXCEPT ![r] = "asking"]
    /\ wanted' = [wanted EXCEPT ![r] = g]
    /\ UNCHANGED <<leased, holders, leaving, markers, objectVars, durableVars, lockVars, commandVars>>

\* _selected_id: an explicit id, or the active one.
SelectedBy(r) == IF wanted[r] # NoId THEN wanted[r] ELSE Active

\* _reader_admission, under .publish.lock: the marker is made and locked.
\* The object is validated afterwards, outside the lock.
Pin(r) ==
    /\ reader[r] = "asking" /\ publishLock = NoCommand
    /\ SelectedBy(r) \in objects
    /\ reader' = [reader EXCEPT ![r] = "reading"]
    /\ leased' = [leased EXCEPT ![r] = SelectedBy(r)]
    /\ holders' = [holders EXCEPT ![r] = 1]
    /\ markers' = markers \cup {r}
    /\ UNCHANGED <<wanted, leaving, objectVars, durableVars, lockVars, commandVars>>

\* Nothing is selected, or it does not exist.
Refuse(r) ==
    /\ reader[r] = "asking" /\ publishLock = NoCommand
    /\ SelectedBy(r) \notin objects
    /\ reader' = [reader EXCEPT ![r] = "refused"]
    /\ UNCHANGED <<askVars, holders, leaving, markers, objectVars, durableVars, lockVars, commandVars>>

\* A forked process inherits the locked descriptor.
Fork(r) ==
    /\ holders[r] > 0 /\ holders[r] + leaving[r] < MaxHolders
    /\ holders' = [holders EXCEPT ![r] = @ + 1]
    /\ UNCHANGED <<reader, askVars, leaving, markers, objectVars, durableVars, lockVars, commandVars>>

\* One holder closes the descriptor: at its end, or because validation failed.
Release(r) ==
    /\ holders[r] > 0
    /\ holders' = [holders EXCEPT ![r] = @ - 1]
    /\ leaving' = [leaving EXCEPT ![r] = @ + 1]
    /\ UNCHANGED <<reader, askVars, markers, objectVars, durableVars, lockVars, commandVars>>

\* Mutant of CleanMarker: the marker goes with the first holder.
CleanMarkerUnprobed(r) ==
    /\ leaving[r] > 0
    /\ leaving' = [leaving EXCEPT ![r] = @ - 1]
    /\ markers' = markers \ {r}
    /\ UNCHANGED <<reader, askVars, holders, objectVars, durableVars, lockVars, commandVars>>

\* _remove_reader_marker: the marker of a lease that is still locked stays;
\* any other one is unlinked, unless retention is probing it at the moment.
CleanMarker(r) ==
    /\ leaving[r] > 0
    /\ leaving' = [leaving EXCEPT ![r] = @ - 1]
    /\ IF Locked(r) THEN markers' = markers ELSE markers' \in {markers, markers \ {r}}
    /\ UNCHANGED <<reader, askVars, holders, objectVars, durableVars, lockVars, commandVars>>

\* A process that shares the lease dies.
KillReader(r) ==
    /\ \/ holders[r] > 0 /\ holders' = [holders EXCEPT ![r] = @ - 1] /\ leaving' = leaving
       \/ leaving[r] > 0 /\ leaving' = [leaving EXCEPT ![r] = @ - 1] /\ holders' = holders
    /\ UNCHANGED <<reader, askVars, markers, objectVars, durableVars, lockVars, commandVars>>

-----------------------------------------------------------------------------
CommandNext(c) ==
    \/ \E what \in {"publish", "activate"}, g \in Ids : Request(c, what, g)
    \/ \E what \in {"rollback", "prune"} : Request(c, what, NoId)
    \/ Enter(c) \/ Stage(c) \/ Prepare(c) \/ Choose(c) \/ Install(c) \/ Barrier(c)
    \/ Replace(c) \/ SyncPointer(c) \/ Abort(c)
    \/ Survey(c) \/ Finish(c) \/ Kill(c)
    \/ \E g \in Ids : Remove(c, g) \/ Spare(c, g)

ReaderNext(r) ==
    \/ \E g \in Ids \cup {NoId} : Ask(r, g)
    \/ Pin(r) \/ Refuse(r) \/ Fork(r) \/ Release(r) \/ CleanMarker(r) \/ KillReader(r)

Next ==
    \/ \E c \in Commands : CommandNext(c)
    \/ \E r \in Readers : ReaderNext(r)

Spec == Init /\ [][Next]_vars

(* Fairness.  A reader polls for .publish.lock, and a command that has     *)
(* replaced the pointer goes on to sync it.  Nothing is assumed of the     *)
(* provider: a command may prepare forever.                                *)
FairSpec ==
    /\ Spec
    /\ \A c \in Commands : WF_vars(SyncPointer(c))
    /\ \A r \in Readers : WF_vars(Pin(r) \/ Refuse(r))

-----------------------------------------------------------------------------
(* Properties.                                                             *)

\* Every variable has its type; in particular a pointer never names one
\* generation twice, which its model refuses to read.
TypeOK ==
    /\ objects \subseteq Ids /\ staging \subseteq Commands
    /\ pointer \in Pointer \cup {NoId}
    /\ pointer # NoId => pointer.active # pointer.previous
    /\ unsynced \subseteq Ids /\ onDisk \subseteq Pointer \cup {NoId} /\ pointer \in onDisk
    /\ writerLock \in Commands \cup {NoCommand} /\ publishLock \in Commands \cup {NoCommand}
    /\ pc \in [Commands -> Positions]
    /\ op \in [Commands -> {"none", "publish", "activate", "rollback", "prune"}]
    /\ target \in [Commands -> Ids \cup {NoId}]
    /\ expected \in [Commands -> Ids \cup {NoId}]
    /\ observed \in [Commands -> Pointer \cup {NoId}]
    /\ doomed \in [Commands -> SUBSET Ids]
    /\ reader \in [Readers -> {"new", "asking", "reading", "refused"}]
    /\ wanted \in [Readers -> Ids \cup {NoId}] /\ leased \in [Readers -> Ids \cup {NoId}]
    /\ holders \in [Readers -> 0 .. MaxHolders] /\ leaving \in [Readers -> 0 .. MaxHolders]
    /\ markers \subseteq Readers

\* Every selection the code still protects is complete and synced, however
\* commands died in between; and a power failure leaves a pointer whose active
\* generation is there, unless the directory sync of two changes of the
\* selection is missing (retention knows only of the visible pointer).
SelectionIsDurable ==
    /\ Protected \subseteq objects \ unsynced
    /\ \A p \in onDisk \ {NoId} :
        onDisk \subseteq {NoId, pointer, p} => p.active \in objects \ unsynced

\* What a live command works on stays: its build directory until it is
\* installed, the installed object until the pointer names it.
WorkSurvives ==
    \A c \in Commands :
        /\ pc[c] \in {"staged", "prepared"} => c \in staging
        /\ pc[c] \in {"installed", "synced"} => target[c] \in objects

\* A generation stays as long as any process holds a lease of it, also after
\* one of the processes that share the lease has closed it.
LeasedObjectStays ==
    \A r \in Readers : Locked(r) => leased[r] \in objects

\* Both: nothing that is in use is taken away.
WhatIsUsedStays == WorkSurvives /\ LeasedObjectStays

\* An operator's activate or rollback takes effect only on the selection the
\* operator has seen, although the command waited and prepared in between.
SwitchedAsExpected ==
    [][\A c \in Commands :
        pc[c] = "synced" /\ pc'[c] = "replaced" /\ op[c] \in {"activate", "rollback"} =>
            Active = expected[c]]_vars

\* The store implements retention: the selection moves to complete objects
\* only, and active, previous and leased objects are never removed.
Retained == INSTANCE RetainedStore WITH
                Objects <- Ids, Pins <- Readers, None <- NoId,
                available <- objects, selection <- pointer,
                pins <- [r \in Readers |-> IF Locked(r) THEN leased[r] ELSE NoId]

ImplementsRetention == Retained!RetentionSpec

\* A reader is admitted or refused, even when a command prepares forever.
ReadersAreServed == \A r \in Readers : reader[r] = "asking" ~> reader[r] # "asking"

=============================================================================
