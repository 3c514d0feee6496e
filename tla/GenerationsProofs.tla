------------------------- MODULE GenerationsProofs -------------------------
(***************************************************************************)
(* Proofs about Generations, for every set of generation ids and any       *)
(* number of commands and readers: what is selected, leased or worked on   *)
(* stays, what retention protects is durable, and an operator's switch     *)
(* takes effect only on the selection it was asked for.                    *)
(***************************************************************************)
EXTENDS Generations, TLAPS

(***************************************************************************)
(* The inductive invariant.                                                *)
(***************************************************************************)

UnderWriterLock ==
    {"entered", "staged", "prepared", "installed", "synced", "replaced", "activated", "retaining"}

\* A command changes the store only while it holds .writer.lock.
WriterInv == \A c \in Commands : pc[c] \in UnderWriterLock => writerLock = c

\* What a command works on is what it was asked for, and is synced before the
\* pointer may name it.
WorkInv ==
    \A c \in Commands :
        /\ op[c] \in {"publish", "activate"} => target[c] \in Ids
        /\ pc[c] \in {"staged", "prepared"} => op[c] = "publish"
        /\ pc[c] = "synced" => target[c] \notin unsynced
        /\ pc[c] \in {"installed", "synced"} /\ op[c] \in {"activate", "rollback"} => Active = expected[c]

\* A lease is shared by at most MaxHolders processes, and its marker is there
\* as long as one of them holds the lock.
LeaseInv ==
    \A r \in Readers :
        /\ holders[r] + leaving[r] <= MaxHolders
        /\ reader[r] # "reading" => holders[r] = 0 /\ leaving[r] = 0
        /\ Locked(r) => r \in markers

\* Retention dooms nothing that the pointer it has read protects.
DoomedInv ==
    \A c \in Commands :
        observed[c] # NoId => doomed[c] \cap {observed[c].active, observed[c].previous} = {}

\* Of two pointers the disk may hold, the visible one protects the other's
\* active generation.
LastTwoInv ==
    /\ pointer = NoId => onDisk = {NoId}
    /\ \A p \in onDisk \ {NoId} : onDisk \subseteq {NoId, pointer, p} => p.active \in Protected

ProtectedInv == Protected \subseteq objects \ unsynced

IInv ==
    /\ TypeOK
    /\ WriterInv
    /\ WorkSurvives /\ WorkInv
    /\ LeaseInv /\ LeasedObjectStays
    /\ DoomedInv
    /\ ProtectedInv /\ LastTwoInv

(***************************************************************************)
(* Pointers.                                                               *)
(***************************************************************************)

\* The active generation is an id or nothing.
LEMMA ActiveType ==
    ASSUME TypeOK
    PROVE  /\ Active \in Ids \cup {NoId}
           /\ pointer # NoId => pointer \in Pointer /\ Active = pointer.active /\ Active \in Ids
           /\ pointer = NoId => Active = NoId /\ Protected = {}
BY StoreAssumption DEF TypeOK, Active, Pointer, Protected

\* The pointer that a selection of g writes names g and, besides g, only what
\* was protected before; what was active stays protected.
LEMMA NextPointerFact ==
    ASSUME TypeOK, NEW g \in Ids
    PROVE  /\ NextPointer(g) \in Pointer
           /\ NextPointer(g) # NoId
           /\ NextPointer(g).active = g
           /\ NextPointer(g).previous # g
           /\ NextPointer(g).previous # NoId => NextPointer(g).previous \in Protected
           /\ Active # NoId => Active \in {NextPointer(g).active, NextPointer(g).previous}
<1>1. CASE pointer = NoId
  BY <1>1, StoreAssumption DEF TypeOK, NextPointer, Active, Pointer
<1>2. CASE pointer # NoId
  <2>1. pointer \in Pointer /\ pointer.active # pointer.previous /\ Active = pointer.active
    BY <1>2 DEF TypeOK, Active
  <2>2. NextPointer(g) \in Pointer
    BY <2>1 DEF NextPointer, Pointer
  <2>3. QED
    BY <1>2, <2>1, <2>2, StoreAssumption DEF NextPointer, Protected, Pointer
<1>3. QED
  BY <1>1, <1>2

(***************************************************************************)
(* Types.                                                                  *)
(***************************************************************************)

LEMMA TypeInit == Init => TypeOK
<1> SUFFICES ASSUME Init PROVE TypeOK
  OBVIOUS
<1>1. 0 \in 0 .. MaxHolders
  BY StoreAssumption
<1>2. QED
  BY <1>1 DEF Init, TypeOK, Positions

\* What a command has a target for is an id from the point on where the
\* store is changed with it.
LEMMA TargetType ==
    ASSUME IInv, NEW c \in Commands, pc[c] \in {"prepared", "installed", "synced"}
    PROVE  target[c] \in Ids
BY DEF IInv, TypeOK, WorkInv, WorkSurvives

LEMMA CommandTypeStep ==
    ASSUME IInv, NEW c \in Commands, CommandNext(c)
    PROVE  TypeOK'
<1> USE StoreAssumption DEF IInv, TypeOK, Positions, Step
<1>1. ASSUME NEW what \in {"publish", "activate", "rollback", "prune"}, NEW g \in Ids \cup {NoId}, Request(c, what, g)
      PROVE  TypeOK'
  BY <1>1, ActiveType DEF Request, objectVars, durableVars, lockVars, pruneVars, readerVars
<1>2. CASE Enter(c)
  BY <1>2 DEF Enter, objectVars, durableVars, requestVars, pruneVars, readerVars
<1>3. CASE Stage(c)
  BY <1>3 DEF Stage, durableVars, lockVars, requestVars, pruneVars, readerVars
<1>4. CASE Prepare(c)
  BY <1>4 DEF Prepare, objectVars, durableVars, lockVars, requestVars, pruneVars, readerVars
<1>5. CASE Choose(c)
  <2>1. target' \in [Commands -> Ids \cup {NoId}]
    BY <1>5 DEF Choose, Pointer
  <2>2. QED
    BY <1>5, <2>1 DEF Choose, objectVars, durableVars, lockVars, pruneVars, readerVars
<1>6. CASE Install(c)
  <2>1. target[c] \in Ids
    BY <1>6, TargetType DEF Install
  <2>2. QED
    BY <1>6, <2>1 DEF Install, lockVars, requestVars, pruneVars, readerVars
<1>7. CASE Barrier(c)
  BY <1>7 DEF Barrier, objectVars, lockVars, requestVars, pruneVars, readerVars
<1>8. CASE Replace(c)
  <2>1. target[c] \in Ids
    BY <1>8, TargetType DEF Replace
  <2>2. pointer' \in Pointer /\ pointer'.active # pointer'.previous
    BY <1>8, <2>1, NextPointerFact DEF Replace
  <2>3. QED
    BY <1>8, <2>2 DEF Replace, requestVars, pruneVars, readerVars
<1>9. CASE SyncPointer(c)
  BY <1>9 DEF SyncPointer, objectVars, requestVars, pruneVars, readerVars
<1>10. CASE Abort(c)
  BY <1>10 DEF Abort, durableVars, requestVars, pruneVars, readerVars
<1>11. CASE Survey(c)
  <2>1. doomed' \in [Commands -> SUBSET Ids]
    BY <1>11 DEF Survey
  <2>2. staging' \subseteq Commands /\ observed' \in [Commands -> Pointer \cup {NoId}] /\ pc' \in [Commands -> Positions]
    BY <1>11 DEF Survey
  <2>3. QED
    BY <1>11, <2>1, <2>2 DEF Survey, durableVars, lockVars, requestVars, readerVars
<1>12. CASE Finish(c)
  BY <1>12 DEF Finish, durableVars, requestVars, readerVars
<1>13. CASE Kill(c)
  BY <1>13 DEF Kill, objectVars, durableVars, requestVars, readerVars
<1>14. ASSUME NEW g \in Ids, Remove(c, g) PROVE TypeOK'
  <2>1. markers' \subseteq Readers
    BY <1>14 DEF Remove, Stale
  <2>2. objects' \subseteq Ids /\ unsynced' \subseteq Ids /\ doomed' \in [Commands -> SUBSET Ids]
    BY <1>14 DEF Remove
  <2>3. QED
    BY <1>14, <2>1, <2>2 DEF Remove, lockVars, requestVars
<1>15. ASSUME NEW g \in Ids, Spare(c, g) PROVE TypeOK'
  BY <1>15 DEF Spare, objectVars, durableVars, lockVars, requestVars, readerVars
<1>16. QED
  BY <1>1, <1>2, <1>3, <1>4, <1>5, <1>6, <1>7, <1>8, <1>9, <1>10, <1>11, <1>12, <1>13, <1>14, <1>15 DEF CommandNext

\* A reader touches nothing but leases.
LEMMA ReaderFrame ==
    ASSUME NEW r \in Readers, ReaderNext(r)
    PROVE  UNCHANGED <<objectVars, durableVars, lockVars, commandVars>>
BY DEF ReaderNext, Ask, Pin, Refuse, Fork, Release, CleanMarker, KillReader

\* A command touches no lease, retention apart, which unlinks stale markers.
LEMMA CommandFrame ==
    ASSUME NEW c \in Commands, CommandNext(c)
    PROVE  /\ UNCHANGED <<reader, wanted, leased, holders, leaving>>
           /\ markers' = markers \/ \E g \in Ids : Remove(c, g)
BY DEF CommandNext, Request, Enter, Stage, Prepare, Choose, Install, Barrier, Replace, SyncPointer, Abort,
       Survey, Finish, Kill, Remove, Spare, readerVars

ReaderTypes ==
    /\ reader \in [Readers -> {"new", "asking", "reading", "refused"}]
    /\ wanted \in [Readers -> Ids \cup {NoId}] /\ leased \in [Readers -> Ids \cup {NoId}]
    /\ holders \in [Readers -> 0 .. MaxHolders] /\ leaving \in [Readers -> 0 .. MaxHolders]
    /\ markers \subseteq Readers

\* A reader's step keeps the types and the account of who shares its lease.
LEMMA ReaderStep ==
    ASSUME IInv, NEW r \in Readers, ReaderNext(r)
    PROVE  ReaderTypes' /\ LeaseInv'
<1> USE StoreAssumption DEF IInv, TypeOK, ReaderTypes, LeaseInv, Locked, askVars
<1>1. ASSUME NEW g \in Ids \cup {NoId}, Ask(r, g) PROVE ReaderTypes' /\ LeaseInv'
  BY <1>1 DEF Ask
<1>2. CASE Pin(r)
  <2>1. SelectedBy(r) \in Ids
    BY <1>2 DEF Pin
  <2>2. QED
    BY <1>2, <2>1 DEF Pin
<1>3. CASE Refuse(r)
  BY <1>3 DEF Refuse
<1>4. CASE Fork(r)
  BY <1>4 DEF Fork
<1>5. CASE Release(r)
  BY <1>5 DEF Release
<1>6. CASE CleanMarker(r)
  BY <1>6 DEF CleanMarker
<1>7. CASE KillReader(r)
  <2>1. CASE holders[r] > 0 /\ holders' = [holders EXCEPT ![r] = @ - 1] /\ leaving' = leaving
    BY <1>7, <2>1 DEF KillReader
  <2>2. CASE leaving[r] > 0 /\ leaving' = [leaving EXCEPT ![r] = @ - 1] /\ holders' = holders
    BY <1>7, <2>2 DEF KillReader
  <2>3. QED
    BY <1>7, <2>1, <2>2 DEF KillReader
<1>8. QED
  BY <1>1, <1>2, <1>3, <1>4, <1>5, <1>6, <1>7 DEF ReaderNext

LEMMA TypeStep == IInv /\ [Next]_vars => TypeOK'
<1> SUFFICES ASSUME IInv, [Next]_vars PROVE TypeOK'
  OBVIOUS
<1>1. ASSUME NEW c \in Commands, CommandNext(c) PROVE TypeOK'
  BY <1>1, CommandTypeStep
<1>2. ASSUME NEW r \in Readers, ReaderNext(r) PROVE TypeOK'
  <2>1. ReaderTypes'
    BY <1>2, ReaderStep
  <2>2. UNCHANGED <<objectVars, durableVars, lockVars, commandVars>>
    BY <1>2, ReaderFrame
  <2>3. QED
    BY <2>1, <2>2 DEF IInv, TypeOK, ReaderTypes, objectVars, durableVars, lockVars, commandVars
<1>3. CASE UNCHANGED vars
  BY <1>3 DEF IInv, TypeOK, vars, objectVars, durableVars, lockVars, commandVars, readerVars
<1>4. QED
  BY <1>1, <1>2, <1>3 DEF Next

(***************************************************************************)
(* Who holds the lock.                                                     *)
(***************************************************************************)

\* No two commands are past .writer.lock.
LEMMA Alone ==
    ASSUME IInv, NEW c \in Commands, NEW d \in Commands,
           pc[c] \in UnderWriterLock, pc[d] \in UnderWriterLock
    PROVE  c = d
BY DEF IInv, WriterInv

LEMMA WriterStep ==
    ASSUME IInv, NEW c \in Commands, CommandNext(c)
    PROVE  WriterInv'
<1> USE StoreAssumption DEF IInv, TypeOK, WriterInv, UnderWriterLock, Step
<1>1. CASE Enter(c)
  BY <1>1 DEF Enter
<1>2. CASE Finish(c)
  BY <1>2 DEF Finish
<1>3. CASE Abort(c) \/ Kill(c)
  BY <1>3 DEF Abort, Kill
<1>4. CASE \/ \E what \in {"publish", "activate"}, g \in Ids : Request(c, what, g)
           \/ \E what \in {"rollback", "prune"} : Request(c, what, NoId)
           \/ Stage(c) \/ Prepare(c) \/ Choose(c) \/ Install(c) \/ Barrier(c) \/ Replace(c) \/ SyncPointer(c)
           \/ Survey(c) \/ \E g \in Ids : Remove(c, g) \/ Spare(c, g)
  <2>1. writerLock' = writerLock
    BY <1>4 DEF Request, Stage, Prepare, Choose, Install, Barrier, Replace, SyncPointer, Survey, Remove, Spare, lockVars
  <2>2. \A d \in Commands : pc'[d] \in UnderWriterLock => pc[d] \in UnderWriterLock
    BY <1>4 DEF Request, Stage, Prepare, Choose, Install, Barrier, Replace, SyncPointer, Survey, Remove, Spare
  <2>3. QED
    BY <2>1, <2>2
<1>5. QED
  BY <1>1, <1>2, <1>3, <1>4 DEF CommandNext

(***************************************************************************)
(* What a command works on.                                                *)
(***************************************************************************)

LEMMA WorkStep ==
    ASSUME IInv, NEW c \in Commands, CommandNext(c)
    PROVE  WorkSurvives' /\ WorkInv'
<1> USE StoreAssumption DEF WorkSurvives, WorkInv, Step
<1>1. ASSUME NEW what \in {"publish", "activate", "rollback", "prune"}, NEW g \in Ids \cup {NoId},
             what \in {"publish", "activate"} => g \in Ids, Request(c, what, g)
      PROVE  WorkSurvives' /\ WorkInv'
  BY <1>1 DEF IInv, TypeOK, Request, Active, objectVars, durableVars
<1>2. CASE Enter(c)
  BY <1>2 DEF IInv, TypeOK, Enter, Active, objectVars, durableVars, requestVars
<1>3. CASE Stage(c)
  BY <1>3 DEF IInv, TypeOK, Stage, Active, durableVars, requestVars
<1>4. CASE Prepare(c)
  BY <1>4 DEF IInv, TypeOK, Prepare, Active, objectVars, durableVars, requestVars
<1>5. CASE Choose(c)
  BY <1>5 DEF IInv, TypeOK, Choose, Active, objectVars, durableVars
<1>6. CASE Install(c)
  <2>1. pc[c] \in UnderWriterLock
    BY <1>6 DEF Install, UnderWriterLock
  <2>2. \A d \in Commands : d # c => pc[d] \notin {"staged", "prepared", "installed", "synced"}
    BY <2>1, Alone DEF UnderWriterLock
  <2>3. QED
    BY <1>6, <2>2 DEF IInv, TypeOK, Install, Active, requestVars
<1>7. CASE Barrier(c)
  BY <1>7 DEF IInv, TypeOK, Barrier, Active, objectVars, requestVars
<1>8. CASE Replace(c)
  <2>1. pc[c] \in UnderWriterLock
    BY <1>8 DEF Replace, UnderWriterLock
  <2>2. \A d \in Commands : d # c => pc[d] \notin {"staged", "prepared", "installed", "synced"}
    BY <2>1, Alone DEF UnderWriterLock
  <2>3. QED
    BY <1>8, <2>2 DEF IInv, TypeOK, Replace, requestVars
<1>9. CASE SyncPointer(c)
  BY <1>9 DEF IInv, TypeOK, SyncPointer, Active, objectVars, requestVars
<1>10. CASE Abort(c)
  BY <1>10 DEF IInv, TypeOK, Abort, Active, durableVars, requestVars
<1>11. CASE Survey(c)
  <2>1. pc[c] \in UnderWriterLock
    BY <1>11 DEF Survey, UnderWriterLock
  <2>2. \A d \in Commands : d # c => pc[d] \notin {"staged", "prepared", "installed", "synced"}
    BY <2>1, Alone DEF UnderWriterLock
  <2>3. QED
    BY <1>11, <2>2 DEF IInv, TypeOK, Survey, Active, durableVars, requestVars
<1>12. CASE Finish(c)
  <2>1. pc[c] \in UnderWriterLock
    BY <1>12 DEF Finish, UnderWriterLock
  <2>2. \A d \in Commands : d # c => pc[d] \notin {"staged", "prepared", "installed", "synced"}
    BY <2>1, Alone DEF UnderWriterLock
  <2>3. QED
    BY <1>12, <2>2 DEF IInv, TypeOK, Finish, Active, durableVars, requestVars
<1>13. CASE Kill(c)
  BY <1>13 DEF IInv, TypeOK, Kill, Active, objectVars, durableVars, requestVars
<1>14. ASSUME NEW g \in Ids, Remove(c, g) PROVE WorkSurvives' /\ WorkInv'
  <2>1. pc[c] \in UnderWriterLock /\ pc[c] = "retaining"
    BY <1>14 DEF Remove, UnderWriterLock
  <2>2. \A d \in Commands : pc[d] \notin {"staged", "prepared", "installed", "synced"}
    BY <2>1, Alone DEF UnderWriterLock
  <2>3. QED
    BY <1>14, <2>2 DEF IInv, TypeOK, Remove, Active, requestVars
<1>15. ASSUME NEW g \in Ids, Spare(c, g) PROVE WorkSurvives' /\ WorkInv'
  BY <1>15 DEF IInv, TypeOK, Spare, Active, objectVars, durableVars, requestVars
<1>16. QED
  BY <1>1, <1>2, <1>3, <1>4, <1>5, <1>6, <1>7, <1>8, <1>9, <1>10, <1>11, <1>12, <1>13, <1>14, <1>15 DEF CommandNext

(***************************************************************************)
(* Leases.                                                                 *)
(***************************************************************************)

LEMMA LeaseStep ==
    ASSUME IInv, NEW c \in Commands, CommandNext(c)
    PROVE  LeaseInv' /\ LeasedObjectStays'
<1>1. UNCHANGED <<reader, wanted, leased, holders, leaving>>
  BY CommandFrame
<1>2. CASE \E g \in Ids : Remove(c, g)
  <2>1. PICK g \in Ids : Remove(c, g)
    BY <1>2
  <2>2. LeaseInv'
    BY <1>1, <2>1 DEF IInv, LeaseInv, Locked, Remove, Stale
  <2>3. LeasedObjectStays'
    BY <1>1, <2>1 DEF IInv, LeaseInv, LeasedObjectStays, Locked, Remove, HasReaders
  <2>4. QED
    BY <2>2, <2>3
<1>3. CASE \A g \in Ids : ~Remove(c, g)
  <2>1. markers' = markers
    BY <1>3, CommandFrame
  <2>2. objects \subseteq objects'
    BY <1>3 DEF CommandNext, Request, Enter, Stage, Prepare, Choose, Install, Barrier, Replace, SyncPointer, Abort,
                Survey, Finish, Kill, Spare, objectVars
  <2>3. QED
    BY <1>1, <2>1, <2>2 DEF IInv, LeaseInv, LeasedObjectStays, Locked
<1>4. QED
  BY <1>2, <1>3

\* A reader is admitted only to an object that is there.
LEMMA ReaderLeaseStep ==
    ASSUME IInv, NEW r \in Readers, ReaderNext(r)
    PROVE  LeasedObjectStays'
<1> USE StoreAssumption DEF IInv, TypeOK, LeasedObjectStays, Locked, askVars
<1>1. UNCHANGED objects
  BY ReaderFrame DEF objectVars
<1>2. CASE Pin(r)
  BY <1>1, <1>2 DEF Pin
<1>3. CASE \/ \E g \in Ids \cup {NoId} : Ask(r, g)
           \/ Refuse(r) \/ Fork(r) \/ Release(r) \/ CleanMarker(r) \/ KillReader(r)
  <2>1. \A q \in Readers : holders'[q] > 0 => holders[q] > 0
    BY <1>3 DEF Ask, Refuse, Fork, Release, CleanMarker, KillReader
  <2>2. leased' = leased
    BY <1>3 DEF Ask, Refuse, Fork, Release, CleanMarker, KillReader
  <2>3. QED
    BY <1>1, <2>1, <2>2
<1>4. QED
  BY <1>2, <1>3 DEF ReaderNext

(***************************************************************************)
(* What is selected.                                                       *)
(***************************************************************************)

LEMMA DoomedStep ==
    ASSUME IInv, NEW c \in Commands, CommandNext(c)
    PROVE  DoomedInv'
<1> USE DEF IInv, TypeOK, DoomedInv
<1>1. CASE Survey(c)
  <2>1. /\ observed' = [observed EXCEPT ![c] = pointer]
        /\ doomed'[c] \cap Protected = {} /\ NoId \notin doomed'[c]
        /\ \A d \in Commands \ {c} : doomed'[d] = doomed[d]
    BY <1>1, StoreAssumption DEF Survey
  <2>2. pointer # NoId => Protected = {pointer.active, pointer.previous} \ {NoId}
    BY DEF Protected
  <2>3. QED
    BY <2>1, <2>2
<1>2. ASSUME NEW g \in Ids, Remove(c, g) \/ Spare(c, g) PROVE DoomedInv'
  BY <1>2 DEF Remove, Spare
<1>3. CASE Finish(c) \/ Kill(c)
  BY <1>3 DEF Finish, Kill
<1>4. CASE \/ \E what \in {"publish", "activate"}, g \in Ids : Request(c, what, g)
           \/ \E what \in {"rollback", "prune"} : Request(c, what, NoId)
           \/ Enter(c) \/ Stage(c) \/ Prepare(c) \/ Choose(c) \/ Install(c) \/ Barrier(c)
           \/ Replace(c) \/ SyncPointer(c) \/ Abort(c)
  BY <1>4 DEF Request, Enter, Stage, Prepare, Choose, Install, Barrier, Replace, SyncPointer, Abort, pruneVars
<1>5. QED
  BY <1>1, <1>2, <1>3, <1>4 DEF CommandNext

\* What the code protects is complete and synced after every step of a command.
LEMMA ProtectedStep ==
    ASSUME IInv, NEW c \in Commands, CommandNext(c)
    PROVE  ProtectedInv'
<1> USE DEF IInv, ProtectedInv
<1>1. CASE Install(c)
  BY <1>1 DEF Install, Protected
<1>2. CASE Barrier(c)
  BY <1>2 DEF Barrier, Protected, objectVars
<1>3. CASE Replace(c)
  <2>1. target[c] \in objects \ unsynced /\ target[c] \in Ids
    BY <1>3, TargetType DEF Replace, Step, WorkSurvives, WorkInv
  <2>2. Protected' \subseteq {target[c]} \cup Protected
    BY <1>3, <2>1, NextPointerFact DEF Replace, Protected
  <2>3. QED
    BY <1>3, <2>1, <2>2 DEF Replace
<1>4. ASSUME NEW g \in Ids, Remove(c, g), ~HasReaders(g) PROVE ProtectedInv'
  <2>1. g \in doomed[c] /\ pointer = observed[c] /\ objects' = objects \ {g} /\ unsynced' = {} /\ pointer' = pointer
    BY <1>4 DEF Remove
  <2>2. g \notin Protected
    BY <2>1 DEF DoomedInv, Protected
  <2>3. QED
    BY <2>1, <2>2 DEF Protected
<1>5. ASSUME NEW g \in Ids, Remove(c, g), HasReaders(g) PROVE ProtectedInv'
  BY <1>5 DEF Remove, Protected
<1>6. CASE \/ \E what \in {"publish", "activate"}, g \in Ids : Request(c, what, g)
           \/ \E what \in {"rollback", "prune"} : Request(c, what, NoId)
           \/ Enter(c) \/ Stage(c) \/ Prepare(c) \/ Choose(c) \/ SyncPointer(c) \/ Abort(c)
           \/ Survey(c) \/ Finish(c) \/ Kill(c) \/ \E g \in Ids : Spare(c, g)
  <2>1. UNCHANGED <<objects, pointer, unsynced>>
    BY <1>6 DEF Request, Enter, Stage, Prepare, Choose, SyncPointer, Abort, Survey, Finish, Kill, Spare,
                objectVars, durableVars
  <2>2. QED
    BY <2>1 DEF Protected
<1>7. QED
  BY <1>1, <1>2, <1>3, <1>4, <1>5, <1>6 DEF CommandNext

\* A replacement leaves one more pointer on the disk, and protects what the
\* one before had selected.
LEMMA LastTwoStep ==
    ASSUME IInv, NEW c \in Commands, CommandNext(c)
    PROVE  LastTwoInv'
<1> USE DEF IInv, LastTwoInv
<1>1. CASE Replace(c)
  <2>1. target[c] \in Ids
    BY <1>1, TargetType DEF Replace, Step
  <2>2. pointer' = NextPointer(target[c]) /\ onDisk' = onDisk \cup {pointer'}
    BY <1>1 DEF Replace
  <2>3. pointer' # NoId /\ Protected' = {pointer'.active, pointer'.previous} \ {NoId} /\ pointer'.active \in Ids
    BY <2>1, <2>2, NextPointerFact DEF Protected, Pointer
  <2>4. ASSUME NEW p \in onDisk' \ {NoId}, onDisk' \subseteq {NoId, pointer', p} PROVE p.active \in Protected'
    <3>1. CASE p = pointer'
      BY <2>3, <3>1, StoreAssumption
    <3>2. CASE p # pointer' /\ pointer = p
      <4>1. p.active = Active /\ Active \in Ids /\ Active # NoId
        BY <2>4, <3>2, ActiveType, StoreAssumption
      <4>2. QED
        BY <2>1, <2>2, <2>3, <4>1, NextPointerFact
    <3>3. CASE p # pointer' /\ pointer = pointer'
      <4>1. p \in onDisk \ {NoId} /\ onDisk \subseteq {NoId, pointer, p}
        BY <2>2, <2>4, <3>3
      <4>2. Protected' = Protected
        BY <3>3 DEF Protected
      <4>3. QED
        BY <4>1, <4>2
    <3>4. CASE p # pointer' /\ pointer = NoId
      BY <2>2, <2>4, <3>4
    <3>5. QED
      BY <2>2, <2>4, <3>1, <3>2, <3>3, <3>4 DEF TypeOK
  <2>5. QED
    BY <2>3, <2>4
<1>2. CASE SyncPointer(c)
  <2>1. pointer' = pointer /\ Protected' = Protected
    BY <1>2 DEF SyncPointer, objectVars, Protected
  <2>2. CASE onDisk' = onDisk
    BY <2>1, <2>2
  <2>3. CASE onDisk' = {pointer}
    BY <2>1, <2>3, ActiveType, StoreAssumption DEF Protected
  <2>4. QED
    BY <1>2, <2>2, <2>3 DEF SyncPointer
<1>3. CASE \/ \E what \in {"publish", "activate"}, g \in Ids : Request(c, what, g)
           \/ \E what \in {"rollback", "prune"} : Request(c, what, NoId)
           \/ Enter(c) \/ Stage(c) \/ Prepare(c) \/ Choose(c) \/ Install(c) \/ Barrier(c) \/ Abort(c)
           \/ Survey(c) \/ Finish(c) \/ Kill(c) \/ \E g \in Ids : Remove(c, g) \/ Spare(c, g)
  <2>1. UNCHANGED <<pointer, onDisk>>
    BY <1>3 DEF Request, Enter, Stage, Prepare, Choose, Install, Barrier, Abort, Survey, Finish, Kill, Remove, Spare,
                objectVars, durableVars
  <2>2. QED
    BY <2>1 DEF Protected
<1>4. QED
  BY <1>1, <1>2, <1>3 DEF CommandNext

(***************************************************************************)
(* The inductive invariant holds.                                          *)
(***************************************************************************)

LEMMA InvInit == Init => IInv
<1> SUFFICES ASSUME Init PROVE IInv
  OBVIOUS
<1>1. TypeOK
  BY TypeInit
<1>2. WriterInv /\ WorkSurvives /\ WorkInv /\ DoomedInv /\ ProtectedInv /\ LastTwoInv
  BY DEF Init, WriterInv, WorkSurvives, WorkInv, DoomedInv, ProtectedInv, LastTwoInv, Protected, UnderWriterLock
<1>3. LeaseInv /\ LeasedObjectStays
  BY StoreAssumption DEF Init, LeaseInv, LeasedObjectStays, Locked
<1>4. QED
  BY <1>1, <1>2, <1>3 DEF IInv

LEMMA InvStep == IInv /\ [Next]_vars => IInv'
<1> SUFFICES ASSUME IInv, [Next]_vars PROVE IInv'
  OBVIOUS
<1>1. TypeOK'
  BY TypeStep
<1>2. ASSUME NEW c \in Commands, CommandNext(c) PROVE IInv'
  BY <1>1, <1>2, WriterStep, WorkStep, LeaseStep, DoomedStep, ProtectedStep, LastTwoStep DEF IInv
<1>3. ASSUME NEW r \in Readers, ReaderNext(r) PROVE IInv'
  <2>1. LeaseInv' /\ LeasedObjectStays'
    BY <1>3, ReaderStep, ReaderLeaseStep
  <2>2. UNCHANGED <<objectVars, durableVars, lockVars, commandVars>>
    BY <1>3, ReaderFrame
  <2>3. QED
    BY <1>1, <2>1, <2>2 DEF IInv, WriterInv, WorkSurvives, WorkInv, DoomedInv, ProtectedInv, LastTwoInv, Protected,
                            Active, objectVars, durableVars, lockVars, commandVars
<1>4. CASE UNCHANGED vars
  BY <1>1, <1>4 DEF IInv, WriterInv, WorkSurvives, WorkInv, LeaseInv, LeasedObjectStays, Locked, DoomedInv, ProtectedInv,
                    LastTwoInv, Protected, Active, vars, objectVars, durableVars, lockVars, commandVars, readerVars
<1>5. QED
  BY <1>2, <1>3, <1>4 DEF Next

(***************************************************************************)
(* The abstract store.                                                     *)
(***************************************************************************)

\* What the abstract store sees of the readers.
PinMap == [r \in Readers |-> IF Locked(r) THEN leased[r] ELSE NoId]

\* A step of a command is an Add, a Select, a Drop or nothing.
LEMMA CommandRefines ==
    ASSUME IInv, NEW c \in Commands, CommandNext(c)
    PROVE  Retained!StoreNext \/ UNCHANGED <<objects, pointer, PinMap>>
<1> USE DEF IInv
<1>1. PinMap' = PinMap
  BY CommandFrame DEF PinMap, Locked
<1>2. CASE Install(c)
  <2>1. target[c] \in Ids /\ objects' = objects \cup {target[c]} /\ pointer' = pointer
    BY <1>2, TargetType DEF Install, Step
  <2>2. Retained!Add(target[c])
    BY <1>1, <2>1 DEF Retained!Add, PinMap
  <2>3. QED
    BY <2>1, <2>2 DEF Retained!StoreNext
<1>3. CASE Replace(c)
  <2>1. target[c] \in objects /\ target[c] \in Ids
    BY <1>3, TargetType DEF Replace, Step, WorkSurvives
  <2>2. NextPointer(target[c]) =
            IF pointer = NoId THEN [active |-> target[c], previous |-> NoId]
            ELSE IF pointer.active = target[c] THEN pointer
            ELSE [active |-> target[c], previous |-> pointer.active]
    <3>1. CASE pointer = NoId
      BY <2>1, <3>1, StoreAssumption DEF NextPointer, Active
    <3>2. CASE pointer # NoId
      BY <2>1, <3>2, ActiveType DEF NextPointer, Pointer
    <3>3. QED
      BY <3>1, <3>2
  <2>3. Retained!Select(target[c])
    BY <1>1, <1>3, <2>1, <2>2 DEF Replace, Retained!Select, PinMap
  <2>4. QED
    BY <2>1, <2>3 DEF Retained!StoreNext
<1>4. ASSUME NEW g \in Ids, Remove(c, g), ~HasReaders(g), g \in objects
      PROVE  Retained!StoreNext
  <2>1. g \in doomed[c] /\ pointer = observed[c] /\ objects' = objects \ {g} /\ pointer' = pointer
    BY <1>4 DEF Remove
  <2>2. g \notin Retained!Selected
    BY <2>1 DEF DoomedInv, Retained!Selected
  <2>3. \A r \in Readers : PinMap[r] # g
    BY <1>4, StoreAssumption DEF PinMap, HasReaders, LeaseInv
  <2>4. Retained!Drop(g)
    BY <1>1, <1>4, <2>1, <2>2, <2>3 DEF Retained!Drop, Retained!Pinned, PinMap
  <2>5. QED
    BY <2>4 DEF Retained!StoreNext
<1>5. ASSUME NEW g \in Ids, Remove(c, g), HasReaders(g) \/ g \notin objects
      PROVE  UNCHANGED <<objects, pointer>>
  BY <1>5 DEF Remove
<1>6. CASE \/ \E what \in {"publish", "activate"}, g \in Ids : Request(c, what, g)
           \/ \E what \in {"rollback", "prune"} : Request(c, what, NoId)
           \/ Enter(c) \/ Stage(c) \/ Prepare(c) \/ Choose(c) \/ Barrier(c) \/ SyncPointer(c) \/ Abort(c)
           \/ Survey(c) \/ Finish(c) \/ Kill(c) \/ \E g \in Ids : Spare(c, g)
  BY <1>1, <1>6 DEF Request, Enter, Stage, Prepare, Choose, Barrier, SyncPointer, Abort, Survey, Finish, Kill, Spare, objectVars
<1>7. QED
  BY <1>1, <1>2, <1>3, <1>4, <1>5, <1>6 DEF CommandNext

\* A step of a reader is a Pin, an Unpin or nothing.
LEMMA ReaderRefines ==
    ASSUME IInv, NEW r \in Readers, ReaderNext(r)
    PROVE  Retained!StoreNext \/ UNCHANGED <<objects, pointer, PinMap>>
<1> USE StoreAssumption DEF IInv, TypeOK, askVars
<1>1. UNCHANGED <<objects, pointer>>
  BY ReaderFrame DEF objectVars
<1>2. CASE Pin(r)
  <2>1. PICK g \in Ids : g = SelectedBy(r) /\ g \in objects
    BY <1>2 DEF Pin
  <2>2. PinMap[r] = NoId
    BY <1>2 DEF Pin, PinMap, Locked, LeaseInv
  <2>3. leased' = [leased EXCEPT ![r] = g] /\ holders' = [holders EXCEPT ![r] = 1]
    BY <1>2, <2>1 DEF Pin
  <2>4. PinMap' = [PinMap EXCEPT ![r] = g]
    <3>1. (IF Locked(r) THEN leased[r] ELSE NoId)' = g
      BY <2>3 DEF Locked
    <3>2. \A q \in Readers \ {r} : leased'[q] = leased[q] /\ holders'[q] = holders[q]
      BY <2>3
    <3>3. QED
      BY <3>1, <3>2 DEF PinMap, Locked
  <2>5. Retained!Pin(r, g)
    BY <1>1, <2>1, <2>2, <2>4 DEF Retained!Pin, PinMap
  <2>6. QED
    BY <2>5 DEF Retained!StoreNext
<1>3. CASE Release(r) \/ KillReader(r)
  <2>1. leased' = leased /\ \A q \in Readers \ {r} : holders'[q] = holders[q]
    BY <1>3 DEF Release, KillReader
  <2>2. CASE Locked(r)' = Locked(r)
    BY <1>1, <2>1, <2>2 DEF PinMap, Locked
  <2>3. CASE Locked(r)' # Locked(r)
    <3>1. ~Locked(r)'
      BY <1>3, <2>3 DEF Release, KillReader, Locked
    <3>2. PinMap' = [PinMap EXCEPT ![r] = NoId]
      BY <2>1, <3>1 DEF PinMap, Locked
    <3>3. Retained!Unpin(r)
      BY <1>1, <3>2 DEF Retained!Unpin, PinMap
    <3>4. QED
      BY <3>3 DEF Retained!StoreNext
  <2>4. QED
    BY <2>2, <2>3
<1>4. CASE \/ \E g \in Ids \cup {NoId} : Ask(r, g)
           \/ Refuse(r) \/ Fork(r) \/ CleanMarker(r)
  <2>1. leased' = leased /\ \A q \in Readers : (holders'[q] > 0) = (holders[q] > 0)
    BY <1>4 DEF Ask, Refuse, Fork, CleanMarker
  <2>2. QED
    BY <1>1, <2>1 DEF PinMap, Locked
<1>5. QED
  BY <1>2, <1>3, <1>4 DEF ReaderNext

LEMMA RetentionStep == IInv /\ [Next]_vars => [Retained!StoreNext]_(Retained!storeVars)
<1> SUFFICES ASSUME IInv, [Next]_vars PROVE Retained!StoreNext \/ UNCHANGED <<objects, pointer, PinMap>>
  BY DEF Retained!storeVars, PinMap
<1>1. CASE UNCHANGED vars
  BY <1>1 DEF PinMap, Locked, vars, objectVars, readerVars
<1>2. QED
  BY <1>1, CommandRefines, ReaderRefines DEF Next

(***************************************************************************)
(* The results.                                                            *)
(***************************************************************************)

\* The variables keep their types; the pointer never names one generation as
\* active and as previous.
THEOREM TypeCorrect == Spec => []TypeOK
<1>1. IInv => TypeOK
  BY DEF IInv
<1>2. QED
  BY <1>1, InvInit, InvStep, PTL DEF Spec

\* The protected generations are complete and synced, and of two pointers that
\* a power failure could leave each names an active generation that is.
THEOREM SelectionSafety == Spec => []SelectionIsDurable
<1>1. IInv => SelectionIsDurable
  BY DEF IInv, ProtectedInv, LastTwoInv, SelectionIsDurable
<1>2. QED
  BY <1>1, InvInit, InvStep, PTL DEF Spec

\* Nothing that a command works on or a reader leases is taken away.
THEOREM UseSafety == Spec => []WhatIsUsedStays
<1>1. IInv => WhatIsUsedStays
  BY DEF IInv, WhatIsUsedStays
<1>2. QED
  BY <1>1, InvInit, InvStep, PTL DEF Spec

\* Activate and rollback take effect on the selection the operator has seen.
THEOREM SwitchSafety == Spec => SwitchedAsExpected
<1>1. IInv /\ [Next]_vars =>
        [\A c \in Commands :
            pc[c] = "synced" /\ pc'[c] = "replaced" /\ op[c] \in {"activate", "rollback"} => Active = expected[c]]_vars
  BY DEF IInv, WorkInv
<1>2. QED
  BY <1>1, InvInit, InvStep, PTL DEF Spec, SwitchedAsExpected

\* The store implements RetainedStore.
THEOREM Refinement == Spec => ImplementsRetention
<1>1. Init => Retained!StoreInit
  BY DEF Init, Retained!StoreInit, Locked
<1>2. QED
  BY <1>1, InvInit, InvStep, RetentionStep, PTL DEF Spec, ImplementsRetention, Retained!RetentionSpec

=============================================================================
