------------------------------ MODULE Bootstrap ------------------------------
(***************************************************************************)
(* How the root of a generation store comes to be: hosted servers that     *)
(* start, of which the first one seeds an absent root (interfaces/hosted.py*)
(* and bootstrap_bundle of services/generations.py), beside publishers     *)
(* (ingest, migrate, import) that initialize the root when they need it.   *)
(*                                                                         *)
(* A server may seed only the directory that it has made itself and that   *)
(* nobody has selected a generation in; every other root is served as it   *)
(* is, or refused.  Processes may be killed at every step and restarted;   *)
(* until a process is past its last look at the root, another directory    *)
(* may take the place of the one that it has looked at.                    *)
(*                                                                         *)
(* Abstracted: preparation, inspection and synchronization of what is      *)
(* published may fail, and are otherwise a step (module Generations); the  *)
(* directories made in the place of the root are numbered.  A process      *)
(* locks the file of the directory that is there when it gets the lock:    *)
(* that it may still wait for a lock of the one before is left out.        *)
(***************************************************************************)
EXTENDS Naturals

CONSTANTS
    Servers, Publishers,
    Seed,           \* the generation in the image
    Imports,        \* the generations that publishers bring
    NoId, Nobody,
    MaxRoots        \* bound: directories that ever stand in the root's place

BootstrapAssumption ==
    /\ Servers \cap Publishers = {} /\ Nobody \notin Servers \cup Publishers
    /\ NoId \notin Imports \cup {Seed}
    /\ MaxRoots \in Nat \ {0}

Processes == Servers \cup Publishers

VARIABLES
    root,           \* the directory in the root's place, 0: none
    owned,          \* owner.json is in it
    interrupted,    \* a temporary owner record is in it
    furnished,      \* its managed directories are there
    strange,        \* what it holds that is not of a store in the making
    pointer,        \* active.json
    publishLock, writerLock,
    at,             \* position of each process
    mine,           \* the directory a server has made, 0: none
    served          \* what a server has pinned

vars == <<root, owned, interrupted, furnished, strange, pointer, publishLock, writerLock, at, mine, served>>

TypeOK ==
    /\ root \in 0..MaxRoots
    /\ {owned, interrupted, furnished} \subseteq BOOLEAN
    /\ strange \subseteq {"foreign", ".writer.lock"}
    /\ pointer \in Imports \cup {Seed, NoId}
    /\ {publishLock, writerLock} \subseteq Processes \cup {Nobody}
    /\ at \in [Processes -> {"new", "absent", "inspected", "admitting", "locking", "owning", "adopting", "furnishing",
                             "waiting", "entering", "entered", "publishing", "pinning", "reading", "serving",
                             "done", "refused", "failed", "dead"}]
    /\ mine \in [Servers -> 0..MaxRoots]
    /\ served \in [Servers -> Imports \cup {Seed, NoId}]

\* No root, an empty or a foreign directory, or a store that an earlier
\* command left with or without a selection.
Init ==
    /\ \/ root = 0 /\ strange = {} /\ owned = FALSE /\ pointer = NoId
       \/ root = 1 /\ strange \in {{}, {"foreign"}} /\ owned = FALSE /\ pointer = NoId
       \/ root = 1 /\ strange = {} /\ owned = TRUE /\ pointer \in Imports \cup {NoId}
    /\ furnished = owned /\ interrupted = FALSE
    /\ publishLock = Nobody /\ writerLock = Nobody
    /\ at = [p \in Processes |-> "new"]
    /\ mine = [s \in Servers |-> 0]
    /\ served = [s \in Servers |-> NoId]

Goto(p, from, to) == at[p] = from /\ at' = [at EXCEPT ![p] = to]

storeVars == <<owned, interrupted, furnished, strange, pointer>>
lockVars == <<publishLock, writerLock>>
serverVars == <<mine, served>>

-----------------------------------------------------------------------------
(* A server before it is admitted.                                         *)

\* prepare_hosted_generation: an existing root is served as it is, or not.
LookForRoot(s) ==
    /\ Goto(s, "new", IF root = 0 THEN "absent" ELSE "pinning")
    /\ UNCHANGED <<root, storeVars, lockVars, serverVars>>

\* bootstrap_bundle: while there is no root the bundle is read and inspected in
\* a directory beside it, and has to be the configured generation.
InspectSeed(s) ==
    /\ Goto(s, "absent", IF root = 0 THEN "inspected" ELSE "admitting")
    /\ UNCHANGED <<root, storeVars, lockVars, serverVars>>

\* Then the root is made, unless somebody else has done so.
MakeRoot(s) ==
    /\ Goto(s, "inspected", "admitting")
    /\ IF root = 0
       THEN root' = 1 /\ mine' = [mine EXCEPT ![s] = 1]
       ELSE UNCHANGED <<root, mine>>
    /\ UNCHANGED <<storeVars, lockVars, served>>

-----------------------------------------------------------------------------
(* Admission: _locked and _writer.  The root is looked at before a lock is *)
(* waited for, and again under it.                                         *)

\* _execute of a publisher initializes whatever root it is given; bootstrap
\* only the directory that it has made.
Initializes(p) == p \in Publishers \/ mine[p] # 0

\* Mutant of IsExpected: a directory is not identified.
IsExpectedAnyway(p) == p \in Processes

\* _require_root_identity.
IsExpected(p) == p \in Publishers \/ mine[p] \in {0, root}

\* A publisher makes a missing root, and needs no owner record in it.
Request(p) ==
    /\ p \in Publishers /\ Goto(p, "new", "locking")
    /\ root' = IF root = 0 THEN 1 ELSE root
    /\ UNCHANGED <<storeVars, lockVars, serverVars>>

\* A server, before it waits for .publish.lock: the root has to be a store of
\* ours, or the directory that it has made.
LookAtRoot(s) ==
    /\ \/ Goto(s, "admitting", IF IsExpected(s) /\ (owned \/ Initializes(s)) THEN "locking" ELSE "refused")
       \/ Goto(s, "pinning", IF owned THEN "reading" ELSE "refused")
    /\ UNCHANGED <<root, storeVars, lockVars, serverVars>>

\* Under .publish.lock: a root without an owner record gets one from whoever
\* finds it so, if there is nothing else in it.
Admitted(initialize, to) ==
    IF ~owned /\ strange # {} THEN "refused"
    ELSE IF ~owned THEN IF initialize THEN "owning" ELSE "adopting"
    ELSE IF initialize THEN "furnishing"
    ELSE IF furnished THEN to ELSE "refused"

\* Interrupted owner records leave before a new one begins.
UnderLock(p, next) ==
    /\ publishLock = Nobody
    /\ at' = [at EXCEPT ![p] = next]
    /\ publishLock' = IF next \in {"owning", "adopting", "furnishing"} THEN p ELSE Nobody
    /\ interrupted' = (interrupted \/ next \in {"owning", "adopting"})

Admit(p) ==
    /\ at[p] = "locking"
    /\ UnderLock(p, IF IsExpected(p) THEN Admitted(Initializes(p), "waiting") ELSE "refused")
    /\ UNCHANGED <<root, owned, furnished, strange, pointer, writerLock, serverVars>>

Release(p) ==
    /\ publishLock' = IF publishLock = p THEN Nobody ELSE publishLock
    /\ writerLock' = IF writerLock = p THEN Nobody ELSE writerLock

\* The owner record is linked into place.  Who did not come to initialize finds
\* no managed directories then.
Own(p) ==
    /\ at[p] \in {"owning", "adopting"}
    /\ at' = [at EXCEPT ![p] = IF at[p] = "owning" THEN "furnishing" ELSE "refused"]
    /\ owned' = TRUE /\ interrupted' = FALSE
    /\ IF at[p] = "owning" THEN UNCHANGED lockVars ELSE Release(p)
    /\ UNCHANGED <<root, furnished, strange, pointer, serverVars>>

\* The managed directories follow.
Furnish(p) ==
    /\ Goto(p, "furnishing", "waiting")
    /\ furnished' = TRUE /\ publishLock' = Nobody
    /\ UNCHANGED <<root, owned, interrupted, strange, pointer, writerLock, serverVars>>

\* _writer: .writer.lock is made where it is missing, and the root looked at.
LockWriter(p) ==
    /\ at[p] = "waiting" /\ writerLock = Nobody
    /\ strange' = IF owned THEN strange ELSE strange \cup {".writer.lock"}
    /\ IF IsExpected(p) /\ owned
       THEN writerLock' = p /\ at' = [at EXCEPT ![p] = "entering"]
       ELSE UNCHANGED writerLock /\ at' = [at EXCEPT ![p] = "refused"]
    /\ UNCHANGED <<root, owned, interrupted, furnished, pointer, publishLock, serverVars>>

\* Then it is looked at under .publish.lock, which is not kept.
Enter(p) ==
    /\ at[p] = "entering"
    /\ LET next == IF IsExpected(p) THEN Admitted(FALSE, "entered") ELSE "refused"
       IN /\ UnderLock(p, next)
          /\ writerLock' = IF writerLock = p /\ next = "refused" THEN Nobody ELSE writerLock
    /\ UNCHANGED <<root, owned, furnished, strange, pointer, serverVars>>

-----------------------------------------------------------------------------
(* Publication.                                                            *)

\* A server keeps what it finds selected, and seeds what it has made.
Decide(p) ==
    /\ at[p] = "entered"
    /\ LET next ==
            IF p \in Publishers THEN "publishing"
            ELSE IF pointer # NoId THEN "pinning"
            ELSE IF mine[p] = 0 THEN "refused"
            ELSE "publishing"
       IN /\ at' = [at EXCEPT ![p] = next]
          /\ writerLock' = IF writerLock = p /\ next # "publishing" THEN Nobody ELSE writerLock
    /\ UNCHANGED <<root, storeVars, publishLock, serverVars>>

\* _publish_bundle_inputs: active.json selects the new generation.
Select(p, g) ==
    /\ publishLock = Nobody
    /\ g \in IF p \in Servers THEN {Seed} ELSE Imports
    /\ Goto(p, "publishing", IF p \in Servers THEN "pinning" ELSE "done")
    /\ pointer' = g /\ Release(p)
    /\ UNCHANGED <<root, owned, interrupted, furnished, strange, serverVars>>

\* The selected generation is pinned and inspected, and the server starts.
Serve(s) ==
    /\ at[s] = "reading"
    /\ UnderLock(s, Admitted(FALSE, IF pointer # NoId THEN "serving" ELSE "refused"))
    /\ served' = [served EXCEPT ![s] = IF at'[s] = "serving" THEN pointer ELSE NoId]
    /\ UNCHANGED <<root, owned, furnished, strange, pointer, writerLock, mine>>

\* A step raises, or the process is killed: locks are released, files stay.
Fail(p) ==
    /\ at[p] \notin {"new", "serving", "done", "refused", "failed", "dead"}
    /\ \/ at' = [at EXCEPT ![p] = "dead"] /\ UNCHANGED interrupted
       \/ at' = [at EXCEPT ![p] = "failed"]
          /\ interrupted' = (interrupted /\ at[p] \notin {"owning", "adopting"})
    /\ Release(p)
    /\ UNCHANGED <<root, owned, furnished, strange, pointer, serverVars>>

\* The hosting platform or the operator starts it again.
Restart(p) ==
    /\ at[p] \in {"serving", "done", "refused", "failed", "dead"}
    /\ at' = [at EXCEPT ![p] = "new"]
    /\ IF p \in Servers
       THEN mine' = [mine EXCEPT ![p] = 0] /\ served' = [served EXCEPT ![p] = NoId]
       ELSE UNCHANGED serverVars
    /\ UNCHANGED <<root, storeVars, lockVars>>

\* Another directory takes the root's place, empty or with something in it; the
\* locks of the one before are not those of the new one.  Within a look under
\* a lock, and after the last one, this is outside the store's protocol.
Replace ==
    /\ root \in 1..(MaxRoots - 1)
    /\ \A p \in Processes : at[p] \notin {"owning", "adopting", "furnishing", "entered", "publishing"}
    /\ root' = root + 1
    /\ strange' \in {{}, {"foreign"}}
    /\ owned' = FALSE /\ interrupted' = FALSE /\ furnished' = FALSE /\ pointer' = NoId
    /\ writerLock' = Nobody
    /\ UNCHANGED <<publishLock, at, serverVars>>

Next ==
    \/ \E s \in Servers : LookForRoot(s) \/ InspectSeed(s) \/ MakeRoot(s) \/ LookAtRoot(s) \/ Serve(s)
    \/ \E p \in Processes :
        \/ Request(p) \/ Admit(p) \/ Own(p) \/ Furnish(p) \/ LockWriter(p) \/ Enter(p) \/ Decide(p)
        \/ Fail(p) \/ Restart(p)
        \/ \E g \in Imports \cup {Seed} : Select(p, g)
    \/ Replace

Spec == Init /\ [][Next]_vars

-----------------------------------------------------------------------------
\* bootstrap_bundle, "Seed once or preserve selection": no server replaces a
\* selection, or furnishes or seeds a directory that it has not made, whoever
\* initializes and publishes beside it.  An owner record of a server goes into
\* its own directory, or into one that has taken the place of the store that it
\* found, and then holds nothing of anybody else: _locked looks for the record
\* before it waits for the lock and writes one under it.
SeedsItsOwn ==
    \A s \in Servers : at[s] # at'[s] =>
        /\ <<furnished, pointer>> # <<furnished', pointer'>> => pointer = NoId /\ root # 0 /\ mine[s] = root
        /\ owned # owned' => pointer = NoId /\ root # 0 /\ (mine[s] = root \/ (root > 1 /\ "foreign" \notin strange))
OnlyOwnRootsAreSeeded == [][SeedsItsOwn]_vars

\* docs/hosted-beta-operations.md:186: whatever killed servers and publishers
\* leave behind, "explicitly import the verified seed" is never refused: only
\* what somebody else has put there stands against it, or a directory that has
\* been replaced.
RootsAreRecoverable ==
    /\ \A p \in Publishers : at[p] = "refused" => "foreign" \in strange \/ root > 1
    /\ pointer # NoId => owned /\ furnished
    /\ "foreign" \in strange => ~owned /\ ~interrupted

=============================================================================
