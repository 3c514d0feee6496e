---------------------------- MODULE OwnedRemoval ----------------------------
(***************************************************************************)
(* The life of one directory of the generation store of                    *)
(* services/generations.py, from the stage a publisher makes to the trash  *)
(* that a retention pass deletes, and who may delete what it holds.        *)
(*                                                                         *)
(* A stage carries the marker .owner while it is built; the marker leaves  *)
(* before the stage becomes an object.  A retention pass of any later      *)
(* command has to tell leftovers of a killed process, which it reclaims,   *)
(* from what somebody changed, which it preserves.  A process may be killed*)
(* or fail at every step; passes and publishers exclude each other under   *)
(* .writer.lock (the seed stage: under its own lock).                      *)
(*                                                                         *)
(* Abstracted: the four artifacts are a set; a file is absent, partly      *)
(* written, as it was sealed, or changed, and a changed file never fits    *)
(* the manifest; the files of a stage may be removed in any order, where   *)
(* the code sorts them.  Power failures are left out: a killed process     *)
(* loses no file operation.                                                *)
(***************************************************************************)
EXTENDS Naturals, FiniteSets

CONSTANTS
    Artifacts,      \* the files that the manifest lists
    Manifest,       \* manifest.json, whose hash is the generation id
    MaxChanges      \* bound: changes made by somebody else

ASSUME RemovalAssumption == Manifest \notin Artifacts /\ MaxChanges \in Nat

VARIABLES
    place,      \* where the directory is
    content,    \* state of each file
    marker,     \* state of .owner
    extra,      \* names the store does not know: an index build's scratch, or foreign
    step,       \* what the process at work does next
    claim,      \* why it may delete: its own stage, the marker, or proven content
    seen,       \* the files it has listed for removal
    since,      \* files changed since it began
    refused,    \* the last pass preserved the directory with a warning
    changes     \* changes made so far

removalVars == <<place, content, marker, extra, step, claim, seen, since, refused, changes>>

Files == Artifacts \cup {Manifest}

Present == {f \in Files : content[f] # "absent"}

\* _inspect: exactly the five files, agreeing with the manifest.
Whole == extra = {} /\ \A f \in Files : content[f] = "good"

Building == {"own", "owning", "fill", "ready", "unmarked"}
Reclaiming == {"sweep", "relabel", "label", "labelling", "hash", "clear", "rmdir"}

RemovalTypeOK ==
    /\ place \in {"nowhere", "staging", "seed", "object", "trash"}
    /\ content \in [Files -> {"absent", "part", "good", "changed"}]
    /\ marker \in {"none", "part", "whole", "forged", "junk"}
    /\ extra \subseteq {"scratch", "foreign"}
    /\ step \in Building \cup Reclaiming \cup {"idle", "leave"}
    /\ claim \in {"none", "identity", "marker", "content"}
    /\ seen \subseteq Files /\ since \subseteq Files
    /\ refused \in BOOLEAN /\ changes \in 0..MaxChanges

RemovalInit ==
    /\ place = "nowhere" /\ content = [f \in Files |-> "absent"]
    /\ marker = "none" /\ extra = {}
    /\ step = "idle" /\ claim = "none" /\ seen = {} /\ since = {}
    /\ refused = FALSE /\ changes = 0

Goto(from, to) == step = from /\ step' = to

treeVars == <<place, content, marker, extra>>
passVars == <<claim, seen, since, refused>>

-----------------------------------------------------------------------------
(* A publisher: _publish_stage, or _inspect_bootstrap_seed for the seed.   *)

\* The directory is made; nothing tells yet whose it is.
MakeStage(where) ==
    /\ place = "nowhere" /\ where \in {"staging", "seed"}
    /\ Goto("idle", "own")
    /\ place' = where /\ refused' = FALSE
    /\ UNCHANGED <<content, marker, extra, claim, seen, since, changes>>

\* _write of .owner: created, then filled.
WriteOwner ==
    /\ place # "trash"
    /\ \/ Goto("own", "owning") /\ marker = "none" /\ marker' = "part"
       \/ Goto("owning", "fill") /\ marker' = "whole"
    /\ UNCHANGED <<place, content, extra, passVars, changes>>

\* One file is created, then filled: in name order from a bundle, the manifest
\* last in a build.
WriteFile(f) ==
    /\ step = "fill"
    /\ \/ content[f] = "absent" /\ content' = [content EXCEPT ![f] = "part"]
       \/ content[f] = "part" /\ content' = [content EXCEPT ![f] = "good"]
    /\ UNCHANGED <<place, marker, extra, step, passVars, changes>>

\* An index is built in a scratch database beside its final name, and a copied
\* one has a journal; the seed's index is written as bytes.
Scratch ==
    /\ step = "fill" /\ place = "staging"
    /\ extra' = IF "scratch" \in extra THEN extra \ {"scratch"} ELSE extra \cup {"scratch"}
    /\ UNCHANGED <<place, content, marker, step, passVars, changes>>

\* staging_validate: an inspected stage is installed, an inspected seed has
\* served its purpose.
Seal ==
    /\ Goto("fill", IF place = "seed" THEN "leave" ELSE "ready")
    /\ Whole /\ marker \in {"whole", "none"}
    /\ UNCHANGED <<treeVars, passVars, changes>>

\* _activate: the marker leaves, then the stage becomes the object.
DropOwner ==
    /\ Goto("ready", "unmarked")
    /\ marker' = "none"
    /\ UNCHANGED <<place, content, extra, passVars, changes>>

Install ==
    /\ Goto("unmarked", "idle")
    /\ place' = "object"
    /\ UNCHANGED <<content, marker, extra, passVars, changes>>

\* A publication that fails, or whose object exists already, removes its own
\* stage: it knows the directory, and only unknown names stop it.
Abort ==
    /\ step \in Building /\ step' = "leave"
    /\ UNCHANGED <<treeVars, passVars, changes>>

LeaveStage ==
    /\ step = "leave"
    /\ IF extra = {}
       THEN step' = "sweep" /\ claim' = "identity" /\ seen' = Present /\ UNCHANGED refused
       ELSE step' = "idle" /\ refused' = TRUE /\ UNCHANGED <<claim, seen>>
    /\ UNCHANGED <<treeVars, since, changes>>

-----------------------------------------------------------------------------
(* Retention.                                                              *)

\* _remove_stage: the marker speaks for the stage, a partial one only for a
\* stage that holds nothing else and has a build name.
OwnedStage == marker = "whole" \/ (marker = "part" /\ Present = {} /\ place = "staging")

\* Without a marker a stage is removed when it is empty, with a build name, or
\* when it is a whole generation.
ProvenStage == marker = "none" /\ (Whole \/ (Present = {} /\ place = "staging"))

\* _remove_stage of a stage that somebody left: of _prune, or of the next
\* process that inspects a seed.
RemoveStage ==
    /\ place \in {"staging", "seed"} /\ step = "idle"
    /\ IF extra = {} /\ (OwnedStage \/ ProvenStage)
       THEN /\ step' = "sweep" /\ seen' = Present /\ refused' = FALSE
            /\ claim' = IF OwnedStage THEN "marker" ELSE "content"
       ELSE refused' = TRUE /\ UNCHANGED <<step, seen, claim>>
    /\ since' = {}
    /\ UNCHANGED <<treeVars, changes>>

\* The files leave in any order, the marker after them.
Sweep(f) ==
    /\ step = "sweep" /\ f \in seen /\ content[f] # "absent"
    /\ content' = [content EXCEPT ![f] = "absent"]
    /\ seen' = seen \ {f}
    /\ UNCHANGED <<place, marker, extra, step, claim, since, refused, changes>>

SweepOwner ==
    /\ seen = {} /\ Goto("sweep", "rmdir")
    /\ marker' = "none"
    /\ UNCHANGED <<place, content, extra, passVars, changes>>

\* A directory that holds nothing leaves.
RemoveDirectory ==
    /\ Goto("rmdir", "idle")
    /\ Present = {} /\ marker = "none" /\ extra = {}
    /\ place' = "nowhere" /\ claim' = "none"
    /\ UNCHANGED <<content, marker, extra, seen, since, refused, changes>>

\* _prune: an unprotected whole object is renamed into the trash.
Discard ==
    /\ place = "object" /\ step = "idle" /\ Whole /\ marker = "none"
    /\ place' = "trash" /\ refused' = FALSE
    /\ UNCHANGED <<content, marker, extra, step, claim, seen, since, changes>>

\* The record in .owner is of this generation, and the manifest bears it out
\* as long as any file is left.
Recorded ==
    \/ marker = "whole" /\ (Present # {} => content[Manifest] = "good")
    \/ marker = "forged" /\ Present = {}

\* _clean_trash begins: nothing left, a record, an interrupted record or none;
\* the last two need the whole generation.
CleanTrash ==
    /\ place = "trash" /\ step = "idle"
    /\ LET next ==
            IF extra = {} /\ Present = {} /\ marker = "none" THEN "rmdir"
            ELSE IF extra = {} /\ Recorded THEN "hash"
            ELSE IF Whole /\ marker = "part" THEN "relabel"
            ELSE IF Whole /\ marker = "none" THEN "label"
            ELSE "idle"
       IN step' = next /\ refused' = (next = "idle")
    /\ claim' = "content" /\ seen' = Present /\ since' = {}
    /\ UNCHANGED <<treeVars, changes>>

\* An interrupted record is removed, and a new one is created and filled.
Relabel ==
    /\ place = "trash"
    /\ \/ Goto("relabel", "label") /\ marker = "part" /\ marker' = "none"
       \/ Goto("label", "labelling") /\ marker = "none" /\ marker' = "part"
       \/ Goto("labelling", "hash") /\ marker' = "whole"
    /\ UNCHANGED <<place, content, extra, passVars, changes>>

\* Every file is compared with the record before the first one goes.
CheckHashes ==
    /\ step = "hash"
    /\ IF \A f \in seen : content[f] = "good"
       THEN step' = "clear" /\ UNCHANGED refused
       ELSE step' = "idle" /\ refused' = TRUE
    /\ UNCHANGED <<treeVars, claim, seen, since, changes>>

\* Mutant of Clear: the files go in name order, the manifest among them.
ClearAny(f) ==
    /\ step = "clear" /\ f \in seen /\ content[f] # "absent"
    /\ content' = [content EXCEPT ![f] = "absent"]
    /\ seen' = seen \ {f}
    /\ UNCHANGED <<place, marker, extra, step, claim, since, refused, changes>>

\* The manifest proves what is left, so it goes last.
Clear(f) ==
    /\ step = "clear" /\ f \in seen /\ content[f] # "absent"
    /\ f = Manifest => seen = {Manifest}
    /\ content' = [content EXCEPT ![f] = "absent"]
    /\ seen' = seen \ {f}
    /\ UNCHANGED <<place, marker, extra, step, claim, since, refused, changes>>

DropRecord ==
    /\ seen = {} /\ Goto("clear", "rmdir")
    /\ marker # "none" /\ marker' = "none"
    /\ UNCHANGED <<place, content, extra, passVars, changes>>

\* A process is killed, or a pass stops at an error: the next one starts over.
Stop ==
    /\ step # "idle" /\ step' = "idle"
    /\ claim' = "none"
    /\ UNCHANGED <<treeVars, seen, since, refused, changes>>

\* Somebody else changes or removes a file, the marker, or adds a name.
Change ==
    /\ place # "nowhere" /\ changes < MaxChanges
    /\ changes' = changes + 1
    /\ \/ \E f \in Present, how \in {"absent", "changed"} :
            /\ content' = [content EXCEPT ![f] = how]
            /\ since' = since \cup {f}
            /\ UNCHANGED <<marker, extra>>
       \/ marker' \in {"none", "forged", "junk"} /\ UNCHANGED <<content, extra, since>>
       \/ extra' = extra \cup {"foreign"} /\ UNCHANGED <<content, marker, since>>
    /\ UNCHANGED <<place, step, claim, seen, refused>>

RemovalNext ==
    \/ \E where \in {"staging", "seed"} : MakeStage(where)
    \/ WriteOwner \/ Scratch \/ Seal \/ DropOwner \/ Install \/ Abort \/ LeaveStage
    \/ \E f \in Files : WriteFile(f) \/ Sweep(f) \/ Clear(f)
    \/ RemoveStage \/ SweepOwner \/ RemoveDirectory
    \/ Discard \/ CleanTrash \/ Relabel \/ CheckHashes \/ DropRecord
    \/ Stop \/ Change

RemovalSpec == RemovalInit /\ [][RemovalNext]_removalVars

-----------------------------------------------------------------------------
\* tests/test_policy_generations.py:2555: "Every partial deletion keeps an
\* authenticated manifest and retries to completion."  However often passes are
\* killed, trash that nobody else changed is never preserved as suspicious.
TrashIsReclaimed == place = "trash" /\ changes = 0 => ~refused

\* docs/policy-generations.md:134-144: a stage that nobody else changed is
\* preserved only when a build's scratch is in it, or when it lost its marker
\* on the way to objects/ and then some files to a pass that was killed; a
\* seed, when its marker was not complete.
StagesAreReclaimed ==
    place \in {"staging", "seed"} /\ changes = 0 /\ refused =>
        \/ extra = {"scratch"}
        \/ place = "staging" /\ marker = "none" /\ Present # {} /\ Present # Files
        \/ place = "seed" /\ marker # "whole"

\* An object that nobody else changed is a whole generation, whichever stage
\* it came from.
ObjectsAreWhole == place = "object" /\ changes = 0 => Whole /\ marker = "none"

\* What somebody changed before a pass began is not deleted on the strength of
\* a record or of the content: the pass has to see the change.
PreservesChanges ==
    \A f \in Files :
        claim = "content" /\ changes' = changes /\ content[f] = "changed" /\ content'[f] = "absent"
            => f \in since
ChangedFilesArePreserved == [][PreservesChanges]_removalVars

=============================================================================
