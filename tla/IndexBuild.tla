----------------------------- MODULE IndexBuild -----------------------------
(***************************************************************************)
(* The build of a standalone index and of the runtime rules beside it:     *)
(* IngestService in services/ingest.py and the writing half of             *)
(* SQLiteVecIndexStore in storage/sqlite_vec.py.                           *)
(*                                                                         *)
(* The two files cannot be replaced together.  A build publishes the index *)
(* marked as incomplete, then the rules, and completes the index at last;  *)
(* readers accept a complete index only.  Builds know nothing of each      *)
(* other, any of them may fail or die at any step, and operators remove    *)
(* what such a build has left, or put files of their own there.            *)
(*                                                                         *)
(* Abstracted: chunks and vectors; a file is the build that wrote it.      *)
(***************************************************************************)
EXTENDS Naturals

CONSTANTS
    Builds,
    NoBuild,
    MaxTouched  \* bound: files removed or placed by operators

NoRules == "absent"
ForeignRules == "foreign"

BuildAssumption == {NoBuild, NoRules, ForeignRules} \cap Builds = {} /\ MaxTouched \in Nat

VARIABLES
    index,     \* the index file
    rules,     \* the build that wrote the rules file
    stage,     \* Builds -> position in IngestService.run
    opened,    \* Builds -> the file that complete_ingest has opened
    touched,   \* operators' actions so far
    displaced  \* history: an operator took or placed rules since the index was linked

vars == <<index, rules, stage, opened, touched, displaced>>

NoIndex == [build |-> NoBuild, complete |-> FALSE, intact |-> FALSE]
Foreign == [build |-> NoBuild, complete |-> TRUE, intact |-> TRUE]
NotOpen == NoIndex

Init ==
    /\ index \in {NoIndex, Foreign} /\ rules \in {NoRules, ForeignRules}
    /\ stage = [b \in Builds |-> "idle"]
    /\ opened = [b \in Builds |-> NotOpen]
    /\ touched = 0 /\ displaced = FALSE

Go(b, next) == stage' = [stage EXCEPT ![b] = next]

-----------------------------------------------------------------------------
\* run, before embedding: both destinations are new.
Observe(b) ==
    /\ stage[b] = "idle"
    /\ Go(b, IF index = NoIndex /\ rules = NoRules THEN "embedding" ELSE "ended")
    /\ UNCHANGED <<index, rules, opened, touched, displaced>>

\* replace(complete = False): the prepared database is linked, never renamed
\* over a file that somebody has made meanwhile.
LinkIndex(b) ==
    /\ stage[b] = "embedding"
    /\ IF index = NoIndex
       THEN /\ index' = [build |-> b, complete |-> FALSE, intact |-> TRUE]
            /\ displaced' = FALSE
            /\ Go(b, "indexed")
       ELSE Go(b, "ended") /\ UNCHANGED <<index, displaced>>
    /\ UNCHANGED <<rules, opened, touched>>

\* _finalize_runtime_rules_artifact: an exclusive link too.
LinkRules(b) ==
    /\ stage[b] = "indexed"
    /\ IF rules = NoRules THEN rules' = b /\ Go(b, "ruled") ELSE Go(b, "ended") /\ UNCHANGED rules
    /\ UNCHANGED <<index, opened, touched, displaced>>

\* _validate_pending_ingest: the file at the path is the one this build staged.
Pending(b) == index.build = b /\ index.intact

\* complete_ingest opens the path after a first look at it.
OpenIndex(b) ==
    /\ stage[b] = "ruled"
    /\ IF Pending(b) THEN Go(b, "opening") ELSE Go(b, "ended")
    /\ UNCHANGED <<index, rules, opened, touched, displaced>>

Opened(b) ==
    /\ stage[b] = "opening"
    /\ opened' = [opened EXCEPT ![b] = index]
    /\ Go(b, IF index = NoIndex THEN "ended" ELSE "opened")
    /\ UNCHANGED <<index, rules, touched, displaced>>

\* Mutant of Complete: what is at the path is completed.
CompleteUnbound(b) ==
    /\ stage[b] = "opened"
    /\ index' = IF index # NoIndex THEN [index EXCEPT !.complete = TRUE] ELSE index
    /\ Go(b, "ended")
    /\ UNCHANGED <<rules, opened, touched, displaced>>

\* After a second look, the update of the file that was opened, which must
\* carry the build id of this build.
Complete(b) ==
    /\ stage[b] = "opened"
    /\ IF Pending(b) /\ opened[b].build = b
       THEN index' = [index EXCEPT !.complete = TRUE]
       ELSE UNCHANGED index
    /\ Go(b, "ended")
    /\ UNCHANGED <<rules, opened, touched, displaced>>

\* An error or death: what is published stays.
Stop(b) ==
    /\ stage[b] \notin {"idle", "ended"}
    /\ Go(b, "ended")
    /\ UNCHANGED <<index, rules, opened, touched, displaced>>

-----------------------------------------------------------------------------
Touch == touched < MaxTouched /\ touched' = touched + 1

\* An operator removes the index, puts his own there, or changes it in place.
TouchIndex ==
    /\ Touch
    /\ index' \in {NoIndex, Foreign, [index EXCEPT !.intact = FALSE]} \ {index}
    /\ UNCHANGED <<rules, stage, opened, displaced>>

\* An operator removes the rules or puts his own there.
TouchRules ==
    /\ Touch
    /\ rules' \in {NoRules, ForeignRules} \ {rules}
    /\ displaced' = TRUE
    /\ UNCHANGED <<index, stage, opened>>

Build(b) ==
    \/ Observe(b) \/ LinkIndex(b) \/ LinkRules(b) \/ OpenIndex(b) \/ Opened(b)
    \/ Complete(b) \/ Stop(b)

Next == (\E b \in Builds : Build(b)) \/ TouchIndex \/ TouchRules

Spec == Init /\ [][Next]_vars

-----------------------------------------------------------------------------
(* Properties.                                                             *)

Index == [build : Builds \cup {NoBuild}, complete : BOOLEAN, intact : BOOLEAN]

TypeOK ==
    /\ index \in Index /\ rules \in Builds \cup {NoRules, ForeignRules}
    /\ stage \in [Builds -> {"idle", "embedding", "indexed", "ruled", "opening", "opened", "ended"}]
    /\ opened \in [Builds -> Index]
    /\ touched \in 0 .. MaxTouched /\ displaced \in BOOLEAN

\* An index that readers accept has the rules of its own build beside it, or an
\* operator has touched the rules since the index appeared; no failure, death
\* or other build leaves a ready index with other rules or none.
ReadyIndexHasItsRules == index.complete /\ index.build \in Builds /\ ~displaced => rules = index.build

=============================================================================
