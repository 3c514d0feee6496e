--------------------------- MODULE ProfileUpdate ---------------------------
(***************************************************************************)
(* The update of a policy profile: initialize_profile, diff_profile and    *)
(* update_profile in services/profiles.py.                                 *)
(*                                                                         *)
(* A profile pins the contents of the packs it selects.  An operator looks *)
(* at the difference between the pins and the packs and then asks for the  *)
(* update with the digest of what he saw.  Commands that update exclude    *)
(* each other by a lock; editors of the profile and of the packs do not    *)
(* know of it, and any command may die.                                    *)
(*                                                                         *)
(* Abstracted: what an editor may write is a version (the pins of a text   *)
(* and the rest of it apart); the packs are one version; some versions of  *)
(* the packs contradict the profile's decisions; comments and formatting.  *)
(***************************************************************************)
EXTENDS Naturals

CONSTANTS
    Commands,
    NoCommand,
    Versions,    \* versions of the packs
    Invalid,     \* those that contradict the decisions of the profile
    MaxTexts,    \* bound: texts of the profile besides its pins
    MaxEdits     \* bound: edits by others

ProfileAssumption ==
    /\ NoCommand \notin Commands
    /\ Versions \subseteq Nat \ {0} /\ Invalid \subseteq Versions /\ MaxTexts \in Nat \ {0}
    /\ MaxEdits \in Nat

VARIABLES
    packs,   \* version of the packs
    profile, \* the file: its pins and the version of its other text
    lock,    \* the command that holds the lock file
    pc,      \* Commands -> position
    token,   \* Commands -> the review digest that the operator gives
    read,    \* Commands -> the text read by diff_profile
    staged,  \* Commands -> the staging directory's content
    edits,   \* edits by others so far
    late     \* history: the profile was edited after the last look of the holder

vars == <<packs, profile, lock, pc, token, read, staged, edits, late>>

NoProfile == [pins |-> 0, text |-> 0]
NoToken == [original |-> NoProfile, proposed |-> 0]
Profile == [pins : Versions, text : 1 .. MaxTexts]

Init ==
    /\ packs \in Versions
    /\ profile = NoProfile
    /\ lock = NoCommand
    /\ pc = [c \in Commands |-> "idle"]
    /\ token = [c \in Commands |-> NoToken]
    /\ read = [c \in Commands |-> NoProfile]
    /\ staged = [c \in Commands |-> NoProfile]
    /\ edits = 0 /\ late = FALSE

Go(c, next) == pc' = [pc EXCEPT ![c] = next]

\* The finally of a command: the lock is released, its staged file removed.
End(c) ==
    /\ Go(c, "idle")
    /\ read' = [read EXCEPT ![c] = NoProfile]
    /\ staged' = [staged EXCEPT ![c] = NoProfile]
    /\ lock' = IF lock = c THEN NoCommand ELSE lock

-----------------------------------------------------------------------------
\* initialize_profile: the packs are pinned as they are and checked.
PinNew(c) ==
    /\ pc[c] = "idle" /\ packs \notin Invalid
    /\ staged' = [staged EXCEPT ![c] = [pins |-> packs, text |-> 1]]
    /\ Go(c, "initializing")
    /\ UNCHANGED <<packs, profile, lock, token, read, edits, late>>

\* Its exclusive link, which refuses where a profile exists.
LinkNew(c) ==
    /\ pc[c] = "initializing"
    /\ profile' = IF profile = NoProfile THEN staged[c] ELSE profile
    /\ End(c)
    /\ UNCHANGED <<packs, token, edits, late>>

\* diff_profile: the token is a digest of the old text and the proposed pins.
Review(text) == [original |-> text, proposed |-> packs]

\* The operator runs the diff; reading the text and reading the packs are two steps.
DiffReads(c) ==
    /\ pc[c] = "idle" /\ profile # NoProfile
    /\ read' = [read EXCEPT ![c] = profile]
    /\ Go(c, "diffing")
    /\ UNCHANGED <<packs, profile, lock, token, staged, edits, late>>

Diff(c) ==
    /\ pc[c] = "diffing"
    /\ token' = [token EXCEPT ![c] = Review(read[c])]
    /\ End(c)
    /\ UNCHANGED <<packs, profile, edits, late>>

-----------------------------------------------------------------------------
\* update_profile waits for the lock.
Acquire(c) ==
    /\ pc[c] = "idle" /\ token[c] # NoToken
    /\ lock = NoCommand /\ lock' = c
    /\ Go(c, "locked")
    /\ UNCHANGED <<packs, profile, token, read, staged, edits, late>>

\* The two looks of _update_profile_locked read the profile and then the packs.
Look(c) ==
    /\ pc[c] \in {"locked", "staged"}
    /\ read' = [read EXCEPT ![c] = profile]
    /\ Go(c, IF pc[c] = "locked" THEN "checking" ELSE "rechecking")
    /\ late' = IF pc[c] = "staged" THEN FALSE ELSE late
    /\ UNCHANGED <<packs, profile, lock, token, staged, edits>>

\* The first: the token is the operator's and the decisions hold; the text has
\* not changed when it is read again, and the new pins are staged.
Stage(c) ==
    /\ pc[c] = "checking"
    /\ IF Review(read[c]) = token[c] /\ packs \notin Invalid /\ profile = read[c]
       THEN /\ staged' = [staged EXCEPT ![c] = [pins |-> packs, text |-> read[c].text]]
            /\ Go(c, "staged") /\ UNCHANGED <<lock, read>>
       ELSE End(c)
    /\ UNCHANGED <<packs, profile, token, edits, late>>

\* Mutant of Recheck: the staged pins are put in place without a second look.
RecheckNothing(c) ==
    /\ pc[c] = "rechecking"
    /\ Go(c, "replacing")
    /\ UNCHANGED <<packs, profile, token, read, staged, lock, edits, late>>

\* The second look, immediately before the replacement.
Recheck(c) ==
    /\ pc[c] = "rechecking"
    /\ IF Review(read[c]) = token[c] THEN Go(c, "replacing") /\ UNCHANGED <<staged, read, lock>> ELSE End(c)
    /\ UNCHANGED <<packs, profile, token, edits, late>>

Replace(c) ==
    /\ pc[c] = "replacing"
    /\ profile' = staged[c]
    /\ End(c)
    /\ UNCHANGED <<packs, token, edits, late>>

\* Death or an error; the kernel releases the lock of a process that dies.
Crash(c) ==
    /\ pc[c] # "idle"
    /\ End(c)
    /\ UNCHANGED <<packs, profile, token, edits, late>>

-----------------------------------------------------------------------------
EditPacks ==
    /\ edits < MaxEdits /\ edits' = edits + 1
    /\ packs' \in Versions \ {packs}
    /\ UNCHANGED <<profile, lock, pc, token, read, staged, late>>

\* An editor rewrites the profile, whoever holds the lock.
EditProfile ==
    /\ profile # NoProfile /\ edits < MaxEdits /\ edits' = edits + 1
    /\ profile' \in Profile \ {profile}
    /\ late' = TRUE
    /\ UNCHANGED <<packs, lock, pc, token, read, staged>>

Command(c) ==
    \/ PinNew(c) \/ LinkNew(c) \/ DiffReads(c) \/ Diff(c)
    \/ Acquire(c) \/ Look(c) \/ Stage(c) \/ Recheck(c) \/ Replace(c) \/ Crash(c)

Next == (\E c \in Commands : Command(c)) \/ EditPacks \/ EditProfile

Spec == Init /\ [][Next]_vars

-----------------------------------------------------------------------------
(* Properties.                                                             *)

Positions == {"idle", "initializing", "diffing", "locked", "checking", "staged", "rechecking", "replacing"}

TypeOK ==
    /\ packs \in Versions /\ profile \in Profile \cup {NoProfile}
    /\ lock \in Commands \cup {NoCommand} /\ pc \in [Commands -> Positions]
    /\ token \in [Commands -> [original : Profile \cup {NoProfile}, proposed : Versions \cup {0}]]
    /\ read \in [Commands -> Profile \cup {NoProfile}]
    /\ staged \in [Commands -> Profile \cup {NoProfile}]
    /\ edits \in 0 .. MaxEdits /\ late \in BOOLEAN

\* An update puts in place what its operator has reviewed and nothing else: the
\* pins he was shown, beside the text he was shown, instead of the file he was
\* shown - unless an editor wrote it after the last look.  Neither another
\* command nor an earlier edit is ever lost.
AsReviewed ==
    \A c \in Commands : pc[c] = "replacing" /\ profile' # profile /\ pc'[c] = "idle" =>
        /\ profile' = [pins |-> token[c].proposed, text |-> token[c].original.text]
        /\ profile = token[c].original \/ late
UpdateIsAsReviewed == [][AsReviewed]_vars

=============================================================================
