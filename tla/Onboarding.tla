----------------------------- MODULE Onboarding -----------------------------
(***************************************************************************)
(* The setup workflow: services/onboarding.py.                             *)
(*                                                                         *)
(* A session is a local process with one operation at a time.  An operator *)
(* previews a choice, builds a generation from it, verifies an answer of   *)
(* that generation and saves a new configuration, with a profile beside it *)
(* where the choice needs one.  Each request re-reads the policy sources   *)
(* and is bound by a digest to what was previewed.  Between the steps      *)
(* anybody may edit the sources, select another generation or touch the    *)
(* files; a second session may be working on the same destination; a       *)
(* session may die.                                                        *)
(*                                                                         *)
(* Abstracted: a digest is the choice and the version of the sources it    *)
(* was computed from; a generation is identified by the version that it    *)
(* contains; probing a vector backend changes nothing; staging files.      *)
(***************************************************************************)
EXTENDS Naturals

CONSTANTS
    Sessions,
    NoSession,
    SourceModes,
    WithProfile,  \* the choices that need a profile file
    Tasks,
    MaxVersion,   \* bound: versions of the policy sources
    MaxFiles      \* bound: files ever created

OnboardingAssumption ==
    /\ NoSession \notin Sessions /\ WithProfile \subseteq SourceModes
    /\ MaxVersion \in Nat \ {0} /\ MaxFiles \in Nat

VARIABLES
    sources,  \* version of the policy sources
    active,   \* version in the active generation, 0 for none
    config,   \* the file at destination
    profile,  \* the file beside it
    files,    \* files created so far
    session,  \* Sessions -> the memory of OnboardingService
    op        \* Sessions -> the operation that holds _lock

vars == <<sources, active, config, profile, files, session, op>>
world == <<sources, active>>
disk == <<config, profile, files>>

Digest == [choice : SourceModes, version : 1 .. MaxVersion]
NoDigest == [choice |-> "none", version |-> 0]
NoFile == [inode |-> 0, author |-> NoSession, digest |-> NoDigest, edited |-> "no", answer |-> 0]
NoOp == [action |-> "none", digest |-> NoDigest, task |-> "none", step |-> "idle", file |-> NoFile, published |-> 0]
Fresh == [reviewed |-> NoDigest, built |-> NoDigest, generation |-> 0,
          verified |-> <<NoDigest, "none">>, answer |-> 0, pending |-> 0]

Init ==
    /\ sources = 1 /\ active \in {0, 1}
    /\ config = NoFile /\ profile = NoFile /\ files = 0
    /\ session = [s \in Sessions |-> Fresh]
    /\ op = [s \in Sessions |-> NoOp]

Remember(s, memory) == session' = [session EXCEPT ![s] = memory]
Step(s, step) == op' = [op EXCEPT ![s].step = step]
Done(s) == op' = [op EXCEPT ![s] = NoOp]
At(s, action, step) == op[s].action = action /\ op[s].step = step

-----------------------------------------------------------------------------
(* Requests.                                                               *)

\* run: a preview forgets what was built from another digest.
Preview(s) ==
    /\ op[s] = NoOp
    /\ \E choice \in SourceModes :
        LET digest == [choice |-> choice, version |-> sources]
        IN  Remember(s, IF session[s].reviewed = digest THEN session[s]
                        ELSE [session[s] EXCEPT !.reviewed = digest, !.built = NoDigest, !.generation = 0,
                                                !.verified = <<NoDigest, "none">>, !.answer = 0])
    /\ UNCHANGED <<op, world, disk>>

\* The gates of run and _require_current, at the time of the request.
Reviewed(s, digest) == digest = session[s].reviewed
Current(s, digest) == session[s].built = digest /\ active = session[s].generation

Gate(s, action, digest, task) ==
    /\ Reviewed(s, digest)
    /\ action # "build" => Current(s, digest)
    /\ action = "save" => session[s].verified = <<digest, task>>

\* run with consent: the digest is computed again, from the sources as they are.
Request(s) ==
    /\ op[s] = NoOp
    /\ \E action \in {"build", "verify", "save"}, choice \in SourceModes, task \in Tasks :
        LET digest == [choice |-> choice, version |-> sources]
        IN  /\ Gate(s, action, digest, task)
            /\ op' = [op EXCEPT ![s] = [action |-> action, digest |-> digest, task |-> task, file |-> NoFile, published |-> 0,
                        step |-> IF action = "save" /\ choice \notin WithProfile THEN "config" ELSE "begun"]]
            /\ Remember(s, IF action = "save" THEN session[s]
                           ELSE [session[s] EXCEPT !.verified = <<NoDigest, "none">>, !.answer = 0])
    /\ UNCHANGED <<world, disk>>

\* An error anywhere ends the request; a profile that cannot be removed stays.
Fail(s) ==
    /\ op[s] # NoOp
    /\ Done(s)
    /\ UNCHANGED <<session, world, disk>>

-----------------------------------------------------------------------------
(* Build and verify.                                                       *)

\* Mutant of Publish: the sources are built as they are.
PublishUnchecked(s) ==
    /\ At(s, "build", "begun")
    /\ active' = sources
    /\ op' = [op EXCEPT ![s].step = "published", ![s].published = sources]
    /\ UNCHANGED <<sources, session, disk>>

\* The ingest service publishes the sources only with the previewed pins.
Publish(s) ==
    /\ At(s, "build", "begun") /\ sources = op[s].digest.version
    /\ active' = sources
    /\ op' = [op EXCEPT ![s].step = "published", ![s].published = sources]
    /\ UNCHANGED <<sources, session, disk>>

\* _build returns.
Built(s) ==
    /\ At(s, "build", "published")
    /\ Remember(s, [session[s] EXCEPT !.built = op[s].digest, !.generation = op[s].published])
    /\ Done(s)
    /\ UNCHANGED <<world, disk>>

\* _verify: an answer with citations, from the generation that was built.
Verify(s) ==
    /\ At(s, "verify", "begun") /\ active = session[s].generation
    /\ Remember(s, [session[s] EXCEPT !.verified = <<op[s].digest, op[s].task>>, !.answer = active])
    /\ Done(s)
    /\ UNCHANGED <<world, disk>>

-----------------------------------------------------------------------------
(* Save.                                                                   *)

NewFile(s) == [inode |-> files + 1, author |-> s, digest |-> op[s].digest, edited |-> "no",
               answer |-> session[s].answer]

\* _save finds a profile: it is the one an earlier attempt left, unchanged, or
\* the request is refused.
FindProfile(s) ==
    /\ At(s, "save", "begun")
    /\ IF profile = NoFile THEN Step(s, "profile")
       ELSE IF profile.inode = session[s].pending /\ profile.digest = op[s].digest /\ profile.edited = "no"
       THEN Step(s, "config") ELSE Done(s)
    /\ UNCHANGED <<session, world, disk>>

\* _write_new_private: the exclusive link of the profile; its inode is kept.
LinkProfile(s) ==
    /\ At(s, "save", "profile") /\ files < MaxFiles
    /\ IF profile = NoFile
       THEN /\ profile' = NewFile(s) /\ files' = files + 1
            /\ Remember(s, [session[s] EXCEPT !.pending = files'])
            /\ op' = [op EXCEPT ![s].step = "config", ![s].file = NewFile(s)]
            /\ UNCHANGED config
       ELSE Done(s) /\ UNCHANGED <<session, disk>>
    /\ UNCHANGED world

\* The exclusive link of the config; without it a profile of this request goes.
LinkConfig(s) ==
    /\ At(s, "save", "config") /\ files < MaxFiles
    /\ \/ /\ config = NoFile
          /\ config' = NewFile(s) /\ files' = files + 1 /\ Done(s) /\ UNCHANGED profile
       \/ /\ IF op[s].file = NoFile THEN Done(s) ELSE Step(s, "undoing")
          /\ UNCHANGED disk
    /\ UNCHANGED <<session, world>>

\* Mutant of Undo: the profile is not compared with what was written.
UndoUnchecked(s) ==
    /\ At(s, "save", "undoing")
    /\ IF profile = NoFile THEN Done(s) /\ Remember(s, [session[s] EXCEPT !.pending = 0])
       ELSE Step(s, "unlinking") /\ UNCHANGED session
    /\ UNCHANGED <<world, disk>>

\* _remove_created_profile looks twice at the file and then removes it,
\* whatever it has become since the second look.
Undo(s) ==
    /\ At(s, "save", "undoing")
    /\ CASE profile = NoFile -> Done(s) /\ Remember(s, [session[s] EXCEPT !.pending = 0])
         [] profile = op[s].file -> Step(s, "unlinking") /\ UNCHANGED session
         [] OTHER -> Done(s) /\ UNCHANGED session
    /\ UNCHANGED <<world, disk>>

Unlink(s) ==
    /\ At(s, "save", "unlinking")
    /\ profile' = NoFile
    /\ Remember(s, [session[s] EXCEPT !.pending = 0])
    /\ Done(s)
    /\ UNCHANGED <<config, files, world>>

-----------------------------------------------------------------------------
(* Everybody else.                                                         *)

Crash(s) ==
    /\ session[s] # Fresh \/ op[s] # NoOp
    /\ Remember(s, Fresh) /\ Done(s)
    /\ UNCHANGED <<world, disk>>

EditSources ==
    /\ sources' \in (1 .. MaxVersion) \ {sources}
    /\ UNCHANGED <<active, session, op, disk>>

SelectGeneration ==
    /\ active' \in (1 .. MaxVersion) \ {active}
    /\ UNCHANGED <<sources, session, op, disk>>

\* Somebody edits the profile in place or replaces it, perhaps after the last
\* look of a session that is about to remove it.
EditProfile ==
    /\ profile # NoFile /\ profile.edited = "no"
    /\ profile' = [profile EXCEPT !.edited = IF \E s \in Sessions : op[s].step = "unlinking" THEN "late" ELSE "yes"]
    /\ UNCHANGED <<config, files, session, op, world>>

\* Somebody puts a config of his own at the destination.
PlaceConfig ==
    /\ config = NoFile /\ files < MaxFiles
    /\ config' = [NoFile EXCEPT !.inode = files + 1, !.edited = "yes"] /\ files' = files + 1
    /\ UNCHANGED <<profile, session, op, world>>

Setup(s) ==
    \/ Preview(s) \/ Request(s) \/ Fail(s) \/ Publish(s) \/ Built(s) \/ Verify(s)
    \/ FindProfile(s) \/ LinkProfile(s) \/ LinkConfig(s) \/ Undo(s) \/ Unlink(s) \/ Crash(s)
Others == EditSources \/ SelectGeneration \/ EditProfile \/ PlaceConfig
Next == (\E s \in Sessions : Setup(s)) \/ Others

Spec == Init /\ [][Next]_vars

-----------------------------------------------------------------------------
(* Properties.                                                             *)

File == [inode : 0 .. MaxFiles, author : Sessions \cup {NoSession}, digest : Digest \cup {NoDigest},
         edited : {"no", "yes", "late"}, answer : 0 .. MaxVersion]

TypeOK ==
    /\ sources \in 1 .. MaxVersion /\ active \in 0 .. MaxVersion /\ files \in 0 .. MaxFiles
    /\ config \in File /\ profile \in File
    /\ session \in [Sessions -> [reviewed : Digest \cup {NoDigest}, built : Digest \cup {NoDigest},
                                 generation : 0 .. MaxVersion, answer : 0 .. MaxVersion, pending : 0 .. MaxFiles,
                                 verified : (Digest \cup {NoDigest}) \X (Tasks \cup {"none"})]]
    /\ op \in [Sessions -> [action : {"none", "build", "verify", "save"}, digest : Digest \cup {NoDigest},
                            task : Tasks \cup {"none"}, file : File, published : 0 .. MaxVersion,
                            step : {"idle", "begun", "published", "profile", "config", "undoing", "unlinking"}]]

\* A config that setup has saved stands for policies that its operator saw in a
\* preview, built and got an answer from - the very version, not a later one,
\* whatever others edited or selected meanwhile.
SavedWasVerified == config.author \in Sessions => config.answer = config.digest.version

\* A saved config has its profile beside it, of the same session and with the
\* same content unless somebody edited it: no failed save of any session takes
\* it away.
SavedPairStays ==
    config.author \in Sessions /\ config.digest.choice \in WithProfile =>
        profile.author = config.author /\ profile.digest = config.digest

\* Setup replaces no file, and removes a profile only in the session that has
\* linked it, when it takes back its own failed save.  A profile that somebody
\* has edited before the last look of that session stays; an edit between that
\* look and the unlink is lost with the file.
ForeignFilesStay ==
    /\ config # NoFile => config' = config
    /\ profile.edited = "yes" => profile' = profile
    /\ profile # NoFile /\ profile'.inode # profile.inode =>
        /\ profile' = NoFile
        /\ \E s \in Sessions : op[s].step = "unlinking" /\ profile.author = s /\ op[s].file.inode = profile.inode
NothingForeignIsLost == [][ForeignFilesStay]_vars

=============================================================================
