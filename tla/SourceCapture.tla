---------------------------- MODULE SourceCapture ----------------------------
(***************************************************************************)
(* The sources of a generation: services/generation_sources.py with the    *)
(* readers that it calls, and how the publishers of services/generations.py*)
(* (build, migrate and import_bundle against the packaged sources) use it. *)
(*                                                                         *)
(* The sources are files that anybody may edit, and nothing locks them.    *)
(* capture_sources resolves them once, reads them once more and accepts    *)
(* when both agree; the publisher then waits for the writer lock, captures *)
(* again and goes on when nothing has changed.                             *)
(*                                                                         *)
(* Abstracted: a file has a text, and Absent when there is none; a digest  *)
(* is what it digests; the pin of a pack is its declaration with the texts *)
(* of its members.  A text that a file once had does not come back to it,  *)
(* and a file that was removed does not return.  A bundle stands for a     *)
(* first capture: the import is refused unless they are equal.             *)
(***************************************************************************)
EXTENDS Naturals, Sequences

CONSTANTS
    Roots,     \* directories that a profile selects, 1 .. how many
    Policies,  \* Markdown files of a directory, in their order: 1 .. how many
    Declares,  \* texts of a manifest -> [pack, terms, members]
    MaxText,   \* bound: texts of a file
    MaxEdits   \* bound: edits of files

Absent == 0
Texts == 1 .. MaxText

SourcesAssumption ==
    /\ Roots \in Nat \ {0} /\ Policies \in Nat \ {0} /\ MaxText \in Nat \ {0} /\ MaxEdits \in Nat
    /\ \A m \in Texts : Declares[m].members \subseteq 1 .. Policies /\ Declares[m].members # {}

VARIABLES
    past,      \* the sources since the request, a state for each edit; the last is now
    profiled,  \* a profile selects the directories; without one there is one directory
    step,      \* position in capture_sources, and the outcome of the request
    pass,      \* resolving what is expected, or capturing
    selected,  \* the profile that this pass has read
    manifest,  \* the text of the manifest that was read first
    declared,  \* the declaration that the policies were parsed with
    members, contents, notice,
    packs,     \* the directories that this pass has read
    expected,  \* the outcome of the first pass
    snapshot,  \* the first capture
    since      \* which state of the sources was the present when the lock was acquired, or 0

directory == <<manifest, declared, members, contents, notice>>
vars == <<past, profiled, step, pass, selected, directory, packs, expected, snapshot, since>>

Now == past[Len(past)]
Selection == IF profiled THEN 1 .. Roots ELSE {1}
Root == Len(packs) + 1
Here == Now.roots[Root]

Present(d) == {p \in 1 .. Policies : d.policies[p] # Absent}
Undeclared == [pack |-> 0, terms |-> 0]
Declaration(m) == IF m = Absent THEN Undeclared ELSE [pack |-> Declares[m].pack, terms |-> Declares[m].terms]

\* discover_policy_paths: what the manifest lists, or every Markdown file.
Membership(d, m) == IF m = Absent THEN Present(d) ELSE Declares[m].members
Unlisted(d, listed) == Present(d) \ listed

PinOf(pack) == [declared |-> pack.declared, contents |-> pack.contents]
TextsOf(d, listed) == [p \in listed |-> d.policies[p]]
PinsOf(roots) ==
    [r \in 1 .. Roots |->
        LET d == roots[r]  listed == Membership(d, d.manifest)
        IN  [declared |-> Declaration(d.manifest), contents |-> TextsOf(d, listed)]]
Profile(edition, roots) == [edition |-> edition, pins |-> PinsOf(roots)]

NoDirectory == manifest = Absent /\ declared = Undeclared /\ members = {} /\ contents = <<>> /\ notice = Absent
FirstStep == IF profiled THEN "profile" ELSE "manifest"
NoSnapshot == [profile |-> <<>>, packs |-> <<>>]

\* What a profile may pin: directories with manifests whose members exist.
Readable(d) == Membership(d, d.manifest) # {} /\ Membership(d, d.manifest) \subseteq Present(d)
Pinnable(roots) == \A r \in 1 .. Roots : roots[r].manifest # Absent /\ Readable(roots[r])

\* The first directory may have a manifest and a second policy or not; a
\* profile pins what there is.
Init ==
    /\ \E first \in [manifest : {Absent, 1}, notice : {Absent, 1}, policies : {[p \in 1 .. Policies |->
                        IF p = 1 THEN 1 ELSE second] : second \in {Absent, 1}}] :
        LET other == [manifest |-> 1, notice |-> Absent, policies |-> [p \in 1 .. Policies |-> 1]]
            roots == [r \in 1 .. Roots |-> IF r = 1 THEN first ELSE other]
        IN  /\ profiled \in (IF Pinnable(roots) THEN BOOLEAN ELSE {FALSE})
            /\ past = <<[profile |-> IF profiled THEN Profile(1, roots) ELSE <<>>, roots |-> roots]>>
    /\ step = FirstStep /\ pass = "expected" /\ selected = <<>> /\ NoDirectory
    /\ packs = <<>> /\ expected = NoSnapshot /\ snapshot = NoSnapshot /\ since = 0

Refuse ==
    /\ step' = "refused"
    /\ UNCHANGED <<past, profiled, pass, selected, directory, packs, expected, snapshot, since>>

-----------------------------------------------------------------------------
(* One pass over the selected directories.                                 *)

\* resolve_profile, and read_profile once more for the capture.
ReadProfile ==
    /\ step = "profile"
    /\ selected' = Now.profile /\ step' = "manifest"
    /\ UNCHANGED <<past, profiled, pass, directory, packs, expected, snapshot, since>>

\* _load_pack and load_policy_documents, or capture_sources itself.
ReadManifest ==
    /\ step = "manifest"
    /\ IF Here.manifest = Absent /\ profiled /\ pass = "expected" THEN Refuse
       ELSE /\ manifest' = Here.manifest /\ step' = "list"
            /\ UNCHANGED <<past, profiled, pass, selected, declared, members, contents, notice, packs, expected,
                           snapshot, since>>

\* The manifest is read again, except by load_policy_documents when it has just
\* found one.  Policies are parsed with the declaration read last, by a capture
\* with the one that it keeps; a pack must be the same in both, and a captured
\* manifest list what was found.
ListMembers ==
    /\ step = "list"
    /\ LET again == IF pass = "expected" /\ ~profiled /\ manifest # Absent THEN manifest ELSE Here.manifest
           listed == Membership(Here, again)
           used == IF pass = "expected" /\ profiled THEN again ELSE manifest
       IN  IF \/ listed = {} \/ ~ listed \subseteq Present(Here)
              \/ pass = "expected" /\ profiled /\ Declaration(again).pack # Declaration(manifest).pack
              \/ pass = "captured" /\ manifest # Absent /\ Declares[manifest].members # listed
              \/ pass = "captured" /\ profiled /\ manifest = Absent
           THEN Refuse
           ELSE /\ members' = listed /\ declared' = Declaration(used) /\ contents' = <<>> /\ step' = "members"
                /\ UNCHANGED <<past, profiled, pass, selected, manifest, notice, packs, expected, snapshot, since>>

\* Mutant of ReadMember: a member that has gone since the listing reads as empty.
ReadMissingMember ==
    /\ step = "members" /\ DOMAIN contents # members
    /\ LET p == CHOOSE p \in members \ DOMAIN contents : \A q \in members \ DOMAIN contents : p <= q
       IN  contents' = [q \in DOMAIN contents \cup {p} |-> IF q = p THEN Here.policies[p] ELSE contents[q]]
    /\ UNCHANGED <<past, profiled, step, pass, selected, manifest, declared, members, notice, packs, expected,
                   snapshot, since>>

\* The members are read in their order; one that is gone is refused.
ReadMember ==
    /\ step = "members" /\ DOMAIN contents # members
    /\ LET p == CHOOSE p \in members \ DOMAIN contents : \A q \in members \ DOMAIN contents : p <= q
       IN  IF Here.policies[p] = Absent THEN Refuse
           ELSE /\ contents' = [q \in DOMAIN contents \cup {p} |-> IF q = p THEN Here.policies[p] ELSE contents[q]]
                /\ UNCHANGED <<past, profiled, step, pass, selected, manifest, declared, members, notice, packs,
                               expected, snapshot, since>>

\* A capture keeps the license notices too.
ReadNotice ==
    /\ step = "members" /\ DOMAIN contents = members
    /\ notice' = IF pass = "captured" THEN Here.notice ELSE Absent
    /\ step' = "directory"
    /\ UNCHANGED <<past, profiled, pass, selected, manifest, declared, members, contents, packs, expected, snapshot,
                   since>>

\* The last look at a directory finds the files that are not selected.  The
\* resolution of a profile requires the pin of the pack.
CloseDirectory ==
    /\ step = "directory"
    /\ LET pack == [manifest |-> manifest, declared |-> declared, contents |-> contents, notice |-> notice,
                    unlisted |-> Unlisted(Here, members)]
           last == Root = (IF profiled THEN Roots ELSE 1)
           all == Append(packs, pack)
       IN  IF profiled /\ pass = "expected" /\ PinOf(pack) # selected.pins[Root] THEN Refuse
           ELSE /\ manifest' = Absent /\ declared' = Undeclared /\ members' = {} /\ contents' = <<>>
                /\ notice' = Absent
                /\ IF last /\ pass = "expected"
                   THEN /\ expected' = [profile |-> selected, packs |-> all] /\ packs' = <<>>
                        /\ pass' = "captured" /\ step' = FirstStep
                   ELSE /\ packs' = all /\ step' = IF last THEN "captured" ELSE "manifest"
                        /\ UNCHANGED <<expected, pass>>
                /\ UNCHANGED <<past, profiled, selected, snapshot, since>>

-----------------------------------------------------------------------------
(* What becomes of a capture.                                              *)

\* Mutant of Agrees: the captured files are not compared with the expected.
AgreesUnread == expected.profile = selected

\* capture_sources: resolving the captured bytes, whose pins must be those of
\* the captured profile, gives the expected catalog.
Agrees ==
    /\ expected.profile = selected
    /\ \A r \in Selection :
        /\ PinOf(packs[r]) = PinOf(expected.packs[r])
        /\ profiled => PinOf(packs[r]) = selected.pins[r]
        /\ ~profiled => packs[r].unlisted = expected.packs[r].unlisted

\* The first capture is what will be published; the second must be equal to it
\* (_require_fresh_sources).
Resolve ==
    /\ step = "captured"
    /\ LET captured == [profile |-> selected, packs |-> packs]
       IN  IF ~Agrees \/ (since # 0 /\ captured # snapshot) THEN Refuse
           ELSE /\ snapshot' = captured /\ step' = IF since = 0 THEN "waiting" ELSE "published"
                /\ UNCHANGED <<past, profiled, pass, selected, directory, packs, expected, since>>

\* Mutant of Acquire: what was captured before the lock is published.
AcquireAndPublish ==
    /\ step = "waiting"
    /\ since' = Len(past) /\ step' = "published"
    /\ UNCHANGED <<past, profiled, pass, directory, packs, selected, expected, snapshot>>

\* The writer lock: the sources are captured again.
Acquire ==
    /\ step = "waiting"
    /\ since' = Len(past)
    /\ step' = FirstStep /\ pass' = "expected" /\ selected' = <<>> /\ packs' = <<>> /\ expected' = NoSnapshot
    /\ UNCHANGED <<past, profiled, directory, snapshot>>

Finished == step \in {"published", "refused"}

\* A file that cannot be parsed, another catalog than the previewed one, an
\* output within the sources, a busy store.
Fail == ~Finished /\ Refuse

-----------------------------------------------------------------------------
(* Editors.                                                                *)

Change(now) ==
    /\ ~Finished /\ Len(past) <= MaxEdits
    /\ past' = Append(past, now)
    /\ UNCHANGED <<profiled, step, pass, selected, directory, packs, expected, snapshot, since>>

\* `texts` are those that a file has had: no text and no file comes back.
Fresh(text, texts) ==
    /\ \A k \in DOMAIN past : texts[k] # text
    /\ texts[Len(past)] = Absent => \A k \in DOMAIN past : texts[k] = Absent

EditPolicy ==
    \E r \in Selection, p \in 1 .. Policies, text \in Texts \cup {Absent} :
        /\ Fresh(text, [k \in DOMAIN past |-> past[k].roots[r].policies[p]])
        /\ Change([Now EXCEPT !.roots[r].policies[p] = text])

EditManifest ==
    \E r \in Selection, text \in Texts \cup {Absent} :
        /\ Fresh(text, [k \in DOMAIN past |-> past[k].roots[r].manifest])
        /\ Change([Now EXCEPT !.roots[r].manifest = text])

EditNotice ==
    \E r \in Selection, text \in Texts \cup {Absent} :
        /\ Fresh(text, [k \in DOMAIN past |-> past[k].roots[r].notice])
        /\ Change([Now EXCEPT !.roots[r].notice = text])

\* Other decisions, or new pins: a profile update pins what there is.
EditProfile ==
    /\ profiled
    /\ \E pins \in {Now.profile.pins} \cup (IF Pinnable(Now.roots) THEN {PinsOf(Now.roots)} ELSE {}) :
        Change([Now EXCEPT !.profile = [edition |-> Now.profile.edition + 1, pins |-> pins]])

Capture ==
    \/ ReadProfile \/ ReadManifest \/ ListMembers \/ ReadMember \/ ReadNotice \/ CloseDirectory
    \/ Resolve \/ Acquire \/ Fail
Edit == EditPolicy \/ EditManifest \/ EditNotice \/ EditProfile
Next == Capture \/ Edit

Spec == Init /\ [][Next]_vars

-----------------------------------------------------------------------------
(* Properties.                                                             *)

\* A pack as it would be captured if nobody touched the directory meanwhile.
Whole(d) ==
    LET listed == Membership(d, d.manifest)
    IN  [manifest |-> d.manifest, declared |-> Declaration(d.manifest), contents |-> TextsOf(d, listed),
         notice |-> d.notice, unlisted |-> Unlisted(d, listed)]

Found == Texts \cup {Absent}
Directory == [manifest : Found, notice : Found, policies : [1 .. Policies -> Found]]
Declarations == {Declaration(m) : m \in Found}
Contents == UNION {[listed -> Texts] : listed \in SUBSET (1 .. Policies)}
ProfileType == [edition : 1 .. MaxEdits + 1, pins : [1 .. Roots -> [declared : Declarations, contents : Contents]]]
Pack == [manifest : Found, declared : Declarations, contents : Contents, notice : Found,
         unlisted : SUBSET (1 .. Policies)]
Captures == [profile : ProfileType \cup {<<>>}, packs : Seq(Pack)]

TypeOK ==
    /\ past \in Seq([profile : ProfileType \cup {<<>>}, roots : [1 .. Roots -> Directory]])
    /\ Len(past) \in 1 .. MaxEdits + 1 /\ since \in 0 .. Len(past) /\ profiled \in BOOLEAN
    /\ step \in {"profile", "manifest", "list", "members", "directory", "captured", "waiting", "published", "refused"}
    /\ pass \in {"expected", "captured"} /\ selected \in ProfileType \cup {<<>>}
    /\ manifest \in Found /\ declared \in Declarations /\ members \subseteq 1 .. Policies
    /\ contents \in Contents /\ notice \in Found
    /\ packs \in Seq(Pack) /\ Len(packs) <= Roots
    /\ expected \in Captures /\ snapshot \in Captures

\* generation_sources.py:205: a capture that is accepted is of one moment.  The
\* policies, with the profile that selects them or, without one, the manifest,
\* were in the directories all at the same time, though they were read one
\* after the other while others were editing.  (Of the files left out this is
\* not true: a manifest may appear while a directory without one is captured.)
CapturedTogether ==
    step = "waiting" =>
        \E k \in DOMAIN past :
            /\ profiled => snapshot.profile = past[k].profile
            /\ \A r \in Selection :
                /\ ~profiled => snapshot.packs[r].manifest = past[k].roots[r].manifest
                /\ \A p \in DOMAIN snapshot.packs[r].contents :
                    snapshot.packs[r].contents[p] = past[k].roots[r].policies[p]

\* generations.py:1280: all that is published, notices and texts of manifests
\* included, was in the directories at the same time, and that was after the
\* publisher had got the writer lock: no publication that waited in the queue
\* activates sources of an earlier time.
PublishedIsFresh ==
    step = "published" =>
        \E k \in since .. Len(past) :
            /\ profiled => snapshot.profile = past[k].profile
            /\ \A r \in Selection : snapshot.packs[r] = Whole(past[k].roots[r])

=============================================================================
