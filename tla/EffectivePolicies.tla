-------------------------- MODULE EffectivePolicies --------------------------
(***************************************************************************)
(* From the packs that a profile selects to the decision about an action:  *)
(* services/profiles.py, ingest/loader.py, services/runtime_decision.py.   *)
(*                                                                         *)
(* A profile pins the contents of packs, excludes or replaces some of      *)
(* their policies after a review of these, and names pairs that must not   *)
(* both stay.  What is left is effective: its runtime rules decide about   *)
(* the actions of an agent, and a decision cites the rules behind it.  The *)
(* packs are directories that others may edit while they are read.         *)
(*                                                                         *)
(* Abstracted: a digest is what it digests; a policy's text is a content,  *)
(* of which the rules are a function; a pattern is known by the values     *)
(* that it matches; names, formats and reasons.                            *)
(***************************************************************************)
EXTENDS Naturals, Sequences, FiniteSets, SequencesExt

CONSTANTS
    Directories,
    DirectoryOf, \* paths of pins -> directory; two paths may lead to one
    Editions,    \* [pack, version, files]: the identity of a pack and its policies' contents
    RulesOf,     \* contents -> set of [action, patterns, effect, first, last]
    Profiles,    \* profiles to resolve: [packs, decisions, conflicts]
    Selections,  \* selections to initialize a profile with: sequences of paths
    Lower,       \* patterns -> pattern in lower case
    Matched,     \* patterns -> values that match
    Requests,    \* [kind, values]
    Indexes,     \* chunks of an index: sets of [policy, first, last]
    MaxEdits     \* bound: edits of a pack

\* Paths lead to directories, an edition's files have rules that are known, and a
\* rule or a chunk has its lines in their order.
PoliciesAssumption ==
    /\ \A path \in DOMAIN DirectoryOf : DirectoryOf[path] \in Directories
    /\ \A chosen \in Profiles :
         /\ chosen.packs \in Seq(Range(chosen.packs)) \ {<<>>} /\ chosen.decisions \in Seq(Range(chosen.decisions))
         /\ \A i \in DOMAIN chosen.packs : chosen.packs[i].path \in DOMAIN DirectoryOf
    /\ Selections \subseteq Seq(DOMAIN DirectoryOf) \ {<<>>}
    /\ \A e \in Editions : \A p \in DOMAIN e.files : e.files[p] \in DOMAIN RulesOf
    /\ \A lines \in (UNION {RulesOf[content] : content \in DOMAIN RulesOf}) \cup (UNION Indexes) :
         lines.first \in Nat /\ lines.last \in Nat /\ lines.first <= lines.last
    /\ MaxEdits \in Nat

VARIABLES
    disk,      \* Directories -> edition
    profile,
    pinning,   \* initialize_profile is pinning the packs that it has selected
    reading,   \* position in _current_inputs, and the outcome
    manifest,  \* the manifest that _load_pack has read
    listed,    \* the manifest that load_policy_documents has read
    got,       \* contents of the members read so far
    loaded,    \* the pins of the packs that were read
    verdict,   \* the answer about an action
    edited     \* edits so far

vars == <<disk, profile, pinning, reading, manifest, listed, got, loaded, verdict, edited>>

NoManifest == [pack |-> "none", version |-> 0, members |-> {}]
NoVerdict == [request |-> <<>>]
ManifestOf(edition) == [pack |-> edition.pack, version |-> edition.version, members |-> DOMAIN edition.files]
Selected(path) == [path |-> path]

Init ==
    /\ disk \in [Directories -> Editions]
    /\ \/ pinning = FALSE /\ profile \in Profiles
       \/ pinning = TRUE /\ \E paths \in Selections :
            profile = [packs |-> [i \in DOMAIN paths |-> Selected(paths[i])], decisions |-> <<>>, conflicts |-> {}]
    /\ reading = "manifest" /\ manifest = NoManifest /\ listed = NoManifest /\ got = <<>>
    /\ loaded = <<>> /\ verdict = NoVerdict /\ edited = 0

Refuse == reading' = "refused" /\ UNCHANGED <<disk, profile, pinning, manifest, listed, got, loaded, verdict, edited>>

-----------------------------------------------------------------------------
(* Packs: _current_inputs, _load_pack and load_policy_documents.           *)

Expected == profile.packs[Len(loaded) + 1]
Directory == DirectoryOf[Expected.path]

\* A directory that was read for another pin is refused.
ReadManifest ==
    /\ reading = "manifest"
    /\ IF ~pinning /\ \E i \in DOMAIN loaded : DirectoryOf[loaded[i].path] = Directory
       THEN Refuse
       ELSE /\ manifest' = ManifestOf(disk[Directory]) /\ reading' = "list"
            /\ UNCHANGED <<disk, profile, pinning, listed, got, loaded, verdict, edited>>

\* load_policy_documents reads the manifest again.
ListMembers ==
    /\ reading = "list"
    /\ listed' = ManifestOf(disk[Directory]) /\ got' = <<>> /\ reading' = "members"
    /\ UNCHANGED <<disk, profile, pinning, manifest, loaded, verdict, edited>>

ReadMember ==
    /\ reading = "members"
    /\ \E policy \in listed.members \ DOMAIN got :
         IF policy \notin DOMAIN disk[Directory].files
         THEN Refuse
         ELSE /\ got' = [p \in DOMAIN got \cup {policy} |-> IF p = policy THEN disk[Directory].files[policy] ELSE got[p]]
              /\ UNCHANGED <<disk, profile, pinning, reading, manifest, listed, loaded, verdict, edited>>

\* The pin of what was read.
PinOf(path) == [path |-> path, pack |-> manifest.pack, version |-> manifest.version, members |-> got]

\* Every document carries the identity of the pack that _load_pack has seen.
SamePack == manifest.pack = listed.pack /\ manifest.version = listed.version

\* _load_pack ends; with enforced pins the packs have to be as they were pinned,
\* and a profile that is initialized is read a second time against its own pins.
PinPack ==
    /\ reading = "members" /\ DOMAIN got = listed.members
    /\ IF ~SamePack \/ (~pinning /\ PinOf(Expected.path) # Expected)
       THEN Refuse
       ELSE LET pins == Append(loaded, PinOf(Expected.path))
            IN  /\ manifest' = NoManifest /\ listed' = NoManifest /\ got' = <<>>
                /\ IF Len(pins) < Len(profile.packs)
                   THEN loaded' = pins /\ reading' = "manifest" /\ UNCHANGED <<profile, pinning>>
                   ELSE IF ~pinning
                   THEN loaded' = pins /\ reading' = "deciding" /\ UNCHANGED <<profile, pinning>>
                   ELSE /\ loaded' = <<>> /\ pinning' = FALSE
                        /\ profile' = [profile EXCEPT !.packs = pins]
                        \* PolicyProfile.unique_pack_ids
                        /\ reading' = IF \E i \in DOMAIN pins : \E j \in 1 .. i - 1 : pins[i].pack = pins[j].pack
                                      THEN "refused" ELSE "manifest"
                /\ UNCHANGED <<disk, verdict, edited>>

-----------------------------------------------------------------------------
(* Decisions: _apply_decisions and _check_runtime_conflicts.               *)

Sources(policy) == {i \in DOMAIN loaded : policy \in DOMAIN loaded[i].members}
Authored == UNION {DOMAIN loaded[i].members : i \in DOMAIN loaded}
Content(policy) == loaded[CHOOSE i \in Sources(policy) : TRUE].members[policy]

\* A decision is [target, digest, by]; it replaces the target by another policy
\* unless `by` is "none".
Decisions == profile.decisions
Targets == {Decisions[i].target : i \in DOMAIN Decisions}
Replacers == {Decisions[i].by : i \in DOMAIN Decisions} \ {"none"}
Active == Authored \ Targets

\* Contradictory exclusions or multiple replacements.
Contradictory ==
    \E i \in DOMAIN Decisions : \E j \in 1 .. i - 1 :
        \/ Decisions[i].target = Decisions[j].target
        \/ Decisions[i].by = Decisions[j].by /\ Decisions[i].by # "none"

\* A decision about a policy that is not there, or not as it was reviewed, or with
\* a replacement that is not there.
Unfounded(d) ==
    \/ d.target \notin Authored
    \/ d.digest # Content(d.target)
    \/ d.by # "none" /\ d.by \notin Authored

\* The key of _check_runtime_conflicts; hosts are compared in lower case.
SameMatchers(r, s) ==
    /\ r.action = s.action
    /\ IF r.action = "http_request"
       THEN {Lower[p] : p \in r.patterns} = {Lower[p] : p \in s.patterns}
       ELSE r.patterns = s.patterns

\* The compiled rules of the effective policies.
Rules == {[policy |-> p, rule |-> r] : p \in Active, r \in UNION {RulesOf[Content(q)] : q \in Active}}
CompiledRules == {c \in Rules : c.rule \in RulesOf[Content(c.policy)]}

RuntimeConflict ==
    \E c \in CompiledRules : \E d \in CompiledRules : SameMatchers(c.rule, d.rule) /\ c.rule.effect # d.rule.effect

\* Mutant of Acceptable: a replacement may be excluded or replaced itself.
AcceptableChains ==
    /\ \A p \in Authored : Cardinality(Sources(p)) = 1
    /\ ~Contradictory
    /\ \A i \in DOMAIN Decisions : ~Unfounded(Decisions[i])
    /\ Active # {}
    /\ \A pair \in profile.conflicts : pair[1] # pair[2] /\ {pair[1], pair[2]} \subseteq Authored
    /\ \A pair \in profile.conflicts : ~({pair[1], pair[2]} \subseteq Active)
    /\ ~RuntimeConflict

Acceptable ==
    /\ \A p \in Authored : Cardinality(Sources(p)) = 1
    /\ ~Contradictory
    /\ Targets \cap Replacers = {}
    /\ \A i \in DOMAIN Decisions : ~Unfounded(Decisions[i])
    /\ Active # {}
    /\ \A pair \in profile.conflicts : pair[1] # pair[2] /\ {pair[1], pair[2]} \subseteq Authored
    /\ \A pair \in profile.conflicts : ~({pair[1], pair[2]} \subseteq Active)
    /\ ~RuntimeConflict

Resolve ==
    /\ reading = "deciding"
    /\ reading' = IF Acceptable THEN "resolved" ELSE "refused"
    /\ UNCHANGED <<disk, profile, pinning, manifest, listed, got, loaded, verdict, edited>>

-----------------------------------------------------------------------------
(* Actions: RuntimeDecisionService.decide.                                 *)

\* _rule_matches: any candidate of the action and any pattern of the rule.
RuleMatches(rule, request) ==
    /\ rule.action = request.kind
    /\ \E p \in rule.patterns :
         request.values \cap Matched[IF rule.action = "http_request" THEN Lower[p] ELSE p] # {}

\* _line_spans_overlap.
Overlaps(chunk, rule) == chunk.first <= rule.last /\ rule.first <= chunk.last

\* _link_citations: the chunks of the rule's policy that share a line with it.
Linked(index, c) == {chunk \in index : chunk.policy = c.policy /\ Overlaps(chunk, c.rule)}

\* _source_rule_citations: the rule's own lines in the generation.
SourceSpan(c) == [policy |-> c.policy, first |-> c.rule.first, last |-> c.rule.last]

\* Without a generation the rules are linked to the chunks of an index; what
\* cannot be linked is an error.
Decide(request, pinned, index) ==
    LET hits == {c \in CompiledRules : RuleMatches(c.rule, request)}
        citations == IF pinned THEN {SourceSpan(c) : c \in hits} ELSE UNION {Linked(index, c) : c \in hits}
        effect == IF hits = {} THEN "allow"
                  ELSE IF \E c \in hits : c.rule.effect = "block" THEN "block" ELSE "confirm"
        broken == index = {} \/ (~pinned /\ \E c \in hits : Linked(index, c) = {})
    IN  /\ reading = "resolved" /\ verdict = NoVerdict
        /\ verdict' = [request |-> request, decision |-> IF broken THEN "error" ELSE effect,
                       citations |-> IF broken THEN {} ELSE citations]
        /\ UNCHANGED <<disk, profile, pinning, reading, manifest, listed, got, loaded, edited>>

\* An author publishes another edition in a directory.
Edit ==
    /\ edited < MaxEdits /\ edited' = edited + 1
    /\ reading \in {"manifest", "list", "members"}
    /\ \E d \in Directories : \E edition \in Editions \ {disk[d]} : disk' = [disk EXCEPT ![d] = edition]
    /\ UNCHANGED <<profile, pinning, reading, manifest, listed, got, loaded, verdict>>

Next ==
    \/ ReadManifest \/ ListMembers \/ ReadMember \/ PinPack \/ Resolve \/ Edit
    \/ \E request \in Requests, pinned \in BOOLEAN, index \in Indexes : Decide(request, pinned, index)

Spec == Init /\ [][Next]_vars

-----------------------------------------------------------------------------
(* Properties.                                                             *)

TypeOK ==
    /\ disk \in [Directories -> Editions] /\ pinning \in BOOLEAN
    /\ reading \in {"manifest", "list", "members", "deciding", "resolved", "refused"}
    /\ DOMAIN got \subseteq listed.members
    /\ Len(loaded) <= Len(profile.packs)
    /\ ~pinning => \A i \in DOMAIN loaded : loaded[i] = profile.packs[i]
    /\ verdict # NoVerdict => verdict.decision \in {"allow", "confirm", "block", "error"}
    /\ edited \in 0 .. MaxEdits

\* What is effective is what was reviewed.  Each pinned policy comes from one
\* edition of one pack, and it is effective with its pinned content unless one
\* decision, made about that content, takes it out; the policy that replaces it is
\* effective; of two that exclude each other one is out.
EffectiveIsReviewed ==
    reading = "resolved" =>
        LET pins == Range(profile.packs)
            pinned == UNION {DOMAIN pin.members : pin \in pins}
        IN  /\ \A pin \in pins : [pack |-> pin.pack, version |-> pin.version] \in
                    {[pack |-> e.pack, version |-> e.version] : e \in {x \in Editions : DOMAIN x.files = DOMAIN pin.members}}
            /\ \A p \in pinned :
                 /\ Cardinality({pin \in pins : p \in DOMAIN pin.members}) = 1
                 /\ \A pin \in pins : p \in DOMAIN pin.members =>
                      \/ p \in Active /\ Content(p) = pin.members[p]
                      \/ p \notin Active /\ Cardinality({i \in DOMAIN Decisions :
                                Decisions[i].target = p /\ Decisions[i].digest = pin.members[p]}) = 1
            /\ Replacers \subseteq Active
            /\ \A pair \in profile.conflicts : ~({pair[1], pair[2]} \subseteq Active)

\* Rules that match the same actions have the same effect.
RulesAgree ==
    reading = "resolved" =>
        \A c \in CompiledRules : \A d \in CompiledRules :
            /\ c.rule.action = d.rule.action
            /\ \A p \in c.rule.patterns : \E q \in d.rule.patterns : Lower[p] = Lower[q]
            /\ \A q \in d.rule.patterns : \E p \in c.rule.patterns : Lower[p] = Lower[q]
            /\ c.rule.action = "http_request" \/ c.rule.patterns = d.rule.patterns
            => c.rule.effect = d.rule.effect

\* An action is blocked if and only if an effective rule blocks it and allowed if
\* and only if none matches; a decision cites lines of every rule behind it, and
\* nothing of a policy without one.
DecisionsFollowRules ==
    verdict # NoVerdict /\ verdict.decision # "error" =>
        LET hits == {c \in CompiledRules : RuleMatches(c.rule, verdict.request)}
        IN  /\ verdict.decision = "block" <=> \E c \in hits : c.rule.effect = "block"
            /\ verdict.decision = "allow" <=> hits = {}
            /\ \A c \in hits : \E cited \in verdict.citations :
                 cited.policy = c.policy /\ (cited.first .. cited.last) \cap (c.rule.first .. c.rule.last) # {}
            /\ \A cited \in verdict.citations : \E c \in hits : cited.policy = c.policy

=============================================================================
