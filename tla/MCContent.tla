------------------------------ MODULE MCContent ------------------------------
(***************************************************************************)
(* How policies are captured, read, resolved, found, judged and scored, in *)
(* one run: a behaviour is one of SourceCapture, of PolicyDocument, of     *)
(* EffectivePolicies, of Retrieval, of PolicyAnswer or of EvaluationSuite, *)
(* and `part` says of which.  What two parts both call `reading` or `pc` is*)
(* one variable here.                                                      *)
(***************************************************************************)
EXTENDS Naturals, Sequences, TLC

CONSTANTS
    MaxFront, MaxBody,  \* bounds of a document
    MaxEdits,           \* bound on the edits of packs and of sources
    Roots, FilesPerRoot, \* directories of a profile, and policies of each
    Declares, MaxText,  \* manifests, and bound on the texts of a file
    Directories, DirectoryOf, Editions, RulesOf, Profiles, Selections,  \* packs and profiles
    Lower, Matched, Requests, Indexes                                   \* patterns, actions and chunks

VARIABLES
    part, reading, pc,
    past, profiled, step, pass, selected, taken, declared, members, contents, notice, captured, expected, snapshot, since,
    front, mode, rule, block, rules, body, fence, headings,
    disk, profile, pinning, manifest, listed, got, loaded, verdict, edited,
    file, query, rows, limit, found, reply, hits, replaced,
    request, context, altered, packet, triggers, attempts, outcome,
    order, current, held, phase, scored, saved, told

-----------------------------------------------------------------------------
(* Sources: two directories of two policies.  Of the manifests two declare  *)
(* the same and one has other terms and lists another policy.              *)

MCDeclares == <<
    [pack |-> 1, terms |-> 1, members |-> {1}], [pack |-> 1, terms |-> 1, members |-> {1}],
    [pack |-> 1, terms |-> 2, members |-> {1, 2}] >>

Sources == INSTANCE SourceCapture WITH Policies <- FilesPerRoot, manifest <- taken, packs <- captured

-----------------------------------------------------------------------------
(* Documents: lines at every indentation, headings, fences.                *)

FrontLine(at, key, value) == [at |-> at, key |-> key, value |-> value]
Heading(level, title) == [kind |-> "heading", level |-> level, title |-> title]
Fence(marker, size, bare) == [kind |-> "fence", marker |-> marker, size |-> size, bare |-> bare]

FrontLines ==
    {FrontLine("blank", "none", "none"), FrontLine("odd", "none", "scalar"), FrontLine("dash", "none", "scalar")}
    \cup {FrontLine("margin", key, value) : key \in {"tags", "runtime_rules"}, value \in {"none", "scalar"}}
    \cup {FrontLine("margin", "none", "none"), FrontLine("rule", "core", "scalar"), FrontLine("rule", "globs", "none"),
          FrontLine("field", "core", "scalar"), FrontLine("field", "globs", "none"), FrontLine("field", "hosts", "list")}
    \cup {FrontLine("item", "none", value) : value \in {"scalar", "typed"}}

\* The second heading of level 1 reads as the number that a repetition would get.
BodyLines ==
    {[kind |-> "blank"], [kind |-> "text"],
     Heading(1, <<"a">>), Heading(1, <<"a", 2>>), Heading(2, <<"a">>), Heading(3, <<"b">>),
     Fence("tick", 3, TRUE), Fence("tick", 4, TRUE), Fence("tilde", 3, FALSE)}

Document == INSTANCE PolicyDocument WITH Families <- {"globs", "hosts"}, Title <- <<"a">>

-----------------------------------------------------------------------------
(* Packs: x in two versions, y in two contents, and profiles of them that   *)
(* exclude, replace and name conflicts, as they should and as they should not.*)

Rule(action, patterns, effect, first, last) ==
    [action |-> action, patterns |-> patterns, effect |-> effect, first |-> first, last |-> last]
MCRulesOf ==
    "a1" :> {Rule("http_request", {"H"}, "block", 3, 4)} @@ "a2" :> {Rule("http_request", {"h"}, "confirm", 3, 5)}
    @@ "b1" :> {Rule("http_request", {"h"}, "confirm", 2, 3), Rule("shell_command", {"s"}, "block", 4, 6)}
    @@ "b2" :> {} @@ "c1" :> {Rule("shell_command", {"s", "t"}, "confirm", 3, 3)}

Edition(pack, version, files) == [pack |-> pack, version |-> version, files |-> files]
X1 == Edition("x", 1, "a" :> "a1" @@ "b" :> "b1")
X2 == Edition("x", 2, "a" :> "a2" @@ "b" :> "b1")
YC == Edition("y", 1, "c" :> "c1")
YB == Edition("y", 1, "b" :> "b2")

Pin(path, edition) == [path |-> path, pack |-> edition.pack, version |-> edition.version, members |-> edition.files]
Out(target, digest) == [target |-> target, digest |-> digest, by |-> "none"]
Instead(target, digest, by) == [target |-> target, digest |-> digest, by |-> by]
Profile(packs, decisions, conflicts) == [packs |-> packs, decisions |-> decisions, conflicts |-> conflicts]

MCProfiles ==
    {Profile(<<Pin("px", X1), Pin("py", YC)>>, decisions, conflicts) :
        conflicts \in {{}, {<<"a", "c">>}},
        decisions \in {<<>>, <<Out("a", "a1")>>, <<Out("a", "a2")>>, <<Out("d", "a1")>>,
                       <<Out("b", "b1"), Instead("b", "b1", "c")>>,
                       <<Instead("a", "a1", "b")>>, <<Instead("b", "b1", "a")>>, <<Instead("a", "a1", "d")>>,
                       <<Instead("a", "a1", "b"), Instead("b", "b1", "c")>>,
                       <<Instead("a", "a1", "b"), Instead("c", "c1", "b")>>,
                       <<Out("a", "a1"), Out("b", "b1"), Out("c", "c1")>>}}
    \cup {Profile(<<Pin("px", X2), Pin("py", YC)>>, <<>>, conflicts) : conflicts \in {{}, {<<"a", "a">>}}}
    \cup {Profile(<<Pin("px", X2), Pin("py", YB)>>, <<>>, {}), Profile(<<Pin("py", YC), Pin("qy", YC)>>, <<>>, {})}

Chunk(policy, first, last) == [policy |-> policy, first |-> first, last |-> last]

MCDirectoryOf == "px" :> "dx" @@ "py" :> "dy" @@ "qy" :> "dy"
MCEditions == {X1, X2, YC, YB}
MCSelections == {<<"px">>, <<"px", "py">>, <<"py", "qy">>}
MCLower == "H" :> "h" @@ "h" :> "h" @@ "s" :> "s" @@ "t" :> "t"
MCMatched == "h" :> {"host"} @@ "H" :> {} @@ "s" :> {"run"} @@ "t" :> {"run", "make"}
MCRequests ==
    {[kind |-> "http_request", values |-> {"host"}], [kind |-> "file_write", values |-> {"run"}]}
        \cup {[kind |-> "shell_command", values |-> values] : values \in {{"run"}, {"make"}, {"make", "run"}}}
MCIndexes ==
    {{}, {Chunk("b", 3, 4)},
     {Chunk("a", 1, 3), Chunk("a", 4, 9), Chunk("b", 1, 2), Chunk("b", 6, 8), Chunk("c", 3, 5)}}

Pack == INSTANCE EffectivePolicies

-----------------------------------------------------------------------------
(* An index of up to three rows, and a generation of a policy of two chunks *)
(* and one of one chunk.                                                   *)

Search == INSTANCE Retrieval WITH
    Domains <- {"a", "b"}, MaxRows <- 3, TopKs <- {1}, Pool <- 2, DomainMultiplier <- 1, MinDomain <- 1,
    MaxScore <- 1, MaxReplaced <- 1

Answer == INSTANCE PolicyAnswer WITH
    PolicyCount <- 2, Parts <- <<2, 1>>, Wordless <- {2}, TopK <- 3, MaxPerPolicy <- 2, MaxContext <- 3,
    MaxRegenerations <- 2, MaxRanked <- 3

-----------------------------------------------------------------------------
(* A suite of a search and a preflight, and answers that are good or deviate*)
(* in one respect.                                                         *)

Cases == <<
    [kind |-> "search", insufficient |-> FALSE, expected |-> {"p"}, chunks |-> {"p"}, forbidden |-> {"q"}],
    [kind |-> "preflight", insufficient |-> FALSE, expected |-> {"p"}, chunks |-> {}, forbidden |-> {"q"}] >>

Order(live, compare, only, given, catalog, revisions) ==
    [live |-> live, compare |-> compare, only |-> only, given |-> given, catalog |-> catalog, revisions |-> revisions]
Orders ==
    {Order(FALSE, TRUE, 0, "none", "none", <<>>), Order(TRUE, TRUE, 0, "none", "g1", <<>>),
     Order(TRUE, FALSE, 0, "none", "none", "p" :> 2), Order(TRUE, FALSE, 0, "g1", "none", <<>>),
     Order(TRUE, FALSE, 2, "g1", "none", "p" :> 1), Order(TRUE, FALSE, 2, "none", "g1", <<>>)}

Cited(p, r) == [policy |-> p, revision |-> r]
CitationSets == {{}, {Cited("p", 1)}, {Cited("p", 2)}, {Cited("p", 1), Cited("q", 1)}}
Good ==
    [insufficient |-> FALSE, citations |-> {Cited("p", 1)}, guidance |-> {"p"}, misbound |-> {}, texts |-> TRUE,
     mention |-> "none", conformance |-> "passed", extra |-> {}]
SearchAnswers ==
    {[Good EXCEPT !.insufficient = insufficient, !.citations = citations, !.guidance = {}, !.texts = FALSE,
                  !.conformance = "none"] : insufficient \in BOOLEAN, citations \in CitationSets}
Deviations(a) ==
    {a, [a EXCEPT !.insufficient = TRUE], [a EXCEPT !.texts = FALSE], [a EXCEPT !.extra = {Cited("q", 1)}],
     [a EXCEPT !.misbound = {"p"}]}
    \cup {[a EXCEPT !.guidance = policies] : policies \in {{}, {"p", "q"}}}
    \cup {[a EXCEPT !.mention = mention] : mention \in {"words", "p"}}
    \cup {[a EXCEPT !.conformance = checked] : checked \in {"none", "failed"}}
    \cup {[a EXCEPT !.citations = citations] : citations \in CitationSets}
PreflightAnswers ==
    UNION {Deviations(a) : a \in {Good, [Good EXCEPT !.mention = "p"], [Good EXCEPT !.insufficient = TRUE]}}

Suite == INSTANCE EvaluationSuite WITH
    Policies <- {"p", "q"}, Revisions <- {1, 2}, Pinnable <- {"g1", "g2"}, NoGen <- "none",
    RevisionOf <- "g1" :> ("p" :> 1 @@ "q" :> 1) @@ "g2" :> ("p" :> 2 @@ "q" :> 1),
    Live <- "g1" :> {"p", "q"} @@ "g2" :> {"p", "q"},
    Family <- "p" :> "pack" @@ "q" :> "domain", Naming <- {"p"}

ASSUME PartsAssumption ==
    /\ Document!DocumentAssumption /\ Pack!PoliciesAssumption /\ Suite!SuiteAssumption
    /\ Search!RetrievalAssumption /\ Answer!AnswerAssumption /\ Sources!SourcesAssumption

-----------------------------------------------------------------------------
ofSources == <<past, profiled, step, pass, selected, taken, declared, members, contents, notice, captured, expected,
               snapshot, since>>
ofDocument == <<front, mode, rule, block, rules, body, fence, headings>>
ofPack == <<disk, profile, pinning, manifest, listed, got, loaded, verdict, edited>>
ofSearch == <<file, query, rows, limit, found, reply, hits, replaced>>
ofAnswer == <<request, context, altered, packet, triggers, attempts, outcome>>
ofSuite == <<order, current, held, phase, scored, saved, told>>

contentVars == <<part, reading, pc, ofSources, ofDocument, ofPack, ofSearch, ofAnswer, ofSuite>>

\* What a part does not use has some constant value.
NoSources ==
    /\ past = 0 /\ profiled = FALSE /\ step = 0 /\ pass = 0 /\ selected = 0 /\ taken = 0 /\ declared = 0 /\ members = 0
    /\ contents = 0 /\ notice = 0 /\ captured = 0 /\ expected = 0 /\ snapshot = 0 /\ since = 0
NoDocument ==
    front = 0 /\ mode = 0 /\ rule = 0 /\ block = 0 /\ rules = 0 /\ body = 0 /\ fence = 0 /\ headings = 0
NoPack ==
    /\ disk = 0 /\ profile = 0 /\ pinning = FALSE /\ manifest = 0 /\ listed = 0 /\ got = 0 /\ loaded = 0
    /\ verdict = 0 /\ edited = 0
NoSearch == file = 0 /\ query = 0 /\ rows = 0 /\ limit = 0 /\ found = 0 /\ reply = 0 /\ hits = 0 /\ replaced = 0
NoAnswer ==
    request = 0 /\ context = 0 /\ altered = FALSE /\ packet = 0 /\ triggers = {} /\ attempts = 0 /\ outcome = "none"
NoSuite == order = 0 /\ current = 0 /\ held = 0 /\ phase = 0 /\ scored = 0 /\ saved = 0 /\ told = 0

\* A part begins in its initial states, beside constant values of the others.
Begin(name, init, none) == IF part = name THEN init ELSE none

ContentInit ==
    /\ part \in {"sources", "document", "packs", "search", "answer", "suite"}
    /\ Begin("sources", Sources!Init, NoSources)
    /\ Begin("document", Document!Init, NoDocument)
    /\ Begin("packs", Pack!Init, NoPack)
    /\ Begin("search", Search!Init, NoSearch)
    /\ Begin("answer", Answer!Init, NoAnswer)
    /\ Begin("suite", Suite!Init, NoSuite)
    /\ Begin("document", TRUE, Begin("packs", TRUE, reading = 0))
    /\ Begin("search", TRUE, Begin("answer", TRUE, pc = 0))

DocumentInit == part = "document" /\ ContentInit

InSources(action) ==
    part = "sources" /\ action /\ UNCHANGED <<part, reading, pc, ofDocument, ofPack, ofSearch, ofAnswer, ofSuite>>
InDocument(action) ==
    part = "document" /\ action /\ UNCHANGED <<part, pc, ofSources, ofPack, ofSearch, ofAnswer, ofSuite>>
InPack(action) ==
    part = "packs" /\ action /\ UNCHANGED <<part, pc, ofSources, ofDocument, ofSearch, ofAnswer, ofSuite>>
InSearch(action) ==
    part = "search" /\ action /\ UNCHANGED <<part, reading, ofSources, ofDocument, ofPack, ofAnswer, ofSuite>>
InAnswer(action) ==
    part = "answer" /\ action /\ UNCHANGED <<part, reading, ofSources, ofDocument, ofPack, ofSearch, ofSuite>>
InSuite(action) ==
    part = "suite" /\ action /\ UNCHANGED <<part, reading, pc, ofSources, ofDocument, ofPack, ofSearch, ofAnswer>>

ContentNext ==
    \/ InSources(Sources!Next)
    \/ InDocument(Document!Next)
    \/ InPack(Pack!Next)
    \/ InSearch(Search!Next)
    \/ InAnswer(Answer!Next)
    \/ InSuite(Suite!Next)

ContentSpec == ContentInit /\ [][ContentNext]_contentVars
DocumentSpec == DocumentInit /\ [][ContentNext]_contentVars

-----------------------------------------------------------------------------
\* The type invariants of all parts.
ContentTypeOK ==
    /\ part = "sources" => Sources!TypeOK
    /\ part = "document" => Document!TypeOK
    /\ part = "packs" => Pack!TypeOK
    /\ part = "search" => Search!TypeOK
    /\ part = "answer" => Answer!TypeOK
    /\ part = "suite" => Suite!TypeOK

\* SourceCapture: what is captured was there all at once, and what is published
\* still was when the publisher had the writer lock.
CapturesAreWhole == part = "sources" => Sources!CapturedTogether /\ Sources!PublishedIsFresh

\* PolicyDocument: an accepted document reads as it is written.
ReadsAsWritten == part = "document" => Document!RulesKeepTheirLines /\ Document!SectionsTileTheBody

\* EffectivePolicies: the policies that are resolved, compiled and obeyed are
\* those that were reviewed.
ReviewedPoliciesDecide ==
    part = "packs" => Pack!EffectiveIsReviewed /\ Pack!RulesAgree /\ Pack!DecisionsFollowRules

\* Retrieval and PolicyAnswer: the candidates are the nearest of the domain, the
\* hits are ranked as the reranker's reply says, guidance is whole policies of
\* the retained context, and the report of a regeneration tells its attempts.
AnswersAreGrounded ==
    /\ part = "search" => Search!NearestOfDomain /\ Search!HitsFollowReply
    /\ part = "answer" => Answer!GuidanceIsWhole /\ Answer!ReportTellsTheAttempts

\* EvaluationSuite: a case passes when all is as its author asked, by evidence
\* of the generation of the run, and the reports add up.
VerdictsAreEarned == part = "suite" => Suite!VerdictsAreEarned /\ Suite!ReportsAddUp

\* docs/architecture.md:57, "off-template but readable Markdown is still accepted
\* when meaningful content can be recovered", into an index whose chunk
\* identifiers are UNIQUE: the chunks of a document differ in their identifiers.
ChunkIdsAreUnique == part = "document" => Document!ChunkIdsAreUnique

=============================================================================
