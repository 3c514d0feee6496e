--------------------------- MODULE PolicyDocument ---------------------------
(***************************************************************************)
(* From the lines of a policy document to its runtime rules and its        *)
(* chunks: MarkdownParser in ingest/parser.py, ingest/chunking.py.         *)
(*                                                                         *)
(* The frontmatter is a mapping in a narrow subset of YAML, read line by   *)
(* line; a list of runtime rules in it keeps the lines of each rule, which *)
(* its decisions cite.  The body is cut into sections at its headings, and *)
(* each section becomes a chunk with the path of its headings, its lines   *)
(* and an identifier that is made from the path.                           *)
(*                                                                         *)
(* Abstracted: a line is its indentation and what it declares; the three   *)
(* required keys of a rule (action, effect, reason) are one key, "core";   *)
(* a title is what remains of it in an identifier, a word that a number    *)
(* may follow.  The model reads a line at a time from all that could come. *)
(***************************************************************************)
EXTENDS Naturals, Sequences, FiniteSets, SequencesExt

CONSTANTS
    FrontLines,     \* the frontmatter lines that may come
    BodyLines,      \* the body lines that may come
    MaxFront, MaxBody,  \* bounds of a document
    Families,       \* RUNTIME_RULE_MATCHER_FIELDS
    Title           \* the title of the document

\* Of the frontmatter: [at, key, value], where `at` is "margin", "rule" (two
\* blanks and a dash), "field" (four), "item" (six and a dash) or "odd"; a key is
\* "none" in a blank line, a comment or a list item.  Of the body: [kind, level,
\* title, marker, size, bare].
DocumentAssumption ==
    /\ \A line \in FrontLines : line.at \in {"margin", "blank", "rule", "field", "item", "dash", "odd"}
    /\ \A line \in BodyLines : line.kind \in {"heading", "fence", "text", "blank"}
    /\ "core" \notin Families /\ MaxFront \in Nat /\ MaxBody \in Nat \ {0}

VARIABLES
    reading,  \* position of the reader
    front,    \* the frontmatter lines that were read
    mode,     \* the function that reads the next line of the frontmatter
    rule,     \* the rule that is being read
    block,    \* the rules of the runtime_rules key that is being read
    rules,    \* the value of runtime_rules
    body,     \* the body lines that were read
    fence,    \* fence_state
    headings  \* the heading events

vars == <<reading, front, mode, rule, block, rules, body, fence, headings>>

NoRule == [start |-> 0]
NoFence == [marker |-> "none", size |-> 0]

Init ==
    /\ reading \in {"front", "body"}  \* a document need not have a frontmatter
    /\ front = <<>> /\ mode = "top" /\ rule = NoRule /\ block = <<>> /\ rules = <<>>
    /\ body = <<>> /\ fence = NoFence /\ headings = <<>>

ofBody == <<body, fence, headings>>
ofFront == <<front, mode, rule, block, rules>>

-----------------------------------------------------------------------------
(* Frontmatter: _parse_frontmatter_mapping and _parse_runtime_rules.       *)

\* _frontmatter_line_number of the line that is read next.
LineNumber == Len(front) + 2
InRule == mode \in {"rule", "matchers"}

\* The model of ParsedRuntimeRule: all required keys and one family of matchers.
Whole(r) == r.core /\ Cardinality({f \in Families : r.matchers[f] # <<>>}) = 1

\* Mutant of MayClose: the last rule of a block is not validated.
MayCloseUnread == mode = "rules" => block # <<>>

\* Where the nested constructs end: the rule has to be whole, and the block not empty.
MayClose == (InRule => Whole(rule)) /\ (mode = "rules" => block # <<>>)

Closed == IF InRule THEN Append(block, rule) ELSE block

\* The value of the runtime_rules key that ends here, if one does: it replaces
\* that of an earlier key.
CloseBlock ==
    /\ rules' = IF InRule \/ mode = "rules" THEN Closed ELSE rules
    /\ block' = <<>> /\ rule' = NoRule

Refuse(line) ==
    /\ reading' = "refused"
    /\ front' = Append(front, line)
    /\ UNCHANGED <<mode, rule, block, rules, ofBody>>

Take(line, next) == front' = Append(front, line) /\ mode' = next /\ UNCHANGED <<reading, ofBody>>

\* Every loop passes over blank lines and comments.
Blank(line) == line.at = "blank" /\ Take(line, mode) /\ UNCHANGED <<rule, block, rules>>

\* A key at the margin ends what was open.
TopKey(line) ==
    /\ line.at = "margin" /\ line.key # "none"
    /\ IF ~MayClose \/ (line.key = "runtime_rules" /\ line.value # "none")
       THEN Refuse(line)
       ELSE /\ CloseBlock
            /\ Take(line, IF line.key = "runtime_rules" THEN "rules"
                          ELSE IF line.value = "none" THEN "pending"
                          ELSE "top")

\* _parse_frontmatter_list, which takes a dash at any indentation.
ListItem(line) ==
    /\ line.at \in {"dash", "rule", "item"} /\ mode \in {"pending", "list"}
    /\ Take(line, "list") /\ UNCHANGED <<rule, block, rules>>

\* _coerce_runtime_rule_value: a core key is one string, a matcher a list of strings.
GoodField(line) ==
    \/ line.key = "core" /\ line.value = "scalar"
    \/ line.key \in Families /\ line.value \in {"none", "list", "empty"}

Matchers(line) == IF line.value = "list" THEN <<LineNumber>> ELSE <<>>

\* Mutant of WithField: a field that follows a list does not extend the lines.
WithFieldLate(r, line) ==
    IF line.key = "core"
    THEN [r EXCEPT !.core = TRUE, !.seen = @ \cup {line.key}]
    ELSE [r EXCEPT !.matchers[line.key] = Matchers(line), !.seen = @ \cup {line.key}, !.last = LineNumber]

\* _consume_runtime_rule_field: the matchers are kept as their line numbers.
WithField(r, line) ==
    IF line.key = "core"
    THEN [r EXCEPT !.core = TRUE, !.seen = @ \cup {line.key}, !.last = LineNumber]
    ELSE [r EXCEPT !.matchers[line.key] = Matchers(line), !.seen = @ \cup {line.key}, !.last = LineNumber]

After(line) == IF line.key \in Families /\ line.value = "none" THEN "matchers" ELSE "rule"

\* The first line of a rule ends the one before.
StartRule(line) ==
    /\ line.at = "rule" /\ (mode = "rules" \/ InRule)
    /\ IF ~GoodField(line) \/ (InRule /\ ~Whole(rule))
       THEN Refuse(line)
       ELSE /\ block' = Closed
            /\ rule' = WithField([start |-> LineNumber, last |-> LineNumber, core |-> FALSE, seen |-> {},
                                  family |-> line.key, matchers |-> [f \in Families |-> <<>>]], line)
            /\ Take(line, After(line)) /\ UNCHANGED rules

\* A further field; no key comes twice in a rule.
AddField(line) ==
    /\ line.at = "field" /\ InRule
    /\ IF ~GoodField(line) \/ line.key \in rule.seen
       THEN Refuse(line)
       ELSE /\ rule' = [WithField(rule, line) EXCEPT !.family = line.key]
            /\ Take(line, After(line)) /\ UNCHANGED <<block, rules>>

\* _parse_runtime_rule_matcher_list: an item of the family that was opened last.
AddMatcher(line) ==
    /\ line.at = "item" /\ mode = "matchers"
    /\ IF line.value = "typed"
       THEN Refuse(line)
       ELSE /\ rule' = [rule EXCEPT !.matchers[rule.family] = Append(@, LineNumber), !.last = LineNumber]
            /\ Take(line, mode) /\ UNCHANGED <<block, rules>>

\* Every other line raises InvalidPolicyDocumentError.
Misplaced(line) ==
    /\ CASE line.at = "margin" -> line.key = "none"
         [] line.at = "dash" -> mode \notin {"pending", "list"}
         [] line.at = "rule" -> mode = "top"
         [] line.at = "field" -> ~InRule
         [] line.at = "item" -> mode \in {"top", "rules", "rule"}
         [] OTHER -> line.at = "odd"
    /\ Refuse(line)

ReadFront(line) ==
    /\ reading = "front" /\ Len(front) < MaxFront
    /\ Blank(line) \/ TopKey(line) \/ ListItem(line) \/ StartRule(line) \/ AddField(line)
        \/ AddMatcher(line) \/ Misplaced(line)

\* _split_frontmatter: the closing line; the body follows.
CloseFront ==
    /\ reading = "front" /\ front # <<>>  \* bound: a frontmatter has a line
    /\ IF MayClose
       THEN CloseBlock /\ reading' = "body" /\ mode' = "top"
       ELSE reading' = "refused" /\ UNCHANGED <<mode, rule, block, rules>>
    /\ UNCHANGED <<front, ofBody>>

-----------------------------------------------------------------------------
(* Body: _find_heading_events and _extract_sections.                       *)

\* body_start_line: the lines of the frontmatter and its two delimiters come before.
BodyStart == IF front = <<>> THEN 1 ELSE Len(front) + 3

\* _is_fence_closer: the same marker, at least as often, and nothing after it.
Closes(line) == line.marker = fence.marker /\ line.size >= fence.size /\ line.bare

\* One turn of _find_heading_events: nothing in a fence is a heading.
ReadBody(line) ==
    /\ reading = "body" /\ Len(body) < MaxBody
    /\ front # <<>> => body = <<>>  \* bound: a body of one line after a frontmatter
    /\ body' = Append(body, line)
    /\ fence' = IF line.kind # "fence" THEN fence
                ELSE IF fence = NoFence THEN [marker |-> line.marker, size |-> line.size]
                ELSE IF Closes(line) THEN NoFence ELSE fence
    /\ headings' = IF line.kind = "heading" /\ fence = NoFence THEN Append(headings, Len(body)') ELSE headings
    /\ UNCHANGED <<reading, ofFront>>

\* A body that is blank is refused.
CloseBody ==
    /\ reading = "body"
    /\ reading' = IF \E i \in DOMAIN body : body[i].kind # "blank" THEN "read" ELSE "refused"
    /\ UNCHANGED <<ofFront, ofBody>>

Next ==
    \/ \E line \in FrontLines : ReadFront(line)
    \/ CloseFront
    \/ \E line \in BodyLines : ReadBody(line)
    \/ CloseBody

Spec == Init /\ [][Next]_vars

-----------------------------------------------------------------------------
(* Sections and chunks.                                                    *)

\* The titles on the stack when the k-th heading has been pushed: a heading cuts
\* the stack to its level less one.
Stack(k) ==
    FoldLeft(LAMBDA stack, i :
                Append(SubSeq(stack, 1, IF body[i].level - 1 < Len(stack) THEN body[i].level - 1 ELSE Len(stack)),
                       body[i].title),
             <<>>, SubSeq(headings, 1, k))

\* Lines are counted from the start of the body.
Section(path, first, last) == [path |-> path, first |-> first, last |-> last]
Filled(first, last) == \E i \in first .. last : body[i].kind # "blank"

\* _build_preamble_section.
Preamble ==
    IF headings[1] > 1 /\ Filled(1, headings[1] - 1)
    THEN <<Section(<<Title, <<"preamble">>>>, 1, headings[1] - 1)>>
    ELSE <<>>

\* _extract_sections; the section of a heading holds at least the heading.
Sections ==
    IF headings = <<>>
    THEN <<Section(<<Title>>, 1, Len(body))>>
    ELSE Preamble \o
         [k \in DOMAIN headings |->
            Section(Stack(k), headings[k], IF k < Len(headings) THEN headings[k + 1] - 1 ELSE Len(body))]

\* chunk_policy_document: a path that was used before gets the number of its use,
\* behind the last of the titles.
ChunkId(sections, i) ==
    LET path == sections[i].path
        use == Cardinality({j \in 1 .. i : sections[j].path = path})
    IN  IF use = 1 THEN path ELSE [path EXCEPT ![Len(path)] = Append(@, use)]

\* The chunks, with the lines they cite.
Chunks ==
    LET sections == Sections
    IN  [i \in DOMAIN sections |->
            [chunk_id |-> ChunkId(sections, i), path |-> sections[i].path,
             first |-> BodyStart + sections[i].first - 1, last |-> BodyStart + sections[i].last - 1]]

-----------------------------------------------------------------------------
(* Properties.                                                             *)

TypeOK ==
    /\ reading \in {"front", "body", "read", "refused"}
    /\ Range(front) \subseteq FrontLines /\ Len(front) <= MaxFront
    /\ Range(body) \subseteq BodyLines /\ Len(body) <= MaxBody
    /\ mode \in {"top", "pending", "list", "rules", "rule", "matchers"}
    /\ \A r \in Range(block) \cup Range(rules) : Whole(r) /\ r.start <= r.last
    /\ fence = NoFence \/ fence.size >= 3
    /\ Range(headings) \subseteq DOMAIN body

LinesOf(r) == r.start .. r.last

\* The lines of the frontmatter that belong to the last runtime_rules key.
Declared ==
    LET at(i) == front[i].at
        key(i) == front[i].key
        header == {i \in DOMAIN front : at(i) = "margin" /\ key(i) = "runtime_rules"}
        first == CHOOSE i \in header : \A j \in header : j <= i
    IN  IF header = {} THEN {}
        ELSE {i + 1 : i \in {j \in DOMAIN front : j > first /\ at(j) \in {"rule", "field", "item"}
                                  /\ \A k \in first + 1 .. j : at(k) # "margin"}}

\* What an accepted frontmatter declares as rules is in the rules, each line in
\* the lines of exactly one rule; a rule cites nothing but itself, and its
\* matchers are its items.  Rules of an earlier runtime_rules key are dropped.
RulesKeepTheirLines ==
    reading \in {"body", "read"} =>
        /\ \A n \in Declared : Cardinality({i \in DOMAIN rules : n \in LinesOf(rules[i])}) = 1
        /\ \A i \in DOMAIN rules :
             /\ front[rules[i].start - 1].at = "rule" /\ rules[i].last \in Declared
             /\ \A n \in LinesOf(rules[i]) : n \in Declared \/ front[n - 1].at = "blank"
             /\ \A f \in Families : \A m \in Range(rules[i].matchers[f]) : m \in LinesOf(rules[i])
             /\ {n \in LinesOf(rules[i]) : front[n - 1].at = "item"}
                    \subseteq UNION {Range(rules[i].matchers[f]) : f \in Families}

\* The fence that is open after line i.
Open[i \in Nat] ==
    IF i = 0 THEN NoFence
    ELSE LET before == Open[i - 1]
             line == body[i]
         IN  IF line.kind # "fence" THEN before
             ELSE IF before = NoFence THEN [marker |-> line.marker, size |-> line.size]
             ELSE IF line.bare /\ line.marker = before.marker /\ line.size >= before.size THEN NoFence
             ELSE before

\* No level of the heading is left out above it.
Nested(k) ==
    \A j \in 1 .. k : body[headings[j]].level <= 1 + (IF j = 1 THEN 0 ELSE body[headings[j - 1]].level)

\* The headings that enclose the k-th, outermost first.
Ancestors(k) ==
    LET level(j) == body[headings[j]].level
    IN  {j \in 1 .. k : \A i \in j + 1 .. k : level(i) > level(j)}

\* The sections tile the body: each line that is not blank is in one of them, in
\* order, and a section starts with a heading outside every fence or, at most
\* once, with what comes before; where no level is skipped, the path of a section
\* is that of the headings that enclose it.
SectionsTileTheBody ==
    reading = "read" =>
        LET sections == Sections
            offset == Len(sections) - Len(headings)
        IN  /\ \A i \in DOMAIN sections : \A j \in DOMAIN sections : i < j => sections[i].last < sections[j].first
            /\ \A n \in DOMAIN body :
                 /\ body[n].kind # "blank" => \E i \in DOMAIN sections : n \in sections[i].first .. sections[i].last
                 /\ body[n].kind = "heading" /\ Open[n] = NoFence
                        <=> \E i \in DOMAIN sections : i > offset /\ sections[i].first = n
            /\ offset \in {0, 1}
            /\ \A k \in DOMAIN headings : Nested(k) =>
                 sections[k + offset].path
                     = LET above == SetToSortSeq(Ancestors(k), <)
                       IN  [i \in DOMAIN above |-> body[headings[above[i]]].title]

\* Chunks of a document have different identifiers.
ChunkIdsAreUnique ==
    reading = "read" =>
        LET chunks == Chunks
        IN  \A i \in DOMAIN chunks : \A j \in DOMAIN chunks : chunks[i].chunk_id = chunks[j].chunk_id => i = j

=============================================================================
