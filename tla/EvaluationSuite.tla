--------------------------- MODULE EvaluationSuite ---------------------------
(***************************************************************************)
(* The evaluation of a suite of cases: EvalService in services/eval.py.    *)
(*                                                                         *)
(* A run scores every case of a captured suite, once with the reranker and *)
(* once without it, saves a report of each mode, and compares the two.  A  *)
(* live run holds one policy generation from its start to its end, checks  *)
(* the suite against it before a provider is called, and checks what comes *)
(* back against it before it is counted, whatever is selected meanwhile.   *)
(* A worker of an evaluation job runs one case of a generation it names.   *)
(*                                                                         *)
(* Abstracted: a document has one chunk, whose coordinates change with its *)
(* revision; the texts of an answer either do not name a forbidden policy, *)
(* or name it in their own words, or are the whole text of a document that *)
(* names it; averages of recall are left out.                              *)
(***************************************************************************)
EXTENDS Naturals, Integers, Sequences, FiniteSets, SequencesExt

CONSTANTS
    Policies, Revisions,
    Pinnable, NoGen,  \* generations, and what is not one
    RevisionOf,       \* Pinnable -> policy -> revision
    Live,             \* Pinnable -> the policies that are active in it
    Family,           \* policy -> its pack or domain
    Naming,           \* the policies whose text names forbidden policies
    Cases,            \* the captured suite: a sequence of records
    Orders,           \* what a run may be asked for
    SearchAnswers, PreflightAnswers

Citations == [policy : Policies, revision : Revisions]

\* validate_expectations; a search judges by the hits alone.
SuiteAssumption ==
    /\ NoGen \notin Pinnable
    /\ \A i \in DOMAIN Cases :
         /\ Cases[i].expected \cap Cases[i].forbidden = {}
         /\ Cases[i].insufficient => Cases[i].expected \cup Cases[i].chunks = {}

VARIABLES
    order,    \* what the run was asked for
    current,  \* the selected generation
    held,     \* the generation the run holds
    phase,    \* position of the run
    scored,   \* the results of the current mode
    saved,    \* the reports on the disk, in the order of the modes
    told      \* the comparison that is returned, in a sequence of at most one

vars == <<order, current, held, phase, scored, saved, told>>

Init ==
    /\ order \in Orders /\ current \in Pinnable
    /\ held = NoGen /\ phase = "new" /\ scored = <<>> /\ saved = <<>> /\ told = <<>>

\* The cases of the run: the suite, or the one a worker was given.
Chosen == IF order.only = 0 THEN [i \in DOMAIN Cases |-> i] ELSE <<order.only>>
Modes == IF order.compare THEN <<TRUE, FALSE>> ELSE <<TRUE>>
Exact(g) == {[policy |-> p, revision |-> RevisionOf[g][p]] : p \in Live[g]}

-----------------------------------------------------------------------------
(* Scoring: _score_search_case and _score_preflight_case.                  *)

PoliciesOf(citations) == {c.policy : c \in citations}

\* What the answer cites and, with a trace, what else was compiled for it.
Evidence(answer) == answer.citations \cup answer.extra

\* The policies whose guidance cites only evidence of their own.
Bound(answer) == {p \in answer.guidance : p \notin answer.misbound /\ p \in PoliciesOf(answer.citations)}

\* _observed_preflight_policy_ids: the text of a quote is not searched.
Observed(case, answer, quotes) ==
    answer.guidance \cup PoliciesOf(Evidence(answer))
        \cup IF answer.mention = "words" \/ answer.mention \in Naming \ quotes THEN case.forbidden ELSE {}

\* _build_failure_reasons and the reasons that both kinds of case share.
Unexpected(case, answer, found) ==
    (IF case.insufficient # answer.insufficient THEN {"insufficient"} ELSE {})
        \cup (IF case.expected \subseteq found THEN {} ELSE {"missing_policy"})
        \cup (IF case.chunks \subseteq PoliciesOf(answer.citations) THEN {} ELSE {"missing_chunk"})

SearchFailures(case, answer) ==
    Unexpected(case, answer, PoliciesOf(answer.citations))
        \cup (IF case.forbidden \cap PoliciesOf(answer.citations) # {} THEN {"forbidden"} ELSE {})
        \cup (IF answer.insufficient /\ answer.citations # {} THEN {"exposed"} ELSE {})

PreflightFailures(case, answer) ==
    Unexpected(case, answer, Bound(answer))
        \cup (IF Bound(answer) # answer.guidance THEN {"unbound"} ELSE {})
        \cup (IF case.forbidden \cap Observed(case, answer, {}) # {} THEN {"forbidden"} ELSE {})
        \cup (IF answer.insufficient /\ (answer.guidance # {} \/ answer.citations # {} \/ answer.texts)
              THEN {"exposed"} ELSE {})
        \cup (IF ~answer.insufficient /\ answer.citations = {} THEN {"uncited"} ELSE {})
        \cup (IF answer.conformance = "failed" THEN {"conformance"} ELSE {})

\* `case` is the place of the case in the suite.
Result(i, answer, failures) == [case |-> i, answer |-> answer, failures |-> failures, passed |-> failures = {}]

\* One case of _score_suite_cases.
Score(i, answer) ==
    Result(i, answer,
        IF Cases[i].kind = "search" THEN SearchFailures(Cases[i], answer) ELSE PreflightFailures(Cases[i], answer))

-----------------------------------------------------------------------------
(* What a held generation says of the suite and of the results.            *)

\* validate_suite_generation.
SuiteFits(g) ==
    /\ order.catalog # NoGen \/ DOMAIN order.revisions # {}
    /\ order.catalog \in {NoGen, g}
    /\ \A p \in DOMAIN order.revisions : RevisionOf[g][p] = order.revisions[p]
    /\ \A i \in DOMAIN Cases : Cases[i].expected \cup Cases[i].chunks \subseteq Live[g]

\* _canonical_full_source_quotes: documents that are cited whole and exactly.
Quotes(answer, g) == {p \in Bound(answer) \cap Live[g] : \A c \in answer.citations : c.policy = p => c \in Exact(g)}

\* Mutant of Verified: whatever has been quoted, a forbidden policy is forgiven.
VerifiedLeniently(result, g) ==
    LET kept == result.failures \ (IF Quotes(result.answer, g) = {} THEN {} ELSE {"forbidden"})
    IN  Result(result.case, result.answer,
            kept \cup IF Evidence(result.answer) \subseteq Exact(g) THEN {} ELSE {"foreign"})

\* _validate_case_evidence: the verdict on forbidden policies is made again when
\* something is quoted, and evidence that is not of the generation is a failure.
Verified(result, g) ==
    LET answer == result.answer
        case == Cases[result.case]
        quotes == IF case.kind = "search" THEN {} ELSE Quotes(answer, g)
        again == IF case.forbidden \cap Observed(case, answer, quotes) # {} THEN {"forbidden"} ELSE {}
        kept == IF quotes = {} THEN result.failures ELSE (result.failures \ {"forbidden"}) \cup again
    IN  Result(result.case, answer,
            kept \cup IF Evidence(answer) \subseteq Exact(g) THEN {} ELSE {"foreign"})

-----------------------------------------------------------------------------
(* Reports.                                                                *)

Ids(results) == {results[i].case : i \in DOMAIN results}
Passed(results) == Ids(SelectSeq(results, LAMBDA r : r.passed))
OfKind(results, kind) == SelectSeq(results, LAMBDA r : Cases[r.case].kind = kind)
Judged(results) == SelectSeq(results, LAMBDA r : Cases[r.case].kind = "preflight" /\ r.answer.conformance # "none")

\* _aggregate_metrics.
Metrics(results) ==
    [cases |-> Len(results), passed |-> Cardinality(Passed(results)),
     searchPassed |-> Cardinality(Passed(OfKind(results, "search"))),
     preflightPassed |-> Cardinality(Passed(OfKind(results, "preflight"))),
     judged |-> Len(Judged(results)),
     conforming |-> Len(SelectSeq(Judged(results), LAMBDA r : r.answer.conformance = "passed"))]

\* The families a case is counted in.
FamiliesOf(i, g) ==
    LET gold == IF g = NoGen THEN {} ELSE (Cases[i].expected \cup Cases[i].chunks) \cap Live[g]
    IN  IF gold = {} THEN {"unassigned"} ELSE {Family[p] : p \in gold}

\* _source_coverage: the families of the generation, and those of the cases.
Coverage(results, g) ==
    LET counted(family) == SelectSeq(results, LAMBDA r : family \in FamiliesOf(r.case, g))
        families == (IF g = NoGen THEN {} ELSE {Family[p] : p \in Live[g]})
                        \cup UNION {FamiliesOf(results[i].case, g) : i \in DOMAIN results}
    IN  [family \in families |-> [ids |-> Ids(counted(family)), passed |-> Passed(counted(family))]]

Report(results, g) ==
    [rerank |-> Modes[Len(saved) + 1], generation |-> g, ids |-> Ids(results), passed |-> Passed(results),
     metrics |-> Metrics(results), coverage |-> Coverage(results, g), page |-> FALSE]

\* _compare_mode_results; the modes have the same cases.
Compared(on, off) ==
    LET improved == {id \in on.ids : id \in on.passed /\ id \notin off.passed}
        regressed == {id \in on.ids : id \in off.passed /\ id \notin on.passed}
    IN  [improved |-> improved, regressed |-> regressed, unchanged |-> on.ids \ (improved \cup regressed),
         delta |-> on.metrics.passed - off.metrics.passed]

-----------------------------------------------------------------------------
(* The run.                                                                *)

\* Somebody selects another generation.
Select(g) ==
    /\ current' = g
    /\ UNCHANGED <<order, held, phase, scored, saved, told>>

\* run and evaluate_case: a live run holds the generation its settings name, or
\* the selected one, if the suite fits; a worker has to name one.
Start ==
    LET g == IF order.given = NoGen THEN current ELSE order.given
    IN  /\ phase = "new"
        /\ IF ~order.live
           THEN phase' = "case" /\ UNCHANGED held
           ELSE IF (order.only # 0 /\ order.given = NoGen) \/ ~SuiteFits(g)
                THEN phase' = "failed" /\ UNCHANGED held
                ELSE phase' = "case" /\ held' = g
        /\ UNCHANGED <<order, current, scored, saved, told>>

Answers(i) == IF Cases[i].kind = "search" THEN SearchAnswers ELSE PreflightAnswers

\* _score_suite_cases: the services read the held generation.
RunCase ==
    /\ phase = "case" /\ Len(scored) < Len(Chosen)
    /\ LET i == Chosen[Len(scored) + 1]
       IN  \E answer \in Answers(i) : scored' = Append(scored, Score(i, answer))
    /\ UNCHANGED <<order, current, held, phase, saved, told>>

\* The evidence of a live run is checked before anything is counted.
Check ==
    /\ phase = "case" /\ Len(scored) = Len(Chosen)
    /\ scored' = IF order.live THEN [i \in DOMAIN scored |-> Verified(scored[i], held)] ELSE scored
    /\ phase' = IF order.only # 0 THEN "returned" ELSE "checked"
    /\ UNCHANGED <<order, current, held, saved, told>>

\* _persist_mode_run: first the results, in a file of its own.
SaveResults ==
    /\ phase = "checked"
    /\ saved' = Append(saved, Report(scored, held))
    /\ phase' = "page"
    /\ UNCHANGED <<order, current, held, scored, told>>

\* Then the page; the next mode, or the end of the run.
SavePage ==
    /\ phase = "page"
    /\ saved' = [saved EXCEPT ![Len(saved)].page = TRUE]
    /\ scored' = <<>>
    /\ IF Len(saved) < Len(Modes)
       THEN phase' = "case" /\ UNCHANGED told
       ELSE phase' = "returned" /\ told' = IF order.compare THEN <<Compared(saved[1], saved[2])>> ELSE <<>>
    /\ UNCHANGED <<order, current, held>>

\* A provider, the budget of a case, a disk or an interrupt ends the run.
Fail ==
    /\ phase \notin {"new", "returned", "failed"}
    /\ phase' = "failed"
    /\ UNCHANGED <<order, current, held, scored, saved, told>>

Next ==
    \/ \E g \in Pinnable : Select(g)
    \/ Start \/ RunCase \/ Check \/ SaveResults \/ SavePage \/ Fail

Spec == Init /\ [][Next]_vars

-----------------------------------------------------------------------------
(* Properties.                                                             *)

TypeOK ==
    /\ order \in Orders /\ current \in Pinnable /\ held \in Pinnable \cup {NoGen}
    /\ phase \in {"new", "case", "checked", "page", "returned", "failed"}
    /\ \A i \in DOMAIN scored :
         scored[i].case = Chosen[i] /\ scored[i].answer \in Answers(Chosen[i]) /\ scored[i].passed \in BOOLEAN
    /\ Len(saved) <= Len(Modes) /\ \A i \in DOMAIN saved : saved[i].rerank = Modes[i]
    /\ Len(told) <= 1 /\ \A i \in DOMAIN told : told[i].delta \in -Len(Cases) .. Len(Cases)

\* What a reader of a live report may conclude from a case that passed.
Earned(case, answer) ==
    LET evidence == Evidence(answer)
        sources == IF case.kind = "search" THEN PoliciesOf(answer.citations) ELSE Bound(answer)
    IN  /\ case.insufficient <=> answer.insufficient
        /\ case.expected \subseteq sources /\ case.chunks \subseteq PoliciesOf(answer.citations)
        /\ \A c \in evidence : c.policy \in Live[held] /\ c.revision = RevisionOf[held][c.policy]
        /\ case.forbidden \cap (PoliciesOf(evidence) \cup answer.guidance) = {}
        /\ answer.insufficient => answer.citations = {} /\ answer.guidance = {} /\ ~answer.texts
        /\ case.kind = "preflight" =>
             /\ answer.guidance = Bound(answer) /\ answer.conformance # "failed"
             /\ answer.insufficient \/ answer.citations # {}
             \* a forbidden policy is named nowhere, or in a text that is quoted from its owner.
             /\ case.forbidden # {} => answer.mention = "none" \/ answer.mention \notin {"words"} \cup (Naming \ Bound(answer))

\* A case of a live run counts as passed exactly when its answer is sufficient,
\* of the held generation to the last citation, and free of what is forbidden.
VerdictsAreEarned ==
    order.live /\ (phase \in {"checked", "page"} \/ (phase = "returned" /\ order.only # 0)) =>
        \A i \in DOMAIN scored : scored[i].passed <=> Earned(Cases[scored[i].case], scored[i].answer)

\* Every report is of the one generation the run has held, counts each case in
\* some family, and with the comparison accounts for each change of a verdict.
ReportsAddUp ==
    /\ \A i \in DOMAIN saved :
         LET report == saved[i]
         IN  /\ report.generation = held /\ report.ids = DOMAIN Cases
             /\ report.metrics.passed = report.metrics.searchPassed + report.metrics.preflightPassed
             /\ UNION {report.coverage[f].ids : f \in DOMAIN report.coverage} = report.ids
             /\ UNION {report.coverage[f].passed : f \in DOMAIN report.coverage} = report.passed
    /\ \A i \in DOMAIN told :
         /\ told[i].delta = Cardinality(told[i].improved) - Cardinality(told[i].regressed)
         /\ told[i].improved \cup told[i].regressed \cup told[i].unchanged = DOMAIN Cases
         /\ told[i].unchanged = {c \in DOMAIN Cases : c \in saved[1].passed <=> c \in saved[2].passed}
    /\ phase = "returned" /\ order.only = 0 => Len(saved) = Len(Modes) /\ \A i \in DOMAIN saved : saved[i].page

=============================================================================
