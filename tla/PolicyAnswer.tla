---------------------------- MODULE PolicyAnswer ----------------------------
(***************************************************************************)
(* From a task to guidance: services/router.py, compiler.py, preflight.py, *)
(* conformance.py, regeneration.py, evidence_trace.py and source_units.py. *)
(*                                                                         *)
(* A model reranks, compiles, writes and judges, and nothing it says is    *)
(* trusted: guidance quotes whole policies of the pinned generation or is  *)
(* refused as insufficient.  A judgement that names material evidence asks *)
(* for another attempt, a bounded number of times.                         *)
(*                                                                         *)
(* Abstracted: a text or a list of references is the policy it is equal    *)
(* to, 0 for any other; a judgement names policies instead of constraint   *)
(* and chunk identifiers; scores are a sign; sizes are counts of chunks.   *)
(***************************************************************************)
EXTENDS Naturals, Sequences, FiniteSets, SequencesExt

CONSTANTS
    PolicyCount,      \* policies of the generation, numbered in catalog order
    Parts,            \* chunks of each
    Wordless,         \* policies whose text has no Latin letter or digit
    TopK,
    MaxPerPolicy,     \* _MAX_CHUNKS_PER_POLICY
    MaxContext,       \* _MAX_POLICY_CONTEXT_CHUNKS
    MaxRegenerations,
    MaxRanked         \* bound: length of a ranking

Policies == 1 .. PolicyCount

AnswerAssumption ==
    /\ PolicyCount \in Nat \ {0} /\ Parts \in [Policies -> Nat \ {0}] /\ Wordless \subseteq Policies
    /\ TopK \in Nat \ {0} /\ MaxPerPolicy \in Nat \ {0} /\ MaxContext \in Nat
    /\ MaxRegenerations \in Nat /\ MaxRanked \in Nat

VARIABLES
    request,  \* its limit, and the composition of the service
    pc,
    context,  \* retained_context
    altered,  \* a provider has changed the chunks it was handed
    packet,   \* the policies that the compiled packet requires, in its order
    triggers, \* of the attempt to come
    attempts,
    outcome   \* the reason why the regeneration stopped

vars == <<request, pc, context, altered, packet, triggers, attempts, outcome>>

Init ==
    /\ request \in [limit : 0 .. MaxRegenerations, extractive : BOOLEAN, judged : BOOLEAN]
    /\ pc = "route" /\ context = <<>> /\ altered = FALSE /\ packet = <<>>
    /\ triggers = {} /\ attempts = <<>> /\ outcome = "none"

-----------------------------------------------------------------------------
(* Routing.                                                                *)

ChunksOf(p) == {[policy |-> p, part |-> i] : i \in 1 .. Parts[p]}
Chunks == UNION {ChunksOf(p) : p \in Policies}
Alien == [policy |-> 0, part |-> 0]  \* a chunk that was not among the candidates
Selected(ctx) == {c.policy : c \in ToSet(ctx)}

\* _retain_policy_evidence: those with a signal, a few of each policy.
Retain(ranking, weak) ==
    LET keep(kept, c) ==
          IF \/ Len(kept) >= TopK \/ c \in weak
             \/ Len(SelectSeq(kept, LAMBDA k : k.policy = c.policy)) >= MaxPerPolicy
          THEN kept ELSE Append(kept, c)
    IN FoldLeft(keep, <<>>, ranking)

\* _complete_selected_context: the rest of every selected policy follows.
Completed(kept) ==
    kept \o SetToSeq(UNION {ChunksOf(p) : p \in Selected(kept)} \ ToSet(kept))

\* Retrieval and reranking; a candidate that is not the retrieved one, and a
\* context beyond its budget, are errors.
Route ==
    /\ pc = "route"
    /\ \E ranking \in BoundedSeq(Chunks \cup {Alien}, MaxRanked), weak \in SUBSET Chunks :
         LET kept == Retain(ranking, weak) IN
         IF Alien \in ToSet(ranking) \/ Len(Completed(kept)) > MaxContext
         THEN pc' = "failed" /\ UNCHANGED context
         ELSE pc' = "compile" /\ context' = Completed(kept)
    /\ UNCHANGED <<request, altered, packet, triggers, attempts, outcome>>

-----------------------------------------------------------------------------
(* Sources.                                                                *)

\* SourceCatalog.from_documents: the context is exactly the unaltered chunks of
\* its policies, each once, or there is no catalog.
Units ==
    IF altered \/ Cardinality(ToSet(context)) # Len(context) THEN {} ELSE Selected(context)

Claims == {0} \cup Policies

\* accepts_compiler: distinct whole policies with exactly their references.
AcceptsCompiler(draft) ==
    /\ ~draft.insufficient /\ ~draft.prose /\ draft.steps # <<>>
    /\ \A i \in DOMAIN draft.steps : draft.steps[i].body \in Units /\ draft.steps[i].cites = draft.steps[i].body
    /\ \A i, j \in DOMAIN draft.steps : draft.steps[i].body = draft.steps[j].body => i = j

CompilerDrafts ==
    [steps : BoundedSeq([body : Claims, cites : Claims], PolicyCount), prose : BOOLEAN, insufficient : BOOLEAN]

\* What the provider compiled stands if the evidence is still what it was.
Compile ==
    /\ pc = "compile"
    /\ IF Units = {} THEN UNCHANGED <<altered, packet>>
       ELSE \/ altered' = TRUE /\ packet' = <<>>
            \/ /\ altered' = FALSE
               /\ \E draft \in CompilerDrafts :
                    packet' = IF AcceptsCompiler(draft) THEN [i \in DOMAIN draft.steps |-> draft.steps[i].cites] ELSE <<>>
    /\ pc' = "generate"
    /\ UNCHANGED <<request, context, triggers, attempts, outcome>>

\* compiled_sources: generation is restricted to what the packet has compiled.
Authorized == Units \cap ToSet(packet)

-----------------------------------------------------------------------------
(* Generation.                                                             *)

\* A draft's guidance, of which one of the three may not be what it should be,
\* and its references; 0 stands for whatever else may differ.
Guidance == {g \in [step : Claims, owner : Claims, cites : Claims] :
               \E p \in Policies : Cardinality({f \in DOMAIN g : g[f] = p}) >= 2}
Drafts == [guidance : BoundedSeq(Guidance, PolicyCount), refs : SUBSET Claims]

\* preflight_draft of a selection, in the order of the catalog.
Extract(policies) ==
    LET order == SetToSortSeq(policies, <) IN
    [guidance |-> [i \in DOMAIN order |-> [step |-> order[i], owner |-> order[i], cites |-> order[i]]],
     refs |-> policies]

Steps(draft) == {g.step : g \in ToSet(draft.guidance)}

\* accepts_preflight: the draft is the extract of some authorized policies;
\* before the references are filled in some of them may be missing.
AcceptsPreflight(draft, missing) ==
    /\ draft.guidance # <<>> /\ Steps(draft) \subseteq Authorized
    /\ IF missing
       THEN /\ draft.refs \subseteq Steps(draft)
            /\ [draft EXCEPT !.refs = Steps(draft)] = Extract(Steps(draft))
       ELSE draft = Extract(Steps(draft))

\* _apply_compiled_packet_to_draft: the references of the guidance and then
\* all those of the packet.
Filled(draft) == [draft EXCEPT !.refs = {g.cites : g \in ToSet(draft.guidance)} \cup ToSet(packet)]

\* Mutant of Grounded: what was accepted before the references were filled in.
GroundedBefore(draft) == AcceptsPreflight(draft, TRUE)

\* _validate_and_materialize_result accepts the filled draft.
Grounded(draft) == AcceptsPreflight(draft, TRUE) /\ AcceptsPreflight(Filled(draft), FALSE)

NoResult == [steps |-> <<>>, cites |-> {}]
Result(draft) == [steps |-> [i \in DOMAIN draft.guidance |-> draft.guidance[i].step], cites |-> Filled(draft).refs]
Unjudged == [passed |-> FALSE, plan |-> TRUE, cited |-> TRUE]

Attempt(result, judgement) ==
    [triggers |-> triggers, informed |-> attempts # <<>>, result |-> result, judgement |-> judgement]

Ends(reason, attempt) ==
    /\ pc' = "ended" /\ outcome' = reason
    /\ attempts' = Append(attempts, attempt)

\* _generate_attempt_result, and the end of an attempt without a result.
Generate ==
    /\ pc = "generate"
    /\ IF Authorized = {}
       THEN Ends("insufficient_context", Attempt(NoResult, Unjudged)) /\ UNCHANGED altered
       ELSE \/ /\ altered' = TRUE
               /\ Ends("insufficient_context", Attempt(NoResult, Unjudged))
            \/ /\ altered' = FALSE
               /\ \E draft \in Drafts :
                    IF Grounded(draft)
                    THEN /\ attempts' = Append(attempts, Attempt(Result(draft), Unjudged))
                         /\ pc' = "judge" /\ UNCHANGED outcome
                    ELSE Ends("insufficient_context", Attempt(NoResult, Unjudged))
    /\ UNCHANGED <<request, context, packet, triggers>>

-----------------------------------------------------------------------------
(* Conformance.                                                            *)

Latest == attempts[Len(attempts)]

\* plan_completeness: every required text is found in the plan, after what is
\* no Latin letter or digit has been dropped from both.
PlanComplete(result) == \A p \in ToSet(packet) : p \in ToSet(result.steps) \ Wordless

\* citation_support
Cited(result) == ToSet(packet) \subseteq result.cites

Verdicts == [final : BOOLEAN, reasons : BOOLEAN, trajectory : {"absent", "good", "bad"}, named : SUBSET Policies]
Absent == [final |-> TRUE, reasons |-> FALSE, trajectory |-> "absent", named |-> {}]

FinalFails(v) == ~v.final \/ v.reasons
Passed(result, v) == PlanComplete(result) /\ Cited(result) /\ ~FinalFails(v) /\ v.trajectory # "bad"

\* regeneration_triggers_from_conformance: judgements count if they name evidence.
Triggers(result, v) ==
    {t \in {"required_steps", "citation_support", "final_adherence", "trajectory_adherence"} :
       \/ t = "required_steps" /\ ~PlanComplete(result)
       \/ t = "citation_support" /\ ~Cited(result)
       \/ t = "final_adherence" /\ FinalFails(v) /\ v.named # {}
       \/ t = "trajectory_adherence" /\ v.trajectory = "bad" /\ v.named # {}}

\* Another attempt could be better, and the generator may write another one.
Continues(result, v) == Triggers(result, v) # {} /\ ~request.extractive

\* One round of the loop of regenerate; an evaluator that names evidence it
\* was not given is an error.
Judge ==
    /\ pc = "judge"
    /\ \E v \in IF request.judged THEN Verdicts ELSE {Absent} :
         LET result == Latest.result
             judged == [passed |-> Passed(result, v), plan |-> PlanComplete(result), cited |-> Cited(result)]
         IN IF ~(v.named \subseteq ToSet(packet))
            THEN pc' = "failed" /\ UNCHANGED <<attempts, outcome, triggers>>
            ELSE /\ attempts' = [attempts EXCEPT ![Len(attempts)].judgement = judged]
                 /\ IF judged.passed
                    THEN pc' = "ended" /\ outcome' = "passed" /\ UNCHANGED triggers
                    ELSE IF Len(attempts) > request.limit
                    THEN pc' = "ended" /\ outcome' = "max_regenerations" /\ UNCHANGED triggers
                    ELSE IF ~Continues(result, v)
                    THEN pc' = "ended" /\ outcome' = "no_material_trigger" /\ UNCHANGED triggers
                    ELSE pc' = "generate" /\ triggers' = Triggers(result, v) /\ UNCHANGED outcome
    /\ UNCHANGED <<request, context, altered, packet>>

\* check_budget, or an output beyond its budget: the operation is an error.
Expire ==
    /\ pc \in {"route", "compile", "generate", "judge"}
    /\ pc' = "failed"
    /\ UNCHANGED <<request, context, altered, packet, triggers, attempts, outcome>>

Next == Route \/ Compile \/ Generate \/ Judge \/ Expire

Spec == Init /\ [][Next]_vars

-----------------------------------------------------------------------------
(* The evidence trace of an attempt.                                       *)

\* _trace_text_outputs: the constraints that have the text of an output.
Linked(result, i) == {n \in DOMAIN packet : packet[n] = result.steps[i]}

\* The citations of a result with their constraints.
CitationLinks(result) == [p \in result.cites |-> {n \in DOMAIN packet : packet[n] = p}]

-----------------------------------------------------------------------------
(* Properties.                                                             *)

Reasons == {"none", "insufficient_context", "passed", "max_regenerations", "no_material_trigger"}

TypeOK ==
    /\ pc \in {"route", "compile", "generate", "judge", "ended", "failed"}
    /\ context \in Seq(Chunks) /\ Len(context) <= MaxContext
    /\ altered \in BOOLEAN /\ packet \in Seq(Policies)
    /\ triggers \subseteq {"required_steps", "citation_support", "final_adherence", "trajectory_adherence"}
    /\ Len(attempts) <= request.limit + 1 /\ outcome \in Reasons

\* Whatever the model replies, guidance is the text of every compiled policy,
\* once, in the order of the sources, with all their references; all of it is
\* in the retained context, and the evidence trace explains every output.
GuidanceIsWhole ==
    \A a \in {attempts[i] : i \in DOMAIN attempts} : a.result # NoResult =>
        /\ a.result.steps = SetToSortSeq(ToSet(packet), <)
        /\ a.result.cites = ToSet(packet)
        /\ \A p \in ToSet(packet) : ChunksOf(p) \subseteq ToSet(context)
        /\ \A i \in DOMAIN a.result.steps : Linked(a.result, i) # {}
        /\ \A p \in a.result.cites : CitationLinks(a.result)[p] # {}

\* The report is the story of the attempts: passed if and only if the last one
\* has a result that passed; every earlier one has a result that failed, and
\* the next was told its triggers; only a judgement, or a policy without words,
\* can fail what was grounded, and an extractive generator is asked once.
ReportTellsTheAttempts ==
    pc = "ended" =>
        /\ attempts # <<>>
        /\ (outcome = "passed") = Latest.judgement.passed
        /\ (outcome = "insufficient_context") = (Latest.result = NoResult)
        /\ outcome = "max_regenerations" => Len(attempts) = request.limit + 1
        /\ \A i \in DOMAIN attempts :
             /\ (attempts[i].triggers # {}) = (i > 1) /\ attempts[i].informed = (i > 1)
             /\ i < Len(attempts) => attempts[i].result # NoResult /\ ~attempts[i].judgement.passed
             /\ attempts[i].judgement.cited
             /\ ~attempts[i].judgement.plan => ToSet(packet) \cap Wordless # {}
        /\ request.extractive \/ (~request.judged /\ Wordless = {}) => Len(attempts) = 1

=============================================================================
