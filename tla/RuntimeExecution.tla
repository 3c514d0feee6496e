-------------------------- MODULE RuntimeExecution --------------------------
(***************************************************************************)
(* Guarded actions and their evidence: services/runtime_decision.py,       *)
(* services/runtime_execution.py, storage/runtime_evidence.py and          *)
(* services/runtime_evidence_report.py.                                    *)
(*                                                                         *)
(* Each execution is a command of its own process.  It decides by the      *)
(* runtime rules, appends the decision to the evidence database, perhaps   *)
(* asks for confirmation, runs the action, and appends the outcome.  Any   *)
(* of these steps may fail and the process may die after any of them, also *)
(* while the action runs; a shell command lives on in a session of its own.*)
(* Reports of the session are read from the database at any time.          *)
(*                                                                         *)
(* Abstracted: which rules match an action is any subset of Rules; an      *)
(* index that is not ready, invalid rules and citations that cannot be     *)
(* linked are one error; events keep what reports use; all executions are  *)
(* of one session, since reports select theirs.                            *)
(***************************************************************************)
EXTENDS Naturals, Sequences, FiniteSetsExt, Functions

CONSTANTS
    Executions,
    BlockRules, ConfirmRules, \* compiled rules by their effect
    Kinds                     \* kinds of actions

RulesAssumption ==
    /\ BlockRules \cap ConfirmRules = {}
    /\ Kinds \subseteq {"shell_command", "file_write", "http_request"}

VARIABLES
    pc,       \* Executions -> position in execute
    kind,     \* Executions -> kind of the action
    matched,  \* Executions -> the rules that match it
    consent,  \* Executions -> what the confirmer said
    outcome,  \* Executions -> execution_outcome to be reported, or "none"
    effect,   \* Executions -> what has happened outside
    answer,   \* Executions -> what the caller was told
    evidence  \* runtime_execution_events in rowid order

vars == <<pc, kind, matched, consent, outcome, effect, answer, evidence>>

Rules == BlockRules \cup ConfirmRules
Decisions == {"allow", "confirm", "block"}
Outcomes == {"allowed", "confirmed", "blocked", "refused", "failed"}
Confirmations == {"not_required", "confirmed", "refused", "unavailable"}
Positions == {"new", "decided", "recorded", "cleared", "acting", "concluding", "ended"}
Errors == {"undecided", "not_executed", "inspect_outcome", "raised"}
Event == [execution : Executions, event_kind : Outcomes \cup {"decision"},
          decision : Decisions, confirmation : Confirmations, outcome : Outcomes \cup {"none"}]

\* _decision_for_rules, and the answer of decide when no rule matches.
Decision(e) ==
    CASE matched[e] = {} -> "allow"
      [] matched[e] \cap BlockRules # {} -> "block"
      [] OTHER -> "confirm"

-----------------------------------------------------------------------------
(* Reports.                                                                *)

RowsOf(e) == {i \in DOMAIN evidence : evidence[i].execution = e}
TerminalRows(e) == {i \in RowsOf(e) : evidence[i].event_kind # "decision"}

\* The executions a report of the session lists.
Reported == {event.execution : event \in Range(evidence)}

\* Mutant of ReportedEvent: the latest event counts, whatever its kind, and
\* one that waits for a confirmation counts as refused.
ReportedEventByConfirmation(e) ==
    LET last == evidence[Max(RowsOf(e))]
    IN  IF last.confirmation = "unavailable" THEN [last EXCEPT !.outcome = "refused"] ELSE last

\* _summarize_execution_events: the last terminal event, or else the first.
ReportedEvent(e) ==
    evidence[IF TerminalRows(e) = {} THEN Min(RowsOf(e)) ELSE Max(TerminalRows(e))]

ReportedOutcome(e) == ReportedEvent(e).outcome

\* _summarize_session_events: completed_at is set.
SessionCompleted == Reported # {} /\ \A e \in Reported : ReportedOutcome(e) # "none"

-----------------------------------------------------------------------------
Init ==
    /\ pc = [e \in Executions |-> "new"]
    /\ kind \in [Executions -> Kinds]
    /\ matched = [e \in Executions |-> {}]
    /\ consent = [e \in Executions |-> "not_required"]
    /\ outcome = [e \in Executions |-> "none"]
    /\ effect = [e \in Executions |-> "none"]
    /\ answer = [e \in Executions |-> "none"]
    /\ evidence = <<>>

End(e, result) ==
    /\ pc' = [pc EXCEPT ![e] = "ended"]
    /\ answer' = [answer EXCEPT ![e] = result]

\* append_event: one immutable row in a transaction of its own.
Record(e, event_kind, result) ==
    evidence' = Append(evidence, [execution |-> e, event_kind |-> event_kind, decision |-> Decision(e),
                                  confirmation |-> consent[e], outcome |-> result])

\* decide: a read-only decision, or an error before anything is recorded.
Decide(e) ==
    /\ pc[e] = "new"
    /\ \/ /\ matched' \in {[matched EXCEPT ![e] = rules] : rules \in SUBSET Rules}
          /\ consent' = [consent EXCEPT ![e] = IF Decision(e)' = "confirm" THEN "unavailable"
                                               ELSE "not_required"]
          /\ pc' = [pc EXCEPT ![e] = "decided"]
          /\ UNCHANGED answer
       \/ End(e, "undecided") /\ UNCHANGED <<matched, consent>>
    /\ UNCHANGED <<kind, outcome, effect, evidence>>

\* _append_initial_event: without it the action is not executed.
RecordDecision(e) ==
    /\ pc[e] = "decided"
    /\ \/ /\ Record(e, "decision", "none")
          /\ pc' = [pc EXCEPT ![e] = "recorded"]
          /\ UNCHANGED answer
       \/ End(e, "not_executed") /\ UNCHANGED evidence
    /\ UNCHANGED <<kind, matched, consent, outcome, effect>>

\* The guard: block ends, allow goes on, confirm asks - and a confirmer that
\* is missing or raises is no consent.
Confirm(e) ==
    /\ pc[e] = "recorded"
    /\ \/ /\ Decision(e) = "block"
          /\ outcome' = [outcome EXCEPT ![e] = "blocked"]
          /\ pc' = [pc EXCEPT ![e] = "concluding"]
          /\ UNCHANGED consent
       \/ /\ Decision(e) = "allow"
          /\ pc' = [pc EXCEPT ![e] = "cleared"]
          /\ UNCHANGED <<outcome, consent>>
       \/ /\ Decision(e) = "confirm"
          /\ \E said \in {"confirmed", "refused", "unavailable"} :
                /\ consent' = [consent EXCEPT ![e] = said]
                /\ pc' = [pc EXCEPT ![e] = IF said = "confirmed" THEN "cleared" ELSE "concluding"]
                /\ outcome' = [outcome EXCEPT ![e] = CASE said = "refused" -> "refused"
                                                       [] said = "unavailable" -> "failed"
                                                       [] OTHER -> @]
    /\ UNCHANGED <<kind, matched, effect, answer, evidence>>

\* _run_action begins to change the world (a file write changes it at once,
\* when the staged file is renamed).
Act(e) ==
    /\ pc[e] = "cleared"
    /\ pc' = [pc EXCEPT ![e] = "acting"]
    /\ effect' = [effect EXCEPT ![e] = IF kind[e] = "file_write" THEN "none" ELSE "started"]
    /\ UNCHANGED <<kind, matched, consent, outcome, answer, evidence>>

\* The runner returns success, or a failure that leaves unknown effects behind
\* (a command that fails or is killed, a request that times out), except that
\* a file keeps its content; or a failure before any effect.
Return(e) ==
    /\ pc[e] = "acting"
    /\ \/ /\ effect' = [effect EXCEPT ![e] = "done"]
          /\ outcome' = [outcome EXCEPT ![e] = IF Decision(e) = "confirm" THEN "confirmed" ELSE "allowed"]
       \/ /\ effect' \in {[effect EXCEPT ![e] = left] :
                            left \in IF kind[e] = "file_write" THEN {"none"} ELSE {"none", "stopped"}}
          /\ outcome' = [outcome EXCEPT ![e] = "failed"]
    /\ pc' = [pc EXCEPT ![e] = "concluding"]
    /\ UNCHANGED <<kind, matched, consent, answer, evidence>>

\* An exception that no runner handles, or an interruption, at any moment of
\* the action; a shell command is stopped before it propagates.
Raise(e) ==
    /\ pc[e] = "acting"
    /\ effect' \in {[effect EXCEPT ![e] = left] :
                      left \in {"none", "done"} \cup IF kind[e] = "file_write" THEN {} ELSE {"stopped"}}
    /\ End(e, "raised")
    /\ UNCHANGED <<kind, matched, consent, outcome, evidence>>

Started(e) == Decision(e) # "block" /\ consent[e] \in {"not_required", "confirmed"}

\* Mutant of Conclude: the append is repeated when its answer is lost.
ConcludeTwice(e) ==
    /\ pc[e] = "concluding"
    /\ Record(e, outcome[e], outcome[e])
    /\ End(e, outcome[e]) \/ UNCHANGED <<pc, answer>>
    /\ UNCHANGED <<kind, matched, consent, outcome, effect>>

\* _append_terminal_event: the result is returned once it is on record; when it
\* cannot be recorded the caller learns whether the action may have happened.
Conclude(e) ==
    /\ pc[e] = "concluding"
    /\ \/ Record(e, outcome[e], outcome[e]) /\ End(e, outcome[e])
       \/ /\ End(e, IF Started(e) THEN "inspect_outcome" ELSE "not_executed")
          /\ UNCHANGED evidence
    /\ UNCHANGED <<kind, matched, consent, outcome, effect>>

\* The process dies.  A request may have been served; a file was renamed or not.
Crash(e) ==
    /\ pc[e] \notin {"new", "ended"}
    /\ End(e, "none")
    /\ effect' \in {[effect EXCEPT ![e] = left] :
                      left \in IF pc[e] = "acting" /\ kind[e] = "file_write" THEN {"none", "done"}
                               ELSE {effect[e]}}
    /\ UNCHANGED <<kind, matched, consent, outcome, evidence>>

\* A command whose parent is gone runs to its end, in its own process group.
Orphan(e) ==
    /\ pc[e] = "ended" /\ effect[e] = "started"
    /\ effect' \in {[effect EXCEPT ![e] = left] : left \in {"done", "stopped"}}
    /\ UNCHANGED <<pc, kind, matched, consent, outcome, answer, evidence>>

Execute(e) ==
    \/ Decide(e) \/ RecordDecision(e) \/ Confirm(e)
    \/ Act(e) \/ Return(e) \/ Raise(e) \/ Conclude(e)
    \/ Crash(e) \/ Orphan(e)

Next == \E e \in Executions : Execute(e)

Spec == Init /\ [][Next]_vars

-----------------------------------------------------------------------------
(* Properties.                                                             *)

\* Every variable has its type, and the rows of an execution are its decision
\* and after it one outcome at most.
TypeOK ==
    /\ pc \in [Executions -> Positions] /\ kind \in [Executions -> Kinds]
    /\ matched \in [Executions -> SUBSET Rules]
    /\ consent \in [Executions -> Confirmations]
    /\ outcome \in [Executions -> Outcomes \cup {"none"}]
    /\ effect \in [Executions -> {"none", "started", "stopped", "done"}]
    /\ answer \in [Executions -> Outcomes \cup Errors \cup {"none"}]
    /\ evidence \in Seq(Event)
    /\ \A e \in Executions :
        /\ \A i \in RowsOf(e) : evidence[i].event_kind = "decision" <=> \A j \in RowsOf(e) : i <= j
        /\ \A i, j \in TerminalRows(e) : i = j

\* Nothing happens outside unless the decision is on record, no matching rule
\* blocks it, and consent was given where a rule asks for it - whatever fails
\* or dies on the way.
ActsOnlyAsRecorded ==
    \A e \in Executions : effect[e] # "none" =>
        /\ e \in Reported
        /\ matched[e] \cap BlockRules = {}
        /\ matched[e] \cap ConfirmRules # {} => consent[e] = "confirmed"

\* A report never denies what happened: what it calls blocked or refused, or
\* failed for want of consent, or a failed write, has no effect, and what it
\* calls allowed or confirmed is done.
ReportIsTrue ==
    \A e \in Reported :
        LET event == ReportedEvent(e)
        IN  /\ event.outcome \in {"blocked", "refused"} => effect[e] = "none"
            /\ event.outcome = "failed" /\ event.confirmation = "unavailable" => effect[e] = "none"
            /\ event.outcome = "failed" /\ kind[e] = "file_write" => effect[e] = "none"
            /\ event.outcome \in {"allowed", "confirmed"} => effect[e] = "done"

\* The caller and the evidence agree: a result is returned only as recorded, and
\* who is told that the action was not executed can rely on it.
AnswerAgreesWithEvidence ==
    \A e \in Executions :
        /\ answer[e] \in Outcomes => e \in Reported /\ ReportedOutcome(e) = answer[e]
        /\ answer[e] \in {"undecided", "not_executed"} => effect[e] = "none"

\* When a report calls the session completed, no action of it is still running,
\* not even one whose process has died.
CompletedSessionIsQuiet ==
    SessionCompleted => \A e \in Reported : effect[e] # "started" /\ pc[e] = "ended"

\* All four: what the evidence says is what was done, before and after the fact.
EvidenceIsTrue ==
    ActsOnlyAsRecorded /\ ReportIsTrue /\ AnswerAgreesWithEvidence /\ CompletedSessionIsQuiet

=============================================================================
