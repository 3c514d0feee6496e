----------------------------- MODULE LocalProofs -----------------------------
(***************************************************************************)
(* Proofs about the components of an operator's machine: RuntimeExecution, *)
(* OwnedRemoval, Onboarding, ProfileUpdate, IndexBuild, VectorReplica and  *)
(* Bootstrap, each with an inductive invariant of its own, for any number  *)
(* of processes and all values of the constants; and of MCLocal, which     *)
(* explores them together.                                                 *)
(***************************************************************************)
EXTENDS MCLocal, FiniteSetTheorems, TLAPS

(***************************************************************************)
(* What the evidence of an execution looks like: nothing, its decision, or *)
(* its decision and after it an outcome.                                   *)
(***************************************************************************)

IsDecision(event) == event.event_kind = "decision" /\ event.outcome = "none"

Unrecorded(e) == RowsOf(e) = {}

Open(e) == \E i \in DOMAIN evidence : RowsOf(e) = {i} /\ IsDecision(evidence[i])

Closed(e, result, said) ==
    \E i, t \in DOMAIN evidence :
        /\ RowsOf(e) = {i, t} /\ i < t /\ IsDecision(evidence[i])
        /\ evidence[t].event_kind # "decision"
        /\ evidence[t].outcome = result /\ evidence[t].confirmation = said

(***************************************************************************)
(* The inductive invariant.                                                *)
(***************************************************************************)

\* The decision and the confirmer let the action run.
Consented(e) ==
    \/ Decision(e) = "allow" /\ consent[e] = "not_required"
    \/ Decision(e) = "confirm" /\ consent[e] = "confirmed"

Waiting(e) == consent[e] = IF Decision(e) = "confirm" THEN "unavailable" ELSE "not_required"

\* The outcome to be reported is that of what has happened outside.
OutcomeIsTrue(e) ==
    /\ outcome[e] \in Outcomes
    /\ outcome[e] \in {"blocked", "refused"} => effect[e] = "none"
    /\ outcome[e] = "failed" /\ consent[e] = "unavailable" => effect[e] = "none"
    /\ outcome[e] = "failed" /\ kind[e] = "file_write" => effect[e] = "none"
    /\ outcome[e] \in {"allowed", "confirmed"} => effect[e] = "done"
    /\ effect[e] # "started"

\* What is on record once an execution has ended: a process that died or was
\* interrupted may leave its decision alone, and its command running.
Past(e) ==
    \/ Unrecorded(e) /\ effect[e] = "none" /\ answer[e] \notin Outcomes
    \/ /\ Open(e) /\ answer[e] \notin Outcomes
       /\ answer[e] \in {"undecided", "not_executed"} => effect[e] = "none"
    \/ /\ Closed(e, outcome[e], consent[e]) /\ OutcomeIsTrue(e)
       /\ answer[e] = outcome[e]

\* Where an execution is, and what it has done and recorded by then.
ExecutionInv(e) ==
    /\ effect[e] # "none" => Consented(e)
    /\ pc[e] # "ended" => answer[e] = "none"
    /\ pc[e] \in {"new", "decided"} => Unrecorded(e)
    /\ pc[e] \in {"recorded", "cleared", "acting", "concluding"} => Open(e)
    /\ pc[e] \in {"new", "decided", "recorded", "cleared"} => effect[e] = "none"
    /\ pc[e] \in {"decided", "recorded"} => Waiting(e)
    /\ pc[e] \in {"cleared", "acting"} => Consented(e)
    /\ pc[e] = "concluding" => OutcomeIsTrue(e)
    /\ pc[e] = "ended" => Past(e)

\* Every variable has its type.
Types ==
    /\ pc \in [Executions -> Positions] /\ kind \in [Executions -> Kinds]
    /\ matched \in [Executions -> SUBSET Rules]
    /\ consent \in [Executions -> Confirmations]
    /\ outcome \in [Executions -> Outcomes \cup {"none"}]
    /\ effect \in [Executions -> {"none", "started", "stopped", "done"}]
    /\ answer \in [Executions -> Outcomes \cup Errors \cup {"none"}]
    /\ evidence \in Seq(Event)

ActionInv == Types /\ \A e \in Executions : ExecutionInv(e)

(***************************************************************************)
(* The evidence only grows, and the rows of one execution are not those of *)
(* another.                                                                *)
(***************************************************************************)

\* decide answers one of the three decisions.
LEMMA DecisionType == ASSUME NEW e PROVE Decision(e) \in Decisions
BY DEF Decision, Decisions

\* An appended row is one of its execution and of no other.
LEMMA RowsGrow ==
    ASSUME Types, NEW e \in Executions, NEW event_kind, NEW result, Record(e, event_kind, result)
    PROVE /\ RowsOf(e)' = RowsOf(e) \cup {Len(evidence) + 1}
          /\ \A f \in Executions : f # e => RowsOf(f)' = RowsOf(f)
          /\ \A i \in DOMAIN evidence : evidence'[i] = evidence[i] /\ i \in DOMAIN evidence' /\ i < Len(evidence) + 1
          /\ Len(evidence) + 1 \in DOMAIN evidence'
          /\ evidence'[Len(evidence) + 1] =
               [execution |-> e, event_kind |-> event_kind, decision |-> Decision(e),
                confirmation |-> consent[e], outcome |-> result]
<1> DEFINE row == [execution |-> e, event_kind |-> event_kind, decision |-> Decision(e),
                   confirmation |-> consent[e], outcome |-> result]
<1>1. evidence' = Append(evidence, row) /\ row.execution = e
  BY DEF Record
<1> HIDE DEF row
<1>2. /\ DOMAIN evidence = 1 .. Len(evidence) /\ Len(evidence) \in Nat
      /\ DOMAIN evidence' = 1 .. Len(evidence) + 1
      /\ \A i \in 1 .. Len(evidence) : evidence'[i] = evidence[i]
      /\ evidence'[Len(evidence) + 1] = row
  BY <1>1 DEF Types
<1>3. RowsOf(e)' = RowsOf(e) \cup {Len(evidence) + 1}
  BY <1>1, <1>2 DEF RowsOf
<1>4. ASSUME NEW f \in Executions, f # e PROVE RowsOf(f)' = RowsOf(f)
  BY <1>1, <1>2, <1>4 DEF RowsOf
<1> QED
  BY <1>2, <1>3, <1>4 DEF row

\* What is on record of the others stays as it is.
LEMMA OthersRecord ==
    ASSUME Types, NEW e \in Executions, NEW event_kind, NEW result, Record(e, event_kind, result),
           NEW f \in Executions, f # e
    PROVE /\ Unrecorded(f) => Unrecorded(f)'
          /\ Open(f) => Open(f)'
          /\ \A result2, said : Closed(f, result2, said) =>
               \E i, t \in DOMAIN evidence' :
                  /\ RowsOf(f)' = {i, t} /\ i < t /\ IsDecision(evidence'[i])
                  /\ evidence'[t].event_kind # "decision"
                  /\ evidence'[t].outcome = result2 /\ evidence'[t].confirmation = said
<1>1. /\ RowsOf(f)' = RowsOf(f)
      /\ \A i \in DOMAIN evidence : evidence'[i] = evidence[i] /\ i \in DOMAIN evidence'
  BY RowsGrow
<1>2. Unrecorded(f) => Unrecorded(f)'
  BY <1>1 DEF Unrecorded
<1>3. Open(f) => Open(f)'
  BY <1>1 DEF Open
<1> QED
  BY <1>1, <1>2, <1>3 DEF Closed

\* The decision is the first row of its execution.
LEMMA DecisionRecords ==
    ASSUME Types, NEW e \in Executions, Unrecorded(e), Record(e, "decision", "none")
    PROVE Open(e)'
<1>1. RowsOf(e)' = {Len(evidence) + 1}
  BY RowsGrow DEF Unrecorded
<1>2. /\ Len(evidence) + 1 \in DOMAIN evidence'
      /\ evidence'[Len(evidence) + 1] =
           [execution |-> e, event_kind |-> "decision", decision |-> Decision(e),
            confirmation |-> consent[e], outcome |-> "none"]
  BY RowsGrow
<1>3. IsDecision(evidence'[Len(evidence) + 1])
  BY <1>2 DEF IsDecision
<1> QED
  BY <1>1, <1>2, <1>3 DEF Open

\* An outcome closes it, with the answer of the confirmer.
LEMMA OutcomeRecords ==
    ASSUME Types, NEW e \in Executions, Open(e), NEW result \in Outcomes, Record(e, result, result)
    PROVE \E i, t \in DOMAIN evidence' :
             /\ RowsOf(e)' = {i, t} /\ i < t /\ IsDecision(evidence'[i])
             /\ evidence'[t].event_kind # "decision"
             /\ evidence'[t].outcome = result /\ evidence'[t].confirmation = consent[e]
<1>1. PICK i \in DOMAIN evidence : RowsOf(e) = {i} /\ IsDecision(evidence[i])
  BY DEF Open
<1>2. PICK t : t = Len(evidence) + 1
  OBVIOUS
<1>3. RowsOf(e)' = {i, t} /\ i < t /\ evidence'[i] = evidence[i] /\ i \in DOMAIN evidence' /\ t \in DOMAIN evidence'
  BY <1>1, <1>2, RowsGrow
<1>4. /\ evidence'[t].event_kind # "decision"
      /\ evidence'[t].outcome = result /\ evidence'[t].confirmation = consent[e]
  <2>1. evidence'[t] = [execution |-> e, event_kind |-> result, decision |-> Decision(e),
                        confirmation |-> consent[e], outcome |-> result]
    BY <1>2, RowsGrow
  <2> QED
    BY <2>1 DEF Outcomes
<1> QED
  BY <1>1, <1>3, <1>4

(***************************************************************************)
(* The invariant holds initially, and every action preserves it.           *)
(***************************************************************************)

LEMMA ActionsStart == Init => ActionInv
<1> SUFFICES ASSUME Init PROVE ActionInv
  OBVIOUS
<1>1. Types
  BY DEF Init, Types, Positions, Confirmations, Outcomes
<1>2. ASSUME NEW e \in Executions PROVE ExecutionInv(e)
  BY DEF Init, ExecutionInv, Unrecorded, RowsOf
<1> QED
  BY <1>1, <1>2 DEF ActionInv

LEMMA TypesKeep == ASSUME ActionInv, NEW e \in Executions, Execute(e) PROVE Types'
<1> USE DEF ActionInv, Types, End
<1>1. CASE Decide(e)
  <2>1. Decision(e)' \in Decisions
    BY DEF Decision, Decisions
  <2>2. "undecided" \in Errors /\ "decided" \in Positions /\ "ended" \in Positions
        /\ "unavailable" \in Confirmations /\ "not_required" \in Confirmations
    BY DEF Errors, Positions, Confirmations
  <2> QED
    BY <1>1, <2>1, <2>2 DEF Decide
<1>2. CASE RecordDecision(e) \/ Conclude(e)
  <2>1. ASSUME NEW event_kind \in Outcomes \cup {"decision"}, NEW result \in Outcomes \cup {"none"},
               Record(e, event_kind, result)
        PROVE evidence' \in Seq(Event)
    <3>1. Decision(e) \in Decisions /\ consent[e] \in Confirmations
      BY DecisionType
    <3> QED
      BY <2>1, <3>1 DEF Record, Event
  <2>2. CASE RecordDecision(e)
    <3>1. evidence' \in Seq(Event)
      <4>1. CASE Record(e, "decision", "none")
        BY <2>1, <4>1
      <4>2. CASE UNCHANGED evidence
        BY <4>2
      <4> QED
        BY <2>2, <4>1, <4>2 DEF RecordDecision
    <3> QED
      BY <2>2, <3>1 DEF RecordDecision, Positions, Errors
  <2>3. CASE Conclude(e)
    <3>1. PICK result \in Outcomes : result = outcome[e]
      BY <2>3 DEF Conclude, ExecutionInv, OutcomeIsTrue
    <3>2. evidence' \in Seq(Event) /\ answer' \in [Executions -> Outcomes \cup Errors \cup {"none"}]
      <4>1. CASE Record(e, outcome[e], outcome[e]) /\ End(e, outcome[e])
        <5>1. Record(e, result, result)
          BY <3>1, <4>1 DEF Record
        <5>2. evidence' \in Seq(Event)
          BY <2>1, <5>1
        <5> QED
          BY <4>1, <5>2
      <4>2. CASE UNCHANGED evidence /\ End(e, IF Started(e) THEN "inspect_outcome" ELSE "not_executed")
        BY <4>2 DEF Errors
      <4> QED
        BY <2>3, <4>1, <4>2 DEF Conclude
    <3> QED
      BY <2>3, <3>2 DEF Conclude, Positions
  <2> QED
    BY <1>2, <2>2, <2>3
<1>3. CASE Confirm(e)
  BY <1>3 DEF Confirm, Positions, Outcomes, Confirmations
<1>4. CASE Act(e) \/ Orphan(e)
  BY <1>4 DEF Act, Orphan, Positions
<1>5. CASE Return(e)
  BY <1>5 DEF Return, Positions, Outcomes
<1>6. CASE Raise(e) \/ Crash(e)
  <2>1. pc' \in [Executions -> Positions] /\ answer' \in [Executions -> Outcomes \cup Errors \cup {"none"}]
    BY <1>6 DEF Raise, Crash, Positions, Errors
  <2>2. effect' \in [Executions -> {"none", "started", "stopped", "done"}]
    BY <1>6 DEF Raise, Crash
  <2> QED
    BY <1>6, <2>1, <2>2 DEF Raise, Crash
<1> QED
  BY <1>1, <1>2, <1>3, <1>4, <1>5, <1>6 DEF Execute

\* No step of one execution touches what another is, has done or has recorded.
LEMMA BystanderKeeps ==
    ASSUME ActionInv, NEW e \in Executions, Execute(e), NEW f \in Executions, f # e
    PROVE ExecutionInv(f)'
<1>1. /\ pc'[f] = pc[f] /\ kind'[f] = kind[f] /\ matched'[f] = matched[f] /\ consent'[f] = consent[f]
      /\ outcome'[f] = outcome[f] /\ effect'[f] = effect[f] /\ answer'[f] = answer[f]
  <2>1. CASE Decide(e) \/ RecordDecision(e) \/ Confirm(e)
    BY <2>1 DEF ActionInv, Types, Decide, RecordDecision, Confirm, End
  <2>2. CASE Act(e) \/ Return(e) \/ Conclude(e)
    BY <2>2 DEF ActionInv, Types, Act, Return, Conclude, End
  <2>3. CASE Raise(e) \/ Crash(e) \/ Orphan(e)
    BY <2>3 DEF ActionInv, Types, Raise, Crash, Orphan, End
  <2> QED
    BY <2>1, <2>2, <2>3 DEF Execute
<1>2. \/ UNCHANGED evidence
      \/ \E event_kind, result : Record(e, event_kind, result)
  BY DEF Execute, Decide, RecordDecision, Confirm, Act, Return, Conclude, Raise, Crash, Orphan
<1>3. /\ Unrecorded(f) => Unrecorded(f)'
      /\ Open(f) => Open(f)'
      /\ Closed(f, outcome[f], consent[f]) => Closed(f, outcome[f], consent[f])'
  <2>1. CASE UNCHANGED evidence
    BY <1>1, <2>1 DEF Unrecorded, Open, Closed, RowsOf
  <2>2. ASSUME NEW event_kind, NEW result, Record(e, event_kind, result)
        PROVE /\ Unrecorded(f) => Unrecorded(f)'
              /\ Open(f) => Open(f)'
              /\ Closed(f, outcome[f], consent[f]) => Closed(f, outcome[f], consent[f])'
    <3>1. PICK result2, said : result2 = outcome[f] /\ said = consent[f]
      OBVIOUS
    <3>2. /\ Unrecorded(f) => Unrecorded(f)'
          /\ Open(f) => Open(f)'
          /\ Closed(f, result2, said) =>
               \E i, t \in DOMAIN evidence' :
                  /\ RowsOf(f)' = {i, t} /\ i < t /\ IsDecision(evidence'[i])
                  /\ evidence'[t].event_kind # "decision"
                  /\ evidence'[t].outcome = result2 /\ evidence'[t].confirmation = said
      BY <2>2, OthersRecord DEF ActionInv
    <3> QED
      BY <1>1, <3>1, <3>2 DEF Closed
  <2> QED
    BY <1>2, <2>1, <2>2
<1>4. Decision(f)' = Decision(f)
  BY <1>1 DEF Decision
<1>5. Consented(f)' = Consented(f) /\ Waiting(f)' = Waiting(f) /\ OutcomeIsTrue(f)' = OutcomeIsTrue(f)
  BY <1>1, <1>4 DEF Consented, Waiting, OutcomeIsTrue
<1>6. Past(f) => Past(f)'
  BY <1>1, <1>3, <1>5 DEF Past
<1>7. ExecutionInv(f)
  BY DEF ActionInv
<1> QED
  BY <1>1, <1>3, <1>5, <1>6, <1>7 DEF ExecutionInv

\* A decision that ends in an error has recorded nothing; the others are
\* recorded before anything else.
LEMMA DecidingKeeps ==
    ASSUME ActionInv, Types', NEW e \in Executions, Decide(e) \/ RecordDecision(e)
    PROVE ExecutionInv(e)'
<1> USE DEF ActionInv
<1>1. ExecutionInv(e) /\ Types
  OBVIOUS
<1>2. CASE Decide(e)
  <2>1. Unrecorded(e) /\ Unrecorded(e)' /\ effect[e] = "none" /\ effect'[e] = "none" /\ answer[e] = "none"
    BY <1>1, <1>2 DEF Decide, ExecutionInv, Unrecorded, RowsOf
  <2>2. CASE pc' = [pc EXCEPT ![e] = "decided"] /\ UNCHANGED answer
             /\ consent' = [consent EXCEPT ![e] = IF Decision(e)' = "confirm" THEN "unavailable" ELSE "not_required"]
    <3>1. pc'[e] = "decided" /\ answer'[e] = "none" /\ Waiting(e)'
      BY <1>1, <2>1, <2>2 DEF Types, Waiting
    <3> QED
      BY <2>1, <3>1 DEF ExecutionInv
  <2>3. CASE End(e, "undecided")
    <3>1. pc'[e] = "ended" /\ answer'[e] = "undecided"
      BY <1>1, <2>3 DEF Types, End
    <3> QED
      BY <2>1, <3>1 DEF ExecutionInv, Past, Outcomes
  <2> QED
    BY <1>2, <2>2, <2>3 DEF Decide
<1>3. CASE RecordDecision(e)
  <2>1. Unrecorded(e) /\ effect[e] = "none" /\ effect'[e] = "none" /\ answer[e] = "none" /\ Waiting(e)
        /\ Decision(e)' = Decision(e) /\ Waiting(e)'
    BY <1>1, <1>3 DEF RecordDecision, ExecutionInv, Waiting, Decision
  <2>2. CASE Record(e, "decision", "none") /\ pc' = [pc EXCEPT ![e] = "recorded"] /\ UNCHANGED answer
    <3>1. pc'[e] = "recorded" /\ answer'[e] = "none"
      BY <1>1, <2>1, <2>2 DEF Types
    <3>2. Open(e)'
      BY <2>1, <2>2, DecisionRecords
    <3> QED
      BY <2>1, <3>1, <3>2 DEF ExecutionInv
  <2>3. CASE End(e, "not_executed") /\ UNCHANGED evidence
    <3>1. pc'[e] = "ended" /\ answer'[e] = "not_executed"
      BY <1>1, <2>3 DEF Types, End
    <3>2. Unrecorded(e)'
      BY <2>1, <2>3 DEF Unrecorded, RowsOf
    <3> QED
      BY <2>1, <3>1, <3>2 DEF ExecutionInv, Past, Outcomes
  <2> QED
    BY <1>3, <2>2, <2>3 DEF RecordDecision
<1> QED
  BY <1>2, <1>3

\* The guard lets pass what is allowed or confirmed, and nothing has happened
\* when it does not; an action then has the effect its outcome says.
LEMMA ActingKeeps ==
    ASSUME ActionInv, Types', NEW e \in Executions, Confirm(e) \/ Act(e) \/ Return(e)
    PROVE ExecutionInv(e)'
<1> USE DEF ActionInv
<1>1. ExecutionInv(e) /\ Types
  OBVIOUS
<1>2. Open(e) /\ Open(e)' /\ answer[e] = "none" /\ answer'[e] = "none" /\ Decision(e)' = Decision(e)
      /\ Decision(e) \in Decisions /\ kind'[e] = kind[e]
  <2>1. pc[e] \in {"recorded", "cleared", "acting"} /\ UNCHANGED <<evidence, answer, matched, kind>>
    BY DEF Confirm, Act, Return
  <2>2. Decision(e)' = Decision(e) /\ Decision(e) \in Decisions
    BY <2>1, DecisionType DEF Decision
  <2>3. Open(e)
    BY <1>1, <2>1 DEF ExecutionInv
  <2>4. Open(e)'
    BY <2>1, <2>3 DEF Open, RowsOf
  <2> QED
    BY <1>1, <2>1, <2>2, <2>3, <2>4 DEF ExecutionInv
<1>3. CASE Confirm(e)
  <2>1. effect[e] = "none" /\ effect'[e] = "none" /\ Waiting(e)
    BY <1>1, <1>3 DEF Confirm, ExecutionInv
  <2>2. CASE Decision(e) = "block" /\ outcome' = [outcome EXCEPT ![e] = "blocked"]
             /\ pc' = [pc EXCEPT ![e] = "concluding"] /\ UNCHANGED consent
    <3>1. pc'[e] = "concluding" /\ outcome'[e] = "blocked"
      BY <1>1, <2>2 DEF Types
    <3> QED
      BY <1>2, <2>1, <3>1 DEF ExecutionInv, OutcomeIsTrue, Outcomes
  <2>3. CASE Decision(e) = "allow" /\ pc' = [pc EXCEPT ![e] = "cleared"] /\ UNCHANGED <<outcome, consent>>
    <3>1. pc'[e] = "cleared" /\ Consented(e)'
      BY <1>1, <1>2, <2>1, <2>3 DEF Types, Waiting, Consented
    <3> QED
      BY <1>2, <2>1, <3>1 DEF ExecutionInv
  <2>4. ASSUME Decision(e) = "confirm", NEW said \in {"confirmed", "refused", "unavailable"},
               consent' = [consent EXCEPT ![e] = said],
               pc' = [pc EXCEPT ![e] = IF said = "confirmed" THEN "cleared" ELSE "concluding"],
               outcome' = [outcome EXCEPT ![e] = CASE said = "refused" -> "refused"
                                                   [] said = "unavailable" -> "failed"
                                                   [] OTHER -> @]
        PROVE ExecutionInv(e)'
    <3>1. CASE said = "confirmed"
      <4>1. pc'[e] = "cleared" /\ Consented(e)'
        BY <1>1, <1>2, <2>4, <3>1 DEF Types, Consented
      <4> QED
        BY <1>2, <2>1, <4>1 DEF ExecutionInv
    <3>2. CASE said # "confirmed"
      <4>1. pc'[e] = "concluding" /\ outcome'[e] \in {"refused", "failed"}
        BY <1>1, <2>4, <3>2 DEF Types
      <4> QED
        BY <1>2, <2>1, <4>1 DEF ExecutionInv, OutcomeIsTrue, Outcomes
    <3> QED
      BY <3>1, <3>2
  <2> QED
    BY <1>3, <2>2, <2>3, <2>4 DEF Confirm
<1>4. CASE Act(e)
  <2>1. pc'[e] = "acting" /\ Consented(e)'
    BY <1>1, <1>2, <1>4 DEF Types, Act, ExecutionInv, Consented
  <2> QED
    BY <1>2, <2>1 DEF ExecutionInv
<1>5. CASE Return(e)
  <2>1. pc'[e] = "concluding" /\ Consented(e)'
    BY <1>1, <1>2, <1>5 DEF Types, Return, ExecutionInv, Consented
  <2>2. OutcomeIsTrue(e)'
    <3>1. CASE effect' = [effect EXCEPT ![e] = "done"]
               /\ outcome' = [outcome EXCEPT ![e] = IF Decision(e) = "confirm" THEN "confirmed" ELSE "allowed"]
      <4>1. effect'[e] = "done" /\ outcome'[e] \in {"confirmed", "allowed"}
        BY <1>1, <3>1 DEF Types
      <4> QED
        BY <4>1 DEF OutcomeIsTrue, Outcomes
    <3>2. CASE effect' \in {[effect EXCEPT ![e] = left] :
                              left \in IF kind[e] = "file_write" THEN {"none"} ELSE {"none", "stopped"}}
               /\ outcome' = [outcome EXCEPT ![e] = "failed"]
      <4>1. /\ outcome'[e] = "failed" /\ effect'[e] \in {"none", "stopped"}
            /\ kind[e] = "file_write" => effect'[e] = "none"
        BY <1>1, <3>2 DEF Types
      <4>2. consent'[e] # "unavailable"
        BY <2>1 DEF Consented
      <4> QED
        BY <1>2, <4>1, <4>2 DEF OutcomeIsTrue, Outcomes
    <3> QED
      BY <1>5, <3>1, <3>2 DEF Return
  <2> QED
    BY <1>2, <2>1, <2>2 DEF ExecutionInv
<1> QED
  BY <1>3, <1>4, <1>5

\* However an execution ends, what its evidence and its answer say of its
\* effect stays true; a command that is left running has no outcome on record.
LEMMA EndingKeeps ==
    ASSUME ActionInv, Types', NEW e \in Executions, Conclude(e) \/ Raise(e) \/ Crash(e) \/ Orphan(e)
    PROVE ExecutionInv(e)'
<1> USE DEF ActionInv
<1>1. ExecutionInv(e) /\ Types
  OBVIOUS
<1>2. /\ pc'[e] = "ended" /\ Decision(e)' = Decision(e) /\ Decision(e) \in Decisions
      /\ kind'[e] = kind[e] /\ consent'[e] = consent[e] /\ outcome'[e] = outcome[e]
      /\ Consented(e)' = Consented(e)
  <2>1. UNCHANGED <<matched, kind, consent, outcome>> /\ pc'[e] = "ended"
    BY <1>1 DEF Types, Conclude, Raise, Crash, Orphan, End
  <2> QED
    BY <2>1, DecisionType DEF Decision, Consented
<1>3. CASE Conclude(e)
  <2>1. /\ Open(e) /\ OutcomeIsTrue(e) /\ OutcomeIsTrue(e)' /\ effect'[e] = effect[e]
        /\ effect[e] # "none" => Consented(e)
    BY <1>1, <1>2, <1>3 DEF Conclude, ExecutionInv, OutcomeIsTrue
  <2>2. CASE Record(e, outcome[e], outcome[e]) /\ End(e, outcome[e])
    <3>1. PICK result \in Outcomes : result = outcome[e]
      BY <2>1 DEF OutcomeIsTrue
    <3>2. Record(e, result, result)
      BY <2>2, <3>1 DEF Record
    <3>3. \E i, t \in DOMAIN evidence' :
             /\ RowsOf(e)' = {i, t} /\ i < t /\ IsDecision(evidence'[i])
             /\ evidence'[t].event_kind # "decision"
             /\ evidence'[t].outcome = result /\ evidence'[t].confirmation = consent[e]
      BY <2>1, <3>2, OutcomeRecords
    <3>4. Closed(e, outcome[e], consent[e])'
      BY <1>2, <3>1, <3>3 DEF Closed
    <3>5. answer'[e] = outcome'[e]
      BY <1>1, <1>2, <2>2 DEF Types, End
    <3> QED
      BY <1>2, <2>1, <3>4, <3>5 DEF ExecutionInv, Past
  <2>3. CASE End(e, IF Started(e) THEN "inspect_outcome" ELSE "not_executed") /\ UNCHANGED evidence
    <3>1. Open(e)'
      BY <2>1, <2>3 DEF Open, RowsOf
    <3>2. answer'[e] \in {"inspect_outcome", "not_executed"}
          /\ (answer'[e] = "not_executed" => ~Started(e))
      BY <1>1, <2>3 DEF Types, End
    <3>3. Consented(e) => Started(e)
      BY DEF Consented, Started
    <3> QED
      BY <1>2, <2>1, <3>1, <3>2, <3>3 DEF ExecutionInv, Past, Outcomes
  <2> QED
    BY <1>3, <2>2, <2>3 DEF Conclude
<1>4. CASE Raise(e) \/ Crash(e)
  <2>1. UNCHANGED evidence /\ answer'[e] \in {"raised", "none"}
    BY <1>1, <1>4 DEF Types, Raise, Crash, End
  <2>2. Unrecorded(e)' = Unrecorded(e) /\ Open(e)' = Open(e)
    BY <2>1 DEF Unrecorded, Open, RowsOf
  <2>3. pc[e] \in {"decided", "recorded", "cleared", "acting", "concluding"}
    BY <1>1, <1>4 DEF Types, Positions, Raise, Crash
  <2>4. CASE pc[e] = "acting"
    BY <1>1, <1>2, <2>1, <2>2, <2>4 DEF ExecutionInv, Past, Outcomes
  <2>5. CASE pc[e] # "acting"
    <3>1. effect'[e] = effect[e]
      BY <1>1, <1>4, <2>5 DEF Types, Raise, Crash
    <3> QED
      BY <1>1, <1>2, <2>1, <2>2, <2>3, <2>5, <3>1 DEF ExecutionInv, Past, Outcomes
  <2> QED
    BY <2>4, <2>5
<1>5. CASE Orphan(e)
  <2>1. Past(e) /\ effect[e] = "started" /\ Consented(e) /\ UNCHANGED <<evidence, answer>>
    BY <1>1, <1>5 DEF Orphan, ExecutionInv
  <2>2. Open(e) /\ answer[e] \notin Outcomes /\ answer[e] \notin {"undecided", "not_executed"}
    BY <2>1 DEF Past, OutcomeIsTrue
  <2>3. Open(e)'
    BY <2>1, <2>2 DEF Open, RowsOf
  <2> QED
    BY <1>2, <2>1, <2>2, <2>3 DEF ExecutionInv, Past
<1> QED
  BY <1>3, <1>4, <1>5

LEMMA ActionStep == ActionInv /\ [Next]_vars => ActionInv'
<1> SUFFICES ASSUME ActionInv, [Next]_vars PROVE ActionInv'
  OBVIOUS
<1>1. ASSUME NEW e \in Executions, Execute(e) PROVE ActionInv'
  <2>1. Types'
    BY <1>1, TypesKeep
  <2>2. ExecutionInv(e)'
    BY <1>1, <2>1, DecidingKeeps, ActingKeeps, EndingKeeps DEF Execute
  <2>3. \A f \in Executions : f # e => ExecutionInv(f)'
    BY <1>1, BystanderKeeps
  <2> QED
    BY <2>1, <2>2, <2>3 DEF ActionInv
<1>2. CASE UNCHANGED vars
  BY <1>2 DEF vars, ActionInv, Types, ExecutionInv, Unrecorded, Open, RowsOf, Waiting, Consented, Decision,
              OutcomeIsTrue, Past, Closed
<1> QED
  BY <1>1, <1>2 DEF Next

\* Every reachable state satisfies the inductive invariant.
THEOREM ActionInvariance == Spec => []ActionInv
BY ActionsStart, ActionStep, PTL DEF Spec

(***************************************************************************)
(* What reports read from it.                                              *)
(***************************************************************************)

\* An execution that is reported has a row.
LEMMA ReportedHasRow == ASSUME Types, NEW e \in Executions PROVE e \in Reported <=> RowsOf(e) # {}
<1>1. Reported = {evidence[i].execution : i \in DOMAIN evidence}
  BY DEF Reported, Range
<1> QED
  BY <1>1 DEF RowsOf

\* A report of a decision that has no outcome yet says so.
LEMMA OpenIsReported ==
    ASSUME Types, NEW e \in Executions, Open(e)
    PROVE /\ e \in Reported /\ ReportedEvent(e).outcome = "none" /\ TerminalRows(e) = {}
          /\ \A i \in RowsOf(e) : evidence[i].event_kind = "decision" /\ \A j \in RowsOf(e) : i <= j
<1>1. PICK i \in DOMAIN evidence : RowsOf(e) = {i} /\ IsDecision(evidence[i])
  BY DEF Open
<1>2. TerminalRows(e) = {} /\ i \in Nat
  BY <1>1 DEF TerminalRows, IsDecision, Types
<1>3. Min({i}) = i
  BY <1>2 DEF Min
<1>4. ReportedEvent(e) = evidence[i]
  BY <1>1, <1>2, <1>3 DEF ReportedEvent
<1> QED
  BY <1>1, <1>2, <1>4, ReportedHasRow DEF IsDecision

\* A report of a decision that has an outcome says which, and whether consent
\* was given.
LEMMA ClosedIsReported ==
    ASSUME Types, NEW e \in Executions, NEW result, NEW said, Closed(e, result, said)
    PROVE /\ e \in Reported /\ ReportedEvent(e).outcome = result /\ ReportedEvent(e).confirmation = said
          /\ \A i, j \in TerminalRows(e) : i = j
          /\ \A i \in RowsOf(e) : evidence[i].event_kind = "decision" <=> \A j \in RowsOf(e) : i <= j
<1>1. PICK i, t \in DOMAIN evidence :
        /\ RowsOf(e) = {i, t} /\ i < t /\ IsDecision(evidence[i])
        /\ evidence[t].event_kind # "decision"
        /\ evidence[t].outcome = result /\ evidence[t].confirmation = said
  BY DEF Closed
<1>2. TerminalRows(e) = {t} /\ i \in Nat /\ t \in Nat
  BY <1>1 DEF TerminalRows, IsDecision, Types
<1>3. Max({t}) = t
  BY <1>2 DEF Max
<1>4. ReportedEvent(e) = evidence[t]
  BY <1>2, <1>3 DEF ReportedEvent
<1> QED
  BY <1>1, <1>2, <1>4, ReportedHasRow DEF IsDecision

\* The rows of an execution are its decision and after it one outcome at most,
\* and every variable keeps its type.
LEMMA ActionTypes == ActionInv => TypeOK
<1>1. ASSUME ActionInv PROVE TypeOK
  <2> USE <1>1 DEF ActionInv
  <2>1. ASSUME NEW e \in Executions
        PROVE /\ \A i \in RowsOf(e) : evidence[i].event_kind = "decision" <=> \A j \in RowsOf(e) : i <= j
              /\ \A i, j \in TerminalRows(e) : i = j
    <3>1. CASE Unrecorded(e)
      BY <3>1 DEF Unrecorded, TerminalRows
    <3>2. CASE Open(e)
      BY <3>2, OpenIsReported
    <3>3. CASE Closed(e, outcome[e], consent[e])
      <4>1. PICK result, said : result = outcome[e] /\ said = consent[e]
        OBVIOUS
      <4> QED
        BY <3>3, <4>1, ClosedIsReported
    <3> QED
      BY <3>1, <3>2, <3>3 DEF ExecutionInv, Past, Types, Positions
  <2> QED
    BY <2>1 DEF TypeOK, Types
<1> QED
  BY <1>1

\* So is every execution's, in every behaviour.
THEOREM ActionsAreTyped == Spec => []TypeOK
BY ActionInvariance, ActionTypes, PTL

\* What the invariant says of one execution and its report.
LEMMA ReportOf ==
    ASSUME ActionInv, NEW e \in Executions
    PROVE /\ effect[e] # "none" => e \in Reported /\ Consented(e)
          /\ e \in Reported =>
               \/ ReportedEvent(e).outcome = "none" /\ answer[e] \notin Outcomes
               \/ /\ pc[e] = "ended" /\ OutcomeIsTrue(e)
                  /\ ReportedEvent(e).outcome = outcome[e] /\ ReportedEvent(e).confirmation = consent[e]
          /\ answer[e] \in Outcomes => e \in Reported /\ ReportedEvent(e).outcome = answer[e]
          /\ answer[e] \in {"undecided", "not_executed"} => effect[e] = "none"
<1> USE DEF ActionInv
<1>1. CASE Unrecorded(e)
  <2>1. e \notin Reported
    BY <1>1, ReportedHasRow DEF Unrecorded
  <2>2. ~Open(e) /\ ~Closed(e, outcome[e], consent[e])
    BY <1>1 DEF Unrecorded, Open, Closed
  <2> QED
    BY <2>1, <2>2 DEF ExecutionInv, Past, Types, Positions, Outcomes
<1>2. CASE Open(e)
  <2>1. e \in Reported /\ ReportedEvent(e).outcome = "none" /\ TerminalRows(e) = {} /\ ~Unrecorded(e)
    BY <1>2, OpenIsReported DEF Open, Unrecorded
  <2>2. ~Closed(e, outcome[e], consent[e])
    BY <2>1 DEF Closed, TerminalRows
  <2> QED
    BY <1>2, <2>1, <2>2 DEF ExecutionInv, Past, Types, Positions, Outcomes
<1>3. CASE Closed(e, outcome[e], consent[e])
  <2>1. PICK result, said : result = outcome[e] /\ said = consent[e]
    OBVIOUS
  <2>2. e \in Reported /\ ReportedEvent(e).outcome = outcome[e] /\ ReportedEvent(e).confirmation = consent[e]
    BY <1>3, <2>1, ClosedIsReported
  <2>3. ~Unrecorded(e) /\ ~Open(e)
    BY <1>3 DEF Unrecorded, Open, Closed, Types, IsDecision
  <2> QED
    BY <2>2, <2>3 DEF ExecutionInv, Past, Types, Positions, Outcomes, OutcomeIsTrue
<1> QED
  BY <1>1, <1>2, <1>3 DEF ExecutionInv, Past, Types, Positions

\* Nothing is done before its decision is on record, against a blocking rule or
\* without the consent a rule asks for; reports and answers say what was done,
\* and a session that is called completed is over.
LEMMA EvidenceFollows == ActionInv => EvidenceIsTrue
<1>1. ASSUME ActionInv PROVE EvidenceIsTrue
  <2>1. Reported \subseteq Executions
    <3>1. Reported = {evidence[i].execution : i \in DOMAIN evidence}
      BY DEF Reported, Range
    <3>2. \A i \in DOMAIN evidence : evidence[i] \in Event
      BY <1>1 DEF ActionInv, Types
    <3>3. \A event \in Event : event.execution \in Executions
      BY DEF Event
    <3> QED
      BY <3>1, <3>2, <3>3
  <2>2. ActsOnlyAsRecorded
    <3>1. ASSUME NEW e \in Executions, effect[e] # "none"
          PROVE /\ e \in Reported
                /\ matched[e] \cap BlockRules = {}
                /\ matched[e] \cap ConfirmRules # {} => consent[e] = "confirmed"
      BY <1>1, <3>1, ReportOf DEF Consented, Decision
    <3> QED
      BY <3>1 DEF ActsOnlyAsRecorded
  <2>3. ReportIsTrue
    BY <1>1, <2>1, ReportOf DEF ReportIsTrue, OutcomeIsTrue
  <2>4. AnswerAgreesWithEvidence
    BY <1>1, ReportOf DEF AnswerAgreesWithEvidence, ReportedOutcome
  <2>5. CompletedSessionIsQuiet
    BY <1>1, <2>1, ReportOf DEF CompletedSessionIsQuiet, SessionCompleted, ReportedOutcome, OutcomeIsTrue
  <2> QED
    BY <2>2, <2>3, <2>4, <2>5 DEF EvidenceIsTrue
<1> QED
  BY <1>1

\* The evidence of any number of executions, under any rules, is true.
THEOREM EvidenceSafety == Spec => []EvidenceIsTrue
BY ActionInvariance, EvidenceFollows, PTL

(***************************************************************************)
(* The inductive invariant: what is where, as long as nobody else changes  *)
(* anything.                                                               *)
(***************************************************************************)

Stages == {"staging", "seed"}

NowhereInv ==
    place = "nowhere" =>
        step = "idle" /\ marker = "none" /\ extra = {} /\ \A f \in Files : content[f] = "absent"

\* A publisher past its inspection has a whole stage.
StageInv ==
    place \in Stages =>
        /\ step \in Building \cup {"idle", "leave", "sweep", "rmdir"}
        /\ step \in {"ready", "unmarked"} => Whole
        /\ step = "unmarked" => marker = "none"

ObjectInv == place = "object" => step = "idle" /\ Whole /\ marker = "none"

\* What the files of trash look like between two steps: once one of them is
\* gone, the record is complete, and the manifest is there as long as any
\* other file is.
Resumable ==
    /\ extra = {} /\ marker \in {"none", "part", "whole"}
    /\ \A f \in Files : content[f] \in {"absent", "good"}
    /\ (\E f \in Files : content[f] = "absent") =>
        \/ marker = "whole" /\ (Present # {} => content[Manifest] = "good")
        \/ marker = "none" /\ Present = {}

\* Where a pass stands and what it has found.
PassInv ==
    /\ step \in {"idle", "relabel", "label", "labelling", "hash", "clear", "rmdir"}
    /\ step \in {"relabel", "label", "labelling"} => \A f \in Files : content[f] = "good"
    /\ step = "labelling" => marker = "part"
    /\ step \in {"hash", "clear"} => marker = "whole"
    /\ step \in {"relabel", "label", "labelling", "hash", "clear"} => seen = Present
    /\ step = "rmdir" => Present = {} /\ marker = "none"

TrashInv == place = "trash" => Resumable /\ PassInv /\ ~refused

DirectoryInv ==
    /\ RemovalTypeOK
    /\ changes = 0 => NowhereInv /\ StageInv /\ ObjectInv /\ TrashInv

(***************************************************************************)
(* Type correctness.                                                       *)
(***************************************************************************)

LEMMA RemovalTypeInit == RemovalInit => RemovalTypeOK
<1> SUFFICES ASSUME RemovalInit PROVE RemovalTypeOK
  OBVIOUS
<1>1. changes \in 0..MaxChanges
  BY RemovalAssumption DEF RemovalInit
<1>2. content \in [Files -> {"absent", "part", "good", "changed"}]
  BY DEF RemovalInit
<1>3. refused \in BOOLEAN
  BY DEF RemovalInit
<1>4. QED
  BY <1>1, <1>2, <1>3 DEF RemovalInit, RemovalTypeOK, Building, Reclaiming

\* Every step keeps the types.
LEMMA RemovalTypeStep == RemovalTypeOK /\ [RemovalNext]_removalVars => RemovalTypeOK'
<1> SUFFICES ASSUME RemovalTypeOK, [RemovalNext]_removalVars PROVE RemovalTypeOK'
  OBVIOUS
<1> USE RemovalAssumption DEF RemovalTypeOK, Building, Reclaiming, Goto
<1>1. ASSUME NEW where \in {"staging", "seed"}, MakeStage(where) PROVE RemovalTypeOK'
  BY <1>1 DEF MakeStage
<1>2. CASE WriteOwner
  BY <1>2 DEF WriteOwner, passVars
<1>3. CASE Scratch
  BY <1>3 DEF Scratch, passVars
<1>4. CASE Seal \/ Abort \/ LeaveStage \/ RemoveStage \/ CheckHashes \/ Stop
  BY <1>4, ZenonT(30) DEF Seal, Abort, LeaveStage, RemoveStage, CheckHashes, Stop, treeVars, passVars, Present
<1>5. CASE DropOwner \/ Install \/ SweepOwner \/ RemoveDirectory \/ Discard \/ Relabel \/ DropRecord
  BY <1>5, ZenonT(30) DEF DropOwner, Install, SweepOwner, RemoveDirectory, Discard, Relabel, DropRecord, passVars
<1>6. ASSUME NEW f \in Files, WriteFile(f) \/ Sweep(f) \/ Clear(f) PROVE RemovalTypeOK'
  BY <1>6, ZenonT(30) DEF WriteFile, Sweep, Clear, passVars
<1>7. CASE CleanTrash
  BY <1>7 DEF CleanTrash, treeVars, Present
<1>8. CASE Change
  <2>1. changes' \in 0..MaxChanges
    BY <1>8 DEF Change
  <2>2. content' \in [Files -> {"absent", "part", "good", "changed"}] /\ since' \subseteq Files
    BY <1>8 DEF Change, Present
  <2>3. marker' \in {"none", "part", "whole", "forged", "junk"} /\ extra' \subseteq {"scratch", "foreign"}
    BY <1>8 DEF Change
  <2>4. refused' \in BOOLEAN
    BY <1>8 DEF Change
  <2>5. QED
    BY <1>8, <2>1, <2>2, <2>3, <2>4 DEF Change
<1>9. CASE UNCHANGED removalVars
  BY <1>9 DEF removalVars
<1>10. QED
  BY <1>1, <1>2, <1>3, <1>4, <1>5, <1>6, <1>7, <1>8, <1>9 DEF RemovalNext

\* The variables keep their types in every behaviour.
THEOREM RemovalTypeCorrect == RemovalSpec => []RemovalTypeOK
BY RemovalTypeInit, RemovalTypeStep, PTL DEF RemovalSpec

(***************************************************************************)
(* The steps.                                                              *)
(***************************************************************************)

LEMMA DirectoryStart == RemovalInit => DirectoryInv
BY RemovalTypeInit DEF RemovalInit, DirectoryInv, NowhereInv, StageInv, ObjectInv, TrashInv, Stages

\* Nobody takes back a change.
LEMMA ChangesStay == DirectoryInv /\ [RemovalNext]_removalVars /\ changes' = 0 => changes = 0 /\ ~Change
<1> SUFFICES ASSUME DirectoryInv, [RemovalNext]_removalVars, changes' = 0 PROVE changes = 0 /\ ~Change
  OBVIOUS
<1>1. changes \in Nat
  BY RemovalAssumption DEF DirectoryInv, RemovalTypeOK
<1>2. ~Change
  BY <1>1 DEF Change
<1>3. changes = 0
  BY <1>2 DEF RemovalNext, MakeStage, WriteOwner, WriteFile, Scratch, Seal, DropOwner, Install, Abort, LeaveStage,
              RemoveStage, Sweep, SweepOwner, RemoveDirectory, Discard, CleanTrash, Relabel, CheckHashes,
              Clear, DropRecord, Stop, removalVars
<1>4. QED
  BY <1>2, <1>3

\* A publisher's step keeps the invariant.
LEMMA PublisherStep ==
    ASSUME DirectoryInv, changes = 0,
           \/ \E where \in {"staging", "seed"} : MakeStage(where)
           \/ WriteOwner \/ Scratch \/ Seal \/ DropOwner \/ Install \/ Abort \/ LeaveStage
           \/ \E f \in Files : WriteFile(f)
    PROVE  NowhereInv' /\ StageInv' /\ ObjectInv' /\ TrashInv'
<1> USE DEF DirectoryInv, RemovalTypeOK, NowhereInv, StageInv, ObjectInv, TrashInv, PassInv, Stages, Building, Goto
<1>1. ASSUME NEW where \in {"staging", "seed"}, MakeStage(where)
      PROVE  NowhereInv' /\ StageInv' /\ ObjectInv' /\ TrashInv'
  BY <1>1 DEF MakeStage
<1>2. CASE WriteOwner
  BY <1>2 DEF WriteOwner, Whole, passVars
<1>3. CASE Scratch
  BY <1>3 DEF Scratch, passVars
<1>4. CASE Seal
  BY <1>4 DEF Seal, Whole, treeVars, passVars
<1>5. CASE DropOwner
  BY <1>5 DEF DropOwner, Whole, passVars
<1>6. CASE Install
  BY <1>6 DEF Install, Whole, passVars
<1>7. CASE Abort \/ LeaveStage
  BY <1>7 DEF Abort, LeaveStage, treeVars, passVars
<1>8. ASSUME NEW f \in Files, WriteFile(f)
      PROVE  NowhereInv' /\ StageInv' /\ ObjectInv' /\ TrashInv'
  BY <1>8 DEF WriteFile, passVars
<1>9. QED
  BY <1>1, <1>2, <1>3, <1>4, <1>5, <1>6, <1>7, <1>8

\* The removal of a stage keeps the invariant.
LEMMA RemoveStageStep ==
    ASSUME DirectoryInv, changes = 0,
           RemoveStage \/ SweepOwner \/ \E f \in Files : Sweep(f)
    PROVE  NowhereInv' /\ StageInv' /\ ObjectInv' /\ TrashInv'
<1> USE DEF DirectoryInv, RemovalTypeOK, NowhereInv, StageInv, ObjectInv, TrashInv, PassInv, Stages, Building, Goto
<1>1. CASE RemoveStage
  BY <1>1 DEF RemoveStage, treeVars
<1>2. CASE SweepOwner
  BY <1>2 DEF SweepOwner, passVars
<1>3. ASSUME NEW f \in Files, Sweep(f)
      PROVE  NowhereInv' /\ StageInv' /\ ObjectInv' /\ TrashInv'
  BY <1>3 DEF Sweep
<1>4. QED
  BY <1>1, <1>2, <1>3

\* An object reaches the trash whole and without a marker.
LEMMA DiscardStep ==
    ASSUME DirectoryInv, changes = 0, Discard \/ RemoveDirectory
    PROVE  NowhereInv' /\ StageInv' /\ ObjectInv' /\ TrashInv'
<1> USE DEF DirectoryInv, RemovalTypeOK, NowhereInv, StageInv, ObjectInv, TrashInv, PassInv, Stages, Building, Goto
<1>1. CASE Discard
  BY <1>1 DEF Discard, Whole, Resumable, Present
<1>2. CASE RemoveDirectory
  BY <1>2 DEF RemoveDirectory, Present
<1>3. QED
  BY <1>1, <1>2

\* Resumable trash is recognized: a pass goes on with it.
LEMMA RecognizeStep ==
    ASSUME DirectoryInv, changes = 0, CleanTrash
    PROVE  TrashInv'
<1>1. Resumable /\ step = "idle" /\ place = "trash"
  BY DEF DirectoryInv, TrashInv, CleanTrash
<1>2. CASE \E f \in Files : content[f] = "absent"
  BY <1>1, <1>2 DEF CleanTrash, Resumable, Recorded, Whole, Present, TrashInv, PassInv, treeVars
<1>3. CASE \A f \in Files : content[f] # "absent"
  <2>1. Whole
    BY <1>1, <1>3 DEF Resumable, Whole
  <2>2. Manifest \in Files /\ content[Manifest] = "good" /\ Present # {}
    BY <2>1 DEF Whole, Files, Present
  <2>3. QED
    BY <1>1, <2>1, <2>2 DEF CleanTrash, Resumable, Recorded, Whole, Present, TrashInv, PassInv, treeVars
<1>4. QED
  BY <1>2, <1>3

\* The record is written while every file is still there.
LEMMA RelabelStep ==
    ASSUME DirectoryInv, changes = 0, Relabel
    PROVE  TrashInv'
BY DEF DirectoryInv, RemovalTypeOK, TrashInv, PassInv, Resumable, Present, Relabel, Goto, passVars

\* The hashes agree: nobody has changed the files.
LEMMA HashStep ==
    ASSUME DirectoryInv, changes = 0, CheckHashes
    PROVE  TrashInv'
<1>1. CASE place # "trash"
  BY <1>1 DEF DirectoryInv, CheckHashes, treeVars, TrashInv
<1>2. CASE place = "trash"
  <2>1. \A f \in seen : content[f] = "good"
    BY <1>2 DEF DirectoryInv, TrashInv, PassInv, Resumable, CheckHashes, Present
  <2>2. QED
    BY <1>2, <2>1 DEF DirectoryInv, RemovalTypeOK, TrashInv, PassInv, Resumable, CheckHashes, Present, treeVars
<1>3. QED
  BY <1>1, <1>2

\* The manifest leaves last, and the record after it.
LEMMA ClearStep ==
    ASSUME DirectoryInv, changes = 0, DropRecord \/ \E f \in Files : Clear(f)
    PROVE  TrashInv'
<1>1. CASE DropRecord
  BY <1>1 DEF DirectoryInv, RemovalTypeOK, TrashInv, PassInv, Resumable, Present, DropRecord, Goto, passVars
<1>2. ASSUME NEW f \in Files, Clear(f), place = "trash" PROVE TrashInv'
  <2>1. /\ step = "clear" /\ seen = Present /\ marker = "whole" /\ Resumable
        /\ content' = [content EXCEPT ![f] = "absent"] /\ content \in [Files -> {"absent", "part", "good", "changed"}]
    BY <1>2 DEF DirectoryInv, RemovalTypeOK, TrashInv, PassInv, Clear
  <2>2. Present' = seen' /\ seen' = seen \ {f}
    BY <1>2, <2>1 DEF Clear, Present
  <2>3. Present' # {} => content'[Manifest] = "good"
    <3>1. CASE f = Manifest
      BY <1>2, <2>1, <2>2, <3>1 DEF Clear
    <3>2. CASE f # Manifest
      <4>1. content[Manifest] = "good"
        <5>1. Manifest \in Files /\ Present # {}
          BY <1>2, <2>1 DEF Files, Present, Clear
        <5>2. QED
          BY <2>1, <5>1 DEF Resumable
      <4>2. QED
        BY <2>1, <3>2, <4>1 DEF Files
    <3>3. QED
      BY <3>1, <3>2
  <2>4. Resumable'
    BY <1>2, <2>1, <2>3 DEF Resumable, Clear
  <2>5. QED
    BY <1>2, <2>1, <2>2, <2>4 DEF DirectoryInv, TrashInv, PassInv, Clear
<1>3. ASSUME NEW f \in Files, Clear(f), place # "trash" PROVE TrashInv'
  BY <1>3 DEF Clear, TrashInv
<1>4. QED
  BY <1>1, <1>2, <1>3

\* A pass over trash leaves the other places alone.
LEMMA TrashStep ==
    ASSUME DirectoryInv, changes = 0,
           CleanTrash \/ Relabel \/ CheckHashes \/ DropRecord \/ \E f \in Files : Clear(f)
    PROVE  NowhereInv' /\ StageInv' /\ ObjectInv' /\ TrashInv'
<1>1. TrashInv'
  BY RecognizeStep, RelabelStep, HashStep, ClearStep
<1>2. place = "trash" /\ place' = "trash"
  BY DEF DirectoryInv, RemovalTypeOK, NowhereInv, StageInv, ObjectInv, Stages, Building,
         CleanTrash, Relabel, CheckHashes, DropRecord, Clear, Goto, treeVars
<1>3. QED
  BY <1>1, <1>2 DEF NowhereInv, StageInv, ObjectInv, Stages

\* A killed pass leaves what the next one recognizes.
LEMMA StopStep ==
    ASSUME DirectoryInv, changes = 0, Stop
    PROVE  NowhereInv' /\ StageInv' /\ ObjectInv' /\ TrashInv'
BY DEF DirectoryInv, NowhereInv, StageInv, ObjectInv, TrashInv, PassInv, Resumable, Whole, Present, Stages, Stop, treeVars

LEMMA DirectoryStep == DirectoryInv /\ [RemovalNext]_removalVars => DirectoryInv'
<1> SUFFICES ASSUME DirectoryInv, [RemovalNext]_removalVars PROVE DirectoryInv'
  OBVIOUS
<1>1. RemovalTypeOK'
  BY RemovalTypeStep DEF DirectoryInv
<1>2. ASSUME changes' = 0 PROVE NowhereInv' /\ StageInv' /\ ObjectInv' /\ TrashInv'
  <2>1. changes = 0 /\ ~Change
    BY <1>2, ChangesStay
  <2>2. CASE UNCHANGED removalVars
    BY <2>1, <2>2 DEF DirectoryInv, NowhereInv, StageInv, ObjectInv, TrashInv, PassInv, Resumable, Whole, Present, Stages, removalVars
  <2>3. CASE RemovalNext
    BY <2>1, <2>3, PublisherStep, RemoveStageStep, DiscardStep, TrashStep, StopStep DEF RemovalNext
  <2>4. QED
    BY <2>2, <2>3
<1>3. QED
  BY <1>1, <1>2 DEF DirectoryInv

(***************************************************************************)
(* Changed files.                                                          *)
(***************************************************************************)

\* What a pass is about to delete for its content was as sealed when the pass
\* looked, and is changed only by what came later.
ProvenInv ==
    claim = "content" /\ step \in {"sweep", "clear"} =>
        \A f \in seen : content[f] = "changed" => f \in since

PInv == RemovalTypeOK /\ ProvenInv

LEMMA ProvenStep == PInv /\ [RemovalNext]_removalVars => PInv' /\ PreservesChanges
<1> SUFFICES ASSUME PInv, [RemovalNext]_removalVars PROVE PInv' /\ PreservesChanges
  OBVIOUS
<1>1. RemovalTypeOK'
  BY RemovalTypeStep DEF PInv
<1>2. ASSUME NEW f \in Files, Sweep(f) \/ Clear(f) PROVE ProvenInv' /\ PreservesChanges
  BY <1>2 DEF PInv, RemovalTypeOK, ProvenInv, Sweep, Clear, PreservesChanges
<1>3. CASE RemoveStage
  <2>1. ProvenInv'
    BY <1>3 DEF PInv, RemovalTypeOK, ProvenInv, RemoveStage, ProvenStage, Whole, Present, treeVars
  <2>2. QED
    BY <1>1, <1>3, <2>1 DEF PInv, RemoveStage, treeVars, PreservesChanges
<1>4. CASE CheckHashes
  <2>1. ProvenInv'
    BY <1>4 DEF PInv, RemovalTypeOK, ProvenInv, CheckHashes, treeVars
  <2>2. QED
    BY <1>1, <1>4, <2>1 DEF PInv, CheckHashes, treeVars, PreservesChanges
<1>5. CASE Change
  <2>1. changes \in Nat
    BY RemovalAssumption DEF PInv, RemovalTypeOK
  <2>2. changes' # changes
    BY <1>5, <2>1 DEF Change
  <2>3. ProvenInv'
    BY <1>5 DEF PInv, RemovalTypeOK, ProvenInv, Change, Present
  <2>4. QED
    BY <1>1, <2>2, <2>3 DEF PInv, PreservesChanges
<1>6. ASSUME NEW f \in Files, WriteFile(f) PROVE ProvenInv' /\ PreservesChanges
  BY <1>6 DEF PInv, RemovalTypeOK, ProvenInv, WriteFile, passVars, PreservesChanges
<1>7. CASE \/ \E where \in {"staging", "seed"} : MakeStage(where)
           \/ WriteOwner \/ Scratch \/ Seal \/ DropOwner \/ Install \/ Abort \/ LeaveStage
           \/ SweepOwner \/ RemoveDirectory \/ Discard \/ CleanTrash \/ Relabel \/ DropRecord \/ Stop
           \/ UNCHANGED removalVars
  <2>1. UNCHANGED content
    BY <1>7 DEF MakeStage, WriteOwner, Scratch, Seal, DropOwner, Install, Abort, LeaveStage, SweepOwner,
                RemoveDirectory, Discard, CleanTrash, Relabel, DropRecord, Stop, treeVars, removalVars
  <2>2. ProvenInv'
    BY <1>7, <2>1 DEF PInv, RemovalTypeOK, ProvenInv, MakeStage, WriteOwner, Scratch, Seal, DropOwner, Install, Abort,
                LeaveStage, SweepOwner, RemoveDirectory, Discard, CleanTrash, Relabel, DropRecord, Stop,
                Goto, treeVars, passVars, removalVars
  <2>3. QED
    BY <1>1, <2>1, <2>2 DEF PInv, PreservesChanges
<1>8. QED
  BY <1>1, <1>2, <1>3, <1>4, <1>5, <1>6, <1>7 DEF RemovalNext, PInv

(***************************************************************************)
(* The results.                                                            *)
(***************************************************************************)

\* Trash that nobody else changed is never preserved as suspicious, however
\* many passes were killed at whatever step.
THEOREM TrashSafety == RemovalSpec => []TrashIsReclaimed
<1>1. DirectoryInv => TrashIsReclaimed
  BY DEF DirectoryInv, TrashInv, TrashIsReclaimed
<1>2. QED
  BY <1>1, DirectoryStart, DirectoryStep, PTL DEF RemovalSpec

\* An object that nobody else changed is a whole generation without a marker.
THEOREM ObjectSafety == RemovalSpec => []ObjectsAreWhole
<1>1. DirectoryInv => ObjectsAreWhole
  BY DEF DirectoryInv, ObjectInv, ObjectsAreWhole
<1>2. QED
  BY <1>1, DirectoryStart, DirectoryStep, PTL DEF RemovalSpec

\* Nobody's change is deleted by a pass that began after it and relies on a
\* record or on the content.
THEOREM ChangedFilesSafety == RemovalSpec => ChangedFilesArePreserved
<1>1. RemovalInit => PInv
  BY RemovalTypeInit DEF PInv, RemovalInit, ProvenInv
<1>2. QED
  BY <1>1, ProvenStep, PTL DEF RemovalSpec, ChangedFilesArePreserved

(***************************************************************************)
(* Stages that somebody left.                                              *)
(***************************************************************************)

\* The stages that stay: a build's scratch is in it, it was on its way to
\* objects/ and has lost files to a killed pass, or a seed's marker is incomplete.
Undecided ==
    \/ extra = {"scratch"}
    \/ place = "staging" /\ marker = "none" /\ Present # {} /\ Present # Files
    \/ place = "seed" /\ marker # "whole"

\* A stage is marked before its first file is made, and loses the marker when
\* it is whole or when nothing else is left.
MarkedInv ==
    place \in Stages =>
        /\ extra \subseteq {"scratch"} /\ (place = "seed" => extra = {})
        /\ marker \in {"none", "part", "whole"}
        /\ marker = "part" => Present = {}
        /\ marker = "none" => \A f \in Files : content[f] \in {"absent", "good"}
        /\ step = "own" => marker = "none" /\ Present = {}
        /\ step = "owning" => marker = "part"
        /\ step \in {"fill", "ready"} => marker = "whole"
        /\ step = "sweep" => seen = Present
        /\ refused => step = "idle" /\ Undecided

StagesInv == DirectoryInv /\ (changes = 0 => MarkedInv)

\* A stage that is neither marked nor proven is undecided.
LEMMA UnreclaimedIsUndecided ==
    ASSUME RemovalTypeOK, MarkedInv, place \in Stages, ~(extra = {} /\ (OwnedStage \/ ProvenStage))
    PROVE  Undecided
<1>1. CASE extra # {}
  BY <1>1 DEF MarkedInv, Undecided
<1>2. CASE extra = {} /\ place = "seed"
  BY <1>2 DEF OwnedStage, Undecided
<1>3. CASE extra = {} /\ place = "staging"
  <2>1. marker = "none" /\ Present # {} /\ ~Whole
    BY <1>3 DEF OwnedStage, ProvenStage, MarkedInv
  <2>2. Present # Files
    BY <1>3, <2>1 DEF MarkedInv, Whole, Present
  <2> QED
    BY <1>3, <2>1, <2>2 DEF Undecided
<1> QED
  BY <1>1, <1>2, <1>3 DEF Stages

LEMMA MarkedStep ==
    ASSUME StagesInv, RemovalNext, changes = 0, ~Change
    PROVE  MarkedInv'
<1> USE DEF StagesInv, DirectoryInv, RemovalTypeOK, NowhereInv, StageInv, ObjectInv, Stages, Building, Goto
<1>1. ASSUME NEW where \in {"staging", "seed"}, MakeStage(where) PROVE MarkedInv'
  BY <1>1 DEF MakeStage, MarkedInv, Present
<1>2. CASE WriteOwner
  BY <1>2 DEF WriteOwner, passVars, MarkedInv, Present
<1>3. CASE Scratch
  BY <1>3 DEF Scratch, passVars, MarkedInv, Present
<1>4. CASE Seal \/ Abort
  BY <1>4 DEF Seal, Abort, treeVars, passVars, MarkedInv, Present
<1>5. CASE DropOwner
  BY <1>5 DEF DropOwner, passVars, MarkedInv, Present, Whole
<1>6. CASE Install \/ RemoveDirectory \/ Discard
  BY <1>6 DEF Install, RemoveDirectory, Discard, MarkedInv
<1>7. CASE LeaveStage
  <2>1. CASE extra = {}
    BY <1>7, <2>1 DEF LeaveStage, treeVars, MarkedInv, Present
  <2>2. CASE extra # {}
    <3>1. place \in Stages => extra = {"scratch"}
      BY <2>2 DEF MarkedInv
    <3> QED
      BY <1>7, <2>2, <3>1 DEF LeaveStage, treeVars, MarkedInv, Present, Undecided
  <2> QED
    BY <2>1, <2>2
<1>8. CASE RemoveStage
  <2>1. CASE extra = {} /\ (OwnedStage \/ ProvenStage)
    BY <1>8, <2>1 DEF RemoveStage, treeVars, MarkedInv, Present
  <2>2. CASE ~(extra = {} /\ (OwnedStage \/ ProvenStage))
    <3>1. Undecided /\ step = "idle" /\ step' = "idle" /\ UNCHANGED treeVars
      BY <1>8, <2>2, UnreclaimedIsUndecided DEF RemoveStage
    <3> QED
      BY <1>8, <3>1 DEF treeVars, MarkedInv, Present, Undecided
  <2> QED
    BY <2>1, <2>2
<1>9. ASSUME NEW f \in Files, WriteFile(f) \/ Sweep(f) \/ Clear(f) PROVE MarkedInv'
  <2>1. CASE WriteFile(f)
    BY <2>1 DEF WriteFile, passVars, MarkedInv, Present
  <2>2. CASE Sweep(f)
    <3>1. Present' = Present \ {f} /\ (place \in Stages => seen' = Present')
      BY <2>2 DEF Sweep, MarkedInv, Present
    <3>2. f \in Present /\ (place \in Stages => marker # "part")
      BY <2>2 DEF Sweep, MarkedInv, Present
    <3> QED
      BY <2>2, <3>1, <3>2 DEF Sweep, MarkedInv
  <2>3. CASE Clear(f)
    BY <2>3 DEF Clear, MarkedInv
  <2> QED
    BY <1>9, <2>1, <2>2, <2>3
<1>10. CASE SweepOwner
  BY <1>10 DEF SweepOwner, passVars, MarkedInv, Present
<1>11. CASE CleanTrash \/ Relabel \/ CheckHashes \/ DropRecord
  BY <1>11 DEF CleanTrash, Relabel, CheckHashes, DropRecord, treeVars, MarkedInv
<1>12. CASE Stop
  BY <1>12 DEF Stop, treeVars, MarkedInv, Present
<1> QED
  BY <1>1, <1>2, <1>3, <1>4, <1>5, <1>6, <1>7, <1>8, <1>9, <1>10, <1>11, <1>12 DEF RemovalNext

LEMMA StagesStart == RemovalInit => StagesInv
BY DirectoryStart DEF RemovalInit, StagesInv, MarkedInv, Stages

LEMMA StagesStep == StagesInv /\ [RemovalNext]_removalVars => StagesInv'
<1> SUFFICES ASSUME StagesInv, [RemovalNext]_removalVars PROVE StagesInv'
  OBVIOUS
<1>1. DirectoryInv'
  BY DirectoryStep DEF StagesInv
<1>2. ASSUME changes' = 0 PROVE MarkedInv'
  <2>1. changes = 0 /\ ~Change
    BY <1>2, ChangesStay DEF StagesInv
  <2>2. CASE RemovalNext
    BY <2>1, <2>2, MarkedStep
  <2>3. CASE UNCHANGED removalVars
    BY <2>1, <2>3 DEF removalVars, StagesInv, MarkedInv, Undecided, Present
  <2> QED
    BY <2>2, <2>3
<1> QED
  BY <1>1, <1>2 DEF StagesInv

\* A stage that nobody else changed is kept only when it is undecided.
THEOREM StageSafety == RemovalSpec => []StagesAreReclaimed
<1>1. StagesInv => StagesAreReclaimed
  BY DEF StagesInv, MarkedInv, Stages, Undecided, StagesAreReclaimed
<1> QED
  BY <1>1, StagesStart, StagesStep, PTL DEF RemovalSpec

(***************************************************************************)
(* Onboarding: what a session remembers, and the files it has made.        *)
(***************************************************************************)

Memory == [reviewed : Setup!Digest \cup {Setup!NoDigest}, built : Setup!Digest \cup {Setup!NoDigest},
           generation : 0 .. MaxVersion, answer : 0 .. MaxVersion, pending : 0 .. MaxFiles,
           verified : (Setup!Digest \cup {Setup!NoDigest}) \X (Tasks \cup {"none"})]

Operation == [action : {"none", "build", "verify", "save"}, digest : Setup!Digest \cup {Setup!NoDigest},
              task : Tasks \cup {"none"}, file : Setup!File, published : 0 .. MaxVersion,
              step : {"idle", "begun", "published", "profile", "config", "undoing", "unlinking"}]

\* What a session remembers m is of the versions that it has seen, and its
\* operation o has passed the gate.
Gated(o, m) ==
    /\ m.generation = m.built.version
    /\ m.answer = m.verified[1].version
    /\ o.action = "build" /\ o.step = "published" => o.published = o.digest.version
    /\ o.action = "verify" => m.built = o.digest
    /\ o.action = "save" => m.verified = <<o.digest, o.task>>

\* Its files: a profile with the inode that it keeps in mind is its own, one that
\* it may remove was unedited when it looked and no saved config of its own needs it, and a
\* config that it is about to save has its profile.
OwnFiles(s, o, m) ==
    /\ m.pending <= files
    /\ profile # Setup!NoFile /\ profile.inode = m.pending => profile.author = s
    /\ o.file # Setup!NoFile =>
        o.file.author = s /\ o.file.edited = "no" /\ ~(config.author = s /\ config.digest.choice \in WithProfile)
    /\ o.step \in {"undoing", "unlinking"} => o.file # Setup!NoFile
    /\ o.step = "unlinking" =>
        profile # Setup!NoFile /\ profile.edited # "yes" /\ profile.author = s /\ profile.inode = o.file.inode
    /\ o.action = "save" /\ o.step = "config" /\ o.digest.choice \in WithProfile =>
        profile.author = s /\ profile.digest = o.digest

ProfileInv ==
    /\ profile.inode <= files
    /\ profile # Setup!NoFile => profile.author \in Executions /\ profile.inode # 0

SetupInv ==
    /\ Setup!TypeOK /\ ProfileInv
    /\ \A s \in Executions : Gated(op[s], session[s]) /\ OwnFiles(s, op[s], session[s])
    /\ Setup!SavedWasVerified /\ Setup!SavedPairStays

LEMMA SetupNames ==
    /\ Nobody \notin Executions /\ WithProfile \subseteq SourceModes /\ MaxVersion \in Nat \ {0} /\ MaxFiles \in Nat
BY PartsAssumption DEF Setup!OnboardingAssumption

LEMMA SetupValues ==
    /\ Setup!NoDigest.version = 0
    /\ Setup!NoFile \in Setup!File /\ Setup!NoFile.inode = 0 /\ Setup!NoFile.author = Nobody /\ Setup!NoFile.edited = "no"
    /\ Setup!NoOp \in Operation /\ Setup!NoOp.action = "none" /\ Setup!NoOp.step = "idle" /\ Setup!NoOp.file = Setup!NoFile
    /\ Setup!Fresh \in Memory /\ Setup!Fresh.generation = 0 /\ Setup!Fresh.answer = 0 /\ Setup!Fresh.pending = 0
    /\ Setup!Fresh.built = Setup!NoDigest /\ Setup!Fresh.verified = <<Setup!NoDigest, "none">>
<1> USE SetupNames
<1>1. Setup!NoDigest.version = 0
  BY DEF Setup!NoDigest
<1>2. Setup!NoFile \in Setup!File
  BY DEF Setup!NoFile, Setup!File
<1>3. Setup!NoFile.inode = 0 /\ Setup!NoFile.author = Nobody /\ Setup!NoFile.edited = "no"
  BY DEF Setup!NoFile
<1>4. Setup!NoOp \in Operation
  BY <1>2 DEF Setup!NoOp, Operation
<1>5. Setup!NoOp.action = "none" /\ Setup!NoOp.step = "idle" /\ Setup!NoOp.file = Setup!NoFile
  BY DEF Setup!NoOp
<1>6. Setup!Fresh \in Memory
  BY DEF Setup!Fresh, Memory
<1>7. /\ Setup!Fresh.generation = 0 /\ Setup!Fresh.answer = 0 /\ Setup!Fresh.pending = 0
      /\ Setup!Fresh.built = Setup!NoDigest /\ Setup!Fresh.verified = <<Setup!NoDigest, "none">>
  BY DEF Setup!Fresh
<1> QED
  BY <1>1, <1>2, <1>3, <1>4, <1>5, <1>6, <1>7

LEMMA SetupTypes ==
    Setup!TypeOK <=>
        /\ sources \in 1 .. MaxVersion /\ active \in 0 .. MaxVersion /\ files \in 0 .. MaxFiles
        /\ config \in Setup!File /\ profile \in Setup!File
        /\ session \in [Executions -> Memory] /\ op \in [Executions -> Operation]
BY DEF Setup!TypeOK, Memory, Operation

LEMMA SetupStarts == Setup!Init => SetupInv
<1> SUFFICES ASSUME Setup!Init PROVE SetupInv
  OBVIOUS
<1> USE SetupNames, SetupValues
<1>1. Setup!TypeOK
  <2>1. session \in [Executions -> Memory] /\ op \in [Executions -> Operation]
    BY DEF Setup!Init
  <2> QED
    BY <2>1, SetupTypes DEF Setup!Init
<1>2. Gated(Setup!NoOp, Setup!Fresh)
  BY DEF Gated
<1>3. \A s \in Executions : OwnFiles(s, Setup!NoOp, Setup!Fresh)
  BY DEF OwnFiles, Setup!Init
<1>4. \A s \in Executions : op[s] = Setup!NoOp /\ session[s] = Setup!Fresh
  BY DEF Setup!Init
<1>5. config = Setup!NoFile /\ profile = Setup!NoFile /\ files = 0
  BY DEF Setup!Init
<1> QED
  BY <1>1, <1>2, <1>3, <1>4, <1>5 DEF SetupInv, ProfileInv, Setup!SavedWasVerified, Setup!SavedPairStays

\* A step of one session that leaves the files alone.
LEMMA SessionKeeps ==
    ASSUME SetupInv, NEW s \in Executions, NEW o \in Operation, NEW m \in Memory,
           op' = [op EXCEPT ![s] = o], session' = [session EXCEPT ![s] = m],
           sources' = sources, active' \in 0 .. MaxVersion,
           UNCHANGED <<config, profile, files>>,
           Gated(o, m), OwnFiles(s, o, m)
    PROVE  SetupInv'
<1>1. session' \in [Executions -> Memory] /\ op' \in [Executions -> Operation]
  BY SetupTypes DEF SetupInv
<1>2. Setup!TypeOK'
  BY <1>1, SetupTypes DEF SetupInv, Setup!TypeOK, Memory, Operation
<1>3. \A t \in Executions : /\ op'[t] = IF t = s THEN o ELSE op[t]
                            /\ session'[t] = IF t = s THEN m ELSE session[t]
  BY SetupTypes DEF SetupInv
<1>4. \A t \in Executions : Gated(op'[t], session'[t])
  BY <1>3 DEF SetupInv
<1>5. \A t \in Executions : OwnFiles(t, op'[t], session'[t])
  BY <1>3 DEF SetupInv
<1>6. \A t \in Executions : OwnFiles(t, op[t], session[t])'
  BY <1>5 DEF OwnFiles
<1>7. \A t \in Executions : Gated(op[t], session[t])'
  BY <1>4 DEF Gated
<1> QED
  BY <1>2, <1>6, <1>7 DEF SetupInv, ProfileInv, Setup!SavedWasVerified, Setup!SavedPairStays

\* Requests, builds, verifications and looks at the files.
LEMMA SessionStep ==
    ASSUME SetupInv, NEW s \in Executions,
           \/ Setup!Preview(s) \/ Setup!Request(s) \/ Setup!Fail(s) \/ Setup!Publish(s) \/ Setup!Built(s)
           \/ Setup!Verify(s) \/ Setup!FindProfile(s) \/ Setup!Undo(s) \/ Setup!Crash(s)
    PROVE  SetupInv'
<1> USE SetupNames, SetupValues
<1> DEFINE o == op[s]
<1> DEFINE m == session[s]
<1>o. o \in Operation /\ op = [op EXCEPT ![s] = o] /\ op \in [Executions -> Operation]
  BY SetupTypes DEF SetupInv
<1>m. m \in Memory /\ session = [session EXCEPT ![s] = m] /\ session \in [Executions -> Memory]
  BY SetupTypes DEF SetupInv
<1>w. sources \in 1 .. MaxVersion /\ active \in 0 .. MaxVersion
  BY SetupTypes DEF SetupInv
<1>g. Gated(o, m) /\ OwnFiles(s, o, m)
  BY DEF SetupInv
<1>n. OwnFiles(s, Setup!NoOp, m) /\ (\A n \in Memory : Gated(o, n) => Gated(Setup!NoOp, n)) /\ OwnFiles(s, Setup!NoOp, Setup!Fresh)
      /\ Gated(Setup!NoOp, Setup!Fresh)
  <2>1. files \in Nat /\ (profile # Setup!NoFile => profile.inode # 0)
    BY SetupTypes DEF SetupInv, ProfileInv
  <2>2. OwnFiles(s, Setup!NoOp, m) /\ (\A n \in Memory : Gated(o, n) => Gated(Setup!NoOp, n))
    BY <1>g DEF Gated, OwnFiles
  <2>3. OwnFiles(s, Setup!NoOp, Setup!Fresh)
    BY <2>1 DEF OwnFiles
  <2>4. Gated(Setup!NoOp, Setup!Fresh)
    BY DEF Gated
  <2> QED
    BY <2>2, <2>3, <2>4
<1> HIDE DEF o, m
<1>1. CASE Setup!Preview(s)
  <2>1. PICK choice \in SourceModes :
          LET digest == [choice |-> choice, version |-> sources]
          IN  session' = [session EXCEPT ![s] = IF session[s].reviewed = digest THEN session[s]
                        ELSE [session[s] EXCEPT !.reviewed = digest, !.built = Setup!NoDigest, !.generation = 0,
                                                !.verified = <<Setup!NoDigest, "none">>, !.answer = 0]]
    BY <1>1 DEF Setup!Preview, Setup!Remember
  <2> DEFINE digest == [choice |-> choice, version |-> sources]
  <2> DEFINE n == [m EXCEPT !.reviewed = digest, !.built = Setup!NoDigest, !.generation = 0,
                            !.verified = <<Setup!NoDigest, "none">>, !.answer = 0]
  <2>2. digest \in Setup!Digest
    BY <1>w DEF Setup!Digest
  <2> HIDE DEF digest
  <2>3. n \in Memory
    BY <1>m, <2>2, ZenonT(30) DEF Memory
  <2>4. n.built = Setup!NoDigest /\ n.generation = 0 /\ n.verified[1] = Setup!NoDigest /\ n.answer = 0 /\ n.pending = m.pending
    BY <1>m DEF Memory
  <2>5. session' = [session EXCEPT ![s] = IF m.reviewed = digest THEN m ELSE n]
    BY <2>1 DEF digest, m
  <2>6. UNCHANGED <<op, sources, active, config, profile, files>> /\ o = Setup!NoOp
    BY <1>1 DEF Setup!Preview, Setup!world, Setup!disk, o
  <2> HIDE DEF n
  <2>7. Gated(o, n) /\ OwnFiles(s, o, n)
    BY <1>g, <2>4, <2>6 DEF Gated, OwnFiles
  <2>8. op' = [op EXCEPT ![s] = o]
    BY <1>o, <2>6
  <2> QED
    BY <1>o, <1>m, <1>w, <1>g, <2>3, <2>5, <2>6, <2>7, <2>8, SessionKeeps
<1>2. CASE Setup!Request(s)
  <2>1. PICK action \in {"build", "verify", "save"}, choice \in SourceModes, task \in Tasks :
          LET digest == [choice |-> choice, version |-> sources]
          IN  /\ Setup!Gate(s, action, digest, task)
              /\ op' = [op EXCEPT ![s] = [action |-> action, digest |-> digest, task |-> task, file |-> Setup!NoFile, published |-> 0,
                          step |-> IF action = "save" /\ choice \notin WithProfile THEN "config" ELSE "begun"]]
              /\ session' = [session EXCEPT ![s] = IF action = "save" THEN session[s]
                           ELSE [session[s] EXCEPT !.verified = <<Setup!NoDigest, "none">>, !.answer = 0]]
    BY <1>2 DEF Setup!Request, Setup!Remember
  <2> DEFINE digest == [choice |-> choice, version |-> sources]
  <2> DEFINE r == [action |-> action, digest |-> digest, task |-> task, file |-> Setup!NoFile, published |-> 0,
                   step |-> IF action = "save" /\ choice \notin WithProfile THEN "config" ELSE "begun"]
  <2> DEFINE n == IF action = "save" THEN m ELSE [m EXCEPT !.verified = <<Setup!NoDigest, "none">>, !.answer = 0]
  <2>2. digest \in Setup!Digest /\ digest.choice = choice
    BY <1>w DEF Setup!Digest
  <2>3. Setup!Gate(s, action, digest, task) /\ op' = [op EXCEPT ![s] = r] /\ session' = [session EXCEPT ![s] = n]
    BY <2>1 DEF m
  <2> HIDE DEF digest
  <2>4. r \in Operation
    BY <2>2 DEF Operation
  <2>5. /\ r.action = action /\ r.digest = digest /\ r.task = task /\ r.file = Setup!NoFile
        /\ r.step = IF action = "save" /\ choice \notin WithProfile THEN "config" ELSE "begun"
    OBVIOUS
  <2>6. n \in Memory
    BY <1>m DEF Memory
  <2>7. /\ n.built = m.built /\ n.generation = m.generation /\ n.pending = m.pending
        /\ action = "save" => n.verified = m.verified /\ n.answer = m.answer
        /\ action # "save" => n.verified[1] = Setup!NoDigest /\ n.answer = 0
    BY <1>m DEF Memory
  <2>8. (action = "verify" => m.built = digest) /\ (action = "save" => m.verified = <<digest, task>>)
    BY <2>3 DEF Setup!Gate, Setup!Current, m
  <2> HIDE DEF r, n
  <2>9. Gated(r, n)
    BY <1>g, <2>5, <2>7, <2>8 DEF Gated
  <2>10. OwnFiles(s, r, n)
    BY <1>g, <2>2, <2>5, <2>7 DEF OwnFiles
  <2>11. UNCHANGED <<sources, active, config, profile, files>>
    BY <1>2 DEF Setup!Request, Setup!world, Setup!disk
  <2> QED
    BY <1>w, <2>3, <2>4, <2>6, <2>9, <2>10, <2>11, SessionKeeps
<1>3. CASE Setup!Fail(s)
  <2>1. op' = [op EXCEPT ![s] = Setup!NoOp] /\ session' = [session EXCEPT ![s] = m]
        /\ UNCHANGED <<sources, active, config, profile, files>>
    BY <1>3, <1>m DEF Setup!Fail, Setup!Done, Setup!world, Setup!disk
  <2> QED
    BY <1>m, <1>w, <1>g, <1>n, <2>1, SessionKeeps
<1>4. CASE Setup!Publish(s)
  <2> DEFINE r == [o EXCEPT !.step = "published", !.published = sources]
  <2>1. op' = [op EXCEPT ![s] = r] /\ session' = [session EXCEPT ![s] = m] /\ active' = sources
        /\ UNCHANGED <<sources, config, profile, files>>
    BY <1>4, <1>m, <1>o DEF Setup!Publish, Setup!disk, o
  <2>2. r \in Operation /\ sources \in 0 .. MaxVersion
    <3>1. sources \in 0 .. MaxVersion
      BY <1>w
    <3> QED
      BY <1>o, <3>1 DEF Operation
  <2>3. r.action = "build" /\ r.step = "published" /\ r.published = r.digest.version /\ r.file = o.file
    BY <1>4, <1>o DEF Setup!Publish, Setup!At, o, Operation
  <2> HIDE DEF r
  <2>4. Gated(r, m) /\ OwnFiles(s, r, m)
    BY <1>g, <2>3 DEF Gated, OwnFiles
  <2> QED
    BY <1>m, <1>w, <2>1, <2>2, <2>4, SessionKeeps
<1>5. CASE Setup!Built(s)
  <2> DEFINE n == [m EXCEPT !.built = o.digest, !.generation = o.published]
  <2>1. op' = [op EXCEPT ![s] = Setup!NoOp] /\ session' = [session EXCEPT ![s] = n]
        /\ UNCHANGED <<sources, active, config, profile, files>>
    BY <1>5 DEF Setup!Built, Setup!Remember, Setup!Done, Setup!world, Setup!disk, o, m
  <2>2. n \in Memory
    BY <1>m, <1>o DEF Memory, Operation
  <2>3. n.built = o.digest /\ n.generation = o.published /\ n.verified = m.verified /\ n.answer = m.answer /\ n.pending = m.pending
    BY <1>m DEF Memory
  <2>4. o.published = o.digest.version
    BY <1>5, <1>g DEF Setup!Built, Setup!At, o, Gated
  <2> HIDE DEF n
  <2>5. Gated(Setup!NoOp, n) /\ OwnFiles(s, Setup!NoOp, n)
    BY <1>g, <1>n, <2>3, <2>4 DEF Gated, OwnFiles
  <2> QED
    BY <1>w, <2>1, <2>2, <2>5, SessionKeeps
<1>6. CASE Setup!Verify(s)
  <2> DEFINE n == [m EXCEPT !.verified = <<o.digest, o.task>>, !.answer = active]
  <2>1. op' = [op EXCEPT ![s] = Setup!NoOp] /\ session' = [session EXCEPT ![s] = n]
        /\ UNCHANGED <<sources, active, config, profile, files>>
    BY <1>6 DEF Setup!Verify, Setup!Remember, Setup!Done, Setup!world, Setup!disk, o, m
  <2>2. n \in Memory
    BY <1>m, <1>o, <1>w, ZenonT(30) DEF Memory, Operation
  <2>3. n.built = m.built /\ n.generation = m.generation /\ n.verified[1] = o.digest /\ n.answer = active /\ n.pending = m.pending
    BY <1>m DEF Memory
  <2>4. active = m.generation /\ m.generation = m.built.version /\ m.built = o.digest
    BY <1>6, <1>g DEF Setup!Verify, Setup!At, o, m, Gated
  <2> HIDE DEF n
  <2>5. Gated(Setup!NoOp, n) /\ OwnFiles(s, Setup!NoOp, n)
    BY <1>g, <1>n, <2>3, <2>4 DEF Gated, OwnFiles
  <2> QED
    BY <1>w, <2>1, <2>2, <2>5, SessionKeeps
<1>7. CASE Setup!FindProfile(s)
  <2>1. session' = [session EXCEPT ![s] = m] /\ UNCHANGED <<sources, active, config, profile, files>>
        /\ o.action = "save" /\ o.step = "begun"
    BY <1>7, <1>m DEF Setup!FindProfile, Setup!world, Setup!disk, Setup!At, o
  <2>2. CASE Setup!Done(s)
    BY <1>m, <1>w, <1>g, <1>n, <2>1, <2>2, SessionKeeps DEF Setup!Done
  <2>3. CASE Setup!Step(s, "profile")
    <3> DEFINE r == [o EXCEPT !.step = "profile"]
    <3>1. op' = [op EXCEPT ![s] = r]
      BY <1>o, <2>3 DEF Setup!Step, o
    <3>2. r \in Operation /\ r.step = "profile" /\ r.action = o.action /\ r.digest = o.digest /\ r.task = o.task /\ r.file = o.file
      BY <1>o DEF Operation
    <3> HIDE DEF r
    <3>3. Gated(r, m) /\ OwnFiles(s, r, m)
      BY <1>g, <2>1, <3>2 DEF Gated, OwnFiles
    <3> QED
      BY <1>m, <1>w, <2>1, <3>1, <3>2, <3>3, SessionKeeps
  <2>4. CASE Setup!Step(s, "config") /\ profile # Setup!NoFile /\ profile.inode = m.pending /\ profile.digest = o.digest
    <3> DEFINE r == [o EXCEPT !.step = "config"]
    <3>1. op' = [op EXCEPT ![s] = r]
      BY <1>o, <2>4 DEF Setup!Step, o
    <3>2. r \in Operation /\ r.step = "config" /\ r.action = o.action /\ r.digest = o.digest /\ r.task = o.task /\ r.file = o.file
      BY <1>o DEF Operation
    <3> HIDE DEF r
    <3>3. Gated(r, m) /\ OwnFiles(s, r, m)
      BY <1>g, <2>1, <2>4, <3>2 DEF Gated, OwnFiles
    <3> QED
      BY <1>m, <1>w, <2>1, <3>1, <3>2, <3>3, SessionKeeps
  <2> QED
    BY <1>7, <2>2, <2>3, <2>4 DEF Setup!FindProfile, o, m
<1>8. CASE Setup!Undo(s)
  <2> DEFINE n == [m EXCEPT !.pending = 0]
  <2>1. UNCHANGED <<sources, active, config, profile, files>> /\ o.step = "undoing"
    BY <1>8 DEF Setup!Undo, Setup!world, Setup!disk, Setup!At, o
  <2>2. n \in Memory /\ n.pending = 0 /\ n.built = m.built /\ n.generation = m.generation /\ n.verified = m.verified /\ n.answer = m.answer
    BY <1>m DEF Memory
  <2>3. CASE Setup!Done(s) /\ Setup!Remember(s, [session[s] EXCEPT !.pending = 0])
    <3>1. op' = [op EXCEPT ![s] = Setup!NoOp] /\ session' = [session EXCEPT ![s] = n]
      BY <2>3 DEF Setup!Done, Setup!Remember, m
    <3> HIDE DEF n
    <3>2. Gated(Setup!NoOp, n)
      BY <1>g, <2>2 DEF Gated
    <3>3. OwnFiles(s, Setup!NoOp, n)
      <4>1. profile # Setup!NoFile => profile.inode # 0
        BY DEF SetupInv, ProfileInv
      <4>2. 0 <= files
        BY SetupTypes DEF SetupInv
      <4> QED
        BY <1>g, <2>2, <4>1, <4>2 DEF OwnFiles
    <3> QED
      BY <1>w, <2>1, <2>2, <3>1, <3>2, <3>3, SessionKeeps
  <2>4. CASE profile = op[s].file /\ Setup!Step(s, "unlinking") /\ session' = session
    <3> DEFINE r == [o EXCEPT !.step = "unlinking"]
    <3>1. op' = [op EXCEPT ![s] = r] /\ session' = [session EXCEPT ![s] = m]
      BY <1>o, <1>m, <2>4 DEF Setup!Step, o
    <3>2. r \in Operation /\ r.step = "unlinking" /\ r.action = o.action /\ r.digest = o.digest /\ r.task = o.task /\ r.file = o.file
      BY <1>o DEF Operation
    <3>3. profile = o.file
      BY <2>4 DEF o
    <3> HIDE DEF r
    <3>4. Gated(r, m) /\ OwnFiles(s, r, m)
      BY <1>g, <2>1, <3>2, <3>3 DEF Gated, OwnFiles
    <3> QED
      BY <1>m, <1>w, <2>1, <3>1, <3>2, <3>4, SessionKeeps
  <2>5. CASE Setup!Done(s) /\ session' = session
    <3>1. op' = [op EXCEPT ![s] = Setup!NoOp] /\ session' = [session EXCEPT ![s] = m]
      BY <1>m, <2>5 DEF Setup!Done
    <3> QED
      BY <1>m, <1>w, <1>g, <1>n, <2>1, <3>1, SessionKeeps
  <2> QED
    BY <1>8, <2>3, <2>4, <2>5 DEF Setup!Undo
<1>9. CASE Setup!Crash(s)
  <2>1. op' = [op EXCEPT ![s] = Setup!NoOp] /\ session' = [session EXCEPT ![s] = Setup!Fresh]
        /\ UNCHANGED <<sources, active, config, profile, files>>
    BY <1>9 DEF Setup!Crash, Setup!Done, Setup!Remember, Setup!world, Setup!disk
  <2> QED
    BY <1>w, <1>n, <2>1, SessionKeeps
<1> QED
  BY <1>1, <1>2, <1>3, <1>4, <1>5, <1>6, <1>7, <1>8, <1>9

\* The files as they are linked: the new file is complete and the session's own.
LEMMA NewFiles ==
    ASSUME SetupInv, NEW s \in Executions, files < MaxFiles
    PROVE  /\ Setup!NewFile(s) \in Setup!File /\ Setup!NewFile(s).inode = files + 1 /\ Setup!NewFile(s).author = s
           /\ Setup!NewFile(s).digest = op[s].digest /\ Setup!NewFile(s).edited = "no"
           /\ Setup!NewFile(s).answer = session[s].answer
           /\ Setup!NewFile(s) # Setup!NoFile
<1>1. op[s] \in Operation /\ session[s] \in Memory /\ files \in 0 .. MaxFiles /\ files + 1 \in 0 .. MaxFiles
  BY SetupNames, SetupTypes DEF SetupInv
<1>2. op[s].digest \in Setup!Digest \cup {Setup!NoDigest} /\ session[s].answer \in 0 .. MaxVersion
  BY <1>1 DEF Operation, Memory
<1>3. Setup!NewFile(s) \in Setup!File
  BY <1>1, <1>2 DEF Setup!NewFile, Setup!File
<1>4. /\ Setup!NewFile(s).inode = files + 1 /\ Setup!NewFile(s).author = s
      /\ Setup!NewFile(s).digest = op[s].digest /\ Setup!NewFile(s).edited = "no"
      /\ Setup!NewFile(s).answer = session[s].answer
  BY DEF Setup!NewFile
<1>5. Setup!NewFile(s) # Setup!NoFile
  BY <1>4, SetupNames, SetupValues
<1> QED
  BY <1>3, <1>4, <1>5

LEMMA LinkProfileStep == ASSUME SetupInv, NEW s \in Executions, Setup!LinkProfile(s) PROVE SetupInv'
<1> USE SetupNames, SetupValues
<1>t. session \in [Executions -> Memory] /\ op \in [Executions -> Operation] /\ files \in 0 .. MaxFiles
      /\ config \in Setup!File /\ profile \in Setup!File
      /\ sources \in 1 .. MaxVersion /\ active \in 0 .. MaxVersion
  BY SetupTypes DEF SetupInv
<1>1. CASE profile # Setup!NoFile
  <2>1. op' = [op EXCEPT ![s] = Setup!NoOp] /\ session' = [session EXCEPT ![s] = session[s]]
        /\ UNCHANGED <<sources, active, config, profile, files>>
    BY <1>1, <1>t DEF Setup!LinkProfile, Setup!Done, Setup!world, Setup!disk
  <2>2. Gated(Setup!NoOp, session[s]) /\ OwnFiles(s, Setup!NoOp, session[s])
    BY DEF SetupInv, Gated, OwnFiles
  <2> QED
    BY <1>t, <2>1, <2>2, SessionKeeps
<1>2. CASE profile = Setup!NoFile
  <2> DEFINE f == Setup!NewFile(s)
  <2> DEFINE r == [op[s] EXCEPT !.step = "config", !.file = f]
  <2> DEFINE n == [session[s] EXCEPT !.pending = files + 1]
  <2>1. /\ profile' = f /\ files' = files + 1 /\ files < MaxFiles /\ op[s].action = "save" /\ op[s].step = "profile"
        /\ UNCHANGED <<sources, active, config>>
    BY <1>2 DEF Setup!LinkProfile, Setup!At, Setup!world
  <2>2. op' = [op EXCEPT ![s] = r] /\ session' = [session EXCEPT ![s] = n]
    BY <1>t, <1>2, <2>1 DEF Setup!LinkProfile, Setup!Remember
  <2>3. /\ f \in Setup!File /\ f.inode = files + 1 /\ f.author = s /\ f.digest = op[s].digest /\ f.edited = "no"
        /\ f # Setup!NoFile
    BY <2>1, NewFiles
  <2> HIDE DEF f
  <2>4. r \in Operation /\ r.step = "config" /\ r.action = op[s].action /\ r.digest = op[s].digest
        /\ r.task = op[s].task /\ r.file = f
    BY <1>t, <2>3, ZenonT(30) DEF Operation
  <2>5. n \in Memory /\ n.pending = files + 1 /\ n.built = session[s].built /\ n.generation = session[s].generation
        /\ n.verified = session[s].verified /\ n.answer = session[s].answer
    <3>1. files + 1 \in 0 .. MaxFiles
      BY <1>t, <2>1
    <3> QED
      BY <1>t, <3>1 DEF Memory
  <2> HIDE DEF r, n
  <2>6. \A t \in Executions \ {s} : op'[t] = op[t] /\ session'[t] = session[t]
    BY <1>t, <2>2
  <2>7. op'[s] = r /\ session'[s] = n
    BY <1>t, <2>2
  <2>8. Setup!TypeOK'
    <3>1. session' \in [Executions -> Memory] /\ op' \in [Executions -> Operation]
      BY <1>t, <2>2, <2>4, <2>5
    <3>2. files' \in 0 .. MaxFiles
      BY <1>t, <2>1
    <3> QED
      BY <1>t, <2>1, <2>3, <3>1, <3>2, SetupTypes DEF Setup!TypeOK, Memory, Operation
  \* While there is no profile nobody has saved, or is about to save, a config that needs one.
  <2>9. ~(config.author \in Executions /\ config.digest.choice \in WithProfile)
    BY <1>2 DEF SetupInv, Setup!SavedPairStays
  <2>10. ASSUME NEW t \in Executions PROVE Gated(op'[t], session'[t]) /\ OwnFiles(t, op[t], session[t])'
    <3>1. CASE t = s
      BY <1>t, <2>1, <2>3, <2>4, <2>5, <2>7, <2>9, <3>1 DEF SetupInv, Gated, OwnFiles
    <3>2. CASE t # s
      <4>1. Gated(op[t], session[t]) /\ OwnFiles(t, op[t], session[t])
        BY DEF SetupInv
      <4>2. session[t].pending <= files /\ session[t].pending \in Nat
        BY <1>t, <4>1 DEF OwnFiles, Memory
      <4> QED
        BY <1>t, <1>2, <2>1, <2>3, <2>6, <3>2, <4>1, <4>2 DEF OwnFiles
    <3> QED
      BY <3>1, <3>2
  <2>11. ProfileInv'
    BY <1>t, <2>1, <2>3 DEF ProfileInv
  <2>12. Setup!SavedWasVerified' /\ Setup!SavedPairStays'
    BY <2>1, <2>9 DEF SetupInv, Setup!SavedWasVerified, Setup!SavedPairStays
  <2>13. \A t \in Executions : Gated(op[t], session[t])'
    BY <2>10 DEF Gated
  <2> QED
    BY <2>8, <2>10, <2>11, <2>12, <2>13 DEF SetupInv
<1> QED
  BY <1>1, <1>2

LEMMA LinkConfigStep == ASSUME SetupInv, NEW s \in Executions, Setup!LinkConfig(s) PROVE SetupInv'
<1> USE SetupNames, SetupValues
<1>t. session \in [Executions -> Memory] /\ op \in [Executions -> Operation] /\ files \in 0 .. MaxFiles
      /\ config \in Setup!File /\ profile \in Setup!File
      /\ sources \in 1 .. MaxVersion /\ active \in 0 .. MaxVersion
  BY SetupTypes DEF SetupInv
<1>n. Gated(Setup!NoOp, session[s]) /\ OwnFiles(s, Setup!NoOp, session[s])
  BY DEF SetupInv, Gated, OwnFiles
<1>w. op[s].action = "save" /\ op[s].step = "config" /\ files < MaxFiles /\ session' = session /\ UNCHANGED <<sources, active>>
      /\ session' = [session EXCEPT ![s] = session[s]]
  BY <1>t DEF Setup!LinkConfig, Setup!At, Setup!world
<1>1. CASE Setup!Done(s) /\ UNCHANGED Setup!disk
  BY <1>t, <1>n, <1>w, <1>1, SessionKeeps DEF Setup!Done, Setup!disk
<1>2. CASE op[s].file # Setup!NoFile /\ Setup!Step(s, "undoing") /\ UNCHANGED Setup!disk
  <2> DEFINE r == [op[s] EXCEPT !.step = "undoing"]
  <2>1. op' = [op EXCEPT ![s] = r]
    BY <1>t, <1>2 DEF Setup!Step
  <2>2. r \in Operation /\ r.step = "undoing" /\ r.action = op[s].action /\ r.digest = op[s].digest
        /\ r.task = op[s].task /\ r.file = op[s].file
    BY <1>t DEF Operation
  <2> HIDE DEF r
  <2>3. Gated(r, session[s]) /\ OwnFiles(s, r, session[s])
    BY <1>2, <1>w, <2>2 DEF SetupInv, Gated, OwnFiles
  <2> QED
    BY <1>t, <1>w, <1>2, <2>1, <2>2, <2>3, SessionKeeps DEF Setup!disk
<1>3. CASE config = Setup!NoFile /\ config' = Setup!NewFile(s) /\ files' = files + 1 /\ Setup!Done(s) /\ UNCHANGED profile
  <2> DEFINE f == Setup!NewFile(s)
  <2>1. /\ f \in Setup!File /\ f.author = s /\ f.digest = op[s].digest /\ f.answer = session[s].answer
    BY <1>w, NewFiles
  <2>2. config' = f /\ files' = files + 1 /\ profile' = profile /\ op' = [op EXCEPT ![s] = Setup!NoOp]
    BY <1>3 DEF Setup!Done
  <2> HIDE DEF f
  <2>3. \A t \in Executions : op'[t] = IF t = s THEN Setup!NoOp ELSE op[t]
    BY <1>t, <2>2
  <2>4. Setup!TypeOK'
    <3>1. op' \in [Executions -> Operation]
      BY <1>t, <2>2
    <3>2. files' \in 0 .. MaxFiles
      BY <1>t, <1>w, <2>2
    <3> QED
      BY <1>t, <1>w, <2>1, <2>2, <3>1, <3>2, SetupTypes DEF Setup!TypeOK, Memory, Operation
  <2>5. f.answer = f.digest.version
    BY <1>w, <2>1 DEF SetupInv, Gated
  <2>6. op[s].digest.choice \in WithProfile => profile.author = s /\ profile.digest = op[s].digest
    BY <1>w DEF SetupInv, OwnFiles
  <2>7. ASSUME NEW t \in Executions PROVE OwnFiles(t, op[t], session[t])'
    <3>1. OwnFiles(t, op[t], session[t]) /\ session[t].pending \in Nat
      BY <1>t DEF SetupInv, Memory
    <3>2. CASE t = s
      BY <1>t, <1>n, <1>w, <2>2, <2>3, <3>1, <3>2 DEF OwnFiles
    <3>3. CASE t # s
      BY <1>t, <1>w, <2>1, <2>2, <2>3, <3>1, <3>3 DEF OwnFiles
    <3> QED
      BY <3>2, <3>3
  <2>8. \A t \in Executions : Gated(op[t], session[t])'
    BY <1>n, <1>w, <2>3 DEF SetupInv, Gated
  <2>9. ProfileInv'
    <3>1. profile.inode \in Nat
      BY <1>t DEF Setup!File
    <3> QED
      BY <1>t, <2>2, <3>1 DEF SetupInv, ProfileInv
  <2>10. Setup!SavedWasVerified' /\ Setup!SavedPairStays'
    BY <2>1, <2>2, <2>5, <2>6 DEF Setup!SavedWasVerified, Setup!SavedPairStays
  <2> QED
    BY <2>4, <2>7, <2>8, <2>9, <2>10 DEF SetupInv
<1> QED
  BY <1>1, <1>2, <1>3 DEF Setup!LinkConfig

\* Only its own profile is removed, which no saved config of any session needs.
LEMMA UnlinkStep == ASSUME SetupInv, NEW s \in Executions, Setup!Unlink(s) PROVE SetupInv'
<1> USE SetupNames, SetupValues
<1>t. session \in [Executions -> Memory] /\ op \in [Executions -> Operation] /\ files \in 0 .. MaxFiles
      /\ config \in Setup!File /\ profile \in Setup!File
      /\ sources \in 1 .. MaxVersion /\ active \in 0 .. MaxVersion
  BY SetupTypes DEF SetupInv
<1> DEFINE n == [session[s] EXCEPT !.pending = 0]
<1>1. /\ profile' = Setup!NoFile /\ session' = [session EXCEPT ![s] = n] /\ op' = [op EXCEPT ![s] = Setup!NoOp]
      /\ UNCHANGED <<config, files, sources, active>>
  BY DEF Setup!Unlink, Setup!Remember, Setup!Done, Setup!world
<1>2. n \in Memory /\ n.pending = 0 /\ n.built = session[s].built /\ n.generation = session[s].generation
      /\ n.verified = session[s].verified /\ n.answer = session[s].answer
  BY <1>t DEF Memory
<1> HIDE DEF n
<1>3. profile # Setup!NoFile /\ profile.author = s
      /\ ~(config.author = s /\ config.digest.choice \in WithProfile)
  BY DEF Setup!Unlink, Setup!At, SetupInv, OwnFiles
<1>4. ~(config.author \in Executions /\ config.digest.choice \in WithProfile)
  BY <1>3 DEF SetupInv, Setup!SavedPairStays
<1>5. \A t \in Executions : /\ op'[t] = IF t = s THEN Setup!NoOp ELSE op[t]
                            /\ session'[t] = IF t = s THEN n ELSE session[t]
  BY <1>t, <1>1
<1>6. Setup!TypeOK'
  <2>1. op' \in [Executions -> Operation] /\ session' \in [Executions -> Memory]
    BY <1>t, <1>1, <1>2
  <2> QED
    BY <1>t, <1>1, <2>1, SetupTypes DEF Setup!TypeOK, Memory, Operation
<1>7. ASSUME NEW t \in Executions PROVE OwnFiles(t, op[t], session[t])'
  <2>1. OwnFiles(t, op[t], session[t])
    BY DEF SetupInv
  <2>2. CASE t = s
    BY <1>t, <1>1, <1>2, <1>5, <2>2 DEF OwnFiles
  <2>3. CASE t # s
    BY <1>1, <1>3, <1>5, <2>1, <2>3 DEF OwnFiles
  <2> QED
    BY <2>2, <2>3
<1>8. \A t \in Executions : Gated(op[t], session[t])'
  BY <1>2, <1>5 DEF SetupInv, Gated
<1>9. ProfileInv' /\ Setup!SavedWasVerified' /\ Setup!SavedPairStays'
  BY <1>t, <1>1, <1>4 DEF SetupInv, ProfileInv, Setup!SavedWasVerified, Setup!SavedPairStays
<1> QED
  BY <1>6, <1>7, <1>8, <1>9 DEF SetupInv

LEMMA SetupStep == SetupInv /\ [Setup!Next]_ofSetup => SetupInv'
<1> SUFFICES ASSUME SetupInv, [Setup!Next]_ofSetup PROVE SetupInv'
  OBVIOUS
<1> USE SetupNames, SetupValues
<1>t. session \in [Executions -> Memory] /\ op \in [Executions -> Operation] /\ files \in 0 .. MaxFiles
      /\ config \in Setup!File /\ profile \in Setup!File
      /\ sources \in 1 .. MaxVersion /\ active \in 0 .. MaxVersion
  BY SetupTypes DEF SetupInv
<1>1. ASSUME NEW s \in Executions, Setup!Setup(s) PROVE SetupInv'
  BY <1>1, SessionStep, LinkProfileStep, LinkConfigStep, UnlinkStep DEF Setup!Setup
<1>2. CASE Setup!EditSources \/ Setup!SelectGeneration \/ UNCHANGED ofSetup
  <2>1. sources' \in 1 .. MaxVersion /\ active' \in 0 .. MaxVersion /\ UNCHANGED <<session, op, config, profile, files>>
    BY <1>t, <1>2 DEF Setup!EditSources, Setup!SelectGeneration, Setup!disk, ofSetup
  <2>2. Setup!TypeOK'
    BY <1>t, <2>1, SetupTypes DEF Setup!TypeOK, Memory, Operation
  <2> QED
    BY <2>1, <2>2 DEF SetupInv, ProfileInv, Gated, OwnFiles, Setup!SavedWasVerified, Setup!SavedPairStays
<1>3. CASE Setup!EditProfile
  <2> DEFINE f == [profile EXCEPT !.edited = IF \E s \in Executions : op[s].step = "unlinking" THEN "late" ELSE "yes"]
  <2>1. profile' = f /\ UNCHANGED <<config, files, session, op, sources, active>> /\ profile # Setup!NoFile
    BY <1>3 DEF Setup!EditProfile, Setup!world
  <2>2. /\ f \in Setup!File /\ f.inode = profile.inode /\ f.author = profile.author /\ f.digest = profile.digest
        /\ \A s \in Executions : op[s].step = "unlinking" => f.edited # "yes"
        /\ f # Setup!NoFile
    <3>1. profile.edited = "no" /\ f.edited \in {"yes", "late"}
      BY <1>3, <1>t DEF Setup!EditProfile, Setup!File
    <3>2. f \in Setup!File /\ f.inode = profile.inode /\ f.author = profile.author /\ f.digest = profile.digest
      BY <1>t DEF Setup!File
    <3>3. ASSUME NEW s \in Executions, op[s].step = "unlinking" PROVE f.edited # "yes"
      BY <1>t, <3>3 DEF Setup!File
    <3> QED
      BY <3>1, <3>2, <3>3
  <2> HIDE DEF f
  <2>3. Setup!TypeOK'
    BY <1>t, <2>1, <2>2, SetupTypes DEF Setup!TypeOK, Memory, Operation
  <2> QED
    BY <2>1, <2>2, <2>3 DEF SetupInv, ProfileInv, Gated, OwnFiles, Setup!SavedWasVerified, Setup!SavedPairStays
<1>4. CASE Setup!PlaceConfig
  <2> DEFINE f == [Setup!NoFile EXCEPT !.inode = files + 1, !.edited = "yes"]
  <2>1. config' = f /\ files' = files + 1 /\ files < MaxFiles /\ UNCHANGED <<profile, session, op, sources, active>>
    BY <1>4 DEF Setup!PlaceConfig, Setup!world
  <2>2. f \in Setup!File /\ f.author = Nobody
    <3>1. files + 1 \in 0 .. MaxFiles
      BY <1>t, <2>1
    <3> QED
      BY <3>1 DEF Setup!File
  <2> HIDE DEF f
  <2>3. Setup!TypeOK'
    <3>1. files' \in 0 .. MaxFiles
      BY <1>t, <2>1
    <3> QED
      BY <1>t, <2>1, <2>2, <3>1, SetupTypes DEF Setup!TypeOK, Memory, Operation
  <2>4. ASSUME NEW t \in Executions PROVE OwnFiles(t, op[t], session[t])'
    <3>1. OwnFiles(t, op[t], session[t]) /\ session[t].pending \in Nat
      BY <1>t DEF SetupInv, Memory
    <3> QED
      BY <1>t, <2>1, <2>2, <3>1 DEF OwnFiles
  <2>5. ProfileInv'
    <3>1. profile.inode \in Nat
      BY <1>t DEF Setup!File
    <3> QED
      BY <1>t, <2>1, <3>1 DEF SetupInv, ProfileInv
  <2>6. \A t \in Executions : Gated(op[t], session[t])'
    BY <2>1 DEF SetupInv, Gated
  <2> QED
    BY <2>1, <2>2, <2>3, <2>4, <2>5, <2>6 DEF SetupInv, Setup!SavedWasVerified, Setup!SavedPairStays
<1> QED
  BY <1>1, <1>2, <1>3, <1>4 DEF Setup!Next, Setup!Others

\* What is removed is a session's own, and was unedited when it looked last.
LEMMA ForeignFilesAreKept == SetupInv /\ [Setup!Next]_ofSetup => Setup!ForeignFilesStay
<1> SUFFICES ASSUME SetupInv, [Setup!Next]_ofSetup PROVE Setup!ForeignFilesStay
  OBVIOUS
<1> USE SetupNames, SetupValues
<1>1. ASSUME NEW s \in Executions, Setup!Setup(s) PROVE Setup!ForeignFilesStay
  <2>1. CASE Setup!Unlink(s)
    <3>1. op[s].step = "unlinking" /\ profile' = Setup!NoFile /\ config' = config
      BY <2>1 DEF Setup!Unlink, Setup!At
    <3>2. profile.edited # "yes" /\ profile.author = s /\ op[s].file.inode = profile.inode
      BY <3>1 DEF SetupInv, OwnFiles
    <3> QED
      BY <3>1, <3>2 DEF Setup!ForeignFilesStay
  <2>2. CASE ~ Setup!Unlink(s)
    <3>1. (config # Setup!NoFile => config' = config) /\ (profile # Setup!NoFile => profile' = profile)
      BY <1>1, <2>2 DEF Setup!Setup, Setup!Preview, Setup!Request, Setup!Fail, Setup!Publish, Setup!Built,
         Setup!Verify, Setup!FindProfile, Setup!LinkProfile, Setup!LinkConfig, Setup!Undo, Setup!Crash, Setup!disk
    <3> QED
      BY <3>1 DEF Setup!ForeignFilesStay
  <2> QED
    BY <2>1, <2>2
<1>2. CASE Setup!EditProfile
  <2>1. profile \in Setup!File
    BY SetupTypes DEF SetupInv
  <2>2. profile'.inode = profile.inode /\ profile.edited = "no" /\ config' = config
    BY <1>2, <2>1 DEF Setup!EditProfile, Setup!File
  <2> QED
    BY <2>2 DEF Setup!ForeignFilesStay
<1>3. CASE Setup!EditSources \/ Setup!SelectGeneration \/ Setup!PlaceConfig \/ UNCHANGED ofSetup
  <2>1. (config # Setup!NoFile => config' = config) /\ profile' = profile
    BY <1>3 DEF Setup!EditSources, Setup!SelectGeneration, Setup!PlaceConfig, Setup!disk, ofSetup
  <2> QED
    BY <2>1 DEF Setup!ForeignFilesStay
<1> QED
  BY <1>1, <1>2, <1>3 DEF Setup!Next, Setup!Others

(***************************************************************************)
(* The update of a profile: who holds the lock, and what has been          *)
(* reviewed.                                                               *)
(***************************************************************************)

Updating == {"locked", "checking", "staged", "rechecking", "replacing"}

\* The position of a command says what it holds: new pins, a text that it has
\* read, the lock together with an operator's token.
HoldingInv ==
    \A c \in Executions :
        /\ stance[c] = "initializing" => staged[c] \in Pinning!Profile
        /\ stance[c] = "diffing" => read[c] \in Pinning!Profile
        /\ stance[c] = "diffing" \/ token[c] # Pinning!NoToken => pinned \in Pinning!Profile
        /\ stance[c] \in Updating => lock = c /\ token[c] # Pinning!NoToken

\* What an update is about to put in place, and instead of what.
ReviewedInv ==
    \A c \in Executions :
        /\ stance[c] = "rechecking" => read[c] = pinned \/ late
        /\ stance[c] \in {"staged", "rechecking", "replacing"} =>
            staged[c] \in Pinning!Profile /\ staged[c] = [pins |-> token[c].proposed, text |-> token[c].original.text]
        /\ stance[c] = "replacing" => pinned = token[c].original \/ late

PinningInv == Pinning!TypeOK /\ HoldingInv /\ ReviewedInv

LEMMA ProfileNames ==
    /\ Nobody \notin Executions /\ Versions \subseteq Nat \ {0} /\ MaxTexts \in Nat \ {0} /\ MaxEdits \in Nat
    /\ 0 \notin Versions
    /\ Pinning!NoProfile \notin Pinning!Profile /\ Pinning!NoToken.proposed = 0
BY PartsAssumption DEF Pinning!ProfileAssumption, Pinning!NoProfile, Pinning!Profile, Pinning!NoToken

LEMMA PinningStarts == Pinning!Init => PinningInv
<1> SUFFICES ASSUME Pinning!Init PROVE PinningInv
  OBVIOUS
<1> USE ProfileNames DEF Pinning!Init
<1>1. Pinning!NoToken \in [original : Pinning!Profile \cup {Pinning!NoProfile}, proposed : Versions \cup {0}]
  BY DEF Pinning!NoToken
<1>2. Pinning!TypeOK
  <2>1. stance \in [Executions -> Pinning!Positions]
    BY DEF Pinning!Positions
  <2>2. token \in [Executions -> [original : Pinning!Profile \cup {Pinning!NoProfile}, proposed : Versions \cup {0}]]
    BY <1>1
  <2>3. edits \in 0 .. MaxEdits
    OBVIOUS
  <2>4. late \in BOOLEAN
    OBVIOUS
  <2>5. lock \in Executions \cup {Nobody}
    OBVIOUS
  <2> QED
    BY <2>1, <2>2, <2>3, <2>4, <2>5 DEF Pinning!TypeOK
<1> QED
  BY <1>2 DEF PinningInv, HoldingInv, ReviewedInv, Updating

Tokens == [original : Pinning!Profile \cup {Pinning!NoProfile}, proposed : Versions \cup {0}]

\* A command that ends keeps nothing that the invariant is about.
LEMMA EndKeeps ==
    ASSUME PinningInv, NEW c \in Executions, Pinning!End(c), UNCHANGED <<packs, edits, late>>,
           token' \in [Executions -> Tokens], \A d \in Executions \ {c} : token'[d] = token[d],
           token'[c] = token[c] \/ pinned' \in Pinning!Profile,
           pinned' \in Pinning!Profile \cup {Pinning!NoProfile},
           pinned' = pinned \/ ((\A d \in Executions \ {c} : stance[d] \notin Updating) /\ pinned' \in Pinning!Profile)
    PROVE  PinningInv'
<1> USE ProfileNames
<1>1. stance' \in [Executions -> Pinning!Positions] /\ read' \in [Executions -> Pinning!Profile \cup {Pinning!NoProfile}]
      /\ staged' \in [Executions -> Pinning!Profile \cup {Pinning!NoProfile}] /\ lock' \in Executions \cup {Nobody}
  BY DEF Pinning!End, Pinning!Go, PinningInv, Pinning!TypeOK, Pinning!Positions
<1>2. /\ stance'[c] = "idle"
      /\ \A d \in Executions \ {c} : stance'[d] = stance[d] /\ read'[d] = read[d] /\ staged'[d] = staged[d]
      /\ \A d \in Executions \ {c} : lock = d => lock' = d
  BY DEF Pinning!End, Pinning!Go, PinningInv, Pinning!TypeOK
<1>3. Pinning!TypeOK'
  BY <1>1 DEF PinningInv, Pinning!TypeOK, Tokens
<1>4. HoldingInv'
  BY <1>2 DEF PinningInv, HoldingInv, Updating
<1>5. ReviewedInv'
  BY <1>2 DEF PinningInv, ReviewedInv, Updating
<1> QED
  BY <1>3, <1>4, <1>5 DEF PinningInv

LEMMA PinningStep == PinningInv /\ [Pinning!Next]_ofPinning => PinningInv'
<1> SUFFICES ASSUME PinningInv, [Pinning!Next]_ofPinning PROVE PinningInv'
  OBVIOUS
<1> USE ProfileNames DEF PinningInv
<1>t. token \in [Executions -> Tokens] /\ \A c \in Executions : token[c] \in Tokens
  BY DEF Pinning!TypeOK, Tokens
<1>1. ASSUME NEW c \in Executions, Pinning!PinNew(c) PROVE PinningInv'
  <2> DEFINE new == [pins |-> packs, text |-> 1]
  <2>1. new \in Pinning!Profile
    BY DEF Pinning!TypeOK, Pinning!Profile
  <2>2. staged' = [staged EXCEPT ![c] = new] /\ stance' = [stance EXCEPT ![c] = "initializing"] /\ stance[c] = "idle"
        /\ UNCHANGED <<packs, pinned, lock, token, read, edits, late>>
    BY <1>1 DEF Pinning!PinNew, Pinning!Go
  <2> HIDE DEF new
  <2>3. Pinning!TypeOK'
    BY <2>1, <2>2 DEF Pinning!TypeOK, Pinning!Positions
  <2>4. HoldingInv' /\ ReviewedInv'
    BY <2>1, <2>2 DEF HoldingInv, ReviewedInv, Updating, Pinning!TypeOK
  <2> QED
    BY <2>3, <2>4
<1>2. ASSUME NEW c \in Executions, Pinning!LinkNew(c) PROVE PinningInv'
  <2>1. pinned' = pinned \/ ((\A d \in Executions \ {c} : stance[d] \notin Updating) /\ pinned' \in Pinning!Profile)
    BY <1>2 DEF Pinning!LinkNew, HoldingInv
  <2>2. pinned' \in Pinning!Profile \cup {Pinning!NoProfile}
    BY <2>1 DEF Pinning!TypeOK
  <2> QED
    BY <1>2, <1>t, <2>1, <2>2, EndKeeps DEF Pinning!LinkNew
<1>3. ASSUME NEW c \in Executions, Pinning!DiffReads(c) PROVE PinningInv'
  <2>1. read' = [read EXCEPT ![c] = pinned] /\ stance' = [stance EXCEPT ![c] = "diffing"] /\ stance[c] = "idle"
        /\ pinned \in Pinning!Profile /\ UNCHANGED <<packs, pinned, lock, token, staged, edits, late>>
    BY <1>3 DEF Pinning!DiffReads, Pinning!Go, Pinning!TypeOK
  <2>2. Pinning!TypeOK'
    BY <2>1 DEF Pinning!TypeOK, Pinning!Positions
  <2> QED
    BY <2>1, <2>2 DEF HoldingInv, ReviewedInv, Updating, Pinning!TypeOK
<1>4. ASSUME NEW c \in Executions, Pinning!Diff(c) PROVE PinningInv'
  <2> DEFINE new == Pinning!Review(read[c])
  <2>1. new \in Tokens
    BY DEF Pinning!Review, Tokens, Pinning!TypeOK
  <2>2. token' = [token EXCEPT ![c] = new] /\ stance[c] = "diffing"
    BY <1>4 DEF Pinning!Diff
  <2>3. pinned' = pinned /\ pinned \in Pinning!Profile
    BY <1>4, <2>2 DEF Pinning!Diff, HoldingInv
  <2> HIDE DEF new
  <2>4. token' \in [Executions -> Tokens] /\ \A d \in Executions \ {c} : token'[d] = token[d]
    BY <1>t, <2>1, <2>2
  <2> QED
    BY <1>4, <2>3, <2>4, EndKeeps DEF Pinning!Diff
<1>5. ASSUME NEW c \in Executions, Pinning!Acquire(c) PROVE PinningInv'
  <2>1. stance' = [stance EXCEPT ![c] = "locked"] /\ stance[c] = "idle" /\ lock = Nobody /\ lock' = c
        /\ token[c] # Pinning!NoToken /\ UNCHANGED <<packs, pinned, token, read, staged, edits, late>>
    BY <1>5 DEF Pinning!Acquire, Pinning!Go
  <2>2. Pinning!TypeOK'
    BY <2>1 DEF Pinning!TypeOK, Pinning!Positions
  <2> QED
    BY <2>1, <2>2 DEF HoldingInv, ReviewedInv, Updating, Pinning!TypeOK
<1>6. ASSUME NEW c \in Executions, Pinning!Look(c) PROVE PinningInv'
  <2>1. stance' = [stance EXCEPT ![c] = IF stance[c] = "locked" THEN "checking" ELSE "rechecking"]
        /\ stance[c] \in {"locked", "staged"} /\ lock = c
        /\ read' = [read EXCEPT ![c] = pinned] /\ late' = (IF stance[c] = "staged" THEN FALSE ELSE late)
        /\ UNCHANGED <<packs, pinned, lock, token, staged, edits>>
    BY <1>6 DEF Pinning!Look, Pinning!Go, HoldingInv, Updating
  <2>2. Pinning!TypeOK'
    BY <2>1 DEF Pinning!TypeOK, Pinning!Positions
  <2>3. \A d \in Executions \ {c} : stance[d] \notin Updating
    BY <2>1 DEF HoldingInv
  <2> QED
    BY <2>1, <2>2, <2>3, ZenonT(30) DEF HoldingInv, ReviewedInv, Updating, Pinning!TypeOK
<1>7. ASSUME NEW c \in Executions, Pinning!Stage(c) PROVE PinningInv'
  <2>1. CASE Pinning!End(c)
    BY <1>7, <1>t, <2>1, EndKeeps DEF Pinning!Stage, Pinning!TypeOK
  <2>2. CASE ~ Pinning!End(c)
    <3> DEFINE new == [pins |-> packs, text |-> read[c].text]
    <3>1. Pinning!Review(read[c]) = token[c] /\ pinned = read[c] /\ staged' = [staged EXCEPT ![c] = new]
          /\ stance' = [stance EXCEPT ![c] = "staged"] /\ stance[c] = "checking"
          /\ UNCHANGED <<packs, pinned, lock, token, read, edits, late>>
      BY <1>7, <2>2 DEF Pinning!Stage, Pinning!Go
    <3>2. token[c].original = read[c] /\ token[c].proposed = packs
      BY <3>1 DEF Pinning!Review
    <3>3. pinned \in Pinning!Profile
      BY <3>1 DEF HoldingInv, Updating
    <3>4. new \in Pinning!Profile /\ new = [pins |-> token[c].proposed, text |-> token[c].original.text]
      BY <3>1, <3>2, <3>3 DEF Pinning!TypeOK, Pinning!Profile
    <3> HIDE DEF new
    <3>5. Pinning!TypeOK'
      BY <3>1, <3>4 DEF Pinning!TypeOK, Pinning!Positions
    <3> QED
      BY <3>1, <3>4, <3>5 DEF HoldingInv, ReviewedInv, Updating, Pinning!TypeOK
  <2> QED
    BY <2>1, <2>2
<1>8. ASSUME NEW c \in Executions, Pinning!Recheck(c) PROVE PinningInv'
  <2>1. CASE Pinning!End(c)
    BY <1>8, <1>t, <2>1, EndKeeps DEF Pinning!Recheck, Pinning!TypeOK
  <2>2. CASE ~ Pinning!End(c)
    <3>1. Pinning!Review(read[c]) = token[c] /\ stance' = [stance EXCEPT ![c] = "replacing"] /\ stance[c] = "rechecking"
          /\ UNCHANGED <<packs, pinned, lock, token, read, staged, edits, late>>
      BY <1>8, <2>2 DEF Pinning!Recheck, Pinning!Go
    <3>2. token[c].original = read[c]
      BY <3>1 DEF Pinning!Review
    <3>3. Pinning!TypeOK'
      BY <3>1 DEF Pinning!TypeOK, Pinning!Positions
    <3> QED
      BY <3>1, <3>2, <3>3 DEF HoldingInv, ReviewedInv, Updating, Pinning!TypeOK
  <2> QED
    BY <2>1, <2>2
<1>9. ASSUME NEW c \in Executions, Pinning!Replace(c) PROVE PinningInv'
  <2>1. pinned' \in Pinning!Profile /\ \A d \in Executions \ {c} : stance[d] \notin Updating
    BY <1>9 DEF Pinning!Replace, HoldingInv, ReviewedInv, Updating
  <2> QED
    BY <1>9, <1>t, <2>1, EndKeeps DEF Pinning!Replace
<1>10. ASSUME NEW c \in Executions, Pinning!Crash(c) PROVE PinningInv'
  BY <1>10, <1>t, EndKeeps DEF Pinning!Crash, Pinning!TypeOK
<1>11. CASE Pinning!EditPacks
  BY <1>11 DEF Pinning!EditPacks, Pinning!TypeOK, HoldingInv, ReviewedInv
<1>12. CASE Pinning!EditProfile
  BY <1>12 DEF Pinning!EditProfile, Pinning!TypeOK, HoldingInv, ReviewedInv
<1>13. CASE UNCHANGED ofPinning
  BY <1>13 DEF ofPinning, Pinning!TypeOK, HoldingInv, ReviewedInv
<1> QED
  BY <1>1, <1>2, <1>3, <1>4, <1>5, <1>6, <1>7, <1>8, <1>9, <1>10, <1>11, <1>12, <1>13 DEF Pinning!Next, Pinning!Command

\* A command that leaves "replacing" in a step that changes the profile has
\* replaced it itself.
LEMMA UpdatesAreAsReviewed == PinningInv /\ [Pinning!Next]_ofPinning => Pinning!AsReviewed
<1> SUFFICES ASSUME PinningInv, [Pinning!Next]_ofPinning, NEW c \in Executions,
                    stance[c] = "replacing", pinned' # pinned, stance'[c] = "idle"
             PROVE  /\ pinned' = [pins |-> token[c].proposed, text |-> token[c].original.text]
                    /\ pinned = token[c].original \/ late
  BY DEF Pinning!AsReviewed
<1>1. stance \in [Executions -> Pinning!Positions]
  BY DEF PinningInv, Pinning!TypeOK
<1>2. ~ Pinning!EditProfile /\ ~ Pinning!EditPacks /\ ~ UNCHANGED ofPinning
  BY DEF Pinning!EditProfile, Pinning!EditPacks, ofPinning
<1>3. PICK d \in Executions : Pinning!LinkNew(d) \/ Pinning!Replace(d)
  BY <1>2 DEF Pinning!Next, Pinning!Command, Pinning!PinNew, Pinning!DiffReads, Pinning!Diff, Pinning!Acquire,
     Pinning!Look, Pinning!Stage, Pinning!Recheck, Pinning!Crash
<1>4. d = c
  BY <1>1, <1>3 DEF Pinning!LinkNew, Pinning!Replace, Pinning!End, Pinning!Go
<1> QED
  BY <1>3, <1>4 DEF Pinning!LinkNew, Pinning!Replace, PinningInv, ReviewedInv

(***************************************************************************)
(* The standalone index: a build's rules are linked before its index is    *)
(* opened.                                                                 *)
(***************************************************************************)

\* The rules that a build has linked are there until an operator takes them.
IndexInv ==
    /\ Indexing!TypeOK
    /\ \A b \in Builds :
        stage[b] \in {"ruled", "opening", "opened"} /\ index.build = b /\ ~displaced => rules = b
    /\ Indexing!ReadyIndexHasItsRules

\* Builds are none of the values that stand for no build or somebody else's rules.
LEMMA BuildNames == Nobody \notin Builds /\ "absent" \notin Builds /\ "foreign" \notin Builds /\ MaxTouched \in Nat
BY PartsAssumption DEF Indexing!BuildAssumption, Indexing!NoRules, Indexing!ForeignRules

LEMMA IndexValues ==
    /\ Indexing!NoIndex \in Indexing!Index /\ Indexing!NoIndex.build = Nobody
    /\ Indexing!Foreign \in Indexing!Index /\ Indexing!Foreign.build = Nobody
<1>1. Indexing!NoIndex \in Indexing!Index /\ Indexing!NoIndex.build = Nobody
  BY DEF Indexing!NoIndex, Indexing!Index
<1>2. Indexing!Foreign \in Indexing!Index /\ Indexing!Foreign.build = Nobody
  BY DEF Indexing!Foreign, Indexing!Index
<1> QED
  BY <1>1, <1>2

\* A new index is found in any state but a ready one without its rules.
LEMMA IndexStarts == Indexing!Init => IndexInv
<1> SUFFICES ASSUME Indexing!Init PROVE IndexInv
  OBVIOUS
<1>1. index \in Indexing!Index /\ index.build = Nobody
  BY IndexValues DEF Indexing!Init
<1>2. opened \in [Builds -> Indexing!Index]
  BY IndexValues DEF Indexing!Init, Indexing!NotOpen
<1>3. Indexing!TypeOK
  <2>1. rules \in Builds \cup {Indexing!NoRules, Indexing!ForeignRules} /\ touched \in 0 .. MaxTouched
    BY BuildNames DEF Indexing!Init
  <2>2. stage \in [Builds -> {"idle", "embedding", "indexed", "ruled", "opening", "opened", "ended"}]
    BY DEF Indexing!Init
  <2>3. displaced \in BOOLEAN
    BY DEF Indexing!Init
  <2> QED
    BY <1>1, <1>2, <2>1, <2>2, <2>3 DEF Indexing!TypeOK
<1> QED
  BY BuildNames, <1>1, <1>3 DEF Indexing!Init, IndexInv, Indexing!ReadyIndexHasItsRules

\* Every step of a build and of an operator keeps it.
LEMMA IndexStep == IndexInv /\ [Indexing!Next]_ofIndexing => IndexInv'
<1> SUFFICES ASSUME IndexInv, [Indexing!Next]_ofIndexing PROVE IndexInv'
  OBVIOUS
<1> USE BuildNames DEF IndexInv, Indexing!TypeOK, Indexing!ReadyIndexHasItsRules,
        Indexing!NoRules, Indexing!ForeignRules, Indexing!Go
<1>1. ASSUME NEW b \in Builds, Indexing!Observe(b) PROVE IndexInv'
  BY <1>1 DEF Indexing!Observe
<1>2. ASSUME NEW b \in Builds, Indexing!LinkIndex(b) PROVE IndexInv'
  <2>1. CASE index = Indexing!NoIndex
    <3>1. index' = [build |-> b, complete |-> FALSE, intact |-> TRUE]
      BY <1>2, <2>1 DEF Indexing!LinkIndex
    <3>2. index' \in Indexing!Index /\ index'.build = b /\ ~index'.complete
      BY <3>1 DEF Indexing!Index
    <3> QED
      BY <1>2, <2>1, <3>2 DEF Indexing!LinkIndex
  <2>2. CASE index # Indexing!NoIndex
    BY <1>2, <2>2 DEF Indexing!LinkIndex
  <2> QED
    BY <2>1, <2>2
<1>3. ASSUME NEW b \in Builds, Indexing!LinkRules(b) PROVE IndexInv'
  BY <1>3 DEF Indexing!LinkRules
<1>4. ASSUME NEW b \in Builds, Indexing!OpenIndex(b) \/ Indexing!Opened(b) PROVE IndexInv'
  BY <1>4 DEF Indexing!OpenIndex, Indexing!Opened
<1>5. ASSUME NEW b \in Builds, Indexing!Complete(b) PROVE IndexInv'
  <2>1. [index EXCEPT !.complete = TRUE] \in Indexing!Index /\ [index EXCEPT !.complete = TRUE].build = index.build
    BY DEF Indexing!Index
  <2> QED
    BY <1>5, <2>1 DEF Indexing!Complete, Indexing!Pending
<1>6. ASSUME NEW b \in Builds, Indexing!Stop(b) PROVE IndexInv'
  BY <1>6 DEF Indexing!Stop
<1>7. CASE Indexing!TouchIndex
  <2>1. index' \in Indexing!Index /\ (index'.build \in Builds => index'.build = index.build /\ index'.complete = index.complete)
    <3>1. [index EXCEPT !.intact = FALSE] \in Indexing!Index
          /\ [index EXCEPT !.intact = FALSE].build = index.build
          /\ [index EXCEPT !.intact = FALSE].complete = index.complete
      BY DEF Indexing!Index
    <3> QED
      BY <1>7, <3>1, IndexValues, BuildNames DEF Indexing!TouchIndex
  <2> QED
    BY <1>7, <2>1 DEF Indexing!TouchIndex, Indexing!Touch
<1>8. CASE Indexing!TouchRules
  BY <1>8 DEF Indexing!TouchRules, Indexing!Touch
<1>9. CASE UNCHANGED ofIndexing
  BY <1>9 DEF ofIndexing
<1> QED
  BY <1>1, <1>2, <1>3, <1>4, <1>5, <1>6, <1>7, <1>8, <1>9 DEF Indexing!Next, Indexing!Build

(***************************************************************************)
(* External vector replicas: what is activated or queried has been read    *)
(* back.                                                                   *)
(***************************************************************************)

\* What a command is about has been sealed, and an upload is not at its end.
CommandInv ==
    \A p \in Executions :
        /\ command[p].pc # "idle" => command[p].of \in Sealed
        /\ command[p].pc \in {"discover", "create", "upload"} => command[p].sent < KeyCount

\* A replica that only publishers have touched has no other records than right ones.
UntouchedInv ==
    \A g \in Sealed \ tampered : remote[g] # Replicating!NoReplica =>
        /\ remote[g][Replicating!Stranger] = "absent"
        /\ \A k \in Replicating!Keys : remote[g][k] \in {"absent", "right"}

\* What a publication activates has been read back, and what a search queries
\* has been counted.
ValidatedInv ==
    /\ \A p \in Executions :
        command[p].pc = "activate" /\ command[p].of \notin tampered => remote[command[p].of] = Replicating!Complete
    /\ \A q \in Searches : search[q].pc # "idle" => search[q].of \in Sealed
    /\ \A q \in Searches :
        search[q].pc = "query" /\ search[q].of \notin tampered => remote[search[q].of] = Replicating!Complete

ReplicaInv ==
    /\ Replicating!TypeOK /\ CommandInv /\ UntouchedInv /\ ValidatedInv
    /\ Replicating!ReportedReplicaIsWhole /\ Replicating!AnswersComeFromWhole

LEMMA ReplicaNumbers ==
    /\ KeyCount \in Nat \ {0} /\ BatchSize \in Nat \ {0} /\ TopK \in Nat /\ MaxTampers \in Nat
    /\ Nobody \notin Sealed
    /\ Replicating!Keys = 1 .. KeyCount /\ Replicating!Stranger \notin Replicating!Keys
    /\ Replicating!Slots = Replicating!Keys \cup {Replicating!Stranger}
BY PartsAssumption DEF Replicating!ReplicaAssumption, Replicating!Keys, Replicating!Stranger, Replicating!Slots

LEMMA ReplicaValues ==
    /\ Replicating!NoReplica \in [Replicating!Slots -> Replicating!Records]
    /\ Replicating!Empty \in [Replicating!Slots -> Replicating!Records]
    /\ Replicating!Complete \in [Replicating!Slots -> Replicating!Records]
    /\ Replicating!Complete # Replicating!NoReplica /\ Replicating!Empty # Replicating!NoReplica
    /\ Replicating!Complete[Replicating!Stranger] = "absent"
    /\ \A k \in Replicating!Keys : Replicating!Complete[k] = "right"
    /\ \A k \in Replicating!Slots : Replicating!Empty[k] = "absent"
BY ReplicaNumbers DEF Replicating!NoReplica, Replicating!Empty, Replicating!Complete, Replicating!Records

\* A replica is complete if it has all right keys and nothing else.
LEMMA CompleteReplica ==
    ASSUME NEW replica \in [Replicating!Slots -> Replicating!Records],
           replica[Replicating!Stranger] = "absent", \A k \in Replicating!Keys : replica[k] = "right"
    PROVE  replica = Replicating!Complete
BY ReplicaNumbers, ReplicaValues

Cmd == [pc : {"idle", "discover", "create", "upload", "validate", "activate"},
        of : Sealed \cup {Nobody}, sent : 0 .. KeyCount + BatchSize, publishes : BOOLEAN]
Srch == [pc : {"idle", "check", "query", "answered", "refused"},
         of : Sealed \cup {Nobody}, domain : SUBSET Replicating!Keys, answer : SUBSET Replicating!Keys]

LEMMA ReplicaStarts == Replicating!Init => ReplicaInv
<1> SUFFICES ASSUME Replicating!Init PROVE ReplicaInv
  OBVIOUS
<1>1. Replicating!Idle \in Cmd /\ Replicating!Idle.pc = "idle"
  BY ReplicaNumbers DEF Replicating!Idle, Cmd
<1>2. Replicating!NoSearch \in Srch /\ Replicating!NoSearch.pc = "idle"
  BY ReplicaNumbers DEF Replicating!NoSearch, Srch
<1>3. Replicating!TypeOK
  BY ReplicaNumbers, ReplicaValues, <1>1, <1>2 DEF Replicating!Init, Replicating!TypeOK, Cmd, Srch
<1>4. CommandInv /\ UntouchedInv /\ ValidatedInv
  BY <1>1, <1>2 DEF Replicating!Init, CommandInv, UntouchedInv, ValidatedInv
<1>5. Replicating!ReportedReplicaIsWhole /\ Replicating!AnswersComeFromWhole
  BY <1>2 DEF Replicating!Init, Replicating!ReportedReplicaIsWhole, Replicating!AnswersComeFromWhole
<1> QED
  BY <1>3, <1>4, <1>5 DEF ReplicaInv

\* What a command writes is right, and a complete replica stays so.
LEMMA CommandKeeps ==
    ASSUME ReplicaInv, NEW p \in Executions, Replicating!Command(p)
    PROVE  Replicating!TypeOK' /\ CommandInv' /\ UntouchedInv' /\ UNCHANGED <<backend, search, tampered, tampers>>
           /\ \A g \in Sealed : remote[g] = Replicating!Complete => remote'[g] = Replicating!Complete
<1> USE ReplicaNumbers DEF ReplicaInv, Replicating!TypeOK, CommandInv, Replicating!Local
<1> DEFINE Keeps == \A g \in Sealed : remote[g] = Replicating!Complete => remote'[g] = Replicating!Complete
<1>a. ASSUME NEW c \in Cmd, command' = [command EXCEPT ![p] = c],
             c.pc # "idle" => c.of \in Sealed, c.pc \in {"discover", "create", "upload"} => c.sent < KeyCount
      PROVE  command' \in [Executions -> Cmd] /\ CommandInv'
  BY <1>a DEF Cmd
<1>b. Replicating!Idle \in Cmd /\ Replicating!Idle.pc = "idle"
  BY DEF Replicating!Idle, Cmd
<1>c. \A next \in {"create", "upload", "validate", "activate"} :
        [command[p] EXCEPT !.pc = next] \in Cmd /\ [command[p] EXCEPT !.pc = next].pc = next
        /\ [command[p] EXCEPT !.pc = next].of = command[p].of /\ [command[p] EXCEPT !.pc = next].sent = command[p].sent
  BY DEF Cmd
<1>1. ASSUME Replicating!End(p) PROVE command' \in [Executions -> Cmd] /\ CommandInv'
  BY <1>1, <1>a, <1>b DEF Replicating!End
<1>2. ASSUME NEW next \in {"create", "validate", "activate"}, command[p].pc # "idle", Replicating!Goes(p, next),
             next = "create" => command[p].pc = "discover"
      PROVE  command' \in [Executions -> Cmd] /\ CommandInv'
  BY <1>2, <1>a, <1>c, ZenonT(30) DEF Replicating!Goes
<1>3. ASSUME NEW g \in Sealed, NEW how \in BOOLEAN, Replicating!Begin(p, g, how)
      PROVE  command' \in [Executions -> Cmd] /\ CommandInv'
  <2> DEFINE c == [pc |-> "discover", of |-> g, sent |-> 0, publishes |-> how]
  <2>1. c \in Cmd /\ c.of \in Sealed /\ c.sent < KeyCount
    BY DEF Cmd
  <2> QED
    BY <1>3, <2>1, <1>a DEF Replicating!Begin
<1>4. ASSUME Replicating!Verified(p), command[p].pc # "idle"
      PROVE  command' \in [Executions -> Cmd] /\ CommandInv' /\ ready' \subseteq Sealed
  BY <1>4, <1>1, <1>2 DEF Replicating!Verified
<1>5. CASE Replicating!StartPublication(p) \/ Replicating!StartSync(p)
  BY <1>5, <1>3 DEF Replicating!StartPublication, Replicating!StartSync, UntouchedInv, Cmd
<1>6. CASE Replicating!Discover(p)
  BY <1>6, <1>2 DEF Replicating!Discover, UntouchedInv, Cmd
<1>7. CASE Replicating!Validate(p) \/ Replicating!Activate(p) \/ Replicating!Fail(p)
  <2>1. command' \in [Executions -> Cmd] /\ CommandInv' /\ ready' \subseteq Sealed
    BY <1>7, <1>1, <1>4 DEF Replicating!Validate, Replicating!Activate, Replicating!Fail
  <2>2. UNCHANGED <<remote, backend, search, tampered, tampers>> /\ selected' \in Sealed \cup {Nobody}
    BY <1>7, <1>b DEF Replicating!Validate, Replicating!Activate, Replicating!Fail
  <2> QED
    BY <2>1, <2>2 DEF UntouchedInv, Cmd
<1>d. ASSUME command[p].pc # "idle", UNCHANGED tampered,
             NEW r \in [Replicating!Slots -> Replicating!Records], remote' = [remote EXCEPT ![command[p].of] = r],
             command[p].of \notin tampered =>
                r[Replicating!Stranger] = "absent" /\ \A k \in Replicating!Keys : r[k] \in {"absent", "right"},
             remote[command[p].of] = Replicating!Complete => r = Replicating!Complete
      PROVE  remote' \in [Sealed -> [Replicating!Slots -> Replicating!Records]] /\ UntouchedInv' /\ Keeps
  BY <1>d DEF UntouchedInv
<1>8. CASE Replicating!CreateCollection(p)
  <2>1. CASE remote[command[p].of] = Replicating!NoReplica
    <3>1. command' = [command EXCEPT ![p] = [command[p] EXCEPT !.pc = "upload"]]
      BY <1>8, <2>1 DEF Replicating!CreateCollection, Replicating!Goes
    <3>2. command[p].pc = "create" /\ command[p].sent < KeyCount
      BY <1>8 DEF Replicating!CreateCollection
    <3>3. command' \in [Executions -> Cmd] /\ CommandInv'
      BY <3>1, <3>2, <1>a, <1>c
    <3>4. remote' \in [Sealed -> [Replicating!Slots -> Replicating!Records]] /\ UntouchedInv' /\ Keeps
      BY <1>8, <2>1, <1>d, ReplicaValues DEF Replicating!CreateCollection
    <3> QED
      BY <1>8, <2>1, <3>3, <3>4 DEF Replicating!CreateCollection, Cmd
  <2>2. CASE remote[command[p].of] # Replicating!NoReplica
    BY <1>8, <2>2, <1>1 DEF Replicating!CreateCollection, UntouchedInv, Cmd
  <2> QED
    BY <2>1, <2>2
<1>9. CASE Replicating!PublishTable(p)
  <2>1. CASE remote[command[p].of] = Replicating!NoReplica
    <3>1. command' \in [Executions -> Cmd] /\ CommandInv' /\ ready' \subseteq Sealed
      BY <1>9, <2>1, <1>4 DEF Replicating!PublishTable
    <3>2. remote' \in [Sealed -> [Replicating!Slots -> Replicating!Records]] /\ UntouchedInv' /\ Keeps
      BY <1>9, <2>1, <1>d, ReplicaValues DEF Replicating!PublishTable
    <3> QED
      BY <1>9, <3>1, <3>2 DEF Replicating!PublishTable, Cmd
  <2>2. CASE remote[command[p].of] # Replicating!NoReplica
    BY <1>9, <2>2, <1>1, ZenonT(30) DEF Replicating!PublishTable, UntouchedInv, Cmd
  <2> QED
    BY <2>1, <2>2
<1>10. CASE Replicating!UploadBatch(p)
  <2> DEFINE of == command[p].of
             r == [k \in Replicating!Slots |-> IF k \in Replicating!Batch(p) THEN "right" ELSE remote[of][k]]
  <2>1. command[p].pc = "upload" /\ of \in Sealed /\ command[p].sent < KeyCount /\ remote' = [remote EXCEPT ![of] = r]
    BY <1>10 DEF Replicating!UploadBatch
  <2>2. command' \in [Executions -> Cmd] /\ CommandInv'
    <3> DEFINE c == [command[p] EXCEPT !.sent = @ + BatchSize,
                                       !.pc = IF KeyCount \in Replicating!Batch(p) THEN "validate" ELSE @]
    <3>1. command' = [command EXCEPT ![p] = c]
      BY <1>10 DEF Replicating!UploadBatch
    <3>2. CASE KeyCount \in Replicating!Batch(p)
      <4>1. command[p] \in Cmd /\ command[p].sent + BatchSize \in 0 .. KeyCount + BatchSize
        BY <2>1 DEF Cmd
      <4>2. c \in Cmd /\ c.of = of /\ c.pc = "validate"
        BY <3>2, <4>1 DEF Cmd
      <4> QED
        BY <2>1, <3>1, <4>2, <1>a
    <3>3. CASE KeyCount \notin Replicating!Batch(p)
      <4>1. command[p].sent + BatchSize < KeyCount
        BY <2>1, <3>3 DEF Cmd, Replicating!Batch
      <4>2. command[p] \in Cmd /\ command[p].sent + BatchSize \in 0 .. KeyCount + BatchSize
        BY <2>1 DEF Cmd
      <4>3. c \in Cmd /\ c.of = of /\ c.sent = command[p].sent + BatchSize
        BY <2>1, <3>3, <4>2 DEF Cmd
      <4> QED
        BY ZenonT(30), <2>1, <3>1, <4>1, <4>3, <1>a
    <3> QED
      BY <3>2, <3>3
  <2>3. r \in [Replicating!Slots -> Replicating!Records]
    BY <2>1 DEF Replicating!Records
  <2>4. Replicating!Stranger \notin Replicating!Batch(p)
    BY DEF Replicating!Batch
  <2>5. of \notin tampered =>
          r[Replicating!Stranger] = "absent" /\ \A k \in Replicating!Keys : r[k] \in {"absent", "right"}
    BY <1>10, <2>1, <2>4 DEF Replicating!UploadBatch, UntouchedInv
  <2>6. remote[of] = Replicating!Complete => r = Replicating!Complete
    BY <2>3, <2>4, ReplicaValues, CompleteReplica
  <2>7. UNCHANGED <<selected, ready, backend, search, tampered, tampers>>
    BY <1>10 DEF Replicating!UploadBatch
  <2>8. remote' \in [Sealed -> [Replicating!Slots -> Replicating!Records]] /\ UntouchedInv' /\ Keeps
    BY <2>1, <2>3, <2>5, <2>6, <2>7, <1>d
  <2> QED
    BY <2>2, <2>7, <2>8 DEF Cmd
<1> QED
  BY <1>5, <1>6, <1>7, <1>8, <1>9, <1>10 DEF Replicating!Command

\* A command reports and activates what it has read back.
LEMMA CommandReports ==
    ASSUME ReplicaInv, NEW p \in Executions, Replicating!Command(p)
    PROVE  ReplicaInv'
<1> USE ReplicaNumbers
<1>1. /\ Replicating!TypeOK' /\ CommandInv' /\ UntouchedInv' /\ UNCHANGED <<backend, search, tampered, tampers>>
      /\ \A g \in Sealed : remote[g] = Replicating!Complete => remote'[g] = Replicating!Complete
  BY CommandKeeps
<1>2. command[p] \in Cmd /\ command \in [Executions -> Cmd] /\ (command[p].pc # "idle" => command[p].of \in Sealed)
      /\ remote \in [Sealed -> [Replicating!Slots -> Replicating!Records]] /\ ready \subseteq Sealed
  BY DEF ReplicaInv, Replicating!TypeOK, CommandInv, Cmd
<1>3. Replicating!AnswersComeFromWhole'
  BY <1>1 DEF ReplicaInv, Replicating!AnswersComeFromWhole, Replicating!Nearest
<1>4. \A other \in Executions \ {p} : command'[other] = command[other]
  BY <1>2 DEF Replicating!Command, Replicating!StartPublication, Replicating!StartSync, Replicating!Discover,
        Replicating!CreateCollection, Replicating!UploadBatch, Replicating!PublishTable, Replicating!Validate,
        Replicating!Activate, Replicating!Fail, Replicating!Goes, Replicating!End, Replicating!Begin, Replicating!Verified
<1>5. /\ ready' # ready => ready' = ready \cup {command[p].of} /\ command[p].pc # "idle"
                           /\ (command[p].of \in tampered \/ remote'[command[p].of] = Replicating!Complete)
      /\ command'[p].pc = "activate" => command'[p].of = command[p].of /\ command[p].pc # "idle"
                                        /\ remote'[command[p].of] = Replicating!Complete
  <2>a. Replicating!Idle.pc = "idle"
    BY DEF Replicating!Idle
  <2>b. ASSUME Replicating!Verified(p)
        PROVE  (ready' # ready => ready' = ready \cup {command[p].of})
               /\ (command'[p].pc = "activate" => command'[p].of = command[p].of)
    BY <2>b, <2>a, <1>2 DEF Replicating!Verified, Replicating!Goes, Replicating!End, Cmd
  <2>1. CASE Replicating!StartPublication(p) \/ Replicating!StartSync(p)
    BY <2>1, <1>2 DEF Replicating!StartPublication, Replicating!StartSync, Replicating!Begin
  <2>2. CASE Replicating!Discover(p)
    BY <2>2, <1>2 DEF Replicating!Discover, Replicating!Goes, Cmd
  <2>3. CASE Replicating!CreateCollection(p)
    BY <2>3, <2>a, <1>2 DEF Replicating!CreateCollection, Replicating!Goes, Replicating!End, Cmd
  <2>4. CASE Replicating!UploadBatch(p)
    BY <2>4, <1>2 DEF Replicating!UploadBatch, Cmd
  <2>5. CASE Replicating!PublishTable(p)
    <3>1. CASE remote[command[p].of] = Replicating!NoReplica
      <4>1. remote'[command[p].of] = Replicating!Complete /\ command[p].pc # "idle" /\ Replicating!Verified(p)
        BY <2>5, <3>1, <1>2 DEF Replicating!PublishTable
      <4> QED
        BY <4>1, <2>b
    <3>2. CASE remote[command[p].of] # Replicating!NoReplica
      BY <2>5, <3>2, <2>a, <1>2 DEF Replicating!PublishTable, Replicating!End
    <3> QED
      BY <3>1, <3>2
  <2>6. CASE Replicating!Validate(p)
    <3>1. CASE remote[command[p].of] = Replicating!Complete
      <4>1. remote'[command[p].of] = Replicating!Complete /\ command[p].pc # "idle" /\ Replicating!Verified(p)
        BY <2>6, <3>1, <1>2 DEF Replicating!Validate
      <4> QED
        BY <4>1, <2>b
    <3>2. CASE remote[command[p].of] # Replicating!Complete
      BY <2>6, <3>2, <2>a, <1>2 DEF Replicating!Validate, Replicating!End
    <3> QED
      BY <3>1, <3>2
  <2>7. CASE Replicating!Activate(p)
    BY <2>7, <2>a, <1>2 DEF Replicating!Activate, Replicating!End, ReplicaInv, ValidatedInv
  <2>8. CASE Replicating!Fail(p)
    BY <2>8, <2>a, <1>2 DEF Replicating!Fail, Replicating!End
  <2> QED
    BY <2>1, <2>2, <2>3, <2>4, <2>5, <2>6, <2>7, <2>8 DEF Replicating!Command
<1>6. ValidatedInv'
  <2>1. \A other \in Executions : command'[other].pc = "activate" /\ command'[other].of \notin tampered
          => remote'[command'[other].of] = Replicating!Complete
    BY <1>1, <1>2, <1>4, <1>5 DEF ReplicaInv, ValidatedInv, CommandInv
  <2>2. \A q \in Searches : search[q].pc # "idle" => search[q].of \in Sealed
    BY DEF ReplicaInv, ValidatedInv
  <2>3. \A q \in Searches : search[q].pc = "query" /\ search[q].of \notin tampered
          => remote'[search[q].of] = Replicating!Complete
    BY <1>1, <2>2 DEF ReplicaInv, ValidatedInv
  <2> QED
    BY <1>1, <2>1, <2>2, <2>3 DEF ValidatedInv
<1>7. Replicating!ReportedReplicaIsWhole'
  BY <1>1, <1>2, <1>5 DEF ReplicaInv, Replicating!ReportedReplicaIsWhole
<1> QED
  BY <1>1, <1>3, <1>6, <1>7 DEF ReplicaInv

-----------------------------------------------------------------------------
\* The cardinality an instance speaks of is the library's.
LEMMA SameCardinality == \A S : Replicating!Cardinality(S) = Cardinality(S)
  BY DEF Cardinality, Replicating!Cardinality

\* A reader goes on only with a replica that has as many right records as it should.
LEMMA CountedIsComplete ==
    ASSUME ReplicaInv, NEW g \in Sealed \ tampered, Replicating!CountsAgree(g)
    PROVE  remote[g] = Replicating!Complete
<1> USE ReplicaNumbers
<1>1. remote[g] \in [Replicating!Slots -> Replicating!Records] /\ remote[g][Replicating!Stranger] = "absent"
      /\ \A k \in Replicating!Keys : remote[g][k] \in {"absent", "right"}
  BY DEF ReplicaInv, Replicating!TypeOK, UntouchedInv, Replicating!CountsAgree
<1>2. Replicating!Stored(g) \subseteq Replicating!Keys /\ Cardinality(Replicating!Stored(g)) = KeyCount
  <2>1. Replicating!Stored(g) \subseteq Replicating!Keys
    BY <1>1 DEF Replicating!Stored
  <2>2. Cardinality(Replicating!Stored(g)) = KeyCount
    BY SameCardinality DEF Replicating!CountsAgree
  <2> QED
    BY <2>1, <2>2
<1>3. IsFiniteSet(Replicating!Keys) /\ Cardinality(Replicating!Keys) = KeyCount
  BY FS_Interval
<1>4. Replicating!Stored(g) = Replicating!Keys
  BY <1>2, <1>3, FS_Subset
<1>5. \A k \in Replicating!Keys : remote[g][k] = "right"
  BY <1>1, <1>4 DEF Replicating!Stored
<1> QED
  BY <1>1, <1>5, CompleteReplica

\* An answer from a complete replica is what is nearest.
LEMMA AnswerIsNearest ==
    ASSUME ReplicaInv, NEW q \in Searches, Replicating!Search(q)
    PROVE  LET g == search[q].of IN
           \/ search'[q].pc = "refused"
           \/ /\ search'[q].pc = "answered" /\ search'[q].answer \subseteq search[q].domain
              /\ g \notin tampered => search'[q].answer = Replicating!Nearest(search[q].domain, TopK)
<1> USE ReplicaNumbers DEF ReplicaInv
<1> DEFINE g == search[q].of
<1>1. PICK matches \in Replicating!Replies(g, search[q].domain) :
         IF \A k \in matches : k \in search[q].domain /\ Replicating!Genuine(g, k)
         THEN Replicating!Turns(q, "answered", matches) ELSE Replicating!Turns(q, "refused", {})
  BY DEF Replicating!Search
<1>2. search[q] \in Srch /\ search \in [Searches -> Srch] /\ search[q].pc = "query" /\ g \in Sealed
  BY DEF Replicating!Search, Replicating!TypeOK, ValidatedInv, Srch
<1>3. CASE ~ \A k \in matches : k \in search[q].domain /\ Replicating!Genuine(g, k)
  BY <1>1, <1>2, <1>3 DEF Replicating!Turns, Srch
<1>4. CASE \A k \in matches : k \in search[q].domain /\ Replicating!Genuine(g, k)
  <2>1. search'[q].pc = "answered" /\ search'[q].answer = matches /\ matches \subseteq search[q].domain
    BY <1>1, <1>2, <1>4 DEF Replicating!Turns, Srch
  <2>2. ASSUME g \notin tampered PROVE matches = Replicating!Nearest(search[q].domain, TopK)
    <3>1. remote[g] = Replicating!Complete
      BY <2>2, <1>2 DEF ValidatedInv
    <3> DEFINE wrong == {k \in Replicating!Scoped(g) : remote[g][k] = "altered"}
    <3>2. wrong = {}
      BY <3>1, ReplicaValues DEF Replicating!Scoped, Replicating!Stored
    <3>3. {k \in search[q].domain : remote[g][k] = "right"} = search[q].domain
      BY <3>1, <1>2, ReplicaValues DEF Srch
    <3>4. \E s \in SUBSET wrong :
            matches = Replicating!Nearest({k \in search[q].domain : remote[g][k] = "right"}, TopK - Replicating!Cardinality(s)) \cup s
      <4>1. matches \in Replicating!Replies(g, search[q].domain)
        BY <1>1
      <4> QED
        BY <4>1 DEF Replicating!Replies
    <3> HIDE DEF wrong
    <3>5. \A s \in SUBSET wrong : s = {}
      BY <3>2
    <3>6. TopK - Replicating!Cardinality({}) = TopK
      BY FS_EmptySet, SameCardinality
    <3>7. matches = Replicating!Nearest({k \in search[q].domain : remote[g][k] = "right"}, TopK)
      BY <3>4, <3>5, <3>6
    <3> QED
      BY <3>3, <3>7
  <2> QED
    BY <2>1, <2>2
<1> QED
  BY <1>3, <1>4

LEMMA ReaderStep ==
    ASSUME ReplicaInv, NEW q \in Searches, Replicating!Reader(q)
    PROVE  ReplicaInv'
<1> USE ReplicaNumbers DEF ReplicaInv
<1>1. UNCHANGED <<backend, selected, remote, command, ready, tampered, tampers>>
  BY DEF Replicating!Reader, Replicating!Open, Replicating!Check, Replicating!Search, Replicating!Unreachable,
        Replicating!Close, Replicating!Remote
<1>2. ASSUME search' \in [Searches -> Srch], \A other \in Searches \ {q} : search'[other] = search[other],
             search'[q].pc # "idle" => search'[q].of \in Sealed,
             search'[q].pc = "query" /\ search'[q].of \notin tampered => remote[search'[q].of] = Replicating!Complete,
             search'[q].pc = "answered" =>
                /\ search'[q].answer \subseteq search'[q].domain
                /\ search'[q].of \notin tampered => search'[q].answer = Replicating!Nearest(search'[q].domain, TopK)
      PROVE  ReplicaInv'
  <2>1. Replicating!TypeOK'
    BY <1>1, <1>2 DEF Replicating!TypeOK, Srch
  <2>2. CommandInv' /\ UntouchedInv' /\ Replicating!ReportedReplicaIsWhole'
    BY <1>1 DEF CommandInv, UntouchedInv, Replicating!ReportedReplicaIsWhole
  <2>3. ValidatedInv'
    BY <1>1, <1>2 DEF ValidatedInv
  <2>4. Replicating!AnswersComeFromWhole'
    BY <1>1, <1>2, ZenonT(30) DEF Replicating!AnswersComeFromWhole, Replicating!Nearest
  <2> QED
    BY <2>1, <2>2, <2>3, <2>4
<1>3. search \in [Searches -> Srch] /\ (search[q].pc # "idle" => search[q].of \in Sealed)
      /\ selected \in Sealed \cup {Nobody}
  BY DEF Replicating!TypeOK, ValidatedInv, Srch
<1>4. ASSUME NEW domain \in SUBSET Replicating!Keys, Replicating!Open(q, domain) PROVE ReplicaInv'
  <2> DEFINE s == [pc |-> "check", of |-> selected, domain |-> domain, answer |-> {}]
  <2>1. s \in Srch
    BY <1>3 DEF Srch
  <2> QED
    BY <1>2, <1>3, <1>4, <2>1 DEF Replicating!Open
<1>5. ASSUME NEW next \in {"query", "refused", "answered"}, NEW answer_ \in SUBSET Replicating!Keys, search[q].pc # "idle",
             Replicating!Turns(q, next, answer_)
      PROVE  /\ search' \in [Searches -> Srch] /\ search'[q].pc = next /\ search'[q].of = search[q].of
             /\ search'[q].domain = search[q].domain /\ search'[q].answer = answer_
             /\ \A other \in Searches \ {q} : search'[other] = search[other]
  BY <1>3, <1>5, ZenonT(30) DEF Replicating!Turns, Srch
<1>6. CASE Replicating!Check(q)
  <2>1. search'[q].pc = "query" => Replicating!CountsAgree(search[q].of)
    BY <1>3, <1>5, <1>6 DEF Replicating!Check
  <2> QED
    BY <1>2, <1>3, <1>5, <1>6, <2>1, CountedIsComplete DEF Replicating!Check
<1>7. CASE Replicating!Search(q)
  <2>1. PICK matches \in Replicating!Replies(search[q].of, search[q].domain) :
         IF \A k \in matches : k \in search[q].domain /\ Replicating!Genuine(search[q].of, k)
         THEN Replicating!Turns(q, "answered", matches) ELSE Replicating!Turns(q, "refused", {})
    BY <1>7 DEF Replicating!Search
  <2>2. search[q].pc = "query"
    BY <1>7 DEF Replicating!Search
  <2>3. CASE \A k \in matches : k \in search[q].domain /\ Replicating!Genuine(search[q].of, k)
    <3>1. matches \in SUBSET Replicating!Keys
      BY <2>3 DEF Replicating!Genuine
    <3> QED
      BY <1>2, <1>3, <1>5, <1>7, <2>1, <2>2, <2>3, <3>1, AnswerIsNearest
  <2>4. CASE ~ \A k \in matches : k \in search[q].domain /\ Replicating!Genuine(search[q].of, k)
    BY <1>2, <1>3, <1>5, <2>1, <2>2, <2>4
  <2> QED
    BY <2>3, <2>4
<1>8. CASE Replicating!Unreachable(q)
  BY <1>2, <1>3, <1>5, <1>8 DEF Replicating!Unreachable
<1>9. CASE Replicating!Close(q)
  <2>1. Replicating!NoSearch \in Srch /\ Replicating!NoSearch.pc = "idle"
    BY DEF Replicating!NoSearch, Srch
  <2> QED
    BY <1>2, <1>3, <1>9, <2>1 DEF Replicating!Close
<1> QED
  <2>1. {k \in Replicating!Keys : k % 2 = 0} \in SUBSET Replicating!Keys
    OBVIOUS
  <2> QED
    BY <1>4, <1>6, <1>7, <1>8, <1>9, <2>1 DEF Replicating!Reader

\* Changes by others, and selections without a network.
LEMMA OthersStep ==
    ASSUME ReplicaInv, NEW g \in Sealed, Replicating!Select(g) \/ Replicating!Tamper(g)
    PROVE  ReplicaInv'
<1> USE ReplicaNumbers DEF ReplicaInv
<1>1. CASE Replicating!Select(g)
  <2>1. UNCHANGED <<remote, command, ready, backend, search, tampered, tampers>> /\ selected' \in Sealed
    BY <1>1 DEF Replicating!Select, Replicating!Local
  <2> QED
    BY <2>1 DEF Replicating!TypeOK, CommandInv, UntouchedInv, ValidatedInv, Replicating!ReportedReplicaIsWhole,
          Replicating!AnswersComeFromWhole, Replicating!Nearest
<1>2. CASE Replicating!Tamper(g)
  <2>1. /\ UNCHANGED <<backend, selected, command, search, ready>> /\ tampered' = tampered \cup {g} /\ tampers' \in 0 .. MaxTampers
        /\ \A other \in Sealed \ {g} : remote'[other] = remote[other]
    BY <1>2 DEF Replicating!Tamper, Replicating!TypeOK
  <2>2. remote' \in [Sealed -> [Replicating!Slots -> Replicating!Records]]
    <3>1. remote \in [Sealed -> [Replicating!Slots -> Replicating!Records]]
      BY DEF Replicating!TypeOK
    <3>2. PICK replica \in [Replicating!Slots -> Replicating!Records] : remote' = [remote EXCEPT ![g] = replica]
      <4>1. CASE remote' = [remote EXCEPT ![g] = Replicating!NoReplica]
        BY <4>1, ReplicaValues
      <4>2. CASE \E k \in Replicating!Slots, value \in {"absent", "altered", "unscoped"} :
                   remote' = [remote EXCEPT ![g][k] = value]
        <5>1. PICK k \in Replicating!Slots, value \in {"absent", "altered", "unscoped"} :
                 remote' = [remote EXCEPT ![g] = [remote[g] EXCEPT ![k] = value]]
          BY <4>2
        <5>2. [remote[g] EXCEPT ![k] = value] \in [Replicating!Slots -> Replicating!Records]
          BY <3>1 DEF Replicating!Records
        <5> QED
          BY <5>1, <5>2
      <4> QED
        BY <1>2, <4>1, <4>2 DEF Replicating!Tamper
    <3> QED
      BY <3>1, <3>2
  <2>3. Replicating!TypeOK'
    BY <2>1, <2>2 DEF Replicating!TypeOK
  <2>4. CommandInv' /\ UntouchedInv'
    BY <2>1 DEF CommandInv, UntouchedInv
  <2>5. ValidatedInv'
    BY <2>1 DEF ValidatedInv, CommandInv
  <2>6. Replicating!ReportedReplicaIsWhole' /\ Replicating!AnswersComeFromWhole'
    BY <2>1 DEF Replicating!ReportedReplicaIsWhole, Replicating!AnswersComeFromWhole, Replicating!Nearest,
          Replicating!TypeOK
  <2> QED
    BY <2>3, <2>4, <2>5, <2>6
<1> QED
  BY <1>1, <1>2

LEMMA ReplicaStep == ReplicaInv /\ [Replicating!Next]_ofReplicas => ReplicaInv'
<1> SUFFICES ASSUME ReplicaInv, [Replicating!Next]_ofReplicas PROVE ReplicaInv'
  OBVIOUS
<1>1. CASE UNCHANGED ofReplicas
  BY <1>1 DEF ofReplicas, ReplicaInv, Replicating!TypeOK, CommandInv, UntouchedInv, ValidatedInv,
        Replicating!ReportedReplicaIsWhole, Replicating!AnswersComeFromWhole, Replicating!Nearest
<1> QED
  BY <1>1, CommandReports, ReaderStep, OthersStep DEF Replicating!Next

(***************************************************************************)
(* The root of a generation store: who holds which lock over which root.   *)
(***************************************************************************)

StorePositions == {"new", "absent", "inspected", "admitting", "locking", "owning", "adopting", "furnishing",
                   "waiting", "entering", "entered", "publishing", "pinning", "reading", "serving",
                   "done", "refused", "failed", "dead"}

\* Who holds which lock, and what is in the root meanwhile.  What a process has
\* found before it waits is still so in the first directory; in one that has
\* taken its place it may not be.
HoldersInv ==
    \A p \in Starting!Processes :
        /\ at[p] \in {"owning", "adopting", "furnishing"} => publishLock = p
        /\ at[p] \in {"owning", "adopting"} => ~owned /\ "foreign" \notin strange
        /\ at[p] = "adopting" => root > 1
        /\ at[p] = "furnishing" => owned
        /\ at[p] \in {"waiting", "entering"} => (owned /\ furnished) \/ root > 1
        /\ at[p] \in {"entered", "publishing"} => owned /\ furnished
        /\ at[p] \in {"entering", "entered", "publishing"} => writerLock = p \/ root > 1
        /\ at[p] = "reading" => owned \/ root > 1

\* A server furnishes and seeds the directory that it has made, which is the first.
SeedersInv ==
    \A s \in Executions :
        /\ mine[s] \in {0, 1}
        /\ at[s] = "locking" => owned \/ root > 1 \/ mine[s] # 0
        /\ at[s] \in {"owning", "furnishing"} => mine[s] = root /\ root # 0
        /\ at[s] = "publishing" => mine[s] = root /\ root # 0 /\ pointer = Nobody
        /\ at[s] = "entered" => mine[s] \in {0, root}

\* A lock file gets into a directory that is no store only by replacement.
LockFileInv == ".writer.lock" \in strange => root > 1

StartInv == Starting!TypeOK /\ HoldersInv /\ SeedersInv /\ LockFileInv /\ Starting!RootsAreRecoverable

LEMMA StartNames ==
    /\ Executions \cap Importers = {} /\ Nobody \notin Executions \cup Importers
    /\ Nobody \notin Imports \cup {Seed} /\ MaxRoots \in Nat \ {0}
    /\ Starting!Processes = Executions \cup Importers
BY PartsAssumption DEF Starting!BootstrapAssumption, Starting!Processes

LEMMA StoreStarts == Starting!Init => StartInv
<1> SUFFICES ASSUME Starting!Init PROVE StartInv
  OBVIOUS
<1> USE StartNames
<1>a. root \in 0 .. MaxRoots /\ strange \subseteq {"foreign"} /\ pointer \in Imports \cup {Nobody}
  BY DEF Starting!Init
<1>c. owned \in BOOLEAN /\ (owned = FALSE => pointer = Nobody) /\ (owned = TRUE => strange = {})
  BY DEF Starting!Init
<1>1. /\ root \in 0 .. MaxRoots /\ pointer \in Imports \cup {Nobody}
      /\ pointer # Nobody => owned
      /\ "foreign" \in strange => ~owned
      /\ ".writer.lock" \notin strange
      /\ owned \in BOOLEAN /\ strange \subseteq {"foreign", ".writer.lock"}
  BY <1>a, <1>c
<1>2. interrupted = FALSE /\ furnished = owned /\ publishLock = Nobody /\ writerLock = Nobody
  BY DEF Starting!Init
<1>3. at \in [Starting!Processes -> {"new"}] /\ mine \in [Executions -> {0}] /\ served \in [Executions -> {Nobody}]
  BY DEF Starting!Init
<1>4. Starting!TypeOK
  <2>1. {owned, interrupted, furnished} \subseteq BOOLEAN
    BY <1>1, <1>2
  <2>2. pointer \in Imports \cup {Seed, Nobody} /\ {publishLock, writerLock} \subseteq Starting!Processes \cup {Nobody}
    BY <1>1, <1>2
  <2>3. at \in [Starting!Processes -> StorePositions]
        /\ mine \in [Executions -> 0 .. MaxRoots] /\ served \in [Executions -> Imports \cup {Seed, Nobody}]
    BY <1>3 DEF StorePositions
  <2> QED
    BY <1>1, <2>1, <2>2, <2>3 DEF Starting!TypeOK, StorePositions
<1>5. (\A p \in Starting!Processes : at[p] = "new") /\ \A s \in Executions : mine[s] = 0
  BY DEF Starting!Init
<1> QED
  BY <1>1, <1>2, <1>4, <1>5 DEF StartInv, HoldersInv, SeedersInv, LockFileInv, Starting!RootsAreRecoverable

\* A step of one process that leaves the store alone: at its new position it
\* holds what belongs to it.
LEMMA MoveKeeps ==
    ASSUME StartInv, NEW p \in Starting!Processes, Starting!TypeOK',
           \A q \in Starting!Processes \ {p} : at'[q] = at[q],
           UNCHANGED <<root, owned, furnished, pointer, mine>>,
           "foreign" \in strange' <=> "foreign" \in strange,
           ".writer.lock" \in strange' => ".writer.lock" \in strange \/ root > 1,
           interrupted' => interrupted \/ "foreign" \notin strange,
           publishLock' = publishLock \/ publishLock \in {p, Nobody},
           writerLock' = writerLock \/ writerLock \in {p, Nobody},
           at'[p] \in {"owning", "adopting", "furnishing"} => publishLock' = p,
           at'[p] \in {"owning", "adopting"} => ~owned /\ "foreign" \notin strange,
           at'[p] = "adopting" => root > 1,
           at'[p] = "furnishing" => owned,
           at'[p] \in {"waiting", "entering"} => (owned /\ furnished) \/ root > 1,
           at'[p] \in {"entered", "publishing"} => owned /\ furnished,
           at'[p] \in {"entering", "entered", "publishing"} => writerLock' = p \/ root > 1,
           at'[p] = "reading" => owned \/ root > 1,
           p \in Executions =>
             /\ at'[p] = "locking" => owned \/ root > 1 \/ mine[p] # 0
             /\ at'[p] \in {"owning", "furnishing"} => mine[p] = root /\ root # 0
             /\ at'[p] = "publishing" => mine[p] = root /\ root # 0 /\ pointer = Nobody
             /\ at'[p] = "entered" => mine[p] \in {0, root},
           p \in Importers /\ at'[p] = "refused" => "foreign" \in strange \/ root > 1
    PROVE  StartInv'
<1> USE StartNames
<1>1. HoldersInv'
  BY DEF StartInv, HoldersInv
<1>2. SeedersInv'
  BY DEF StartInv, SeedersInv
<1>3. Starting!RootsAreRecoverable' /\ LockFileInv'
  BY DEF StartInv, LockFileInv, Starting!RootsAreRecoverable
<1> QED
  BY <1>1, <1>2, <1>3 DEF StartInv

\* What a process finds under .publish.lock decides its next position.
LEMMA AdmittedWhere ==
    ASSUME NEW initialize \in BOOLEAN, NEW to \in {"refused", "waiting", "entered", "serving"}
    PROVE  LET next == Starting!Admitted(initialize, to)
           IN  /\ next \in {"refused", "owning", "adopting", "furnishing", to}
               /\ next = "owning" => initialize /\ ~owned /\ strange = {}
               /\ next = "adopting" => ~initialize /\ ~owned /\ strange = {}
               /\ next = "furnishing" => initialize /\ owned
               /\ next = to /\ to # "refused" => owned /\ furnished
               /\ next = "refused" /\ to # "refused" => strange # {} \/ (~initialize /\ ~furnished)
BY DEF Starting!Admitted

\* StorePositions and locks keep their types when one process moves.
LEMMA MovesAreTyped ==
    ASSUME Starting!TypeOK, NEW p \in Starting!Processes, NEW next \in StorePositions, at' = [at EXCEPT ![p] = next],
           root' \in 0 .. MaxRoots, owned' \in BOOLEAN, interrupted' \in BOOLEAN, furnished' \in BOOLEAN,
           strange' \subseteq {"foreign", ".writer.lock"}, pointer' \in Imports \cup {Seed, Nobody},
           publishLock' \in {publishLock, p, Nobody}, writerLock' \in {writerLock, p, Nobody},
           mine' \in [Executions -> 0 .. MaxRoots], served' \in [Executions -> Imports \cup {Seed, Nobody}]
    PROVE  Starting!TypeOK' /\ at'[p] = next /\ \A q \in Starting!Processes \ {p} : at'[q] = at[q]
<1>1. at' \in [Starting!Processes -> StorePositions] /\ at'[p] = next /\ \A q \in Starting!Processes \ {p} : at'[q] = at[q]
  BY DEF Starting!TypeOK, StorePositions
<1>2. {publishLock', writerLock'} \subseteq Starting!Processes \cup {Nobody}
  BY DEF Starting!TypeOK
<1> QED
  BY <1>1, <1>2 DEF Starting!TypeOK, StorePositions

LEMMA StoreTypes ==
    ASSUME Starting!TypeOK
    PROVE  /\ root \in 0 .. MaxRoots /\ owned \in BOOLEAN /\ interrupted \in BOOLEAN /\ furnished \in BOOLEAN
           /\ strange \subseteq {"foreign", ".writer.lock"} /\ pointer \in Imports \cup {Seed, Nobody}
           /\ mine \in [Executions -> 0 .. MaxRoots] /\ served \in [Executions -> Imports \cup {Seed, Nobody}]
           /\ at \in [Starting!Processes -> StorePositions] /\ publishLock \in Starting!Processes \cup {Nobody}
           /\ writerLock \in Starting!Processes \cup {Nobody}
BY DEF Starting!TypeOK, StorePositions

\* Every step of a process, and a directory taking the place of the root, keeps it.
LEMMA StoreStep == StartInv /\ [Starting!Next]_ofStart => StartInv'
<1> SUFFICES ASSUME StartInv, [Starting!Next]_ofStart PROVE StartInv'
  OBVIOUS
<1> USE StartNames DEF Starting!storeVars, Starting!lockVars, Starting!serverVars, Starting!Goto
<1>t. Starting!TypeOK /\ HoldersInv /\ SeedersInv /\ LockFileInv /\ Starting!RootsAreRecoverable
  BY DEF StartInv
<1>v. /\ root \in 0 .. MaxRoots /\ owned \in BOOLEAN /\ interrupted \in BOOLEAN /\ furnished \in BOOLEAN
      /\ strange \subseteq {"foreign", ".writer.lock"} /\ pointer \in Imports \cup {Seed, Nobody}
      /\ mine \in [Executions -> 0 .. MaxRoots] /\ served \in [Executions -> Imports \cup {Seed, Nobody}]
      /\ at \in [Starting!Processes -> StorePositions] /\ publishLock \in Starting!Processes \cup {Nobody}
      /\ writerLock \in Starting!Processes \cup {Nobody}
  BY <1>t, StoreTypes
\* A server on its way to the store.
<1>1. ASSUME NEW s \in Executions, NEW next \in {"absent", "pinning", "inspected", "admitting", "locking", "reading", "refused"},
             at' = [at EXCEPT ![s] = next], UNCHANGED <<root, owned, interrupted, furnished, strange, pointer,
                                                        publishLock, writerLock, mine, served>>,
             next = "locking" => owned \/ mine[s] # 0, next = "reading" => owned
      PROVE  StartInv'
  <2>1. next \in StorePositions
    BY DEF StorePositions
  <2>2. Starting!TypeOK' /\ at'[s] = next /\ \A q \in Starting!Processes \ {s} : at'[q] = at[q]
    BY <1>1, <1>t, <1>v, <2>1, MovesAreTyped
  <2> QED
    BY <1>1, <2>2, MoveKeeps
<1>2. ASSUME NEW s \in Executions, Starting!LookForRoot(s) \/ Starting!InspectSeed(s) \/ Starting!LookAtRoot(s) PROVE StartInv'
  BY <1>1, <1>2 DEF Starting!LookForRoot, Starting!InspectSeed, Starting!LookAtRoot, Starting!Initializes
<1>3. ASSUME NEW s \in Executions, Starting!MakeRoot(s) PROVE StartInv'
  <2>1. CASE root # 0
    BY <1>1, <1>3, <2>1 DEF Starting!MakeRoot
  <2>2. CASE root = 0
    <3>1. /\ at' = [at EXCEPT ![s] = "admitting"] /\ root' = 1 /\ mine' = [mine EXCEPT ![s] = 1] /\ at[s] = "inspected"
          /\ UNCHANGED <<owned, interrupted, furnished, strange, pointer, publishLock, writerLock, served>>
      BY <1>3, <2>2 DEF Starting!MakeRoot
    <3>2. "admitting" \in StorePositions /\ mine' \in [Executions -> 0 .. MaxRoots] /\ root' \in 0 .. MaxRoots
      BY <1>v, <3>1 DEF StorePositions
    <3>3. Starting!TypeOK' /\ at'[s] = "admitting" /\ \A q \in Starting!Processes \ {s} : at'[q] = at[q]
      BY <1>t, <1>v, <3>1, <3>2, MovesAreTyped
    <3>4. HoldersInv'
      BY <1>t, <2>2, <3>1, <3>3 DEF HoldersInv
    <3>5. SeedersInv'
      BY <1>t, <1>v, <2>2, <3>1, <3>3 DEF SeedersInv
    <3> QED
      BY <1>t, <2>2, <3>1, <3>3, <3>4, <3>5 DEF StartInv, LockFileInv, Starting!RootsAreRecoverable
  <2> QED
    BY <2>1, <2>2
<1>4. ASSUME NEW p \in Starting!Processes, Starting!Request(p) PROVE StartInv'
  <2>1. /\ at' = [at EXCEPT ![p] = "locking"] /\ root' \in 0 .. MaxRoots /\ p \in Importers /\ p \notin Executions
        /\ root' = (IF root = 0 THEN 1 ELSE root)
        /\ UNCHANGED <<owned, interrupted, furnished, strange, pointer, publishLock, writerLock, mine, served>>
    BY <1>4, <1>v DEF Starting!Request
  <2>2. "locking" \in StorePositions
    BY DEF StorePositions
  <2>3. Starting!TypeOK' /\ at'[p] = "locking" /\ \A q \in Starting!Processes \ {p} : at'[q] = at[q]
    BY <1>t, <1>v, <2>1, <2>2, MovesAreTyped
  <2>4. HoldersInv'
    BY <1>t, <2>1, <2>3 DEF HoldersInv
  <2>5. SeedersInv'
    BY <1>t, <2>1, <2>3 DEF SeedersInv
  <2> QED
    BY <1>t, <2>1, <2>3, <2>4, <2>5 DEF StartInv, LockFileInv, Starting!RootsAreRecoverable
<1>5. ASSUME NEW p \in Starting!Processes, Starting!Admit(p) PROVE StartInv'
  <2> DEFINE next == IF Starting!IsExpected(p) THEN Starting!Admitted(Starting!Initializes(p), "waiting") ELSE "refused"
  <2>1. /\ at[p] = "locking" /\ publishLock = Nobody /\ at' = [at EXCEPT ![p] = next]
        /\ publishLock' = IF next \in {"owning", "adopting", "furnishing"} THEN p ELSE Nobody
        /\ interrupted' = (interrupted \/ next \in {"owning", "adopting"})
        /\ UNCHANGED <<root, owned, furnished, strange, pointer, writerLock, mine, served>>
    BY <1>5 DEF Starting!Admit, Starting!UnderLock
  <2>2. /\ next \in {"refused", "owning", "adopting", "furnishing", "waiting"}
        /\ next = "owning" => Starting!Initializes(p) /\ Starting!IsExpected(p) /\ ~owned /\ strange = {}
        /\ next = "adopting" => ~Starting!Initializes(p) /\ ~owned /\ strange = {}
        /\ next = "furnishing" => Starting!Initializes(p) /\ Starting!IsExpected(p) /\ owned
        /\ next = "waiting" => owned /\ furnished
        /\ next = "refused" /\ Starting!IsExpected(p) /\ Starting!Initializes(p) => strange # {}
    <3>1. Starting!Initializes(p) \in BOOLEAN
      BY DEF Starting!Initializes
    <3>2. CASE Starting!IsExpected(p)
      BY <3>1, <3>2, AdmittedWhere
    <3>3. CASE ~Starting!IsExpected(p)
      BY <3>3
    <3> QED
      BY <3>2, <3>3
  <2>3. /\ p \in Executions /\ next \in {"owning", "furnishing"} => mine[p] = root /\ root # 0
        /\ next = "adopting" => root > 1
        /\ p \in Importers /\ next = "refused" => "foreign" \in strange \/ root > 1
    BY <1>t, <1>v, <2>1, <2>2 DEF SeedersInv, LockFileInv, Starting!Initializes, Starting!IsExpected
  <2>4. next \in StorePositions
    BY <2>2 DEF StorePositions
  <2> HIDE DEF next
  <2>5. Starting!TypeOK' /\ at'[p] = next /\ \A q \in Starting!Processes \ {p} : at'[q] = at[q]
    BY <1>t, <1>v, <2>1, <2>4, MovesAreTyped
  <2> QED
    BY <2>1, <2>2, <2>3, <2>5, MoveKeeps
<1>6. ASSUME NEW p \in Starting!Processes, Starting!Own(p) PROVE StartInv'
  <2> DEFINE next == IF at[p] = "owning" THEN "furnishing" ELSE "refused"
  <2>1. /\ at[p] \in {"owning", "adopting"} /\ at' = [at EXCEPT ![p] = next] /\ owned' = TRUE /\ interrupted' = FALSE
        /\ UNCHANGED <<root, furnished, strange, pointer, mine, served>>
        /\ publishLock' \in {publishLock, Nobody} /\ (next = "furnishing" => publishLock' = publishLock)
        /\ writerLock' \in {writerLock, Nobody} /\ (writerLock' # writerLock => writerLock = p)
    BY <1>6 DEF Starting!Own, Starting!Release
  <2>2. next \in StorePositions
    BY DEF StorePositions
  <2>3. Starting!TypeOK' /\ at'[p] = next /\ \A q \in Starting!Processes \ {p} : at'[q] = at[q]
    BY <1>t, <1>v, <2>1, <2>2, MovesAreTyped
  <2>4. publishLock = p /\ "foreign" \notin strange /\ ~owned /\ (at[p] = "adopting" => root > 1)
    BY <1>t, <2>1 DEF HoldersInv
  <2>5. \A q \in Starting!Processes \ {p} : at[q] \notin {"owning", "adopting", "furnishing"}
    BY <1>t, <2>4 DEF HoldersInv
  <2>6. HoldersInv'
    BY <1>t, <1>v, <2>1, <2>3, <2>4, <2>5 DEF HoldersInv
  <2>7. SeedersInv'
    BY <1>t, <1>v, <2>1, <2>3, <2>4, <2>5 DEF SeedersInv
  <2> QED
    BY <1>t, <2>1, <2>3, <2>4, <2>6, <2>7 DEF StartInv, LockFileInv, Starting!RootsAreRecoverable
<1>7. ASSUME NEW p \in Starting!Processes, Starting!Furnish(p) PROVE StartInv'
  <2>1. /\ at[p] = "furnishing" /\ at' = [at EXCEPT ![p] = "waiting"] /\ furnished' = TRUE /\ publishLock' = Nobody
        /\ UNCHANGED <<root, owned, interrupted, strange, pointer, writerLock, mine, served>>
    BY <1>7 DEF Starting!Furnish
  <2>2. "waiting" \in StorePositions
    BY DEF StorePositions
  <2>3. Starting!TypeOK' /\ at'[p] = "waiting" /\ \A q \in Starting!Processes \ {p} : at'[q] = at[q]
    BY <1>t, <1>v, <2>1, <2>2, MovesAreTyped
  <2>4. publishLock = p /\ owned
    BY <1>t, <2>1 DEF HoldersInv
  <2>5. HoldersInv'
    BY <1>t, <2>1, <2>3, <2>4 DEF HoldersInv
  <2>6. SeedersInv'
    BY <1>t, <2>1, <2>3 DEF SeedersInv
  <2> QED
    BY <1>t, <2>1, <2>3, <2>4, <2>5, <2>6 DEF StartInv, LockFileInv, Starting!RootsAreRecoverable
<1>8. ASSUME NEW p \in Starting!Processes, Starting!LockWriter(p) PROVE StartInv'
  <2>1. PICK next \in {"entering", "refused"} :
          /\ at' = [at EXCEPT ![p] = next] /\ writerLock' = (IF next = "entering" THEN p ELSE writerLock)
          /\ next = "entering" => owned
          /\ next = "refused" => ~owned \/ ~Starting!IsExpected(p)
    BY <1>8 DEF Starting!LockWriter
  <2>2. /\ at[p] = "waiting" /\ writerLock = Nobody
        /\ strange' = (IF owned THEN strange ELSE strange \cup {".writer.lock"})
        /\ UNCHANGED <<root, owned, interrupted, furnished, pointer, publishLock, mine, served>>
    BY <1>8 DEF Starting!LockWriter
  <2>3. (owned /\ furnished) \/ root > 1
    BY <1>t, <2>2 DEF HoldersInv
  <2>4. next \in StorePositions /\ strange' \subseteq {"foreign", ".writer.lock"}
    BY <1>v, <2>2 DEF StorePositions
  <2>5. Starting!TypeOK' /\ at'[p] = next /\ \A q \in Starting!Processes \ {p} : at'[q] = at[q]
    BY <1>t, <1>v, <2>1, <2>2, <2>4, MovesAreTyped
  <2>6. p \in Importers /\ next = "refused" => root > 1
    BY <2>1, <2>3 DEF Starting!IsExpected
  <2> QED
    BY <2>1, <2>2, <2>3, <2>5, <2>6, MoveKeeps
<1>9. ASSUME NEW p \in Starting!Processes, Starting!Enter(p) PROVE StartInv'
  <2> DEFINE next == IF Starting!IsExpected(p) THEN Starting!Admitted(FALSE, "entered") ELSE "refused"
  <2>1. /\ at[p] = "entering" /\ publishLock = Nobody /\ at' = [at EXCEPT ![p] = next]
        /\ publishLock' = IF next \in {"owning", "adopting", "furnishing"} THEN p ELSE Nobody
        /\ interrupted' = (interrupted \/ next \in {"owning", "adopting"})
        /\ writerLock' = (IF writerLock = p /\ next = "refused" THEN Nobody ELSE writerLock)
        /\ UNCHANGED <<root, owned, furnished, strange, pointer, mine, served>>
    BY <1>9 DEF Starting!Enter, Starting!UnderLock
  <2>2. /\ next \in {"refused", "adopting", "entered"}
        /\ next = "adopting" => ~owned /\ strange = {}
        /\ next = "entered" => owned /\ furnished /\ Starting!IsExpected(p)
        /\ next = "refused" /\ Starting!IsExpected(p) => strange # {} \/ ~furnished
    BY AdmittedWhere
  <2>3. /\ (owned /\ furnished) \/ root > 1
        /\ writerLock = p \/ root > 1
    BY <1>t, <2>1 DEF HoldersInv
  <2>4. p \in Importers /\ next = "refused" => "foreign" \in strange \/ root > 1
    BY <1>t, <1>v, <2>2, <2>3 DEF LockFileInv, Starting!IsExpected
  <2>5. p \in Executions /\ next = "entered" => mine[p] \in {0, root}
    BY <2>2 DEF Starting!IsExpected
  <2>6. next \in StorePositions
    BY <2>2 DEF StorePositions
  <2> HIDE DEF next
  <2>7. Starting!TypeOK' /\ at'[p] = next /\ \A q \in Starting!Processes \ {p} : at'[q] = at[q]
    BY <1>t, <1>v, <2>1, <2>6, MovesAreTyped
  <2> QED
    BY <2>1, <2>2, <2>3, <2>4, <2>5, <2>7, MoveKeeps
<1>10. ASSUME NEW p \in Starting!Processes, Starting!Decide(p) PROVE StartInv'
  <2>1. PICK next \in {"publishing", "pinning", "refused"} :
          /\ at' = [at EXCEPT ![p] = next]
          /\ writerLock' = (IF writerLock = p /\ next # "publishing" THEN Nobody ELSE writerLock)
          /\ p \in Importers => next = "publishing"
          /\ p \in Executions /\ next = "publishing" => pointer = Nobody /\ mine[p] # 0
    BY <1>10 DEF Starting!Decide
  <2>2. at[p] = "entered" /\ UNCHANGED <<root, owned, interrupted, furnished, strange, pointer, publishLock, mine, served>>
    BY <1>10 DEF Starting!Decide
  <2>3. /\ owned /\ furnished /\ (writerLock = p \/ root > 1)
        /\ p \in Executions => mine[p] \in {0, root}
    BY <1>t, <2>2 DEF HoldersInv, SeedersInv
  <2>4. next \in StorePositions
    BY DEF StorePositions
  <2>5. Starting!TypeOK' /\ at'[p] = next /\ \A q \in Starting!Processes \ {p} : at'[q] = at[q]
    BY <1>t, <1>v, <2>1, <2>2, <2>4, MovesAreTyped
  <2> QED
    BY <2>1, <2>2, <2>3, <2>5, MoveKeeps
<1>11. ASSUME NEW p \in Starting!Processes, NEW g \in Imports \cup {Seed}, Starting!Select(p, g) PROVE StartInv'
  <2> DEFINE next == IF p \in Executions THEN "pinning" ELSE "done"
  <2>1. /\ at[p] = "publishing" /\ at' = [at EXCEPT ![p] = next] /\ pointer' = g
        /\ publishLock' = publishLock /\ writerLock' = (IF writerLock = p THEN Nobody ELSE writerLock)
        /\ UNCHANGED <<root, owned, interrupted, furnished, strange, mine, served>>
    BY <1>11 DEF Starting!Select, Starting!Release
  <2>2. next \in StorePositions /\ next \in {"pinning", "done"}
    BY DEF StorePositions
  <2> HIDE DEF next
  <2>3. Starting!TypeOK' /\ at'[p] = next /\ \A q \in Starting!Processes \ {p} : at'[q] = at[q]
    BY <1>t, <1>v, <2>1, <2>2, MovesAreTyped
  <2>4. owned /\ furnished /\ (writerLock = p \/ root > 1)
    BY <1>t, <2>1 DEF HoldersInv
  <2>5. HoldersInv'
    BY <1>t, <2>1, <2>2, <2>3 DEF HoldersInv
  \* Whoever seeds is in the first directory, and there the writer is alone.
  <2>6. \A q \in Executions \ {p} : at[q] # "publishing"
    BY <1>t, <1>v, <2>4 DEF HoldersInv, SeedersInv
  <2>7. SeedersInv'
    BY <1>t, <2>1, <2>2, <2>3, <2>6 DEF SeedersInv
  <2> QED
    BY <1>t, <2>1, <2>2, <2>3, <2>4, <2>5, <2>7 DEF StartInv, LockFileInv, Starting!RootsAreRecoverable
<1>12. ASSUME NEW s \in Executions, Starting!Serve(s) PROVE StartInv'
  <2> DEFINE next == Starting!Admitted(FALSE, IF pointer # Nobody THEN "serving" ELSE "refused")
  <2>1. /\ at[s] = "reading" /\ publishLock = Nobody /\ at' = [at EXCEPT ![s] = next]
        /\ publishLock' = IF next \in {"owning", "adopting", "furnishing"} THEN s ELSE Nobody
        /\ interrupted' = (interrupted \/ next \in {"owning", "adopting"})
        /\ \E g \in {pointer, Nobody} : served' = [served EXCEPT ![s] = g]
        /\ UNCHANGED <<root, owned, furnished, strange, pointer, writerLock, mine>>
    BY <1>12 DEF Starting!Serve, Starting!UnderLock
  <2>2. next \in {"refused", "adopting", "serving"} /\ (next = "adopting" => ~owned /\ strange = {})
    BY AdmittedWhere
  <2>3. next = "adopting" => root > 1
    BY <1>t, <2>1, <2>2 DEF HoldersInv
  <2> HIDE DEF next
  <2>4. next \in StorePositions
    BY <2>2 DEF StorePositions
  <2>a. served' \in [Executions -> Imports \cup {Seed, Nobody}]
    BY <1>v, <2>1
  <2>5. Starting!TypeOK' /\ at'[s] = next /\ \A q \in Starting!Processes \ {s} : at'[q] = at[q]
    BY <1>t, <1>v, <2>1, <2>4, <2>a, MovesAreTyped
  <2> QED
    BY <2>1, <2>2, <2>3, <2>5, MoveKeeps
<1>13. ASSUME NEW p \in Starting!Processes, Starting!Fail(p) PROVE StartInv'
  <2>1. PICK next \in {"dead", "failed"} : at' = [at EXCEPT ![p] = next] /\ (interrupted' => interrupted) /\ interrupted' \in BOOLEAN
    <3>1. CASE at' = [at EXCEPT ![p] = "dead"] /\ UNCHANGED interrupted
      BY <3>1, <1>v
    <3>2. CASE /\ at' = [at EXCEPT ![p] = "failed"]
               /\ interrupted' = (interrupted /\ at[p] \notin {"owning", "adopting"})
      BY <3>2, <1>v
    <3> QED
      BY <1>13, <3>1, <3>2 DEF Starting!Fail
  <2>2. /\ UNCHANGED <<root, owned, furnished, strange, pointer, mine, served>>
        /\ publishLock' = (IF publishLock = p THEN Nobody ELSE publishLock)
        /\ writerLock' = (IF writerLock = p THEN Nobody ELSE writerLock)
    BY <1>13 DEF Starting!Fail, Starting!Release
  <2>3. next \in StorePositions
    BY DEF StorePositions
  <2>4. Starting!TypeOK' /\ at'[p] = next /\ \A q \in Starting!Processes \ {p} : at'[q] = at[q]
    BY <1>t, <1>v, <2>1, <2>2, <2>3, MovesAreTyped
  <2> QED
    BY <2>1, <2>2, <2>4, MoveKeeps
<1>14. ASSUME NEW p \in Starting!Processes, Starting!Restart(p) PROVE StartInv'
  <2>1. /\ at' = [at EXCEPT ![p] = "new"] /\ UNCHANGED <<root, owned, interrupted, furnished, strange, pointer, publishLock, writerLock>>
        /\ mine' \in [Executions -> 0 .. MaxRoots] /\ served' \in [Executions -> Imports \cup {Seed, Nobody}]
        /\ \A s \in Executions : mine'[s] = (IF s = p THEN 0 ELSE mine[s])
    <3>1. CASE p \in Executions
      BY <1>14, <1>v, <3>1 DEF Starting!Restart
    <3>2. CASE p \notin Executions
      BY <1>14, <1>v, <3>2 DEF Starting!Restart
    <3> QED
      BY <3>1, <3>2
  <2>2. "new" \in StorePositions
    BY DEF StorePositions
  <2>3. Starting!TypeOK' /\ at'[p] = "new" /\ \A q \in Starting!Processes \ {p} : at'[q] = at[q]
    BY <1>t, <1>v, <2>1, <2>2, MovesAreTyped
  <2>4. HoldersInv'
    BY <1>t, <2>1, <2>3 DEF HoldersInv
  <2>5. SeedersInv'
    BY <1>t, <2>1, <2>3 DEF SeedersInv
  <2> QED
    BY <1>t, <2>1, <2>3, <2>4, <2>5 DEF StartInv, LockFileInv, Starting!RootsAreRecoverable
<1>15. CASE Starting!Replace
  <2>1. /\ root' = root + 1 /\ root' \in 0 .. MaxRoots /\ root' > 1 /\ pointer' = Nobody /\ owned' = FALSE
        /\ interrupted' = FALSE /\ furnished' = FALSE /\ strange' \subseteq {"foreign"} /\ writerLock' = Nobody
        /\ \A p \in Starting!Processes : at[p] \notin {"owning", "adopting", "furnishing", "entered", "publishing"}
        /\ UNCHANGED <<publishLock, at, mine, served>>
    BY <1>15, <1>v DEF Starting!Replace
  <2>2. Starting!TypeOK'
    BY <1>t, <2>1 DEF Starting!TypeOK
  <2>3. HoldersInv'
    BY <1>t, <2>1 DEF HoldersInv
  <2>4. SeedersInv'
    BY <1>t, <2>1 DEF SeedersInv
  <2> QED
    BY <2>1, <2>2, <2>3, <2>4 DEF StartInv, LockFileInv, Starting!RootsAreRecoverable
<1>16. CASE UNCHANGED ofStart
  BY <1>16, <1>t DEF ofStart, Starting!TypeOK, StartInv, HoldersInv, SeedersInv, LockFileInv, Starting!RootsAreRecoverable
<1> QED
  BY <1>2, <1>3, <1>4, <1>5, <1>6, <1>7, <1>8, <1>9, <1>10, <1>11, <1>12, <1>13, <1>14, <1>15, <1>16 DEF Starting!Next

\* A server that changes the store furnishes or seeds what it has made; an owner
\* record of it goes there, or into a directory that has taken a store's place.
LEMMA ServersSeedTheirOwn == StartInv /\ [Starting!Next]_ofStart => Starting!SeedsItsOwn
<1> SUFFICES ASSUME StartInv, [Starting!Next]_ofStart, NEW s \in Executions, at[s] # at'[s]
             PROVE  /\ <<furnished, pointer>> # <<furnished', pointer'>> => pointer = Nobody /\ root # 0 /\ mine[s] = root
                    /\ owned # owned' => /\ pointer = Nobody /\ root # 0
                                         /\ mine[s] = root \/ (root > 1 /\ "foreign" \notin strange)
  BY DEF Starting!SeedsItsOwn
<1> USE StartNames DEF Starting!storeVars, Starting!lockVars, Starting!serverVars, Starting!Goto
<1>v. /\ HoldersInv /\ SeedersInv /\ Starting!RootsAreRecoverable /\ at \in [Starting!Processes -> StorePositions]
      /\ owned \in BOOLEAN /\ furnished \in BOOLEAN
  BY StoreTypes DEF StartInv
<1>1. ~ UNCHANGED ofStart /\ ~ Starting!Replace
  BY DEF ofStart, Starting!Replace
<1>2. PICK p \in Starting!Processes :
        \/ UNCHANGED <<owned, furnished, pointer>>
        \/ Starting!Own(p) \/ Starting!Furnish(p) \/ \E g \in Imports \cup {Seed} : Starting!Select(p, g)
  BY <1>1 DEF Starting!Next, Starting!LookForRoot, Starting!InspectSeed, Starting!MakeRoot, Starting!LookAtRoot, Starting!Serve,
     Starting!Request, Starting!Admit, Starting!LockWriter, Starting!Enter, Starting!Decide, Starting!Fail, Starting!Restart
<1>3. CASE UNCHANGED <<owned, furnished, pointer>>
  BY <1>3
<1>4. CASE Starting!Own(p)
  <2>1. p = s /\ at[s] \in {"owning", "adopting"} /\ UNCHANGED <<furnished, pointer>>
    BY <1>4, <1>v DEF Starting!Own
  <2> QED
    BY <2>1, <1>v DEF HoldersInv, SeedersInv, Starting!RootsAreRecoverable
<1>5. CASE Starting!Furnish(p)
  <2>1. p = s /\ at[s] = "furnishing" /\ furnished' = TRUE /\ UNCHANGED <<owned, pointer>>
    BY <1>5, <1>v DEF Starting!Furnish
  <2> QED
    BY <2>1, <1>v DEF SeedersInv, Starting!RootsAreRecoverable
<1>6. ASSUME NEW g \in Imports \cup {Seed}, Starting!Select(p, g)
      PROVE  p = s /\ at[s] = "publishing" /\ UNCHANGED <<owned, furnished>>
  BY <1>6, <1>v DEF Starting!Select
<1> QED
  BY <1>2, <1>3, <1>4, <1>5, <1>6, <1>v DEF SeedersInv

(***************************************************************************)
(* All of them: a behaviour of MCLocal is one of the part that it began    *)
(* in, and actions are always in a state of their own invariant.           *)
(***************************************************************************)

LocalInv ==
    /\ ActionInv
    /\ part = "setup" => SetupInv
    /\ part = "profile" => PinningInv
    /\ part = "index" => IndexInv
    /\ part = "replica" => ReplicaInv
    /\ part = "removal" => StagesInv /\ PInv
    /\ part = "bootstrap" => StartInv

LEMMA LocalStarts == LocalInit => LocalInv
<1>1. RemovalInit => PInv
  BY RemovalTypeInit DEF PInv, RemovalInit, ProvenInv
<1> QED
  BY <1>1, ActionsStart, SetupStarts, PinningStarts, IndexStarts, ReplicaStarts, StagesStart, StoreStarts
     DEF LocalInit, Begin, LocalInv

\* A step is one of the part that runs.
LEMMA LocalStep ==
    ASSUME [LocalNext]_localVars
    PROVE  /\ part' = part /\ [Next]_vars
           /\ part = "setup" => [Setup!Next]_ofSetup
           /\ part = "profile" => [Pinning!Next]_ofPinning
           /\ part = "index" => [Indexing!Next]_ofIndexing
           /\ part = "replica" => [Replicating!Next]_ofReplicas
           /\ part = "removal" => [RemovalNext]_removalVars
           /\ part = "bootstrap" => [Starting!Next]_ofStart
<1>1. CASE InAction(Next)
  BY <1>1 DEF InAction
<1>2. CASE InSetup(Setup!Next)
  BY <1>2 DEF InSetup
<1>3. CASE InPinning(Pinning!Next)
  BY <1>3 DEF InPinning
<1>4. CASE InIndexing(Indexing!Next)
  BY <1>4 DEF InIndexing
<1>5. CASE InReplicas(Replicating!Next)
  BY <1>5 DEF InReplicas
<1>6. CASE InRemoval(RemovalNext)
  BY <1>6 DEF InRemoval
<1>7. CASE InStart(Starting!Next)
  BY <1>7 DEF InStart
<1>8. CASE UNCHANGED localVars
  BY <1>8 DEF localVars, ofStore
<1> QED
  BY <1>1, <1>2, <1>3, <1>4, <1>5, <1>6, <1>7, <1>8 DEF LocalNext

LEMMA LocalKeeps == LocalInv /\ [LocalNext]_localVars => LocalInv'
BY LocalStep, ActionStep, SetupStep, PinningStep, IndexStep, ReplicaStep, StagesStep, ProvenStep, StoreStep DEF LocalInv

\* Every reachable state satisfies the invariants of its part.
THEOREM LocalInvariance == LocalSpec => []LocalInv
BY LocalStarts, LocalKeeps, PTL DEF LocalSpec

\* Every variable of every part keeps its type.
THEOREM LocalTypes == LocalSpec => []LocalTypeOK
<1>1. LocalInv => LocalTypeOK
  BY ActionTypes DEF LocalInv, LocalTypeOK, SetupInv, PinningInv, IndexInv, ReplicaInv, PInv, StartInv
<1> QED
  BY <1>1, LocalInvariance, PTL

\* A saved config stands for an answer to the very policies that its operator
\* has seen, beside its profile; a ready index has its rules; a replica that is
\* reported ready is whole, and searches answer from such replicas.
THEOREM ReadySafety == LocalSpec => []ReadyMeansWhole
<1>1. LocalInv => ReadyMeansWhole
  BY DEF LocalInv, ReadyMeansWhole, SetupInv, IndexInv, ReplicaInv
<1> QED
  BY <1>1, LocalInvariance, PTL

\* What killed processes leave behind is reclaimed or recovered from.
THEOREM LeftoverSafety == LocalSpec => []LeftoversAreReclaimed
<1>1. DirectoryInv => TrashIsReclaimed /\ ObjectsAreWhole
  BY DEF DirectoryInv, TrashInv, ObjectInv, TrashIsReclaimed, ObjectsAreWhole
<1>2. StagesInv => StagesAreReclaimed
  BY DEF StagesInv, MarkedInv, Stages, Undecided, StagesAreReclaimed
<1>3. LocalInv => LeftoversAreReclaimed
  BY <1>1, <1>2 DEF LocalInv, LeftoversAreReclaimed, StagesInv, StartInv
<1> QED
  BY <1>3, LocalInvariance, PTL

\* No step of setup, of a profile's update, of a removal or of a hosted server
\* that starts takes away what somebody else had made, changed or selected when
\* it last looked.  Not claimed: an edit of a profile between that look and the
\* unlink or replacement, and the owner record that an empty directory gets
\* when it has taken the place of a store.
THEOREM EditSafety == LocalSpec => EditsAreKept
<1>1. ASSUME LocalInv, [LocalNext]_localVars
      PROVE  /\ part = "setup" => Setup!ForeignFilesStay
             /\ part = "profile" => Pinning!AsReviewed
             /\ part = "removal" => PreservesChanges
             /\ part = "bootstrap" => Starting!SeedsItsOwn
  BY <1>1, LocalStep, ForeignFilesAreKept, UpdatesAreAsReviewed, ProvenStep, ServersSeedTheirOwn DEF LocalInv
<1> QED
  BY <1>1, LocalInvariance, PTL DEF LocalSpec, EditsAreKept

\* The evidence of actions stays true beside all of this.
THEOREM LocalEvidence == LocalSpec => []EvidenceIsTrue
<1>1. LocalInv => EvidenceIsTrue
  BY EvidenceFollows DEF LocalInv
<1> QED
  BY <1>1, LocalInvariance, PTL

=============================================================================
