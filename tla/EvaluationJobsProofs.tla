------------------------ MODULE EvaluationJobsProofs ------------------------
(***************************************************************************)
(* Proofs about EvaluationJobs, for any number of jobs, workers and cases, *)
(* any call budget, and workers that crash or are stopped as they like:    *)
(* a job is owned by one worker or waits prepaid, the outcomes of the two  *)
(* databases and the report agree, a terminal job is final, and no case is *)
(* evaluated twice.                                                        *)
(***************************************************************************)
EXTENDS EvaluationJobs, FiniteSetTheorems, TLAPS

(***************************************************************************)
(* The inductive invariant.                                                *)
(***************************************************************************)

Codes == {"none", "worker_stopped"}

\* The types, and that a worker that has not started has nothing to do.
Types ==
    /\ job \in [Jobs -> JobRow]
    /\ accepted \in Seq(Jobs)
    /\ archives \subseteq Generations
    /\ quota \in [Jobs -> {"none", "waiting", "active"} \cup Outcomes]
    /\ live \subseteq Jobs
    /\ capture \in Jobs \cup {NoJob} /\ exported \in BOOLEAN /\ writer \in {NoJob, capture}
    /\ cancelling \in [Jobs -> {"none", "finish", "mark"}]
    /\ lock \in Workers \cup {NoWorker}
    /\ pc \in [Workers -> Positions]
    /\ at \in [Workers -> Jobs \cup {NoJob}]
    /\ kind \in [Workers -> {"none"} \cup ErrorKinds \cup SuccessKinds]
    /\ todo \in [Workers -> SUBSET Jobs]
    /\ \A w \in Workers : pc[w] = "new" => todo[w] = {}
    /\ stopping \subseteq Workers /\ paused \subseteq Workers
    /\ late \subseteq Jobs
    /\ begun \subseteq Jobs \X (1 .. NCases) /\ effects \subseteq begun

\* A worker that has started and not ended holds the kernel lock.
LockInv == \A w \in Workers : pc[w] \notin {"new", "off"} => lock = w

\* The row of a job, its prepaid acceptance and what was done for it: unstarted
\* work is charged, the running case is the next one and its calls are counted
\* above active_case_start_attempts, and what has ended accounts for it.
RowInv(j) ==
    /\ job[j].token # NoWorker <=> job[j].state = "running"
    /\ job[j].active => job[j].state = "running"
    /\ job[j].state = "none" => quota[j] \in {"none", "waiting"} /\ j \notin live
    /\ job[j].state # "none" => quota[j] # "none"
    /\ job[j].state = "queued" => quota[j] = "waiting" /\ job[j].done = 0 /\ job[j].attempts = 0
    /\ job[j].state \in {"none", "queued"} => \A c \in 1 .. NCases : <<j, c>> \notin begun
    /\ job[j].state = "running" =>
        \A c \in 1 .. NCases : <<j, c>> \in begun => c <= job[j].done \/ (c = job[j].done + 1 /\ job[j].active)
    /\ job[j].state = "running" =>
        \A c \in 1 .. NCases : <<j, c>> \in effects /\ c > job[j].done =>
            job[j].active /\ job[j].attempts > job[j].start
    /\ IsTerminal(j) => \A c \in 1 .. NCases : <<j, c>> \in effects /\ c > job[j].done => job[j].uncertain
    /\ job[j].state = "completed" => job[j].done = NCases /\ quota[j] = "completed"
    /\ job[j].finalized => IsTerminal(j) /\ quota[j] \in Outcomes

\* What the callers that are between two commits for a job know.
CallerInv(j) ==
    /\ cancelling[j] # "none" => IsTerminal(j)
    /\ cancelling[j] = "mark" => quota[j] \in Outcomes
    /\ writer = j => job[j].state = "none" /\ quota[j] = "waiting"

InJob == {"claimed", "refused", "ready", "checked", "case", "reserved", "ended", "settled"}

\* What a worker knows at each of its positions.
WorkerInv(w) ==
    /\ \A k \in todo[w] : IsTerminal(k)
    /\ pc[w] \in {"recovered", "mark"} => \A k \in Jobs : job[k].state # "running"
    /\ pc[w] \in InJob =>
        /\ at[w] \in Jobs /\ job[at[w]].state = "running" /\ job[at[w]].token = w
        /\ \A k \in Jobs \ {at[w]} : job[k].state # "running"
    /\ pc[w] \in {"claimed", "refused"} =>
        /\ quota[at[w]] = "waiting"
        /\ job[at[w]].done = 0 /\ job[at[w]].attempts = 0 /\ ~job[at[w]].active
        /\ \A c \in 1 .. NCases : <<at[w], c>> \notin begun
    /\ Executing(w) => quota[at[w]] = "active" /\ at[w] \in live
    /\ pc[w] \in {"checked", "case", "reserved"} => job[at[w]].done < NCases
    /\ pc[w] \in {"case", "reserved"} => job[at[w]].active /\ <<at[w], job[at[w]].done + 1>> \in begun
    /\ pc[w] = "case" => job[at[w]].attempts >= job[at[w]].start
    /\ pc[w] = "reserved" =>
        /\ job[at[w]].attempts > job[at[w]].start
        /\ <<at[w], job[at[w]].done + 1>> \in effects => job[at[w]].attempts > job[at[w]].start + 1
    /\ pc[w] \in {"ended", "settled"} /\ kind[w] \in SuccessKinds => job[at[w]].done = NCases
    /\ pc[w] = "settled" /\ kind[w] = "success" => quota[at[w]] = "completed"
    /\ pc[w] \in {"mark", "markOwn"} => at[w] \in Jobs /\ IsTerminal(at[w]) /\ quota[at[w]] \in Outcomes
    /\ pc[w] = "finalize" => at[w] \in Jobs

JobsInv == \A j \in Jobs : RowInv(j) /\ CallerInv(j)
WorkersInv == \A w \in Workers : pc[w] \notin {"new", "off"} => WorkerInv(w)

IInv == Types /\ LockInv /\ JobsInv /\ WorkersInv

(***************************************************************************)
(* Rows.                                                                   *)
(***************************************************************************)

\* What a row becomes when it ends, whatever else is in it ...
Ended(row, old, state) ==
    /\ row \in JobRow
    /\ row.state = state
    /\ row.token = NoWorker
    /\ ~row.active
    /\ row.done = old.done
    /\ row.finalized <=> old.finalized

\* ... with its active case in the report if that may have reached a provider.
Reported(row, old) == old.active /\ old.attempts > old.start => row.uncertain

\* What _finish_report makes of a row that has not ended and leaves nothing
\* uncertain.
LEMMA FinishSettled ==
    ASSUME NEW old \in JobRow, old.state \in {"queued", "running"},
           NEW state \in TerminalStates, NEW code \in Codes
    PROVE  Ended(Finish(old, state, code, FALSE), old, state)
<1>1. old.state \notin TerminalStates
  BY DEF TerminalStates
<1>2. QED
  BY <1>1 DEF Ended, Finish, JobRow, Codes

\* The same for a row whose active case may have reached a provider.
LEMMA FinishReported ==
    ASSUME NEW old \in JobRow, old.state \in {"queued", "running"},
           NEW state \in TerminalStates, NEW code \in Codes
    PROVE  /\ Ended(Finish(old, state, code, TRUE), old, state)
           /\ Reported(Finish(old, state, code, TRUE), old)
<1> DEFINE sent == old.active /\ old.attempts > old.start
           r == [old EXCEPT !.state = state, !.code = code, !.active = FALSE, !.token = NoWorker,
                            !.uncertain = sent]
<1>1. sent \in BOOLEAN /\ old.state \notin TerminalStates
  BY DEF TerminalStates
<1>2. Finish(old, state, code, TRUE) = r
  BY <1>1 DEF Finish
<1> HIDE DEF sent
<1>3. Ended(r, old, state) /\ (sent => r.uncertain)
  BY <1>1 DEF Ended, JobRow, Codes
<1> HIDE DEF r
<1>4. QED
  BY <1>2, <1>3 DEF sent, Reported

\* A deferred row goes back to the queue as it was, or ends.
LEMMA DeferFact ==
    ASSUME NEW j \in Jobs, job[j] \in JobRow, job[j].state = "running", NEW code \in Codes
    PROVE  \E r \in JobRow :
              /\ r = Defer(j, code)
              /\ r.state \in {"queued", "cancelled", "deadline_exceeded"}
              /\ r.token = NoWorker
              /\ r.done = job[j].done
              /\ r.finalized <=> job[j].finalized
              /\ r.state = "queued" => r.attempts = job[j].attempts /\ (r.active <=> job[j].active)
              /\ r.state # "queued" => ~r.active
<1>1. CASE job[j].cancel
  <2>1. PICK r : r = Finish(job[j], "cancelled", "none", FALSE)
    OBVIOUS
  <2>2. Ended(r, job[j], "cancelled")
    BY <2>1, FinishSettled DEF TerminalStates, Codes
  <2>3. QED
    BY <1>1, <2>1, <2>2 DEF Defer, Ended
<1>2. CASE ~job[j].cancel /\ j \in late
  <2>1. PICK r : r = Finish(job[j], "deadline_exceeded", "none", FALSE)
    OBVIOUS
  <2>2. Ended(r, job[j], "deadline_exceeded")
    BY <2>1, FinishSettled DEF TerminalStates, Codes
  <2>3. QED
    BY <1>2, <2>1, <2>2 DEF Defer, Ended
<1>3. CASE ~job[j].cancel /\ j \notin late
  <2> DEFINE r == [job[j] EXCEPT !.state = "queued", !.token = NoWorker, !.deferred = TRUE, !.code = code]
  <2>1. Defer(j, code) = r
    BY <1>3 DEF Defer
  <2>2. /\ r \in JobRow /\ r.state = "queued" /\ r.token = NoWorker /\ r.done = job[j].done
        /\ (r.finalized <=> job[j].finalized) /\ r.attempts = job[j].attempts
        /\ (r.active <=> job[j].active)
    BY DEF JobRow, Codes
  <2> HIDE DEF r
  <2>3. QED
    BY <2>1, <2>2
<1>4. QED
  BY <1>1, <1>2, <1>3

\* Recovery settles the operations of dead owners and nothing else.
LEMMA RecoveredFact ==
    ASSUME Types
    PROVE  /\ RecoveredQuota \in [Jobs -> {"none", "waiting", "active"} \cup Outcomes]
           /\ \A j \in Jobs : quota[j] # "active" \/ j \in live => RecoveredQuota[j] = quota[j]
           /\ \A j \in Jobs : quota[j] = "active" /\ j \notin live => RecoveredQuota[j] = "interrupted"
BY DEF Types, RecoveredQuota, Outcomes

\* Finalization settles, beside those, the acceptance of its own job.
LEMMA FinalizedFact ==
    ASSUME Types, NEW j \in Jobs, IsTerminal(j)
    PROVE  /\ FinalizedQuota(j) \in [Jobs -> {"none", "waiting", "active"} \cup Outcomes]
           /\ \A k \in Jobs \ {j} : FinalizedQuota(j)[k] = RecoveredQuota[k]
           /\ quota[j] = "waiting" => FinalizedQuota(j)[j] \in Outcomes
           /\ quota[j] # "waiting" => FinalizedQuota(j)[j] = RecoveredQuota[j]
           /\ quota[j] = "waiting" /\ job[j].state = "completed" => FinalizedQuota(j)[j] = "completed"
<1>1. OutcomeOf(job[j].state) \in Outcomes
  BY DEF OutcomeOf, Outcomes
<1>2. CASE quota[j] = "waiting"
  BY <1>1, <1>2, RecoveredFact DEF FinalizedQuota, OutcomeOf, Types
<1>3. CASE quota[j] # "waiting"
  BY <1>3, RecoveredFact DEF FinalizedQuota, Types, Outcomes
<1>4. QED
  BY <1>2, <1>3

\* Whatever a worker decides, its job ends in a terminal state: after a
\* success with nothing uncertain, and otherwise with what it may have sent.
LEMMA ConcludedFact ==
    ASSUME Types, NEW w \in Workers
    PROVE  \E state \in TerminalStates, code \in Codes :
              \/ /\ kind[w] \in SuccessKinds
                 /\ Concluded(w) = Finish(job[at[w]], state, code, FALSE)
                 /\ state = "completed" => kind[w] = "success"
              \/ /\ kind[w] \notin SuccessKinds /\ state # "completed"
                 /\ Concluded(w) = Finish(job[at[w]], state, code, TRUE)
<1>1. ErrorState(w) \in TerminalStates \ {"completed"} /\ ErrorCode(w) \in Codes
  BY DEF ErrorState, ErrorCode, TerminalStates, Codes
<1>2. CASE kind[w] = "success"
  BY <1>2 DEF Concluded, TerminalStates, Codes, SuccessKinds
<1>3. CASE kind[w] = "successCancelled"
  BY <1>3 DEF Concluded, TerminalStates, Codes, SuccessKinds
<1>4. CASE kind[w] = "successInterrupted"
  BY <1>4 DEF Concluded, TerminalStates, Codes, SuccessKinds
<1>5. CASE kind[w] \notin SuccessKinds
  BY <1>1, <1>5 DEF Concluded, SuccessKinds
<1>6. QED
  BY <1>2, <1>3, <1>4, <1>5 DEF SuccessKinds

(***************************************************************************)
(* What steps leave alone.                                                 *)
(***************************************************************************)

\* How the outcome of a job's operation moves when no worker moves it: a
\* submission prepays, recovery settles what has no owner, and finalization
\* what has ended.
QuotaMoves(j) ==
    \/ quota'[j] = quota[j]
    \/ quota[j] = "none" /\ job[j].state = "none" /\ quota'[j] = "waiting"
    \/ quota[j] = "active" /\ j \notin live /\ quota'[j] = "interrupted"
    \/ quota[j] = "waiting" /\ IsTerminal(j) /\ quota'[j] \in Outcomes

\* A row that is not written, and about which no more is done, stays sound.
LEMMA KeepRow ==
    ASSUME NEW j \in Jobs, RowInv(j), job'[j] = job[j], QuotaMoves(j), j \in live' => j \in live,
           \A c \in 1 .. NCases : <<j, c>> \in begun' => <<j, c>> \in begun,
           \A c \in 1 .. NCases : <<j, c>> \in effects' => <<j, c>> \in effects
    PROVE  RowInv(j)'
BY DEF RowInv, QuotaMoves, IsTerminal, TerminalStates, Outcomes

\* Callers keep what they know while others work.
LEMMA KeepCaller ==
    ASSUME NEW j \in Jobs, CallerInv(j),
           cancelling'[j] \in {"none", cancelling[j]}, writer' \in {NoJob, writer},
           IsTerminal(j) => IsTerminal(j)',
           quota[j] \in Outcomes => quota'[j] = quota[j],
           job[j].state = "none" /\ quota[j] = "waiting" => job'[j].state = "none" /\ quota'[j] = "waiting"
    PROVE  CallerInv(j)'
BY ParametersAssumption DEF CallerInv

\* An outcome stays, and what waits for a job that has not ended or is done
\* under a lease is left alone.
LEMMA QuotaMovesFact ==
    ASSUME NEW j \in Jobs, QuotaMoves(j)
    PROVE  /\ quota[j] \in Outcomes => quota'[j] = quota[j]
           /\ quota[j] = "waiting" /\ ~IsTerminal(j) => quota'[j] = "waiting"
           /\ quota[j] = "active" /\ j \in live => quota'[j] = "active"
BY DEF QuotaMoves, Outcomes

\* What callers, retention and time do to a job that a worker may be on: it
\* keeps its row but for the cancellation flag, and a terminal one stays so.
Untouched(j) ==
    /\ IsTerminal(j) => IsTerminal(j)'
    /\ job'[j].state = "running" <=> job[j].state = "running"
    /\ job[j].state = "running" =>
        /\ job'[j].token = job[j].token /\ job'[j].done = job[j].done
        /\ job'[j].attempts = job[j].attempts /\ job'[j].start = job[j].start
        /\ job'[j].active <=> job[j].active
    /\ QuotaMoves(j)

\* A worker keeps what it knows while others work.
LEMMA KeepWorker ==
    ASSUME Types, NEW w \in Workers, WorkerInv(w),
           \A j \in Jobs : Untouched(j),
           pc' = pc, at' = at, kind' = kind, todo' = todo, begun' = begun, effects' = effects,
           Executing(w) => at[w] \in live'
    PROVE  WorkerInv(w)'
<1>1. \A k \in todo'[w] : IsTerminal(k)'
  BY DEF WorkerInv, Untouched, Types
<1>2. (pc[w] \in {"recovered", "mark"} => \A k \in Jobs : job[k].state # "running")'
  BY DEF WorkerInv, Untouched
<1>3. CASE pc[w] \in InJob
  <2>1. PICK j \in Jobs : j = at[w]
    BY <1>3 DEF WorkerInv
  <2>2. Untouched(j) /\ QuotaMoves(j) /\ ~IsTerminal(j)
    BY <1>3, <2>1 DEF Untouched, WorkerInv, IsTerminal, TerminalStates
  <2>3. /\ job'[j].state = "running" /\ job'[j].token = w
        /\ \A k \in Jobs \ {j} : job'[k].state # "running"
    BY <1>3, <2>1, <2>2 DEF WorkerInv, Untouched
  <2>4. /\ quota[j] = "waiting" => quota'[j] = "waiting"
        /\ quota[j] = "active" /\ j \in live => quota'[j] = "active"
        /\ quota[j] = "completed" => quota'[j] = "completed"
    BY <2>2, QuotaMovesFact DEF Outcomes
  <2>5. /\ job'[j].done = job[j].done /\ job'[j].attempts = job[j].attempts
        /\ job'[j].start = job[j].start
        /\ job'[j].active <=> job[j].active
    BY <1>3, <2>1, <2>2 DEF Untouched, WorkerInv
  <2>6. (pc[w] \in {"claimed", "refused"} =>
            /\ quota[at[w]] = "waiting"
            /\ job[at[w]].done = 0 /\ job[at[w]].attempts = 0 /\ ~job[at[w]].active
            /\ \A c \in 1 .. NCases : <<at[w], c>> \notin begun)'
    BY <2>1, <2>4, <2>5 DEF WorkerInv
  <2>7. (Executing(w) => quota[at[w]] = "active" /\ at[w] \in live)'
    BY <2>1, <2>4 DEF WorkerInv, Executing
  <2>8. (/\ pc[w] \in {"checked", "case", "reserved"} => job[at[w]].done < NCases
         /\ pc[w] \in {"case", "reserved"} => job[at[w]].active /\ <<at[w], job[at[w]].done + 1>> \in begun
         /\ pc[w] = "case" => job[at[w]].attempts >= job[at[w]].start
         /\ pc[w] = "reserved" =>
             /\ job[at[w]].attempts > job[at[w]].start
             /\ <<at[w], job[at[w]].done + 1>> \in effects => job[at[w]].attempts > job[at[w]].start + 1
         /\ pc[w] \in {"ended", "settled"} /\ kind[w] \in SuccessKinds => job[at[w]].done = NCases)'
    BY <2>1, <2>5 DEF WorkerInv
  <2>9. QED
    BY <1>1, <1>2, <1>3, <2>1, <2>3, <2>4, <2>6, <2>7, <2>8 DEF WorkerInv, InJob
<1>4. CASE pc[w] \in {"mark", "markOwn"}
  BY <1>1, <1>2, <1>4, QuotaMovesFact DEF WorkerInv, InJob, Executing, Untouched
<1>5. CASE pc[w] \notin InJob \cup {"mark", "markOwn"}
  BY <1>1, <1>2, <1>5 DEF WorkerInv, InJob, Executing
<1>6. QED
  BY <1>3, <1>4, <1>5

\* Only one worker has started and not ended, so a step of a worker disturbs
\* what that worker knows and no other.
LEMMA OneWorker ==
    ASSUME Types, LockInv, NEW w \in Workers, pc[w] \notin {"new", "off"},
           NEW to, pc' = [pc EXCEPT ![w] = to], lock' = lock, WorkerInv(w)'
    PROVE  LockInv' /\ WorkersInv'
<1>1. lock = w /\ \A v \in Workers \ {w} : pc'[v] \in {"new", "off"}
  BY DEF LockInv, Types
<1>2. QED
  BY <1>1 DEF LockInv, WorkersInv

\* Recovery and finalization move operations as QuotaMoves says.
LEMMA RecoveryMoves ==
    ASSUME Types, quota' = RecoveredQuota
    PROVE  quota' \in [Jobs -> {"none", "waiting", "active"} \cup Outcomes] /\ \A j \in Jobs : QuotaMoves(j)
BY RecoveredFact DEF QuotaMoves, Types

LEMMA FinalizationMoves ==
    ASSUME Types, NEW j \in Jobs, IsTerminal(j), quota' = FinalizedQuota(j)
    PROVE  /\ quota' \in [Jobs -> {"none", "waiting", "active"} \cup Outcomes]
           /\ \A k \in Jobs : QuotaMoves(k)
<1>1. \A k \in Jobs \ {j} : QuotaMoves(k)
  BY RecoveredFact, FinalizedFact DEF QuotaMoves, Types
<1>2. QuotaMoves(j)
  BY RecoveredFact, FinalizedFact DEF QuotaMoves, Types
<1>3. QED
  BY <1>1, <1>2, FinalizedFact

\* A job that has ended and is finalized has its outcome, unless its operation
\* is still going on.
LEMMA FinalizationEnds ==
    ASSUME Types, NEW j \in Jobs, IsTerminal(j), RowInv(j), quota' = FinalizedQuota(j)
    PROVE  quota'[j] = "active" \/ quota'[j] \in Outcomes
<1>1. quota[j] # "none"
  BY DEF RowInv, IsTerminal, TerminalStates
<1>2. quota[j] # "waiting" => quota'[j] = RecoveredQuota[j]
  BY FinalizedFact
<1>3. quota[j] = "waiting" => quota'[j] \in Outcomes
  BY FinalizedFact
<1>4. QED
  BY <1>1, <1>2, <1>3 DEF RecoveredQuota, Outcomes, Types

\* A step that no worker takes leaves the workers as they are.
LEMMA Calm ==
    ASSUME IInv, UNCHANGED <<lock, pc, at, kind, todo, begun, effects>>,
           \A j \in Jobs : Untouched(j),
           \A w \in Workers : Executing(w) => at[w] \in live'
    PROVE  LockInv' /\ WorkersInv'
<1>1. LockInv'
  BY DEF IInv, LockInv
<1>2. ASSUME NEW w \in Workers, pc[w] \notin {"new", "off"} PROVE WorkerInv(w)'
  BY <1>2, KeepWorker DEF IInv, WorkersInv
<1>3. QED
  BY <1>1, <1>2 DEF WorkersInv

\* Where the rows stay as they are, every job is untouched.
LEMMA RowsStay ==
    ASSUME job' = job, \A j \in Jobs : QuotaMoves(j)
    PROVE  \A j \in Jobs : Untouched(j)
BY DEF Untouched, IsTerminal

\* The worker that executes a job holds its lease.
LEMMA Leases ==
    ASSUME IInv, NEW w \in Workers, Executing(w)
    PROVE  at[w] \in live
BY DEF IInv, WorkersInv, WorkerInv, Executing

(***************************************************************************)
(* The steps of callers, retention and time.                               *)
(***************************************************************************)

LEMMA BeginCaptureKeeps ==
    ASSUME IInv, NEW j \in Jobs, BeginCapture(j) \/ AbortSubmit(j)
    PROVE  IInv'
<1>1. Types'
  BY DEF BeginCapture, AbortSubmit, IInv, Types, storeVars, quotaVars, workerVars, historyVars
<1>2. UNCHANGED <<job, quota, live, cancelling, begun, effects, lock, pc, at, kind, todo>>
  BY DEF BeginCapture, AbortSubmit, storeVars, quotaVars, workerVars, historyVars
<1>3. writer' \in {NoJob, writer}
  BY DEF BeginCapture, AbortSubmit
<1>4. \A k \in Jobs : QuotaMoves(k)
  BY <1>2 DEF QuotaMoves
<1>5. JobsInv'
  BY <1>2, <1>3, <1>4, KeepRow, KeepCaller DEF JobsInv, IInv, IsTerminal
<1>6. QED
  BY <1>1, <1>2, <1>4, <1>5, RowsStay, Leases, Calm DEF IInv

LEMMA AcceptWorkKeeps ==
    ASSUME IInv, NEW j \in Jobs, AcceptWork(j)
    PROVE  IInv'
<1>1. UNCHANGED <<job, live, cancelling, begun, effects, lock, pc, at, kind, todo>>
  BY DEF AcceptWork, storeVars, quotaVars, workerVars, historyVars
<1>2. /\ quota' \in [Jobs -> {"none", "waiting", "active"} \cup Outcomes]
      /\ \A k \in Jobs : QuotaMoves(k)
      /\ quota'[j] = "waiting"
  <2>1. CASE quota[j] = "none"
    BY <2>1, RecoveredFact DEF AcceptWork, QuotaMoves, IInv, Types
  <2>2. CASE quota[j] # "none"
    <3>1. quota' = RecoveredQuota
      BY <2>2 DEF AcceptWork
    <3>2. quota[j] = "waiting"
      BY <2>2 DEF AcceptWork, IInv, JobsInv, RowInv
    <3>3. QED
      BY <3>1, <3>2, RecoveryMoves, RecoveredFact DEF IInv
  <2>3. QED
    BY <2>1, <2>2
<1>3. Types'
  BY <1>2 DEF AcceptWork, IInv, Types, storeVars, quotaVars, workerVars, historyVars
<1>4. \A k \in Jobs : RowInv(k)'
  BY <1>1, <1>2, KeepRow DEF JobsInv, IInv
<1>5. \A k \in Jobs \ {j} : CallerInv(k)'
  <2> SUFFICES ASSUME NEW k \in Jobs \ {j} PROVE CallerInv(k)'
    OBVIOUS
  <2>1. QuotaMoves(k) /\ CallerInv(k)
    BY <1>2 DEF JobsInv, IInv
  <2>2. writer' # k
    BY DEF AcceptWork
  <2>3. QED
    BY <1>1, <2>1, <2>2, QuotaMovesFact DEF CallerInv, IsTerminal
<1>6. CallerInv(j)'
  <2>1. cancelling[j] = "none" /\ job[j].state = "none"
    BY DEF AcceptWork, JobsInv, IInv, CallerInv, IsTerminal, TerminalStates
  <2>2. QED
    BY <1>1, <1>2, <2>1 DEF CallerInv
<1>7. JobsInv'
  BY <1>4, <1>5, <1>6 DEF JobsInv
<1>8. QED
  BY <1>1, <1>2, <1>3, <1>7, RowsStay, Leases, Calm DEF IInv

LEMMA PublishKeeps ==
    ASSUME IInv, NEW j \in Jobs, Publish(j)
    PROVE  IInv'
<1>1. UNCHANGED <<quota, live, cancelling, begun, effects, lock, pc, at, kind, todo>>
  BY DEF Publish, quotaVars, workerVars, historyVars
<1>2. [NoJobRow EXCEPT !.state = "queued"] \in JobRow
  <2>1. 0 \in 0 .. NCases /\ 0 \in 0 .. MaxCalls
    BY ParametersAssumption
  <2>2. NoJobRow \in JobRow
    BY <2>1 DEF NoJobRow, JobRow
  <2>3. QED
    BY <2>2 DEF JobRow
<1>3. /\ job' \in [Jobs -> JobRow]
      /\ job'[j].state = "queued" /\ job'[j].token = NoWorker /\ ~job'[j].active
      /\ job'[j].done = 0 /\ job'[j].attempts = 0 /\ ~job'[j].finalized
      /\ \A k \in Jobs \ {j} : job'[k] = job[k]
  BY <1>2 DEF Publish, Put, IInv, Types, NoJobRow
<1>4. accepted' \in Seq(Jobs) /\ archives' \subseteq Generations
  BY ParametersAssumption DEF Publish, IInv, Types
<1>5. Types'
  BY <1>3, <1>4 DEF Publish, IInv, Types, quotaVars, workerVars, historyVars
<1>6. \A k \in Jobs : QuotaMoves(k)
  BY <1>1 DEF QuotaMoves
<1>7. job[j].state = "none" /\ quota[j] = "waiting" /\ cancelling[j] = "none"
  BY DEF Publish, JobsInv, IInv, CallerInv, IsTerminal, TerminalStates
<1>8. RowInv(j)'
  BY <1>1, <1>3, <1>7 DEF RowInv, JobsInv, IInv, IsTerminal, TerminalStates
<1>9. writer' # j
  BY ParametersAssumption DEF Publish
<1>10. CallerInv(j)'
  BY <1>1, <1>7, <1>9 DEF CallerInv
<1>11. \A k \in Jobs \ {j} : RowInv(k)' /\ CallerInv(k)'
  <2> SUFFICES ASSUME NEW k \in Jobs \ {j} PROVE RowInv(k)' /\ CallerInv(k)'
    OBVIOUS
  <2>1. writer' = NoJob /\ job'[k] = job[k]
    BY <1>3 DEF Publish
  <2>2. QED
    BY <1>1, <1>6, <2>1, KeepRow, KeepCaller DEF JobsInv, IInv, IsTerminal
<1>12. JobsInv'
  BY <1>8, <1>10, <1>11 DEF JobsInv
<1>13. \A k \in Jobs : Untouched(k)
  BY <1>3, <1>6, <1>7 DEF Untouched, IsTerminal, TerminalStates
<1>14. QED
  BY <1>1, <1>5, <1>12, <1>13, Leases, Calm DEF IInv

LEMMA CancelKeeps ==
    ASSUME IInv, NEW j \in Jobs, Cancel(j)
    PROVE  IInv'
<1>1. UNCHANGED <<quota, live, capture, exported, writer, begun, effects, lock, pc, at, kind, todo>>
  BY DEF Cancel, quotaVars, submitVars, workerVars, historyVars
<1>2. \A k \in Jobs : QuotaMoves(k)
  BY <1>1 DEF QuotaMoves
<1>3. job[j] \in JobRow /\ RowInv(j) /\ CallerInv(j) /\ job[j].state # "none"
  BY DEF Cancel, IInv, Types, JobsInv
<1>4. \A k \in Jobs \ {j} : job'[k] = job[k] /\ cancelling'[k] = cancelling[k]
  BY DEF Cancel, Put, IInv, Types
<1>5. /\ job' \in [Jobs -> JobRow] /\ RowInv(j)' /\ Untouched(j)
      /\ job[j].state = "queued" => IsTerminal(j)'
  <2>1. CASE job[j].state = "queued"
    <3>1. PICK row \in JobRow :
            /\ row = Finish(job[j], "cancelled", "none", FALSE)
            /\ row.state = "cancelled" /\ row.token = NoWorker
            /\ ~row.active /\ row.done = job[j].done /\ (row.finalized <=> job[j].finalized)
      <4>1. PICK r : r = Finish(job[j], "cancelled", "none", FALSE)
        OBVIOUS
      <4>2. Ended(r, job[j], "cancelled")
        BY <1>3, <2>1, <4>1, FinishSettled DEF TerminalStates, Codes
      <4>3. QED
        BY <4>1, <4>2 DEF Ended
    <3>2. job' = [job EXCEPT ![j] = row]
      BY <2>1, <3>1 DEF Cancel, Put
    <3>3. job' \in [Jobs -> JobRow] /\ job'[j] = row
      BY <3>1, <3>2 DEF IInv, Types
    <3>4. \A c \in 1 .. NCases : <<j, c>> \notin begun /\ <<j, c>> \notin effects
      BY <1>3, <2>1 DEF RowInv, IInv, Types
    <3>5. ~row.finalized /\ quota[j] = "waiting"
      BY <1>3, <2>1, <3>1 DEF RowInv, IsTerminal, TerminalStates
    <3>6. RowInv(j)'
      BY <1>1, <3>1, <3>3, <3>4, <3>5 DEF RowInv, IsTerminal, TerminalStates
    <3>7. Untouched(j)
      BY <1>2, <2>1, <3>1, <3>3 DEF Untouched, IsTerminal, TerminalStates
    <3>8. QED
      BY <3>1, <3>3, <3>6, <3>7 DEF IsTerminal, TerminalStates
  <2>2. CASE job[j].state = "running"
    <3> DEFINE row == [job[j] EXCEPT !.cancel = TRUE]
    <3>1. /\ row \in JobRow /\ row.state = "running" /\ row.token = job[j].token
          /\ (row.active <=> job[j].active) /\ row.done = job[j].done
          /\ row.attempts = job[j].attempts /\ row.start = job[j].start
          /\ (row.finalized <=> job[j].finalized)
      BY <1>3, <2>2 DEF JobRow
    <3>2. job' = [job EXCEPT ![j] = row]
      BY <2>2 DEF Cancel, Put
    <3> HIDE DEF row
    <3>3. job' \in [Jobs -> JobRow] /\ job'[j] = row
      BY <3>1, <3>2 DEF IInv, Types
    <3>4. RowInv(j)'
      BY <1>1, <1>3, <2>2, <3>1, <3>3 DEF RowInv, IsTerminal, TerminalStates
    <3>5. Untouched(j)
      BY <1>2, <2>2, <3>1, <3>3 DEF Untouched, IsTerminal, TerminalStates
    <3>6. QED
      BY <2>2, <3>3, <3>4, <3>5
  <2>3. CASE job[j].state \notin {"queued", "running"}
    <3>1. job' = job
      BY <2>3 DEF Cancel
    <3>2. QED
      BY <2>3, <1>1, <1>2, <1>3, <3>1, KeepRow, RowsStay DEF IInv, Types
  <2>4. QED
    BY <2>1, <2>2, <2>3
<1>6. cancelling' \in [Jobs -> {"none", "finish", "mark"}]
  BY DEF Cancel, IInv, Types
<1>7. Types'
  BY <1>5, <1>6 DEF Cancel, IInv, Types, quotaVars, submitVars, workerVars, historyVars
<1>8. CallerInv(j)'
  <2>1. writer # j
    BY <1>3 DEF CallerInv
  <2>2. cancelling'[j] # "mark"
    BY <1>3 DEF Cancel, CallerInv, IInv, Types, IsTerminal, TerminalStates
  <2>3. cancelling'[j] # "none" => IsTerminal(j)'
    <3>1. CASE job[j].state = "running"
      BY <1>3, <3>1 DEF Cancel, CallerInv, IsTerminal, TerminalStates
    <3>2. CASE job[j].state = "queued"
      BY <1>5, <3>2
    <3>3. CASE job[j].state \notin {"running", "queued"}
      BY <1>3, <3>3 DEF Cancel, JobRow, IsTerminal
    <3>4. QED
      BY <3>1, <3>2, <3>3
  <2>4. QED
    BY <1>1, <2>1, <2>2, <2>3 DEF CallerInv
<1>9. \A k \in Jobs \ {j} : RowInv(k)' /\ CallerInv(k)' /\ Untouched(k)
  BY <1>1, <1>2, <1>4, KeepRow, KeepCaller DEF JobsInv, IInv, IsTerminal, Untouched
<1>10. JobsInv'
  BY <1>5, <1>8, <1>9 DEF JobsInv
<1>11. \A k \in Jobs : Untouched(k)
  BY <1>5, <1>9
<1>12. QED
  BY <1>1, <1>7, <1>10, <1>11, Leases, Calm DEF IInv

LEMMA CancelFinalizesKeeps ==
    ASSUME IInv, NEW j \in Jobs, CancelFinalizes(j)
    PROVE  IInv'
<1>1. UNCHANGED <<job, live, capture, exported, writer, begun, effects, lock, pc, at, kind, todo>>
  BY DEF CancelFinalizes, storeVars, submitVars, workerVars, historyVars
<1>2. IsTerminal(j) /\ CallerInv(j) /\ RowInv(j)
  BY DEF CancelFinalizes, IInv, JobsInv, CallerInv
<1>3. quota' = FinalizedQuota(j)
  BY DEF CancelFinalizes
<1>4. /\ quota' \in [Jobs -> {"none", "waiting", "active"} \cup Outcomes]
      /\ \A k \in Jobs : QuotaMoves(k)
  BY <1>2, <1>3, FinalizationMoves DEF IInv
<1>5. quota'[j] = "active" \/ quota'[j] \in Outcomes
  BY <1>2, <1>3, FinalizationEnds DEF IInv
<1>6. /\ cancelling' \in [Jobs -> {"none", "finish", "mark"}]
      /\ \A k \in Jobs \ {j} : cancelling'[k] = cancelling[k]
      /\ cancelling'[j] = IF quota'[j] = "active" THEN "none" ELSE "mark"
  BY DEF CancelFinalizes, IInv, Types
<1>7. Types'
  BY <1>4, <1>6 DEF CancelFinalizes, IInv, Types, storeVars, submitVars, workerVars, historyVars
<1>8. \A k \in Jobs : RowInv(k)'
  BY <1>1, <1>4, KeepRow DEF JobsInv, IInv
<1>9. CallerInv(j)'
  BY <1>1, <1>2, <1>5, <1>6 DEF CallerInv, IsTerminal, TerminalStates
<1>10. \A k \in Jobs \ {j} : CallerInv(k)'
  BY <1>1, <1>4, <1>6, KeepCaller, QuotaMovesFact DEF JobsInv, IInv, IsTerminal, TerminalStates
<1>11. JobsInv'
  BY <1>8, <1>9, <1>10 DEF JobsInv
<1>12. QED
  BY <1>1, <1>4, <1>7, <1>11, RowsStay, Leases, Calm DEF IInv

\* admission_finalized is set on a job that has ended and whose operation has.
LEMMA MarkedRow ==
    ASSUME NEW j \in Jobs, job[j] \in JobRow, RowInv(j), IsTerminal(j), quota[j] \in Outcomes,
           job'[j] = [job[j] EXCEPT !.finalized = TRUE],
           UNCHANGED <<quota, live, begun, effects>>
    PROVE  job'[j] \in JobRow /\ RowInv(j)' /\ Untouched(j) /\ IsTerminal(j)'
<1>1. /\ job'[j] \in JobRow /\ job'[j].state = job[j].state /\ job'[j].token = job[j].token
      /\ (job'[j].active <=> job[j].active) /\ job'[j].done = job[j].done
      /\ (job'[j].uncertain <=> job[j].uncertain)
  BY DEF JobRow
<1>2. job'[j].state \in TerminalStates
  BY <1>1 DEF IsTerminal
<1>3. RowInv(j)'
  BY <1>1, <1>2 DEF RowInv, IsTerminal, TerminalStates
<1>4. Untouched(j)
  BY <1>1, <1>2 DEF Untouched, QuotaMoves, IsTerminal, TerminalStates
<1>5. QED
  BY <1>1, <1>2, <1>3, <1>4 DEF IsTerminal

LEMMA CancelMarksKeeps ==
    ASSUME IInv, NEW j \in Jobs, CancelMarks(j)
    PROVE  IInv'
<1>1. UNCHANGED <<quota, live, capture, exported, writer, begun, effects, lock, pc, at, kind, todo>>
  BY DEF CancelMarks, quotaVars, submitVars, workerVars, historyVars
<1>2. job[j] \in JobRow /\ RowInv(j) /\ IsTerminal(j) /\ quota[j] \in Outcomes
  BY DEF CancelMarks, IInv, Types, JobsInv, CallerInv
<1>3. /\ job'[j] = [job[j] EXCEPT !.finalized = TRUE]
      /\ \A k \in Jobs \ {j} : job'[k] = job[k]
      /\ job' = [job EXCEPT ![j] = job'[j]]
      /\ \A k \in Jobs : cancelling'[k] \in {"none", cancelling[k]}
  BY DEF CancelMarks, Put, IInv, Types
<1>4. job'[j] \in JobRow /\ RowInv(j)' /\ Untouched(j) /\ IsTerminal(j)'
  BY <1>1, <1>2, <1>3, MarkedRow
<1>5. job' \in [Jobs -> JobRow]
  BY <1>3, <1>4 DEF IInv, Types
<1>6. Types'
  BY <1>5 DEF CancelMarks, IInv, Types, quotaVars, submitVars, workerVars, historyVars
<1>7. \A k \in Jobs : QuotaMoves(k)
  BY <1>1 DEF QuotaMoves
<1>8. \A k \in Jobs \ {j} : RowInv(k)' /\ Untouched(k)
  BY <1>1, <1>3, <1>7, KeepRow DEF JobsInv, IInv, IsTerminal, Untouched
<1>9. \A k \in Jobs : CallerInv(k)'
  BY <1>1, <1>2, <1>3, <1>4, KeepCaller DEF JobsInv, IInv, IsTerminal, TerminalStates
<1>10. QED
  BY <1>1, <1>4, <1>6, <1>8, <1>9, Leases, Calm DEF JobsInv, IInv

LEMMA CancelLostKeeps ==
    ASSUME IInv, NEW j \in Jobs, CancelLost(j)
    PROVE  IInv'
<1>1. /\ UNCHANGED <<job, quota, live, writer, begun, effects, lock, pc, at, kind, todo>>
      /\ \A k \in Jobs : cancelling'[k] \in {"none", cancelling[k]}
  BY DEF CancelLost, storeVars, quotaVars, submitVars, workerVars, historyVars, IInv, Types
<1>2. Types'
  BY DEF CancelLost, IInv, Types, storeVars, quotaVars, submitVars, workerVars, historyVars
<1>3. \A k \in Jobs : QuotaMoves(k)
  BY <1>1 DEF QuotaMoves
<1>4. JobsInv'
  BY <1>1, <1>3, KeepRow, KeepCaller DEF JobsInv, IInv, IsTerminal
<1>5. QED
  BY <1>1, <1>2, <1>3, <1>4, RowsStay, Leases, Calm DEF IInv

\* Every step of a caller keeps the invariant.
LEMMA CallersKeep ==
    ASSUME IInv, NEW j \in Jobs, CallerNext(j)
    PROVE  IInv'
BY BeginCaptureKeeps, AcceptWorkKeeps, PublishKeeps, CancelKeeps, CancelFinalizesKeeps,
   CancelMarksKeeps, CancelLostKeeps DEF CallerNext

LEMMA PurgeKeeps ==
    ASSUME IInv, NEW aged \in SUBSET Jobs, Purge(aged)
    PROVE  IInv'
<1>1. UNCHANGED <<quota, live, cancelling, writer, begun, effects, lock, pc, at, kind, todo>>
  BY DEF Purge, quotaVars, submitVars, workerVars, historyVars
<1>2. \A k \in Jobs : job'[k] = [job[k] EXCEPT !.expired = @ \/ k \in aged]
  BY DEF Purge
<1>3. ASSUME NEW k \in Jobs
      PROVE  /\ job'[k] \in JobRow /\ job'[k].state = job[k].state /\ job'[k].token = job[k].token
             /\ (job'[k].active <=> job[k].active) /\ job'[k].done = job[k].done
             /\ job'[k].attempts = job[k].attempts /\ job'[k].start = job[k].start
             /\ (job'[k].uncertain <=> job[k].uncertain)
             /\ (job'[k].finalized <=> job[k].finalized)
  <2>1. PICK e \in BOOLEAN : job'[k] = [job[k] EXCEPT !.expired = e]
    <3>1. (job[k].expired \/ k \in aged) \in BOOLEAN
      OBVIOUS
    <3>2. QED
      BY <1>2, <3>1
  <2>2. job[k] \in JobRow
    BY DEF IInv, Types
  <2>3. QED
    BY <2>1, <2>2 DEF JobRow
<1>4. job' \in [Jobs -> JobRow]
  BY <1>3 DEF Purge
<1>5. archives' \subseteq Generations
  BY DEF Purge, IInv, Types
<1>6. Types'
  BY <1>4, <1>5 DEF Purge, IInv, Types, quotaVars, submitVars, workerVars, historyVars
<1>7. \A k \in Jobs : QuotaMoves(k) /\ Untouched(k)
  BY <1>1, <1>3 DEF QuotaMoves, Untouched, IsTerminal
<1>8. \A k \in Jobs : RowInv(k)'
  BY <1>1, <1>3 DEF JobsInv, IInv, RowInv, IsTerminal
<1>9. \A k \in Jobs : CallerInv(k)'
  BY <1>1, <1>3 DEF JobsInv, IInv, CallerInv, IsTerminal
<1>10. QED
  BY <1>1, <1>6, <1>7, <1>8, <1>9, Leases, Calm DEF JobsInv, IInv

LEMMA RetryDueKeeps ==
    ASSUME IInv, NEW j \in Jobs, RetryDue(j)
    PROVE  IInv'
<1>1. UNCHANGED <<quota, live, cancelling, writer, begun, effects, lock, pc, at, kind, todo>>
  BY DEF RetryDue, quotaVars, submitVars, workerVars, historyVars
<1>2. /\ job'[j] = [job[j] EXCEPT !.deferred = FALSE]
      /\ \A k \in Jobs \ {j} : job'[k] = job[k]
      /\ job' = [job EXCEPT ![j] = job'[j]]
      /\ job[j] \in JobRow
  BY DEF RetryDue, Put, IInv, Types
<1>3. /\ job'[j] \in JobRow /\ job'[j].state = job[j].state /\ job'[j].token = job[j].token
      /\ (job'[j].active <=> job[j].active) /\ job'[j].done = job[j].done
      /\ job'[j].attempts = job[j].attempts /\ job'[j].start = job[j].start
      /\ (job'[j].uncertain <=> job[j].uncertain)
      /\ (job'[j].finalized <=> job[j].finalized)
  BY <1>2, ZenonT(30) DEF JobRow
<1>4. job' \in [Jobs -> JobRow]
  BY <1>2, <1>3, ZenonT(30) DEF IInv, Types
<1>5. Types'
  BY <1>4 DEF RetryDue, IInv, Types, quotaVars, submitVars, workerVars, historyVars
<1>6. \A k \in Jobs : QuotaMoves(k) /\ Untouched(k)
  BY <1>1, <1>2, <1>3 DEF QuotaMoves, Untouched, IsTerminal
<1>7. \A k \in Jobs : RowInv(k)'
  <2>1. \A k \in Jobs \ {j} : RowInv(k)'
    BY <1>1, <1>2, <1>6, KeepRow DEF JobsInv, IInv
  <2>2. RowInv(j)'
    BY <1>1, <1>3 DEF JobsInv, IInv, RowInv, IsTerminal
  <2>3. QED
    BY <2>1, <2>2
<1>8. \A k \in Jobs : CallerInv(k)'
  <2>1. \A k \in Jobs : job'[k].state = job[k].state
    BY <1>2, <1>3
  <2>2. QED
    BY <1>1, <2>1 DEF JobsInv, IInv, CallerInv, IsTerminal
<1>9. QED
  BY <1>1, <1>5, <1>6, <1>7, <1>8, Leases, Calm DEF JobsInv, IInv

LEMMA LeasesAndTimeKeep ==
    ASSUME IInv, OtherReservation \/ \E j \in Jobs : LoseLease(j) \/ DeadlinePasses(j)
    PROVE  IInv'
<1>1. UNCHANGED <<job, cancelling, writer, begun, effects, lock, pc, at, kind, todo>>
  BY DEF OtherReservation, LoseLease, DeadlinePasses, storeVars, quotaVars, submitVars, workerVars,
         historyVars
<1>2. /\ quota' \in [Jobs -> {"none", "waiting", "active"} \cup Outcomes]
      /\ \A k \in Jobs : QuotaMoves(k)
  <2>1. CASE OtherReservation
    BY <2>1, RecoveryMoves DEF OtherReservation, IInv
  <2>2. CASE quota' = quota
    BY <2>2 DEF QuotaMoves, IInv, Types
  <2>3. QED
    BY <2>1, <2>2 DEF LoseLease, DeadlinePasses, quotaVars
<1>3. /\ live' \subseteq live
      /\ \A w \in Workers : Executing(w) => at[w] \in live'
  BY Leases DEF OtherReservation, LoseLease, DeadlinePasses, quotaVars
<1>4. late' \subseteq Jobs
  BY DEF OtherReservation, LoseLease, DeadlinePasses, IInv, Types
<1>5. Types'
  BY <1>2, <1>3, <1>4 DEF OtherReservation, LoseLease, DeadlinePasses, IInv, Types, storeVars,
     quotaVars, submitVars, workerVars, historyVars
<1>6. JobsInv'
  BY <1>1, <1>2, <1>3, KeepRow, KeepCaller, QuotaMovesFact DEF JobsInv, IInv, IsTerminal, TerminalStates
<1>7. QED
  BY <1>1, <1>2, <1>3, <1>5, <1>6, RowsStay, Calm DEF IInv

\* Retention, other services and time keep the invariant.
LEMMA EnvironmentKeeps ==
    ASSUME IInv, EnvNext
    PROVE  IInv'
BY PurgeKeeps, RetryDueKeeps, LeasesAndTimeKeep DEF EnvNext

(***************************************************************************)
(* The steps of a worker outside a job.                                    *)
(***************************************************************************)

\* Where no row and no history is written, every row stays sound.
LEMMA RowsKeep ==
    ASSUME JobsInv, UNCHANGED <<job, cancelling, writer, begun, effects>>, live' \subseteq live,
           \A j \in Jobs : QuotaMoves(j)
    PROVE  JobsInv'
BY KeepRow, KeepCaller, QuotaMovesFact DEF JobsInv, IsTerminal, TerminalStates

\* A step that goes back to the top of run_once, or stays in it.
LEMMA RestKeeps ==
    ASSUME IInv, NEW w \in Workers,
           \/ NothingToClaim(w) \/ FinalizeFails(w) \/ Requeued(w) \/ Stop(w) \/ FinishJobFails(w)
    PROVE  IInv'
<1>1. UNCHANGED <<job, accepted, archives, quota, live, capture, exported, writer, cancelling, begun,
                  effects, late, lock>>
  BY DEF NothingToClaim, FinalizeFails, Requeued, Stop, FinishJobFails, storeVars, quotaVars,
         submitVars, historyVars, workerRest, jobRest
<1>2. Types'
  BY <1>1, ZenonT(30) DEF NothingToClaim, FinalizeFails, Requeued, Stop, FinishJobFails, Step, IInv, Types,
              workerRest, jobRest, Positions, ErrorKinds
<1>3. \A j \in Jobs : QuotaMoves(j)
  BY <1>1 DEF QuotaMoves
<1>4. JobsInv'
  BY <1>1, <1>3, RowsKeep DEF IInv
<1>5. pc[w] \notin {"new", "off"} /\ WorkerInv(w)
  BY DEF NothingToClaim, FinalizeFails, Requeued, Stop, FinishJobFails, Step, IInv, WorkersInv
<1>6. CASE NothingToClaim(w) \/ FinalizeFails(w) \/ Requeued(w)
  <2>1. pc' = [pc EXCEPT ![w] = "idle"]
    BY <1>6 DEF NothingToClaim, FinalizeFails, Requeued, Step
  <2>2. todo'[w] \subseteq todo[w]
    BY <1>6 DEF NothingToClaim, FinalizeFails, Requeued, IInv, Types
  <2>3. \A k \in todo'[w] : IsTerminal(k)'
    BY <1>1, <1>5, <2>2 DEF WorkerInv, IsTerminal
  <2>4. pc'[w] = "idle"
    BY <2>1 DEF IInv, Types
  <2>5. WorkerInv(w)'
    BY <2>3, <2>4 DEF WorkerInv, InJob, Executing
  <2>6. QED
    BY <1>1, <1>2, <1>4, <1>5, <2>1, <2>5, OneWorker DEF IInv
<1>7. CASE Stop(w)
  <2>1. UNCHANGED <<pc, at, kind, todo>>
    BY <1>7 DEF Stop
  <2>2. QED
    BY <1>1, <1>2, <1>3, <1>4, <2>1, RowsStay, Leases, Calm DEF IInv
<1>8. CASE FinishJobFails(w)
  <2>1. CASE kind[w] \in SuccessKinds
    <3>1. /\ pc[w] = "settled" /\ pc' = [pc EXCEPT ![w] = "settled"]
          /\ kind' = [kind EXCEPT ![w] = "storage"] /\ UNCHANGED <<at, todo>>
      BY <1>8, <2>1 DEF FinishJobFails, Step, jobRest
    <3>2. pc'[w] = "settled" /\ kind'[w] = "storage"
      BY <3>1 DEF IInv, Types
    <3>3. WorkerInv(w)'
      BY <1>1, <1>5, <3>1, <3>2 DEF WorkerInv, IsTerminal, InJob, Executing, SuccessKinds
    <3>4. QED
      BY <1>1, <1>2, <1>4, <1>5, <3>1, <3>3, OneWorker DEF IInv
  <2>2. CASE kind[w] \notin SuccessKinds
    <3>1. pc' = [pc EXCEPT ![w] = "idle"] /\ todo' = todo
      BY <1>8, <2>2 DEF FinishJobFails, Step
    <3>2. pc'[w] = "idle"
      BY <3>1 DEF IInv, Types
    <3>3. WorkerInv(w)'
      BY <1>1, <1>5, <3>1, <3>2 DEF WorkerInv, IsTerminal, InJob, Executing
    <3>4. QED
      BY <1>1, <1>2, <1>4, <1>5, <3>1, <3>3, OneWorker DEF IInv
  <2>3. QED
    BY <2>1, <2>2
<1>9. QED
  BY <1>6, <1>7, <1>8

\* The kernel lock passes from a worker that has ended to one that starts.
LEMMA LockKeeps ==
    ASSUME IInv, NEW w \in Workers, Acquire(w) \/ Exit(w) \/ Crash(w)
    PROVE  IInv'
<1>1. UNCHANGED <<job, accepted, archives, quota, capture, exported, writer, cancelling, begun,
                  effects, late>> /\ live' \subseteq live
  BY DEF Acquire, Exit, Crash, storeVars, quotaVars, submitVars, historyVars
<1>2. Types'
  BY <1>1, ZenonT(30) DEF Acquire, Exit, Crash, Step, IInv, Types, Positions
<1>3. \A j \in Jobs : QuotaMoves(j)
  BY <1>1 DEF QuotaMoves
<1>4. JobsInv'
  BY <1>1, <1>3, RowsKeep DEF IInv
<1>5. CASE Exit(w) \/ Crash(w)
  <2>1. \A v \in Workers : pc'[v] \in {"new", "off"}
    BY <1>5 DEF Exit, Crash, Step, IInv, Types, LockInv
  <2>2. QED
    BY <1>2, <1>4, <2>1 DEF IInv, LockInv, WorkersInv
<1>6. CASE Acquire(w)
  <2>1. \A v \in Workers : pc[v] \in {"new", "off"}
    BY <1>6, ParametersAssumption DEF Acquire, IInv, LockInv
  <2>2. pc'[w] = "idle" /\ lock' = w /\ \A v \in Workers \ {w} : pc'[v] \in {"new", "off"}
    BY <1>6, <2>1 DEF Acquire, Step, IInv, Types
  <2>3. todo'[w] = {}
    BY <1>6 DEF Acquire, Step, IInv, Types
  <2>4. WorkerInv(w)'
    BY <2>2, <2>3 DEF WorkerInv, InJob, Executing
  <2>5. QED
    BY <1>2, <1>4, <2>2, <2>4 DEF IInv, LockInv, WorkersInv
<1>7. QED
  BY <1>5, <1>6

\* A row that ends stays sound if its report names the case that may have
\* reached a provider.
LEMMA EndedRow ==
    ASSUME NEW j \in Jobs, job[j] \in JobRow, RowInv(j), job[j].state \in {"queued", "running"},
           UNCHANGED <<quota, begun, effects>>,
           job'[j] \in JobRow, job'[j].state \in TerminalStates, job'[j].token = NoWorker,
           ~job'[j].active, job'[j].done = job[j].done, job'[j].finalized <=> job[j].finalized,
           \A c \in 1 .. NCases : <<j, c>> \in effects /\ c > job[j].done => job'[j].uncertain,
           job'[j].state = "completed" => job[j].done = NCases /\ quota[j] = "completed"
    PROVE  RowInv(j)' /\ IsTerminal(j)'
<1>1. ~job[j].finalized /\ quota[j] # "none"
  BY DEF RowInv, IsTerminal, TerminalStates
<1>2. QED
  BY <1>1 DEF RowInv, IsTerminal, TerminalStates

\* What is running and may have reached a provider has its attempts to show
\* for it; what waits in the queue has not.
LEMMA SentFact ==
    ASSUME Types, NEW j \in Jobs, RowInv(j), job[j].state \in {"queued", "running"},
           NEW c \in 1 .. NCases, <<j, c>> \in effects, c > job[j].done
    PROVE  job[j].active /\ job[j].attempts > job[j].start
BY DEF RowInv, Types

LEMMA RecoverKeeps ==
    ASSUME IInv, NEW w \in Workers, Recover(w)
    PROVE  IInv'
<1>1. UNCHANGED <<accepted, archives, at, kind, lock, stopping, paused, quota, live, capture, exported,
                  writer, cancelling, late, begun, effects>>
  BY DEF Recover, workerRest, quotaVars, submitVars, historyVars
<1>2. ASSUME NEW j \in Jobs, job[j].state = "running"
      PROVE  job'[j] \in JobRow /\ RowInv(j)' /\ IsTerminal(j)'
  <2>1. job'[j] = Finish(job[j], "interrupted", "none", TRUE)
    BY <1>2 DEF Recover
  <2>2. job[j] \in JobRow /\ RowInv(j)
    BY DEF IInv, Types, JobsInv
  <2>3. job[j].state \notin TerminalStates /\ "interrupted" \in TerminalStates /\ "none" \in Codes
    BY <1>2 DEF TerminalStates, Codes
  <2>4. PICK row \in JobRow :
          /\ row = Finish(job[j], "interrupted", "none", TRUE)
          /\ row.state = "interrupted" /\ row.token = NoWorker
          /\ ~row.active /\ row.done = job[j].done /\ (row.finalized <=> job[j].finalized)
          /\ job[j].active /\ job[j].attempts > job[j].start => row.uncertain
    <3>1. PICK r : r = Finish(job[j], "interrupted", "none", TRUE)
      OBVIOUS
    <3>2. Ended(r, job[j], "interrupted") /\ Reported(r, job[j])
      BY <1>2, <2>2, <3>1, FinishReported DEF TerminalStates, Codes
    <3>3. QED
      BY <3>1, <3>2 DEF Ended, Reported
  <2>5. job'[j] = row
    BY <2>1, <2>4
  <2>6. \A c \in 1 .. NCases : <<j, c>> \in effects /\ c > job[j].done => row.uncertain
    BY <1>2, <2>2, <2>4, SentFact DEF IInv
  <2>7. QED
    BY <1>1, <1>2, <2>2, <2>3, <2>4, <2>5, <2>6, EndedRow
<1>3. \A j \in Jobs : job[j].state # "running" => job'[j] = job[j]
  BY DEF Recover
<1>4. job' \in [Jobs -> JobRow]
  <2>1. \A j \in Jobs : job'[j] \in JobRow
    BY <1>2, <1>3 DEF IInv, Types
  <2>2. QED
    BY <2>1 DEF Recover
<1>5. PICK S \in SUBSET Jobs :
        /\ pc[w] = "idle" /\ pc' = [pc EXCEPT ![w] = "recovered"]
        /\ todo' = [todo EXCEPT ![w] = S]
        /\ \A k \in S : IsTerminal(k)'
  <2>1. Pending(job') \subseteq Jobs /\ \A k \in Pending(job') : IsTerminal(k)'
    BY DEF Pending, IsTerminal
  <2>2. QED
    BY <2>1 DEF Recover, Step
<1>6. todo' \in [Workers -> SUBSET Jobs] /\ todo'[w] = S /\ pc'[w] = "recovered"
  BY <1>5 DEF IInv, Types
<1>7. /\ pc' \in [Workers -> Positions]
      /\ \A v \in Workers : pc'[v] = "new" => todo'[v] = {}
  BY <1>5 DEF IInv, Types, Positions
<1>8. Types'
  BY <1>1, <1>4, <1>6, <1>7 DEF IInv, Types
<1>9. \A j \in Jobs : QuotaMoves(j)
  BY <1>1 DEF QuotaMoves
<1>10. \A j \in Jobs : RowInv(j)'
  BY <1>1, <1>2, <1>3, <1>9, KeepRow DEF IInv, JobsInv
<1>11. \A j \in Jobs : CallerInv(j)'
  <2> SUFFICES ASSUME NEW j \in Jobs PROVE CallerInv(j)'
    OBVIOUS
  <2>1. CallerInv(j) /\ (job[j].state = "running" => ~IsTerminal(j))
    BY DEF IInv, JobsInv, IsTerminal, TerminalStates
  <2>2. QED
    BY <1>1, <1>3, <2>1 DEF CallerInv, IsTerminal
<1>12. \A j \in Jobs : job'[j].state # "running"
  BY <1>2, <1>3 DEF IsTerminal, TerminalStates
<1>13. WorkerInv(w)'
  BY <1>5, <1>6, <1>12 DEF WorkerInv, InJob, Executing
<1>14. QED
  BY <1>1, <1>5, <1>8, <1>10, <1>11, <1>13, OneWorker DEF IInv, JobsInv

LEMMA FinalizeKeeps ==
    ASSUME IInv, NEW w \in Workers, NEW j \in Jobs,
           FinalizePending(w, j) \/ (FinalizeOwn(w) /\ j = at[w])
    PROVE  IInv'
<1>1. UNCHANGED <<job, accepted, archives, live, kind, lock, stopping, paused, capture, exported,
                  writer, cancelling, late, begun, effects>>
  BY DEF FinalizePending, FinalizeOwn, workerRest, storeVars, submitVars, historyVars
<1>2. WorkerInv(w) /\ pc[w] \in {"recovered", "finalize"}
  BY DEF FinalizePending, FinalizeOwn, Step, IInv, WorkersInv
<1>3. IsTerminal(j) /\ quota' = FinalizedQuota(j)
  BY <1>2 DEF FinalizePending, FinalizeOwn, WorkerInv
<1>4. /\ quota' \in [Jobs -> {"none", "waiting", "active"} \cup Outcomes]
      /\ \A k \in Jobs : QuotaMoves(k)
  BY <1>3, FinalizationMoves DEF IInv
<1>5. PICK to \in {"idle", "mark", "markOwn"} :
        /\ pc' = [pc EXCEPT ![w] = to]
        /\ to # "idle" => quota'[j] # "active" /\ at'[w] = j
        /\ to = "mark" => pc[w] = "recovered"
  BY DEF FinalizePending, FinalizeOwn, Step, IInv, Types
<1>6. /\ at' \in [Workers -> Jobs \cup {NoJob}]
      /\ todo' \in [Workers -> SUBSET Jobs] /\ todo'[w] \subseteq todo[w]
      /\ \A v \in Workers : v # w => todo'[v] = todo[v]
  BY DEF FinalizePending, FinalizeOwn, IInv, Types
<1>7. Types'
  <2>1. pc' \in [Workers -> Positions] /\ \A v \in Workers : pc'[v] = "new" => todo'[v] = {}
    BY <1>5, <1>6 DEF IInv, Types, Positions
  <2>2. QED
    BY <1>1, <1>4, <1>6, <2>1 DEF IInv, Types
<1>8. JobsInv'
  BY <1>1, <1>4, RowsKeep DEF IInv
<1>9. pc'[w] = to
  BY <1>5 DEF IInv, Types
<1>10. \A k \in todo'[w] : IsTerminal(k)'
  BY <1>1, <1>2, <1>6 DEF WorkerInv, IsTerminal
<1>11. to # "idle" => quota'[j] \in Outcomes
  <2>1. RowInv(j)
    BY DEF IInv, JobsInv
  <2>2. quota'[j] = "active" \/ quota'[j] \in Outcomes
    BY <1>3, <2>1, FinalizationEnds DEF IInv
  <2>3. QED
    BY <1>5, <2>2
<1>12. WorkerInv(w)'
  <2>1. CASE to = "idle"
    BY <1>9, <1>10, <2>1 DEF WorkerInv, InJob, Executing
  <2>2. CASE to \in {"mark", "markOwn"}
    BY <1>1, <1>2, <1>3, <1>5, <1>9, <1>10, <1>11, <2>2 DEF WorkerInv, InJob, Executing, IsTerminal
  <2>3. QED
    BY <2>1, <2>2
<1>13. QED
  BY <1>1, <1>2, <1>5, <1>7, <1>8, <1>12, OneWorker DEF IInv

\* A step that writes the row of one job, which is queued or running, leaves
\* the other jobs and all callers as they are.
LEMMA OneRow ==
    ASSUME JobsInv, NEW j \in Jobs, job[j].state \in {"queued", "running"}, RowInv(j)',
           UNCHANGED <<cancelling, writer>>,
           \A k \in Jobs \ {j} : /\ job'[k] = job[k] /\ QuotaMoves(k)
                                 /\ k \in live' => k \in live
                                 /\ \A c \in 1 .. NCases : <<k, c>> \in begun' => <<k, c>> \in begun
                                 /\ \A c \in 1 .. NCases : <<k, c>> \in effects' => <<k, c>> \in effects
    PROVE  JobsInv'
<1>1. \A k \in Jobs \ {j} : RowInv(k)'
  BY KeepRow DEF JobsInv
<1>2. \A k \in Jobs \ {j} : CallerInv(k)'
  BY KeepCaller, QuotaMovesFact DEF JobsInv, IsTerminal, TerminalStates
<1>3. CallerInv(j)'
  BY DEF JobsInv, CallerInv, IsTerminal, TerminalStates
<1>4. QED
  BY <1>1, <1>2, <1>3 DEF JobsInv

LEMMA MarkFinalizedKeeps ==
    ASSUME IInv, NEW w \in Workers, MarkFinalized(w)
    PROVE  IInv'
<1>1. UNCHANGED <<accepted, archives, kind, lock, stopping, paused, quota, live, capture, exported,
                  writer, cancelling, late, begun, effects>>
  BY DEF MarkFinalized, workerRest, quotaVars, submitVars, historyVars
<1>2. pc[w] \in {"mark", "markOwn"} /\ WorkerInv(w)
  BY DEF MarkFinalized, Step, IInv, WorkersInv
<1>3. PICK j \in Jobs : j = at[w]
  BY <1>2 DEF WorkerInv
<1>4. job[j] \in JobRow /\ RowInv(j) /\ IsTerminal(j) /\ quota[j] \in Outcomes
  BY <1>2, <1>3 DEF WorkerInv, IInv, Types, JobsInv
<1>5. /\ job'[j] = [job[j] EXCEPT !.finalized = TRUE]
      /\ \A k \in Jobs \ {j} : job'[k] = job[k]
      /\ job' = [job EXCEPT ![j] = job'[j]]
  BY <1>3 DEF MarkFinalized, Put, IInv, Types
<1>6. job'[j] \in JobRow /\ RowInv(j)' /\ Untouched(j) /\ IsTerminal(j)'
  BY <1>1, <1>4, <1>5, MarkedRow
<1>7. job' \in [Jobs -> JobRow]
  BY <1>5, <1>6 DEF IInv, Types
<1>8. PICK to \in {"recovered", "idle"} :
        pc' = [pc EXCEPT ![w] = to] /\ (to = "recovered" => pc[w] = "mark")
  BY DEF MarkFinalized, Step
<1>9. todo' = [todo EXCEPT ![w] = @ \ {at[w]}] /\ at' = [at EXCEPT ![w] = NoJob]
  BY DEF MarkFinalized
<1>10. Types'
  <2>1. /\ pc' \in [Workers -> Positions] /\ todo' \in [Workers -> SUBSET Jobs]
        /\ \A v \in Workers : pc'[v] = "new" => todo'[v] = {}
    BY <1>8, <1>9 DEF IInv, Types, Positions
  <2>2. at' \in [Workers -> Jobs \cup {NoJob}]
    BY <1>9 DEF IInv, Types
  <2>3. QED
    BY <1>1, <1>7, <2>1, <2>2 DEF IInv, Types
<1>11. \A k \in Jobs : QuotaMoves(k)
  BY <1>1 DEF QuotaMoves
<1>12. \A k \in Jobs \ {j} : RowInv(k)' /\ Untouched(k)
  BY <1>1, <1>5, <1>11, KeepRow DEF JobsInv, IInv, IsTerminal, Untouched
<1>13. \A k \in Jobs : CallerInv(k)'
  BY <1>1, <1>4, <1>5, <1>6, KeepCaller DEF JobsInv, IInv, IsTerminal, TerminalStates
<1>14. JobsInv'
  BY <1>6, <1>12, <1>13 DEF JobsInv
<1>15. WorkerInv(w)'
  <2>1. \A k \in Jobs : Untouched(k)
    BY <1>6, <1>12
  <2>2. pc'[w] = to /\ todo'[w] \subseteq todo[w] /\ todo[w] \subseteq Jobs
    BY <1>8, <1>9 DEF IInv, Types
  <2>3. \A k \in todo'[w] : IsTerminal(k)'
    BY <1>2, <2>1, <2>2 DEF WorkerInv, Untouched
  <2>4. to = "recovered" => \A k \in Jobs : job'[k].state # "running"
    BY <1>2, <1>8, <2>1 DEF WorkerInv, Untouched
  <2>5. QED
    BY <2>2, <2>3, <2>4 DEF WorkerInv, InJob, Executing
<1>16. QED
  BY <1>1, <1>2, <1>8, <1>10, <1>14, <1>15, OneWorker DEF IInv

LEMMA ClaimKeeps ==
    ASSUME IInv, NEW w \in Workers, NEW j \in Jobs, Claim(w, j)
    PROVE  IInv'
<1>1. UNCHANGED <<accepted, archives, kind, todo, lock, stopping, paused, quota, live, capture, exported,
                  writer, cancelling, late, begun, effects>>
  BY DEF Claim, workerRest, quotaVars, submitVars, historyVars
<1>2. pc[w] = "recovered" /\ WorkerInv(w) /\ at' = [at EXCEPT ![w] = j] /\ todo[w] = {}
  BY DEF Claim, Step, IInv, WorkersInv
<1>3. job[j].state = "queued" /\ job[j] \in JobRow /\ RowInv(j)
  BY DEF Claim, Oldest, Eligible, IInv, Types, JobsInv
<1>4. \A k \in Jobs : job[k].state # "running"
  BY <1>2 DEF WorkerInv
<1>5. \A k \in Jobs : QuotaMoves(k)
  BY <1>1 DEF QuotaMoves
<1>6. at'[w] = j /\ at' \in [Workers -> Jobs \cup {NoJob}]
  BY <1>2 DEF IInv, Types
<1>7. CASE j \in late
  <2>1. PICK row \in JobRow :
          /\ row = Finish(job[j], "deadline_exceeded", "none", FALSE)
          /\ row.state = "deadline_exceeded" /\ row.token = NoWorker
          /\ ~row.active /\ row.done = job[j].done /\ (row.finalized <=> job[j].finalized)
    <3>1. PICK r : r = Finish(job[j], "deadline_exceeded", "none", FALSE)
      OBVIOUS
    <3>2. Ended(r, job[j], "deadline_exceeded")
      BY <1>3, <3>1, FinishSettled DEF TerminalStates, Codes
    <3>3. QED
      BY <3>1, <3>2 DEF Ended
  <2>2. job' = [job EXCEPT ![j] = row] /\ pc' = [pc EXCEPT ![w] = "finalize"]
    BY <1>7, <2>1 DEF Claim, Put, Step
  <2>3. /\ job' \in [Jobs -> JobRow] /\ job'[j] = row /\ pc'[w] = "finalize"
        /\ \A k \in Jobs \ {j} : job'[k] = job[k]
    BY <2>1, <2>2 DEF IInv, Types
  <2>4. Types'
    BY <1>1, <1>6, <2>2, <2>3 DEF IInv, Types, Positions
  <2>5. \A c \in 1 .. NCases : <<j, c>> \notin effects
    BY <1>3 DEF RowInv, IInv, Types
  <2>6. RowInv(j)'
    BY <1>1, <1>3, <2>1, <2>3, <2>5, EndedRow DEF TerminalStates
  <2>7. JobsInv'
    BY <1>1, <1>3, <1>5, <2>3, <2>6, OneRow DEF IInv
  <2>8. WorkerInv(w)'
    BY <1>1, <1>2, <1>6, <2>3 DEF WorkerInv, InJob, Executing
  <2>9. QED
    BY <1>1, <1>2, <2>2, <2>4, <2>7, <2>8, OneWorker DEF IInv
<1>8. CASE j \notin late
  <2> DEFINE row == [job[j] EXCEPT !.state = "running", !.token = w, !.code = "none", !.deferred = FALSE]
  <2>1. /\ row \in JobRow /\ row.state = "running" /\ row.token = w
        /\ row.done = job[j].done /\ row.attempts = job[j].attempts
        /\ (row.active <=> job[j].active) /\ (row.finalized <=> job[j].finalized)
    BY <1>3 DEF JobRow
  <2>2. job' = [job EXCEPT ![j] = row] /\ pc' = [pc EXCEPT ![w] = "claimed"]
    BY <1>8 DEF Claim, Put, Step
  <2> HIDE DEF row
  <2>3. /\ job' \in [Jobs -> JobRow] /\ job'[j] = row /\ pc'[w] = "claimed"
        /\ \A k \in Jobs \ {j} : job'[k] = job[k]
    BY <2>1, <2>2 DEF IInv, Types
  <2>4. Types'
    BY <1>1, <1>6, <2>2, <2>3 DEF IInv, Types, Positions
  <2>5. /\ \A c \in 1 .. NCases : <<j, c>> \notin begun /\ <<j, c>> \notin effects
        /\ quota[j] = "waiting" /\ job[j].done = 0 /\ job[j].attempts = 0
        /\ ~job[j].active /\ ~job[j].finalized
    BY <1>3 DEF RowInv, IInv, Types, IsTerminal, TerminalStates
  <2>6. RowInv(j)'
    BY <1>1, <2>1, <2>3, <2>5, ParametersAssumption DEF RowInv, IsTerminal, TerminalStates
  <2>7. JobsInv'
    BY <1>1, <1>3, <1>5, <2>3, <2>6, OneRow DEF IInv
  <2>8. WorkerInv(w)'
    BY <1>1, <1>2, <1>4, <1>6, <2>1, <2>3, <2>5 DEF WorkerInv, InJob, Executing
  <2>9. QED
    BY <1>1, <1>2, <2>2, <2>4, <2>7, <2>8, OneWorker DEF IInv
<1>9. QED
  BY <1>7, <1>8

(***************************************************************************)
(* The steps of a worker on its job.                                       *)
(***************************************************************************)

\* A worker on a job runs it under its token, and no other job runs.
LEMMA OnItsJob ==
    ASSUME IInv, NEW w \in Workers, pc[w] \in InJob
    PROVE  \E j \in Jobs : /\ j = at[w] /\ job[j] \in JobRow /\ RowInv(j)
                           /\ job[j].state = "running" /\ job[j].token = w
                           /\ \A k \in Jobs \ {j} : job[k].state # "running"
<1>1. WorkerInv(w)
  BY DEF IInv, WorkersInv, InJob
<1>2. QED
  BY <1>1 DEF WorkerInv, IInv, Types, JobsInv

\* A step on a job that writes neither its row nor its operation.
LEMMA ThoughtKeeps ==
    ASSUME IInv, NEW w \in Workers,
           Continue(w) \/ FinishOperationFails(w) \/ \E why \in ErrorKinds : Refuse(w, why) \/ Break(w, why)
    PROVE  IInv'
<1>1. UNCHANGED <<job, accepted, archives, live, capture, exported, writer, cancelling, begun,
                  effects, late, lock, at, todo, stopping>>
  BY DEF Continue, FinishOperationFails, Refuse, Break, quotaVars, submitVars, historyVars,
         workerRest, jobRest
<1>2. pc[w] \in InJob /\ pc[w] \notin {"new", "off"} /\ WorkerInv(w)
  BY DEF Continue, FinishOperationFails, Refuse, Break, Step, IInv, WorkersInv, InJob
<1>3. PICK j \in Jobs : /\ j = at[w] /\ job[j] \in JobRow /\ RowInv(j)
                        /\ job[j].state = "running" /\ job[j].token = w
                        /\ \A k \in Jobs \ {j} : job[k].state # "running"
  BY <1>2, OnItsJob
<1>4. /\ quota' \in [Jobs -> {"none", "waiting", "active"} \cup Outcomes]
      /\ \A k \in Jobs : QuotaMoves(k)
  <2>1. CASE quota' = quota
    BY <2>1 DEF QuotaMoves, IInv, Types
  <2>2. CASE quota' = RecoveredQuota
    BY <2>2, RecoveryMoves DEF IInv
  <2>3. QED
    BY <2>1, <2>2 DEF Continue, FinishOperationFails, Refuse, Break, quotaVars
<1>5. paused' \subseteq Workers
  BY DEF Continue, FinishOperationFails, Refuse, Break, workerRest, jobRest, IInv, Types
<1>6. /\ kind' \in [Workers -> {"none"} \cup ErrorKinds \cup SuccessKinds]
      /\ \A v \in Workers \ {w} : kind'[v] = kind[v]
  BY DEF Continue, FinishOperationFails, Refuse, Break, IInv, Types, ErrorKinds, SuccessKinds
<1>7. JobsInv'
  BY <1>1, <1>4, RowsKeep DEF IInv
<1>8. \A k \in todo'[w] : IsTerminal(k)'
  BY <1>1, <1>2 DEF WorkerInv, IsTerminal
<1>9. CASE Continue(w)
  <2>1. CASE job[j].done < NCases
    <3>1. /\ pc[w] = "ready" /\ pc' = [pc EXCEPT ![w] = "checked"] /\ kind' = kind
          /\ quota' = quota
      BY <1>3, <1>9, <2>1 DEF Continue, Step, quotaVars
    <3>2. pc'[w] = "checked"
      BY <3>1 DEF IInv, Types
    <3>3. Types'
      BY <1>1, <1>4, <1>5, <1>6, <3>1 DEF IInv, Types, Positions
    <3>4. WorkerInv(w)'
      BY <1>1, <1>2, <1>3, <1>8, <2>1, <3>1, <3>2 DEF WorkerInv, InJob, Executing
    <3>5. QED
      BY <1>1, <1>2, <1>7, <3>1, <3>3, <3>4, OneWorker DEF IInv
  <2>2. CASE ~(job[j].done < NCases)
    <3>1. /\ pc[w] = "ready" /\ pc' = [pc EXCEPT ![w] = "ended"] /\ quota' = quota
      BY <1>3, <1>9, <2>2 DEF Continue, Step, quotaVars
    <3>2. pc'[w] = "ended" /\ job[j].done = NCases
      BY <1>3, <2>2, <3>1, ParametersAssumption DEF IInv, Types, JobRow
    <3>3. Types'
      BY <1>1, <1>4, <1>5, <1>6, <3>1 DEF IInv, Types, Positions
    <3>4. WorkerInv(w)'
      BY <1>1, <1>2, <1>3, <1>8, <3>1, <3>2 DEF WorkerInv, InJob, Executing
    <3>5. QED
      BY <1>1, <1>2, <1>7, <3>1, <3>3, <3>4, OneWorker DEF IInv
  <2>3. QED
    BY <2>1, <2>2
<1>10. CASE FinishOperationFails(w)
  <2>1. /\ pc[w] = "ended" /\ pc' = [pc EXCEPT ![w] = "settled"] /\ kind'[w] = "accounting"
    BY <1>10 DEF FinishOperationFails, Step, IInv, Types
  <2>2. pc'[w] = "settled"
    BY <2>1 DEF IInv, Types
  <2>3. Types'
    BY <1>1, <1>4, <1>5, <1>6, <2>1 DEF IInv, Types, Positions
  <2>4. WorkerInv(w)'
    BY <1>1, <1>2, <1>3, <1>8, <2>1, <2>2 DEF WorkerInv, InJob, Executing, SuccessKinds
  <2>5. QED
    BY <1>1, <1>2, <1>7, <2>1, <2>3, <2>4, OneWorker DEF IInv
<1>11. CASE \E why \in ErrorKinds : Refuse(w, why)
  <2>1. /\ pc[w] = "claimed" /\ pc' = [pc EXCEPT ![w] = "refused"] /\ quota' = RecoveredQuota
    BY <1>11 DEF Refuse, Step
  <2>2. pc'[w] = "refused"
    BY <2>1 DEF IInv, Types
  <2>3. Types'
    BY <1>1, <1>4, <1>5, <1>6, <2>1 DEF IInv, Types, Positions
  <2>4. quota'[j] = "waiting"
    BY <1>2, <1>3, <2>1, RecoveredFact DEF WorkerInv, IInv
  <2>5. WorkerInv(w)'
    BY <1>1, <1>2, <1>3, <1>8, <2>1, <2>2, <2>4 DEF WorkerInv, InJob, Executing
  <2>6. QED
    BY <1>1, <1>2, <1>7, <2>1, <2>3, <2>5, OneWorker DEF IInv
<1>12. CASE \E why \in ErrorKinds : Break(w, why)
  <2>1. /\ pc[w] \in {"ready", "checked", "case", "reserved"} /\ pc' = [pc EXCEPT ![w] = "ended"]
        /\ kind'[w] \in ErrorKinds /\ quota' = quota
    BY <1>12 DEF Break, Step, IInv, Types, quotaVars
  <2>2. pc'[w] = "ended" /\ kind'[w] \notin SuccessKinds
    BY <2>1 DEF IInv, Types, ErrorKinds, SuccessKinds
  <2>3. Types'
    BY <1>1, <1>4, <1>5, <1>6, <2>1 DEF IInv, Types, Positions
  <2>4. WorkerInv(w)'
    BY <1>1, <1>2, <1>3, <1>8, <2>1, <2>2 DEF WorkerInv, InJob, Executing
  <2>5. QED
    BY <1>1, <1>2, <1>7, <2>1, <2>3, <2>4, OneWorker DEF IInv
<1>13. QED
  BY <1>9, <1>10, <1>11, <1>12

LEMMA ActivateKeeps ==
    ASSUME IInv, NEW w \in Workers, Activate(w)
    PROVE  IInv'
<1>1. UNCHANGED <<job, accepted, archives, capture, exported, writer, cancelling, begun, effects, late,
                  lock, at, todo, stopping, paused, kind>>
  BY DEF Activate, submitVars, historyVars, workerRest, jobRest
<1>2. /\ pc[w] = "claimed" /\ pc' = [pc EXCEPT ![w] = "ready"]
      /\ pc[w] \in InJob /\ pc[w] \notin {"new", "off"} /\ WorkerInv(w)
  BY DEF Activate, Step, IInv, WorkersInv, InJob
<1>3. PICK j \in Jobs : /\ j = at[w] /\ job[j] \in JobRow /\ RowInv(j)
                        /\ job[j].state = "running" /\ job[j].token = w
                        /\ \A k \in Jobs \ {j} : job[k].state # "running"
  BY <1>2, OnItsJob
<1>4. /\ quota' \in [Jobs -> {"none", "waiting", "active"} \cup Outcomes]
      /\ quota'[j] = "active" /\ \A k \in Jobs \ {j} : QuotaMoves(k)
  BY <1>3, RecoveredFact DEF Activate, QuotaMoves, IInv, Types
<1>5. live' = live \cup {j} /\ pc'[w] = "ready"
  BY <1>2, <1>3 DEF Activate, IInv, Types
<1>6. Types'
  BY <1>1, <1>2, <1>4, <1>5 DEF IInv, Types, Positions
<1>7. RowInv(j)'
  BY <1>1, <1>3, <1>4 DEF RowInv, IsTerminal, TerminalStates
<1>8. JobsInv'
  BY <1>1, <1>3, <1>4, <1>5, <1>7, OneRow DEF IInv
<1>9. WorkerInv(w)'
  BY <1>1, <1>2, <1>3, <1>4, <1>5 DEF WorkerInv, IsTerminal, InJob, Executing
<1>10. QED
  BY <1>1, <1>2, <1>6, <1>8, <1>9, OneWorker DEF IInv

LEMMA FinishOperationKeeps ==
    ASSUME IInv, NEW w \in Workers, NEW readable \in BOOLEAN, FinishOperation(w, readable)
    PROVE  IInv'
<1>1. UNCHANGED <<job, accepted, archives, capture, exported, writer, cancelling, begun, effects, late,
                  lock, at, todo, stopping, paused>>
  BY DEF FinishOperation, submitVars, historyVars, workerRest, jobRest
<1>2. /\ pc[w] = "ended" /\ pc' = [pc EXCEPT ![w] = "settled"]
      /\ pc[w] \in InJob /\ pc[w] \notin {"new", "off"} /\ WorkerInv(w)
  BY DEF FinishOperation, Step, IInv, WorkersInv, InJob
<1>3. PICK j \in Jobs : /\ j = at[w] /\ job[j] \in JobRow /\ RowInv(j)
                        /\ job[j].state = "running" /\ job[j].token = w
                        /\ \A k \in Jobs \ {j} : job[k].state # "running"
  BY <1>2, OnItsJob
<1>4. quota[j] = "active" /\ j \in live
  BY <1>2, <1>3 DEF WorkerInv, Executing
<1>5. PICK outcome \in Outcomes :
        /\ quota' = [quota EXCEPT ![j] = outcome]
        /\ kind'[w] = "success" => outcome = "completed"
  BY <1>3, <1>4 DEF FinishOperation, Outcomes, IInv, Types
<1>6. /\ kind' \in [Workers -> {"none"} \cup ErrorKinds \cup SuccessKinds]
      /\ kind'[w] \in SuccessKinds => kind[w] \in SuccessKinds
  <2>1. PICK end \in {"storage", "successInterrupted", "successCancelled", "success", kind[w]} :
          /\ kind' = [kind EXCEPT ![w] = end]
          /\ kind[w] # "success" => end = kind[w]
    <3>1. CASE kind[w] = "success"
      BY <3>1 DEF FinishOperation
    <3>2. CASE kind[w] # "success"
      <4>1. kind' = kind
        BY <3>2 DEF FinishOperation
      <4>2. kind = [kind EXCEPT ![w] = kind[w]]
        BY DEF IInv, Types
      <4>3. QED
        BY <3>2, <4>1, <4>2
    <3>3. QED
      BY <3>1, <3>2
  <2>2. end \in {"none"} \cup ErrorKinds \cup SuccessKinds
    BY DEF IInv, Types, ErrorKinds, SuccessKinds
  <2>3. QED
    BY <2>1, <2>2 DEF IInv, Types, SuccessKinds
<1>7. live' \subseteq live /\ pc'[w] = "settled"
  BY <1>2 DEF FinishOperation, IInv, Types
<1>8. Types'
  BY <1>1, <1>2, <1>5, <1>6, <1>7 DEF IInv, Types, Positions
<1>9. quota'[j] = outcome /\ \A k \in Jobs \ {j} : QuotaMoves(k)
  BY <1>5 DEF QuotaMoves, IInv, Types
<1>10. RowInv(j)'
  BY <1>1, <1>3, <1>9 DEF RowInv, IsTerminal, TerminalStates, Outcomes
<1>11. JobsInv'
  BY <1>1, <1>3, <1>7, <1>9, <1>10, OneRow DEF IInv
<1>12. WorkerInv(w)'
  BY <1>1, <1>2, <1>3, <1>5, <1>6, <1>7, <1>9 DEF WorkerInv, IsTerminal, InJob, Executing, SuccessKinds
<1>13. QED
  BY <1>1, <1>2, <1>8, <1>11, <1>12, OneWorker DEF IInv

LEMMA SendCallKeeps ==
    ASSUME IInv, NEW w \in Workers, SendCall(w)
    PROVE  IInv'
<1>1. UNCHANGED <<job, accepted, archives, capture, exported, writer, cancelling, begun, late,
                  lock, at, todo, stopping, paused, quota, live, kind>>
  BY DEF SendCall, quotaVars, submitVars, workerRest, jobRest
<1>2. /\ pc[w] = "reserved" /\ pc' = [pc EXCEPT ![w] = "case"]
      /\ pc[w] \in InJob /\ pc[w] \notin {"new", "off"} /\ WorkerInv(w)
  BY DEF SendCall, Step, IInv, WorkersInv, InJob
<1>3. PICK j \in Jobs : /\ j = at[w] /\ job[j] \in JobRow /\ RowInv(j)
                        /\ job[j].state = "running" /\ job[j].token = w
                        /\ \A k \in Jobs \ {j} : job[k].state # "running"
  BY <1>2, OnItsJob
<1>4. /\ effects' = effects \cup {<<j, job[j].done + 1>>}
      /\ <<j, job[j].done + 1>> \in begun
      /\ job[j].active /\ job[j].attempts > job[j].start
  BY <1>2, <1>3 DEF SendCall, WorkerInv
<1>5. pc'[w] = "case"
  BY <1>2 DEF IInv, Types
<1>6. Types'
  BY <1>1, <1>2, <1>4 DEF IInv, Types, Positions
<1>7. RowInv(j)'
  BY <1>1, <1>3, <1>4 DEF RowInv, IsTerminal, TerminalStates
<1>8. \A k \in Jobs : QuotaMoves(k)
  BY <1>1 DEF QuotaMoves
<1>9. \A k \in Jobs \ {j} : \A c \in 1 .. NCases : <<k, c>> \in effects' => <<k, c>> \in effects
  BY <1>4
<1>10. JobsInv'
  BY <1>1, <1>3, <1>7, <1>8, <1>9, OneRow DEF IInv
<1>11. job[j].attempts >= job[j].start
  BY <1>3, <1>4 DEF JobRow
<1>12. WorkerInv(w)'
  BY <1>1, <1>2, <1>3, <1>4, <1>5, <1>11 DEF WorkerInv, IsTerminal, InJob, Executing
<1>13. QED
  BY <1>1, <1>2, <1>6, <1>10, <1>12, OneWorker DEF IInv

\* What a worker writes to the row of its job while it runs: the job stays its
\* own, and the rest of the invariant need only be seen for that row.
LEMMA OwnRowKeeps ==
    ASSUME IInv, NEW w \in Workers, pc[w] \in InJob,
           NEW j \in Jobs, j = at[w], NEW row \in JobRow, NEW to \in Positions \ {"new"},
           job' = [job EXCEPT ![j] = row], pc' = [pc EXCEPT ![w] = to],
           UNCHANGED <<accepted, archives, capture, exported, writer, cancelling, late, lock, at, todo,
                       stopping, paused, quota, live, effects>>,
           kind' \in [Workers -> {"none"} \cup ErrorKinds \cup SuccessKinds],
           begun' = begun \/ (begun' = begun \cup {<<j, job[j].done + 1>>} /\ job[j].done < NCases)
    PROVE  RowInv(j)' /\ WorkerInv(w)' => IInv'
<1>1. UNCHANGED <<accepted, archives, capture, exported, writer, cancelling, late, lock, at, todo,
                  stopping, paused, quota, live, effects>>
  OBVIOUS
<1>2. pc[w] \notin {"new", "off"} /\ job[j].state = "running" /\ job[j] \in JobRow
  BY OnItsJob DEF InJob
<1>3. /\ job' \in [Jobs -> JobRow] /\ job'[j] = row /\ pc'[w] = to /\ at'[w] = j
      /\ \A k \in Jobs \ {j} : job'[k] = job[k]
  BY <1>1 DEF IInv, Types
<1>4. Types'
  <2>1. /\ begun' \subseteq Jobs \X (1 .. NCases) /\ effects \subseteq begun'
    BY <1>2, ParametersAssumption, SMTT(30) DEF IInv, Types, JobRow
  <2>2. QED
    BY <1>1, <1>3, <2>1, ZenonT(30) DEF IInv, Types
<1>5. \A k \in Jobs : QuotaMoves(k)
  BY <1>1 DEF QuotaMoves
<1>6. RowInv(j)' => JobsInv'
  <2>1. \A k \in Jobs \ {j} : \A c \in 1 .. NCases : <<k, c>> \in begun' => <<k, c>> \in begun
    OBVIOUS
  <2>2. QED
    BY <1>1, <1>2, <1>3, <1>5, <2>1, OneRow DEF IInv
<1>7. WorkerInv(w)' => LockInv' /\ WorkersInv'
  BY <1>1, <1>2, <1>4, OneWorker DEF IInv
<1>8. QED
  BY <1>3, <1>4, <1>6, <1>7 DEF IInv

LEMMA BeginCaseKeeps ==
    ASSUME IInv, NEW w \in Workers, BeginCase(w)
    PROVE  IInv'
<1>1. /\ pc[w] = "checked" /\ pc' = [pc EXCEPT ![w] = "case"]
      /\ pc[w] \in InJob /\ WorkerInv(w)
  BY DEF BeginCase, Step, IInv, WorkersInv, InJob
<1>2. PICK j \in Jobs : /\ j = at[w] /\ job[j] \in JobRow /\ RowInv(j)
                        /\ job[j].state = "running" /\ job[j].token = w
                        /\ \A k \in Jobs \ {j} : job[k].state # "running"
  BY <1>1, OnItsJob
<1>3. /\ UNCHANGED <<accepted, archives, capture, exported, writer, cancelling, late, lock, at, todo,
                     stopping, paused, quota, live, effects, kind>>
      /\ begun' = begun \cup {<<j, job[j].done + 1>>} /\ ~job[j].active
  BY <1>2 DEF BeginCase, jobRest, quotaVars, workerRest, submitVars
<1>4. PICK row \in JobRow :
        /\ row = [job[j] EXCEPT !.active = TRUE, !.start = job[j].attempts]
        /\ row.state = "running" /\ row.token = w /\ row.active
        /\ row.done = job[j].done /\ row.attempts = job[j].attempts /\ row.start = job[j].attempts
        /\ row.finalized <=> job[j].finalized
  <2> DEFINE r == [job[j] EXCEPT !.active = TRUE, !.start = job[j].attempts]
  <2>1. /\ r \in JobRow /\ r.state = "running" /\ r.token = w /\ r.active
        /\ r.done = job[j].done /\ r.attempts = job[j].attempts /\ r.start = job[j].attempts
        /\ (r.finalized <=> job[j].finalized)
    BY <1>2 DEF JobRow
  <2>2. r = [job[j] EXCEPT !.active = TRUE, !.start = job[j].attempts]
    OBVIOUS
  <2> HIDE DEF r
  <2>3. QED
    BY <2>1, <2>2
<1>5. job' = [job EXCEPT ![j] = row]
  BY <1>2, <1>4 DEF BeginCase, Put
<1>6. job[j].done < NCases /\ job[j].done + 1 \in 1 .. NCases /\ job[j].attempts >= job[j].attempts
  BY <1>1, <1>2, ParametersAssumption DEF WorkerInv, JobRow
<1>7. \A c \in 1 .. NCases : <<j, c>> \in effects => c <= job[j].done
  BY <1>2, <1>3 DEF RowInv, IInv, Types, JobRow
<1>8. /\ job'[j] = row /\ pc'[w] = "case" /\ at'[w] = j
      /\ \A k \in Jobs \ {j} : job'[k] = job[k]
  BY <1>1, <1>2, <1>3, <1>5 DEF IInv, Types
<1>9. RowInv(j)'
  BY <1>2, <1>3, <1>4, <1>7, <1>8, ParametersAssumption DEF RowInv, IsTerminal, TerminalStates, JobRow
<1>10. \A k \in todo'[w] : IsTerminal(k)'
  <2>1. todo[w] \subseteq Jobs \ {j}
    BY <1>1, <1>2 DEF WorkerInv, IInv, Types, IsTerminal, TerminalStates
  <2>2. QED
    BY <1>1, <1>3, <1>8, <2>1 DEF WorkerInv, IsTerminal
<1>11. WorkerInv(w)'
  BY <1>1, <1>2, <1>3, <1>4, <1>6, <1>8, <1>10 DEF WorkerInv, InJob, Executing
<1>12. "case" \in Positions \ {"new"}
  BY DEF Positions
<1>13. kind' \in [Workers -> {"none"} \cup ErrorKinds \cup SuccessKinds]
  BY <1>3 DEF IInv, Types
<1>14. QED
  BY <1>1, <1>2, <1>3, <1>5, <1>6, <1>9, <1>11, <1>12, <1>13, OwnRowKeeps

LEMMA ReserveCallKeeps ==
    ASSUME IInv, NEW w \in Workers, ReserveCall(w)
    PROVE  IInv'
<1>1. /\ pc[w] = "case" /\ pc' = [pc EXCEPT ![w] = "reserved"]
      /\ pc[w] \in InJob /\ WorkerInv(w)
  BY DEF ReserveCall, Step, IInv, WorkersInv, InJob
<1>2. PICK j \in Jobs : /\ j = at[w] /\ job[j] \in JobRow /\ RowInv(j)
                        /\ job[j].state = "running" /\ job[j].token = w
                        /\ \A k \in Jobs \ {j} : job[k].state # "running"
  BY <1>1, OnItsJob
<1>3. /\ UNCHANGED <<accepted, archives, capture, exported, writer, cancelling, late, lock, at, todo,
                     stopping, paused, quota, live, begun, effects, kind>>
      /\ job[j].attempts < MaxCalls
  BY <1>1, <1>2 DEF ReserveCall, jobRest, quotaVars, historyVars, workerRest, submitVars, WorkerInv
<1>4. PICK row \in JobRow :
        /\ row = [job[j] EXCEPT !.attempts = job[j].attempts + 1]
        /\ row.state = "running" /\ row.token = w
        /\ row.done = job[j].done /\ row.attempts = job[j].attempts + 1 /\ row.start = job[j].start
        /\ (row.active <=> job[j].active) /\ (row.finalized <=> job[j].finalized)
  <2> DEFINE r == [job[j] EXCEPT !.attempts = job[j].attempts + 1]
  <2>1. /\ r \in JobRow
        /\ r.state = "running" /\ r.token = w
        /\ r.done = job[j].done /\ r.attempts = job[j].attempts + 1 /\ r.start = job[j].start
        /\ (r.active <=> job[j].active) /\ (r.finalized <=> job[j].finalized)
    BY <1>1, <1>2, <1>3, ParametersAssumption DEF JobRow, WorkerInv
  <2>2. r = [job[j] EXCEPT !.attempts = job[j].attempts + 1]
    OBVIOUS
  <2> HIDE DEF r
  <2>3. QED
    BY <2>1, <2>2
<1>5. job' = [job EXCEPT ![j] = row]
  BY <1>2, <1>4 DEF ReserveCall, Put
<1>6. kind' \in [Workers -> {"none"} \cup ErrorKinds \cup SuccessKinds]
  BY <1>3 DEF ReserveCall, IInv, Types
<1>7. /\ job'[j] = row /\ pc'[w] = "reserved" /\ at'[w] = j
      /\ \A k \in Jobs \ {j} : job'[k] = job[k]
  BY <1>1, <1>2, <1>3, <1>5 DEF IInv, Types
<1>8. \A k \in todo'[w] : IsTerminal(k)'
  <2>1. todo[w] \subseteq Jobs \ {j}
    BY <1>1, <1>2 DEF WorkerInv, IInv, Types, IsTerminal, TerminalStates
  <2>2. QED
    BY <1>1, <1>3, <1>7, <2>1 DEF WorkerInv, IsTerminal
<1>9. \A c \in 1 .. NCases : <<j, c>> \in effects /\ c > job[j].done =>
        job[j].active /\ job[j].attempts > job[j].start
  BY <1>2 DEF RowInv
<1>10. RowInv(j)'
  BY <1>1, <1>2, <1>3, <1>4, <1>7, <1>9, ParametersAssumption DEF RowInv, IsTerminal, TerminalStates, JobRow
<1>11. WorkerInv(w)'
  BY <1>1, <1>2, <1>3, <1>4, <1>7, <1>8, <1>9, ParametersAssumption DEF WorkerInv, InJob, Executing, JobRow
<1>12. "reserved" \in Positions \ {"new"}
  BY DEF Positions
<1>13. QED
  BY <1>1, <1>2, <1>3, <1>5, <1>6, <1>10, <1>11, <1>12, OwnRowKeeps

LEMMA UnreserveCallKeeps ==
    ASSUME IInv, NEW w \in Workers, NEW why \in ErrorKinds, UnreserveCall(w, why)
    PROVE  IInv'
<1>1. /\ pc[w] = "reserved" /\ pc' = [pc EXCEPT ![w] = "ended"]
      /\ pc[w] \in InJob /\ WorkerInv(w)
  BY DEF UnreserveCall, Step, IInv, WorkersInv, InJob
<1>2. PICK j \in Jobs : /\ j = at[w] /\ job[j] \in JobRow /\ RowInv(j)
                        /\ job[j].state = "running" /\ job[j].token = w
                        /\ \A k \in Jobs \ {j} : job[k].state # "running"
  BY <1>1, OnItsJob
<1>3. /\ UNCHANGED <<accepted, archives, capture, exported, writer, cancelling, late, lock, at, todo,
                     stopping, paused, quota, live, begun, effects>>
      /\ kind'[w] = why
  BY <1>1, <1>2 DEF UnreserveCall, jobRest, quotaVars, historyVars, workerRest, submitVars, IInv, Types
<1>4. PICK row \in JobRow :
        /\ row = [job[j] EXCEPT !.attempts = job[j].attempts - 1]
        /\ row.state = "running" /\ row.token = w
        /\ row.done = job[j].done /\ row.attempts = job[j].attempts - 1 /\ row.start = job[j].start
        /\ (row.active <=> job[j].active) /\ (row.finalized <=> job[j].finalized)
  <2> DEFINE r == [job[j] EXCEPT !.attempts = job[j].attempts - 1]
  <2>1. /\ r \in JobRow
        /\ r.state = "running" /\ r.token = w
        /\ r.done = job[j].done /\ r.attempts = job[j].attempts - 1 /\ r.start = job[j].start
        /\ (r.active <=> job[j].active) /\ (r.finalized <=> job[j].finalized)
    BY <1>1, <1>2, <1>3, ParametersAssumption DEF JobRow, WorkerInv
  <2>2. r = [job[j] EXCEPT !.attempts = job[j].attempts - 1]
    OBVIOUS
  <2> HIDE DEF r
  <2>3. QED
    BY <2>1, <2>2
<1>5. job' = [job EXCEPT ![j] = row]
  BY <1>2, <1>4 DEF UnreserveCall, Put
<1>6. kind' \in [Workers -> {"none"} \cup ErrorKinds \cup SuccessKinds]
  BY <1>3 DEF UnreserveCall, IInv, Types
<1>7. /\ job'[j] = row /\ pc'[w] = "ended" /\ at'[w] = j
      /\ \A k \in Jobs \ {j} : job'[k] = job[k]
  BY <1>1, <1>2, <1>3, <1>5 DEF IInv, Types
<1>8. \A k \in todo'[w] : IsTerminal(k)'
  <2>1. todo[w] \subseteq Jobs \ {j}
    BY <1>1, <1>2 DEF WorkerInv, IInv, Types, IsTerminal, TerminalStates
  <2>2. QED
    BY <1>1, <1>3, <1>7, <2>1 DEF WorkerInv, IsTerminal
<1>9. /\ \A c \in 1 .. NCases : <<j, c>> \in effects /\ c > job[j].done =>
            job[j].active /\ job[j].attempts > job[j].start + 1
      /\ kind'[w] \notin SuccessKinds
  <2>1. \A c \in 1 .. NCases : <<j, c>> \in effects /\ c > job[j].done => c = job[j].done + 1
    BY <1>2 DEF RowInv, IInv, Types, JobRow
  <2>2. QED
    BY <1>1, <1>2, <1>3, <2>1 DEF WorkerInv, RowInv, ErrorKinds, SuccessKinds
<1>10. RowInv(j)'
  BY <1>1, <1>2, <1>3, <1>4, <1>7, <1>9, ParametersAssumption DEF RowInv, IsTerminal, TerminalStates, JobRow
<1>11. WorkerInv(w)'
  BY <1>1, <1>2, <1>3, <1>4, <1>7, <1>8, <1>9, ParametersAssumption DEF WorkerInv, InJob, Executing, JobRow
<1>12. "ended" \in Positions \ {"new"}
  BY DEF Positions
<1>13. QED
  BY <1>1, <1>2, <1>3, <1>5, <1>6, <1>10, <1>11, <1>12, OwnRowKeeps

LEMMA SaveCaseKeeps ==
    ASSUME IInv, NEW w \in Workers, SaveCase(w)
    PROVE  IInv'
<1>1. /\ pc[w] = "case" /\ pc' = [pc EXCEPT ![w] = "ready"]
      /\ pc[w] \in InJob /\ WorkerInv(w)
  BY DEF SaveCase, Step, IInv, WorkersInv, InJob
<1>2. PICK j \in Jobs : /\ j = at[w] /\ job[j] \in JobRow /\ RowInv(j)
                        /\ job[j].state = "running" /\ job[j].token = w
                        /\ \A k \in Jobs \ {j} : job[k].state # "running"
  BY <1>1, OnItsJob
<1>3. /\ UNCHANGED <<accepted, archives, capture, exported, writer, cancelling, late, lock, at, todo,
                     stopping, paused, quota, live, begun, effects, kind>>
      /\ job[j].done < NCases
  BY <1>1, <1>2 DEF SaveCase, jobRest, quotaVars, historyVars, workerRest, submitVars, WorkerInv
<1>4. PICK row \in JobRow :
        /\ row = [job[j] EXCEPT !.active = FALSE, !.done = job[j].done + 1]
        /\ row.state = "running" /\ row.token = w
        /\ row.done = job[j].done + 1 /\ row.attempts = job[j].attempts /\ row.start = job[j].start
        /\ ~row.active /\ (row.finalized <=> job[j].finalized)
  <2> DEFINE r == [job[j] EXCEPT !.active = FALSE, !.done = job[j].done + 1]
  <2>1. /\ r \in JobRow
        /\ r.state = "running" /\ r.token = w
        /\ r.done = job[j].done + 1 /\ r.attempts = job[j].attempts /\ r.start = job[j].start
        /\ ~r.active /\ (r.finalized <=> job[j].finalized)
    <3>1. job[j].done + 1 \in 0 .. NCases
      BY <1>2, <1>3, ParametersAssumption DEF JobRow
    <3>2. QED
      BY <1>2, <3>1 DEF JobRow
  <2>2. r = [job[j] EXCEPT !.active = FALSE, !.done = job[j].done + 1]
    OBVIOUS
  <2> HIDE DEF r
  <2>3. QED
    BY <2>1, <2>2
<1>5. job' = [job EXCEPT ![j] = row]
  BY <1>2, <1>4 DEF SaveCase, Put
<1>6. kind' \in [Workers -> {"none"} \cup ErrorKinds \cup SuccessKinds]
  BY <1>3 DEF SaveCase, IInv, Types
<1>7. /\ job'[j] = row /\ pc'[w] = "ready" /\ at'[w] = j
      /\ \A k \in Jobs \ {j} : job'[k] = job[k]
  BY <1>1, <1>2, <1>3, <1>5 DEF IInv, Types
<1>8. \A k \in todo'[w] : IsTerminal(k)'
  <2>1. todo[w] \subseteq Jobs \ {j}
    BY <1>1, <1>2 DEF WorkerInv, IInv, Types, IsTerminal, TerminalStates
  <2>2. QED
    BY <1>1, <1>3, <1>7, <2>1 DEF WorkerInv, IsTerminal
<1>9. \A c \in 1 .. NCases : <<j, c>> \in begun \/ <<j, c>> \in effects => c <= job[j].done + 1
  <2>1. job[j].done \in Nat /\ effects \subseteq begun
    BY <1>2, ParametersAssumption DEF JobRow, IInv, Types
  <2>2. \A c \in 1 .. NCases : <<j, c>> \in begun => c <= job[j].done \/ c = job[j].done + 1
    BY <1>2 DEF RowInv
  <2>3. QED
    BY <2>1, <2>2
<1>10. RowInv(j)'
  BY <1>1, <1>2, <1>3, <1>4, <1>7, <1>9, ParametersAssumption DEF RowInv, IsTerminal, TerminalStates, JobRow
<1>11. WorkerInv(w)'
  BY <1>1, <1>2, <1>3, <1>4, <1>7, <1>8, <1>9, ParametersAssumption DEF WorkerInv, InJob, Executing, JobRow
<1>12. "ready" \in Positions \ {"new"}
  BY DEF Positions
<1>13. QED
  BY <1>1, <1>2, <1>3, <1>5, <1>6, <1>10, <1>11, <1>12, OwnRowKeeps

\* A worker gives its job up: the row is no longer running, and is sound.
LEMMA GivesUp ==
    ASSUME IInv, NEW w \in Workers, pc[w] \in InJob, NEW j \in Jobs, j = at[w], NEW row \in JobRow,
           job' = [job EXCEPT ![j] = row], pc' = [pc EXCEPT ![w] = "finalize"],
           UNCHANGED <<accepted, archives, capture, exported, writer, cancelling, late, lock, at, todo,
                       stopping, paused, quota, live, effects>>,
           begun' = begun,
           kind' \in [Workers -> {"none"} \cup ErrorKinds \cup SuccessKinds],
           RowInv(j)'
    PROVE  IInv'
<1>1. job[j].state = "running" /\ WorkerInv(w)
  BY OnItsJob DEF IInv, WorkersInv, InJob
<1>2. todo[w] \subseteq Jobs \ {j}
  BY <1>1 DEF WorkerInv, IInv, Types, IsTerminal, TerminalStates
<1>3. \A k \in Jobs \ {j} : job'[k] = job[k]
  BY DEF IInv, Types
<1>4. \A k \in todo'[w] : IsTerminal(k)'
  BY <1>1, <1>2, <1>3 DEF WorkerInv, IsTerminal
<1>5. pc'[w] = "finalize" /\ at'[w] = j
  BY DEF IInv, Types
<1>6. WorkerInv(w)'
  BY <1>4, <1>5 DEF WorkerInv, InJob, Executing
<1>7. "finalize" \in Positions \ {"new"}
  BY DEF Positions
<1>8. QED
  BY <1>6, <1>7, OwnRowKeeps

LEMMA ExpireClaimedKeeps ==
    ASSUME IInv, NEW w \in Workers, ExpireClaimed(w)
    PROVE  IInv'
<1>1. /\ pc[w] = "claimed" /\ pc' = [pc EXCEPT ![w] = "finalize"]
      /\ pc[w] \in InJob /\ WorkerInv(w)
  BY DEF ExpireClaimed, Step, IInv, WorkersInv, InJob
<1>2. PICK j \in Jobs : /\ j = at[w] /\ job[j] \in JobRow /\ RowInv(j)
                        /\ job[j].state = "running" /\ job[j].token = w
                        /\ \A k \in Jobs \ {j} : job[k].state # "running"
  BY <1>1, OnItsJob
<1>3. UNCHANGED <<accepted, archives, capture, exported, writer, cancelling, late, lock, at, todo,
                  stopping, paused, quota, live, begun, effects, kind>>
  BY DEF ExpireClaimed, jobRest, quotaVars, historyVars, workerRest, submitVars
<1>4. PICK row \in JobRow :
        /\ row = Finish(job[j], "deadline_exceeded", "none", FALSE)
        /\ row.state = "deadline_exceeded" /\ row.token = NoWorker
        /\ ~row.active /\ row.done = job[j].done /\ (row.finalized <=> job[j].finalized)
  <2>1. PICK r : r = Finish(job[j], "deadline_exceeded", "none", FALSE)
    OBVIOUS
  <2>2. Ended(r, job[j], "deadline_exceeded")
    BY <1>2, <2>1, FinishSettled DEF TerminalStates, Codes
  <2>3. QED
    BY <2>1, <2>2 DEF Ended
<1>5. job' = [job EXCEPT ![j] = row]
  BY <1>2, <1>4 DEF ExpireClaimed, Put
<1>6. job'[j] = row
  BY <1>5 DEF IInv, Types
<1>7. \A c \in 1 .. NCases : <<j, c>> \notin effects
  BY <1>1, <1>2 DEF WorkerInv, IInv, Types
<1>8. RowInv(j)'
  BY <1>2, <1>3, <1>4, <1>6, <1>7, EndedRow DEF TerminalStates
<1>9. kind' \in [Workers -> {"none"} \cup ErrorKinds \cup SuccessKinds]
  BY <1>3 DEF IInv, Types
<1>10. QED
  BY <1>1, <1>2, <1>3, <1>5, <1>8, <1>9, GivesUp

\* A running job that ends with its uncertain case, if it has one, in the report.
LEMMA ReportedRow ==
    ASSUME Types, NEW j \in Jobs, job[j] \in JobRow, RowInv(j), job[j].state = "running",
           NEW state \in TerminalStates, state # "completed", NEW code \in Codes
    PROVE  \E row \in JobRow :
              /\ row = Finish(job[j], state, code, TRUE)
              /\ job'[j] = row /\ UNCHANGED <<quota, begun, effects>> => RowInv(j)'
<1>1. PICK row \in JobRow :
        /\ row = Finish(job[j], state, code, TRUE)
        /\ row.state = state /\ row.token = NoWorker
        /\ ~row.active /\ row.done = job[j].done /\ (row.finalized <=> job[j].finalized)
        /\ job[j].active /\ job[j].attempts > job[j].start => row.uncertain
  <2>1. PICK r : r = Finish(job[j], state, code, TRUE)
    OBVIOUS
  <2>2. Ended(r, job[j], state) /\ Reported(r, job[j])
    BY <2>1, FinishReported DEF TerminalStates, Codes
  <2>3. QED
    BY <2>1, <2>2 DEF Ended, Reported
<1>2. \A c \in 1 .. NCases : <<j, c>> \in effects /\ c > job[j].done => row.uncertain
  BY <1>1, SentFact
<1>3. ASSUME job'[j] = row, UNCHANGED <<quota, begun, effects>> PROVE RowInv(j)'
  BY <1>1, <1>2, <1>3, EndedRow
<1>4. QED
  BY <1>1, <1>3

LEMMA FinishJobKeeps ==
    ASSUME IInv, NEW w \in Workers, FinishJob(w)
    PROVE  IInv'
<1>1. /\ pc[w] = "settled" /\ pc' = [pc EXCEPT ![w] = "finalize"]
      /\ pc[w] \in InJob /\ WorkerInv(w)
  BY DEF FinishJob, Step, IInv, WorkersInv, InJob
<1>2. PICK j \in Jobs : /\ j = at[w] /\ job[j] \in JobRow /\ RowInv(j)
                        /\ job[j].state = "running" /\ job[j].token = w
                        /\ \A k \in Jobs \ {j} : job[k].state # "running"
  BY <1>1, OnItsJob
<1>3. UNCHANGED <<accepted, archives, capture, exported, writer, cancelling, late, lock, at, todo,
                  stopping, paused, quota, live, begun, effects>>
  BY DEF FinishJob, jobRest, quotaVars, historyVars, workerRest, submitVars
<1>4. kind' \in [Workers -> {"none"} \cup ErrorKinds \cup SuccessKinds]
  BY DEF FinishJob, IInv, Types
<1>5. PICK state \in TerminalStates, code \in Codes :
        \/ /\ kind[w] \in SuccessKinds
           /\ Concluded(w) = Finish(job[at[w]], state, code, FALSE)
           /\ state = "completed" => kind[w] = "success"
        \/ /\ kind[w] \notin SuccessKinds /\ state # "completed"
           /\ Concluded(w) = Finish(job[at[w]], state, code, TRUE)
  BY ConcludedFact DEF IInv
<1>6. job' = [job EXCEPT ![j] = Concluded(w)]
  BY <1>2 DEF FinishJob, Put
<1>7. CASE kind[w] \in SuccessKinds
  <2>1. PICK row \in JobRow :
          /\ row = Finish(job[j], state, code, FALSE)
          /\ row.state = state /\ row.token = NoWorker
          /\ ~row.active /\ row.done = job[j].done /\ (row.finalized <=> job[j].finalized)
    <3>1. PICK r : r = Finish(job[j], state, code, FALSE)
      OBVIOUS
    <3>2. Ended(r, job[j], state)
      BY <1>2, <3>1, FinishSettled DEF TerminalStates, Codes
    <3>3. QED
      BY <3>1, <3>2 DEF Ended
  <2>2. job' = [job EXCEPT ![j] = row]
    BY <1>2, <1>5, <1>6, <1>7, <2>1
  <2>3. job'[j] = row
    BY <2>2 DEF IInv, Types
  <2>4. job[j].done = NCases /\ (state = "completed" => quota[j] = "completed")
    BY <1>1, <1>2, <1>5, <1>7 DEF WorkerInv
  <2>5. \A c \in 1 .. NCases : ~(c > job[j].done)
    BY <2>4, ParametersAssumption
  <2>6. RowInv(j)'
    BY <1>2, <1>3, <2>1, <2>3, <2>4, <2>5, EndedRow
  <2>7. QED
    BY <1>1, <1>2, <1>3, <1>4, <2>2, <2>6, GivesUp
<1>8. CASE kind[w] \notin SuccessKinds
  <2>1. PICK row \in JobRow :
          /\ row = Finish(job[j], state, code, TRUE)
          /\ job'[j] = row /\ UNCHANGED <<quota, begun, effects>> => RowInv(j)'
    BY <1>2, <1>5, <1>8, ReportedRow, ZenonT(30) DEF IInv
  <2>2. job' = [job EXCEPT ![j] = row]
    BY <1>2, <1>5, <1>6, <1>8, <2>1
  <2>3. job'[j] = row
    BY <2>2 DEF IInv, Types
  <2>4. QED
    BY <1>1, <1>2, <1>3, <1>4, <2>1, <2>2, <2>3, GivesUp
<1>9. QED
  BY <1>7, <1>8

LEMMA HandleRefusalKeeps ==
    ASSUME IInv, NEW w \in Workers, HandleRefusal(w)
    PROVE  IInv'
<1>1. /\ pc[w] = "refused" /\ pc' = [pc EXCEPT ![w] = "finalize"]
      /\ pc[w] \in InJob /\ WorkerInv(w)
  BY DEF HandleRefusal, Step, IInv, WorkersInv, InJob
<1>2. PICK j \in Jobs : /\ j = at[w] /\ job[j] \in JobRow /\ RowInv(j)
                        /\ job[j].state = "running" /\ job[j].token = w
                        /\ \A k \in Jobs \ {j} : job[k].state # "running"
  BY <1>1, OnItsJob
<1>3. UNCHANGED <<accepted, archives, capture, exported, writer, cancelling, late, lock, at, todo,
                  stopping, paused, quota, live, begun, effects>>
  BY DEF HandleRefusal, jobRest, quotaVars, historyVars, workerRest, submitVars
<1>4. kind' \in [Workers -> {"none"} \cup ErrorKinds \cup SuccessKinds]
  BY DEF HandleRefusal, IInv, Types
<1>5. /\ quota[j] = "waiting" /\ job[j].done = 0 /\ job[j].attempts = 0 /\ ~job[j].active
      /\ \A c \in 1 .. NCases : <<j, c>> \notin begun /\ <<j, c>> \notin effects
      /\ ~job[j].finalized
  BY <1>1, <1>2 DEF WorkerInv, RowInv, IInv, Types, IsTerminal, TerminalStates
<1>6. CASE Deferrable(w)
  <2>1. PICK code \in Codes : job' = [job EXCEPT ![j] = Defer(j, code)]
    BY <1>2, <1>6 DEF HandleRefusal, Put, Codes
  <2>2. PICK row \in JobRow :
          /\ row = Defer(j, code)
          /\ row.state \in {"queued", "cancelled", "deadline_exceeded"}
          /\ row.token = NoWorker
          /\ row.done = job[j].done
          /\ row.finalized <=> job[j].finalized
          /\ row.state = "queued" => row.attempts = job[j].attempts /\ (row.active <=> job[j].active)
          /\ row.state # "queued" => ~row.active
    BY <1>2, DeferFact
  <2>3. job' = [job EXCEPT ![j] = row]
    BY <2>1, <2>2
  <2>4. job'[j] = row
    BY <2>3 DEF IInv, Types
  <2>5. RowInv(j)'
    BY <1>3, <1>5, <2>2, <2>4, ParametersAssumption DEF RowInv, IsTerminal, TerminalStates
  <2>6. QED
    BY <1>1, <1>2, <1>3, <1>4, <2>3, <2>5, GivesUp
<1>7. CASE ~Deferrable(w)
  <2>1. ErrorState(w) \in TerminalStates \ {"completed"} /\ ErrorCode(w) \in Codes
    BY DEF ErrorState, ErrorCode, TerminalStates, Codes
  <2>2. PICK state \in TerminalStates, code \in Codes :
          state # "completed" /\ job' = [job EXCEPT ![j] = Finish(job[j], state, code, TRUE)]
    BY <1>2, <1>7, <2>1 DEF HandleRefusal, Put
  <2>3. PICK row \in JobRow :
          /\ row = Finish(job[j], state, code, TRUE)
          /\ job'[j] = row /\ UNCHANGED <<quota, begun, effects>> => RowInv(j)'
    BY <1>2, <2>2, ReportedRow, ZenonT(30) DEF IInv
  <2>4. job' = [job EXCEPT ![j] = row]
    BY <2>2, <2>3
  <2>5. job'[j] = row
    BY <2>4 DEF IInv, Types
  <2>6. QED
    BY <1>1, <1>2, <1>3, <1>4, <2>3, <2>4, <2>5, GivesUp
<1>8. QED
  BY <1>6, <1>7

\* Every step of a worker keeps the invariant.
LEMMA WorkersKeep ==
    ASSUME IInv, NEW w \in Workers, WorkerNext(w)
    PROVE  IInv'
<1>1. CASE \/ Acquire(w) \/ Exit(w) \/ Crash(w) \/ NothingToClaim(w) \/ FinalizeFails(w)
           \/ Requeued(w) \/ Stop(w) \/ FinishJobFails(w)
  BY <1>1, LockKeeps, RestKeeps
<1>2. CASE \/ Recover(w) \/ MarkFinalized(w) \/ FinalizeOwn(w)
           \/ \E j \in Jobs : FinalizePending(w, j) \/ Claim(w, j)
  <2>1. ASSUME FinalizeOwn(w) PROVE IInv'
    <3>1. at[w] \in Jobs
      BY <2>1 DEF FinalizeOwn, IInv, WorkersInv, WorkerInv
    <3>2. PICK j \in Jobs : j = at[w]
      BY <3>1
    <3>3. QED
      BY <2>1, <3>2, FinalizeKeeps
  <2>2. QED
    BY <1>2, <2>1, RecoverKeeps, MarkFinalizedKeeps, FinalizeKeeps, ClaimKeeps
<1>3. CASE \/ Continue(w) \/ FinishOperationFails(w) \/ Activate(w) \/ SendCall(w)
           \/ \E why \in ErrorKinds : Refuse(w, why) \/ Break(w, why)
           \/ \E readable \in BOOLEAN : FinishOperation(w, readable)
  BY <1>3, ThoughtKeeps, ActivateKeeps, SendCallKeeps, FinishOperationKeeps
<1>4. CASE \/ BeginCase(w) \/ ReserveCall(w) \/ SaveCase(w)
           \/ \E why \in ErrorKinds : UnreserveCall(w, why)
           \/ ExpireClaimed(w) \/ FinishJob(w) \/ HandleRefusal(w)
  BY <1>4, BeginCaseKeeps, ReserveCallKeeps, SaveCaseKeeps, UnreserveCallKeeps, ExpireClaimedKeeps,
     FinishJobKeeps, HandleRefusalKeeps
<1>5. QED
  BY <1>1, <1>2, <1>3, <1>4 DEF WorkerNext, Progress

LEMMA InitHolds == Init => IInv
<1> SUFFICES ASSUME Init PROVE IInv
  OBVIOUS
<1>1. 0 \in 0 .. NCases /\ 0 \in 0 .. MaxCalls
  BY ParametersAssumption
<1>2. NoJobRow \in JobRow
  BY <1>1 DEF NoJobRow, JobRow
<1>3. Types
  <2>1. job \in [Jobs -> JobRow]
    BY <1>2 DEF Init
  <2>2. accepted \in Seq(Jobs)
    BY DEF Init
  <2>3. quota \in [Jobs -> {"none", "waiting", "active"} \cup Outcomes]
    BY DEF Init
  <2>4. cancelling \in [Jobs -> {"none", "finish", "mark"}]
    BY DEF Init
  <2>5. pc \in [Workers -> Positions]
    BY DEF Init, Positions
  <2>6. at \in [Workers -> Jobs \cup {NoJob}] /\ todo \in [Workers -> SUBSET Jobs]
    BY DEF Init
  <2>7. kind \in [Workers -> {"none"} \cup ErrorKinds \cup SuccessKinds]
    BY DEF Init
  <2>8. \A w \in Workers : pc[w] = "new" => todo[w] = {}
    BY DEF Init
  <2>9. /\ capture \in Jobs \cup {NoJob} /\ exported \in BOOLEAN /\ writer \in {NoJob, capture}
        /\ lock \in Workers \cup {NoWorker}
        /\ archives = {} /\ live = {} /\ stopping = {} /\ paused = {} /\ late = {}
        /\ begun = {} /\ effects = {}
    BY DEF Init
  <2>10. QED
    BY <2>1, <2>2, <2>3, <2>4, <2>5, <2>6, <2>7, <2>8, <2>9 DEF Types
<1>4. \A j \in Jobs : RowInv(j)
  BY DEF Init, RowInv, NoJobRow, IsTerminal, TerminalStates
<1>5. \A j \in Jobs : CallerInv(j)
  BY ParametersAssumption DEF Init, CallerInv
<1>6. LockInv /\ WorkersInv
  BY DEF Init, LockInv, WorkersInv
<1>7. QED
  BY <1>3, <1>4, <1>5, <1>6 DEF IInv, JobsInv

LEMMA Inductive ==
    ASSUME IInv, [Next]_vars
    PROVE  IInv'
<1>1. CASE Next
  BY <1>1, WorkersKeep, CallersKeep, EnvironmentKeeps DEF Next
<1>2. CASE UNCHANGED vars
  <2>1. UNCHANGED <<job, accepted, archives, quota, live, capture, exported, writer, cancelling, lock, pc,
                    at, kind, todo, stopping, paused, late, begun, effects>>
    BY <1>2 DEF vars, storeVars, quotaVars, submitVars, workerVars, historyVars
  <2>2. Types'
    BY <2>1 DEF IInv, Types
  <2>3. \A j \in Jobs : QuotaMoves(j)
    BY <2>1 DEF QuotaMoves
  <2>4. JobsInv'
    BY <2>1, <2>3, RowsKeep DEF IInv
  <2>5. QED
    BY <2>1, <2>2, <2>3, <2>4, RowsStay, Leases, Calm DEF IInv
<1>3. QED
  BY <1>1, <1>2

LEMMA Invariance == Spec => []IInv
BY InitHolds, Inductive, PTL DEF Spec

(***************************************************************************)
(* The theorems.                                                           *)
(***************************************************************************)

\* Every variable keeps its type, and only a running job has a token or an
\* active case: evaluation_jobs rows never disagree with themselves.
THEOREM TypeCorrect == Spec => []TypeOK
<1>1. IInv => TypeOK
  BY DEF IInv, Types, JobsInv, RowInv, TypeOK
<1>2. QED
  BY <1>1, Invariance, PTL

\* A job is owned by the one worker that is on it, under the token and the
\* lease it took, or waits prepaid and unstarted: cancellations, recoveries,
\* successors and submissions that die between two commits never make two
\* workers share a job or queue work that was not charged.
THEOREM WorkSafety == Spec => []WorkIsOwnedOrPrepaid
<1>1. IInv => WorkerKeepsClaim
  <2> SUFFICES ASSUME IInv, NEW w \in Workers, Claimed(w)
               PROVE  /\ lock = w
                      /\ job[at[w]].state = "running" /\ job[at[w]].token = w
                      /\ \A j \in Jobs \ {at[w]} : job[j].state # "running"
                      /\ Executing(w) => quota[at[w]] = "active" /\ at[w] \in live
    BY DEF WorkerKeepsClaim
  <2>1. pc[w] \in InJob
    BY DEF Claimed, Executing, InJob
  <2>2. lock = w /\ WorkerInv(w)
    BY <2>1 DEF IInv, LockInv, WorkersInv, InJob
  <2>3. QED
    BY <2>1, <2>2 DEF WorkerInv
<1>2. IInv => QueuedWorkIsPrepaidAndUnstarted
  BY DEF IInv, JobsInv, RowInv, QueuedWorkIsPrepaidAndUnstarted
<1>3. QED
  BY <1>1, <1>2, Invariance, PTL DEF WorkIsOwnedOrPrepaid

\* The outcomes of the two databases and the report of a job agree: completed
\* means that every case is saved and charged as completed, finalized that the
\* acceptance has its outcome, and a case that may have reached a provider
\* without a saved result is in the report.
THEOREM OutcomeSafety == Spec => []OutcomesAreAccounted
<1>1. IInv => OutcomesAreAccounted
  BY DEF IInv, JobsInv, RowInv, OutcomesAreAccounted, CompletedIsAccounted, FinalizedIsSettled,
         EffectsReported
<1>2. QED
  BY <1>1, Invariance, PTL

(***************************************************************************)
(* A terminal job is final.                                                *)
(***************************************************************************)

\* What a step may do to a terminal job.
Final(j) ==
    IsTerminal(j) =>
        job'[j] = [job[j] EXCEPT !.finalized = job'[j].finalized, !.expired = job'[j].expired]

\* A row that is not written is final ...
LEMMA FinalSame ==
    ASSUME NEW j \in Jobs, job[j] \in JobRow, job'[j] = job[j]
    PROVE  Final(j)
<1>1. job[j] = [job[j] EXCEPT !.finalized = job[j].finalized, !.expired = job[j].expired]
  BY DEF JobRow
<1>2. QED
  BY <1>1 DEF Final

\* ... so is one whose accounting flag or expiry is set ...
LEMMA FinalFlags ==
    ASSUME NEW j \in Jobs, job[j] \in JobRow, NEW f \in BOOLEAN, NEW e \in BOOLEAN,
           job'[j] = [job[j] EXCEPT !.finalized = f, !.expired = e]
    PROVE  Final(j)
<1>1. job'[j].finalized = f /\ job'[j].expired = e
  BY DEF JobRow
<1>2. QED
  BY <1>1 DEF Final

\* ... and writing the row of a job that has not ended leaves all others.
LEMMA FinalPut ==
    ASSUME Types, NEW k, job[k].state \notin TerminalStates, NEW row, job' = Put(k, row)
    PROVE  \A j \in Jobs : Final(j)
<1> SUFFICES ASSUME NEW j \in Jobs PROVE Final(j)
  OBVIOUS
<1>1. CASE j = k
  BY <1>1 DEF Final, IsTerminal
<1>2. CASE j # k
  <2>1. job'[j] = job[j] /\ job[j] \in JobRow
    BY <1>2 DEF Put, Types
  <2>2. QED
    BY <2>1, FinalSame
<1>3. QED
  BY <1>1, <1>2

\* mark_admission_finalized writes the flag of one job and nothing else.
LEMMA FinalMark ==
    ASSUME Types, NEW k, job' = Put(k, [job[k] EXCEPT !.finalized = TRUE])
    PROVE  \A j \in Jobs : Final(j)
<1> SUFFICES ASSUME NEW j \in Jobs PROVE Final(j)
  OBVIOUS
<1>1. job[j] \in JobRow
  BY DEF Types
<1>2. CASE j # k
  <2>1. job'[j] = job[j]
    BY <1>2 DEF Put, Types
  <2>2. QED
    BY <1>1, <2>1, FinalSame
<1>3. CASE j = k
  <2>1. job'[j] = [job[j] EXCEPT !.finalized = TRUE]
    BY <1>3 DEF Put, Types
  <2>2. [job[j] EXCEPT !.finalized = TRUE] = [job[j] EXCEPT !.finalized = TRUE, !.expired = job[j].expired]
    BY <1>1 DEF JobRow
  <2>3. job[j].expired \in BOOLEAN
    BY <1>1 DEF JobRow
  <2>4. QED
    BY <1>1, <2>1, <2>2, <2>3, FinalFlags
<1>4. QED
  BY <1>2, <1>3

\* A worker writes the job it owns, recovery the jobs that run.
LEMMA WorkersAreFinal ==
    ASSUME IInv, NEW w \in Workers, WorkerNext(w)
    PROVE  \A j \in Jobs : Final(j)
<1>1. Types
  BY DEF IInv
<1>2. CASE job' = job
  BY <1>1, <1>2, FinalSame DEF Types
<1>3. CASE Recover(w)
  <2> SUFFICES ASSUME NEW j \in Jobs PROVE Final(j)
    OBVIOUS
  <2>1. job[j].state # "running" => job'[j] = job[j]
    BY <1>3 DEF Recover
  <2>2. QED
    BY <1>1, <2>1, FinalSame DEF Types, Final, IsTerminal, TerminalStates
<1>4. CASE MarkFinalized(w)
  <2>1. PICK k : k = at[w]
    OBVIOUS
  <2>2. job' = Put(k, [job[k] EXCEPT !.finalized = TRUE])
    BY <1>4, <2>1 DEF MarkFinalized
  <2>3. QED
    BY <1>1, <2>2, FinalMark
<1>5. CASE \E j \in Jobs : Claim(w, j)
  <2>1. PICK j \in Jobs : Claim(w, j)
    BY <1>5
  <2>2. PICK row : job' = Put(j, row)
    BY <2>1 DEF Claim
  <2>3. job[j].state \notin TerminalStates
    BY <2>1 DEF Claim, Oldest, Eligible, TerminalStates
  <2>4. QED
    BY <1>1, <2>2, <2>3, FinalPut
<1>6. CASE \/ ExpireClaimed(w) \/ BeginCase(w) \/ ReserveCall(w) \/ SaveCase(w) \/ FinishJob(w)
           \/ HandleRefusal(w) \/ \E why \in ErrorKinds : UnreserveCall(w, why)
  <2>1. PICK k : k = at[w]
    OBVIOUS
  <2>2. \E row : job' = Put(k, row)
    BY <1>6, <2>1 DEF ExpireClaimed, BeginCase, ReserveCall, SaveCase, FinishJob, HandleRefusal,
                      UnreserveCall
  <2>3. job[k].state \notin TerminalStates
    BY <1>6, <2>1 DEF ExpireClaimed, BeginCase, ReserveCall, SaveCase, FinishJob, HandleRefusal,
                      UnreserveCall, Owns, TerminalStates
  <2>4. QED
    BY <1>1, <2>2, <2>3, FinalPut
<1>7. QED
  <2>1. CASE \/ Acquire(w) \/ FinalizeFails(w) \/ FinishOperationFails(w) \/ FinishJobFails(w)
             \/ Stop(w) \/ Crash(w) \/ NothingToClaim(w) \/ FinalizeOwn(w) \/ Exit(w)
             \/ Activate(w) \/ Continue(w) \/ SendCall(w) \/ Requeued(w)
             \/ \E j \in Jobs : FinalizePending(w, j)
    BY <2>1, <1>2 DEF Acquire, FinalizeFails, FinishOperationFails, FinishJobFails, Stop, Crash,
                      NothingToClaim, FinalizeOwn, Exit, Activate, Continue, SendCall, Requeued,
                      FinalizePending, storeVars
  <2>2. CASE \/ \E why \in ErrorKinds : Refuse(w, why) \/ Break(w, why)
             \/ \E readable \in BOOLEAN : FinishOperation(w, readable)
    BY <2>2, <1>2 DEF Refuse, Break, FinishOperation
  <2>3. QED
    BY <2>1, <2>2, <1>3, <1>4, <1>5, <1>6 DEF WorkerNext, Progress

\* Callers write jobs that have not ended, or the flag of one that has.
LEMMA CallersAreFinal ==
    ASSUME IInv, NEW k \in Jobs, CallerNext(k)
    PROVE  \A j \in Jobs : Final(j)
<1>1. Types
  BY DEF IInv
<1>2. CASE job' = job
  BY <1>1, <1>2, FinalSame DEF Types
<1>3. CASE Publish(k)
  <2>1. job[k].state = "none"
    BY <1>3 DEF Publish, IInv, JobsInv, CallerInv
  <2>2. PICK row : job' = Put(k, row)
    BY <1>3 DEF Publish
  <2>3. QED
    BY <1>1, <2>1, <2>2, FinalPut DEF TerminalStates
<1>4. CASE Cancel(k)
  <2>1. CASE job[k].state \in {"queued", "running"}
    <3>1. PICK row : job' = Put(k, row)
      BY <1>4, <2>1 DEF Cancel
    <3>2. QED
      BY <1>1, <2>1, <3>1, FinalPut DEF TerminalStates
  <2>2. CASE job[k].state \notin {"queued", "running"}
    BY <1>2, <1>4, <2>2 DEF Cancel
  <2>3. QED
    BY <2>1, <2>2
<1>5. CASE CancelMarks(k)
  BY <1>1, <1>5, FinalMark DEF CancelMarks
<1>6. QED
  BY <1>2, <1>3, <1>4, <1>5 DEF CallerNext, BeginCapture, AcceptWork, AbortSubmit, CancelFinalizes,
                                CancelLost, storeVars

\* Retention writes the expiry of terminal jobs.
LEMMA EnvironmentIsFinal ==
    ASSUME IInv, EnvNext
    PROVE  \A j \in Jobs : Final(j)
<1>1. Types
  BY DEF IInv
<1>2. CASE job' = job
  BY <1>1, <1>2, FinalSame DEF Types
<1>3. CASE \E aged \in SUBSET Jobs : Purge(aged)
  <2> SUFFICES ASSUME NEW j \in Jobs PROVE Final(j)
    OBVIOUS
  <2>1. PICK aged \in SUBSET Jobs : Purge(aged)
    BY <1>3
  <2>2. PICK e \in BOOLEAN : e = (job[j].expired \/ j \in aged)
    OBVIOUS
  <2>3. job'[j] = [job[j] EXCEPT !.expired = e]
    BY <2>1, <2>2 DEF Purge
  <2>4. job[j] \in JobRow /\ job[j].finalized \in BOOLEAN
    BY <1>1 DEF Types, JobRow
  <2>5. [job[j] EXCEPT !.expired = e] = [job[j] EXCEPT !.finalized = job[j].finalized, !.expired = e]
    BY <2>4 DEF JobRow
  <2>6. QED
    BY <2>3, <2>4, <2>5, FinalFlags
<1>4. CASE \E j \in Jobs : RetryDue(j)
  <2>1. PICK j \in Jobs : RetryDue(j)
    BY <1>4
  <2>2. PICK row : job' = Put(j, row)
    BY <2>1 DEF RetryDue
  <2>3. QED
    BY <1>1, <2>1, <2>2, FinalPut DEF RetryDue, TerminalStates
<1>5. QED
  BY <1>2, <1>3, <1>4 DEF EnvNext, OtherReservation, DeadlinePasses, LoseLease, storeVars

\* A terminal job never changes but for admission_finalized and result_expired:
\* no late worker, recovery, cancellation or retention rewrites what was reported.
THEOREM FinalSafety == Spec => TerminalJobIsFinal
<1>1. IInv /\ [Next]_vars => [\A j \in Jobs : Final(j)]_vars
  BY WorkersAreFinal, CallersAreFinal, EnvironmentIsFinal DEF Next
<1>2. QED
  BY <1>1, Invariance, PTL DEF Spec, TerminalJobIsFinal, Final

(***************************************************************************)
(* Cases are evaluated once.                                               *)
(***************************************************************************)

OnACase == {"case", "reserved"}

\* While a worker is outside new and off, no other worker is on a case.
LEMMA NoOtherCase ==
    ASSUME IInv, NEW w \in Workers, lock \in {w, NoWorker}, NEW v \in Workers \ {w}
    PROVE  pc[v] \notin OnACase
BY ParametersAssumption DEF IInv, LockInv, OnACase

\* A step that puts no worker on a case and moves none to another case adds
\* nothing to what is evaluated.
LEMMA EvaluatingShrinks ==
    ASSUME \A v \in Workers : pc'[v] \in OnACase =>
               pc[v] \in OnACase /\ at'[v] = at[v] /\ job'[at[v]].done = job[at[v]].done
    PROVE  Evaluating' \subseteq Evaluating
BY DEF Evaluating, OnACase

\* Such a step ends evaluations, or none.
LEMMA EndsCases ==
    ASSUME IInv, Evaluating' \subseteq Evaluating, begun' = begun
    PROVE  Cases!LedgerNext
<1> DEFINE some == Evaluating \ Evaluating'
<1>1. some \in SUBSET Evaluating /\ Evaluating' = Evaluating \ some
  OBVIOUS
<1>2. Cases!End(some)
  BY <1>1 DEF Cases!End
<1>3. QED
  BY <1>1, <1>2 DEF Cases!LedgerNext

\* begin_case begins a case that never began, while none is evaluated.
LEMMA BeginsCase ==
    ASSUME IInv, NEW w \in Workers, BeginCase(w)
    PROVE  Cases!LedgerNext
<1>1. pc[w] = "checked" /\ pc' = [pc EXCEPT ![w] = "case"] /\ at' = at /\ Types
  BY DEF BeginCase, Step, jobRest, IInv
<1>2. WorkerInv(w) /\ lock = w
  BY <1>1 DEF IInv, LockInv, WorkersInv
<1>3. PICK j \in Jobs : j = at[w]
  BY <1>1, <1>2 DEF WorkerInv, InJob
<1>4. /\ job[j].state = "running" /\ job[j].done < NCases /\ ~job[j].active
      /\ job[j].done \in 0 .. NCases
      /\ RowInv(j)
  BY <1>1, <1>2, <1>3 DEF BeginCase, WorkerInv, InJob, IInv, JobsInv, Types, JobRow
<1>5. PICK c \in 1 .. NCases : c = job[j].done + 1
  BY <1>4, ParametersAssumption
<1>6. <<j, c>> \notin begun
  BY <1>4, <1>5, ParametersAssumption DEF RowInv
<1>7. begun' = begun \cup {<<j, c>>}
  BY <1>3, <1>5 DEF BeginCase
<1>8. job'[j].done = job[j].done
  <2>1. job'[j] = [job[j] EXCEPT !.active = TRUE, !.start = job[j].attempts]
    BY <1>1, <1>3 DEF BeginCase, Put, Types
  <2>2. job[j] \in JobRow
    BY <1>1 DEF Types
  <2>3. QED
    BY <2>1, <2>2 DEF JobRow
<1>9. Evaluating = {}
  BY <1>1, <1>2, NoOtherCase DEF Evaluating, OnACase
<1>10. Evaluating' = {<<j, c>>}
  <2>1. \A v \in Workers : pc'[v] \in OnACase <=> v = w
    BY <1>1, <1>2, NoOtherCase DEF OnACase, Types
  <2>2. {v \in Workers : pc'[v] \in {"case", "reserved"}} = {w}
    BY <2>1 DEF OnACase
  <2>3. Evaluating' = {<<at'[w], job'[at'[w]].done + 1>>}
    BY <2>2 DEF Evaluating
  <2>4. QED
    BY <1>1, <1>3, <1>5, <1>8, <2>3
<1>11. Cases!Begin(<<j, c>>)
  <2>1. Cardinality({}) < 1
    BY FS_EmptySet
  <2>2. Cases!Cardinality({}) = Cardinality({})
    BY DEF Cases!Cardinality, Cardinality
  <2>3. <<j, c>> \in (Jobs \X (1 .. NCases)) \ begun
    BY <1>6
  <2>4. QED
    BY <1>7, <1>9, <1>10, <2>1, <2>2, <2>3 DEF Cases!Begin
<1>12. QED
  BY <1>11 DEF Cases!LedgerNext

\* The other steps of a worker begin nothing: they leave its case, or stay on it.
LEMMA WorkersBeginNoCase ==
    ASSUME IInv, NEW w \in Workers, WorkerNext(w), ~BeginCase(w)
    PROVE  Evaluating' \subseteq Evaluating /\ begun' = begun
<1>1. Types
  BY DEF IInv
<1>2. CASE Stop(w)
  BY <1>2, EvaluatingShrinks DEF Stop, storeVars, historyVars, OnACase
<1>3. CASE ReserveCall(w) \/ SendCall(w)
  <2>1. at' = at /\ begun' = begun /\ pc[w] \in OnACase /\ \E to \in OnACase : pc' = [pc EXCEPT ![w] = to]
    BY <1>3 DEF ReserveCall, SendCall, Step, jobRest, historyVars, OnACase
  <2>2. \A v \in Workers \ {w} : pc'[v] \notin OnACase
    <3>1. lock = w
      BY <2>1 DEF IInv, LockInv, OnACase
    <3>2. \A v \in Workers \ {w} : pc'[v] = pc[v]
      BY <1>1, <2>1 DEF Types
    <3>3. QED
      BY <3>1, <3>2, NoOtherCase
  <2>3. job'[at[w]].done = job[at[w]].done
    <3>1. CASE SendCall(w)
      BY <3>1 DEF SendCall
    <3>2. CASE ReserveCall(w)
      <4>1. PICK j \in Jobs : j = at[w]
        BY <2>1 DEF OnACase, IInv, LockInv, WorkersInv, WorkerInv, InJob
      <4>2. job'[j] = [job[j] EXCEPT !.attempts = @ + 1] /\ job[j] \in JobRow
        BY <1>1, <3>2, <4>1 DEF ReserveCall, Put, Types
      <4>3. QED
        BY <4>1, <4>2 DEF JobRow
    <3>3. QED
      BY <1>3, <3>1, <3>2
  <2>4. QED
    BY <2>1, <2>2, <2>3, EvaluatingShrinks
<1>4. CASE ~Stop(w) /\ ~ReserveCall(w) /\ ~SendCall(w)
  <2>1. /\ lock \in {w, NoWorker}
        /\ begun' = begun
        /\ \E to \in Positions \ OnACase : pc' = [pc EXCEPT ![w] = to]
    <3>1. CASE \/ Acquire(w) \/ Exit(w) \/ Crash(w) \/ NothingToClaim(w) \/ FinalizeFails(w)
               \/ Requeued(w) \/ FinishJobFails(w)
      BY <1>1, <3>1 DEF Acquire, Exit, Crash, NothingToClaim, FinalizeFails, Requeued, FinishJobFails,
                        Step, IInv, LockInv, historyVars, Positions, OnACase
    <3>2. CASE \/ Recover(w) \/ MarkFinalized(w) \/ FinalizeOwn(w)
               \/ \E j \in Jobs : FinalizePending(w, j) \/ Claim(w, j)
      BY <1>1, <3>2 DEF Recover, MarkFinalized, FinalizeOwn, FinalizePending, Claim,
                        Step, IInv, LockInv, historyVars, Positions, OnACase
    <3>3. CASE \/ Continue(w) \/ FinishOperationFails(w) \/ Activate(w)
               \/ \E why \in ErrorKinds : Refuse(w, why) \/ Break(w, why)
               \/ \E readable \in BOOLEAN : FinishOperation(w, readable)
      BY <1>1, <3>3 DEF Continue, FinishOperationFails, Activate, Refuse, Break, FinishOperation,
                        Step, IInv, LockInv, historyVars, Positions, OnACase
    <3>4. CASE \/ SaveCase(w) \/ \E why \in ErrorKinds : UnreserveCall(w, why)
               \/ ExpireClaimed(w) \/ FinishJob(w) \/ HandleRefusal(w)
      BY <1>1, <3>4 DEF SaveCase, UnreserveCall, ExpireClaimed, FinishJob, HandleRefusal,
                        Step, IInv, LockInv, historyVars, Positions, OnACase
    <3>5. QED
      BY <1>4, <3>1, <3>2, <3>3, <3>4 DEF WorkerNext, Progress
  <2>2. \A v \in Workers : pc'[v] \notin OnACase
    <3>1. pc'[w] \notin OnACase /\ \A v \in Workers \ {w} : pc'[v] = pc[v]
      BY <1>1, <2>1 DEF Types
    <3>2. QED
      BY <2>1, <3>1, NoOtherCase
  <2>3. QED
    BY <2>1, <2>2, EvaluatingShrinks
<1>5. QED
  BY <1>2, <1>3, <1>4

\* Nor do callers and retention: the saved cases of a job on which a worker
\* is stay as they are.
LEMMA OthersBeginNoCase ==
    ASSUME IInv, pc' = pc, at' = at, begun' = begun,
           \A j \in Jobs : job[j].state = "running" => job'[j].done = job[j].done
    PROVE  Evaluating' \subseteq Evaluating
<1>1. \A v \in Workers : pc[v] \in OnACase => at[v] \in Jobs /\ job[at[v]].state = "running"
  BY DEF IInv, WorkersInv, WorkerInv, OnACase, InJob
<1>2. QED
  BY <1>1, EvaluatingShrinks

LEMMA CallersBeginNoCase ==
    ASSUME IInv, NEW k \in Jobs, CallerNext(k)
    PROVE  Evaluating' \subseteq Evaluating /\ begun' = begun
<1>1. pc' = pc /\ at' = at /\ begun' = begun
  BY DEF CallerNext, BeginCapture, AcceptWork, Publish, AbortSubmit, Cancel, CancelFinalizes,
         CancelMarks, CancelLost, workerVars, historyVars
<1>2. ASSUME NEW j \in Jobs, job[j].state = "running" PROVE job'[j].done = job[j].done
  <2>1. job \in [Jobs -> JobRow]
    BY DEF IInv, Types
  <2>2. CASE Publish(k)
    <3>1. job[k].state = "none"
      BY <2>2 DEF Publish, IInv, JobsInv, CallerInv
    <3>2. QED
      BY <1>2, <2>1, <2>2, <3>1 DEF Publish, Put
  <2>3. CASE Cancel(k)
    BY <1>2, <2>1, <2>3 DEF Cancel, Put, JobRow
  <2>4. CASE CancelMarks(k)
    BY <1>2, <2>1, <2>4 DEF CancelMarks, Put, JobRow
  <2>5. CASE BeginCapture(k) \/ AcceptWork(k) \/ AbortSubmit(k) \/ CancelFinalizes(k) \/ CancelLost(k)
    BY <2>5 DEF BeginCapture, AcceptWork, AbortSubmit, CancelFinalizes, CancelLost, storeVars
  <2>6. QED
    BY <2>2, <2>3, <2>4, <2>5 DEF CallerNext
<1>3. QED
  BY <1>1, <1>2, OthersBeginNoCase

LEMMA EnvironmentBeginsNoCase ==
    ASSUME IInv, EnvNext
    PROVE  Evaluating' \subseteq Evaluating /\ begun' = begun
<1>1. pc' = pc /\ at' = at /\ begun' = begun
  BY DEF EnvNext, Purge, OtherReservation, DeadlinePasses, RetryDue, LoseLease, workerVars, historyVars
<1>2. ASSUME NEW j \in Jobs, job[j].state = "running" PROVE job'[j].done = job[j].done
  <2>1. job \in [Jobs -> JobRow]
    BY DEF IInv, Types
  <2>2. CASE \E aged \in SUBSET Jobs : Purge(aged)
    BY <2>1, <2>2 DEF Purge, JobRow
  <2>3. CASE \E k \in Jobs : RetryDue(k)
    BY <1>2, <2>1, <2>3 DEF RetryDue, Put, JobRow
  <2>4. QED
    BY <2>2, <2>3 DEF EnvNext, OtherReservation, DeadlinePasses, LoseLease, storeVars
<1>3. QED
  BY <1>1, <1>2, OthersBeginNoCase

\* The queue implements ExecutionLedger with a limit of one: no case of a job
\* is evaluated twice and one case is evaluated at a time, by all workers
\* together, whatever dies and is taken up again.
THEOREM Refinement == Spec => ImplementsCaseLedger
<1>1. Init => Cases!LedgerInit
  BY DEF Init, Cases!LedgerInit, Evaluating
<1>2. IInv /\ [Next]_vars => [Cases!LedgerNext]_(Cases!ledgerVars)
  <2> SUFFICES ASSUME IInv, [Next]_vars
               PROVE  Cases!LedgerNext \/ UNCHANGED <<Evaluating, begun>>
    BY DEF Cases!ledgerVars
  <2>1. CASE \E w \in Workers : BeginCase(w)
    BY <2>1, BeginsCase
  <2>2. CASE Next /\ ~\E w \in Workers : BeginCase(w)
    BY <2>2, WorkersBeginNoCase, CallersBeginNoCase, EnvironmentBeginsNoCase, EndsCases DEF Next
  <2>3. CASE UNCHANGED vars
    BY <2>3 DEF vars, storeVars, workerVars, historyVars, Evaluating
  <2>4. QED
    BY <2>1, <2>2, <2>3
<1>3. QED
  BY <1>1, <1>2, Invariance, PTL DEF Spec, ImplementsCaseLedger, Cases!LedgerSpec

(***************************************************************************)
(* Archives of retained jobs.                                              *)
(***************************************************************************)

\* Beside the property: a submission that is about to publish brings the bytes
\* of its generation or has seen them, and nothing is collected meanwhile.
ArchiveInv ==
    /\ ArchiveRetained
    /\ \A j \in Jobs : writer = j => exported \/ GenOf[j] \in archives

\* What a step other than publication and retention does to a row: it does not
\* revive it, and leaves its expiry.
SameRetention(j) ==
    /\ job'[j].state # "none" => job[j].state # "none"
    /\ job'[j].expired <=> job[j].expired

\* Steps that neither publish nor expire keep the archives of retained jobs.
LEMMA RetentionKept ==
    ASSUME IInv, ArchiveInv, archives' = archives, exported' = exported,
           writer' = writer \/ writer' = NoJob,
           \A j \in Jobs : SameRetention(j)
    PROVE  ArchiveInv'
BY ParametersAssumption DEF ArchiveInv, ArchiveRetained, SameRetention

\* The row that a job ends with expires as before.
LEMMA FinishRetention ==
    ASSUME NEW old \in JobRow, NEW state, NEW code, NEW uncertain \in BOOLEAN
    PROVE  Finish(old, state, code, uncertain).expired <=> old.expired
<1>1. CASE old.state \in TerminalStates
  BY <1>1 DEF Finish
<1>2. CASE old.state \notin TerminalStates
  <2> DEFINE sent == uncertain /\ old.active /\ old.attempts > old.start
             r == [old EXCEPT !.state = state, !.code = code, !.active = FALSE, !.token = NoWorker,
                              !.uncertain = sent]
  <2>1. Finish(old, state, code, uncertain) = r
    BY <1>2 DEF Finish
  <2> HIDE DEF sent
  <2>2. r.expired = old.expired
    BY DEF JobRow
  <2> HIDE DEF r
  <2>3. QED
    BY <2>1, <2>2
<1>3. QED
  BY <1>1, <1>2

\* So does one that goes back to the queue.
LEMMA DeferRetention ==
    ASSUME NEW j \in Jobs, job[j] \in JobRow, NEW code
    PROVE  Defer(j, code).expired <=> job[j].expired
<1>1. CASE job[j].cancel \/ j \in late
  BY <1>1, FinishRetention DEF Defer
<1>2. CASE ~job[j].cancel /\ j \notin late
  BY <1>2 DEF Defer, JobRow
<1>3. QED
  BY <1>1, <1>2

\* Writing one row that exists, with the same expiry, keeps all retention.
LEMMA PutRetention ==
    ASSUME Types, NEW k, k \in Jobs => job[k].state # "none",
           NEW row, job' = Put(k, row), k \in Jobs => (row.expired <=> job[k].expired)
    PROVE  \A j \in Jobs : SameRetention(j)
BY DEF SameRetention, Put, Types

\* A worker writes rows of jobs that exist.
LEMMA WorkersRetain ==
    ASSUME IInv, NEW w \in Workers, WorkerNext(w)
    PROVE  \A j \in Jobs : SameRetention(j)
<1>1. Types /\ job \in [Jobs -> JobRow]
  BY DEF IInv, Types
<1>2. CASE job' = job
  BY <1>2 DEF SameRetention
<1>3. CASE Recover(w)
  <2> SUFFICES ASSUME NEW j \in Jobs PROVE SameRetention(j)
    OBVIOUS
  <2>1. CASE job[j].state # "running"
    BY <1>3, <2>1 DEF Recover, SameRetention
  <2>2. CASE job[j].state = "running"
    <3>1. job'[j] = Finish(job[j], "interrupted", "none", TRUE)
      BY <1>3, <2>2 DEF Recover
    <3>2. Finish(job[j], "interrupted", "none", TRUE).expired <=> job[j].expired
      BY <1>1, FinishRetention
    <3>3. QED
      BY <2>2, <3>1, <3>2 DEF SameRetention
  <2>3. QED
    BY <2>1, <2>2
<1>4. CASE MarkFinalized(w)
  <2>1. PICK k : k = at[w]
    OBVIOUS
  <2>2. PICK row : job' = Put(k, row) /\ row = [job[k] EXCEPT !.finalized = TRUE]
    BY <1>4, <2>1 DEF MarkFinalized
  <2>3. k \in Jobs /\ job[k].state # "none"
    BY <1>4, <2>1 DEF MarkFinalized, Step, IInv, LockInv, WorkersInv, WorkerInv, IsTerminal, TerminalStates
  <2>4. row.expired <=> job[k].expired
    BY <1>1, <2>2, <2>3 DEF JobRow
  <2>5. QED
    BY <1>1, <2>2, <2>3, <2>4, PutRetention
<1>5. CASE \E j \in Jobs : Claim(w, j)
  <2>1. PICK j \in Jobs : Claim(w, j)
    BY <1>5
  <2>2. \/ job' = Put(j, Finish(job[j], "deadline_exceeded", "none", FALSE))
        \/ job' = Put(j, [job[j] EXCEPT !.state = "running", !.token = w, !.code = "none",
                                        !.deferred = FALSE])
    BY <2>1 DEF Claim
  <2>3. PICK row : job' = Put(j, row) /\ (row.expired <=> job[j].expired)
    <3>1. [job[j] EXCEPT !.state = "running", !.token = w, !.code = "none", !.deferred = FALSE].expired
            = job[j].expired
      BY <1>1 DEF JobRow
    <3>2. Finish(job[j], "deadline_exceeded", "none", FALSE).expired <=> job[j].expired
      BY <1>1, FinishRetention
    <3>3. QED
      BY <2>2, <3>1, <3>2
  <2>4. job[j].state # "none"
    BY <2>1 DEF Claim, Oldest, Eligible
  <2>5. QED
    BY <1>1, <2>3, <2>4, PutRetention
<1>6. CASE \/ ExpireClaimed(w) \/ BeginCase(w) \/ ReserveCall(w) \/ SaveCase(w) \/ FinishJob(w)
           \/ HandleRefusal(w) \/ \E why \in ErrorKinds : UnreserveCall(w, why)
  <2>1. PICK k : k = at[w]
    OBVIOUS
  <2>2. job[k].state # "none"
    BY <1>6, <2>1 DEF ExpireClaimed, BeginCase, ReserveCall, SaveCase, FinishJob, HandleRefusal,
                      UnreserveCall, Owns
  <2>3. ASSUME k \in Jobs, BeginCase(w) \/ ReserveCall(w) \/ SaveCase(w) \/ \E why \in ErrorKinds : UnreserveCall(w, why)
        PROVE  \E row : job' = Put(k, row) /\ (row.expired <=> job[k].expired)
    <3>1. \/ job' = Put(k, [job[k] EXCEPT !.active = TRUE, !.start = job[k].attempts])
          \/ job' = Put(k, [job[k] EXCEPT !.attempts = job[k].attempts + 1])
          \/ job' = Put(k, [job[k] EXCEPT !.attempts = job[k].attempts - 1])
          \/ job' = Put(k, [job[k] EXCEPT !.active = FALSE, !.done = job[k].done + 1])
      BY <2>1, <2>3 DEF BeginCase, ReserveCall, SaveCase, UnreserveCall
    <3>2. /\ [job[k] EXCEPT !.active = TRUE, !.start = job[k].attempts].expired = job[k].expired
          /\ [job[k] EXCEPT !.attempts = job[k].attempts + 1].expired = job[k].expired
          /\ [job[k] EXCEPT !.attempts = job[k].attempts - 1].expired = job[k].expired
          /\ [job[k] EXCEPT !.active = FALSE, !.done = job[k].done + 1].expired = job[k].expired
      BY <1>1, <2>3 DEF JobRow
    <3>3. QED
      BY <3>1, <3>2
  <2>4. ASSUME k \in Jobs, ExpireClaimed(w) \/ FinishJob(w)
        PROVE  \E row : job' = Put(k, row) /\ (row.expired <=> job[k].expired)
    <3>1. CASE ExpireClaimed(w)
      <4>1. job' = Put(k, Finish(job[k], "deadline_exceeded", "none", FALSE))
        BY <2>1, <3>1 DEF ExpireClaimed
      <4>2. Finish(job[k], "deadline_exceeded", "none", FALSE).expired <=> job[k].expired
        BY <1>1, <2>4, FinishRetention
      <4>3. QED
        BY <4>1, <4>2
    <3>2. CASE FinishJob(w)
      <4>1. PICK state \in TerminalStates, code \in Codes :
              \/ Concluded(w) = Finish(job[k], state, code, FALSE)
              \/ Concluded(w) = Finish(job[k], state, code, TRUE)
        BY <1>1, <2>1, ConcludedFact
      <4>2. job' = Put(k, Concluded(w))
        BY <2>1, <3>2 DEF FinishJob
      <4>3. /\ Finish(job[k], state, code, FALSE).expired <=> job[k].expired
            /\ Finish(job[k], state, code, TRUE).expired <=> job[k].expired
        BY <1>1, <2>4, FinishRetention
      <4>4. QED
        BY <4>1, <4>2, <4>3
    <3>3. QED
      BY <2>4, <3>1, <3>2
  <2>5. ASSUME k \in Jobs, HandleRefusal(w)
        PROVE  \E row : job' = Put(k, row) /\ (row.expired <=> job[k].expired)
    <3>1. \/ \E code : job' = Put(k, Defer(k, code))
          \/ \E state, code : job' = Put(k, Finish(job[k], state, code, TRUE))
      BY <2>1, <2>5 DEF HandleRefusal
    <3>2. \A state, code : Finish(job[k], state, code, TRUE).expired <=> job[k].expired
      BY <1>1, <2>5, FinishRetention
    <3>3. \A code : Defer(k, code).expired <=> job[k].expired
      BY <1>1, <2>5, DeferRetention
    <3>4. QED
      BY <3>1, <3>2, <3>3
  <2>6. CASE k \in Jobs
    <3>1. PICK row : job' = Put(k, row) /\ (row.expired <=> job[k].expired)
      BY <1>6, <2>3, <2>4, <2>5, <2>6
    <3>2. QED
      BY <1>1, <2>2, <3>1, PutRetention
  <2>7. CASE k \notin Jobs
    <3>1. PICK row : job' = Put(k, row)
      BY <1>6, <2>1 DEF ExpireClaimed, BeginCase, ReserveCall, SaveCase, FinishJob, HandleRefusal,
                        UnreserveCall
    <3>2. QED
      BY <1>1, <2>7, <3>1, PutRetention
  <2>8. QED
    BY <2>6, <2>7
<1>7. QED
  <2>1. CASE \/ Acquire(w) \/ FinalizeFails(w) \/ FinishOperationFails(w) \/ FinishJobFails(w)
             \/ Stop(w) \/ Crash(w) \/ NothingToClaim(w) \/ FinalizeOwn(w) \/ Exit(w)
             \/ Activate(w) \/ Continue(w) \/ SendCall(w) \/ Requeued(w)
             \/ \E j \in Jobs : FinalizePending(w, j)
    BY <2>1, <1>2 DEF Acquire, FinalizeFails, FinishOperationFails, FinishJobFails, Stop, Crash,
                      NothingToClaim, FinalizeOwn, Exit, Activate, Continue, SendCall, Requeued,
                      FinalizePending, storeVars
  <2>2. CASE \/ \E why \in ErrorKinds : Refuse(w, why) \/ Break(w, why)
             \/ \E readable \in BOOLEAN : FinishOperation(w, readable)
    BY <2>2, <1>2 DEF Refuse, Break, FinishOperation
  <2>3. QED
    BY <2>1, <2>2, <1>3, <1>4, <1>5, <1>6 DEF WorkerNext, Progress

\* Workers neither collect archives nor submit.
LEMMA WorkersKeepArchives ==
    ASSUME NEW w \in Workers, WorkerNext(w)
    PROVE  archives' = archives /\ exported' = exported /\ writer' = writer
<1>1. CASE \/ Acquire(w) \/ Exit(w) \/ Crash(w) \/ NothingToClaim(w) \/ FinalizeFails(w)
           \/ Requeued(w) \/ FinishJobFails(w) \/ Stop(w)
  BY <1>1 DEF Acquire, Exit, Crash, NothingToClaim, FinalizeFails, Requeued, FinishJobFails, Stop,
              storeVars, submitVars, jobRest
<1>2. CASE \/ Recover(w) \/ MarkFinalized(w) \/ FinalizeOwn(w)
           \/ \E j \in Jobs : FinalizePending(w, j) \/ Claim(w, j)
  BY <1>2 DEF Recover, MarkFinalized, FinalizeOwn, FinalizePending, Claim, storeVars, submitVars
<1>3. CASE \/ Continue(w) \/ FinishOperationFails(w) \/ Activate(w)
           \/ \E why \in ErrorKinds : Refuse(w, why) \/ Break(w, why)
           \/ \E readable \in BOOLEAN : FinishOperation(w, readable)
  BY <1>3 DEF Continue, FinishOperationFails, Activate, Refuse, Break, FinishOperation, jobRest, submitVars
<1>4. CASE \/ SaveCase(w) \/ BeginCase(w) \/ ReserveCall(w) \/ SendCall(w)
           \/ \E why \in ErrorKinds : UnreserveCall(w, why)
           \/ ExpireClaimed(w) \/ FinishJob(w) \/ HandleRefusal(w)
  BY <1>4 DEF SaveCase, BeginCase, ReserveCall, SendCall, UnreserveCall, ExpireClaimed, FinishJob,
              HandleRefusal, jobRest, submitVars
<1>5. QED
  BY <1>1, <1>2, <1>3, <1>4 DEF WorkerNext, Progress

\* Publication brings its archive; until then nobody collects it.
LEMMA CallersKeepArchives ==
    ASSUME IInv, ArchiveInv, NEW k \in Jobs, CallerNext(k)
    PROVE  ArchiveInv'
<1>1. Types /\ job \in [Jobs -> JobRow]
  BY DEF IInv, Types
<1>2. CASE BeginCapture(k)
  <2>1. writer # capture => writer = NoJob
    BY <1>1 DEF Types
  <2>2. writer' = NoJob /\ archives' = archives /\ job' = job
    BY <1>2, <2>1 DEF BeginCapture, storeVars
  <2>3. QED
    BY <2>2, ParametersAssumption DEF ArchiveInv, ArchiveRetained
<1>3. CASE AcceptWork(k)
  BY <1>3 DEF AcceptWork, storeVars, ArchiveInv, ArchiveRetained
<1>4. CASE Publish(k)
  <2>1. exported \/ GenOf[k] \in archives
    BY <1>4 DEF Publish, ArchiveInv
  <2>2. archives \subseteq archives' /\ GenOf[k] \in archives' /\ writer' = NoJob
    BY <1>4, <2>1 DEF Publish
  <2>3. \A j \in Jobs \ {k} : job'[j] = job[j]
    BY <1>1, <1>4 DEF Publish, Put
  <2>4. QED
    BY <2>2, <2>3, ParametersAssumption DEF ArchiveInv, ArchiveRetained
<1>5. CASE AbortSubmit(k)
  BY <1>5, ParametersAssumption DEF AbortSubmit, storeVars, ArchiveInv, ArchiveRetained
<1>6. CASE CancelFinalizes(k) \/ CancelLost(k)
  <2>1. archives' = archives /\ exported' = exported /\ writer' = writer /\ job' = job
    BY <1>6 DEF CancelFinalizes, CancelLost, storeVars, submitVars
  <2>2. QED
    BY <2>1, RetentionKept DEF SameRetention
<1>7. CASE Cancel(k)
  <2>1. archives' = archives /\ exported' = exported /\ writer' = writer /\ job[k].state # "none"
    BY <1>7 DEF Cancel, submitVars
  <2>2. CASE job[k].state \in {"queued", "running"}
    <3>1. Finish(job[k], "cancelled", "none", FALSE).expired <=> job[k].expired
      BY <1>1, FinishRetention
    <3>2. [job[k] EXCEPT !.cancel = TRUE].expired = job[k].expired
      BY <1>1 DEF JobRow
    <3>3. PICK row : job' = Put(k, row) /\ (row.expired <=> job[k].expired)
      BY <1>7, <2>2, <3>1, <3>2 DEF Cancel
    <3>4. QED
      BY <1>1, <2>1, <3>3, PutRetention, RetentionKept
  <2>3. CASE job[k].state \notin {"queued", "running"}
    <3>1. job' = job
      BY <1>7, <2>3 DEF Cancel
    <3>2. QED
      BY <2>1, <3>1, RetentionKept DEF SameRetention
  <2>4. QED
    BY <2>2, <2>3
<1>8. CASE CancelMarks(k)
  <2>1. archives' = archives /\ exported' = exported /\ writer' = writer
    BY <1>8 DEF CancelMarks, submitVars
  <2>2. job[k].state # "none"
    BY <1>8 DEF CancelMarks, IInv, JobsInv, CallerInv, IsTerminal, TerminalStates
  <2>3. PICK row : job' = Put(k, row) /\ (row.expired <=> job[k].expired)
    BY <1>1, <1>8 DEF CancelMarks, JobRow
  <2>4. QED
    BY <1>1, <2>1, <2>2, <2>3, PutRetention, RetentionKept
<1>9. QED
  BY <1>2, <1>3, <1>4, <1>5, <1>6, <1>7, <1>8 DEF CallerNext

\* Retention collects what no unexpired job uses, and only when nobody submits.
LEMMA EnvironmentKeepsArchives ==
    ASSUME IInv, ArchiveInv, EnvNext
    PROVE  ArchiveInv'
<1>1. Types /\ job \in [Jobs -> JobRow]
  BY DEF IInv, Types
<1>2. CASE \E aged \in SUBSET Jobs : Purge(aged)
  <2>1. PICK aged \in SUBSET Jobs : Purge(aged)
    BY <1>2
  <2>2. writer' = NoJob
    BY <2>1 DEF Purge, Free, submitVars
  <2>3. \A j \in Jobs : job'[j].state = job[j].state /\ (~job'[j].expired => ~job[j].expired)
    BY <1>1, <2>1 DEF Purge, JobRow
  <2>4. ASSUME NEW j \in Jobs, job'[j].state # "none", ~job'[j].expired
        PROVE  GenOf[j] \in archives'
    <3>1. GenOf[j] \in archives
      BY <2>3, <2>4 DEF ArchiveInv, ArchiveRetained
    <3>2. job[j].state # "none"
      BY <2>3, <2>4
    <3>3. QED
      BY <2>1, <2>4, <3>1, <3>2 DEF Purge
  <2>5. QED
    BY <2>2, <2>4, ParametersAssumption DEF ArchiveInv, ArchiveRetained
<1>3. ASSUME NEW j \in Jobs, RetryDue(j)
      PROVE  ArchiveInv'
  <2>1. archives' = archives /\ exported' = exported /\ writer' = writer /\ job[j].state # "none"
    BY <1>3 DEF RetryDue, submitVars
  <2>2. PICK row : job' = Put(j, row) /\ (row.expired <=> job[j].expired)
    BY <1>1, <1>3 DEF RetryDue, JobRow
  <2>3. QED
    BY <1>1, <2>1, <2>2, PutRetention, RetentionKept
<1>4. CASE OtherReservation \/ \E j \in Jobs : DeadlinePasses(j) \/ LoseLease(j)
  <2>1. archives' = archives /\ exported' = exported /\ writer' = writer /\ job' = job
    BY <1>4 DEF OtherReservation, DeadlinePasses, LoseLease, storeVars, submitVars
  <2>2. QED
    BY <2>1, RetentionKept DEF SameRetention
<1>5. QED
  BY <1>2, <1>3, <1>4 DEF EnvNext

\* The archive that a retained job needs to run, and to be inspected, is there:
\* jobs may share it, and retention may run beside their submission.
THEOREM ArchiveSafety == Spec => []ArchiveRetained
<1>1. Init => ArchiveInv
  BY ParametersAssumption DEF Init, ArchiveInv, ArchiveRetained, NoJobRow
<1>2. IInv /\ ArchiveInv /\ [Next]_vars => ArchiveInv'
  <2> SUFFICES ASSUME IInv, ArchiveInv, [Next]_vars PROVE ArchiveInv'
    OBVIOUS
  <2>1. CASE \E w \in Workers : WorkerNext(w)
    BY <2>1, WorkersRetain, WorkersKeepArchives, RetentionKept
  <2>2. CASE UNCHANGED vars
    BY <2>2 DEF vars, storeVars, submitVars, ArchiveInv, ArchiveRetained
  <2>3. QED
    BY <2>1, <2>2, CallersKeepArchives, EnvironmentKeepsArchives DEF Next
<1>3. ArchiveInv => ArchiveRetained
  BY DEF ArchiveInv
<1>4. QED
  BY <1>1, <1>2, <1>3, Invariance, PTL DEF Spec

=============================================================================
