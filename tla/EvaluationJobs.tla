--------------------------- MODULE EvaluationJobs ---------------------------
(***************************************************************************)
(* Durable evaluation jobs: storage/evaluation_jobs.py and                 *)
(* services/evaluation_jobs.py, with the part of operation admission they  *)
(* use.                                                                    *)
(*                                                                         *)
(* Two databases commit separately.  The jobs database holds the queue and *)
(* the evidence of each job; the operations database holds, per job, the   *)
(* prepaid acceptance that the worker activates and somebody finalizes     *)
(* (module OperationStore, seen here through one acceptance per job).      *)
(* Submitters, cancelling callers, one lock-holding worker and its         *)
(* successors interleave, and each of them can die between two commits.    *)
(*                                                                         *)
(* Abstracted: a job is its (owner, idempotency key) pair, so a duplicate  *)
(* submission is a second submission of the same job; case inputs and      *)
(* results are the number of completed cases, run in suite order; payload  *)
(* digests are left out (stored artifacts are taken to be intact); the     *)
(* clock is the set of jobs past their deadline, and retention may end any *)
(* time after a job has; capacity and authority decisions of admission are *)
(* nondeterministic.                                                       *)
(***************************************************************************)
EXTENDS Naturals, Sequences, FiniteSets

CONSTANTS
    Jobs, NoJob,
    Workers, NoWorker,  \* pool of worker instances; each has its own worker_token
    Mortal,             \* bound: workers that may crash or be stopped
    Cancellable,        \* bound: jobs that callers may cancel
    Perishable,         \* bound: jobs whose deadline may pass
    Generations,
    GenOf,              \* Jobs -> the generation a job captures
    NCases,             \* cases per suite
    MaxCalls,           \* limits.max_provider_calls
    QueueLimit          \* queue_limit

ASSUME ParametersAssumption ==
    /\ NoJob \notin Jobs /\ NoWorker \notin Workers
    /\ IsFiniteSet(Jobs)
    /\ Mortal \subseteq Workers /\ Cancellable \subseteq Jobs /\ Perishable \subseteq Jobs
    /\ GenOf \in [Jobs -> Generations]
    /\ NCases \in Nat \ {0} /\ MaxCalls \in Nat \ {0} /\ QueueLimit \in Nat \ {0}

VARIABLES
    job,        \* evaluation_jobs (with its cases and report): Jobs -> JobRow
    accepted,   \* jobs in the order of accepted_at
    archives,   \* evaluation_job_archives
    quota,      \* the job's row of operation_usage
    live,       \* jobs whose active operation has an owner that holds its lease
    capture,    \* the submission that holds the capture lock
    exported,   \* that submission carries the bytes of its generation archive
    writer,     \* the submission whose transaction holds the jobs write lock
    cancelling, \* progress of eval_cancel's finalize_admission per job
    lock,       \* the worker that holds the worker kernel lock
    pc, at,     \* per worker: its position in run_once, and its job
    kind,       \* per worker: how the operation it runs has ended
    todo,       \* per worker: pending finalizations still to be made
    stopping,   \* workers whose stop event is set
    paused,     \* workers whose _admission_paused event is set
    late,       \* jobs past deadline_at
    begun,      \* history: <<job, case>> whose evaluation ever started
    effects     \* history: <<job, case>> for which a provider request was sent

storeVars == <<job, accepted, archives>>
quotaVars == <<quota, live>>
submitVars == <<capture, exported, writer>>
workerVars == <<lock, pc, at, kind, todo, stopping, paused>>
historyVars == <<begun, effects>>
vars == <<storeVars, quotaVars, submitVars, cancelling, workerVars, late, historyVars>>

TerminalStates == {"completed", "failed", "cancelled", "deadline_exceeded",
                   "budget_exhausted", "interrupted"}
Outcomes == {"completed", "failed", "cancelled", "interrupted"}
Positions == {"new", "idle", "recovered", "mark", "claimed", "refused", "ready", "checked", "case",
              "reserved", "ended", "settled", "finalize", "markOwn", "off"}
ErrorKinds == {"cancelled", "deadline", "budget", "failure", "storage", "accounting", "busy"}
SuccessKinds == {"success", "successCancelled", "successInterrupted"}

JobRow == [state     : {"none", "queued", "running"} \cup TerminalStates,
           done      : 0 .. NCases,       \* completed_case_count
           active    : BOOLEAN,           \* active_case_id is set (to case done + 1)
           attempts  : 0 .. MaxCalls,     \* usage.provider_attempts
           start     : 0 .. MaxCalls,     \* active_case_start_attempts
           cancel    : BOOLEAN,           \* cancel_requested
           token     : Workers \cup {NoWorker},
           deferred  : BOOLEAN,           \* next_attempt_at is in the future
           code      : {"none", "worker_stopped"},  \* failure_code: this one or any other
           uncertain : BOOLEAN,           \* the report's uncertain_case_id is set
           finalized : BOOLEAN,           \* admission_finalized
           expired   : BOOLEAN]           \* result_expired

NoJobRow == [state |-> "none", done |-> 0, active |-> FALSE, attempts |-> 0, start |-> 0,
             cancel |-> FALSE, token |-> NoWorker, deferred |-> FALSE, code |-> "none",
             uncertain |-> FALSE, finalized |-> FALSE, expired |-> FALSE]

IsTerminal(j) == job[j].state \in TerminalStates
Open == {j \in Jobs : job[j].state \in {"queued", "running"}}

\* BEGIN IMMEDIATE on the jobs database succeeds.
Free == writer = NoJob

-----------------------------------------------------------------------------
(* Row transitions shared by several transactions.                         *)

\* Mutant of Finish: the worker's claim outlives the job.
FinishKeepsToken(row, state, code, uncertain) ==
    IF row.state \in TerminalStates
    THEN row
    ELSE [row EXCEPT !.state = state, !.code = code, !.active = FALSE,
                     !.uncertain = uncertain /\ row.active /\ row.attempts > row.start]

\* _finish_report: terminal state and report commit together; a row that is
\* already terminal is returned as it is.
Finish(row, state, code, uncertain) ==
    IF row.state \in TerminalStates
    THEN row
    ELSE [row EXCEPT !.state = state, !.code = code, !.active = FALSE, !.token = NoWorker,
                     !.uncertain = uncertain /\ row.active /\ row.attempts > row.start]

\* defer_admission: work that has not started goes back to the queue.
Defer(j, code) ==
    IF job[j].cancel THEN Finish(job[j], "cancelled", "none", FALSE)
    ELSE IF j \in late THEN Finish(job[j], "deadline_exceeded", "none", FALSE)
    ELSE [job[j] EXCEPT !.state = "queued", !.token = NoWorker, !.deferred = TRUE, !.code = code]

\* _recover_interrupted in the operations database.
RecoveredQuota ==
    [j \in Jobs |-> IF quota[j] = "active" /\ j \notin live THEN "interrupted" ELSE quota[j]]

\* finalize_admission's mapping from job states to operation outcomes.
OutcomeOf(state) ==
    IF state \in {"completed", "cancelled", "interrupted"} THEN state ELSE "failed"

\* store.finish_accepted for job j.
FinalizedQuota(j) ==
    IF RecoveredQuota[j] = "waiting"
    THEN [RecoveredQuota EXCEPT ![j] = OutcomeOf(job[j].state)]
    ELSE RecoveredQuota

Pending(table) == {j \in Jobs : table[j].state \in TerminalStates /\ ~table[j].finalized}

Put(j, row) == [job EXCEPT ![j] = row]

\* budget.remaining() raises: the signal is set or the deadline has passed.
Cancelled(w) == w \in stopping \/ job[at[w]].cancel
Flagged(w) == Cancelled(w) \/ at[w] \in late

\* A budget check may raise why; the durable cancellation flag may be unreadable.
Raises(w, why) ==
    \/ why = "cancelled" /\ Cancelled(w)
    \/ why = "deadline" /\ at[w] \in late
    \/ why = "storage"

\* _running: the guard of every write a worker makes to its job.  A refusal
\* is worker_ownership_lost, which ends the work like any failure.
Owns(w) == job[at[w]].state = "running" /\ job[at[w]].token = w

-----------------------------------------------------------------------------
Init ==
    /\ job = [j \in Jobs |-> NoJobRow]
    /\ accepted = <<>>
    /\ archives = {}
    /\ quota = [j \in Jobs |-> "none"]
    /\ live = {}
    /\ capture = NoJob /\ exported = FALSE /\ writer = NoJob
    /\ cancelling = [j \in Jobs |-> "none"]
    /\ lock = NoWorker
    /\ pc = [w \in Workers |-> "new"]
    /\ at = [w \in Workers |-> NoJob]
    /\ kind = [w \in Workers |-> "none"]
    /\ todo = [w \in Workers |-> {}]
    /\ stopping = {} /\ paused = {}
    /\ late = {}
    /\ begun = {} /\ effects = {}

(* EvaluationJobService.submit and EvaluationJobStore.submit.              *)

\* find_submission, the capture lock, ensure_capacity, the advisory
\* allowance check and retained_archive_digest or the export.  The
\* per-owner lock adds nothing under the global one.
BeginCapture(j) ==
    /\ capture = NoJob
    /\ job[j].state = "none"
    /\ Cardinality(Open) < QueueLimit
    /\ capture' = j
    /\ exported' = (GenOf[j] \notin archives)
    /\ UNCHANGED <<writer, storeVars, quotaVars, cancelling, workerVars, late, historyVars>>

\* The job transaction checks duplicates, capacity and the archive bytes,
\* then accept_work commits in the operations database: a new acceptance, or
\* the one an earlier attempt left behind.
AcceptWork(j) ==
    /\ capture = j /\ Free
    /\ job[j].state = "none"
    /\ Cardinality(Open) < QueueLimit
    /\ exported \/ GenOf[j] \in archives
    /\ writer' = j
    /\ quota' = IF quota[j] = "none" THEN [RecoveredQuota EXCEPT ![j] = "waiting"]
                ELSE RecoveredQuota
    /\ UNCHANGED <<capture, exported, live, storeVars, cancelling, workerVars, late, historyVars>>

\* The job row and its archive commit together.
Publish(j) ==
    /\ writer = j
    /\ job' = Put(j, [NoJobRow EXCEPT !.state = "queued"])
    /\ accepted' = Append(accepted, j)
    /\ archives' = IF exported THEN archives \cup {GenOf[j]} ELSE archives
    /\ writer' = NoJob /\ capture' = NoJob /\ exported' = FALSE
    /\ UNCHANGED <<quotaVars, cancelling, workerVars, late, historyVars>>

\* A refusal, a failed commit or the death of the submitter, at any point.
AbortSubmit(j) ==
    /\ capture = j
    /\ writer' = NoJob /\ capture' = NoJob /\ exported' = FALSE
    /\ UNCHANGED <<storeVars, quotaVars, cancelling, workerVars, late, historyVars>>

-----------------------------------------------------------------------------
(* eval_cancel: EvaluationJobStore.cancel, then finalize_admission.        *)

\* Mutant of Cancel: an update without the guard on the state.
CancelTerminal(j) ==
    /\ j \in Cancellable /\ Free
    /\ job[j].state \notin {"none", "running"}
    /\ job' = Put(j, [job[j] EXCEPT !.state = "cancelled"])
    /\ cancelling' = [cancelling EXCEPT ![j] = "finish"]
    /\ UNCHANGED <<accepted, archives, quotaVars, submitVars, workerVars, late, historyVars>>

Cancel(j) ==
    /\ j \in Cancellable /\ Free
    /\ job[j].state # "none"
    /\ job' = CASE job[j].state = "queued"  -> Put(j, Finish(job[j], "cancelled", "none", FALSE))
                [] job[j].state = "running" -> Put(j, [job[j] EXCEPT !.cancel = TRUE])
                [] OTHER                    -> job
    /\ cancelling' = IF job[j].state = "running" THEN cancelling
                     ELSE [cancelling EXCEPT ![j] = "finish"]
    /\ UNCHANGED <<accepted, archives, quotaVars, submitVars, workerVars, late, historyVars>>

CancelFinalizes(j) ==
    /\ cancelling[j] = "finish"
    /\ quota' = FinalizedQuota(j)
    /\ cancelling' = [cancelling EXCEPT ![j] = IF quota'[j] = "active" THEN "none" ELSE "mark"]
    /\ UNCHANGED <<live, storeVars, submitVars, workerVars, late, historyVars>>

CancelMarks(j) ==
    /\ cancelling[j] = "mark" /\ Free
    /\ job' = Put(j, [job[j] EXCEPT !.finalized = TRUE])
    /\ cancelling' = [cancelling EXCEPT ![j] = "none"]
    /\ UNCHANGED <<accepted, archives, quotaVars, submitVars, workerVars, late, historyVars>>

\* Accounting fails, or the caller's process dies, between the commits.
CancelLost(j) ==
    /\ cancelling[j] # "none"
    /\ cancelling' = [cancelling EXCEPT ![j] = "none"]
    /\ UNCHANGED <<storeVars, quotaVars, submitVars, workerVars, late, historyVars>>

-----------------------------------------------------------------------------
(* The worker outside a job: start, run_once up to the claim, close.       *)

\* One step of worker w: it is at position from and goes on to position to.
Step(w, from, to) ==
    /\ pc[w] = from
    /\ pc' = [pc EXCEPT ![w] = to]

workerRest == <<lock, stopping, paused>>  \* what most worker steps leave alone

Acquire(w) ==
    /\ lock = NoWorker
    /\ Step(w, "new", "idle")
    /\ lock' = w
    /\ UNCHANGED <<at, kind, todo, stopping, paused, storeVars, quotaVars, submitVars, cancelling,
                   late, historyVars>>

\* Mutant of Recover: what a dead claim left running is put back in the queue.
RecoverRequeues(w) ==
    /\ w \notin stopping \cup paused /\ Free
    /\ Step(w, "idle", "recovered")
    /\ job' = [j \in Jobs |-> IF job[j].state = "running"
                              THEN [job[j] EXCEPT !.state = "queued", !.token = NoWorker,
                                                  !.active = FALSE]
                              ELSE job[j]]
    /\ todo' = [todo EXCEPT ![w] = Pending(job')]
    /\ UNCHANGED <<accepted, archives, at, kind, workerRest, quotaVars, submitVars, cancelling,
                   late, historyVars>>

\* Mutant of Recover: only terminal jobs are looked at.
RecoverNothing(w) ==
    /\ w \notin stopping \cup paused /\ Free
    /\ Step(w, "idle", "recovered")
    /\ todo' = [todo EXCEPT ![w] = Pending(job)]
    /\ UNCHANGED <<job, accepted, archives, at, kind, workerRest, quotaVars, submitVars, cancelling,
                   late, historyVars>>

\* recover_interrupted: whatever a dead claim left running becomes
\* interrupted; then pending_admission_finalizations is read.
Recover(w) ==
    /\ w \notin stopping \cup paused /\ Free
    /\ Step(w, "idle", "recovered")
    /\ job' = [j \in Jobs |-> IF job[j].state = "running"
                              THEN Finish(job[j], "interrupted", "none", TRUE)
                              ELSE job[j]]
    /\ todo' = [todo EXCEPT ![w] = Pending(job')]
    /\ UNCHANGED <<accepted, archives, at, kind, workerRest, quotaVars, submitVars, cancelling,
                   late, historyVars>>

\* finalize_admission of a pending job, first database.  An acceptance that
\* is still active aborts the pass, which starts over.
FinalizePending(w, j) ==
    /\ j \in todo[w]
    /\ quota' = FinalizedQuota(j)
    /\ IF quota'[j] = "active"
       THEN Step(w, "recovered", "idle") /\ at' = at /\ todo' = [todo EXCEPT ![w] = {}]
       ELSE Step(w, "recovered", "mark") /\ at' = [at EXCEPT ![w] = j] /\ todo' = todo
    /\ UNCHANGED <<live, kind, workerRest, storeVars, submitVars, cancelling, late, historyVars>>

\* mark_admission_finalized, for a pending job or the worker's own.
MarkFinalized(w) ==
    /\ Free
    /\ Step(w, "mark", "recovered") \/ Step(w, "markOwn", "idle")
    /\ job' = Put(at[w], [job[at[w]] EXCEPT !.finalized = TRUE])
    /\ todo' = [todo EXCEPT ![w] = @ \ {at[w]}]
    /\ at' = [at EXCEPT ![w] = NoJob]
    /\ UNCHANGED <<accepted, archives, kind, workerRest, quotaVars, submitVars, cancelling,
                   late, historyVars>>

\* An unconfirmed quota write: accounting_incomplete pauses the worker.
FinalizeFails(w) ==
    /\ \/ Step(w, "recovered", "idle") /\ todo[w] # {}
       \/ Step(w, "finalize", "idle")
    /\ at' = [at EXCEPT ![w] = NoJob]
    /\ todo' = [todo EXCEPT ![w] = {}]
    /\ paused' = paused \cup {w}
    /\ UNCHANGED <<lock, kind, stopping, storeVars, quotaVars, submitVars, cancelling, late,
                   historyVars>>

Eligible(j) == job[j].state = "queued" /\ (~job[j].deferred \/ j \in late)

\* The oldest eligible job.
Oldest(j) ==
    \E i \in DOMAIN accepted :
        /\ accepted[i] = j /\ Eligible(j)
        /\ \A h \in 1 .. i - 1 : ~Eligible(accepted[h])

Claim(w, j) ==
    /\ w \notin stopping /\ todo[w] = {} /\ Free
    /\ Oldest(j)
    /\ at' = [at EXCEPT ![w] = j]
    /\ IF j \in late
       THEN /\ Step(w, "recovered", "finalize")
            /\ job' = Put(j, Finish(job[j], "deadline_exceeded", "none", FALSE))
       ELSE /\ Step(w, "recovered", "claimed")
            /\ job' = Put(j, [job[j] EXCEPT !.state = "running", !.token = w, !.code = "none",
                                            !.deferred = FALSE])
    /\ UNCHANGED <<accepted, archives, kind, todo, workerRest, quotaVars, submitVars, cancelling,
                   late, historyVars>>

NothingToClaim(w) ==
    /\ todo[w] = {}
    /\ w \in stopping \/ \A j \in Jobs : ~Eligible(j)
    /\ Step(w, "recovered", "idle")
    /\ UNCHANGED <<at, kind, todo, workerRest, storeVars, quotaVars, submitVars, cancelling,
                   late, historyVars>>

\* finalize_admission of the job this worker has just finished.
FinalizeOwn(w) ==
    /\ pc[w] = "finalize" /\ IsTerminal(at[w])
    /\ quota' = FinalizedQuota(at[w])
    /\ Step(w, "finalize", IF quota'[at[w]] = "active" THEN "idle" ELSE "markOwn")
    /\ at' = IF quota'[at[w]] = "active" THEN [at EXCEPT ![w] = NoJob] ELSE at
    /\ UNCHANGED <<live, kind, todo, workerRest, storeVars, submitVars, cancelling, late,
                   historyVars>>

\* close sets the stop event; the thread exits between jobs and the lock goes.
Stop(w) ==
    /\ w \in Mortal \ stopping
    /\ pc[w] \notin {"new", "off"}
    /\ stopping' = stopping \cup {w}
    /\ UNCHANGED <<lock, pc, at, kind, todo, paused, storeVars, quotaVars, submitVars, cancelling,
                   late, historyVars>>

Exit(w) ==
    /\ w \in stopping
    /\ Step(w, "idle", "off")
    /\ lock' = NoWorker
    /\ stopping' = stopping \ {w} /\ paused' = paused \ {w}
    /\ UNCHANGED <<at, kind, todo, storeVars, quotaVars, submitVars, cancelling, late, historyVars>>

\* The process dies: both kernel locks, the worker's and its lease's, go.
Crash(w) ==
    /\ w \in Mortal
    /\ pc[w] \notin {"new", "off"}
    /\ pc' = [pc EXCEPT ![w] = "off"]
    /\ lock' = NoWorker
    /\ live' = live \ {at[w]}
    /\ at' = [at EXCEPT ![w] = NoJob]
    /\ todo' = [todo EXCEPT ![w] = {}]
    /\ kind' = [kind EXCEPT ![w] = "none"]
    /\ stopping' = stopping \ {w} /\ paused' = paused \ {w}
    /\ UNCHANGED <<quota, storeVars, submitVars, cancelling, late, historyVars>>

-----------------------------------------------------------------------------
(* The worker inside a job: EvaluationJobWorker._execute.                  *)

jobRest == <<at, todo, workerRest, accepted, archives, submitVars, cancelling, late>>

\* The deadline passed between the claim and the first look at the clock.
ExpireClaimed(w) ==
    /\ Free
    /\ Step(w, "claimed", "finalize")
    /\ Owns(w) /\ at[w] \in late
    /\ job' = Put(at[w], Finish(job[at[w]], "deadline_exceeded", "none", FALSE))
    /\ UNCHANGED <<kind, jobRest, quotaVars, historyVars>>

\* run_accepted activates the waiting acceptance and takes an execution slot.
Activate(w) ==
    /\ Step(w, "claimed", "ready")
    /\ ~Flagged(w)
    /\ RecoveredQuota[at[w]] = "waiting"
    /\ quota' = [RecoveredQuota EXCEPT ![at[w]] = "active"]
    /\ live' = live \cup {at[w]}
    /\ UNCHANGED <<kind, job, jobRest, historyVars>>

\* Admission refuses before any provider work: no capacity, cancelled or
\* stopped, past the deadline, withdrawn authority or invalid inputs, storage.
Refuse(w, why) ==
    /\ Step(w, "claimed", "refused")
    /\ why \in {"busy", "failure"} \/ Raises(w, why)
    /\ kind' = [kind EXCEPT ![w] = why]
    /\ quota' = RecoveredQuota
    /\ UNCHANGED <<live, job, jobRest, historyVars>>

\* budget.remaining() between cases.
Continue(w) ==
    /\ pc[w] = "ready" /\ ~Flagged(w)
    /\ IF job[at[w]].done < NCases
       THEN Step(w, "ready", "checked") /\ kind' = kind
       ELSE Step(w, "ready", "ended") /\ kind' = [kind EXCEPT ![w] = "success"]
    /\ UNCHANGED <<job, jobRest, quotaVars, historyVars>>

\* begin_case commits before the evaluator can start.
BeginCase(w) ==
    /\ Free
    /\ Step(w, "checked", "case")
    /\ Owns(w) /\ ~job[at[w]].active
    /\ job' = Put(at[w], [job[at[w]] EXCEPT !.active = TRUE, !.start = job[at[w]].attempts])
    /\ begun' = begun \cup {<<at[w], job[at[w]].done + 1>>}
    /\ UNCHANGED <<kind, effects, jobRest, quotaVars>>

\* Mutant of ReserveCall: the attempt is counted in memory only.
ReserveCallInMemory(w) ==
    /\ Step(w, "case", "reserved")
    /\ Free /\ ~Flagged(w)
    /\ UNCHANGED <<kind, job, jobRest, quotaVars, historyVars>>

\* reserve_provider_call: the attempt is durable before it is sent ...
ReserveCall(w) ==
    /\ Step(w, "case", "reserved")
    /\ Free /\ Owns(w) /\ ~Flagged(w)
    /\ job[at[w]].attempts < MaxCalls
    /\ job' = Put(at[w], [job[at[w]] EXCEPT !.attempts = @ + 1])
    /\ UNCHANGED <<kind, jobRest, quotaVars, historyVars>>

\* ... and is sent if a second look at the budget still allows it ...
SendCall(w) ==
    /\ Step(w, "reserved", "case")
    /\ ~Flagged(w)
    /\ effects' = effects \cup {<<at[w], job[at[w]].done + 1>>}
    /\ UNCHANGED <<kind, begun, job, jobRest, quotaVars>>

\* ... or taken back, known not to have been sent.
UnreserveCall(w, why) ==
    /\ Step(w, "reserved", "ended")
    /\ Free /\ Owns(w) /\ Raises(w, why)
    /\ kind' = [kind EXCEPT ![w] = why]
    /\ job' = Put(at[w], [job[at[w]] EXCEPT !.attempts = @ - 1])
    /\ UNCHANGED <<jobRest, quotaVars, historyVars>>

\* Mutant of SaveCase: the completed count is not advanced.
SaveCaseUncounted(w) ==
    /\ Free
    /\ Step(w, "case", "ready")
    /\ job[at[w]].active
    /\ job' = Put(at[w], [job[at[w]] EXCEPT !.active = FALSE])
    /\ UNCHANGED <<kind, jobRest, quotaVars, historyVars>>

SaveCase(w) ==
    /\ Free
    /\ Step(w, "case", "ready")
    /\ Owns(w) /\ job[at[w]].active
    /\ job' = Put(at[w], [job[at[w]] EXCEPT !.active = FALSE, !.done = @ + 1])
    /\ UNCHANGED <<kind, jobRest, quotaVars, historyVars>>

\* The operation raises: budget, provider, evaluation or storage (which may
\* also keep a reservation from being taken back).
Break(w, why) ==
    /\ \E from \in {"ready", "checked", "case", "reserved"} : Step(w, from, "ended")
    /\ \/ why = "failure" \/ Raises(w, why)
       \/ why = "budget" /\ pc[w] = "case" /\ job[at[w]].attempts = MaxCalls
    /\ pc[w] = "reserved" => why = "storage"
    /\ kind' = [kind EXCEPT ![w] = why]
    /\ UNCHANGED <<job, jobRest, quotaVars, historyVars>>

\* OperationAdmissionService._execute records the outcome, reading the stop
\* event and then the durable cancellation flag, which may be unreadable.
FinishOperation(w, readable) ==
    LET stopped == w \in stopping
        cancelled == ~stopped /\ readable /\ job[at[w]].cancel
        success == kind[w] = "success"
        outcome == CASE stopped            -> "interrupted"
                     [] ~stopped /\ ~readable -> "failed"
                     [] cancelled          -> "cancelled"
                     [] OTHER              -> IF success THEN "completed" ELSE "failed"
    IN  /\ Step(w, "ended", "settled")
        /\ quota' = IF quota[at[w]] = "active" /\ at[w] \in live
                    THEN [quota EXCEPT ![at[w]] = outcome] ELSE quota
        /\ live' = live \ {at[w]}
        /\ kind' = IF ~success THEN kind
                   ELSE [kind EXCEPT ![w] = CASE ~stopped /\ ~readable -> "storage"
                                              [] stopped   -> "successInterrupted"
                                              [] cancelled -> "successCancelled"
                                              [] OTHER     -> "success"]
        /\ UNCHANGED <<job, jobRest, historyVars>>

\* The outcome could not be recorded: the row stays active and keeps its lease.
FinishOperationFails(w) ==
    /\ Step(w, "ended", "settled")
    /\ kind' = [kind EXCEPT ![w] = "accounting"]
    /\ paused' = paused \cup {w}
    /\ UNCHANGED <<quotaVars, at, todo, lock, stopping, accepted, archives, submitVars, cancelling,
                   late, job, historyVars>>

\* The job state for an error, decided when the handler runs.
ErrorState(w) ==
    IF w \in stopping THEN "interrupted"
    ELSE CASE kind[w] = "cancelled" -> "cancelled"
           [] kind[w] = "deadline"  -> "deadline_exceeded"
           [] kind[w] = "budget"    -> "budget_exhausted"
           [] kind[w] = "storage"   -> "interrupted"
           [] OTHER                 -> "failed"

ErrorCode(w) == IF w \in stopping THEN "worker_stopped" ELSE "none"

\* The final row of started work.  After a success it repeats the stop and
\* cancellation decisions that the operation's own outcome was taken from.
Concluded(w) ==
    CASE kind[w] = "success"          -> Finish(job[at[w]], "completed", "none", FALSE)
      [] kind[w] = "successCancelled" -> Finish(job[at[w]], "cancelled", "none", FALSE)
      [] kind[w] = "successInterrupted" ->
            Finish(job[at[w]], "interrupted", "worker_stopped", FALSE)
      [] OTHER -> Finish(job[at[w]], ErrorState(w), ErrorCode(w), TRUE)

\* Terminal state and report commit together.
FinishJob(w) ==
    /\ Free
    /\ Step(w, "settled", "finalize")
    /\ Owns(w)
    /\ job' = Put(at[w], Concluded(w))
    /\ kind' = [kind EXCEPT ![w] = "none"]
    /\ UNCHANGED <<jobRest, quotaVars, historyVars>>

Deferrable(w) == kind[w] = "busy" \/ (kind[w] = "cancelled" /\ w \in stopping)

Unstarted(row) == ~row.active /\ row.done = 0 /\ row.attempts = 0

\* Unstarted work: capacity and stop defer it, anything else ends it.
HandleRefusal(w) ==
    /\ Free
    /\ Step(w, "refused", "finalize")
    /\ Owns(w)
    /\ \/ /\ Deferrable(w) /\ Unstarted(job[at[w]])
          /\ job' = Put(at[w], Defer(at[w], IF kind[w] = "busy" THEN "none" ELSE "worker_stopped"))
       \/ /\ ~Deferrable(w)
          /\ job' = Put(at[w], Finish(job[at[w]], ErrorState(w), ErrorCode(w), TRUE))
    /\ kind' = [kind EXCEPT ![w] = "none"]
    /\ UNCHANGED <<jobRest, quotaVars, historyVars>>

\* finalize_admission returns at once for a job that went back to the queue.
Requeued(w) ==
    /\ Step(w, "finalize", "idle")
    /\ ~IsTerminal(at[w])
    /\ at' = [at EXCEPT ![w] = NoJob]
    /\ UNCHANGED <<kind, todo, workerRest, storeVars, quotaVars, submitVars, cancelling, late,
                   historyVars>>

\* The terminal write fails: after a success the handler tries once more with
\* storage_failure, after an error the pass is given up.
FinishJobFails(w) ==
    \/ /\ kind[w] \in SuccessKinds
       /\ Step(w, "settled", "settled")
       /\ kind' = [kind EXCEPT ![w] = "storage"]
       /\ UNCHANGED <<job, jobRest, quotaVars, historyVars>>
    \/ /\ \E from \in {"settled", "refused"} : Step(w, from, "idle")
       /\ kind[w] \notin SuccessKinds
       /\ at' = [at EXCEPT ![w] = NoJob]
       /\ kind' = [kind EXCEPT ![w] = "none"]
       /\ UNCHANGED <<todo, workerRest, storeVars, quotaVars, submitVars, cancelling,
                      late, historyVars>>

-----------------------------------------------------------------------------
(* Retention, other users of the operations database, and time.            *)

\* Mutant of Purge: an expired job takes its archive along, shared or not.
PurgeSharedArchives(aged) ==
    /\ Free
    /\ \A j \in aged : IsTerminal(j)
    /\ job' = [j \in Jobs |-> [job[j] EXCEPT !.expired = @ \/ j \in aged]]
    /\ archives' = IF capture = NoJob THEN archives \ {GenOf[j] : j \in aged} ELSE archives
    /\ UNCHANGED <<accepted, quotaVars, submitVars, cancelling, workerVars, late, historyVars>>

\* purge_expired, for the jobs that are past expires_at; archives are
\* collected only under the capture lock.
Purge(aged) ==
    /\ Free
    /\ \A j \in aged : IsTerminal(j)
    /\ job' = [j \in Jobs |-> [job[j] EXCEPT !.expired = @ \/ j \in aged]]
    /\ archives' = IF capture = NoJob
                   THEN {g \in archives : \E j \in Jobs : /\ job[j].state # "none"
                                                          /\ ~job'[j].expired
                                                          /\ GenOf[j] = g}
                   ELSE archives
    /\ UNCHANGED <<accepted, quotaVars, submitVars, cancelling, workerVars, late, historyVars>>

\* Any other service's reservation recovers abandoned rows.
OtherReservation ==
    /\ quota' = RecoveredQuota
    /\ UNCHANGED <<live, storeVars, submitVars, cancelling, workerVars, late, historyVars>>

\* The lease of a closed service that kept an unresolved operation goes when
\* its owner object is collected or its process exits.
Executing(w) == pc[w] \in {"ready", "checked", "case", "reserved", "ended"}

LoseLease(j) ==
    /\ j \in live
    /\ \A w \in Workers : ~(Executing(w) /\ at[w] = j)
    /\ live' = live \ {j}
    /\ UNCHANGED <<quota, storeVars, submitVars, cancelling, workerVars, late, historyVars>>

DeadlinePasses(j) ==
    /\ j \in Perishable
    /\ job[j].state # "none"
    /\ late' = late \cup {j}
    /\ UNCHANGED <<storeVars, quotaVars, submitVars, cancelling, workerVars, historyVars>>

\* next_attempt_at, one second after a deferral, is reached.
RetryDue(j) ==
    /\ job[j].state = "queued" /\ job[j].deferred
    /\ job' = Put(j, [job[j] EXCEPT !.deferred = FALSE])
    /\ UNCHANGED <<accepted, archives, quotaVars, submitVars, cancelling, workerVars, late,
                   historyVars>>

-----------------------------------------------------------------------------
\* What a running worker does unless something prevents it.
Progress(w) ==
    \/ Recover(w) \/ MarkFinalized(w) \/ NothingToClaim(w) \/ FinalizeOwn(w) \/ Exit(w)
    \/ \E j \in Jobs : FinalizePending(w, j) \/ Claim(w, j)
    \/ ExpireClaimed(w) \/ Activate(w) \/ Continue(w) \/ BeginCase(w)
    \/ ReserveCall(w) \/ SendCall(w) \/ SaveCase(w)
    \/ \E why \in ErrorKinds : Refuse(w, why) \/ UnreserveCall(w, why) \/ Break(w, why)
    \/ \E readable \in BOOLEAN : FinishOperation(w, readable)
    \/ FinishJob(w) \/ HandleRefusal(w) \/ Requeued(w)

WorkerNext(w) ==
    \/ Acquire(w) \/ Progress(w)
    \/ FinalizeFails(w) \/ FinishOperationFails(w) \/ FinishJobFails(w)
    \/ Stop(w) \/ Crash(w)

CallerNext(j) ==
    \/ BeginCapture(j) \/ AcceptWork(j) \/ Publish(j) \/ AbortSubmit(j)
    \/ Cancel(j) \/ CancelFinalizes(j) \/ CancelMarks(j) \/ CancelLost(j)

EnvNext ==
    \/ \E aged \in SUBSET Jobs : Purge(aged)
    \/ OtherReservation
    \/ \E j \in Jobs : DeadlinePasses(j) \/ RetryDue(j) \/ LoseLease(j)

Next ==
    \/ \E w \in Workers : WorkerNext(w)
    \/ \E j \in Jobs : CallerNext(j)
    \/ EnvNext

Spec == Init /\ [][Next]_vars

(* Fairness.  The kernel schedules the worker thread, and SQLite's busy     *)
(* timeout lets it through whenever other writers keep releasing the lock   *)
(* (strong fairness); submissions end; clocks advance; abandoned owner      *)
(* objects are collected.  Crashes, stops, cancellations, new submissions   *)
(* and failures are not fair: they may never happen.                        *)
FairSpec ==
    /\ Spec
    /\ \A w \in Workers : WF_vars(Acquire(w)) /\ SF_vars(Progress(w))
    /\ \A j \in Jobs :
        /\ WF_vars(Publish(j) \/ AbortSubmit(j))
        /\ WF_vars(DeadlinePasses(j))
        /\ WF_vars(RetryDue(j))
        /\ WF_vars(LoseLease(j))

-----------------------------------------------------------------------------
(* Properties.                                                             *)

\* Every variable has its type, and the claims of a row agree: only a running
\* job has a token or an active case.
TypeOK ==
    /\ job \in [Jobs -> JobRow]
    /\ \A j \in Jobs : /\ job[j].token # NoWorker <=> job[j].state = "running"
                       /\ job[j].active => job[j].state = "running"
    /\ accepted \in Seq(Jobs)
    /\ archives \subseteq Generations
    /\ quota \in [Jobs -> {"none", "waiting", "active"} \cup Outcomes]
    /\ live \subseteq Jobs
    /\ capture \in Jobs \cup {NoJob} /\ exported \in BOOLEAN /\ writer \in {NoJob, capture}
    /\ cancelling \in [Jobs -> {"none", "finish", "mark"}]
    /\ lock \in Workers \cup {NoWorker}
    /\ pc \in [Workers -> Positions]
    /\ at \in [Workers -> Jobs \cup {NoJob}]
    /\ kind \in [Workers -> {"none"} \cup ErrorKinds \cup SuccessKinds]
    /\ todo \in [Workers -> SUBSET Jobs]
    /\ stopping \subseteq Workers /\ paused \subseteq Workers
    /\ late \subseteq Jobs
    /\ begun \subseteq Jobs \X (1 .. NCases) /\ effects \subseteq begun

Claimed(w) == pc[w] \in {"claimed", "refused", "settled"} \/ Executing(w)

\* A worker that is on a job owns it until it ends it: the job stays running
\* under its token, whatever cancellations, recoveries and successors do, so
\* worker_ownership_lost is never raised and no two workers share a job.
WorkerKeepsClaim ==
    \A w \in Workers : Claimed(w) =>
        /\ lock = w
        /\ job[at[w]].state = "running" /\ job[at[w]].token = w
        /\ \A j \in Jobs \ {at[w]} : job[j].state # "running"
        /\ Executing(w) => quota[at[w]] = "active" /\ at[w] \in live

\* Work in the queue has been charged and never started, also after it was
\* deferred or its first submission died between the two commits.
QueuedWorkIsPrepaidAndUnstarted ==
    \A j \in Jobs : job[j].state = "queued" =>
        /\ quota[j] = "waiting"
        /\ \A c \in 1 .. NCases : <<j, c>> \notin begun

\* Both: a job is owned by the one worker that is on it, or waits prepaid.
WorkIsOwnedOrPrepaid == WorkerKeepsClaim /\ QueuedWorkIsPrepaidAndUnstarted

\* A job is reported completed only if all its cases are saved and the
\* operations database says completed too.
CompletedIsAccounted ==
    \A j \in Jobs : job[j].state = "completed" => job[j].done = NCases /\ quota[j] = "completed"

\* admission_finalized is set only when the acceptance of the job has reached
\* a terminal outcome.
FinalizedIsSettled ==
    \A j \in Jobs : job[j].finalized => IsTerminal(j) /\ quota[j] \in Outcomes

\* A case for which a provider request was sent and no result was saved is
\* named in the report, across crashes, failed writes and cancellation.
EffectsReported ==
    \A j \in Jobs : IsTerminal(j) =>
        \A c \in 1 .. NCases : <<j, c>> \in effects /\ c > job[j].done => job[j].uncertain

\* All three: the outcomes of the two databases and the report tell what was done.
OutcomesAreAccounted == CompletedIsAccounted /\ FinalizedIsSettled /\ EffectsReported

\* The generation of every job whose payload is retained stays archived, also
\* when jobs share a generation and retention runs beside submissions.
ArchiveRetained ==
    \A j \in Jobs : job[j].state # "none" /\ ~job[j].expired => GenOf[j] \in archives

\* A terminal job is immutable but for its accounting flag and its expiry.
TerminalJobIsFinal ==
    [][\A j \in Jobs : IsTerminal(j) =>
        job'[j] = [job[j] EXCEPT !.finalized = job'[j].finalized, !.expired = job'[j].expired]]_vars

\* No case is evaluated twice, and one case at a time is evaluated, by all
\* workers together, across crashes, restarts and requeues.
Evaluating == {<<at[w], job[at[w]].done + 1>> : w \in {v \in Workers : pc[v] \in {"case", "reserved"}}}

Cases == INSTANCE ExecutionLedger WITH
             Ops <- Jobs \X (1 .. NCases), Limit <- 1, running <- Evaluating, started <- begun

ImplementsCaseLedger == Cases!LedgerSpec

\* Every queued job ends and its acceptance is finalized, unless a worker has
\* paused because accounting is uncertain.
EveryJobSettles ==
    \A j \in Jobs :
        job[j].state = "queued" ~> (IsTerminal(j) /\ job[j].finalized) \/ lock \in paused

\* docs/evaluation-jobs.md: worker shutdown "records interrupted in both the
\* job and quota outcomes".
ShutdownIsRecordedInBoth ==
    \A j \in Jobs :
        IsTerminal(j) /\ job[j].finalized /\ job[j].code = "worker_stopped" =>
            job[j].state = "interrupted" /\ quota[j] = "interrupted"

=============================================================================
