# Verification of PolicyNIM

PolicyNIM answers policy questions for coding agents: it publishes a corpus of policies as
immutable *generations*, retrieves from them, asks providers (NVIDIA endpoints), and serves tools
over MCP, locally or as a hosted service with accounts, quotas and background evaluation jobs.
Much of its difficulty is coordination: several processes share SQLite databases, lease files,
configuration files and a directory of generations, and each of them may die between any two steps.
The rest is judgement: what a model replies, what a document declares and what an editor changed
meanwhile must not become guidance, a decision or a verdict unchecked. This directory holds TLA+
models of both, the TLC configurations that check them, and proofs of the theorems that matter most.

Source paths below are relative to `src/src/policynim/`.

## Layout

| module | role |
|---|---|
| `ExecutionLedger` | abstract: what admission promises - nothing executes twice, at most `Limit` at once |
| `OperationStore` | operation accounting, owner leases, admission (`storage/operation_store.py`, `storage/operation_lease.py`, `services/operation_admission.py`) |
| `OperationStoreProofs` | its invariants, the finality of its history and its refinement of `ExecutionLedger`, proved with TLAPS |
| `EvaluationJobs` | evaluation jobs, their worker and their two databases (`storage/evaluation_jobs.py`, `services/evaluation_jobs.py`) |
| `EvaluationJobsProofs` | its invariants, the finality of jobs and its refinement of `ExecutionLedger` per case, proved with TLAPS |
| `JobReports` | how the report of a job is sealed, migrated, fetched in parts and purged (`storage/evaluation_jobs.py`, `interfaces/evaluation_jobs_mcp.py`) |
| `RetainedStore` | abstract: what a generation store promises to its readers |
| `Generations` | publication, selection, leases and retention (`services/generations.py`, `storage/file_lock.py`) |
| `GenerationsProofs` | its invariants, the switch of the selection and its refinement of `RetainedStore`, proved with TLAPS |
| `OwnedRemoval` | one directory of that store from stage to trash, and who may delete it |
| `SourceCapture` | the sources of a generation, read while others edit them (`services/generation_sources.py`) |
| `Bootstrap` | how the root of a store comes to be (`services/generations.py`, `interfaces/hosted.py`) |
| `ToolExecutor` | tool calls and the shutdown of a server (`interfaces/mcp.py`, `providers/lifecycle.py`) |
| `ProviderRequest` | provider requests under a budget (`operations.py`, `providers/nvidia.py`) |
| `ServingProofs` | `ToolExecutor`, `ProviderRequest` and `JobReports`: slots match calls, attempts are recorded and welcome, readers get the sealed report, proved with TLAPS |
| `HostedAccess` | a request's way through authentication and scopes (`services/authorization.py`, `interfaces/mcp_authorization.py`, `interfaces/mcp.py`) |
| `SignIn` | the portal's sign-in and its rate limit (`interfaces/mcp.py`, `services/beta_auth.py`) |
| `AccessProofs` | that only authorized work runs, denials are told, slots are returned and sessions are one's own, proved with TLAPS |
| `CredentialRegister` | abstract: one current key per account, and whose work is accepted |
| `BetaAccounts` | accounts, keys and key-generation forms (`storage/auth_store.py`, `services/beta_auth.py`, a route of `interfaces/mcp.py`) |
| `BetaAccountsProofs` | its invariants and its refinement of `CredentialRegister`, proved with TLAPS |
| `RuntimeExecution` | guarded actions and their evidence (`services/runtime_execution.py`, `storage/runtime_evidence.py`, `services/runtime_evidence_report.py`) |
| `EffectivePolicies` | from packs and a profile to the decision about an action (`services/profiles.py`, `ingest/loader.py`, `services/runtime_decision.py`) |
| `ProfileUpdate` | the reviewed update of a profile (`services/profiles.py`) |
| `PolicyDocument` | from the lines of a document to rules and chunks (`ingest/parser.py`, `ingest/chunking.py`) |
| `IndexBuild` | the two artifacts of a standalone index (`services/ingest.py`, `storage/sqlite_vec.py`) |
| `VectorReplica` | replicas in external vector databases (`storage/*_vectors.py`, `services/vector_storage.py`) |
| `Onboarding` | the setup workflow (`services/onboarding.py`) |
| `LocalProofs` | `RuntimeExecution`, `OwnedRemoval`, `Bootstrap`, `ProfileUpdate`, `IndexBuild`, `VectorReplica` and `Onboarding`: evidence is true, what is ready is whole, leftovers are reclaimed, edits are kept, proved with TLAPS |
| `Retrieval` | search and reranking (`services/search.py`, `storage/sqlite_vec.py`, `providers/nvidia.py`) |
| `ContentProofs` | `SourceCapture` and `EffectivePolicies`: captures are whole, reviewed policies decide, proved with TLAPS |
| `PolicyAnswer` | from a task to guidance (`services/router.py`, `compiler.py`, `preflight.py`, `conformance.py`, `regeneration.py`, `evidence_trace.py`) |
| `EvaluationSuite` | the evaluation of a suite of cases (`services/eval.py`) |
| `MCOperationStore`, `MCEvaluationJobs`, `MCGenerations`, `MCBetaAccounts` | constants and symmetry sets of one module for TLC |
| `MCHosted`, `MCServing`, `MCLocal`, `MCContent` | several modules in one run, see *Composites* |

Each module has one action per operation or per step between two commits, with the source's
names where TLA+ allows. `PROJECT.json` maps every definition to its lines. Definitions whose
comment starts with "Mutant of" are deliberately wrong variants that show which property notices
which bug; no specification uses them.

## Inventory

For every component: its state, its operations, what it interacts with, what is hard, and what
makes it correct, with the modules that model it. `PROJECT.json` says what each of them leaves out.

1. **Operation accounting, leases and admission** (`OperationStore`). State: the table
   `operation_usage`; a lease file per owner, kept locked; in each service the flags
   `_has_admitted` and `_accounting_incomplete`. Operations: `reserve`, `accept_work`, `activate`,
   `finish`, `finish_accepted`, recovery of abandoned rows, retention, sweep of lease files, open,
   `close`. Used by every hosted tool call and by evaluation jobs. Hard: owners in different
   processes recover each other; the sweep is not one transaction; timestamps are sampled before
   the writer lock is obtained; terminal writes fail. Correct when live work keeps its slot, caps
   hold for what executes, charges respect the daily allowance, outcomes are final, leaked slots
   are visible.
2. **Evaluation jobs** (`EvaluationJobs`, `JobReports`). State: jobs, cases, reports and archives in one
   database, the prepaid acceptance in another, the worker's kernel lock, its stop and pause events.
   Operations: submit, cancel, claim, recover, begin/reserve/save case, defer, finish, finalize,
   purge. Hard: two databases without a common transaction, a successor that takes over after a
   crash, retries that may not repeat provider effects. Correct when a worker owns what it runs, no
   case is evaluated twice, both databases end in agreement, sent requests are never forgotten, and a
   reader gets the report that was sealed or none.
3. **Policy generations** (`Generations`, `OwnedRemoval`, `Bootstrap`). State: `objects/`,
   `staging/`, `leases/`, `trash/`, `active.json`, the owner record, two kernel locks. Operations:
   build, migrate, import (one publication), activate, rollback, prune, pin, close, bootstrap. Hard:
   readers and retention share only a short lock; death between rename, sync and pointer
   replacement; leases inherited by fork; leftovers that look like somebody's data; servers that
   start at once on an empty volume. Correct when readers never lose a generation, the selection is
   durable, operators switch what they saw, leftovers go and foreign data stays.
4. **Generation sources** (`SourceCapture`). No state of their own: a profile, manifests, policies and
   notices that anybody may edit. Operations: capture, and the second capture under the writer lock.
   Hard: files are read one after the other and no lock keeps editors out. Correct when what is
   published was there all at once, after the publisher had its turn.
5. **MCP tool executor** (`ToolExecutor`). State: semaphore, count per principal, live budgets,
   `_closed`, `_drained`. Operations: `run`, `close`. Hard: close races admission, disconnects and
   completion on other threads; it shares accounting with component 1. Correct when counts never
   leak, the drain ends, and what calls share outlives them.
6. **Hosted access** (`HostedAccess`). State: what a request has proved so far, the guard's free
   slots. Hard: scopes are checked at three places with time between them, and denials must be told
   as such. **Portal sign-in** (`SignIn`). State: the cookie, the attempts per address. Hard: one
   browser with two sign-ins whose answers overwrite each other.
7. **Provider budget and client retries** (`ProviderRequest`). State: deadline, cancellation flag,
   attempts, tokens; shared HTTP clients. Hard: retries against the deadline, a cancelled wait,
   attempts that are recorded before they are sent, borrowed clients closed under use.
8. **Beta accounts and keys** (`BetaAccounts`). State: accounts, one active key hash each,
   consumed submissions, daily usage; per server process the accounts whose rotation is in progress.
   Operations: sign-in upsert, rotate, revoke, suspend, resume, authenticate, consume quota. Hard: a
   repeated form must not rotate twice, in any process; what is read before a transaction may change
   before it; times are sampled before the writer lock. Correct when one key at most is active, work
   is accepted only from a good key of a good account, a form rotates once, and no account stays
   locked out by the guard.
9. **Runtime decision, execution, evidence** (`EffectivePolicies` decides, `RuntimeExecution`
   acts). State: the append-only table of events; the position of each execution. Operations: decide,
   execute (record, confirm, act, record), report. Hard: an evidence write that fails between effect
   and report, a process that dies while its action runs. Correct when nothing happens unrecorded or
   without consent, and reports and answers are true.
10. **Profiles and the effective catalog** (`EffectivePolicies`, `ProfileUpdate`). A profile file
    with pack pins, exclusions, replacements; packs that are read while they are edited. Hard: two
    readings of one pack, update against the digest of a preview. Correct when what is effective is
    what was reviewed.
11. **Policy documents** (`PolicyDocument`). Pure: a narrow YAML subset, fences, headings, chunks
    and their lines. Correct when each line is where its author put it.
12. **Ingest and the SQLite index** (`IndexBuild`, `Retrieval`). Two artifacts, index and runtime
    rules, replaced one after the other with a pending-build marker between; a search that widens.
13. **External vector replicas** (`VectorReplica`). A namespace per generation, complete before
    activation, in a database that others can write to.
14. **Onboarding** (`Onboarding`). Preview, build, verify, save against a digest, with removal of
    what a failed save created.
15. **Retrieval, routing and grounded answers** (`Retrieval`, `PolicyAnswer`). Stateless; hard
    because nothing a model replies may be trusted, and the report has to tell what happened.
16. **Evaluation suites** (`EvaluationSuite`). One held generation per run; late verification must
    reach every count and report.
17. **Command line and configuration**, **health, reports and inventory**, **typed records**: parsing,
    formatting and views of the state above; not modelled.

Interactions: a hosted call passes 6, then 5, 8 and 1, runs on a generation pinned in 3, spends a
budget of 7. A job (2) is charged and finalized through 1, archives a generation of 3, runs 16, and
spends a budget of 7 per case. The command line publishes through 3, with 10, 11, 12 and 13 below it.

## Composites

`MCHosted`, `MCServing`, `MCLocal` and `MCContent` explore several modules in one run. Their modules
share no state in the code, so a product of them would only multiply the same behaviours; instead the
variable `part`, chosen in the initial state, says of which module a behaviour is, and the variables
of the others keep a constant value. The state space is the disjoint union of the modules', and a
property of a module is stated under `part = ...`. Where a module's own properties are checked as they are, the composite
EXTENDS it, and its variables stay in their initial states while another part moves (`HostedAccess`,
`EvaluationJobs`, `ToolExecutor`, `RuntimeExecution`, `OwnedRemoval`; so the theorems about them state the formulas that
the runs check); the other modules are instances. Variables that two modules name alike are one
variable there. What modules do to each other in the code is inside them: the accounting that
`ToolExecutor` needs, the archive that jobs share in `EvaluationJobs`, the leases of `Generations`.

## OperationStore

**Correspondence.** `rows` is `operation_usage` (`NoRow` for a row that does not exist). Every
`BEGIN IMMEDIATE` transaction is one action: `Reserve`, `AcceptWork`, `Activate`,
`FinishAccepted`, `Finish`. Each includes the maintenance that the code runs first in the same
transaction, recovery (`Recovered`) and retention (`Prunable`), with whichever subset of expired
rows a bounded DELETE reaches. An owner lease has the steps of `OperationOwner`: the private file
is created, locked, linked to its public name; a service then opens (with recovery), works, and
closes, retains its lease because rows are left (`CloseRetains`), or dies. A crash takes the
kernel lock and leaves the file and the rows. The sweep is three steps, as in the code:
`InspectLease` (its SELECT), `RemoveLease` (probe and unlink), `EndSweep`. `runner` and `ran` say
which thread executes what; `charged` is a history of charges, so that retention cannot hide one.

**Abstracted.** The clock counts UTC days, the unit of quota and of retention; `SampledDays` lets
a transaction commit with a timestamp taken before midnight. SQLite refusals (busy, I/O) leave the
state alone and are stutters, except the terminal writes whose failure the service remembers.
Correlation ids, pids and digests are opaque. Row limits of a sweep or a prune (1000, 100) are the
freedom to prune fewer rows or end the sweep early. Not modelled: an error raised by a COMMIT that
in fact succeeded, Windows locks, operators who delete lease files.

**Properties.** `LiveWorkHoldsItsSlot`, `CapacityRespected`, `LiveOwnerKeepsItsLease`,
`LeakedSlotIsReported`, `DailyAllowance`, `HistoryIsFinal`, `ImplementsLedger`; each is stated in
the module. `DailyAllowance` is checked in the run `Hosted` with `RetentionDays = 2`. The setting admits 1
(`settings.py`), with which rows of the very day of a late commit could be deleted before the next
charge counts them; deployments keep the default of many days, and no property is stated for 1.

## EvaluationJobs

**Correspondence.** `job[j]` is the row with its cases and report, `quota[j]` its acceptance in
the other database (the one row of `OperationStore` that matters to it), `live` says whether that
acceptance's owner still holds a lease. A submission has its commits as steps: `BeginCapture`
(capture lock, snapshot), `AcceptWork` (commit in the operations database while the jobs
transaction is open), `Publish` (commit of the job row), or `AbortSubmit` (refusal or death
between them). Cancellation is `Cancel`, then `CancelFinalizes` and `CancelMarks`, or `CancelLost`.
A worker's position `pc` follows `run_once`: lock, recover, finalize what is pending, claim,
activate, and per case begin, reserve a call, send it, save. `Refuse`, `UnreserveCall` and `Break`
are the exceptions that can reach each step; `FinishOperation` decides the operation's outcome and
`FinishJob` the job's, from a second look at the stop event, as in the code. `Crash` may happen
anywhere and `Recover` is what the successor does.

**Abstracted.** Cases run in suite order and are counted; payloads and digests are
intact (`JobReports` damages them); capacity and authority refusals of admission may happen at any time (`OperationStore`
decides them exactly); the submit lock of each owner and the limit of each owner are subsumed by
the capture lock and `QueueLimit`. Not modelled: rows written before admission
ids existed.

**Fairness** (`FairSpec`), used by `EveryJobSettles` only. A worker thread is scheduled, and the
busy timeout of SQLite lets it through whenever other writers keep releasing the lock: strong
fairness of its progress, weak fairness of acquiring the worker lock. A submission that holds the
write lock publishes or aborts; deadlines and retry times pass; unreferenced owners are collected.
Nothing is assumed of crashes, stops, failures, cancellations or new submissions. Without the
submission's fairness a stuck submitter would hold the jobs write lock against the worker.

**Properties.** `WorkIsOwnedOrPrepaid`: a worker on a job holds its claim, and queued work has been
charged and not begun. `OutcomesAreAccounted`: completion is said by both databases, a finalized job
is settled, effects without a result are reported. `TerminalJobIsFinal`, `EveryJobSettles`,
`ArchiveRetained`, and per case the refinement of `ExecutionLedger`.

## JobReports

**Correspondence.** The variables are the columns of one job's row that concern its report, and the table of its
fragments' digests. `Seal` is `_finish` with its quarantine, `Upgrade` the migration of the schema, `Purge` the end of
retention. A reader is a request: `Ask` is the manifest, which verifies the whole report, or a resource of a fragment;
`ReadPart`, `VerifyReport` and `Migrate` are the three transactions of `report_part`, which ends by calling itself.
`Damage` changes any of it.

**Abstracted.** A digest is what it digests. The digest of the whole report goes out with each fragment; what a client
does with it is left out.

**Properties.** `FragmentsAreSealed`: `Migrate` verifies the report once more, in the transaction that writes the
digests, and drops the digests of older versions; without either a damaged report would be certified.
`PurgedLeavesNothing`, `ReadersAreAnswered`.

**Fairness** (`FairSpec`, in `Serving`). A request that has been accepted is run to its end by its thread; nothing is assumed of
requests that have not been made, of the store's upgrade or of the end of the retention.

## Generations

**Correspondence.** One action per step between two file operations whose order matters. A command
waits for `.writer.lock` (`Enter`), and then either publishes (`Stage`, `Prepare`, `Install`) or
chooses an existing object (`Choose`, with the operator's `expected_active`); `Barrier` is the
sequence of fsyncs, `Replace` the `os.replace` of `active.json` under `.publish.lock`,
`SyncPointer` the sync of its directory, which may fail into a warning. Retention follows every
commit and is the prune command: `Survey` picks candidates without `.publish.lock`, `Remove` takes
each one under it after probing its leases, `Spare` keeps one that cannot be inspected, `Finish`
clears `staging/`. `Kill` ends a command anywhere with its kernel locks. A reader is admitted
under `.publish.lock` (`Pin`) or refused; its descriptor may be inherited by `Fork`; `Release`
closes one copy and `CleanMarker` is the attempt to unlink the marker, which the first of two
holders must not do.

**Durability.** `unsynced` holds objects whose directory entry has not been synced, `onDisk` the
pointers a power failure could leave. Power failures are not an action: `SelectionIsDurable` says of
every state what one would leave. What retention protects, the active and the previous generation of
the *visible* pointer, is always complete and synced. Of the pointers that may still be on the disk,
one whose only companion is the visible one names an active generation that is complete and synced
too. That companion is there whenever the sync after `os.replace` fails, or the publisher dies before
it, once. After two such changes in a row the disk may hold a third pointer, which retention knows
nothing of: its active generation may be gone, and a power failure could bring that pointer back. The
property claims nothing there, and no text of the repository does.

**Abstracted.** A generation is its content id, so publishing the same content twice meets the
object that is there. Objects are intact; inspections, providers, source rechecks and budgets that
fail are `Abort`. Modification times are left out: any `keep_recent` unprotected objects may be
the recent ones. `AutoKeep` is 2 in the code; the runs use 0, since with three generations 2 would
protect everything. What a pass deletes in `staging/` and `trash/` is one step here and the subject
of `OwnedRemoval`; how a root comes to be is `Bootstrap`. Not modelled: lease directories, validation
caches, what a bundle may hold, Windows.

**Fairness**, used by `ReadersAreServed` (run `Serving`): a command that has replaced the pointer syncs it, and a
reader that polls for the lock gets it (weak fairness, enough because the pool of commands is
finite; against an endless stream of publishers a poller would need strong fairness). Nothing is
assumed of `Prepare`: the property is about readers while a provider hangs.

**Properties.** `SelectionIsDurable`; `WhatIsUsedStays` (`WorkSurvives`: a command's object is not
removed under it; `LeasedObjectStays`: nor a leased one); `SwitchedAsExpected`, the promise of
`expected_active`; and `RetainedStore`, refined (`ImplementsRetention`).

## OwnedRemoval

**Correspondence.** One directory and its files: `place`, `content`, the marker `.owner` and names the
store does not know. A publisher makes it (`MakeStage`), marks it (`WriteOwner`), fills and seals it,
and drops the marker before the rename that installs it (`DropOwner`, `Install`); `LeaveStage` is the
`finally` of a publication that failed. A pass of any later command reclaims a stage (`RemoveStage`,
`Sweep`, `SweepOwner`, `RemoveDirectory`), moves an object to the trash (`Discard`) and clears the trash:
`CleanTrash` finds out what the last pass left, `Relabel` writes the record, `CheckHashes` compares every
file with it, `Clear` removes the files with the manifest last, `DropRecord` the record. `Stop` ends any
of them after any step. The seed stage of a starting server has the same functions.

**Abstracted.** The four artifacts are any set; a file is absent, partly written, as sealed, or changed.
`Change` is whatever somebody else does to it. Power failures are left out.

**Properties.** `TrashIsReclaimed`, `StagesAreReclaimed`, `ObjectsAreWhole` say what becomes of leftovers
that nobody else changed, `ChangedFilesArePreserved` what becomes of changes. The exceptions stated in
`StagesAreReclaimed` are limits of the code and of its documents (`docs/policy-generations.md:134-144`,
`docs/build-plans/conditional-generation-bootstrap.md`): a build killed while its index is being written
leaves a scratch database (`storage/sqlite_vec.py:616`) in its stage, which retention preserves with a
warning for good; so is a stage that has lost its marker on the way to `objects/` and then some files to a
removal that was killed; and a seed without a complete marker. All three only cost space and a warning.

## SourceCapture

**Correspondence.** `past` is every state the sources have had since the request, the last of them the present.
`capture_sources` resolves what is expected (`pass = "expected"`: `ReadProfile`, `ReadManifest`, `ListMembers`,
`ReadMember`) and reads the same directories once more (`pass = "captured"`, with `ReadNotice`), each file in a step of
its own; `CloseDirectory` finds what a directory has besides; `Resolve` compares the two, with `Agrees`. `Acquire` is the
writer lock, after which a publisher captures again (`_require_fresh_sources`) and goes on if nothing has changed. A
manifest that is read twice within a pass is two steps, with the declaration that each reader then uses. `EditPolicy`,
`EditManifest`, `EditNotice` and `EditProfile` come anywhere between.

**Abstracted.** A file has a text, a digest is what it digests. A text that a file had does not come back to it and a
removed file does not return (`Fresh`): the code compares texts and has no way to notice a change that was undone.
Texts that do not parse, links, and everything else that ends in a refusal are `Fail`.

**Properties.** `CapturedTogether` for what the first capture accepts, where files that are left out may be torn: a
manifest may appear while a directory without one is listed. The second capture refuses that, and
`PublishedIsFresh` is about every byte.

## Bootstrap

**Correspondence.** Servers (`LookForRoot`, `InspectSeed`, `MakeRoot`) and publishers (`Request`) meet in `_locked`,
which looks at the root twice: `LookAtRoot` is what a server checks before it waits for `.publish.lock`, and `Admit`
what any process finds under it (`Admitted`): a root that has no owner record gets one if it is empty, whether or not
the process came to initialize (`Own`, from "owning" or "adopting"), and who did not is refused at the missing managed
directories. `Furnish` makes them. `_writer` is `LockWriter` and the second look under the lock, `Enter`; `Decide` and
`Select` are the publication. `Serve` is the pin of the selected generation, which goes through `_locked` as well.
Processes fail, die and are restarted; another directory, empty or with foreign content, may take the root's place
(`Replace`) before and between their looks, and while they wait for a lock.

**Abstracted.** Preparation of what is published (`Generations`), file names, permissions. A process gets the lock of
the directory that is there when it gets it, not of one that has been moved away while it waited. Within a look under
the lock, and after the last look, the directory is not replaced: the store does not identify its root again, and its
documents ask operators for no more.

**Properties.** `OnlyOwnRootsAreSeeded`: a server furnishes and selects only in the directory it has made and
while nothing is selected there, whatever publishers and other servers do; it puts an owner record only into that
directory, or into one that has taken a store's place and holds nothing of anybody else (that it adopts nothing at
all is not so, see *Findings*). `RootsAreRecoverable`: an explicit import is refused by nothing that killed processes
have left.

## ToolExecutor

**Correspondence.** A call is a task of the event loop (`Enter`, `Leave` under `_lock`, `Disconnect`) and work on
a thread (`Begin`, `Charge`, `UseClient`, `StartJobs`, `EndWork`, `Settle`). The lifespan's exit is `Close`,
`CloseClients`, `CloseUsage`, `CloseJobs`, with the drain between the first two.

**Fairness.** Threads run and their results are delivered to the loop: a call returns because its uses of
clients are bounded by the provider-call budget, the deadline and the retries of a request
(`ProviderRequest` shows it of one operation). The steps of the exit follow each other. Nothing is assumed
of arrivals, and nothing forces a shutdown to begin.

**Properties.** `SlotsMatchCalls` relates all five counters to the calls inside; `ClosedMeansQuiet` says that
what calls share outlives them and that the owner's lease is kept while a row of it holds a slot;
`ShutdownCompletes`.

## ProviderRequest

**Correspondence.** `Reserve` and `Dispatch` are `reserve_provider_call` up to and after its second look at the
clock, with a callback that makes the attempt durable or raises; `Send`, `Answer`, `Judge`, `Retry` and `Wake` are
`_request_with_retry`. `Cancel` may come from another thread at any time. `Tick` moves the clock: a thread may be
delayed between any two steps, so an attempt can leave after the deadline - once.

**Abstracted.** Time is counted in units; jitter is any delay in its interval; a reply is valid, invalid,
transient or final, with the usage and the `Retry-After` it carries.

**Fairness.** The thread runs and the clock moves; every request is bounded by its own timeout.

## HostedAccess

**Correspondence.** A request passes host check and guard (`Enter`, `Accept`), one of the three ways to
authenticate (`LookOperator`, `LookKey` with `Authenticate`, `Introspect` with `CheckClaims`), the body and
its scopes (`ReadBody`), `get_principal` before the executor (`Dispatch`), the service's own authorization on
the worker thread (`Work`), and the held-back head of the answer (`Respond`). `Tick` and `Lose` let tokens
expire and end, accounts be suspended, between any two of them; `Disconnect` lets clients go.

**Abstracted.** A credential is a model value with the claims the issuer would tell; the layers of the MCP
SDK; the executor and the second look at a key in the accounting transaction may refuse here and are
modelled in `ToolExecutor` and `BetaAccounts`.

**Properties.** `OnlyAuthorizedWorkRuns`, with the claims compared to the time at which work starts;
`DenialsAreTold`; `SlotsAreReturned`. A token that is revoked at the issuer after its introspection is still
accepted by the request that asked: the code asks once, and the property says "when it came".

## SignIn

**Correspondence.** `Start`, `Callback`, `Complete`, `Logout` are the routes, `Attempt` with `Allowed`,
`Recorded` and `Trimmed` the limiter's `allow`. Each answer replaces the whole cookie, so two answers of one
browser overwrite each other in any order; `Approve` is the user at the identity provider, and a callback may
carry any state and code that the browser has learnt.

**Properties.** `SessionsAreOwn`, `AttemptsAreLimited` in any window of the sliding limit,
`TableIsTheLastWindow`: the table forgets exactly the addresses of past windows.

## BetaAccounts

**Correspondence.** `owner` and `revoked` are `api_keys`, `consumed` is `api_key_submissions`,
`used` the day's `daily_usage`, `regenerating` the set of each server process. A post of the
key-generation form goes through `Enter` (the guard), `Check` (the account is read), `Validate`
(signature, account, expiry), `Sample` (the time is read), `Rotate` or `Replayed` (the transaction)
and `Leave`; the browser may be gone, but a rotation in progress is awaited, so `Leave` is possible
before the work and after it. `Look` authenticates a key; `Admit` and `Consume` are the two
transactions that accept work from one. Any number of servers and posts interleave, forms may be
posted again or by another account, and a server may crash (`Crash`).

**Abstracted.** Secrets are fresh and signatures cannot be forged, so keys, forms and accounts are
model values; limits and charges of `Admit` are those of `OperationStore`. `Consume`
(`consume_quota_for_api_key`) is an operation of the store that no service of the repository calls
any more; `consume_daily_quota`, its variant without a key, is left out. The audit trail, written in
the same transactions, and the OAuth exchange are left out. A clock that is set back is not modelled.

**Refinement.** `CredentialRegister` is what those who accept work rely on. Minting is the only way
to get a key, replaced and revoked ones never return, and work is accepted in one step that sees
the key current and the account enabled. An account suspended between `Check` and `Rotate` does get
a key; the register permits it, since the key is refused until the account is resumed.

**Properties.** `FormsAreServedOnce`: a valid form rotates once, and the guards of the servers are
those of the posts in progress, so that no account stays locked out. The violation `FormRotatesOnce`
is under findings.

## RuntimeExecution

**Correspondence.** An execution is a command of its own process; `pc` follows `execute`. `Decide`
picks the matching rules and `Decision` applies their precedence; `RecordDecision` and `Conclude`
are the two appends, `evidence` is `runtime_execution_events` in the order of its rows. `Confirm` is
the guard with its confirmer; `Act`, `Return` and `Raise` are the runners; `effect` says what has
happened outside. `Crash` is the death of the process, after which a shell command, started in a
session of its own, runs to its end (`Orphan`). A report is an operator over `evidence`
(`ReportedEvent`, `SessionCompleted`), so its truth is an invariant: it may be read at any time.

**Abstracted.** How rules match is any subset of the rules; an index that is not ready, invalid
rules and citations that cannot be linked are one error of `Decide`; requests and metadata are
dropped. All executions belong to one session, since a report selects the rows of one. A failed
append leaves no row; a COMMIT that reports an error and yet succeeded is not modelled. A command
that detaches children of its own is not modelled.

**Properties.** `EvidenceIsTrue` is four statements: nothing acts unrecorded or without consent, a
report tells what was done, the answer to the caller agrees with the evidence, and a session that is
reported as completed is quiet.

## EffectivePolicies

**Correspondence.** `ReadManifest`, `ListMembers`, `ReadMember` and `PinPack` are the two readings of a pack
by `_load_pack` and `load_policy_documents`, between which `Edit` may publish another edition. `Resolve` is
`resolve_profile` with its checks: decisions, replacements, named conflicts, runtime conflicts. `Decide` is the runtime
decision over the compiled rules, with the citations linked to lines of a generation or chunks of an index.

**Abstracted.** A digest is what it digests; a pattern is known by the values it matches; a policy's rules are a
function of its content. Profiles and packs of the run include every kind of contradiction the code refuses.

**Properties.** `EffectiveIsReviewed`, `RulesAgree`, `DecisionsFollowRules`. Without a generation the lines of a
rule are those of the frontmatter while chunks cite lines of the body; the model's chunks therefore overlap a rule
or do not, independently of either.

## ProfileUpdate

**Correspondence.** `PinNew` and `LinkNew` initialize; `DiffReads` and `Diff` are the review that yields a token;
`Acquire`, `Look`, `Stage`, `Recheck`, `Replace` the locked update. Editors know nothing of the lock, and a command
may die at each step. **Property.** `UpdateIsAsReviewed`, except that an editor who writes between the last look and
the replacement loses the race; the variable `late` marks exactly that window, which no lock of the code closes.

## PolicyDocument

**Correspondence.** `ReadFront` reads one line of the frontmatter in the mode of the function that would read it,
`ReadBody` one turn of the search for headings; `CloseFront` and `CloseBody` end them. Rules keep the first and
last line from which decisions cite. `Sections`, `ChunkId` and `Chunks` are pure operators over what was read.

**Abstracted.** A line is its indentation and what it declares; values of keys, the second section extractor
(markdown-it) and empty titles are left out.

**Properties.** `RulesKeepTheirLines`, `SectionsTileTheBody` against the enclosing headings, and
`ChunkIdsAreUnique`, which the code violates. Two quirks that no text of the repository forbids and the properties
state: a heading below a skipped level keeps its siblings on the stack (`ingest/parser.py:142`), so paths are
compared only where no level is skipped; and a repeated `runtime_rules` key replaces the earlier one.

## IndexBuild

**Correspondence.** `Observe`, `LinkIndex` (incomplete), `LinkRules`, `OpenIndex` and `Complete` are the steps of a
build, any of which may be its last (`Stop`); operators remove what they find or put files of their own there
(`TouchIndex`, `TouchRules`). **Property.** `ReadyIndexHasItsRules`; it is the binding of the completion to the
build id and to the opened file that makes it hold between builds.

## VectorReplica

**Correspondence.** `Discover`, `CreateCollection`, `UploadBatch`, `PublishTable` and `Validate` prepare and check a
replica, `Activate` ends a publication, `Select` switches without a network. A reader's `Check` and `Search` compare
counts and then every match with the local records. `Tamper` is whoever has the credentials; `Fail` stops a command
after any batch.

**Properties.** `ReportedReplicaIsWhole`, `AnswersComeFromWhole`: what others change in a replica can make a
search refuse or miss a record, never put one into the answer.

## Onboarding

**Correspondence.** A session previews, and then requests are bound to the digest of the preview (`Request`, `Gate`):
`Publish` and `Built`, `Verify`, and the save with `FindProfile`, `LinkProfile`, `LinkConfig`, and after a failure `Undo`
and `Unlink`, which look at the file twice before it is removed. Editors, other sessions and crashes come between.

**Abstracted.** A digest is the choice and the version of the sources.

**Properties.** `SavedWasVerified`, `SavedPairStays`, `NothingForeignIsLost`: files that somebody has edited before the
last look of `Undo` stay. An edit between that look and the unlink (`edited = "late"`), a window of a system call that
no lock of the code closes, is lost with the file, and the property claims nothing of it.

## Retrieval

**Correspondence.** `Inspect` is readiness, `Embed` the query's embedding, `OpenSearch` and `Search` the transaction with
its widening limit, `Rerank` the reading of the reply; the file may be replaced between them (`Replace`).
**Properties.** `NearestOfDomain`, `HitsFollowReply` for every reply of the bounded shape, with rows that repeat, name
no passage or carry ranks instead of indexes.

## PolicyAnswer

**Correspondence.** `Route` selects and completes the context, `Compile`, `Generate` and `Judge` are the three uses of a
model with the acceptance of what it says, `Expire` is the budget. The loop of `regenerate` is the sequence of
`attempts`.

**Abstracted.** A text is the policy it equals, or other; a judgement names policies. Wordless policies, whose text has
no Latin letter or digit, are kept apart, since `plan_completeness` can never pass for them: that is the last
exception of `ReportTellsTheAttempts`. A generator that selects a strict subset of the compiled policies is refused.

**Properties.** `GuidanceIsWhole`, `ReportTellsTheAttempts`.

## EvaluationSuite

**Correspondence.** `Start` holds a generation and checks the suite against it, `RunCase` scores one case, `Check` verifies
the evidence of a live run against the held generation and revises verdicts, `SaveResults` and `SavePage` persist a mode;
metrics, coverage and comparison are operators over the results. `Select` switches the active generation at any time.

**Abstracted.** A document has one chunk; averages of recall, the page's layout and the export to Phoenix are left out.

**Properties.** `VerdictsAreEarned` compares every verdict with an independent definition (`Earned`); `ReportsAddUp`.

## Runs

All runs finish; bounded pools of names mean that the models stop when the names are used up, so
deadlock is not checked. Symmetry is used only where properties and initial states are symmetric
and no liveness is checked.

| run | instance | shows |
|---|---|---|
| `OperationStoreWork` | 2 owners, 2 principals, 2 operations, 1 key, limits 1, one outcome, two days | types, slots, caps and leases while owners open, sweep, crash; prepaid work is executed and settled once; leaks are reported; outcomes are final; refinement of `ExecutionLedger` |
| `OperationStoreLease` | 2 owners, 1 operation | **violation**, see findings |
| `Hosted` | `HostedAccess`: 2 requests, 5 credentials, 1 guard slot; `SignIn`: 2 browsers behind one address, 2 attempts in a window of 2; `OperationStore`: 1 owner, 3 operations, days 0-2, allowance 2; `EvaluationJobs`: 2 jobs, 1 generation, 1 worker | work is authorized and denials are told; sign-ins are one's own and limited; the daily allowance across midnight; shared archives are retained |
| `EvaluationJobsCases` | 1 job, 2 cases, 2 calls, a worker that may die and its successor | claims, accounting, finality and refinement per case; every job settles |
| `EvaluationJobsShutdown` | 1 job, 1 worker | **violation**, see findings |
| `Generations` | 3 generations, 3 commands, 1 reader with 2 holders | types, durability, work in progress, operators' expectations, leases shared by fork, refinement of `RetainedStore` |
| `BetaAccounts` | 2 accounts, 2 keys, 2 forms, 2 servers, 3 posts, 1 call, 2 instants | single keys, forms that rotate once, guards, refinement of `CredentialRegister` |
| `BetaAccountsReplay` | 1 account, 1 form, 3 posts | **violation**, see findings |
| `LocalCommands` | 2 executions (sessions, commands, publishers, servers), 3 builds, 2 backends, 3 files in a directory with 2 changes, 1 import beside 2 servers and 3 roots | evidence is true; saved setups hold; what is ready is whole; leftovers are reclaimed; edits of others are kept |
| `Serving` | `ToolExecutor`: 3 calls of 2 principals, 2 slots; `ProviderRequest`: 2 requests, 2 retries, 3 calls, deadline 5; `Generations`: 2 generations, 2 commands, 1 reader; `JobReports`: versions 3, 4 and 5, 2 readers, 2 fragments, 1 damage | slots match calls and shared services outlive them; sent requests are recorded and welcome; shutdowns, operations and readers come to an end; the report that is fetched is the one that was sealed |
| `Content` | 2 directories of 2 policies, 3 texts, 2 edits; documents of 6 frontmatter or 5 body lines; 4 pack editions and 26 profiles; indexes of 3 rows; 2 policies in 3 chunks; suites of 2 cases in 2 modes | what is captured was there all at once, and still under the lock; documents read as written; reviewed policies decide; answers are grounded; verdicts are earned |
| `DocumentIds` | bodies of 3 lines | **violation**, see findings |

`AccessIsEarned` is a property of `HostedAccess`, `ArchiveRetained` of `EvaluationJobs`, `CallsAreAccounted` of
`ToolExecutor` and `EvidenceIsTrue` of `RuntimeExecution`. The other properties of a composite are conjunctions of its
modules' properties: `SignInIsSound`, `DailyAllowance` in `Hosted`; `LocalTypeOK`, `ReadyMeansWhole`,
`LeftoversAreReclaimed`, `EditsAreKept` in `LocalCommands`; `ReportsAreSealed`, `CallsAreWelcomeAndRecorded`, `ServingEnds` in `Serving`;
`ContentTypeOK`, `CapturesAreWhole`, `ReadsAsWritten`, `ReviewedPoliciesDecide`, `AnswersAreGrounded`, `VerdictsAreEarned` in
`Content`. The MC modules say which part each conjunct is of.

Why these bounds: two owners (workers, commands, sessions) are the one that dies and the one that
repairs; two operations are enough to exceed a limit of one, and three to exceed an allowance of two;
three generations are an active, a previous and a removable one, three commands make each of them;
two cases separate a saved one from one in flight; three posts are the one that rotates, the one that
waits and the one that deletes the record between them; three days include a day that retention has
left behind; two executions are one that completed and one that is still running; three builds are one
that has published, one that overtakes it and one that comes after; two attempts per window and three
ticks let a window slide; two changes by somebody else, as two edits of sources, are one before a pass
and one during it; damages that agree with each other are beyond any digest, and the number of fragments has none, so the run
explores one damage and the theorem, for any number, claims the number only up to one;
three roots are two replacements; three provider calls are fewer than two requests with two retries may want,
and a deadline of five falls into, between and after the pauses; six frontmatter lines hold a key, two
rules with a list and a line that ends them, five body lines a fence around a heading and sections
before and after it. In `Hosted` the queue has a single worker and in `EvaluationJobsCases` one of
two workers may die: takeover is explored in the latter only. The proofs remove the bounds
of all modules but `PolicyDocument`, `Retrieval`, `PolicyAnswer`, `EvaluationSuite` and the limiter of `SignIn`, as far as
*Proofs* says.

## Findings

* `OperationStoreLease`: `prune_owner_leases` selects the active rows of an owner and afterwards
  probes and unlinks its lease. An owner that admits work and dies in between loses its lease while
  its row is active. A missing lease is never taken for abandoned, so the slot is not reclaimed.
  The docstring and `docs/hosted-beta-operations.md:534` say that only owners without accepted rows
  are removed.
* `EvaluationJobsShutdown`: the operation's outcome and the job's state are decided from two
  readings of the stop event. Work that failed just before a stop is `failed` in one database and
  `interrupted` in the other, where `docs/evaluation-jobs.md:50` says both record `interrupted`.
* `BetaAccountsReplay`: a form rotates twice when a repeated post has sampled its time before the
  form expired and waits for the writer lock while a later post, sampled after the expiry, deletes
  the record of the first use. `docs/hosted-beta-operations.md:56` says that retrying a completed
  form preserves the active key, across processes. While the form is valid it does
  (`ValidFormRotatesOnce`).
* `DocumentIds`: a repeated section key gets the suffix `-N` of its occurrence, and nothing compares
  the result with the keys of other sections. The headings "Rules", "Rules", "Rules 2" give two chunks
  one identifier, which the index declares `UNIQUE` (`storage/sqlite_vec.py:678`): the build of a readable
  document fails, where `docs/architecture.md:57` says that it is accepted.

Two windows between a look and an act are not runs of their own but exceptions that a checked property states, since each
takes somebody who changes files outside of the program within a moment:

* `SeedsItsOwn` (in `EditsAreKept`): `_locked` tests `owner.json` before it waits for `.publish.lock`
  (`services/generations.py:471`), and under the lock it writes the record into an empty root whatever
  `initialize` says (lines 476-504). A server that starts on a store has made no directory and expects no
  identity. When an empty directory takes the store's place in between, the server links `owner.json` into
  it and refuses only afterwards (line 514): `LookForRoot`, `LookAtRoot`, `Replace`, `Serve`, `Own`.
  `tests/test_generation_bootstrap.py:142` says that startup does not adopt existing data, and
  `docs/build-plans/conditional-generation-bootstrap.md:13` that empty roots "reject rather than adopt".
  Without the exception TLC reports this behaviour; with it the property says that nothing is selected,
  furnished or overwritten and nothing foreign gets a record.
* `ForeignFilesStay` (in `EditsAreKept`): `_remove_created_profile` compares a profile and then unlinks it
  (`services/onboarding.py:118-122`), "only an unchanged profile" by its docstring. An edit in between is lost.

## Proofs

Eight modules hold theorems. Each has an inductive invariant per component, shown to hold
initially and to be preserved by every step (one lemma per action or group of actions), and derives from it the
properties that the runs check. They hold for every value of the constants that the named assumptions
admit; TLC evaluates the assumptions in the runs. The assumptions say that limits are numbers, that the
distinguished values (`NoKey`, `NoJob`, ...) are not members of the sets beside them, and that what is
counted is finite; a module that needs another says so below. A composite's invariant is the conjunction of its
parts' under `part = ...` (`LocalInv`, `ServingInv`, `ContentInv`), so its theorems state the very properties of its run.

### OperationStore

`OperationStoreProofs` proves, under `LimitsAssumption` and
`NamesAssumption` (positive limits, distinguished names outside their sets, finitely many operation
ids): `TypeCorrect`, `LeaseSafety`, `LiveWorkSafety`, `CapacitySafety`, `LeakSafety`, `HistorySafety`, `Refinement`.

None of these properties is inductive alone. `IInv` is the conjunction of `TypeOK`,
`LiveOwnerKeepsItsLease` and
* `LockedInv`: a lease file is locked from before its publication on, so a probe that succeeds
  means its owner is gone;
* `RunnerInv`: executing work is an active row of an open service, hence recovery, which asks for
  an unlocked lease, cannot touch it (with `LiveOwnerKeepsItsLease`);
* `WaitingInv`: an acceptance without a slot never ran, so activation starts it for the first time;
* `SlotInv`: the table grants no more slots than the limits, hence no more work executes;
* `NamedInv`: active rows name their principal and owner;
* `LeakedSlotIsReported`.

The argument: one lemma per group of actions shows that `IInv` is preserved (`InductiveStep`).
Most actions start nothing; `QuietStep` settles them at once from what maintenance may do to the
table (`Maintains`). `StartStep` and `WaitStep` treat actions that start or queue work. The caps follow
from `SlotInv` because running operations are among the active rows. `LedgerStep` maps every step
to `Begin`, `End` or a stutter of `ExecutionLedger`. `HistorySafety` is an action property: it holds of the
maintenance of any transaction because recovery turns active rows into rows that end on the day of the
transaction, which retention (`RetentionDays` is positive) does not reach, and because `Finish` and
`Activate` write rows whose outcome is still open.

### OwnedRemoval

`LocalProofs` proves, for every set of artifacts without the manifest and every number of changes
(`RemovalAssumption`): `RemovalTypeCorrect`, `TrashSafety`, `ObjectSafety`, `ChangedFilesSafety`, `StageSafety`. Its invariant
says, while nobody else has changed anything, what each place may hold:
* `NowhereInv`, `StageInv`, `ObjectInv`: a stage past its inspection is whole until it is installed, so an
  object is whole;
* `TrashInv`: `Resumable` - once a file is gone the record is complete and the manifest is there as long as
  any other file is, so the next pass recognizes what it finds - and `PassInv`, where a pass stands and that it
  has listed exactly what is there. `TrashSafety` needs both: the first says that the next `CleanTrash` does
  not refuse, the second that the pass at work keeps the first true.

`ChangedFilesSafety` is about states with changes too and has an invariant of its own: `ProvenInv`, that the files
a pass still means to remove were as sealed when it compared them, or have changed since. `StageSafety` adds `MarkedInv`: a
stage is marked before its first file is made and loses the marker when it is whole or empty, so a pass that refuses one has met
an exception that `StagesAreReclaimed` names.

### Generations

`GenerationsProofs`, under `StoreAssumption` (an id is no pointer), proves `TypeCorrect`, `SelectionSafety`, `UseSafety`, `SwitchSafety`
and `Refinement`. Beside `WorkSurvives` and `LeasedObjectStays` the invariant has
* `WriterInv`: a command past `Enter` holds `.writer.lock`, so there is one of them;
* `WorkInv`: what a command is about to select is synced, and while the operator's expectation matters the
  selection is the expected one - `SwitchSafety` is this fact at the moment of `Replace`;
* `LeaseInv`: the marker of a lease is there as long as any process that shares it keeps it locked, which is what
  `Remove` probes;
* `DoomedInv`: retention dooms nothing that the pointer it has read protects; as `Remove` gives up when the pointer
  has changed, it removes nothing that is protected now;
* `ProtectedInv`, `LastTwoInv`: what the pointer protects is complete and synced, and the visible pointer protects what
  was active under the one before it.

`Refinement` maps each step to a selection, a lease, a removal or a stutter of `RetainedStore`.

### BetaAccounts

`BetaAccountsProofs`, under `AccountsAssumption`, proves `TypeCorrect`, `FormSafety` and `Refinement`. `OneActiveKey`
is the unique index without counting; `PostInv` says that a post never works with a time ahead of the clock, and
`FormInv` that a form which is still valid and has made its key is among the recorded submissions: a record is only deleted
by a transaction whose time is past the expiry of its form, and with `PostInv` that form is no longer valid. This is the part of the
claim that survives the violation `FormRotatesOnce`. `GuardMatchesPosts` is inductive as it stands.

### EvaluationJobs

`EvaluationJobsProofs`, under `ParametersAssumption`, proves `TypeCorrect`, `WorkSafety`, `OutcomeSafety`, `FinalSafety`,
`ArchiveSafety` and `Refinement`. `LockInv` makes workers exclude each other; `RowInv` relates each row to its acceptance in the other
database and to what was done for it (`begun`, `effects`); `CallerInv` is what submissions and cancellations know
between two commits; `WorkerInv` what a worker knows at each of its positions. The heart is in `RowInv`: an effect beyond the saved cases belongs to the active case, and its calls are counted above
`active_case_start_attempts`. So whoever ends the job - the worker, its successor, a cancellation - finds in the row that the report
has to say `uncertain`, also when the worker died between the call and the save. `FinalSafety` and `Refinement` follow
per action. `ArchiveSafety` has an invariant of its own (`ArchiveInv`): a submission
that holds the jobs write lock brings the bytes of its generation or has seen them, and retention cannot run until it has
published.

### ToolExecutor

`ServingProofs`, under `ExecutorAssumption` (finitely many calls), proves `TypeCorrect` and `CallSafety`. The counters are related to
the set `Inside` of the calls between admission and answer: its members hold the budgets, the permits and the slots
of their principals (`SlotsInv`), only charged work has a row (`ActiveInv`), and nobody is inside once the
lifespan has passed the drain (`ShutdownInv`). That an admitted call finds a thread is a pigeonhole argument: fewer
calls are on a thread than are inside.

### ProviderRequest

`RequestSafety` (`ServingProofs`) is for any budget, number of requests, retries and headers. `BudgetInv`: while the operation goes
on, the durable record is the counted one, because the callback makes an attempt durable before it is sent or the attempt is
not made. `WelcomeInv` is about time: a pause ends no sooner than the provider has asked for, and of the attempts that may leave after the
end - the thread can be delayed before the send - there is one, since whatever follows it looks at the clock or the flag.

### JobReports

`ReportSafety` (`ServingProofs`) is for any number of fragments, of readers and of damages. The difficulty is that anything on
the disk may change at any moment; `StoredInv` says what is left: a damaged text or digest equals nothing but itself, so a fragment
that agrees with its digest is the sealed one. The number of fragments has no digest; that it is the sealed one, or the report's length is,
is an invariant up to the first damage, and `FragmentsAreSealed` claims no more.

### RuntimeExecution

`LocalProofs` needs no assumption for it and proves `ActionsAreTyped` and `EvidenceSafety` for any executions and rules. The invariant
describes the evidence of an execution by three shapes, nothing, its decision, or its decision and one outcome after it,
and ties each position of an execution to its shape, to what has happened outside and to what the confirmer said;
an append changes the rows of one execution only (`RowsGrow`).

### The other local components

Each has an invariant of its own in `LocalProofs`, for any number of processes:
* `Onboarding` (`SetupInv`): what a session has verified is what its last build published, for the digest that the request was gated by;
  and what `Undo` means to remove is the file that this session linked (`OwnFiles`), known by inode and author.
* `ProfileUpdate` (`PinningInv`): past its last look a command has the lock, and the profile is the one its token was made from,
  unless the change came in the window that `late` marks.
* `IndexBuild` (`IndexInv`): the rules that a build has linked are there until an operator displaces them, so an index that is completed has
  its own.
* `VectorReplica` (`ReplicaInv`): a replica that only publishers have touched has no record but right ones, and is complete
  where one is about to activate it or to search it.
* `Bootstrap` (`StartInv`): each position between two looks has its lock unless the directory was replaced since, and a
  server furnishes and seeds the directory that it has made, which only the first one can be; `RootsAreRecoverable` is
  inductive with that.

`ReadySafety`, `LeftoverSafety` and `EditSafety` join them, `LocalTypes` is the type invariant of all. `EditSafety` is as
strong as `EditsAreKept` and no stronger: what was there at a command's last look is kept, an edit between that look and
the unlink or the replacement of a profile is not, and an empty directory in a store's place may get an owner record.

### SourceCapture

`CaptureSafety` (`ContentProofs`) is for any directories, manifests and texts (`SourcesAssumption`). A file that is read before a moment and again
after it, with the same text, had that text at the moment, because no text comes back (`NeverBack`, an invariant of `past`). `SeenTwice` lifts
this to everything a capture reads, `WholeBetween` to a whole directory. So the invariant divides `past` at the beginning of the second
pass (`SecondPass`: some moment `t` with `Began(t)` and `Capturing(t)`): what the first pass has read was there before `t`, what the second
has read from `t` on, and when both agree the capture was there at `t`. That is `CapturedTogether`; files that are left out are listed once, whence its
exception. After the lock is acquired there are three periods - the first capture before it, the two passes of the second after it -
and `FirstCapture` keeps the first; a listing that agrees on both sides of the lock is then whole too, and `PublishedIsFresh` has no exception.

### EffectivePolicies

`PolicySafety` (`ContentProofs`), under `PoliciesAssumption`, is for any packs, profiles, rules, requests and indexes; the assumption says that paths
lead to directories, that editions are of known contents, and that a rule and a chunk have their first line not after their last, as the
validators of `types.py` demand (`ParsedRuntimeRule`, `CompiledRuntimeRule`, `DocumentSection`). `PackInv`: each pin that is loaded has the identity and the
members of one edition although its files may be read from several, and is the pin of the profile unless it is being made. `ContentOf` turns
"no policy is in two packs" into the one place its content comes from; with it `Acceptable` implies `EffectiveIsReviewed` and `RulesAgree`.
`LineInCommon` is the lemma about overlapping lines behind the citations.

### HostedAccess and SignIn

`AccessProofs`, under `AccessAssumption` (finitely many requests), proves `TypeCorrect`, `WorkIsAuthorized`, `DenialSafety` and `SlotSafety`,
together `AccessSafety`. `AliveInv` carries the standing of a credential from the arrival (a credential that is good now was good then, because none
recovers), `ClearedInv` what authentication has found out to the start of the work, and `OutcomeInv` keeps a denial and an
end of work apart; expiry and scopes are decided again when the work starts. `SessionSafety` is about `SignIn`: states in cookies and
callbacks were started by the browser that has them, and every account in a cookie, or remembered by a callback in flight, has
been earned.

### Only model-checked

* `DailyAllowance`: a sum over the rows of a principal, whose changes would need an induction over the set of rows.
* `AttemptsAreLimited` and `TableIsTheLastWindow` of `SignIn`: `SelectSeq` is beyond the provers. Its sessions are proved.
* `PolicyDocument`, `Retrieval`, `PolicyAnswer`, `EvaluationSuite`, and with them `ReadsAsWritten`, `AnswersAreGrounded`, `VerdictsAreEarned` and `ContentTypeOK`:
  their operators fold over lines, rows and cases, filter sequences or sort sets, and what these compute needs an induction over data.
* Every liveness property: `EveryJobSettles`, `ServingEnds`.

## Not modelled

* **Command line, settings, configuration discovery**; **health, operational reports, dump, inventory**: parsing,
  formatting and views, without state between commands.
* **Typed records**: validators that decide something are guards or assumptions of the modules.
* Of modelled components: jobs of versions that knew no admission, clients that put a report together, the audit trail, the NeMo backends, HTML pages,
  the capacity measurement under `scripts/`, and platform differences (Windows locks). Power failures are modelled
  for the selection of a generation only.

## Plan

1. *(done)* All components that coordinate processes; sources, retrieval, answers, documents, packs and suites; the
   proofs of every safety property that needs no induction over data.
2. Compose: `EvaluationJobs` with the real `OperationStore` in place of `quota` and `live`; an abstract queue that
   `EvaluationJobs` refines.
3. The operators that fold, should a prover for induction over data be at hand: `DailyAllowance` first.
