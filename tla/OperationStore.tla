--------------------------- MODULE OperationStore ---------------------------
(***************************************************************************)
(* Durable operation accounting of one hosted deployment:                  *)
(* storage/operation_store.py, storage/operation_lease.py and the service  *)
(* policy of services/operation_admission.py.                              *)
(*                                                                         *)
(* Many service instances ("owners": the HTTP server, each evaluation job  *)
(* submission, each worker execution) share one SQLite table of accepted   *)
(* operations.  Every mutation is one BEGIN IMMEDIATE transaction, so it   *)
(* is one action here; the steps between transactions interleave.  An      *)
(* owner proves it is alive by holding a kernel lock on its lease file, so *)
(* that any other owner can reclaim the slots of one that has died.        *)
(*                                                                         *)
(* Abstracted: identities and digests are model values; the wall clock is  *)
(* a day counter, because quota and retention are counted in UTC days;     *)
(* correlation and process ids are left out; a transaction refused by      *)
(* SQLite (busy, locked, I/O) changes nothing and is a stuttering step,    *)
(* except where the service remembers the failure (FinishFails).           *)
(***************************************************************************)
EXTENDS Integers, FiniteSets, FiniteSetsExt

CONSTANTS
    Principals,      \* principal_identity(issuer, subject)
    OpIds,           \* pool of uuid4 operation ids
    Owners,          \* pool of OperationOwner identities, each used once
    Keys, NoKey,     \* reservation keys of evaluation jobs; NULL for interactive work
    Requests,        \* request digests
    WorkUnits,       \* Requests -> units a digest stands for
    Outcomes,        \* terminal outcomes that callers report
    NoOwner, NoPrincipal, NoRequest,
    GlobalLimit,     \* mcp_max_concurrent_operations
    PrincipalLimit,  \* mcp_max_concurrent_operations_per_principal
    DailyLimit,      \* beta_daily_request_quota / mcp_principal_daily_operation_quota
    RetentionDays,   \* mcp_operation_retention_days
    LastDay          \* bound on the modelled clock

Days == 0 .. LastDay

Terminal == {"completed", "failed", "cancelled", "interrupted"}

ASSUME LimitsAssumption ==
    /\ GlobalLimit \in Nat \ {0}
    /\ PrincipalLimit \in Nat \ {0}
    /\ DailyLimit \in Nat \ {0}
    /\ RetentionDays \in Nat \ {0}
    /\ LastDay \in Nat
    /\ WorkUnits \in [Requests -> Nat \ {0}]
    /\ Outcomes \subseteq Terminal

ASSUME NamesAssumption ==
    /\ NoKey \notin Keys
    /\ NoOwner \notin Owners
    /\ NoPrincipal \notin Principals
    /\ NoRequest \notin Requests
    /\ IsFiniteSet(OpIds)

VARIABLES
    rows,        \* operation_usage: OpIds -> Row
    phase,       \* life cycle of each service instance
    held,        \* owners whose kernel lock is held
    leaseFile,   \* owners whose <identity>.lock exists
    hasAdmitted, \* owners with OperationStore._has_admitted set
    incomplete,  \* owners with OperationAdmissionService._accounting_incomplete set
    runner,      \* OpIds -> the owner whose thread is executing the operation
    ran,         \* history: operations whose execution was ever started
    sweeping,    \* owners inside prune_owner_leases
    retired,     \* <<o, x>>: o's sweep read no active row of x and will try to remove its lease
    valid,       \* principals whose stored credential is currently acceptable
    day,         \* current UTC day
    charged      \* history: units ever charged to a principal on a day

tableVars == <<rows, charged>>
leaseVars == <<phase, held, leaseFile>>
serviceVars == <<hasAdmitted, incomplete>>
workVars == <<runner, ran>>
sweepVars == <<sweeping, retired>>
envVars == <<valid, day>>
vars == <<tableVars, leaseVars, serviceVars, workVars, sweepVars, envVars>>

Phases == {"unborn", "pending", "locked", "published", "open", "retained", "closed", "crashed"}

Row == [outcome   : Terminal \cup {"absent", "accepted"},
        slot      : BOOLEAN,
        principal : Principals \cup {NoPrincipal},
        owner     : Owners \cup {NoOwner},
        key       : Keys \cup {NoKey},
        request   : Requests \cup {NoRequest},
        units     : Nat,
        usageDay  : Days \cup {-1},
        finished  : Days \cup {-1}]

NoRow == [outcome |-> "absent", slot |-> FALSE, principal |-> NoPrincipal,
          owner |-> NoOwner, key |-> NoKey, request |-> NoRequest,
          units |-> 0, usageDay |-> -1, finished |-> -1]

-----------------------------------------------------------------------------
(* Queries over the table (the SELECTs of reserve and activate).           *)

Present(table) == {op \in OpIds : table[op].outcome # "absent"}

\* outcome = 'accepted' AND active_slot = 1
IsActive(row) == row.outcome = "accepted" /\ row.slot

ActiveOps(table) == {op \in OpIds : IsActive(table[op])}

ActiveOf(table, p) == {op \in ActiveOps(table) : table[op].principal = p}

ActiveOwned(table, o) == {op \in ActiveOps(table) : table[op].owner = o}

\* COALESCE(SUM(work_units), 0) ... WHERE principal_id = ? AND usage_date = ?
DailyUnits(table, p, d) ==
    MapThenSumSet(LAMBDA op : table[op].units,
                  {op \in Present(table) : table[op].principal = p /\ table[op].usageDay = d})

Keyed(table, p, k) == {op \in Present(table) : table[op].principal = p /\ table[op].key = k}

-----------------------------------------------------------------------------
(* Leases and the maintenance that runs inside other transactions.         *)

\* Mutant of Abandoned: the probe does not try the lock.
AbandonedIfListed(x) == x \in leaseFile

\* OperationOwner.abandoned(x): the lease file exists and its lock is free.
\* A missing file proves nothing, so it answers False.
Abandoned(x) == x \in leaseFile /\ x \notin held

\* Mutant of Recovered: the outcome is written, the slot is not released.
RecoveredKeepsSlot(table) ==
    [op \in OpIds |->
        IF IsActive(table[op]) /\ Abandoned(table[op].owner)
        THEN [table[op] EXCEPT !.outcome = "interrupted"]
        ELSE table[op]]

\* _recover_interrupted: every active row of an abandoned owner becomes interrupted.
Recovered(table) ==
    [op \in OpIds |->
        IF IsActive(table[op]) /\ Abandoned(table[op].owner)
        THEN [table[op] EXCEPT !.outcome = "interrupted", !.slot = FALSE, !.finished = day]
        ELSE table[op]]

\* _prune: terminal rows without a reservation key, finished RetentionDays
\* before the sampled time d and charged to an earlier day, may be deleted.
\* May, because the code compares seconds where the model counts days (a row
\* finished exactly RetentionDays ago can be on either side) and deletes at
\* most 1000 rows at a time.
Expired(row, d) ==
    /\ row.outcome \in Terminal
    /\ row.key = NoKey
    /\ row.finished <= d - RetentionDays
    /\ row.usageDay < d

Prunable(d) == {op \in OpIds : Expired(Recovered(rows)[op], d)}

\* The table a reservation works on: recovery, then pruning of the rows in gone.
Maintained(gone) ==
    [op \in OpIds |-> IF op \in gone THEN NoRow ELSE Recovered(rows)[op]]

\* The timestamp is read before BEGIN IMMEDIATE waits for the writer lock, so
\* a reservation may be charged to the day that has just ended.
SampledDays == {d \in {day - 1, day} : d >= 0}

-----------------------------------------------------------------------------
(* Admission policy: the decide callbacks of admit_operation and           *)
(* run_accepted, evaluated on the locked table.                            *)

\* Mutant of FreeSlot: off by one at the limit.
FreeSlotInclusive(table, p) ==
    /\ Cardinality(ActiveOps(table)) <= GlobalLimit
    /\ Cardinality(ActiveOf(table, p)) <= PrincipalLimit

FreeSlot(table, p) ==
    /\ Cardinality(ActiveOps(table)) < GlobalLimit
    /\ Cardinality(ActiveOf(table, p)) < PrincipalLimit

\* Mutant of WithinAllowance: weighted work is checked as if it were one unit.
WithinAllowanceUnweighted(table, p, d, units) == DailyUnits(table, p, d) < DailyLimit

WithinAllowance(table, p, d, units) == DailyUnits(table, p, d) + units <= DailyLimit

\* uuid4: an id that no row has now or had before.
FreshIds == OpIds \ (ran \cup Present(rows))

\* _require_ready: an open service that has not lost track of an outcome.
Ready(o) == phase[o] = "open" /\ o \notin incomplete

NewRow(o, p, d, units, slot, k, r) ==
    [outcome |-> "accepted", slot |-> slot, principal |-> p, owner |-> o, key |-> k,
     request |-> r, units |-> units, usageDay |-> d, finished |-> -1]

Finished(row, outcome) ==
    [row EXCEPT !.outcome = outcome, !.slot = FALSE, !.finished = day]

Charge(p, d, units) == [charged EXCEPT ![p][d] = @ + units]

-----------------------------------------------------------------------------
Init ==
    /\ rows = [op \in OpIds |-> NoRow]
    /\ phase = [o \in Owners |-> "unborn"]
    /\ held = {} /\ leaseFile = {}
    /\ hasAdmitted = {} /\ incomplete = {}
    /\ runner = [op \in OpIds |-> NoOwner]
    /\ ran = {}
    /\ sweeping = {} /\ retired = {}
    /\ valid = Principals
    /\ day = 0
    /\ charged = [p \in Principals |-> [d \in Days |-> 0]]

(* Opening a service: OperationOwner.__init__, OperationStore.__init__ and *)
(* OperationAdmissionService.__init__.  The lock is taken on the private   *)
(* .pending name; only a locked inode is linked to its public name.        *)

CreateLease(o) ==
    /\ phase[o] = "unborn"
    /\ phase' = [phase EXCEPT ![o] = "pending"]
    /\ UNCHANGED <<held, leaseFile, tableVars, serviceVars, workVars, sweepVars, envVars>>

LockLease(o) ==
    /\ phase[o] = "pending"
    /\ phase' = [phase EXCEPT ![o] = "locked"]
    /\ held' = held \cup {o}
    /\ UNCHANGED <<leaseFile, tableVars, serviceVars, workVars, sweepVars, envVars>>

PublishLease(o) ==
    /\ phase[o] = "locked"
    /\ phase' = [phase EXCEPT ![o] = "published"]
    /\ leaseFile' = leaseFile \cup {o}
    /\ UNCHANGED <<held, tableVars, serviceVars, workVars, sweepVars, envVars>>

\* recover_interrupted, then the start of prune_owner_leases.
OpenService(o) ==
    /\ phase[o] = "published"
    /\ phase' = [phase EXCEPT ![o] = "open"]
    /\ rows' = Recovered(rows)
    /\ sweeping' = sweeping \cup {o}
    /\ UNCHANGED <<held, leaseFile, charged, serviceVars, workVars, retired, envVars>>

\* Any failure on the way releases the lock and unlinks both names.
OpenFails(o) ==
    /\ phase[o] \in {"pending", "locked", "published"}
    /\ phase' = [phase EXCEPT ![o] = "closed"]
    /\ held' = held \ {o}
    /\ leaseFile' = leaseFile \ {o}
    /\ UNCHANGED <<tableVars, serviceVars, workVars, sweepVars, envVars>>

-----------------------------------------------------------------------------
(* Interactive work: OperationAdmissionService.run.                        *)

\* The reservation charges one unit and takes a slot; the same thread then
\* sweeps leases and starts the operation.
Reserve(o, p) ==
    /\ Ready(o)
    /\ p \in valid
    /\ \E d \in SampledDays, op \in FreshIds :
        \E gone \in SUBSET Prunable(d) :
            /\ FreeSlot(Maintained(gone), p)
            /\ WithinAllowance(Maintained(gone), p, d, 1)
            /\ rows' = [Maintained(gone) EXCEPT
                            ![op] = NewRow(o, p, d, 1, TRUE, NoKey, NoRequest)]
            /\ charged' = Charge(p, d, 1)
            /\ runner' = [runner EXCEPT ![op] = o]
            /\ ran' = ran \cup {op}
    /\ hasAdmitted' = hasAdmitted \cup {o}
    /\ sweeping' = sweeping \cup {o}
    /\ UNCHANGED <<leaseVars, incomplete, retired, envVars>>

\* A rejection still commits the recovery and the pruning, and still sweeps.
ReserveRejected(o, p) ==
    /\ Ready(o)
    /\ \E d \in SampledDays :
        \E gone \in SUBSET Prunable(d) :
            /\ \/ p \notin valid
               \/ ~FreeSlot(Maintained(gone), p)
               \/ ~WithinAllowance(Maintained(gone), p, d, 1)
            /\ rows' = Maintained(gone)
    /\ sweeping' = sweeping \cup {o}
    /\ UNCHANGED <<charged, leaseVars, serviceVars, workVars, retired, envVars>>

-----------------------------------------------------------------------------
(* Queued work: accept_work, run_accepted and finish_accepted.             *)

\* A new reservation key charges the whole weight and takes no slot.
AcceptWork(o, p, k, r) ==
    /\ Ready(o)
    /\ p \in valid
    /\ \E d \in SampledDays, op \in FreshIds :
        \E gone \in SUBSET Prunable(d) :
            /\ Keyed(Maintained(gone), p, k) = {}
            /\ WithinAllowance(Maintained(gone), p, d, WorkUnits[r])
            /\ rows' = [Maintained(gone) EXCEPT
                            ![op] = NewRow(o, p, d, WorkUnits[r], FALSE, k, r)]
            /\ charged' = Charge(p, d, WorkUnits[r])
    /\ UNCHANGED <<leaseVars, serviceVars, workVars, sweepVars, envVars>>

\* acceptance_conflict, invalid_token, reuse of the existing acceptance and
\* quota_exceeded all leave only the maintenance behind.
AcceptWorkUncharged(o, p, k, r) ==
    /\ Ready(o)
    /\ \E d \in SampledDays :
        \E gone \in SUBSET Prunable(d) :
            /\ \/ p \notin valid
               \/ Keyed(Maintained(gone), p, k) # {}
               \/ ~WithinAllowance(Maintained(gone), p, d, WorkUnits[r])
            /\ rows' = Maintained(gone)
    /\ UNCHANGED <<charged, leaseVars, serviceVars, workVars, sweepVars, envVars>>

\* Mutant of Activate: an acceptance that is already active is activated again.
ActivateActive(o, op) ==
    /\ Ready(o)
    /\ LET table == Recovered(rows)
           row == table[op]
       IN  /\ row.outcome = "accepted" /\ row.key # NoKey
           /\ row.principal \in valid
           /\ Cardinality(ActiveOps(table) \ {op}) < GlobalLimit
           /\ Cardinality(ActiveOf(table, row.principal) \ {op}) < PrincipalLimit
           /\ rows' = [table EXCEPT ![op].slot = TRUE, ![op].owner = o]
    /\ hasAdmitted' = hasAdmitted \cup {o}
    /\ runner' = [runner EXCEPT ![op] = o]
    /\ ran' = ran \cup {op}
    /\ UNCHANGED <<charged, leaseVars, incomplete, sweepVars, envVars>>

\* store.activate: the worker takes the slot of an inactive acceptance.
Activate(o, op) ==
    /\ Ready(o)
    /\ LET table == Recovered(rows)
           row == table[op]
       IN  /\ row.outcome = "accepted" /\ ~row.slot /\ row.key # NoKey
           /\ row.principal \in valid
           /\ FreeSlot(table, row.principal)
           /\ rows' = [table EXCEPT ![op].slot = TRUE, ![op].owner = o]
    /\ hasAdmitted' = hasAdmitted \cup {o}
    /\ runner' = [runner EXCEPT ![op] = o]
    /\ ran' = ran \cup {op}
    /\ UNCHANGED <<charged, leaseVars, incomplete, sweepVars, envVars>>

\* acceptance_not_found, acceptance_finalized, principal_busy, server_busy
\* and invalid_token commit the recovery and nothing else.
ActivateRejected(o, op) ==
    /\ Ready(o)
    /\ LET table == Recovered(rows)
           row == table[op]
       IN  /\ \/ row.outcome # "accepted" \/ row.slot \/ row.key = NoKey
              \/ row.principal \notin valid
              \/ ~FreeSlot(table, row.principal)
           /\ rows' = table
    /\ UNCHANGED <<charged, leaseVars, serviceVars, workVars, sweepVars, envVars>>

\* Mutant of FinishAccepted: a recorded outcome is overwritten.
FinishAcceptedAgain(o, op, outcome) ==
    /\ phase[o] = "open"
    /\ LET table == Recovered(rows)
       IN  rows' = IF table[op].outcome # "absent" /\ ~table[op].slot /\ table[op].key # NoKey
                   THEN [table EXCEPT ![op] = Finished(@, outcome)]
                   ELSE table
    /\ UNCHANGED <<charged, leaseVars, serviceVars, workVars, sweepVars, envVars>>

\* store.finish_accepted: close an acceptance that holds no slot; a terminal
\* outcome is returned as it is, and an active row is left to its worker.
FinishAccepted(o, op, outcome) ==
    /\ phase[o] = "open"
    /\ LET table == Recovered(rows)
       IN  rows' = IF /\ table[op].outcome = "accepted"
                      /\ ~table[op].slot
                      /\ table[op].key # NoKey
                   THEN [table EXCEPT ![op] = Finished(@, outcome)]
                   ELSE table
    /\ UNCHANGED <<charged, leaseVars, serviceVars, workVars, sweepVars, envVars>>

FinishAcceptedFails(o) ==
    /\ phase[o] = "open"
    /\ incomplete' = incomplete \cup {o}
    /\ UNCHANGED <<tableVars, leaseVars, hasAdmitted, workVars, sweepVars, envVars>>

-----------------------------------------------------------------------------
(* The end of _execute: store.finish, with or without success.             *)

Finish(op, outcome) ==
    /\ runner[op] # NoOwner
    /\ rows' = IF rows[op].outcome = "accepted" /\ rows[op].owner = runner[op]
               THEN [rows EXCEPT ![op] = Finished(@, outcome)]
               ELSE rows
    /\ runner' = [runner EXCEPT ![op] = NoOwner]
    /\ UNCHANGED <<ran, charged, leaseVars, serviceVars, sweepVars, envVars>>

\* Mutant of FinishFails: the lost outcome is not remembered.
FinishFailsSilently(op) ==
    /\ runner[op] # NoOwner
    /\ runner' = [runner EXCEPT ![op] = NoOwner]
    /\ UNCHANGED <<ran, tableVars, leaseVars, serviceVars, sweepVars, envVars>>

\* Every retry was refused: the row keeps its slot and the service stops
\* admitting work.
FinishFails(op) ==
    /\ runner[op] # NoOwner
    /\ runner' = [runner EXCEPT ![op] = NoOwner]
    /\ incomplete' = incomplete \cup {runner[op]}
    /\ UNCHANGED <<ran, tableVars, leaseVars, hasAdmitted, sweepVars, envVars>>

-----------------------------------------------------------------------------
(* prune_owner_leases: for each lease file a SELECT outside any            *)
(* transaction, then an exclusive probe and an unlink.                     *)

InspectLease(o, x) ==
    /\ o \in sweeping
    /\ x \in leaseFile
    /\ ActiveOwned(rows, x) = {}
    /\ retired' = retired \cup {<<o, x>>}
    /\ UNCHANGED <<tableVars, leaseVars, serviceVars, workVars, sweeping, envVars>>

\* Mutant of RemoveLease: the lease is unlinked without the exclusive probe.
RemoveLeaseUnprobed(o, x) ==
    /\ <<o, x>> \in retired
    /\ retired' = retired \ {<<o, x>>}
    /\ leaseFile' = leaseFile \ {x}
    /\ UNCHANGED <<phase, held, tableVars, serviceVars, workVars, sweeping, envVars>>

RemoveLease(o, x) ==
    /\ <<o, x>> \in retired
    /\ retired' = retired \ {<<o, x>>}
    /\ leaseFile' = IF Abandoned(x) THEN leaseFile \ {x} ELSE leaseFile
    /\ UNCHANGED <<phase, held, tableVars, serviceVars, workVars, sweeping, envVars>>

\* The scan ends, at its limit of 100 files, or on a storage error.
EndSweep(o) ==
    /\ o \in sweeping
    /\ sweeping' = sweeping \ {o}
    /\ retired' = {pair \in retired : pair[1] # o}
    /\ UNCHANGED <<tableVars, leaseVars, serviceVars, workVars, envVars>>

-----------------------------------------------------------------------------
(* The end of a service.                                                   *)

Drained(o) == o \notin sweeping /\ \A op \in OpIds : runner[op] # o

\* store.close after the workers have drained: the lease is released unless
\* the owner admitted work whose outcome is not recorded.
Close(o) ==
    /\ phase[o] \in {"open", "retained"}
    /\ Drained(o)
    /\ o \in hasAdmitted => ActiveOwned(rows, o) = {}
    /\ phase' = [phase EXCEPT ![o] = "closed"]
    /\ held' = held \ {o}
    /\ leaseFile' = leaseFile \ {o}
    /\ UNCHANGED <<tableVars, serviceVars, workVars, sweepVars, envVars>>

\* Unresolved rows, or a table that cannot be read, keep the lease.
CloseRetains(o) ==
    /\ phase[o] = "open"
    /\ Drained(o)
    /\ o \in hasAdmitted
    /\ phase' = [phase EXCEPT ![o] = "retained"]
    /\ UNCHANGED <<held, leaseFile, tableVars, serviceVars, workVars, sweepVars, envVars>>

\* weakref.finalize closes the descriptor of a retained, discarded owner.
Collect(o) ==
    /\ phase[o] = "retained"
    /\ phase' = [phase EXCEPT ![o] = "closed"]
    /\ held' = held \ {o}
    /\ UNCHANGED <<leaseFile, tableVars, serviceVars, workVars, sweepVars, envVars>>

\* The process dies: the kernel drops its lock, the files and rows stay.
Crash(o) ==
    /\ phase[o] \notin {"unborn", "closed", "crashed"}
    /\ phase' = [phase EXCEPT ![o] = "crashed"]
    /\ held' = held \ {o}
    /\ runner' = [op \in OpIds |-> IF runner[op] = o THEN NoOwner ELSE runner[op]]
    /\ sweeping' = sweeping \ {o}
    /\ retired' = {pair \in retired : pair[1] # o}
    /\ UNCHANGED <<leaseFile, ran, tableVars, serviceVars, envVars>>

-----------------------------------------------------------------------------
(* The environment: account status and key revocation, and the clock.      *)

RevokeAuthority(p) ==
    /\ p \in valid
    /\ valid' = valid \ {p}
    /\ UNCHANGED <<day, tableVars, leaseVars, serviceVars, workVars, sweepVars>>

RestoreAuthority(p) ==
    /\ p \in Principals \ valid
    /\ valid' = valid \cup {p}
    /\ UNCHANGED <<day, tableVars, leaseVars, serviceVars, workVars, sweepVars>>

NextDay ==
    /\ day < LastDay
    /\ day' = day + 1
    /\ UNCHANGED <<valid, tableVars, leaseVars, serviceVars, workVars, sweepVars>>

-----------------------------------------------------------------------------
OwnerNext(o) ==
    \/ CreateLease(o) \/ LockLease(o) \/ PublishLease(o)
    \/ OpenService(o) \/ OpenFails(o)
    \/ \E p \in Principals :
        \/ Reserve(o, p) \/ ReserveRejected(o, p)
        \/ \E k \in Keys, r \in Requests :
            AcceptWork(o, p, k, r) \/ AcceptWorkUncharged(o, p, k, r)
    \/ \E op \in OpIds :
        \/ Activate(o, op) \/ ActivateRejected(o, op)
        \/ \E outcome \in Outcomes : FinishAccepted(o, op, outcome)
    \/ FinishAcceptedFails(o)
    \/ \E x \in Owners : InspectLease(o, x) \/ RemoveLease(o, x)
    \/ EndSweep(o)
    \/ Close(o) \/ CloseRetains(o) \/ Collect(o) \/ Crash(o)

WorkerNext(op) ==
    \/ \E outcome \in Outcomes : Finish(op, outcome)
    \/ FinishFails(op)

EnvNext ==
    \/ \E p \in Principals : RevokeAuthority(p) \/ RestoreAuthority(p)
    \/ NextDay

Next ==
    \/ \E o \in Owners : OwnerNext(o)
    \/ \E op \in OpIds : WorkerNext(op)
    \/ EnvNext

Spec == Init /\ [][Next]_vars

-----------------------------------------------------------------------------
(* Properties.                                                             *)

Running == {op \in OpIds : runner[op] # NoOwner}

\* Every variable has its type, and every row is one the schema and the
\* writers of operation_usage allow: an accepted row has no finish time, a
\* terminal row has one and holds no slot.
TypeOK ==
    /\ rows \in [OpIds -> Row]
    /\ \A op \in OpIds :
        /\ rows[op].outcome \in Terminal <=> rows[op].finished # -1
        /\ rows[op].slot => rows[op].outcome = "accepted"
    /\ phase \in [Owners -> Phases]
    /\ held \subseteq Owners /\ leaseFile \subseteq Owners
    /\ hasAdmitted \subseteq Owners /\ incomplete \subseteq Owners
    /\ runner \in [OpIds -> Owners \cup {NoOwner}]
    /\ ran \subseteq OpIds
    /\ sweeping \subseteq Owners /\ retired \subseteq Owners \X Owners
    /\ valid \subseteq Principals
    /\ day \in Days
    /\ charged \in [Principals -> [Days -> Nat]]

\* An operation that is executing holds a slot that names its executor, and
\* the executor's lock is held: recovery by another process, a late
\* finish_accepted or a retention sweep never takes the slot of live work.
LiveWorkHoldsItsSlot ==
    \A op \in Running :
        /\ IsActive(rows[op])
        /\ rows[op].owner = runner[op]
        /\ runner[op] \in held

\* The caps hold for the work that really executes, across all processes and
\* across crashes, for the deployment and for each principal.
CapacityRespected ==
    /\ Cardinality(Running) <= GlobalLimit
    /\ \A p \in Principals :
        Cardinality({op \in Running : rows[op].principal = p}) <= PrincipalLimit

\* A service that may admit work can be seen to be alive: its lease file is
\* there and locked, whatever sweeps run beside its start (the lock is taken
\* before the name is published).
LiveOwnerKeepsItsLease ==
    \A o \in Owners : phase[o] \in {"published", "open", "retained"} => o \in held \cap leaseFile

\* A slot that no worker is using any more belongs to a process that died or
\* to a service that has recorded the accounting failure and paused.
LeakedSlotIsReported ==
    \A op \in ActiveOps(rows) \ Running :
        \/ rows[op].owner \in incomplete
        \/ phase[rows[op].owner] = "crashed"

\* No principal is ever charged more than the allowance of a UTC day, counting
\* the rows that retention has since deleted and reservations that sampled
\* the clock before midnight and committed after it.
DailyAllowance ==
    \A p \in Principals : \A d \in Days : charged[p][d] <= DailyLimit

\* Accounting history is final: a terminal outcome never changes, an accepted
\* operation keeps its principal, charge, day and key, and only an expired
\* unkeyed row disappears.
HistoryIsFinal ==
    [][\A op \in Present(rows) :
        \/ /\ rows'[op].outcome = "absent"
           /\ rows[op].outcome \in Terminal
           /\ rows[op].key = NoKey
           /\ rows[op].usageDay < day
        \/ /\ rows'[op].outcome \in {rows[op].outcome} \cup
                  (IF rows[op].outcome = "accepted" THEN Terminal ELSE {})
           /\ \A field \in {"principal", "key", "request", "units", "usageDay"} :
                rows'[op][field] = rows[op][field]
           /\ rows[op].outcome \in Terminal => rows'[op] = rows[op]]_vars

\* The store implements the ledger: across processes, retries and crashes no
\* operation executes twice and no more than GlobalLimit execute at once.
Ledger == INSTANCE ExecutionLedger WITH
              Ops <- OpIds, Limit <- GlobalLimit, running <- Running, started <- ran

ImplementsLedger == Ledger!LedgerSpec

\* "removing only unlocked owners with no accepted rows": a row that still
\* holds a slot has the lease file that recovery needs to reclaim it.
UnresolvedWorkKeepsItsLease ==
    \A op \in ActiveOps(rows) : rows[op].owner \in leaseFile

=============================================================================
