------------------------ MODULE OperationStoreProofs ------------------------
(***************************************************************************)
(* Proofs about OperationStore, for every number of owners, operations,    *)
(* principals, keys and days, and every value of the limits.               *)
(***************************************************************************)
EXTENDS OperationStore, FiniteSetTheorems, TLAPS

(***************************************************************************)
(* The inductive invariant.                                                *)
(***************************************************************************)

\* Every running operation is an active row of its runner, whose service is open.
RunnerInv ==
    \A op \in OpIds : runner[op] # NoOwner =>
        /\ IsActive(rows[op])
        /\ rows[op].owner = runner[op]
        /\ phase[runner[op]] = "open"
        /\ op \in ran

\* An acceptance that holds no slot has never been executed.
WaitingInv ==
    \A op \in OpIds : rows[op].outcome = "accepted" /\ ~rows[op].slot => op \notin ran

\* The table never grants more slots than the limits allow.
SlotInv ==
    /\ Cardinality(ActiveOps(rows)) <= GlobalLimit
    /\ \A p \in Principals : Cardinality(ActiveOf(rows, p)) <= PrincipalLimit

\* Active rows name a principal and an owner.
NamedInv ==
    \A op \in ActiveOps(rows) : rows[op].principal \in Principals /\ rows[op].owner \in Owners

\* A private lease that is not yet published is locked.
LockedInv == \A o \in Owners : phase[o] = "locked" => o \in held

IInv ==
    /\ TypeOK
    /\ LiveOwnerKeepsItsLease
    /\ LockedInv
    /\ RunnerInv
    /\ WaitingInv
    /\ SlotInv
    /\ NamedInv
    /\ LeakedSlotIsReported

(***************************************************************************)
(* What the maintenance inside a transaction may do to the table.          *)
(***************************************************************************)

\* t is the table after some abandoned rows were interrupted and some expired
\* ones deleted: the rows that changed hold no slot and wait for none.
Maintains(t) ==
    /\ t \in [OpIds -> Row]
    /\ \A op \in OpIds :
        \/ t[op] = rows[op]
        \/ /\ t[op].outcome # "accepted" /\ ~t[op].slot
           /\ t[op].outcome \in Terminal <=> t[op].finished # -1
           /\ runner[op] = NoOwner
           /\ rows[op].outcome # "absent"

\* A settled row is a row of the schema; only its outcome, slot and end day change.
LEMMA RowFields ==
    ASSUME NEW r \in Row, NEW outcome \in Terminal, day \in Days
    PROVE  /\ Finished(r, outcome) \in Row
           /\ Finished(r, outcome).outcome = outcome
           /\ Finished(r, outcome).slot = FALSE
           /\ Finished(r, outcome).finished = day
BY DEF Row, Finished

\* The absent row is a row: it holds no slot and has not ended.
LEMMA NoRowFields ==
    /\ NoRow \in Row
    /\ NoRow.outcome = "absent"
    /\ NoRow.slot = FALSE
    /\ NoRow.finished = -1
BY DEF Row, NoRow

\* Recovery never touches the row of a running operation.
LEMMA RecoveredMaintains ==
    ASSUME IInv
    PROVE  Maintains(Recovered(rows))
<1>1. rows \in [OpIds -> Row] /\ day \in Days
  BY DEF IInv, TypeOK
<1>2. ASSUME NEW op \in OpIds, Recovered(rows)[op] # rows[op]
      PROVE  /\ IsActive(rows[op]) /\ Abandoned(rows[op].owner)
             /\ Recovered(rows)[op] = Finished(rows[op], "interrupted")
  BY <1>2 DEF Recovered, Finished
<1>3. "interrupted" \in Terminal
  BY DEF Terminal
<1>4. ASSUME NEW op \in OpIds
      PROVE  Recovered(rows)[op] \in Row
  BY <1>1, <1>2, <1>3, RowFields
<1>5. Recovered(rows) \in [OpIds -> Row]
  BY <1>4 DEF Recovered
<1>6. ASSUME NEW op \in OpIds, Recovered(rows)[op] # rows[op]
      PROVE  runner[op] = NoOwner
  BY <1>2, <1>6 DEF IInv, TypeOK, RunnerInv, LiveOwnerKeepsItsLease, Abandoned
<1>7. ASSUME NEW op \in OpIds, Recovered(rows)[op] # rows[op]
      PROVE  /\ Recovered(rows)[op].outcome = "interrupted"
             /\ Recovered(rows)[op].slot = FALSE
             /\ Recovered(rows)[op].finished # -1
             /\ rows[op].outcome # "absent"
  <2>1. IsActive(rows[op]) /\ Recovered(rows)[op] = Finished(rows[op], "interrupted")
    BY <1>2, <1>7
  <2>2. rows[op].outcome # "absent"
    BY <2>1 DEF IsActive
  <2>3. day # -1
    BY <1>1, LimitsAssumption DEF Days
  <2>4. rows[op] \in Row
    BY <1>1
  <2>5. /\ Finished(rows[op], "interrupted").outcome = "interrupted"
        /\ Finished(rows[op], "interrupted").slot = FALSE
        /\ Finished(rows[op], "interrupted").finished = day
    BY <1>1, <1>3, <2>4, RowFields
  <2> QED BY <2>1, <2>2, <2>3, <2>5
<1> QED
  BY <1>3, <1>5, <1>6, <1>7 DEF Maintains

\* The maintenance that precedes every admission (recovery, then retention) keeps the table in order.
LEMMA MaintainedMaintains ==
    ASSUME IInv, NEW d, NEW gone \in SUBSET Prunable(d)
    PROVE  Maintains(Maintained(gone))
<1>1. Maintains(Recovered(rows))
  BY RecoveredMaintains
<1>2. gone \subseteq OpIds
  BY DEF Prunable
<1>3. ASSUME NEW op \in gone
      PROVE  Maintained(gone)[op] = NoRow
  BY <1>2 DEF Maintained
<1>4. ASSUME NEW op \in OpIds \ gone
      PROVE  Maintained(gone)[op] = Recovered(rows)[op]
  BY DEF Maintained
<1>5. Maintained(gone) \in [OpIds -> Row]
  BY <1>1, NoRowFields DEF Maintained, Maintains
<1>6. ASSUME NEW op \in gone
      PROVE  /\ runner[op] = NoOwner
             /\ rows[op].outcome # "absent"
  <2>1. Recovered(rows)[op].outcome \in Terminal
    BY DEF Prunable, Expired
  <2>2. rows[op].outcome # "absent"
    BY <1>1, <1>2, <2>1 DEF Maintains, Terminal
  <2>3. runner[op] = NoOwner
    BY <1>1, <1>2, <2>1 DEF Maintains, Terminal, IInv, RunnerInv, IsActive
  <2> QED BY <2>2, <2>3
<1>7. NoRow.outcome \notin Terminal
  BY NoRowFields DEF Terminal
<1> QED
  BY <1>1, <1>2, <1>3, <1>4, <1>5, <1>6, <1>7, NoRowFields DEF Maintains

(***************************************************************************)
(* Counting slots.                                                         *)
(***************************************************************************)

\* Sets of operations are finite: their cardinality is a number.
LEMMA FiniteOps ==
    ASSUME NEW S \in SUBSET OpIds
    PROVE  IsFiniteSet(S) /\ Cardinality(S) \in Nat
BY NamesAssumption, FS_Subset, FS_CardinalityType

\* Fewer operations count less.
LEMMA FewerOps ==
    ASSUME NEW T \in SUBSET OpIds, NEW S \in SUBSET T
    PROVE  Cardinality(S) <= Cardinality(T)
BY FiniteOps, FS_Subset

\* One operation more than a set below a limit still respects the limit.
LEMMA OneMoreOp ==
    ASSUME NEW T \in SUBSET OpIds, NEW op \in OpIds, NEW S \in SUBSET (T \cup {op}),
           NEW n \in Nat, Cardinality(T) < n
    PROVE  Cardinality(S) <= n
<1>1. T \cup {op} \in SUBSET OpIds
  OBVIOUS
<1>2. Cardinality(S) <= Cardinality(T \cup {op})
  BY <1>1, FewerOps
<1>3. IsFiniteSet(T) /\ Cardinality(T) \in Nat
  BY FiniteOps
<1>4. Cardinality(T \cup {op}) <= Cardinality(T) + 1
  <2>1. Cardinality(T \cup {op}) = IF op \in T THEN Cardinality(T) ELSE Cardinality(T) + 1
    BY <1>3, FS_AddElement, Zenon
  <2> QED BY <1>3, <2>1
<1>5. Cardinality(S) \in Nat /\ Cardinality(T \cup {op}) \in Nat
  BY <1>1, FiniteOps
<1> QED BY <1>2, <1>3, <1>4, <1>5

\* A table whose active rows were active before grants no more slots.
LEMMA FewerSlots ==
    ASSUME NEW t, NEW u, \A op \in OpIds : IsActive(u[op]) => u[op] = t[op]
    PROVE  /\ Cardinality(ActiveOps(u)) <= Cardinality(ActiveOps(t))
           /\ \A p : Cardinality(ActiveOf(u, p)) <= Cardinality(ActiveOf(t, p))
<1>1. ActiveOps(t) \in SUBSET OpIds /\ ActiveOps(u) \in SUBSET ActiveOps(t)
  BY DEF ActiveOps
<1>2. ASSUME NEW p
      PROVE  ActiveOf(t, p) \in SUBSET OpIds /\ ActiveOf(u, p) \in SUBSET ActiveOf(t, p)
  BY DEF ActiveOf, ActiveOps
<1> QED BY <1>1, <1>2, FewerOps

\* The counts that admission compares with its limits are numbers.
LEMMA SlotCounts ==
    ASSUME NEW t, NEW p
    PROVE  Cardinality(ActiveOps(t)) \in Nat /\ Cardinality(ActiveOf(t, p)) \in Nat
BY FiniteOps DEF ActiveOps, ActiveOf

(***************************************************************************)
(* Steps that start no work: rows may settle, workers may stop.            *)
(***************************************************************************)

\* A row changes only by ceasing to hold or wait for a slot, and no longer runs.
RowsSettle ==
    \A op \in OpIds :
        \/ rows'[op] = rows[op]
        \/ /\ rows'[op].outcome # "accepted" /\ ~rows'[op].slot
           /\ runner'[op] = NoOwner

\* A worker stops only by settling its row, or leaving a trace of its failure.
WorkersStop ==
    \A op \in OpIds :
        \/ runner'[op] = runner[op]
        \/ /\ runner'[op] = NoOwner
           /\ \/ rows'[op] # rows[op]
              \/ runner[op] \in incomplete'
              \/ phase'[runner[op]] = "crashed"

\* A step that starts no work, frees only settled or abandoned rows and forgets no crash and
\* no report preserves every part of the invariant beyond types.
LEMMA QuietStep ==
    ASSUME IInv, TypeOK', RowsSettle, WorkersStop,
           ran' = ran,
           incomplete \subseteq incomplete',
           \A o \in Owners : phase[o] = "crashed" => phase'[o] = "crashed",
           \A op \in OpIds : runner'[op] # NoOwner => phase'[runner'[op]] = "open"
    PROVE  RunnerInv' /\ WaitingInv' /\ SlotInv' /\ NamedInv' /\ LeakedSlotIsReported'
<1> DEFINE SameIfActive == \A op \in OpIds : IsActive(rows'[op]) => rows'[op] = rows[op]
<1>1. SameIfActive
  BY DEF RowsSettle, IsActive
<1>2. RunnerInv'
  BY DEF RowsSettle, WorkersStop, RunnerInv, IInv
<1>3. WaitingInv'
  BY DEF RowsSettle, WaitingInv, IInv
<1>4. SlotInv'
  <2>1. /\ Cardinality(ActiveOps(rows')) <= Cardinality(ActiveOps(rows))
        /\ \A p : Cardinality(ActiveOf(rows', p)) <= Cardinality(ActiveOf(rows, p))
    BY <1>1, FewerSlots
  <2>2. \A p : /\ Cardinality(ActiveOps(rows)) \in Nat /\ Cardinality(ActiveOf(rows, p)) \in Nat
               /\ Cardinality(ActiveOps(rows')) \in Nat /\ Cardinality(ActiveOf(rows', p)) \in Nat
    BY SlotCounts
  <2> QED BY <2>1, <2>2, LimitsAssumption DEF SlotInv, IInv
<1>5. NamedInv'
  BY <1>1 DEF NamedInv, IInv, ActiveOps
<1>6. LeakedSlotIsReported'
  <2> SUFFICES ASSUME NEW op \in OpIds, IsActive(rows'[op]), runner'[op] = NoOwner
               PROVE  rows'[op].owner \in incomplete' \/ phase'[rows'[op].owner] = "crashed"
    BY DEF LeakedSlotIsReported, ActiveOps, Running
  <2>1. rows'[op] = rows[op] /\ IsActive(rows[op])
    BY <1>1
  <2>2. CASE runner[op] = NoOwner
    <3>1. op \in ActiveOps(rows) \ Running
      BY <2>1, <2>2 DEF ActiveOps, Running
    <3>2. rows[op].owner \in Owners
      BY <3>1 DEF NamedInv, IInv
    <3> QED BY <2>1, <3>1, <3>2 DEF LeakedSlotIsReported, IInv
  <2>3. CASE runner[op] # NoOwner
    BY <2>1, <2>3 DEF WorkersStop, RunnerInv, IInv
  <2> QED BY <2>2, <2>3
<1> QED BY <1>2, <1>3, <1>4, <1>5, <1>6

(***************************************************************************)
(* Steps that insert or activate one row on a maintained table t.          *)
(***************************************************************************)

\* The row op of t becomes row, every other row is that of t.
RowInserted(t, op) ==
    /\ Maintains(t)
    /\ \A q \in OpIds \ {op} : rows'[q] = t[q]
    /\ rows'[op].outcome = "accepted"
    /\ rows'[op].principal \in Principals
    /\ rows'[op].owner \in Owners
    /\ runner[op] = NoOwner
    /\ op \notin ran

\* A new acceptance that waits for its worker.
LEMMA WaitStep ==
    ASSUME IInv, TypeOK', NEW t, NEW op \in OpIds, RowInserted(t, op),
           ~rows'[op].slot,
           UNCHANGED <<runner, ran, incomplete, phase>>
    PROVE  RunnerInv' /\ WaitingInv' /\ SlotInv' /\ NamedInv' /\ LeakedSlotIsReported'
<1>1. \A q \in OpIds : IsActive(rows'[q]) => rows'[q] = rows[q]
  BY DEF RowInserted, Maintains, IsActive
<1>2. RunnerInv'
  BY DEF RunnerInv, IInv, RowInserted, Maintains
<1>3. WaitingInv'
  BY DEF WaitingInv, IInv, RowInserted, Maintains
<1>4. SlotInv'
  <2>1. /\ Cardinality(ActiveOps(rows')) <= Cardinality(ActiveOps(rows))
        /\ \A p : Cardinality(ActiveOf(rows', p)) <= Cardinality(ActiveOf(rows, p))
    BY <1>1, FewerSlots
  <2>2. \A p : /\ Cardinality(ActiveOps(rows)) \in Nat /\ Cardinality(ActiveOf(rows, p)) \in Nat
               /\ Cardinality(ActiveOps(rows')) \in Nat /\ Cardinality(ActiveOf(rows', p)) \in Nat
    BY SlotCounts
  <2> QED BY <2>1, <2>2, LimitsAssumption DEF SlotInv, IInv
<1>5. NamedInv'
  BY <1>1 DEF NamedInv, IInv, ActiveOps
<1>6. LeakedSlotIsReported'
  BY <1>1 DEF LeakedSlotIsReported, IInv, ActiveOps, Running
<1> QED BY <1>2, <1>3, <1>4, <1>5, <1>6

\* An operation takes a free slot and begins to execute.
LEMMA StartStep ==
    ASSUME IInv, TypeOK', NEW t, NEW op \in OpIds, RowInserted(t, op),
           rows'[op].slot,
           FreeSlot(t, rows'[op].principal),
           runner' = [runner EXCEPT ![op] = rows'[op].owner],
           ran' = ran \cup {op},
           phase[rows'[op].owner] = "open",
           UNCHANGED <<incomplete, phase>>
    PROVE  RunnerInv' /\ WaitingInv' /\ SlotInv' /\ NamedInv' /\ LeakedSlotIsReported'
<1>0. runner' \in [OpIds -> Owners \cup {NoOwner}] /\ runner \in [OpIds -> Owners \cup {NoOwner}]
  BY DEF TypeOK, IInv
<1>1. \A q \in OpIds \ {op} : /\ runner'[q] = runner[q]
                              /\ IsActive(rows'[q]) => rows'[q] = rows[q] /\ t[q] = rows[q]
  BY <1>0 DEF RowInserted, Maintains, IsActive
<1>2. runner'[op] = rows'[op].owner /\ runner'[op] # NoOwner /\ IsActive(rows'[op])
  BY <1>0, NamesAssumption DEF RowInserted, IsActive
<1>3. RunnerInv'
  BY <1>1, <1>2 DEF RunnerInv, IInv, RowInserted, Maintains
<1>4. WaitingInv'
  BY DEF WaitingInv, IInv, RowInserted, Maintains
<1>5. SlotInv'
  <2>1. /\ ActiveOps(t) \in SUBSET OpIds
        /\ ActiveOps(rows') \in SUBSET (ActiveOps(t) \cup {op})
    BY <1>1 DEF ActiveOps
  <2>2. Cardinality(ActiveOps(rows')) <= GlobalLimit
    BY <2>1, OneMoreOp, LimitsAssumption DEF FreeSlot
  <2>3. ASSUME NEW p \in Principals
        PROVE  Cardinality(ActiveOf(rows', p)) <= PrincipalLimit
    <3>1. CASE p = rows'[op].principal
      <4>1. /\ ActiveOf(t, p) \in SUBSET OpIds
            /\ ActiveOf(rows', p) \in SUBSET (ActiveOf(t, p) \cup {op})
        BY <1>1 DEF ActiveOf, ActiveOps
      <4> QED BY <3>1, <4>1, OneMoreOp, LimitsAssumption DEF FreeSlot
    <3>2. CASE p # rows'[op].principal
      <4>1. /\ ActiveOf(rows, p) \in SUBSET OpIds
            /\ ActiveOf(rows', p) \in SUBSET ActiveOf(rows, p)
        BY <1>1, <3>2 DEF ActiveOf, ActiveOps
      <4>2. Cardinality(ActiveOf(rows', p)) <= Cardinality(ActiveOf(rows, p))
        BY <4>1, FewerOps
      <4>3. Cardinality(ActiveOf(rows, p)) <= PrincipalLimit
        BY DEF SlotInv, IInv
      <4> QED BY <4>2, <4>3, SlotCounts, LimitsAssumption
    <3> QED BY <3>1, <3>2
  <2> QED BY <2>2, <2>3 DEF SlotInv
<1>6. NamedInv'
  BY <1>1 DEF NamedInv, IInv, ActiveOps, RowInserted
<1>7. LeakedSlotIsReported'
  BY <1>1, <1>2 DEF LeakedSlotIsReported, IInv, ActiveOps, Running
<1> QED BY <1>3, <1>4, <1>5, <1>6, <1>7

(***************************************************************************)
(* Types of the table after each kind of write.                            *)
(***************************************************************************)

TableOK(t) ==
    /\ t \in [OpIds -> Row]
    /\ \A op \in OpIds :
        /\ t[op].outcome \in Terminal <=> t[op].finished # -1
        /\ t[op].slot => t[op].outcome = "accepted"

\* A maintained table is well formed.
LEMMA MaintainedTable ==
    ASSUME IInv, NEW t, Maintains(t)
    PROVE  TableOK(t)
BY DEF TableOK, Maintains, IInv, TypeOK

\* So is one in which, after maintenance, a row is settled ...
LEMMA SettledTable ==
    ASSUME IInv, NEW t, Maintains(t), NEW op \in OpIds, NEW outcome \in Terminal
    PROVE  TableOK([t EXCEPT ![op] = Finished(@, outcome)])
<1>1. t[op] \in Row /\ day \in Days /\ day # -1
  BY LimitsAssumption DEF Maintains, IInv, TypeOK, Days
<1>2. /\ Finished(t[op], outcome) \in Row
      /\ Finished(t[op], outcome).outcome = outcome
      /\ Finished(t[op], outcome).slot = FALSE
      /\ Finished(t[op], outcome).finished = day
  BY <1>1, RowFields
<1>3. TableOK(t)
  BY MaintainedTable
<1> QED BY <1>1, <1>2, <1>3 DEF TableOK

\* ... and one into which an accepted row is inserted.
LEMMA InsertedTable ==
    ASSUME NEW t, TableOK(t), NEW op \in OpIds, NEW row \in Row,
           row.outcome = "accepted", row.finished = -1
    PROVE  TableOK([t EXCEPT ![op] = row])
BY DEF TableOK, Terminal

\* A timestamp sampled before the transaction is a day.
LEMMA SampledDaysType ==
    ASSUME TypeOK
    PROVE  SampledDays \subseteq Days
BY LimitsAssumption DEF TypeOK, SampledDays, Days

\* Charging a principal keeps the history of charges well typed.
LEMMA ChargeType ==
    ASSUME TypeOK, NEW p \in Principals, NEW d \in Days, NEW units \in Nat
    PROVE  Charge(p, d, units) \in [Principals -> [Days -> Nat]]
BY DEF TypeOK, Charge

(***************************************************************************)
(* The invariant is inductive: one lemma per group of actions.             *)
(***************************************************************************)

\* Opening a service changes no worker, and only recovery touches rows.
LEMMA OpeningSteps ==
    ASSUME IInv, NEW o \in Owners,
           CreateLease(o) \/ LockLease(o) \/ PublishLease(o) \/ OpenService(o) \/ OpenFails(o)
    PROVE  IInv'
<1>1. Maintains(Recovered(rows)) /\ TableOK(Recovered(rows))
  BY RecoveredMaintains, MaintainedTable
<1>2. rows' = rows \/ rows' = Recovered(rows)
  BY DEF CreateLease, LockLease, PublishLease, OpenService, OpenFails, tableVars
<1>3. /\ UNCHANGED <<runner, ran, incomplete, hasAdmitted, retired, valid, day, charged>>
      /\ phase[o] \in {"unborn", "pending", "locked", "published"}
      /\ phase' \in [Owners -> Phases]
      /\ held' \subseteq Owners /\ leaseFile' \subseteq Owners /\ sweeping' \subseteq Owners
      /\ \A x \in Owners \ {o} : /\ phase'[x] = phase[x]
                                 /\ x \in held <=> x \in held'
                                 /\ x \in leaseFile <=> x \in leaseFile'
  BY DEF CreateLease, LockLease, PublishLease, OpenService, OpenFails, IInv, TypeOK, Phases,
         tableVars, serviceVars, workVars, sweepVars, envVars
<1>4. TypeOK'
  BY <1>1, <1>2, <1>3 DEF IInv, TypeOK, TableOK
<1>5. LiveOwnerKeepsItsLease' /\ LockedInv'
  BY <1>3 DEF IInv, LiveOwnerKeepsItsLease, LockedInv, TypeOK,
     CreateLease, LockLease, PublishLease, OpenService, OpenFails
<1>6. RowsSettle /\ WorkersStop
  BY <1>1, <1>2, <1>3 DEF RowsSettle, WorkersStop, Maintains
<1>7. \A op \in OpIds : runner'[op] # NoOwner => phase'[runner'[op]] = "open"
  BY <1>3 DEF IInv, RunnerInv, TypeOK
<1>8. \A x \in Owners : phase[x] = "crashed" => phase'[x] = "crashed"
  BY <1>3
<1> QED BY <1>3, <1>4, <1>5, <1>6, <1>7, <1>8, QuietStep DEF IInv

\* Interactive and queued work that is turned away commits only maintenance.
LEMMA RejectedSteps ==
    ASSUME IInv, NEW o \in Owners,
           \/ \E p \in Principals : ReserveRejected(o, p)
           \/ \E p \in Principals, k \in Keys, r \in Requests : AcceptWorkUncharged(o, p, k, r)
           \/ \E op \in OpIds : ActivateRejected(o, op)
    PROVE  IInv'
<1>1. Maintains(rows')
  <2>1. ASSUME NEW d, NEW gone \in SUBSET Prunable(d), rows' = Maintained(gone)
        PROVE  Maintains(rows')
    BY <2>1, MaintainedMaintains
  <2>2. ASSUME rows' = Recovered(rows)
        PROVE  Maintains(rows')
    BY <2>2, RecoveredMaintains
  <2> QED BY <2>1, <2>2 DEF ReserveRejected, AcceptWorkUncharged, ActivateRejected
<1>2. /\ UNCHANGED <<charged, leaseVars, serviceVars, workVars, retired, envVars>>
      /\ sweeping' \subseteq Owners
  BY DEF ReserveRejected, AcceptWorkUncharged, ActivateRejected, sweepVars, IInv, TypeOK
<1>3. TypeOK'
  BY <1>1, <1>2, MaintainedTable
     DEF IInv, TypeOK, TableOK, leaseVars, serviceVars, workVars, envVars
<1>4. LiveOwnerKeepsItsLease' /\ LockedInv'
  BY <1>2 DEF IInv, LiveOwnerKeepsItsLease, LockedInv, leaseVars
<1>5. RowsSettle /\ WorkersStop
  BY <1>1, <1>2 DEF RowsSettle, WorkersStop, Maintains, workVars
<1>6. /\ \A op \in OpIds : runner'[op] # NoOwner => phase'[runner'[op]] = "open"
      /\ ran' = ran /\ incomplete \subseteq incomplete'
      /\ \A x \in Owners : phase[x] = "crashed" => phase'[x] = "crashed"
  BY <1>2 DEF IInv, RunnerInv, leaseVars, workVars, serviceVars
<1> QED BY <1>3, <1>4, <1>5, <1>6, QuietStep DEF IInv

\* OperationStore.reserve and the work it starts preserve the invariant.
LEMMA ReserveStep ==
    ASSUME IInv, NEW o \in Owners, NEW p \in Principals, Reserve(o, p)
    PROVE  IInv'
<1>1. PICK d \in SampledDays, op \in FreshIds : \E gone \in SUBSET Prunable(d) :
        /\ FreeSlot(Maintained(gone), p)
        /\ rows' = [Maintained(gone) EXCEPT
                        ![op] = NewRow(o, p, d, 1, TRUE, NoKey, NoRequest)]
        /\ charged' = Charge(p, d, 1)
        /\ runner' = [runner EXCEPT ![op] = o]
        /\ ran' = ran \cup {op}
  BY DEF Reserve
<1>2. PICK gone \in SUBSET Prunable(d) :
        /\ FreeSlot(Maintained(gone), p)
        /\ rows' = [Maintained(gone) EXCEPT
                        ![op] = NewRow(o, p, d, 1, TRUE, NoKey, NoRequest)]
  BY <1>1
<1> DEFINE t == Maintained(gone)
           row == NewRow(o, p, d, 1, TRUE, NoKey, NoRequest)
<1>3. Maintains(t) /\ TableOK(t)
  BY MaintainedMaintains, MaintainedTable
<1>4. d \in Days /\ op \in OpIds /\ op \notin ran
  BY SampledDaysType DEF IInv, FreshIds
<1>5. /\ row \in Row /\ row.outcome = "accepted" /\ row.finished = -1
      /\ row.slot = TRUE /\ row.principal = p /\ row.owner = o
  BY <1>4 DEF NewRow, Row
<1> HIDE DEF t, row
<1>6. rows' = [t EXCEPT ![op] = row] /\ FreeSlot(t, p)
  BY <1>2 DEF t, row
<1>7. TableOK(rows')
  BY <1>3, <1>4, <1>5, <1>6, InsertedTable
<1>8. rows'[op] = row /\ \A q \in OpIds \ {op} : rows'[q] = t[q]
  BY <1>3, <1>4, <1>6 DEF TableOK
<1>9. /\ UNCHANGED <<leaseVars, incomplete, retired, envVars>>
      /\ hasAdmitted' = hasAdmitted \cup {o} /\ sweeping' = sweeping \cup {o}
      /\ phase[o] = "open"
  BY DEF Reserve, Ready
<1>10. charged' \in [Principals -> [Days -> Nat]]
  BY <1>1, <1>4, ChargeType DEF IInv
<1>11. TypeOK'
  <2>1. runner' \in [OpIds -> Owners \cup {NoOwner}] /\ ran' \subseteq OpIds
    BY <1>1, <1>4 DEF IInv, TypeOK
  <2> QED BY <1>7, <1>9, <1>10, <2>1 DEF IInv, TypeOK, TableOK, leaseVars, envVars
<1>12. runner[op] = NoOwner
  BY <1>4 DEF IInv, RunnerInv
<1>13. RowInserted(t, op)
  BY <1>3, <1>4, <1>5, <1>8, <1>12 DEF RowInserted
<1>14. RunnerInv' /\ WaitingInv' /\ SlotInv' /\ NamedInv' /\ LeakedSlotIsReported'
  BY <1>1, <1>4, <1>5, <1>6, <1>8, <1>9, <1>11, <1>13, StartStep DEF leaseVars
<1>15. LiveOwnerKeepsItsLease' /\ LockedInv'
  BY <1>9 DEF IInv, LiveOwnerKeepsItsLease, LockedInv, leaseVars
<1> QED BY <1>11, <1>14, <1>15 DEF IInv

\* The prepaid acceptance of queued work preserves the invariant.
LEMMA AcceptWorkStep ==
    ASSUME IInv, NEW o \in Owners, NEW p \in Principals, NEW k \in Keys, NEW r \in Requests,
           AcceptWork(o, p, k, r)
    PROVE  IInv'
<1>1. PICK d \in SampledDays, op \in FreshIds : \E gone \in SUBSET Prunable(d) :
        /\ rows' = [Maintained(gone) EXCEPT
                        ![op] = NewRow(o, p, d, WorkUnits[r], FALSE, k, r)]
        /\ charged' = Charge(p, d, WorkUnits[r])
  BY DEF AcceptWork
<1>2. PICK gone \in SUBSET Prunable(d) :
        rows' = [Maintained(gone) EXCEPT ![op] = NewRow(o, p, d, WorkUnits[r], FALSE, k, r)]
  BY <1>1
<1> DEFINE t == Maintained(gone)
           row == NewRow(o, p, d, WorkUnits[r], FALSE, k, r)
<1>3. Maintains(t) /\ TableOK(t)
  BY MaintainedMaintains, MaintainedTable
<1>4. d \in Days /\ op \in OpIds /\ op \notin ran /\ WorkUnits[r] \in Nat
  BY SampledDaysType, LimitsAssumption DEF IInv, FreshIds
<1>5. /\ row \in Row /\ row.outcome = "accepted" /\ row.finished = -1
      /\ row.slot = FALSE /\ row.principal = p /\ row.owner = o
  BY <1>4 DEF NewRow, Row
<1> HIDE DEF t, row
<1>6. rows' = [t EXCEPT ![op] = row]
  BY <1>2 DEF t, row
<1>7. TableOK(rows')
  BY <1>3, <1>4, <1>5, <1>6, InsertedTable
<1>8. rows'[op] = row /\ \A q \in OpIds \ {op} : rows'[q] = t[q]
  BY <1>3, <1>4, <1>6 DEF TableOK
<1>9. UNCHANGED <<leaseVars, serviceVars, workVars, sweepVars, envVars>>
  BY DEF AcceptWork
<1>10. charged' \in [Principals -> [Days -> Nat]]
  BY <1>1, <1>4, ChargeType DEF IInv
<1>11. TypeOK'
  BY <1>7, <1>9, <1>10
     DEF IInv, TypeOK, TableOK, leaseVars, serviceVars, workVars, sweepVars, envVars
<1>12. runner[op] = NoOwner
  BY <1>4 DEF IInv, RunnerInv
<1>13. RowInserted(t, op)
  BY <1>3, <1>4, <1>5, <1>8, <1>12 DEF RowInserted
<1>14. RunnerInv' /\ WaitingInv' /\ SlotInv' /\ NamedInv' /\ LeakedSlotIsReported'
  BY <1>4, <1>5, <1>8, <1>9, <1>11, <1>13, WaitStep DEF leaseVars, serviceVars, workVars
<1>15. LiveOwnerKeepsItsLease' /\ LockedInv'
  BY <1>9 DEF IInv, LiveOwnerKeepsItsLease, LockedInv, leaseVars
<1> QED BY <1>11, <1>14, <1>15 DEF IInv

\* The activation of an accepted operation preserves the invariant.
LEMMA ActivateStep ==
    ASSUME IInv, NEW o \in Owners, NEW op \in OpIds, Activate(o, op)
    PROVE  IInv'
<1> DEFINE t == Recovered(rows)
<1>1. Maintains(t) /\ TableOK(t)
  BY RecoveredMaintains, MaintainedTable
<1>2. /\ t[op].outcome = "accepted" /\ ~t[op].slot
      /\ t[op].principal \in valid
      /\ FreeSlot(t, t[op].principal)
      /\ rows' = [t EXCEPT ![op].slot = TRUE, ![op].owner = o]
      /\ runner' = [runner EXCEPT ![op] = o]
      /\ ran' = ran \cup {op}
      /\ phase[o] = "open"
      /\ hasAdmitted' = hasAdmitted \cup {o}
      /\ UNCHANGED <<charged, leaseVars, incomplete, sweepVars, envVars>>
  BY DEF Activate, Ready
<1> HIDE DEF t
<1>3. t \in [OpIds -> Row] /\ t[op] \in Row
  BY <1>1 DEF TableOK
<1>4. /\ rows'[op] \in Row
      /\ rows'[op].outcome = "accepted" /\ rows'[op].finished = t[op].finished
      /\ rows'[op].slot = TRUE /\ rows'[op].owner = o
      /\ rows'[op].principal = t[op].principal
  BY <1>2, <1>3 DEF Row
<1>5. /\ rows' \in [OpIds -> Row]
      /\ \A q \in OpIds \ {op} : rows'[q] = t[q]
  <2>1. \A q \in OpIds \ {op} : rows'[q] = t[q]
    BY <1>2, <1>3
  <2>2. \A q \in OpIds : rows'[q] \in Row
    BY <1>3, <1>4, <2>1
  <2>3. DOMAIN rows' = OpIds /\ rows' = [q \in DOMAIN rows' |-> rows'[q]]
    BY <1>2, <1>3
  <2> QED BY <2>1, <2>2, <2>3
<1>6. TableOK(rows')
  BY <1>1, <1>2, <1>4, <1>5 DEF TableOK
<1>7. TypeOK'
  <2>1. runner' \in [OpIds -> Owners \cup {NoOwner}] /\ ran' \subseteq OpIds
    BY <1>2 DEF IInv, TypeOK
  <2> QED BY <1>2, <1>6, <2>1 DEF IInv, TypeOK, TableOK, leaseVars, sweepVars, envVars
<1>8. t[op] = rows[op]
  BY <1>1, <1>2 DEF Maintains
<1>9. op \notin ran /\ runner[op] = NoOwner
  BY <1>2, <1>8 DEF IInv, WaitingInv, RunnerInv
<1>10. RowInserted(t, op)
  BY <1>1, <1>2, <1>4, <1>5, <1>9 DEF RowInserted, IInv, TypeOK
<1>11. RunnerInv' /\ WaitingInv' /\ SlotInv' /\ NamedInv' /\ LeakedSlotIsReported'
  BY <1>2, <1>4, <1>7, <1>10, StartStep DEF leaseVars
<1>12. LiveOwnerKeepsItsLease' /\ LockedInv'
  BY <1>2 DEF IInv, LiveOwnerKeepsItsLease, LockedInv, leaseVars
<1> QED BY <1>7, <1>11, <1>12 DEF IInv

\* The finalization of an acceptance that was never activated preserves the invariant.
LEMMA FinishAcceptedStep ==
    ASSUME IInv, NEW o \in Owners, NEW op \in OpIds, NEW outcome \in Outcomes,
           FinishAccepted(o, op, outcome)
    PROVE  IInv'
<1> DEFINE t == Recovered(rows)
<1>1. Maintains(t) /\ TableOK(t)
  BY RecoveredMaintains, MaintainedTable
<1>2. /\ \/ rows' = t
         \/ /\ t[op].outcome = "accepted" /\ ~t[op].slot
            /\ rows' = [t EXCEPT ![op] = Finished(@, outcome)]
      /\ UNCHANGED <<charged, leaseVars, serviceVars, workVars, sweepVars, envVars>>
  BY DEF FinishAccepted
<1> HIDE DEF t
<1>3. outcome \in Terminal /\ outcome # "accepted"
  BY LimitsAssumption DEF Terminal
<1>4. TableOK(rows')
  BY <1>1, <1>2, <1>3, SettledTable
<1>5. TypeOK'
  BY <1>2, <1>4
     DEF IInv, TypeOK, TableOK, leaseVars, serviceVars, workVars, sweepVars, envVars
<1>6. RowsSettle
  <2>1. CASE rows' = t
    BY <1>1, <1>2, <2>1 DEF RowsSettle, Maintains, workVars
  <2>2. CASE /\ t[op].outcome = "accepted" /\ ~t[op].slot
             /\ rows' = [t EXCEPT ![op] = Finished(@, outcome)]
    <3>1. t[op] = rows[op]
      BY <1>1, <2>2 DEF Maintains
    <3>2. runner'[op] = NoOwner
      BY <1>2, <2>2, <3>1 DEF IInv, RunnerInv, IsActive, workVars
    <3>3. t[op] \in Row /\ day \in Days
      BY <1>1 DEF TableOK, IInv, TypeOK
    <3>4. rows'[op] = Finished(t[op], outcome) /\ \A q \in OpIds \ {op} : rows'[q] = t[q]
      BY <1>1, <2>2 DEF TableOK
    <3>5. rows'[op].outcome = outcome /\ rows'[op].slot = FALSE
      <4>1. Finished(t[op], outcome).outcome = outcome /\ Finished(t[op], outcome).slot = FALSE
        BY <1>3, <3>3, RowFields
      <4> QED BY <3>4, <4>1
    <3> QED BY <1>1, <1>2, <1>3, <3>2, <3>4, <3>5 DEF RowsSettle, Maintains, workVars
  <2> QED BY <1>2, <2>1, <2>2
<1>7. /\ WorkersStop
      /\ ran' = ran /\ incomplete \subseteq incomplete'
      /\ \A q \in OpIds : runner'[q] # NoOwner => phase'[runner'[q]] = "open"
      /\ \A x \in Owners : phase[x] = "crashed" => phase'[x] = "crashed"
  BY <1>2 DEF WorkersStop, IInv, RunnerInv, leaseVars, workVars, serviceVars
<1>8. LiveOwnerKeepsItsLease' /\ LockedInv'
  BY <1>2 DEF IInv, LiveOwnerKeepsItsLease, LockedInv, leaseVars
<1> QED BY <1>5, <1>6, <1>7, <1>8, QuietStep DEF IInv

\* The terminal write of an operation preserves the invariant.
LEMMA FinishStep ==
    ASSUME IInv, NEW op \in OpIds, NEW outcome \in Outcomes, Finish(op, outcome)
    PROVE  IInv'
<1>1. rows[op].outcome = "accepted" /\ rows[op].owner = runner[op]
  BY DEF Finish, IInv, RunnerInv, IsActive
<1>2. /\ rows' = [rows EXCEPT ![op] = Finished(@, outcome)]
      /\ runner' = [runner EXCEPT ![op] = NoOwner]
      /\ UNCHANGED <<ran, charged, leaseVars, serviceVars, sweepVars, envVars>>
  BY <1>1 DEF Finish
<1>3. outcome \in Terminal /\ outcome # "accepted"
  BY LimitsAssumption DEF Terminal
<1>4. Maintains(rows)
  BY DEF Maintains, IInv, TypeOK
<1>5. TableOK(rows')
  BY <1>2, <1>3, <1>4, SettledTable
<1>6. runner' \in [OpIds -> Owners \cup {NoOwner}] /\ runner \in [OpIds -> Owners \cup {NoOwner}]
  BY <1>2 DEF IInv, TypeOK
<1>7. TypeOK'
  BY <1>2, <1>5, <1>6 DEF IInv, TypeOK, TableOK, leaseVars, serviceVars, sweepVars, envVars
<1>8. rows[op] \in Row /\ day \in Days /\ rows \in [OpIds -> Row]
  BY DEF IInv, TypeOK
<1>9. rows'[op] = Finished(rows[op], outcome) /\ \A q \in OpIds \ {op} : rows'[q] = rows[q]
  BY <1>2, <1>8
<1>10. rows'[op].outcome = outcome /\ rows'[op].slot = FALSE
  <2>1. Finished(rows[op], outcome).outcome = outcome /\ Finished(rows[op], outcome).slot = FALSE
    BY <1>3, <1>8, RowFields
  <2> QED BY <1>9, <2>1
<1>11. runner'[op] = NoOwner /\ \A q \in OpIds \ {op} : runner'[q] = runner[q]
  BY <1>2, <1>6
<1>12. RowsSettle /\ WorkersStop
  BY <1>1, <1>3, <1>9, <1>10, <1>11 DEF RowsSettle, WorkersStop
<1>13. /\ ran' = ran /\ incomplete \subseteq incomplete'
       /\ \A q \in OpIds : runner'[q] # NoOwner => phase'[runner'[q]] = "open"
       /\ \A x \in Owners : phase[x] = "crashed" => phase'[x] = "crashed"
  BY <1>2, <1>11 DEF IInv, RunnerInv, leaseVars, serviceVars
<1>14. LiveOwnerKeepsItsLease' /\ LockedInv'
  BY <1>2 DEF IInv, LiveOwnerKeepsItsLease, LockedInv, leaseVars
<1> QED BY <1>7, <1>12, <1>13, <1>14, QuietStep DEF IInv

\* Steps that leave the table alone: failed accounting, sweeps, the end of a
\* service, a crash, and the environment.
LEMMA OtherSteps ==
    ASSUME IInv,
           \/ \E op \in OpIds : FinishFails(op)
           \/ \E o \in Owners : FinishAcceptedFails(o)
           \/ \E o, x \in Owners : InspectLease(o, x) \/ RemoveLease(o, x)
           \/ \E o \in Owners : EndSweep(o) \/ Close(o) \/ CloseRetains(o) \/ Collect(o) \/ Crash(o)
           \/ EnvNext
           \/ UNCHANGED vars
    PROVE  IInv'
<1> USE DEF tableVars, leaseVars, serviceVars, workVars, sweepVars, envVars
<1>1. /\ rows' = rows /\ charged' = charged /\ ran' = ran
      /\ incomplete \subseteq incomplete' /\ hasAdmitted' = hasAdmitted
      /\ \A o \in Owners : phase[o] = "crashed" => phase'[o] = "crashed"
  BY DEF FinishFails, FinishAcceptedFails, InspectLease, RemoveLease, EndSweep, Close, CloseRetains,
         Collect, Crash, EnvNext, RevokeAuthority, RestoreAuthority, NextDay, vars, IInv, TypeOK
<1>2. ASSUME NEW op \in OpIds, FinishFails(op)
      PROVE  TypeOK' /\ LiveOwnerKeepsItsLease' /\ LockedInv' /\ WorkersStop
             /\ \A q \in OpIds : runner'[q] # NoOwner => phase'[runner'[q]] = "open"
  BY <1>2 DEF FinishFails, IInv, TypeOK, LiveOwnerKeepsItsLease, LockedInv, WorkersStop, RunnerInv
<1>3. ASSUME NEW o \in Owners, Crash(o)
      PROVE  TypeOK' /\ LiveOwnerKeepsItsLease' /\ LockedInv' /\ WorkersStop
             /\ \A q \in OpIds : runner'[q] # NoOwner => phase'[runner'[q]] = "open"
  <2>1. /\ phase' = [phase EXCEPT ![o] = "crashed"]
        /\ held' = held \ {o} /\ leaseFile' = leaseFile
        /\ runner' = [q \in OpIds |-> IF runner[q] = o THEN NoOwner ELSE runner[q]]
        /\ phase \in [Owners -> Phases]
    BY <1>3 DEF Crash, IInv, TypeOK
  <2>2. TypeOK'
    BY <1>3 DEF Crash, IInv, TypeOK, Phases
  <2>3. LiveOwnerKeepsItsLease' /\ LockedInv'
    BY <2>1 DEF IInv, LiveOwnerKeepsItsLease, LockedInv
  <2>4. WorkersStop
    BY <2>1 DEF WorkersStop
  <2>5. \A q \in OpIds : runner'[q] # NoOwner => phase'[runner'[q]] = "open"
    BY <2>1 DEF IInv, RunnerInv, TypeOK
  <2> QED BY <2>2, <2>3, <2>4, <2>5
<1>4. ASSUME NEW o \in Owners, Close(o) \/ CloseRetains(o) \/ Collect(o)
      PROVE  TypeOK' /\ LiveOwnerKeepsItsLease' /\ LockedInv' /\ WorkersStop
             /\ \A q \in OpIds : runner'[q] # NoOwner => phase'[runner'[q]] = "open"
  <2>1. /\ phase' \in [Owners -> Phases] /\ phase'[o] \in {"closed", "retained"}
        /\ \A x \in Owners \ {o} : /\ phase'[x] = phase[x]
                                   /\ x \in held <=> x \in held'
                                   /\ x \in leaseFile <=> x \in leaseFile'
        /\ held' \subseteq held /\ leaseFile' \subseteq leaseFile
        /\ runner' = runner
        /\ phase'[o] = "retained" => phase[o] = "open" /\ held' = held /\ leaseFile' = leaseFile
        /\ phase[o] = "retained" \/ Drained(o)
    BY <1>4 DEF Close, CloseRetains, Collect, IInv, TypeOK, Phases
  <2>2. TypeOK'
    BY <1>4, <2>1 DEF Close, CloseRetains, Collect, IInv, TypeOK
  <2>3. LiveOwnerKeepsItsLease' /\ LockedInv'
    BY <2>1 DEF IInv, LiveOwnerKeepsItsLease, LockedInv
  <2>4. WorkersStop
    BY <2>1 DEF WorkersStop
  <2>5. \A q \in OpIds : runner'[q] # NoOwner => phase'[runner'[q]] = "open"
    BY <2>1 DEF IInv, RunnerInv, TypeOK, Drained
  <2> QED BY <2>2, <2>3, <2>4, <2>5
<1>5. ASSUME NEW o \in Owners, NEW x \in Owners, InspectLease(o, x) \/ RemoveLease(o, x)
      PROVE  TypeOK' /\ LiveOwnerKeepsItsLease' /\ LockedInv' /\ WorkersStop
             /\ \A q \in OpIds : runner'[q] # NoOwner => phase'[runner'[q]] = "open"
  BY <1>5 DEF InspectLease, RemoveLease, Abandoned, IInv, TypeOK, LiveOwnerKeepsItsLease, LockedInv,
     WorkersStop, RunnerInv
<1>6. ASSUME \/ EnvNext
             \/ UNCHANGED vars
             \/ \E o \in Owners : EndSweep(o) \/ FinishAcceptedFails(o)
      PROVE  TypeOK' /\ LiveOwnerKeepsItsLease' /\ LockedInv' /\ WorkersStop
             /\ \A q \in OpIds : runner'[q] # NoOwner => phase'[runner'[q]] = "open"
  <2>1. UNCHANGED <<rows, charged, phase, held, leaseFile, hasAdmitted, runner, ran>>
    BY <1>6 DEF EnvNext, RevokeAuthority, RestoreAuthority, NextDay, EndSweep, FinishAcceptedFails, vars
  <2>2. day' \in Days /\ valid' \subseteq Principals /\ incomplete' \subseteq Owners
        /\ sweeping' \subseteq Owners /\ retired' \subseteq Owners \X Owners
    BY <1>6, LimitsAssumption DEF EnvNext, RevokeAuthority, RestoreAuthority, NextDay, EndSweep,
       FinishAcceptedFails, vars, IInv, TypeOK, Days
  <2>3. TypeOK'
    BY <2>1, <2>2 DEF IInv, TypeOK
  <2> QED BY <2>1, <2>3 DEF IInv, LiveOwnerKeepsItsLease, LockedInv, WorkersStop, RunnerInv
<1>7. TypeOK' /\ LiveOwnerKeepsItsLease' /\ LockedInv' /\ WorkersStop
      /\ \A q \in OpIds : runner'[q] # NoOwner => phase'[runner'[q]] = "open"
  BY <1>2, <1>3, <1>4, <1>5, <1>6
<1>8. RowsSettle
  BY <1>1 DEF RowsSettle
<1> QED BY <1>1, <1>7, <1>8, QuietStep DEF IInv

\* The invariant holds of a new store.
LEMMA InitialInvariant == Init => IInv
<1> SUFFICES ASSUME Init PROVE IInv
  OBVIOUS
<1> USE DEF Init
<1>1. \A op \in OpIds : rows[op] = NoRow /\ runner[op] = NoOwner
  OBVIOUS
<1>2. TypeOK
  <2>1. /\ rows \in [OpIds -> Row]
        /\ \A op \in OpIds :
            /\ rows[op].outcome \in Terminal <=> rows[op].finished # -1
            /\ rows[op].slot => rows[op].outcome = "accepted"
    BY <1>1, NoRowFields DEF Terminal
  <2>2. day \in Days /\ charged \in [Principals -> [Days -> Nat]]
    BY LimitsAssumption DEF Days
  <2> QED BY <2>1, <2>2 DEF TypeOK, Phases
<1>3. LiveOwnerKeepsItsLease /\ LockedInv
  BY DEF LiveOwnerKeepsItsLease, LockedInv
<1>4. RunnerInv /\ WaitingInv
  BY <1>1 DEF RunnerInv, WaitingInv
<1>5. ActiveOps(rows) = {} /\ \A p : ActiveOf(rows, p) = {}
  BY <1>1, NoRowFields DEF ActiveOps, ActiveOf, IsActive
<1>6. SlotInv
  <2>1. Cardinality({}) = 0
    BY FS_EmptySet
  <2>2. Cardinality(ActiveOps(rows)) = 0 /\ \A p : Cardinality(ActiveOf(rows, p)) = 0
    BY <1>5, <2>1
  <2> QED BY <2>2, LimitsAssumption DEF SlotInv
<1>7. NamedInv /\ LeakedSlotIsReported
  BY <1>5 DEF NamedInv, LeakedSlotIsReported
<1> QED BY <1>2, <1>3, <1>4, <1>6, <1>7 DEF IInv

\* Every step of the store preserves the invariant.
LEMMA InductiveStep == IInv /\ [Next]_vars => IInv'
<1> SUFFICES ASSUME IInv, [Next]_vars PROVE IInv'
  OBVIOUS
<1>1. ASSUME NEW o \in Owners, OwnerNext(o)
      PROVE  IInv'
  <2>1. CASE CreateLease(o) \/ LockLease(o) \/ PublishLease(o) \/ OpenService(o) \/ OpenFails(o)
    BY <2>1, OpeningSteps
  <2>2. CASE \E p \in Principals : Reserve(o, p)
    BY <2>2, ReserveStep
  <2>3. CASE \E p \in Principals, k \in Keys, r \in Requests : AcceptWork(o, p, k, r)
    BY <2>3, AcceptWorkStep
  <2>4. CASE \/ \E p \in Principals : ReserveRejected(o, p)
             \/ \E p \in Principals, k \in Keys, r \in Requests : AcceptWorkUncharged(o, p, k, r)
             \/ \E op \in OpIds : ActivateRejected(o, op)
    BY <2>4, RejectedSteps
  <2>5. CASE \E op \in OpIds : Activate(o, op)
    BY <2>5, ActivateStep
  <2>6. CASE \E op \in OpIds, outcome \in Outcomes : FinishAccepted(o, op, outcome)
    BY <2>6, FinishAcceptedStep
  <2>7. CASE \/ FinishAcceptedFails(o)
             \/ \E x \in Owners : InspectLease(o, x) \/ RemoveLease(o, x)
             \/ EndSweep(o) \/ Close(o) \/ CloseRetains(o) \/ Collect(o) \/ Crash(o)
    BY <2>7, OtherSteps
  <2> QED BY <1>1, <2>1, <2>2, <2>3, <2>4, <2>5, <2>6, <2>7 DEF OwnerNext
<1>2. ASSUME NEW op \in OpIds, WorkerNext(op)
      PROVE  IInv'
  BY <1>2, FinishStep, OtherSteps DEF WorkerNext
<1>3. CASE EnvNext
  BY <1>3, OtherSteps
<1>4. CASE UNCHANGED vars
  BY <1>4, OtherSteps
<1> QED BY <1>1, <1>2, <1>3, <1>4 DEF Next

\* The inductive invariant holds in every reachable state.
LEMMA InvariantHolds == Spec => []IInv
BY InitialInvariant, InductiveStep, PTL DEF Spec

(***************************************************************************)
(* The theorems.                                                           *)
(***************************************************************************)

\* The variables keep their types and every row stays well formed, for every
\* writer of operation_usage.
THEOREM TypeCorrect == Spec => []TypeOK
<1>1. IInv => TypeOK
  BY DEF IInv
<1> QED BY <1>1, InvariantHolds, PTL

\* A service that may admit work keeps its locked lease file, whatever sweeps
\* and openings run beside it.
THEOREM LeaseSafety == Spec => []LiveOwnerKeepsItsLease
<1>1. IInv => LiveOwnerKeepsItsLease
  BY DEF IInv
<1> QED BY <1>1, InvariantHolds, PTL

\* Live work is never reclaimed: its row stays active, in its executor's
\* name, while its executor's lock is held.
THEOREM LiveWorkSafety == Spec => []LiveWorkHoldsItsSlot
<1>1. IInv => LiveWorkHoldsItsSlot
  BY DEF IInv, TypeOK, RunnerInv, LiveOwnerKeepsItsLease, LiveWorkHoldsItsSlot, Running
<1> QED BY <1>1, InvariantHolds, PTL

\* The global and per-principal limits bound the work that executes.
THEOREM CapacitySafety == Spec => []CapacityRespected
<1>1. IInv => CapacityRespected
  <2> SUFFICES ASSUME IInv PROVE CapacityRespected
    OBVIOUS
  <2>1. ActiveOps(rows) \in SUBSET OpIds /\ Running \in SUBSET ActiveOps(rows)
    BY DEF IInv, RunnerInv, Running, ActiveOps
  <2>2. Cardinality(Running) <= GlobalLimit
    <3>1. Cardinality(Running) <= Cardinality(ActiveOps(rows))
      BY <2>1, FewerOps
    <3>2. Cardinality(Running) \in Nat /\ Cardinality(ActiveOps(rows)) \in Nat
      BY <2>1, FiniteOps
    <3> QED BY <3>1, <3>2, LimitsAssumption DEF IInv, SlotInv
  <2>3. ASSUME NEW p \in Principals
        PROVE  Cardinality({op \in Running : rows[op].principal = p}) <= PrincipalLimit
    <3> DEFINE mine == {op \in Running : rows[op].principal = p}
    <3>1. ActiveOf(rows, p) \in SUBSET OpIds /\ mine \in SUBSET ActiveOf(rows, p)
      BY <2>1 DEF ActiveOf
    <3>2. Cardinality(mine) <= Cardinality(ActiveOf(rows, p))
      BY <3>1, FewerOps
    <3>3. Cardinality(mine) \in Nat /\ Cardinality(ActiveOf(rows, p)) \in Nat
      BY <3>1, FiniteOps
    <3> QED BY <3>2, <3>3, LimitsAssumption DEF IInv, SlotInv
  <2> QED BY <2>2, <2>3 DEF CapacityRespected
<1> QED BY <1>1, InvariantHolds, PTL

\* A slot that nobody is working on is the trace of a crash or of a recorded
\* accounting failure.
THEOREM LeakSafety == Spec => []LeakedSlotIsReported
<1>1. IInv => LeakedSlotIsReported
  BY DEF IInv
<1> QED BY <1>1, InvariantHolds, PTL

(***************************************************************************)
(* Refinement: every step begins one operation for the first time, ends    *)
(* some, or leaves the ledger alone.                                       *)
(***************************************************************************)

\* Work that begins to execute has never executed before, and finds room below the global limit.
LEMMA BeginsFresh ==
    ASSUME IInv, NEW t, Maintains(t), NEW op \in OpIds, NEW p, NEW o \in Owners,
           op \notin ran, FreeSlot(t, p),
           runner' = [runner EXCEPT ![op] = o], ran' = ran \cup {op}
    PROVE  Ledger!Begin(op)
<1>1. runner \in [OpIds -> Owners \cup {NoOwner}] /\ o # NoOwner
  BY NamesAssumption DEF IInv, TypeOK
<1>2. Running' = Running \cup {op}
  BY <1>1 DEF Running
<1>3. ActiveOps(t) \in SUBSET OpIds /\ Running \in SUBSET ActiveOps(t)
  BY DEF IInv, RunnerInv, Running, ActiveOps, Maintains
<1>4. Cardinality(Running) <= Cardinality(ActiveOps(t))
  BY <1>3, FewerOps
<1>5. Cardinality(Running) \in Nat /\ Cardinality(ActiveOps(t)) \in Nat
  BY <1>3, FiniteOps
<1>6. Cardinality(Running) < GlobalLimit
  BY <1>4, <1>5, LimitsAssumption DEF FreeSlot
<1>7. op \in OpIds \ ran
  OBVIOUS
<1>8. Ledger!Cardinality(Running) = Cardinality(Running)
  BY DEF Ledger!Cardinality, Cardinality
<1> QED BY <1>2, <1>6, <1>7, <1>8 DEF Ledger!Begin

\* Every step of the store is a step of the execution ledger or leaves it unchanged.
LEMMA LedgerStep == IInv /\ [Next]_vars => [Ledger!LedgerNext]_(Ledger!ledgerVars)
<1> SUFFICES ASSUME IInv, [Next]_vars
             PROVE  Ledger!LedgerNext \/ UNCHANGED <<Running, ran>>
  BY DEF Ledger!ledgerVars
<1>1. ASSUME NEW o \in Owners, NEW p \in Principals, Reserve(o, p)
      PROVE  Ledger!LedgerNext
  <2>1. PICK d \in SampledDays, op \in FreshIds : \E gone \in SUBSET Prunable(d) :
          /\ FreeSlot(Maintained(gone), p)
          /\ runner' = [runner EXCEPT ![op] = o]
          /\ ran' = ran \cup {op}
    BY <1>1 DEF Reserve
  <2>2. PICK gone \in SUBSET Prunable(d) : FreeSlot(Maintained(gone), p)
    BY <2>1
  <2>3. Maintains(Maintained(gone))
    BY MaintainedMaintains
  <2>4. op \in OpIds /\ op \notin ran
    BY DEF FreshIds
  <2>5. Ledger!Begin(op)
    BY <2>1, <2>2, <2>3, <2>4, BeginsFresh
  <2> QED BY <2>4, <2>5 DEF Ledger!LedgerNext
<1>2. ASSUME NEW o \in Owners, NEW op \in OpIds, Activate(o, op)
      PROVE  Ledger!LedgerNext
  <2>1. Maintains(Recovered(rows))
    BY RecoveredMaintains
  <2>2. /\ Recovered(rows)[op].outcome = "accepted" /\ ~Recovered(rows)[op].slot
        /\ FreeSlot(Recovered(rows), Recovered(rows)[op].principal)
        /\ runner' = [runner EXCEPT ![op] = o]
        /\ ran' = ran \cup {op}
    BY <1>2 DEF Activate
  <2>3. op \notin ran
    BY <2>1, <2>2 DEF Maintains, IInv, WaitingInv
  <2>4. Ledger!Begin(op)
    BY <2>1, <2>2, <2>3, BeginsFresh
  <2> QED BY <2>4 DEF Ledger!LedgerNext
<1>3. ASSUME \A q \in OpIds : runner'[q] = runner[q] \/ runner'[q] = NoOwner, ran' = ran
      PROVE  Ledger!LedgerNext
  <2> DEFINE some == {q \in Running : runner'[q] = NoOwner}
  <2>1. some \in SUBSET Running /\ Running' = Running \ some
    BY <1>3 DEF Running
  <2>2. Ledger!End(some)
    BY <1>3, <2>1 DEF Ledger!End
  <2> QED BY <2>1, <2>2 DEF Ledger!LedgerNext
<1>4. ASSUME NEW op \in OpIds, WorkerNext(op)
      PROVE  (\A q \in OpIds : runner'[q] = runner[q] \/ runner'[q] = NoOwner) /\ ran' = ran
  BY <1>4 DEF WorkerNext, Finish, FinishFails, IInv, TypeOK
<1>5. ASSUME NEW o \in Owners, Crash(o)
      PROVE  (\A q \in OpIds : runner'[q] = runner[q] \/ runner'[q] = NoOwner) /\ ran' = ran
  BY <1>5 DEF Crash
<1>6. ASSUME UNCHANGED workVars
      PROVE  UNCHANGED <<Running, ran>>
  BY <1>6 DEF workVars, Running
<1>7. ASSUME NEW o \in Owners, OwnerNext(o)
      PROVE  Ledger!LedgerNext \/ UNCHANGED <<Running, ran>>
  <2>1. CASE \E p \in Principals : Reserve(o, p)
    BY <1>1, <2>1
  <2>2. CASE \E op \in OpIds : Activate(o, op)
    BY <1>2, <2>2
  <2>3. CASE Crash(o)
    BY <1>3, <1>5, <2>3
  <2>4. \/ UNCHANGED workVars \/ Crash(o)
        \/ \E p \in Principals : Reserve(o, p)
        \/ \E op \in OpIds : Activate(o, op)
    BY <1>7 DEF OwnerNext, CreateLease, LockLease, PublishLease, OpenService, OpenFails,
       ReserveRejected, AcceptWork, AcceptWorkUncharged, ActivateRejected, FinishAccepted,
       FinishAcceptedFails, InspectLease, RemoveLease, EndSweep, Close, CloseRetains, Collect
  <2> QED BY <1>6, <2>1, <2>2, <2>3, <2>4
<1>8. CASE EnvNext
  BY <1>6, <1>8 DEF EnvNext, RevokeAuthority, RestoreAuthority, NextDay
<1>9. CASE UNCHANGED vars
  BY <1>6, <1>9 DEF vars
<1> QED BY <1>3, <1>4, <1>7, <1>8, <1>9 DEF Next

\* The store implements ExecutionLedger: no operation executes twice and at
\* most GlobalLimit execute at once, across processes, retries and crashes.
THEOREM Refinement == Spec => ImplementsLedger
<1>1. Init => Ledger!LedgerInit
  BY DEF Init, Ledger!LedgerInit, Running
<1>2. IInv /\ [Next]_vars => [Ledger!LedgerNext]_(Ledger!ledgerVars)
  BY LedgerStep
<1> QED BY <1>1, <1>2, InvariantHolds, PTL DEF Spec, ImplementsLedger, Ledger!LedgerSpec

(***************************************************************************)
(* Accounting history is final.                                            *)
(***************************************************************************)

\* A row goes on as the same charge, and is settled at most once.
Continues(old, new) ==
    /\ new.outcome \in {old.outcome} \cup (IF old.outcome = "accepted" THEN Terminal ELSE {})
    /\ \A field \in {"principal", "key", "request", "units", "usageDay"} : new[field] = old[field]
    /\ old.outcome \in Terminal => new = old

\* Retention deletes an ended row that no reservation key names and that was
\* charged to an earlier day.
Retired(old, new) ==
    /\ new.outcome = "absent"
    /\ old.outcome \in Terminal
    /\ old.key = NoKey
    /\ old.usageDay < day

\* What a table t keeps of the present one.
KeepsHistory(t) == \A op \in Present(rows) : Retired(rows[op], t[op]) \/ Continues(rows[op], t[op])

\* An untouched row continues ...
LEMMA SameContinues ==
    ASSUME NEW r
    PROVE  Continues(r, r)
BY DEF Continues

\* ... so does one that is settled ...
LEMMA FinishedContinues ==
    ASSUME NEW r \in Row, r.outcome = "accepted", NEW outcome \in Terminal
    PROVE  Continues(r, Finished(r, outcome))
BY DEF Continues, Finished, Row, Terminal

\* ... and one that is given a slot.
LEMMA ActivatedContinues ==
    ASSUME NEW r \in Row, r.outcome = "accepted", NEW o
    PROVE  Continues(r, [r EXCEPT !.slot = TRUE, !.owner = o])
BY DEF Continues, Row, Terminal

\* Recovery settles rows, and leaves alone those that stay accepted.
LEMMA RecoveredHistory ==
    ASSUME IInv
    PROVE  /\ KeepsHistory(Recovered(rows))
           /\ \A op \in OpIds : Recovered(rows)[op].outcome = "accepted" => Recovered(rows)[op] = rows[op]
           /\ \A op \in OpIds : Recovered(rows)[op] # rows[op] => Recovered(rows)[op].finished = day
<1>1. rows \in [OpIds -> Row] /\ day \in Days /\ "interrupted" \in Terminal
  BY DEF IInv, TypeOK, Terminal
<1>2. ASSUME NEW op \in OpIds
      PROVE  \/ Recovered(rows)[op] = rows[op]
             \/ rows[op].outcome = "accepted" /\ Recovered(rows)[op] = Finished(rows[op], "interrupted")
  BY DEF Recovered, Finished, IsActive
<1>3. ASSUME NEW op \in OpIds
      PROVE  Continues(rows[op], Recovered(rows)[op])
  <2>1. CASE Recovered(rows)[op] = rows[op]
    BY <2>1, SameContinues
  <2>2. CASE rows[op].outcome = "accepted" /\ Recovered(rows)[op] = Finished(rows[op], "interrupted")
    BY <1>1, <2>2, FinishedContinues
  <2>3. QED
    BY <1>2, <2>1, <2>2
<1>4. ASSUME NEW op \in OpIds, Recovered(rows)[op] # rows[op]
      PROVE  Recovered(rows)[op].outcome \in Terminal /\ Recovered(rows)[op].finished = day
  <2>1. Recovered(rows)[op] = Finished(rows[op], "interrupted") /\ rows[op] \in Row
    BY <1>1, <1>2, <1>4
  <2>2. /\ Finished(rows[op], "interrupted").outcome = "interrupted"
        /\ Finished(rows[op], "interrupted").finished = day
    BY <1>1, <2>1, RowFields
  <2>3. QED
    BY <1>1, <2>1, <2>2
<1>5. QED
  BY <1>3, <1>4 DEF KeepsHistory, Present, Terminal

\* Retention deletes rows that had ended before the transaction: one that this
\* very transaction recovers has ended today, and RetentionDays is at least one.
LEMMA MaintainedHistory ==
    ASSUME IInv, NEW d \in SampledDays, NEW gone \in SUBSET Prunable(d)
    PROVE  KeepsHistory(Maintained(gone))
<1> SUFFICES ASSUME NEW op \in Present(rows)
             PROVE  Retired(rows[op], Maintained(gone)[op]) \/ Continues(rows[op], Maintained(gone)[op])
  BY DEF KeepsHistory
<1>1. op \in OpIds /\ rows[op] \in Row
  BY DEF Present, IInv, TypeOK
<1>2. CASE op \notin gone
  <2>1. Maintained(gone)[op] = Recovered(rows)[op]
    BY <1>1, <1>2 DEF Maintained
  <2>2. QED
    BY <2>1, RecoveredHistory DEF KeepsHistory
<1>3. CASE op \in gone
  <2>1. Maintained(gone)[op] = NoRow
    BY <1>1, <1>3 DEF Maintained
  <2>2. PICK row : row = Recovered(rows)[op]
    OBVIOUS
  <2>3. Expired(row, d)
    BY <1>3, <2>2 DEF Prunable
  <2>4. d \in Int /\ day \in Int /\ d <= day
    BY SampledDaysType, LimitsAssumption DEF SampledDays, IInv, TypeOK, Days
  <2>5. row.finished # day
    BY <2>3, <2>4, LimitsAssumption DEF Expired
  <2>6. row = rows[op]
    BY <1>1, <2>2, <2>5, RecoveredHistory
  <2>7. rows[op].usageDay \in Int
    BY <1>1, LimitsAssumption DEF Row, Days
  <2>8. Retired(rows[op], NoRow)
    BY <2>3, <2>4, <2>6, <2>7, NoRowFields DEF Retired, Expired
  <2>9. QED
    BY <2>1, <2>8
<1>4. QED
  BY <1>2, <1>3

\* Inserting a row at a fresh identifier touches no history.
LEMMA InsertedHistory ==
    ASSUME NEW t, KeepsHistory(t), NEW op \in FreshIds, NEW row, rows' = [t EXCEPT ![op] = row],
           t \in [OpIds -> Row]
    PROVE  KeepsHistory(rows')
<1>1. \A q \in Present(rows) : q \in OpIds /\ q # op
  BY DEF FreshIds, Present
<1>2. \A q \in Present(rows) : rows'[q] = t[q]
  BY <1>1
<1>3. QED
  BY <1>2 DEF KeepsHistory

\* Giving a row that is still accepted its slot or its outcome continues it.
LEMMA UpdatedHistory ==
    ASSUME IInv, NEW op \in OpIds, NEW row, Continues(rows[op], row),
           rows' = [Recovered(rows) EXCEPT ![op] = row] \/ rows' = [rows EXCEPT ![op] = row]
    PROVE  KeepsHistory(rows')
<1> SUFFICES ASSUME NEW q \in Present(rows) PROVE Retired(rows[q], rows'[q]) \/ Continues(rows[q], rows'[q])
  BY DEF KeepsHistory
<1>1. q \in OpIds /\ rows \in [OpIds -> Row] /\ Recovered(rows) \in [OpIds -> Row]
  BY RecoveredMaintains DEF Present, IInv, TypeOK, Maintains
<1>2. CASE q = op
  BY <1>1, <1>2
<1>3. CASE q # op
  <2>1. rows'[q] = rows[q] \/ rows'[q] = Recovered(rows)[q]
    BY <1>1, <1>3
  <2>2. QED
    BY <2>1, SameContinues, RecoveredHistory DEF KeepsHistory
<1>4. QED
  BY <1>2, <1>3

\* Every step of the store keeps the history.
LEMMA HistoryStep ==
    ASSUME IInv, Next
    PROVE  KeepsHistory(rows')
<1>1. CASE rows' = rows
  BY <1>1, SameContinues DEF KeepsHistory
<1>2. CASE rows' = Recovered(rows)
  BY <1>2, RecoveredHistory
<1>3. CASE \E d \in SampledDays : \E gone \in SUBSET Prunable(d) : rows' = Maintained(gone)
  BY <1>3, MaintainedHistory
<1>4. CASE \E d \in SampledDays, op \in FreshIds : \E gone \in SUBSET Prunable(d) :
               \E row : rows' = [Maintained(gone) EXCEPT ![op] = row]
  <2>1. PICK d \in SampledDays, op \in FreshIds : \E gone \in SUBSET Prunable(d) :
               \E row : rows' = [Maintained(gone) EXCEPT ![op] = row]
    BY <1>4
  <2>2. PICK gone \in SUBSET Prunable(d) : \E row : rows' = [Maintained(gone) EXCEPT ![op] = row]
    BY <2>1
  <2>3. PICK t : t = Maintained(gone)
    OBVIOUS
  <2>4. KeepsHistory(t) /\ t \in [OpIds -> Row]
    BY <2>3, MaintainedHistory, MaintainedMaintains DEF Maintains
  <2>5. QED
    BY <2>2, <2>3, <2>4, InsertedHistory
<1>5. ASSUME NEW o \in Owners, NEW op \in OpIds, Activate(o, op)
      PROVE  KeepsHistory(rows')
  <2>1. Recovered(rows)[op] = rows[op] /\ rows[op].outcome = "accepted" /\ rows[op] \in Row
    BY <1>5, RecoveredHistory DEF Activate, IInv, TypeOK
  <2>2. rows' = [Recovered(rows) EXCEPT ![op] = [rows[op] EXCEPT !.slot = TRUE, !.owner = o]]
    BY <1>5, <2>1 DEF Activate, Recovered
  <2>3. QED
    BY <2>1, <2>2, ActivatedContinues, UpdatedHistory
<1>6. ASSUME NEW o \in Owners, NEW op \in OpIds, NEW outcome \in Outcomes, FinishAccepted(o, op, outcome)
      PROVE  KeepsHistory(rows')
  <2>1. CASE Recovered(rows)[op].outcome = "accepted"
    <3>1. Recovered(rows)[op] = rows[op] /\ rows[op].outcome = "accepted" /\ rows[op] \in Row
      BY <2>1, RecoveredHistory DEF IInv, TypeOK
    <3>2. \/ rows' = [Recovered(rows) EXCEPT ![op] = Finished(rows[op], outcome)]
          \/ rows' = Recovered(rows)
      BY <1>6, <3>1 DEF FinishAccepted, Recovered
    <3>3. QED
      BY <1>2, <3>1, <3>2, FinishedContinues, UpdatedHistory, LimitsAssumption
  <2>2. CASE Recovered(rows)[op].outcome # "accepted"
    BY <1>2, <1>6, <2>2 DEF FinishAccepted
  <2>3. QED
    BY <2>1, <2>2
<1>7. ASSUME NEW op \in OpIds, NEW outcome \in Outcomes, Finish(op, outcome)
      PROVE  KeepsHistory(rows')
  <2>1. CASE rows[op].outcome = "accepted" /\ rows[op].owner = runner[op]
    <3>1. rows' = [rows EXCEPT ![op] = Finished(rows[op], outcome)] /\ rows[op] \in Row
      BY <1>7, <2>1 DEF Finish, IInv, TypeOK
    <3>2. QED
      BY <2>1, <3>1, FinishedContinues, UpdatedHistory, LimitsAssumption
  <2>2. CASE ~(rows[op].outcome = "accepted" /\ rows[op].owner = runner[op])
    BY <1>1, <1>7, <2>2 DEF Finish
  <2>3. QED
    BY <2>1, <2>2
<1>8. ASSUME NEW o \in Owners, OwnerNext(o)
      PROVE  KeepsHistory(rows')
  <2>1. CASE \E p \in Principals :
            \/ Reserve(o, p) \/ ReserveRejected(o, p)
            \/ \E k \in Keys, r \in Requests : AcceptWork(o, p, k, r) \/ AcceptWorkUncharged(o, p, k, r)
    <3>1. ASSUME NEW p \in Principals, Reserve(o, p) PROVE KeepsHistory(rows')
      BY <1>4, <3>1 DEF Reserve
    <3>2. ASSUME NEW p \in Principals, ReserveRejected(o, p) PROVE KeepsHistory(rows')
      BY <1>3, <3>2 DEF ReserveRejected
    <3>3. ASSUME NEW p \in Principals, NEW k \in Keys, NEW r \in Requests, AcceptWork(o, p, k, r)
          PROVE  KeepsHistory(rows')
      BY <1>4, <3>3 DEF AcceptWork
    <3>4. ASSUME NEW p \in Principals, NEW k \in Keys, NEW r \in Requests, AcceptWorkUncharged(o, p, k, r)
          PROVE  KeepsHistory(rows')
      BY <1>3, <3>4 DEF AcceptWorkUncharged
    <3>5. QED
      BY <2>1, <3>1, <3>2, <3>3, <3>4
  <2>2. CASE \/ CreateLease(o) \/ LockLease(o) \/ PublishLease(o) \/ OpenFails(o)
             \/ FinishAcceptedFails(o) \/ EndSweep(o) \/ Close(o) \/ CloseRetains(o) \/ Collect(o)
             \/ Crash(o) \/ \E x \in Owners : InspectLease(o, x) \/ RemoveLease(o, x)
    BY <1>1, <2>2 DEF CreateLease, LockLease, PublishLease, OpenFails, FinishAcceptedFails, EndSweep,
                      Close, CloseRetains, Collect, Crash, InspectLease, RemoveLease, tableVars
  <2>3. CASE OpenService(o) \/ \E op \in OpIds : ActivateRejected(o, op)
    BY <1>2, <2>3 DEF OpenService, ActivateRejected
  <2>4. QED
    BY <1>5, <1>6, <1>8, <2>1, <2>2, <2>3 DEF OwnerNext
<1>9. ASSUME NEW op \in OpIds, FinishFails(op)
      PROVE  KeepsHistory(rows')
  BY <1>1, <1>9 DEF FinishFails, tableVars
<1>10. CASE EnvNext
  BY <1>1, <1>10 DEF EnvNext, RevokeAuthority, RestoreAuthority, NextDay, tableVars
<1>11. QED
  BY <1>7, <1>8, <1>9, <1>10 DEF Next, WorkerNext

\* Accounting history is final: what an operation was charged for and how it
\* ended is never rewritten by retries, recovery or late workers, and retention
\* deletes only what ended, has no key and was charged to an earlier day.
THEOREM HistorySafety == Spec => HistoryIsFinal
<1>1. IInv /\ [Next]_vars => [KeepsHistory(rows')]_vars
  BY HistoryStep
<1>2. KeepsHistory(rows') =>
        \A op \in Present(rows) :
            \/ /\ rows'[op].outcome = "absent"
               /\ rows[op].outcome \in Terminal
               /\ rows[op].key = NoKey
               /\ rows[op].usageDay < day
            \/ /\ rows'[op].outcome \in {rows[op].outcome} \cup
                      (IF rows[op].outcome = "accepted" THEN Terminal ELSE {})
               /\ \A field \in {"principal", "key", "request", "units", "usageDay"} :
                    rows'[op][field] = rows[op][field]
               /\ rows[op].outcome \in Terminal => rows'[op] = rows[op]
  BY DEF KeepsHistory, Retired, Continues
<1>3. QED
  BY <1>1, <1>2, InvariantHolds, PTL DEF Spec, HistoryIsFinal

=============================================================================
