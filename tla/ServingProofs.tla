---------------------------- MODULE ServingProofs ----------------------------
(***************************************************************************)
(* Proofs about the parts of a serving process: ToolExecutor, for every    *)
(* finite set of calls and principals and every limit; ProviderRequest, for*)
(* every budget, number of requests and header of a provider; JobReports,  *)
(* for every number of fragments, of readers and of damages.               *)
(*                                                                         *)
(* ToolExecutor: slots are those of the calls that are inside, an admitted *)
(* call never waits for a thread, and what the calls share is closed when  *)
(* nobody is left to use it.  ProviderRequest: what has left is on the     *)
(* record, within the budget, and nothing leaves before it is welcome.     *)
(* JobReports: a reader is given fragments of the report that was sealed.  *)
(***************************************************************************)
EXTENDS MCServing, FiniteSetTheorems, SequenceTheorems, TLAPS

(***************************************************************************)
(* Tool calls.                                                             *)
(***************************************************************************)

\* The stages between admission and the answer, and the calls in them.
Admitted == OnThread \cup {"admitted", "returned"}
Inside == {c \in Calls : stage[c] \in Admitted}
InsideOf(p) == {c \in Inside : PrincipalOf[c] = p}

(***************************************************************************)
(* The inductive invariant.                                                *)
(***************************************************************************)

\* Who is inside has a budget, a permit and a slot of its principal.
SlotsInv ==
    /\ budgets = Inside
    /\ permits + Cardinality(Inside) = Capacity
    /\ \A p \in Principals : principals[p] = Cardinality(InsideOf(p))
    /\ drained <=> Inside = {}

\* Only charged work reserves and settles, and only a call on a thread, or one
\* whose terminal write failed, has a row.
ActiveInv ==
    /\ \A c \in Calls : stage[c] = "charging" => Charged(c)
    /\ \A c \in active : Charged(c) /\ (stage[c] \in {"running", "settling"} \/ c \in leaked)

\* Nobody enters once the executor is closed, and the lifespan goes on only
\* when nobody is left.
ShutdownInv ==
    /\ closed <=> shutdown # "serving"
    /\ shutdown \notin {"serving", "draining"} => Inside = {}
    /\ shutdown \in {"usage_closed", "stopped"} => usage # "open"
    /\ shutdown \notin {"usage_closed", "stopped"} => usage \in {"none", "open"}
    /\ usage = "released" => active = {}
    /\ shutdown = "stopped" => jobs # "started"

ExecutorInv == TypeOK /\ SlotsInv /\ ActiveInv /\ ShutdownInv

(***************************************************************************)
(* Counting.                                                               *)
(***************************************************************************)

\* Whatever part of the calls is inside can be counted.
LEMMA Countable ==
    ASSUME NEW S \in SUBSET Calls
    PROVE IsFiniteSet(S) /\ Cardinality(S) \in Nat
BY ExecutorAssumption, FS_Subset, FS_CardinalityType

\* A call that moves from stage to stage inside changes no count.
LEMMA Stays ==
    ASSUME NEW c \in Calls, NEW next \in Admitted, TypeOK, stage[c] \in Admitted, Go(c, next)
    PROVE Inside' = Inside /\ \A p \in Principals : InsideOf(p)' = InsideOf(p)
<1>1. \A d \in Calls : stage'[d] \in Admitted <=> stage[d] \in Admitted
  BY DEF TypeOK, Go
<1>2. Inside' = Inside
  BY <1>1 DEF Inside
<1> QED
  BY <1>2 DEF InsideOf

\* A call that enters adds one to the server's and to its principal's count.
LEMMA Arrives ==
    ASSUME NEW c \in Calls, NEW next \in Admitted, TypeOK, stage[c] \notin Admitted, Go(c, next)
    PROVE /\ Inside' = Inside \cup {c} /\ Cardinality(Inside') = Cardinality(Inside) + 1
          /\ \A p \in Principals :
               Cardinality(InsideOf(p)') = Cardinality(InsideOf(p)) + (IF p = PrincipalOf[c] THEN 1 ELSE 0)
<1>1. \A d \in Calls : stage'[d] \in Admitted <=> (stage[d] \in Admitted \/ d = c)
  BY DEF TypeOK, Go
<1>2. Inside' = Inside \cup {c} /\ c \notin Inside
  BY <1>1 DEF Inside
<1>3. Cardinality(Inside') = Cardinality(Inside) + 1
  <2>1. IsFiniteSet(Inside)
    BY Countable DEF Inside
  <2> QED
    BY <1>2, <2>1, FS_AddElement
<1>4. ASSUME NEW p \in Principals
      PROVE Cardinality(InsideOf(p)') = Cardinality(InsideOf(p)) + (IF p = PrincipalOf[c] THEN 1 ELSE 0)
  <2>1. IsFiniteSet(InsideOf(p)) /\ Cardinality(InsideOf(p)) \in Nat /\ c \notin InsideOf(p)
    <3>1. InsideOf(p) \in SUBSET Calls /\ c \notin InsideOf(p)
      BY <1>2 DEF InsideOf, Inside
    <3> QED
      BY <3>1, Countable
  <2>2. InsideOf(p)' = IF p = PrincipalOf[c] THEN InsideOf(p) \cup {c} ELSE InsideOf(p)
    BY <1>2 DEF InsideOf
  <2>3. CASE p = PrincipalOf[c]
    <3>1. Cardinality(InsideOf(p) \cup {c}) = Cardinality(InsideOf(p)) + 1
      BY <2>1, FS_AddElement
    <3> QED
      BY <2>2, <2>3, <3>1
  <2> QED
    BY <2>1, <2>2, <2>3
<1> QED
  BY <1>2, <1>3, <1>4

\* A call that leaves takes one from both counts.
LEMMA Departs ==
    ASSUME NEW c \in Calls, NEW next \in Stages \ Admitted, TypeOK, stage[c] \in Admitted, Go(c, next)
    PROVE /\ Inside' = Inside \ {c} /\ Cardinality(Inside') = Cardinality(Inside) - 1
          /\ \A p \in Principals :
               Cardinality(InsideOf(p)') = Cardinality(InsideOf(p)) - (IF p = PrincipalOf[c] THEN 1 ELSE 0)
<1>1. \A d \in Calls : stage'[d] \in Admitted <=> (stage[d] \in Admitted /\ d # c)
  BY DEF TypeOK, Go
<1>2. Inside' = Inside \ {c} /\ c \in Inside
  BY <1>1 DEF Inside
<1>3. Cardinality(Inside') = Cardinality(Inside) - 1
  <2>1. IsFiniteSet(Inside)
    BY Countable DEF Inside
  <2> QED
    BY <1>2, <2>1, FS_RemoveElement
<1>4. ASSUME NEW p \in Principals
      PROVE Cardinality(InsideOf(p)') = Cardinality(InsideOf(p)) - (IF p = PrincipalOf[c] THEN 1 ELSE 0)
  <2>1. /\ IsFiniteSet(InsideOf(p)) /\ Cardinality(InsideOf(p)) \in Nat
        /\ c \in InsideOf(p) <=> p = PrincipalOf[c]
    <3>1. InsideOf(p) \in SUBSET Calls /\ (c \in InsideOf(p) <=> p = PrincipalOf[c])
      BY <1>2 DEF InsideOf, Inside
    <3> QED
      BY <3>1, Countable
  <2>2. InsideOf(p)' = IF p = PrincipalOf[c] THEN InsideOf(p) \ {c} ELSE InsideOf(p)
    BY <1>2 DEF InsideOf
  <2>3. CASE p = PrincipalOf[c]
    <3>1. Cardinality(InsideOf(p) \ {c}) = Cardinality(InsideOf(p)) - 1
      BY <2>1, <2>3, FS_RemoveElement
    <3> QED
      BY <2>2, <2>3, <3>1
  <2> QED
    BY <2>1, <2>2, <2>3
<1> QED
  BY <1>2, <1>3, <1>4

\* The counts are numbers, and positive where somebody is inside.
LEMMA Bounds ==
    /\ Cardinality(Inside) \in Nat /\ Inside \in SUBSET Calls
    /\ \A p \in Principals : Cardinality(InsideOf(p)) \in Nat
    /\ \A p \in Principals : InsideOf(p) # {} => Cardinality(InsideOf(p)) > 0
<1>1. Inside \in SUBSET Calls /\ \A p : InsideOf(p) \in SUBSET Calls
  BY DEF Inside, InsideOf
<1>2. Cardinality(Inside) \in Nat /\ \A p \in Principals : Cardinality(InsideOf(p)) \in Nat
  BY <1>1, Countable
<1>3. ASSUME NEW p \in Principals, InsideOf(p) # {} PROVE Cardinality(InsideOf(p)) > 0
  BY <1>1, <1>2, <1>3, Countable, FS_EmptySet
<1> QED
  BY <1>1, <1>2, <1>3

(***************************************************************************)
(* The invariant holds initially, and every action preserves it.           *)
(***************************************************************************)

LEMMA ExecutorStart == Init => ExecutorInv
<1> SUFFICES ASSUME Init PROVE ExecutorInv
  OBVIOUS
<1>1. Inside = {} /\ \A p : InsideOf(p) = {}
  BY DEF Init, Inside, InsideOf, Admitted, OnThread
<1>2. TypeOK
  <2>1. stage \in [Calls -> Stages] /\ uses \in [Calls -> 0 .. MaxUses] /\ cancelled \in [Calls -> BOOLEAN]
    BY ExecutorAssumption DEF Init, Stages
  <2>2. permits \in 0 .. Capacity /\ principals \in [Principals -> 0 .. PrincipalLimit]
    BY ExecutorAssumption DEF Init
  <2> QED
    BY <2>1, <2>2 DEF Init, TypeOK
<1>3. SlotsInv
  BY <1>1, FS_EmptySet, ExecutorAssumption DEF Init, SlotsInv
<1>4. ActiveInv /\ ShutdownInv
  BY <1>1 DEF Init, ActiveInv, ShutdownInv
<1> QED
  BY <1>2, <1>3, <1>4 DEF ExecutorInv

\* A refused call changes no count; an admitted one was below both limits.
LEMMA EnterKeeps == ASSUME ExecutorInv, NEW c \in Calls, Enter(c) PROVE ExecutorInv'
<1> USE ExecutorAssumption DEF ExecutorInv, shared, admission
<1>0. stage[c] = "idle" /\ stage[c] \notin Admitted /\ TypeOK
  BY DEF Enter, Admitted, OnThread
<1>1. CASE Go(c, "refused") /\ UNCHANGED admission
  <2>1. \A d \in Calls : stage'[d] \in Admitted <=> stage[d] \in Admitted
    BY <1>0, <1>1 DEF TypeOK, Go, Admitted, OnThread
  <2>2. Inside' = Inside /\ \A p \in Principals : InsideOf(p)' = InsideOf(p)
    <3>1. Inside' = Inside
      BY <2>1 DEF Inside
    <3> QED
      BY <3>1 DEF InsideOf
  <2>3. TypeOK'
    BY <1>1 DEF Enter, TypeOK, Go, Stages
  <2>4. SlotsInv'
    BY <2>2, <1>1 DEF SlotsInv
  <2>5. ActiveInv'
    BY <1>0, <1>1 DEF Enter, ActiveInv, Charged, Go, TypeOK
  <2>6. ShutdownInv'
    BY <2>2, <1>1 DEF ShutdownInv, Enter
  <2> QED
    BY <2>3, <2>4, <2>5, <2>6
<1>2. CASE ~Refused(c) /\ Go(c, "admitted") /\ permits' = permits - 1 /\ Count(c, "in")
           /\ budgets' = budgets \cup {c} /\ drained' = FALSE /\ UNCHANGED <<closed, shutdown>>
  <2>1. "admitted" \in Admitted
    BY DEF Admitted
  <2>2. /\ Inside' = Inside \cup {c} /\ Cardinality(Inside') = Cardinality(Inside) + 1
        /\ \A p \in Principals :
             Cardinality(InsideOf(p)') = Cardinality(InsideOf(p)) + (IF p = PrincipalOf[c] THEN 1 ELSE 0)
    BY <1>0, <1>2, <2>1, Arrives
  <2>3. /\ Cardinality(Inside) \in Nat
        /\ \A p \in Principals : Cardinality(InsideOf(p)) \in Nat
    BY Bounds
  <2>4. permits' \in 0 .. Capacity /\ permits' + Cardinality(Inside') = Capacity
    BY <1>2, <2>2, <2>3 DEF SlotsInv, Refused, TypeOK
  <2>5. \A p \in Principals : principals'[p] = Cardinality(InsideOf(p)')
    BY <1>2, <2>2, <2>3 DEF SlotsInv, Count
  <2>6. principals' \in [Principals -> 0 .. PrincipalLimit]
    <3>1. ASSUME NEW p \in Principals
          PROVE principals'[p] \in 0 .. PrincipalLimit
      BY <1>2 DEF Count, TypeOK, Refused, Occupied
    <3> QED
      BY <1>2, <3>1 DEF Count
  <2>7. TypeOK'
    BY <1>2, <2>4, <2>6 DEF Enter, TypeOK, Go, Stages
  <2>8. SlotsInv'
    BY <1>2, <2>2, <2>4, <2>5 DEF SlotsInv
  <2>9. ActiveInv'
    BY <1>0, <1>2 DEF Enter, ActiveInv, Charged, Go, TypeOK
  <2>10. ShutdownInv'
    BY <1>2 DEF ShutdownInv, Enter, Refused
  <2> QED
    BY <2>7, <2>8, <2>9, <2>10
<1> QED
  BY <1>1, <1>2 DEF Enter

\* Who leaves gives back the permit and the slot of its principal.
LEMMA LeaveKeeps == ASSUME ExecutorInv, NEW c \in Calls, Leave(c) PROVE ExecutorInv'
<1> USE ExecutorAssumption DEF ExecutorInv, shared, admission
<1>1. stage[c] \in Admitted /\ "answered" \in Stages \ Admitted /\ Go(c, "answered") /\ TypeOK
  BY DEF Leave, Admitted, OnThread, Stages
<1>2. /\ Inside' = Inside \ {c} /\ Cardinality(Inside') = Cardinality(Inside) - 1
      /\ \A p \in Principals :
           Cardinality(InsideOf(p)') = Cardinality(InsideOf(p)) - (IF p = PrincipalOf[c] THEN 1 ELSE 0)
  BY <1>1, Departs
<1>3. /\ Cardinality(Inside) \in Nat /\ c \in Inside /\ Cardinality(Inside') \in Nat
      /\ \A p \in Principals : Cardinality(InsideOf(p)) \in Nat
      /\ \A p \in Principals : p = PrincipalOf[c] => Cardinality(InsideOf(p)) > 0
  <2>1. c \in Inside /\ Inside' \in SUBSET Calls
    BY <1>1, <1>2 DEF Inside
  <2>2. \A p \in Principals : p = PrincipalOf[c] => InsideOf(p) # {}
    BY <2>1 DEF InsideOf
  <2>3. Cardinality(Inside') \in Nat
    BY <2>1, Countable
  <2> QED
    BY <2>1, <2>2, <2>3, Bounds
<1>4. permits' \in 0 .. Capacity /\ permits' + Cardinality(Inside') = Capacity
  BY <1>2, <1>3 DEF SlotsInv, TypeOK, Leave
<1>5. \A p \in Principals : principals'[p] = Cardinality(InsideOf(p)')
  BY <1>2, <1>3 DEF SlotsInv, Count, Leave
<1>6. principals' \in [Principals -> 0 .. PrincipalLimit]
  <2>1. ASSUME NEW p \in Principals
        PROVE principals'[p] \in 0 .. PrincipalLimit
    BY <1>3 DEF Count, TypeOK, Leave, SlotsInv
  <2> QED
    BY <2>1 DEF Count, Leave
<1>7. TypeOK'
  BY <1>4, <1>6 DEF Leave, TypeOK, Go, Stages
<1>8. SlotsInv'
  <2>1. budgets' = Inside' /\ (drained' <=> Inside' = {})
    BY <1>2, <1>3 DEF SlotsInv, Leave, TypeOK
  <2> QED
    BY <1>4, <1>5, <2>1 DEF SlotsInv
<1>9. ActiveInv'
  BY DEF Leave, ActiveInv, Charged, Go, TypeOK
<1>10. ShutdownInv'
  BY <1>2 DEF ShutdownInv, Leave
<1> QED
  BY <1>7, <1>8, <1>9, <1>10

\* A step on the thread of a call stays inside, so the lifespan still waits.
LEMMA ThreadKeeps == ASSUME ExecutorInv, NEW c \in Calls, Thread(c) PROVE ExecutorInv'
<1> USE ExecutorAssumption DEF ExecutorInv, shared, admission
<1>0. TypeOK /\ "returned" \in Admitted /\ "charging" \in Admitted /\ "running" \in Admitted
      /\ "settling" \in Admitted /\ UNCHANGED admission /\ stage[c] \in Admitted
  BY DEF Thread, Begin, Charge, UseClient, StartJobs, EndWork, Settle, Admitted, OnThread
<1>1. Inside' = Inside /\ \A p \in Principals : InsideOf(p)' = InsideOf(p)
  <2>1. CASE UseClient(c) \/ StartJobs(c)
    <3>1. UNCHANGED stage
      BY <2>1 DEF UseClient, StartJobs
    <3> QED
      BY <3>1 DEF Inside, InsideOf
  <2>2. CASE Begin(c) \/ Charge(c) \/ EndWork(c) \/ Settle(c)
    <3>1. PICK next \in Admitted : Go(c, next)
      BY <1>0, <2>2 DEF Begin, Charge, EndWork, Settle
    <3> QED
      BY <1>0, <3>1, Stays
  <2> QED
    BY <2>1, <2>2 DEF Thread
<1>2. c \in Inside
  BY <1>0 DEF Inside
<1>3. TypeOK'
  <2>1. CASE Begin(c) \/ Charge(c)
    BY <2>1 DEF Begin, Charge, TypeOK, Go, Stages, OnThread
  <2>2. CASE UseClient(c) \/ StartJobs(c)
    BY <2>2 DEF UseClient, StartJobs, TypeOK
  <2>3. CASE EndWork(c) \/ Settle(c)
    BY <2>3 DEF EndWork, Settle, TypeOK, Go, Stages, OnThread
  <2> QED
    BY <2>1, <2>2, <2>3 DEF Thread
<1>4. SlotsInv'
  BY <1>0, <1>1 DEF SlotsInv
<1>5. ActiveInv'
  <2>1. CASE Begin(c) \/ Charge(c)
    BY <2>1 DEF Begin, Charge, ActiveInv, Charged, Go, TypeOK
  <2>2. CASE UseClient(c) \/ StartJobs(c)
    BY <2>2 DEF UseClient, StartJobs, ActiveInv
  <2>3. CASE EndWork(c) \/ Settle(c)
    BY <2>3 DEF EndWork, Settle, ActiveInv, Charged, Go, TypeOK
  <2> QED
    BY <2>1, <2>2, <2>3 DEF Thread
<1>6. ShutdownInv'
  <2>1. shutdown \in {"serving", "draining"} /\ UNCHANGED <<closed, shutdown>>
    BY <1>0, <1>2 DEF ShutdownInv, TypeOK
  <2>2. usage' \in {"none", "open"}
    BY <2>1 DEF ShutdownInv, Thread, Begin, Charge, UseClient, StartJobs, EndWork, Settle
  <2> QED
    BY <2>1, <2>2 DEF ShutdownInv
<1> QED
  BY <1>3, <1>4, <1>5, <1>6

\* Shutdown and a client that is gone move no call.
LEMMA OthersKeep ==
    ASSUME ExecutorInv, Shutdown \/ (\E c \in Calls : Disconnect(c)) \/ UNCHANGED vars
    PROVE ExecutorInv'
<1> USE ExecutorAssumption DEF ExecutorInv, shared, admission
<1>1. UNCHANGED <<stage, permits, principals, budgets, drained, active, leaked>>
  BY DEF Shutdown, Close, CloseClients, CloseUsage, CloseJobs, Disconnect, vars
<1>2. Inside' = Inside /\ \A p \in Principals : InsideOf(p)' = InsideOf(p)
  BY <1>1 DEF Inside, InsideOf
<1>3. TypeOK'
  <2>1. CASE Shutdown
    BY <1>1, <2>1 DEF Shutdown, Close, CloseClients, CloseUsage, CloseJobs, TypeOK
  <2>2. CASE \E c \in Calls : Disconnect(c)
    BY <2>2 DEF Disconnect, TypeOK
  <2>3. CASE UNCHANGED vars
    BY <2>3 DEF vars, TypeOK
  <2> QED
    BY <2>1, <2>2, <2>3
<1>4. SlotsInv' /\ ActiveInv'
  BY <1>1, <1>2 DEF SlotsInv, ActiveInv
<1>5. ShutdownInv'
  <2>1. CASE Shutdown
    BY <1>1, <1>2, <2>1 DEF Shutdown, Close, CloseClients, CloseUsage, CloseJobs, ShutdownInv, TypeOK, SlotsInv
  <2>2. CASE (\E c \in Calls : Disconnect(c)) \/ UNCHANGED vars
    BY <1>1, <1>2, <2>2 DEF Disconnect, vars, ShutdownInv
  <2> QED
    BY <2>1, <2>2
<1> QED
  BY <1>3, <1>4, <1>5

LEMMA ExecutorStep == ExecutorInv /\ [Next]_vars => ExecutorInv'
<1> SUFFICES ASSUME ExecutorInv, [Next]_vars PROVE ExecutorInv'
  OBVIOUS
<1> QED
  BY EnterKeeps, LeaveKeeps, ThreadKeeps, OthersKeep DEF Next, OnLoop

\* Every reachable state satisfies the inductive invariant.
THEOREM ExecutorInvariance == Spec => []ExecutorInv
BY ExecutorStart, ExecutorStep, PTL DEF Spec

(***************************************************************************)
(* What follows.                                                           *)
(***************************************************************************)

\* Every variable keeps its type: in particular no count of _admission or
\* _principal_active leaves its limits.
THEOREM TypeCorrect == Spec => []TypeOK
<1>1. ExecutorInv => TypeOK
  BY DEF ExecutorInv
<1> QED
  BY <1>1, ExecutorInvariance, PTL

\* Fewer calls are on a thread than are inside, so who was admitted finds one.
LEMMA ThreadIsFree ==
    ASSUME ExecutorInv, NEW c \in Calls, stage[c] = "admitted"
    PROVE FreeThreads > 0
<1> DEFINE T == {d \in Calls : stage[d] \in OnThread}
<1>1. T \in SUBSET (Inside \ {c}) /\ c \in Inside /\ Inside \in SUBSET Calls
  BY DEF Inside, Admitted, OnThread
<1>2. IsFiniteSet(Inside) /\ Cardinality(Inside) \in Nat
  BY <1>1, Countable
<1>3. IsFiniteSet(Inside \ {c}) /\ Cardinality(Inside \ {c}) = Cardinality(Inside) - 1
  BY <1>1, <1>2, FS_RemoveElement
<1>4. Cardinality(T) <= Cardinality(Inside \ {c}) /\ Cardinality(T) \in Nat
  BY <1>1, <1>3, FS_Subset, FS_CardinalityType
<1>5. FreeThreads = Capacity - Cardinality(T)
  BY DEF FreeThreads, Quantify
<1> HIDE DEF T
<1>6. permits \in Nat /\ Capacity \in Nat /\ permits + Cardinality(Inside) = Capacity
  BY ExecutorAssumption DEF ExecutorInv, TypeOK, SlotsInv
<1> QED
  BY <1>2, <1>3, <1>4, <1>5, <1>6

\* The permits, slots and threads are those of the calls that are inside.
LEMMA SlotsFollow == ASSUME ExecutorInv PROVE SlotsMatchCalls
<1>1. Inside = {c \in Calls : stage[c] \in OnThread \cup {"admitted", "returned"}}
  BY DEF Inside, Admitted
<1>2. \A p \in Principals : InsideOf(p) = {c \in Inside : PrincipalOf[c] = p}
  BY DEF InsideOf
<1>3. \A c \in Calls : stage[c] = "admitted" => FreeThreads > 0
  BY ThreadIsFree
<1>4. SlotsInv /\ ActiveInv
  BY DEF ExecutorInv
<1>5. /\ budgets = Inside
      /\ permits + Cardinality(Inside) = Capacity
      /\ \A p \in Principals : principals[p] = Cardinality({c \in Inside : PrincipalOf[c] = p})
      /\ drained <=> Inside = {}
  BY <1>2, <1>4 DEF SlotsInv
<1> QED
  BY <1>1, <1>3, <1>4, <1>5 DEF SlotsMatchCalls, ActiveInv

\* Nobody is inside once the lifespan goes on.
LEMMA QuietFollows == ASSUME ExecutorInv PROVE ClosedMeansQuiet
<1> SUFFICES ASSUME shutdown \notin {"serving", "draining"}
             PROVE /\ \A c \in Calls : stage[c] \in {"idle", "refused", "answered"}
                   /\ usage = "released" => active = {}
                   /\ shutdown = "stopped" => jobs # "started" /\ usage # "open"
  BY DEF ClosedMeansQuiet
<1>1. Inside = {}
  BY DEF ExecutorInv, ShutdownInv
<1>2. \A c \in Calls : stage[c] \in {"idle", "refused", "answered"}
  BY <1>1 DEF ExecutorInv, TypeOK, Stages, Inside, Admitted, OnThread
<1> QED
  BY <1>2 DEF ExecutorInv, ShutdownInv

LEMMA CallsFollow == ExecutorInv => CallsAreAccounted
BY SlotsFollow, QuietFollows DEF CallsAreAccounted, ExecutorInv

\* On every path through _ToolExecutor.run a call holds one permit and one slot
\* of its principal while it is inside, and an admitted call finds a thread.
THEOREM SlotSafety == Spec => []SlotsMatchCalls
BY ExecutorInvariance, SlotsFollow, PTL

\* The lifespan closes the clients, the usage store and the evaluation worker
\* only when no call is left that could use them and none can come.
THEOREM ShutdownSafety == Spec => []ClosedMeansQuiet
BY ExecutorInvariance, QuietFollows, PTL

\* The permits, slots and threads are those of the calls that are inside, and what
\* the calls share outlives them (_ToolExecutor and the lifespan of
\* interfaces/mcp.py).
THEOREM CallSafety == Spec => []CallsAreAccounted
BY ExecutorInvariance, CallsFollow, PTL

(***************************************************************************)
(* Reports of jobs.                                                        *)
(***************************************************************************)

\* A damaged text or digest is equal to nothing else; one damage does not make
\* a wrong number of fragments agree with a report.
StoredInv ==
    /\ \A p \in DOMAIN report : report[p] \in {p, Reports!Noise}
    /\ sum \in {<<>>, Reports!Sealed, <<Reports!Blot>>}
    /\ version = 5 => \A p \in DOMAIN parts : parts[p] \in {p, Reports!Blot}
    /\ damage = 0 => count \in {0, Parts} /\ Len(report) \in {0, Parts}
    /\ damage <= 1 => count \in {0, Parts} \/ Len(report) \in {0, Parts}
    /\ due \/ expired => state # "running"
    /\ state = "running" => version = 5

ReportsInv ==
    Reports!TypeOK /\ StoredInv /\ Reports!FragmentsAreSealed /\ Reports!PurgedLeavesNothing

LEMMA ReportNumbers ==
    /\ Parts \in Nat \ {0} /\ MaxDamage \in Nat
    /\ Reports!Noise = Parts + 1 /\ Reports!Blot = Parts + 2 /\ Reports!Texts = 1 .. Parts + 2
    /\ Reports!Sealed \in Seq(Reports!Texts) /\ Len(Reports!Sealed) = Parts
    /\ DOMAIN Reports!Sealed = 1 .. Parts /\ \A p \in 1 .. Parts : Reports!Sealed[p] = p
    /\ DOMAIN Reports!NoParts = {}
<1>1. Parts \in Nat \ {0} /\ MaxDamage \in Nat
  BY PartsAssumption DEF Reports!ReportsAssumption
<1>2. Reports!Noise = Parts + 1 /\ Reports!Blot = Parts + 2 /\ Reports!Texts = 1 .. Parts + 2
  BY DEF Reports!Noise, Reports!Blot, Reports!Texts
<1>3. DOMAIN Reports!Sealed = 1 .. Parts /\ \A p \in 1 .. Parts : Reports!Sealed[p] = p
  BY DEF Reports!Sealed
<1>4. Reports!Sealed \in Seq(Reports!Texts) /\ Len(Reports!Sealed) = Parts
  <2>1. Reports!Sealed = [p \in 1 .. Parts |-> p] /\ \A p \in 1 .. Parts : p \in Reports!Texts
    BY <1>1, <1>2 DEF Reports!Sealed
  <2> QED
    BY <1>1, <2>1
<1>5. DOMAIN Reports!NoParts = {}
  BY DEF Reports!NoParts
<1> QED
  BY <1>1, <1>2, <1>3, <1>4, <1>5

\* What a report that agrees with its digest is.
LEMMA VerifiedIsSealed == ASSUME StoredInv, report = sum, report # <<>> PROVE report = Reports!Sealed
<1>1. CASE sum = <<Reports!Blot>>
  <2>1. 1 \in DOMAIN report /\ report[1] = Reports!Blot
    BY <1>1
  <2> QED
    BY <2>1, ReportNumbers DEF StoredInv
<1> QED
  BY <1>1 DEF StoredInv

\* A text that is cut short is one.
LEMMA CutShort ==
    ASSUME NEW S, NEW s \in Seq(S), NEW n \in Nat, n <= Len(s)
    PROVE SubSeq(s, 1, n) \in Seq(S) /\ Len(SubSeq(s, 1, n)) = n
<1>1. \A i \in 1 .. n : s[i] \in S
  OBVIOUS
<1>2. SubSeq(s, 1, n) \in Seq(S)
  BY <1>1, SubSeqProperties
<1>3. Len(SubSeq(s, 1, n)) = IF 1 <= n THEN n - 1 + 1 ELSE 0
  BY <1>1, SubSeqProperties
<1> QED
  BY <1>2, <1>3

LEMMA ReportsStart == Reports!Init => ReportsInv
<1> SUFFICES ASSUME Reports!Init PROVE ReportsInv
  OBVIOUS
<1> USE ReportNumbers
<1>1. /\ report \in {<<>>, Reports!Sealed} /\ sum = report
      /\ version \in 3 .. 5 /\ (version = 5 => parts = Reports!NoParts)
      /\ parts \in {Reports!NoParts, Reports!Sealed, [Reports!Sealed EXCEPT ![1] = Reports!Noise]}
      /\ count \in {0, Parts} /\ state \in {"running", "completed"} /\ (state = "running" => version = 5)
      /\ damage = 0
  BY DEF Reports!Init
<1>2. inputs = TRUE /\ due = FALSE /\ expired = FALSE
  BY DEF Reports!Init
<1>3. asking \in [Askers -> {"idle"}] /\ want \in [Askers -> {1}] /\ got \in [Askers -> {{}}]
  BY DEF Reports!Init
<1>4. DOMAIN parts \subseteq 1 .. Parts /\ \A p \in DOMAIN parts : parts[p] \in Reports!Texts
  BY <1>1
<1>5. report \in Seq(Reports!Texts) /\ sum \in Seq(Reports!Texts) /\ Len(report) \in {0, Parts}
  <2>1. <<>> \in Seq(Reports!Texts) /\ Len(<<>>) = 0
    OBVIOUS
  <2> QED
    BY <1>1, <2>1
<1>6. Reports!TypeOK
  <2>1. inputs \in BOOLEAN /\ due \in BOOLEAN /\ expired \in BOOLEAN
    BY <1>2
  <2>2. got \in [Askers -> SUBSET [part : 1 .. Parts, text : Reports!Texts, count : 1 .. Parts + 1]]
    BY <1>3
  <2>3. want \in [Askers -> 1 .. Parts + 1] /\ asking \in [Askers -> {"idle", "part", "verify", "migrate"}]
    BY <1>3
  <2> QED
    BY <1>1, <1>4, <1>5, <2>1, <2>2, <2>3 DEF Reports!TypeOK
<1>7. StoredInv
  <2>1. \A p \in DOMAIN report : report[p] \in {p, Reports!Noise}
    BY <1>1
  <2>2. version = 5 => \A p \in DOMAIN parts : parts[p] \in {p, Reports!Blot}
    BY <1>1
  <2>3. due \/ expired => state # "running"
    BY <1>2
  <2> QED
    BY <1>1, <1>5, <2>1, <2>2, <2>3 DEF StoredInv
<1> QED
  BY <1>2, <1>3, <1>6, <1>7 DEF ReportsInv, Reports!FragmentsAreSealed, Reports!PurgedLeavesNothing

\* The steps that readers take leave the stored report alone, but for the digests
\* of its fragments.
LEMMA ReportsStep == ReportsInv /\ [Reports!Next]_ofReports => ReportsInv'
<1> SUFFICES ASSUME ReportsInv, [Reports!Next]_ofReports PROVE ReportsInv'
  OBVIOUS
<1> USE ReportNumbers DEF Reports!asked, Reports!stored
<1>t. Reports!TypeOK /\ StoredInv /\ Reports!FragmentsAreSealed /\ Reports!PurgedLeavesNothing
  BY DEF ReportsInv
<1>1. CASE Reports!Upgrade
  <2>1. version' = 5 /\ count' = 0 /\ DOMAIN parts' = {}
        /\ UNCHANGED <<state, inputs, report, sum, due, expired, damage, asking, want, got>>
    BY <1>1 DEF Reports!Upgrade
  <2>2. Reports!TypeOK'
    BY <1>t, <2>1 DEF Reports!TypeOK
  <2>3. StoredInv'
    BY <1>t, <2>1 DEF StoredInv
  <2> QED
    BY <1>t, <2>1, <2>2, <2>3 DEF ReportsInv, Reports!FragmentsAreSealed, Reports!PurgedLeavesNothing
<1>2. CASE Reports!Seal
  <2>1. /\ state = "running" /\ state' \in {"completed", "failed"}
        /\ UNCHANGED <<version, inputs, due, expired, damage, asking, want, got>>
        /\ \/ report' = Reports!Sealed /\ sum' = Reports!Sealed /\ count' = Parts /\ parts' = Reports!Sealed
           \/ UNCHANGED <<report, sum, count, parts>>
    BY <1>2 DEF Reports!Seal
  <2>2. Reports!TypeOK'
    BY <1>t, <2>1 DEF Reports!TypeOK
  <2>3. StoredInv'
    BY <1>t, <2>1 DEF StoredInv
  <2>4. ~ expired
    BY <1>t, <2>1 DEF StoredInv
  <2> QED
    BY <1>t, <2>1, <2>2, <2>3, <2>4 DEF ReportsInv, Reports!FragmentsAreSealed, Reports!PurgedLeavesNothing
<1>3. CASE Reports!RetentionEnds
  <2>1. state # "running" /\ due' = TRUE
        /\ UNCHANGED <<version, state, inputs, report, sum, count, parts, expired, damage, asking, want, got>>
    BY <1>3 DEF Reports!RetentionEnds
  <2>2. Reports!TypeOK'
    BY <1>t, <2>1 DEF Reports!TypeOK
  <2> QED
    BY <1>t, <2>1, <2>2 DEF ReportsInv, StoredInv, Reports!FragmentsAreSealed, Reports!PurgedLeavesNothing
<1>4. CASE Reports!Purge
  <2>1. due /\ expired' = TRUE /\ report' = <<>> /\ DOMAIN parts' = {}
        /\ UNCHANGED <<version, state, inputs, sum, count, due, damage, asking, want, got>>
    BY <1>4 DEF Reports!Purge
  <2>2. <<>> \in Seq(Reports!Texts) /\ Len(<<>>) = 0 /\ DOMAIN <<>> = {}
    OBVIOUS
  <2>3. Reports!TypeOK'
    BY <1>t, <2>1, <2>2 DEF Reports!TypeOK
  <2>4. StoredInv'
    BY <1>t, <2>1, <2>2 DEF StoredInv
  <2> QED
    BY <1>t, <2>1, <2>2, <2>3, <2>4 DEF ReportsInv, Reports!FragmentsAreSealed, Reports!PurgedLeavesNothing
<1>5. CASE Reports!Damage
  <2>1. damage' = damage + 1 /\ damage \in Nat /\ damage' \in 0 .. MaxDamage
        /\ UNCHANGED <<version, state, due, expired, asking, want, got>>
    <3>1. damage \in Nat /\ damage < MaxDamage /\ damage' = damage + 1
      BY <1>5, <1>t DEF Reports!Damage, Reports!TypeOK
    <3>2. UNCHANGED <<version, state, due, expired, asking, want, got>>
      BY <1>5 DEF Reports!Damage
    <3> QED
      BY <3>1, <3>2
  <2>n. \A r \in Askers : \A fragment \in got[r] : damage' <= 1 => fragment.count = Parts
    BY <1>t, <2>1 DEF Reports!FragmentsAreSealed
  <2>q. Reports!FragmentsAreSealed'
    BY <1>t, <2>1, <2>n DEF Reports!FragmentsAreSealed
  <2>2. CASE UNCHANGED <<report, sum, count, parts>>
    <3>1. inputs' \in BOOLEAN
      BY <1>5, <1>t DEF Reports!Damage, Reports!TypeOK
    <3>2. Reports!TypeOK'
      BY <1>t, <2>1, <2>2, <3>1 DEF Reports!TypeOK
    <3> QED
      BY <1>t, <2>1, <2>2, <2>q, <3>2 DEF ReportsInv, StoredInv, Reports!PurgedLeavesNothing
  <2>3. CASE report # <<>> /\ UNCHANGED <<inputs, sum, count, parts>>
             /\ \/ report' \in {[report EXCEPT ![p] = Reports!Noise] : p \in DOMAIN report}
                \/ report' = SubSeq(report, 1, Len(report) - 1)
    <3>1. /\ report' \in Seq(Reports!Texts) /\ Len(report') <= Parts
          /\ \A p \in DOMAIN report' : report'[p] \in {p, Reports!Noise}
      <4>1. ASSUME NEW p \in DOMAIN report, report' = [report EXCEPT ![p] = Reports!Noise]
            PROVE  /\ report' \in Seq(Reports!Texts) /\ Len(report') <= Parts
                   /\ \A q \in DOMAIN report' : report'[q] \in {q, Reports!Noise}
        <5>1. report \in Seq(Reports!Texts) /\ Len(report) <= Parts /\ Reports!Noise \in Reports!Texts
          BY <1>t DEF Reports!TypeOK
        <5>2. report' \in Seq(Reports!Texts) /\ Len(report') = Len(report)
          BY <4>1, <5>1
        <5>3. DOMAIN report' = DOMAIN report
              /\ \A q \in DOMAIN report : report'[q] = IF q = p THEN Reports!Noise ELSE report[q]
          BY <4>1
        <5>4. \A q \in DOMAIN report : report[q] \in {q, Reports!Noise}
          BY <1>t DEF StoredInv
        <5> QED
          BY <5>1, <5>2, <5>3, <5>4
      <4>2. ASSUME report' = SubSeq(report, 1, Len(report) - 1)
            PROVE  /\ report' \in Seq(Reports!Texts) /\ Len(report') <= Parts
                   /\ \A q \in DOMAIN report' : report'[q] \in {q, Reports!Noise}
        <5>1. report \in Seq(Reports!Texts) /\ Len(report) <= Parts /\ Len(report) \in Nat \ {0}
          <6>1. report \in Seq(Reports!Texts) /\ Len(report) <= Parts
            BY <1>t DEF Reports!TypeOK
          <6> QED
            BY <2>3, <6>1
        <5>2. report' \in Seq(Reports!Texts) /\ Len(report') = Len(report) - 1
          <6>1. Len(report) - 1 \in Nat /\ Len(report) - 1 <= Len(report)
            BY <5>1
          <6> HIDE DEF Reports!Texts
          <6>2. ASSUME NEW n \in Nat, n <= Len(report)
                PROVE  SubSeq(report, 1, n) \in Seq(Reports!Texts) /\ Len(SubSeq(report, 1, n)) = n
            BY <5>1, <6>2, CutShort, Zenon
          <6> QED
            BY <4>2, <6>1, <6>2, Zenon
        <5>3. \A q \in 1 .. Len(report) - 1 : report'[q] = report[q]
          BY <4>2, <5>1
        <5>4. \A q \in DOMAIN report : report[q] \in {q, Reports!Noise}
          BY <1>t DEF StoredInv
        <5> HIDE DEF Reports!Noise
        <5>5. ASSUME NEW q \in DOMAIN report' PROVE report'[q] \in {q, Reports!Noise}
          <6>1. q \in 1 .. Len(report) - 1
            BY <5>2
          <6>2. q \in DOMAIN report
            BY <5>1, <6>1
          <6> QED
            BY <5>3, <5>4, <6>1, <6>2
        <5> QED
          BY <5>1, <5>2, <5>5
      <4> QED
        BY <2>3, <4>1, <4>2
    <3>2. Reports!TypeOK'
      BY <1>t, <2>1, <2>3, <3>1 DEF Reports!TypeOK
    <3>3. StoredInv'
      BY <1>t, <2>1, <2>3, <3>1 DEF StoredInv, Reports!TypeOK
    <3> QED
      BY <1>t, <2>1, <2>3, <2>q, <3>2, <3>3 DEF ReportsInv, Reports!PurgedLeavesNothing
  <2>4. CASE sum' = <<Reports!Blot>> /\ UNCHANGED <<inputs, report, count, parts>>
    <3>1. <<Reports!Blot>> \in Seq(Reports!Texts)
      OBVIOUS
    <3>2. Reports!TypeOK'
      BY <1>t, <2>1, <2>4, <3>1 DEF Reports!TypeOK
    <3>3. StoredInv'
      BY <1>t, <2>1, <2>4 DEF StoredInv
    <3> QED
      BY <1>t, <2>1, <2>4, <2>q, <3>2, <3>3 DEF ReportsInv, Reports!PurgedLeavesNothing
  <2>5. CASE count' \in 1 .. Parts + 1 /\ UNCHANGED <<inputs, report, sum, parts>>
    <3>1. Reports!TypeOK'
      BY <1>t, <2>1, <2>5 DEF Reports!TypeOK
    <3>2. StoredInv'
      BY <1>t, <2>1, <2>5 DEF StoredInv
    <3> QED
      BY <1>t, <2>1, <2>5, <2>q, <3>1, <3>2 DEF ReportsInv, Reports!PurgedLeavesNothing
  <2>6. ASSUME NEW p \in DOMAIN parts, parts' = [parts EXCEPT ![p] = Reports!Blot], UNCHANGED <<inputs, report, sum, count>>
        PROVE  ReportsInv'
    <3>1. DOMAIN parts' = DOMAIN parts /\ \A q \in DOMAIN parts : parts'[q] = IF q = p THEN Reports!Blot ELSE parts[q]
      BY <2>6
    <3>a. DOMAIN parts' \subseteq 1 .. Parts /\ \A q \in DOMAIN parts' : parts'[q] \in Reports!Texts
      <4>1. DOMAIN parts \subseteq 1 .. Parts /\ \A q \in DOMAIN parts : parts[q] \in Reports!Texts
        BY <1>t DEF Reports!TypeOK
      <4>2. Reports!Blot \in Reports!Texts
        OBVIOUS
      <4> QED
        BY <3>1, <4>1, <4>2
    <3>2. Reports!TypeOK'
      BY <1>t, <2>1, <2>6, <3>a DEF Reports!TypeOK
    <3>3. StoredInv'
      BY <1>t, <2>1, <2>6, <3>1 DEF StoredInv
    <3> QED
      BY <1>t, <2>1, <2>6, <2>q, <3>1, <3>2, <3>3 DEF ReportsInv, Reports!PurgedLeavesNothing
  <2> QED
    BY <1>5, <2>2, <2>3, <2>4, <2>5, <2>6 DEF Reports!Damage
<1>6. ASSUME NEW r \in Askers, Reports!Ask(r) \/ Reports!VerifyReport(r) PROVE ReportsInv'
  <2>1. UNCHANGED <<version, state, inputs, report, sum, count, parts, due, expired, damage, got>>
    BY <1>6 DEF Reports!Ask, Reports!VerifyReport
  <2>2. want' \in [Askers -> 1 .. Parts + 1] /\ asking' \in [Askers -> {"idle", "part", "verify", "migrate"}]
    <3>1. want \in [Askers -> 1 .. Parts + 1] /\ asking \in [Askers -> {"idle", "part", "verify", "migrate"}]
      BY <1>t DEF Reports!TypeOK
    <3>2. CASE Reports!VerifyReport(r)
      <4>1. want' = want
        BY <3>2 DEF Reports!VerifyReport
      <4>2. \E step \in {"idle", "migrate"} : asking' = [asking EXCEPT ![r] = step]
        BY <3>2 DEF Reports!VerifyReport, Reports!Goto
      <4> QED
        BY <3>1, <4>1, <4>2
    <3>3. CASE Reports!Ask(r)
      <4>1. \E p \in 1 .. Parts + 1 : want' = [want EXCEPT ![r] = p]
        <5>1. 1 \in 1 .. Parts + 1
          OBVIOUS
        <5> QED
          BY <3>3, <5>1 DEF Reports!Ask
      <4>2. \E step \in {"idle", "part"} : asking' = [asking EXCEPT ![r] = step]
        BY <3>3 DEF Reports!Ask, Reports!Goto
      <4> QED
        BY <3>1, <4>1, <4>2
    <3> QED
      BY <1>6, <3>2, <3>3
  <2>3. Reports!TypeOK'
    BY <1>t, <2>1, <2>2 DEF Reports!TypeOK
  <2> QED
    BY <1>t, <2>1, <2>3 DEF ReportsInv, StoredInv, Reports!FragmentsAreSealed, Reports!PurgedLeavesNothing
<1>7. ASSUME NEW r \in Askers, Reports!ReadPart(r) PROVE ReportsInv'
  <2>1. UNCHANGED <<version, state, inputs, report, sum, count, parts, due, expired, damage, want>> /\ version = 5
    BY <1>7 DEF Reports!ReadPart, Reports!At
  <2>2. asking' \in [Askers -> {"idle", "part", "verify", "migrate"}]
    BY <1>7, <1>t DEF Reports!ReadPart, Reports!Goto, Reports!TypeOK
  <2>3. CASE UNCHANGED got
    <3>1. Reports!TypeOK'
      BY <1>t, <2>1, <2>2, <2>3 DEF Reports!TypeOK
    <3> QED
      BY <1>t, <2>1, <2>3, <3>1 DEF ReportsInv, StoredInv, Reports!FragmentsAreSealed, Reports!PurgedLeavesNothing
  <2>4. CASE ~ UNCHANGED got
    <3> DEFINE fragment == [part |-> want[r], text |-> report[want[r]], count |-> count]
    <3>1. /\ got' = [got EXCEPT ![r] = @ \cup {fragment}]
          /\ count # 0 /\ report # <<>> /\ count = Len(report)
          /\ want[r] \in DOMAIN parts /\ parts[want[r]] = report[want[r]]
      BY <1>7, <2>4 DEF Reports!ReadPart, Reports!Give
    <3>2. count \in 1 .. Parts + 1 /\ want[r] \in 1 .. Parts /\ want[r] \in DOMAIN report
      BY <1>7, <1>t, <2>4, <3>1 DEF Reports!TypeOK, Reports!ReadPart
    <3>3. report[want[r]] = want[r]
      BY <1>t, <2>1, <3>1, <3>2 DEF StoredInv
    <3>4. damage <= 1 => count = Parts
      BY <1>t, <3>1, <3>2 DEF StoredInv
    <3>5. fragment \in [part : 1 .. Parts, text : Reports!Texts, count : 1 .. Parts + 1]
          /\ fragment.text = fragment.part /\ fragment.count = count
      BY <3>2, <3>3
    <3> HIDE DEF fragment
    <3>6. got' \in [Askers -> SUBSET [part : 1 .. Parts, text : Reports!Texts, count : 1 .. Parts + 1]]
      BY <1>t, <3>1, <3>5 DEF Reports!TypeOK
    <3>7. \A s \in Askers : got'[s] = IF s = r THEN got[r] \cup {fragment} ELSE got[s]
      BY <1>t, <3>1 DEF Reports!TypeOK
    <3>8. Reports!TypeOK'
      BY <1>t, <2>1, <2>2, <3>6 DEF Reports!TypeOK
    <3>9. Reports!FragmentsAreSealed'
      <4>1. ASSUME NEW s \in Askers, NEW f \in got'[s]
            PROVE  f.text = f.part /\ (damage <= 1 => f.count = Parts)
        <5>1. CASE f \in got[s]
          BY <1>t, <5>1 DEF Reports!FragmentsAreSealed
        <5>2. CASE f = fragment
          BY <3>4, <3>5, <5>2
        <5> QED
          BY <3>7, <5>1, <5>2
      <4>2. damage' = damage
        BY <2>1
      <4> QED
        BY <4>1, <4>2 DEF Reports!FragmentsAreSealed
    <3> QED
      BY <1>t, <2>1, <3>8, <3>9 DEF ReportsInv, StoredInv, Reports!PurgedLeavesNothing
  <2> QED
    BY <2>3, <2>4
<1>8. ASSUME NEW r \in Askers, Reports!Migrate(r) PROVE ReportsInv'
  <2>1. UNCHANGED <<version, state, inputs, report, sum, due, expired, damage, want, got>> /\ version = 5
    BY <1>8 DEF Reports!Migrate, Reports!At
  <2>2. asking' \in [Askers -> {"idle", "part", "verify", "migrate"}]
    BY <1>8, <1>t DEF Reports!Migrate, Reports!Goto, Reports!TypeOK
  <2>3. CASE UNCHANGED <<count, parts>>
    <3>1. Reports!TypeOK'
      BY <1>t, <2>1, <2>2, <2>3 DEF Reports!TypeOK
    <3> QED
      BY <1>t, <2>1, <2>3, <3>1 DEF ReportsInv, StoredInv, Reports!FragmentsAreSealed, Reports!PurgedLeavesNothing
  <2>4. CASE ~ UNCHANGED <<count, parts>>
    <3>1. report = sum /\ report # <<>> /\ ~expired /\ count' = Len(report) /\ parts' = report
      BY <1>8, <2>4 DEF Reports!Migrate
    <3>2. count' = Parts /\ parts' = Reports!Sealed /\ report = Reports!Sealed
      BY <1>t, <3>1, VerifiedIsSealed
    <3>3. Reports!TypeOK'
      BY <1>t, <2>1, <2>2, <3>2 DEF Reports!TypeOK
    <3>4. StoredInv'
      BY <1>t, <2>1, <3>2 DEF StoredInv
    <3> QED
      BY <1>t, <2>1, <3>1, <3>3, <3>4 DEF ReportsInv, Reports!FragmentsAreSealed, Reports!PurgedLeavesNothing
  <2> QED
    BY <2>3, <2>4
<1>9. CASE UNCHANGED ofReports
  BY <1>9, <1>t DEF ofReports, ReportsInv, Reports!TypeOK, StoredInv, Reports!FragmentsAreSealed, Reports!PurgedLeavesNothing
<1> QED
  BY <1>1, <1>2, <1>3, <1>4, <1>5, <1>6, <1>7, <1>8, <1>9 DEF Reports!Next, Reports!Read

(***************************************************************************)
(* Provider requests.                                                      *)
(***************************************************************************)

\* While the operation goes on the durable record is the counted one, and there
\* is a request to be made; a pause is before an attempt that is allowed.
BudgetInv ==
    /\ pc # "ended" => recorded = counted /\ request < Requests
    /\ pc = "pausing" => attempt < MaxRetries
    /\ counted.unknown <= counted.attempts
    /\ pc \in {"reserved", "sending", "sent", "answered"} => counted.unknown >= 1

\* A pause lasts until the provider accepts another attempt, and no attempt is
\* about to leave once one has left after the end.
WelcomeInv ==
    /\ pc \in {"next", "reserved", "sending"} => clock >= notBefore
    /\ pc = "pausing" => wake >= notBefore
    /\ pc \in {"answered", "failed"} =>
         IF response.header = Provider!NoHeader THEN notBefore = 0 ELSE notBefore <= clock + response.header
    /\ pc = "succeeded" => notBefore = 0
    /\ sentStopped <= 1
    /\ sentStopped >= 1 => Provider!Stopped /\ pc # "sending"

RequestInv == Provider!TypeOK /\ Provider!SentIsRecorded /\ BudgetInv /\ WelcomeInv

LEMMA RequestNumbers ==
    /\ MaxRetries \in 0 .. 10 /\ MaxProviderCalls \in Nat \ {0} /\ Requests \in Nat \ {0}
    /\ Deadline \in Nat \ {0} /\ Horizon \in Nat /\ Horizon >= Deadline
    /\ RetryInitial \in Nat \ {0} /\ RetryMax \in Nat \ {0}
    /\ RetryAfters \subseteq Nat /\ Usages \subseteq Nat
    /\ Provider!NoHeader = -1 /\ Provider!NoUsage = -1
BY PartsAssumption DEF Provider!RequestAssumption, Provider!NoHeader, Provider!NoUsage

\* What the fields of a count and of a response are.
LEMMA CountFields ==
    ASSUME NEW u \in Provider!Usage
    PROVE  u.attempts \in 0 .. MaxProviderCalls /\ u.unknown \in 0 .. MaxProviderCalls /\ u.tokens \in Nat
BY DEF Provider!Usage

LEMMA CountUpdated ==
    ASSUME NEW u \in Provider!Usage, NEW n \in 0 .. MaxProviderCalls, NEW t \in Nat
    PROVE  /\ [u EXCEPT !.attempts = n] \in Provider!Usage /\ [u EXCEPT !.unknown = n] \in Provider!Usage
           /\ [u EXCEPT !.tokens = t] \in Provider!Usage
BY DEF Provider!Usage

LEMMA ResponseFields ==
    ASSUME NEW r \in Provider!Responses \cup {Provider!NoResponse}
    PROVE  /\ r.header \in RetryAfters \cup {-1} /\ r.usage \in Usages \cup {-1}
           /\ r.kind \in {"valid", "invalid"} => r.header = -1
<1>1. CASE r \in [kind : {"valid", "invalid"}, usage : Usages \cup {Provider!NoUsage}, header : {Provider!NoHeader}]
  BY <1>1, RequestNumbers
<1>2. CASE r \in [kind : {"refused", "interrupted"}, usage : {Provider!NoUsage}, header : {Provider!NoHeader}]
  BY <1>2, RequestNumbers
<1>3. CASE r \in [kind : {"transient"}, usage : {Provider!NoUsage}, header : RetryAfters \cup {Provider!NoHeader}]
  BY <1>3, RequestNumbers
<1>4. CASE r = Provider!NoResponse
  BY <1>4, RequestNumbers DEF Provider!NoResponse
<1> QED
  BY <1>1, <1>2, <1>3, <1>4 DEF Provider!Responses

\* The records that the budget computes.
LEMMA Attempting ==
    ASSUME counted \in Provider!Usage, counted.attempts < MaxProviderCalls, counted.unknown <= counted.attempts
    PROVE  /\ Provider!Attempted \in Provider!Usage
           /\ Provider!Attempted.attempts = counted.attempts + 1 /\ Provider!Attempted.unknown = counted.unknown + 1
           /\ Provider!Attempted.tokens = counted.tokens
<1>1. /\ counted.attempts \in 0 .. MaxProviderCalls /\ counted.unknown \in 0 .. MaxProviderCalls
      /\ counted.tokens \in Nat /\ MaxProviderCalls \in Nat
  BY CountFields, RequestNumbers
<1> DEFINE middle == [counted EXCEPT !.attempts = counted.attempts + 1]
<1>2. counted.attempts + 1 \in 0 .. MaxProviderCalls /\ counted.unknown + 1 \in 0 .. MaxProviderCalls
  BY <1>1
<1>3. middle \in Provider!Usage /\ middle.unknown = counted.unknown
  BY <1>2, CountUpdated DEF Provider!Usage
<1>4. Provider!Attempted = [middle EXCEPT !.unknown = counted.unknown + 1]
  BY <1>3 DEF Provider!Attempted
<1>5. Provider!Attempted.attempts = counted.attempts + 1 /\ Provider!Attempted.unknown = counted.unknown + 1 /\ Provider!Attempted.tokens = counted.tokens
  BY DEF Provider!Attempted, Provider!Usage
<1> HIDE DEF middle
<1>6. [middle EXCEPT !.unknown = counted.unknown + 1] \in Provider!Usage
  BY <1>2, <1>3, CountUpdated
<1> QED
  BY <1>4, <1>5, <1>6

LEMMA TakingBack ==
    ASSUME counted \in Provider!Usage, counted.attempts >= 1, counted.unknown >= 1
    PROVE  /\ Provider!Unattempted \in Provider!Usage
           /\ Provider!Unattempted.attempts = counted.attempts - 1 /\ Provider!Unattempted.unknown = counted.unknown - 1
           /\ Provider!Unattempted.tokens = counted.tokens
<1>1. /\ counted.attempts \in 0 .. MaxProviderCalls /\ counted.unknown \in 0 .. MaxProviderCalls
      /\ counted.tokens \in Nat /\ MaxProviderCalls \in Nat
  BY CountFields, RequestNumbers
<1> DEFINE middle == [counted EXCEPT !.attempts = counted.attempts - 1]
<1>2. counted.attempts - 1 \in 0 .. MaxProviderCalls /\ counted.unknown - 1 \in 0 .. MaxProviderCalls
  BY <1>1
<1>3. middle \in Provider!Usage /\ middle.unknown = counted.unknown
  BY <1>2, CountUpdated DEF Provider!Usage
<1>4. Provider!Unattempted = [middle EXCEPT !.unknown = counted.unknown - 1]
  BY <1>3 DEF Provider!Unattempted
<1>5. Provider!Unattempted.attempts = counted.attempts - 1 /\ Provider!Unattempted.unknown = counted.unknown - 1 /\ Provider!Unattempted.tokens = counted.tokens
  BY DEF Provider!Unattempted, Provider!Usage
<1> HIDE DEF middle
<1>6. [middle EXCEPT !.unknown = counted.unknown - 1] \in Provider!Usage
  BY <1>2, <1>3, CountUpdated
<1> QED
  BY <1>4, <1>5, <1>6

LEMMA Measuring ==
    ASSUME counted \in Provider!Usage, counted.unknown >= 1, NEW tokens \in Nat
    PROVE  /\ Provider!Measured(tokens) \in Provider!Usage
           /\ Provider!Measured(tokens).unknown = counted.unknown - 1 /\ Provider!Measured(tokens).tokens = counted.tokens + tokens
           /\ Provider!Measured(tokens).attempts = counted.attempts
<1>1. /\ counted.attempts \in 0 .. MaxProviderCalls /\ counted.unknown \in 0 .. MaxProviderCalls
      /\ counted.tokens \in Nat /\ MaxProviderCalls \in Nat
  BY CountFields, RequestNumbers
<1> DEFINE middle == [counted EXCEPT !.unknown = counted.unknown - 1]
<1>2. counted.unknown - 1 \in 0 .. MaxProviderCalls /\ counted.tokens + tokens \in Nat
  BY <1>1
<1>3. middle \in Provider!Usage /\ middle.tokens = counted.tokens
  BY <1>2, CountUpdated DEF Provider!Usage
<1>4. Provider!Measured(tokens) = [middle EXCEPT !.tokens = counted.tokens + tokens]
  BY <1>3 DEF Provider!Measured
<1>5. Provider!Measured(tokens).unknown = counted.unknown - 1 /\ Provider!Measured(tokens).tokens = counted.tokens + tokens /\ Provider!Measured(tokens).attempts = counted.attempts
  BY DEF Provider!Measured, Provider!Usage
<1> HIDE DEF middle
<1>6. [middle EXCEPT !.tokens = counted.tokens + tokens] \in Provider!Usage
  BY <1>2, <1>3, CountUpdated
<1> QED
  BY <1>4, <1>5, <1>6

LEMMA RequestStart == Provider!Init => RequestInv
<1> SUFFICES ASSUME Provider!Init PROVE RequestInv
  OBVIOUS
<1>1. /\ clock = 0 /\ pc = "next" /\ request = 0 /\ attempt = 0 /\ wake = 0 /\ result = "none"
      /\ sent = 0 /\ notBefore = 0 /\ sentStopped = 0 /\ response = Provider!NoResponse /\ recorded = counted
      /\ counted = [attempts |-> 0, unknown |-> 0, tokens |-> 0]
  BY DEF Provider!Init
<1>2. revoked \in BOOLEAN
  BY DEF Provider!Init
<1>3. counted.attempts = 0 /\ counted.unknown = 0 /\ counted.tokens = 0
  BY <1>1
<1>4. counted \in Provider!Usage
  <2>1. 0 \in 0 .. MaxProviderCalls /\ 0 \in Nat
    BY RequestNumbers
  <2> QED
    BY <1>1, <2>1 DEF Provider!Usage
<1>5. Provider!TypeOK
  BY <1>1, <1>2, <1>4, RequestNumbers DEF Provider!TypeOK, Provider!Failures
<1> QED
  BY <1>1, <1>3, <1>5, RequestNumbers DEF RequestInv, Provider!SentIsRecorded, BudgetInv, WelcomeInv

\* The delay before the next attempt: a number, and not less than the header.
LEMMA PowerOfTwo == \A n \in 0 .. 10 : 2 ^ n \in Nat
<1> SUFFICES ASSUME NEW n \in 0 .. 10 PROVE 2 ^ n \in Nat
  OBVIOUS
<1> DEFINE power(k) == 2 ^ k
<1>1. /\ power(0) = 1 /\ power(1) = 2 /\ power(2) = 4 /\ power(3) = 8 /\ power(4) = 16 /\ power(5) = 32
      /\ power(6) = 64 /\ power(7) = 128 /\ power(8) = 256 /\ power(9) = 512 /\ power(10) = 1024
  OBVIOUS
<1>2. \/ n = 0 \/ n = 1 \/ n = 2 \/ n = 3 \/ n = 4 \/ n = 5
      \/ n = 6 \/ n = 7 \/ n = 8 \/ n = 9 \/ n = 10
  OBVIOUS
<1> HIDE DEF power
<1>3. power(n) \in Nat
  BY <1>1, <1>2
<1> QED
  BY <1>3 DEF power

LEMMA DelayIsLongEnough ==
    ASSUME attempt \in 0 .. 10, response \in Provider!Responses \cup {Provider!NoResponse}, NEW delay \in Provider!Delays
    PROVE  delay \in Nat /\ (response.header # -1 => delay >= response.header)
<1>1. 2 ^ attempt \in Nat
  BY PowerOfTwo
<1> DEFINE power == 2 ^ attempt
<1> DEFINE exponential == IF RetryMax < RetryInitial * power THEN RetryMax ELSE RetryInitial * power
<1>2. RetryInitial * power \in Nat
  BY <1>1, RequestNumbers
<1>3. Provider!Exponential = exponential /\ exponential \in Nat
  BY <1>2, RequestNumbers DEF Provider!Exponential, Provider!LeastOf
<1> HIDE DEF power, exponential
<1>4. exponential \div 2 \in Nat
  BY <1>3
<1>5. response.header \in Nat \cup {-1}
  BY ResponseFields, RequestNumbers
<1>6. PICK d \in (exponential \div 2) .. exponential :
        delay = IF response.header # -1 /\ response.header > d THEN response.header ELSE d
  BY <1>3, RequestNumbers DEF Provider!Delays
<1>7. d \in Nat
  BY <1>3, <1>4, <1>6
<1> QED
  BY <1>5, <1>6, <1>7

LEMMA RequestStep == ASSUME RequestInv, [Provider!Next]_ofRequest PROVE RequestInv'
<1> USE RequestNumbers DEF Provider!history
<1>t. Provider!TypeOK /\ Provider!SentIsRecorded /\ BudgetInv /\ WelcomeInv
  BY DEF RequestInv
<1>c. /\ counted \in Provider!Usage /\ recorded \in Provider!Usage
      /\ counted.attempts \in Nat /\ counted.unknown \in Nat /\ counted.tokens \in Nat
      /\ recorded.attempts \in Nat /\ recorded.unknown \in Nat /\ recorded.tokens \in Nat
      /\ counted.unknown <= counted.attempts
  <2>1. counted \in Provider!Usage /\ recorded \in Provider!Usage /\ counted.unknown <= counted.attempts
    BY <1>t DEF Provider!TypeOK, BudgetInv
  <2> QED
    BY <2>1, CountFields
<1>f. Provider!StopReason \in Provider!Failures
  BY DEF Provider!StopReason, Provider!Failures
<1>1. CASE Provider!Reserve
  <2>0. pc = "next" /\ recorded = counted /\ pc' \in {"reserved", "ended"}
        /\ UNCHANGED <<clock, revoked, request, attempt, response, wake, sent, notBefore, sentStopped>>
    BY <1>1, <1>t DEF Provider!Reserve, Provider!Raise, BudgetInv
  <2>1. CASE UNCHANGED <<counted, recorded>> /\ pc' = "ended" /\ result' \in Provider!Failures
    <3>1. Provider!TypeOK'
      BY <1>t, <2>0, <2>1 DEF Provider!TypeOK
    <3> QED
      BY <1>t, <2>0, <2>1, <3>1 DEF RequestInv, Provider!SentIsRecorded, BudgetInv, WelcomeInv, Provider!Stopped
  <2>2. CASE counted.attempts < MaxProviderCalls /\ ~Provider!Stopped
             /\ \/ counted' = Provider!Attempted /\ recorded' = Provider!Attempted /\ pc' = "reserved" /\ UNCHANGED result
                \/ UNCHANGED counted /\ recorded' \in {counted, Provider!Attempted}
                   /\ pc' = "ended" /\ result' = "not_recorded"
    <3>1. /\ Provider!Attempted \in Provider!Usage
          /\ Provider!Attempted.attempts = counted.attempts + 1 /\ Provider!Attempted.unknown = counted.unknown + 1
          /\ Provider!Attempted.tokens = counted.tokens
      BY <1>c, <2>2, Attempting
    <3>2. result' \in Provider!Failures \cup {"none", "done"}
      BY <1>t, <2>2 DEF Provider!TypeOK, Provider!Failures
    <3>3. counted' \in Provider!Usage /\ recorded' \in Provider!Usage
      BY <1>c, <2>2, <3>1
    <3>4. Provider!TypeOK'
      BY <1>t, <2>0, <3>2, <3>3 DEF Provider!TypeOK
    <3>5. Provider!SentIsRecorded' /\ BudgetInv'
      <4>1. sent \in Nat /\ counted.attempts = sent /\ request < Requests
        BY <1>t, <2>0 DEF Provider!TypeOK, Provider!SentIsRecorded, BudgetInv
      <4>2. CASE counted' = Provider!Attempted /\ recorded' = Provider!Attempted /\ pc' = "reserved"
        BY <1>c, <2>0, <2>2, <3>1, <4>1, <4>2 DEF Provider!SentIsRecorded, BudgetInv
      <4>3. CASE UNCHANGED counted /\ recorded' \in {counted, Provider!Attempted} /\ pc' = "ended"
        BY <1>c, <2>0, <2>2, <3>1, <4>1, <4>3 DEF Provider!SentIsRecorded, BudgetInv
      <4> QED
        BY <2>2, <4>2, <4>3
    <3>6. WelcomeInv'
      BY <1>t, <2>0 DEF WelcomeInv, Provider!Stopped
    <3> QED
      BY <3>4, <3>5, <3>6 DEF RequestInv
  <2>3. "budget_exhausted" \in Provider!Failures
    BY DEF Provider!Failures
  <2> QED
    BY <1>1, <1>f, <2>1, <2>2, <2>3 DEF Provider!Reserve, Provider!Raise
<1>2. CASE Provider!Dispatch
  <2>0. pc = "reserved" /\ recorded = counted /\ counted.unknown >= 1 /\ counted.attempts >= 1
        /\ UNCHANGED <<clock, revoked, request, attempt, response, wake, sent, notBefore, sentStopped>>
    BY <1>2, <1>t, <1>c DEF Provider!Dispatch, BudgetInv
  <2>1. CASE ~Provider!Stopped /\ pc' = "sending" /\ UNCHANGED <<counted, recorded, result>>
    <3>1. Provider!TypeOK'
      BY <1>t, <2>0, <2>1 DEF Provider!TypeOK
    <3> QED
      BY <1>t, <2>0, <2>1, <3>1 DEF RequestInv, Provider!SentIsRecorded, BudgetInv, WelcomeInv, Provider!Stopped
  <2>2. CASE /\ counted' = Provider!Unattempted /\ recorded' \in {recorded, Provider!Unattempted}
             /\ pc' = "ended" /\ result' = Provider!StopReason
    <3>1. /\ Provider!Unattempted \in Provider!Usage
          /\ Provider!Unattempted.attempts = counted.attempts - 1 /\ Provider!Unattempted.unknown = counted.unknown - 1
          /\ Provider!Unattempted.tokens = counted.tokens
      BY <1>c, <2>0, TakingBack
    <3>2. counted' \in Provider!Usage /\ recorded' \in Provider!Usage
      BY <1>c, <2>2, <3>1
    <3>3. Provider!TypeOK'
      BY <1>t, <1>f, <2>0, <2>2, <3>2 DEF Provider!TypeOK
    <3>4. Provider!SentIsRecorded' /\ BudgetInv'
      <4>1. sent \in Nat /\ counted.attempts = sent + 1 /\ MaxProviderCalls >= counted.attempts
        BY <1>t, <2>0 DEF Provider!TypeOK, Provider!SentIsRecorded
      <4>2. recorded'.attempts \in {sent, sent + 1} /\ recorded'.tokens = counted.tokens
            /\ recorded'.unknown >= counted.unknown - 1
        BY <1>c, <2>0, <2>2, <3>1, <4>1
      <4> QED
        BY <1>c, <2>0, <2>2, <3>1, <4>1, <4>2 DEF Provider!SentIsRecorded, BudgetInv
    <3>5. WelcomeInv'
      BY <1>t, <2>0, <2>2 DEF WelcomeInv, Provider!Stopped
    <3> QED
      BY <3>3, <3>4, <3>5 DEF RequestInv
  <2> QED
    BY <1>2, <2>1, <2>2 DEF Provider!Dispatch, Provider!Raise
<1>3. CASE Provider!Send
  <2>0. pc = "sending" /\ pc' = "sent" /\ sent' = sent + 1
        /\ sentStopped' = sentStopped + (IF Provider!Stopped THEN 1 ELSE 0)
        /\ UNCHANGED <<clock, revoked, request, attempt, counted, recorded, response, wake, result, notBefore>>
    BY <1>3 DEF Provider!Send
  <2>1. sent \in Nat /\ sentStopped \in Nat /\ sentStopped = 0
    BY <1>t, <2>0 DEF Provider!TypeOK, WelcomeInv
  <2>2. Provider!TypeOK'
    BY <1>t, <2>0, <2>1 DEF Provider!TypeOK
  <2>3. Provider!SentIsRecorded' /\ BudgetInv'
    BY <1>t, <1>c, <2>0, <2>1 DEF Provider!SentIsRecorded, BudgetInv
  <2>4. WelcomeInv'
    BY <1>t, <2>0, <2>1 DEF WelcomeInv, Provider!Stopped
  <2> QED
    BY <2>2, <2>3, <2>4 DEF RequestInv
<1>4. CASE Provider!Answer
  <2>0. pc = "sent" /\ pc' = "answered" /\ response' \in Provider!Responses
        /\ notBefore' = (IF response'.header = Provider!NoHeader THEN 0 ELSE clock + response'.header)
        /\ UNCHANGED <<clock, revoked, request, attempt, counted, recorded, wake, result, sent, sentStopped>>
    BY <1>4 DEF Provider!Answer
  <2>1. response'.header \in RetryAfters \cup {-1} /\ clock \in Nat
    BY <1>t, <2>0, ResponseFields DEF Provider!TypeOK
  <2>2. notBefore' \in Nat
    <3>1. CASE response'.header = -1
      BY <2>0, <3>1
    <3>2. CASE response'.header # -1
      <4>1. response'.header \in Nat
        BY <2>1, <3>2
      <4>2. notBefore' = clock + response'.header
        BY <2>0, <3>2
      <4> QED
        BY <2>1, <4>1, <4>2
    <3> QED
      BY <3>1, <3>2
  <2>3. Provider!TypeOK'
    BY <1>t, <2>0, <2>2 DEF Provider!TypeOK
  <2>4. Provider!SentIsRecorded' /\ BudgetInv'
    BY <1>t, <1>c, <2>0 DEF Provider!SentIsRecorded, BudgetInv
  <2>5. WelcomeInv'
    BY <1>t, <2>0, <2>1, <2>2 DEF WelcomeInv, Provider!Stopped
  <2> QED
    BY <2>3, <2>4, <2>5 DEF RequestInv
<1>5. CASE Provider!Judge
  <2>0. pc = "answered" /\ recorded = counted /\ counted.unknown >= 1
        /\ UNCHANGED <<clock, revoked, request, attempt, response, wake, sent, notBefore, sentStopped>>
    BY <1>5, <1>t DEF Provider!Judge, BudgetInv
  <2>1. response \in Provider!Responses \cup {Provider!NoResponse}
    BY <1>t DEF Provider!TypeOK
  <2>2. response.header \in RetryAfters \cup {-1} /\ response.usage \in Usages \cup {-1}
        /\ (response.kind \in {"valid", "invalid"} => response.header = -1)
    BY <2>1, ResponseFields
  <2>3. PICK outcome \in Provider!Failures \cup {"none"}, next \in {"succeeded", "ended", "failed"} :
          /\ Provider!RecordUsage(outcome, next)
          /\ next = "succeeded" => response.kind = "valid" /\ ~Provider!Stopped
    <3>1. "invalid_response" \in Provider!Failures /\ "refused" \in Provider!Failures
      BY DEF Provider!Failures
    <3> QED
      BY <1>5, <1>f, <3>1 DEF Provider!Judge
  <2>4. CASE UNCHANGED <<counted, recorded>> /\ pc' = next /\ result' = outcome
    <3>1. Provider!TypeOK'
      BY <1>t, <2>0, <2>4 DEF Provider!TypeOK
    <3>2. Provider!SentIsRecorded' /\ BudgetInv'
      BY <1>t, <1>c, <2>0, <2>4 DEF Provider!SentIsRecorded, BudgetInv
    <3>3. WelcomeInv'
      BY <1>t, <2>0, <2>2, <2>3, <2>4 DEF WelcomeInv, Provider!Stopped
    <3> QED
      BY <3>1, <3>2, <3>3 DEF RequestInv
  <2>5. CASE /\ response.usage # -1 /\ counted' = Provider!Measured(response.usage)
             /\ \/ recorded' = counted' /\ pc' = next /\ result' = outcome
                \/ UNCHANGED recorded /\ pc' = "ended" /\ result' = "not_recorded"
    <3>1. response.usage \in Nat
      BY <2>2, <2>5
    <3>2. /\ counted' \in Provider!Usage /\ counted'.attempts = counted.attempts
          /\ counted'.unknown = counted.unknown - 1 /\ counted'.tokens = counted.tokens + response.usage
      BY <1>c, <2>0, <2>5, <3>1, Measuring
    <3>3. recorded' \in Provider!Usage
      BY <1>c, <2>5, <3>2
    <3>4. result' \in Provider!Failures \cup {"none", "done"} /\ pc' \in {"succeeded", "ended", "failed"}
      BY <2>5 DEF Provider!Failures
    <3>5. Provider!TypeOK'
      BY <1>t, <2>0, <3>2, <3>3, <3>4 DEF Provider!TypeOK
    <3>6. Provider!SentIsRecorded' /\ BudgetInv'
      BY <1>t, <1>c, <2>0, <2>5, <3>1, <3>2, <3>4 DEF Provider!SentIsRecorded, BudgetInv
    <3>7. WelcomeInv'
      BY <1>t, <2>0, <2>2, <2>3, <2>5 DEF WelcomeInv, Provider!Stopped
    <3> QED
      BY <3>5, <3>6, <3>7 DEF RequestInv
  <2> QED
    BY <2>3, <2>4, <2>5 DEF Provider!RecordUsage, Provider!Raise
<1>6. CASE Provider!Succeed
  <2>0. pc = "succeeded" /\ attempt' = 0 /\ request' = request + 1
        /\ UNCHANGED <<clock, revoked, counted, recorded, response, wake, sent, notBefore, sentStopped>>
        /\ \/ request + 1 = Requests /\ pc' = "ended" /\ result' = "done"
           \/ request + 1 # Requests /\ pc' = "next" /\ UNCHANGED result
    BY <1>6 DEF Provider!Succeed, Provider!Raise
  <2>1. request \in Nat /\ request' \in 0 .. Requests /\ clock \in Nat
    BY <1>t, <2>0 DEF Provider!TypeOK, BudgetInv
  <2>2. Provider!TypeOK'
    BY <1>t, <2>0, <2>1 DEF Provider!TypeOK
  <2>3. Provider!SentIsRecorded' /\ BudgetInv'
    BY <1>t, <1>c, <2>0, <2>1 DEF Provider!SentIsRecorded, BudgetInv
  <2>4. WelcomeInv'
    BY <1>t, <2>0, <2>1 DEF WelcomeInv, Provider!Stopped
  <2> QED
    BY <2>2, <2>3, <2>4 DEF RequestInv
<1>7. CASE Provider!Retry
  <2>0. pc = "failed" /\ UNCHANGED <<clock, revoked, request, attempt, counted, recorded, response, sent, notBefore, sentStopped>>
    BY <1>7 DEF Provider!Retry
  <2>1. CASE pc' = "ended" /\ result' \in Provider!Failures /\ UNCHANGED wake
    <3>1. Provider!TypeOK'
      BY <1>t, <2>0, <2>1 DEF Provider!TypeOK
    <3> QED
      BY <1>t, <2>0, <2>1, <3>1 DEF RequestInv, Provider!SentIsRecorded, BudgetInv, WelcomeInv, Provider!Stopped
  <2>2. ASSUME NEW delay \in Provider!Delays, delay < Deadline - clock, attempt < MaxRetries,
               wake' = clock + delay, pc' = "pausing", UNCHANGED result
        PROVE  RequestInv'
    <3>1. /\ attempt \in 0 .. 10 /\ response \in Provider!Responses \cup {Provider!NoResponse} /\ clock \in Nat
          /\ notBefore \in Nat
      BY <1>t DEF Provider!TypeOK
    <3>2. delay \in Nat /\ (response.header # -1 => delay >= response.header)
      BY <3>1, DelayIsLongEnough
    <3>3. response.header \in Nat \cup {-1}
      BY <3>1, ResponseFields
    <3>4. wake' \in 0 .. Deadline
      BY <2>2, <3>1, <3>2
    <3>5. wake' >= notBefore
      BY <1>t, <2>0, <2>2, <3>1, <3>2, <3>3 DEF WelcomeInv
    <3>6. Provider!TypeOK'
      BY <1>t, <2>0, <2>2, <3>4 DEF Provider!TypeOK
    <3>7. Provider!SentIsRecorded' /\ BudgetInv'
      BY <1>t, <2>0, <2>2 DEF Provider!SentIsRecorded, BudgetInv
    <3>8. WelcomeInv'
      BY <1>t, <2>0, <2>2, <3>5 DEF WelcomeInv, Provider!Stopped
    <3> QED
      BY <3>6, <3>7, <3>8 DEF RequestInv
  <2>3. {"after_retries", "deadline_exhausted", "retry_after_limit"} \subseteq Provider!Failures
    BY DEF Provider!Failures
  <2>4. clock \in Nat /\ \A delay \in Provider!Delays : delay \in Nat
    <3>1. attempt \in 0 .. 10 /\ response \in Provider!Responses \cup {Provider!NoResponse} /\ clock \in Nat
      BY <1>t DEF Provider!TypeOK
    <3> QED
      BY <3>1, DelayIsLongEnough
  <2> QED
    BY <1>7, <1>f, <2>1, <2>2, <2>3, <2>4 DEF Provider!Retry, Provider!Raise
<1>8. CASE Provider!Wake
  <2>0. pc = "pausing" /\ (revoked \/ clock >= wake)
        /\ UNCHANGED <<clock, revoked, request, counted, recorded, response, wake, sent, notBefore, sentStopped>>
        /\ \/ pc' = "ended" /\ result' = Provider!StopReason /\ UNCHANGED attempt
           \/ ~Provider!Stopped /\ pc' = "next" /\ attempt' = attempt + 1 /\ UNCHANGED result
    BY <1>8 DEF Provider!Wake, Provider!Raise
  <2>1. attempt' \in 0 .. MaxRetries
    BY <1>t, <2>0 DEF Provider!TypeOK, BudgetInv
  <2>2. Provider!TypeOK'
    BY <1>t, <1>f, <2>0, <2>1 DEF Provider!TypeOK
  <2>3. Provider!SentIsRecorded' /\ BudgetInv'
    BY <1>t, <2>0 DEF Provider!SentIsRecorded, BudgetInv
  <2>4. clock \in Nat /\ wake \in Nat /\ notBefore \in Nat
    BY <1>t DEF Provider!TypeOK
  <2>5. WelcomeInv'
    BY <1>t, <2>0, <2>4 DEF WelcomeInv, Provider!Stopped
  <2> QED
    BY <2>2, <2>3, <2>5 DEF RequestInv
<1>9. CASE Provider!Cancel
  <2>0. revoked' = TRUE
        /\ UNCHANGED <<clock, pc, request, attempt, counted, recorded, response, wake, result, sent, notBefore, sentStopped>>
    BY <1>9 DEF Provider!Cancel
  <2>1. revoked' \in BOOLEAN
    BY <2>0
  <2>2. Provider!TypeOK'
    BY <1>t, <2>0, <2>1 DEF Provider!TypeOK
  <2> QED
    BY <1>t, <2>0, <2>2 DEF RequestInv, Provider!SentIsRecorded, BudgetInv, WelcomeInv, Provider!Stopped
<1>10. CASE Provider!Tick
  <2>0. pc # "ended" /\ clock < Horizon /\ clock' = clock + 1
        /\ UNCHANGED <<revoked, pc, request, attempt, counted, recorded, response, wake, result, sent, notBefore, sentStopped>>
    BY <1>10 DEF Provider!Tick
  <2>1. clock \in Nat /\ notBefore \in Nat /\ clock' \in 0 .. Horizon
        /\ response \in Provider!Responses \cup {Provider!NoResponse}
    BY <1>t, <2>0 DEF Provider!TypeOK
  <2>2. response.header \in Nat \cup {-1}
    BY <2>1, ResponseFields
  <2>3. Provider!TypeOK'
    BY <1>t, <2>0, <2>1 DEF Provider!TypeOK
  <2>4. Provider!SentIsRecorded' /\ BudgetInv'
    BY <1>t, <2>0 DEF Provider!SentIsRecorded, BudgetInv
  <2>5. WelcomeInv'
    BY <1>t, <2>0, <2>1, <2>2 DEF WelcomeInv, Provider!Stopped
  <2> QED
    BY <2>3, <2>4, <2>5 DEF RequestInv
<1>11. CASE UNCHANGED ofRequest
  BY <1>11, <1>t DEF ofRequest, RequestInv, Provider!TypeOK, Provider!SentIsRecorded, BudgetInv, WelcomeInv, Provider!Stopped
<1> QED
  BY <1>1, <1>2, <1>3, <1>4, <1>5, <1>6, <1>7, <1>8, <1>9, <1>10, <1>11 DEF Provider!Next, Provider!Progress

\* The step that sends is a welcome one.
LEMMA SendIsWelcome == ASSUME RequestInv, [Provider!Next]_ofRequest PROVE Provider!WelcomeSend
<1> SUFFICES ASSUME sent' > sent PROVE clock >= notBefore /\ sentStopped' <= 1
  BY DEF Provider!WelcomeSend
<1>1. sent \in Nat
  BY DEF RequestInv, Provider!TypeOK
<1>2. Provider!Send
  <2>1. Provider!Send \/ UNCHANGED sent
    BY DEF Provider!Next, Provider!Progress, Provider!Reserve, Provider!Dispatch, Provider!Answer, Provider!Judge,
           Provider!Succeed, Provider!Retry, Provider!Wake, Provider!Cancel, Provider!Tick, ofRequest, Provider!history
  <2> QED
    BY <1>1, <2>1
<1>3. clock >= notBefore
  BY <1>2 DEF Provider!Send, RequestInv, WelcomeInv
<1>4. RequestInv'
  BY RequestStep
<1> QED
  BY <1>3, <1>4 DEF RequestInv, WelcomeInv

(***************************************************************************)
(* The parts together.                                                     *)
(***************************************************************************)

ServingInv ==
    /\ ExecutorInv
    /\ part = "provider" => RequestInv
    /\ part = "reports" => ReportsInv

LEMMA ServingStarts == ServingInit => ServingInv
BY ExecutorStart, RequestStart, ReportsStart DEF ServingInit, ServingInv

\* A step of one part leaves the variables of the others alone.
LEMMA ServingStep ==
    ASSUME ServingInv, [ServingNext]_servingVars
    PROVE  /\ [Next]_vars
           /\ part' = part
           /\ part = "provider" => RequestInv /\ [Provider!Next]_ofRequest
           /\ part = "reports" => ReportsInv /\ [Reports!Next]_ofReports
<1>1. CASE InTools(Next)
  BY <1>1 DEF InTools, ServingInv
<1>2. CASE InProvider(Provider!Next)
  BY <1>2 DEF InProvider, ServingInv
<1>3. CASE InStore(Store!Next)
  BY <1>3 DEF InStore, ServingInv
<1>4. CASE InReports(Reports!Next)
  BY <1>4 DEF InReports, ServingInv
<1>5. CASE UNCHANGED servingVars
  BY <1>5 DEF servingVars, ServingInv
<1> QED
  BY <1>1, <1>2, <1>3, <1>4, <1>5 DEF ServingNext

LEMMA ServingKeeps == ServingInv /\ [ServingNext]_servingVars => ServingInv'
<1> SUFFICES ASSUME ServingInv, [ServingNext]_servingVars PROVE ServingInv'
  OBVIOUS
<1>1. ExecutorInv'
  BY ServingStep, ExecutorStep DEF ServingInv
<1>2. part' = "provider" => RequestInv'
  BY ServingStep, RequestStep
<1>3. part' = "reports" => ReportsInv'
  BY ServingStep, ReportsStep
<1> QED
  BY <1>1, <1>2, <1>3 DEF ServingInv

\* Every reachable state satisfies the invariants of its part.
THEOREM ServingInvariance == ServingSpec => []ServingInv
BY ServingStarts, ServingKeeps, PTL DEF ServingSpec

\* Every attempt that has left is on the durable record and within the accepted
\* number, its usage unknown until it is measured; none is sent before the time
\* that the provider asked for, and at most one after the end
\* (reserve_provider_call of operations.py, _request_with_retry).
THEOREM RequestSafety == ServingSpec => CallsAreWelcomeAndRecorded
<1>1. ASSUME ServingInv, [ServingNext]_servingVars
      PROVE  part = "provider" => Provider!TypeOK' /\ Provider!SentIsRecorded' /\ Provider!WelcomeSend
  <2> SUFFICES ASSUME part = "provider"
               PROVE  Provider!TypeOK' /\ Provider!SentIsRecorded' /\ Provider!WelcomeSend
    OBVIOUS
  <2>1. RequestInv /\ [Provider!Next]_ofRequest
    BY <1>1, ServingStep
  <2>2. RequestInv' /\ Provider!WelcomeSend
    BY <2>1, RequestStep, SendIsWelcome
  <2> QED
    BY <2>2 DEF RequestInv
<1> QED
  BY <1>1, ServingInvariance, PTL DEF ServingSpec, CallsAreWelcomeAndRecorded

\* Whatever the disk does, a reader is given fragments of the report that was
\* sealed, each in its place, and nothing of a report stays after its purge
\* (report_manifest, report_part and purge_expired of storage/evaluation_jobs.py).
THEOREM ReportSafety == ServingSpec => []ReportsAreSealed
<1>1. ServingInv => ReportsAreSealed
  BY DEF ServingInv, ReportsInv, ReportsAreSealed
<1> QED
  BY <1>1, ServingInvariance, PTL

\* The calls stay accounted for beside the other parts.
THEOREM ServingCallSafety == ServingSpec => []CallsAreAccounted
<1>1. ServingInv => CallsAreAccounted
  BY CallsFollow DEF ServingInv
<1> QED
  BY <1>1, ServingInvariance, PTL

=============================================================================
