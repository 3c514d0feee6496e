---------------------------- MODULE ToolExecutor ----------------------------
(***************************************************************************)
(* The tool executor of an MCP server and the shutdown of the server:      *)
(* _ToolExecutor, _run_sync_until_complete and the lifespan in             *)
(* interfaces/mcp.py, NVIDIAClients in providers/lifecycle.py.             *)
(*                                                                         *)
(* Each tool call is a task of the event loop that is admitted under a     *)
(* lock, hands its work to a thread of a limited pool, and leaves under    *)
(* the same lock once the thread has returned, also when its client has    *)
(* disconnected meanwhile.  Hosted work reserves a slot in the operations  *)
(* database for its time on the thread.  Shutdown refuses new calls,       *)
(* cancels the budgets of the others, waits on a thread of another pool    *)
(* until they have left, closes what they shared, and at last the          *)
(* evaluation worker that a call may have started.                         *)
(*                                                                         *)
(* Abstracted: what a call computes is a number of uses of the shared      *)
(* clients; deadlines and errors of any kind end it at any step; the       *)
(* database may refuse a reservation for reasons of its own.               *)
(***************************************************************************)
EXTENDS Naturals, FiniteSets, FiniteSetsExt

CONSTANTS
    Calls,
    Principals, NoPrincipal,
    PrincipalOf,     \* Calls -> principal, or NoPrincipal for a local server
    Submitters,      \* the calls that submit evaluation jobs
    Capacity,        \* mcp_max_concurrent_operations
    PrincipalLimit,  \* mcp_max_concurrent_operations_per_principal
    MaxUses          \* bound: uses of the shared clients by one call

ASSUME ExecutorAssumption ==
    /\ NoPrincipal \notin Principals
    /\ PrincipalOf \in [Calls -> Principals \cup {NoPrincipal}]
    /\ IsFiniteSet(Calls) /\ Submitters \subseteq Calls /\ MaxUses \in Nat
    /\ Capacity \in Nat \ {0} /\ PrincipalLimit \in Nat \ {0}

VARIABLES
    stage,      \* Calls -> where the call is
    uses,       \* Calls -> uses of the shared clients so far
    cancelled,  \* Calls -> budget.cancelled
    permits,    \* _admission
    principals, \* _principal_active
    budgets,    \* _budgets
    closed,     \* _closed
    drained,    \* _drained
    shutdown,   \* position of the lifespan's exit
    clients,    \* the shared clients
    usage,      \* _operation_usage and its store
    active,     \* calls whose row in the operations database holds a slot
    leaked,     \* calls whose terminal write has failed
    jobs        \* server.jobs

vars == <<stage, uses, cancelled, permits, principals, budgets, closed, drained,
          shutdown, clients, usage, active, leaked, jobs>>

shared == <<clients, usage, jobs>>
admission == <<permits, principals, budgets, closed, drained, shutdown>>

OnThread == {"charging", "running", "settling"}
Stages == OnThread \cup {"idle", "refused", "admitted", "returned", "answered"}

Charged(c) == PrincipalOf[c] # NoPrincipal /\ c \notin Submitters

Init ==
    /\ stage = [c \in Calls |-> "idle"]
    /\ uses = [c \in Calls |-> 0]
    /\ cancelled = [c \in Calls |-> FALSE]
    /\ permits = Capacity
    /\ principals = [p \in Principals |-> 0]
    /\ budgets = {} /\ closed = FALSE /\ drained = TRUE
    /\ shutdown = "serving"
    /\ clients = "open" /\ usage = "none" /\ jobs = "none"
    /\ active = {} /\ leaked = {}

Go(c, next) == stage' = [stage EXCEPT ![c] = next]

-----------------------------------------------------------------------------
(* Admission.                                                              *)

Occupied(c) == PrincipalOf[c] \in Principals /\ principals[PrincipalOf[c]] >= PrincipalLimit

Count(c, d) ==
    principals' = [p \in Principals |->
        IF p # PrincipalOf[c] THEN principals[p] ELSE IF d = "in" THEN principals[p] + 1 ELSE principals[p] - 1]

\* server_shutting_down, principal_busy, server_busy.
Refused(c) == closed \/ Occupied(c) \/ permits = 0

\* run, under _lock: the call is refused, or takes its slots and a budget.
Enter(c) ==
    /\ stage[c] = "idle"
    /\ \/ /\ Refused(c)
          /\ Go(c, "refused")
          /\ UNCHANGED admission
       \/ /\ ~Refused(c)
          /\ Go(c, "admitted")
          /\ permits' = permits - 1
          /\ Count(c, "in")
          /\ budgets' = budgets \cup {c}
          /\ drained' = FALSE
          /\ UNCHANGED <<closed, shutdown>>
    /\ UNCHANGED <<uses, cancelled, active, leaked, shared>>

\* Mutant of Leave: who disconnected early gives back the permit alone.
LeaveUncounted(c) ==
    /\ stage[c] = "returned"
    /\ Go(c, "answered")
    /\ budgets' = budgets \ {c}
    /\ IF cancelled[c] THEN UNCHANGED principals ELSE Count(c, "out")
    /\ permits' = permits + 1
    /\ drained' = (drained \/ budgets' = {})
    /\ UNCHANGED <<uses, cancelled, closed, shutdown, active, leaked, shared>>

\* Mutant of Leave: it looks for others before it has left.
LeaveSwapped(c) ==
    /\ stage[c] = "returned"
    /\ Go(c, "answered")
    /\ drained' = (drained \/ budgets = {})
    /\ budgets' = budgets \ {c}
    /\ Count(c, "out")
    /\ permits' = permits + 1
    /\ UNCHANGED <<uses, cancelled, closed, shutdown, active, leaked, shared>>

\* The finally of run, under _lock, once the thread has returned.
Leave(c) ==
    /\ stage[c] = "returned"
    /\ Go(c, "answered")
    /\ budgets' = budgets \ {c}
    /\ Count(c, "out")
    /\ permits' = permits + 1
    /\ drained' = (drained \/ budgets' = {})
    /\ UNCHANGED <<uses, cancelled, closed, shutdown, active, leaked, shared>>

\* The client is gone: the budget is cancelled and the thread awaited all the same.
Disconnect(c) ==
    /\ stage[c] \in OnThread \cup {"admitted"} /\ ~cancelled[c]
    /\ cancelled' = [cancelled EXCEPT ![c] = TRUE]
    /\ UNCHANGED <<stage, uses, active, leaked, admission, shared>>

-----------------------------------------------------------------------------
(* On the thread.                                                          *)

\* The limiter _workers.
FreeThreads == Capacity - Quantify(Calls, LAMBDA c : stage[c] \in OnThread)

\* run_owned: cancelled or late work ends at once; the first charged call
\* creates the usage service and its store.
Begin(c) ==
    /\ stage[c] = "admitted" /\ FreeThreads > 0
    /\ \/ Go(c, "returned") /\ UNCHANGED usage
       \/ /\ ~cancelled[c]
          /\ IF Charged(c)
             THEN Go(c, "charging") /\ usage' = IF usage = "none" THEN "open" ELSE usage
             ELSE Go(c, "running") /\ UNCHANGED usage
    /\ UNCHANGED <<uses, cancelled, clients, jobs, active, leaked, admission>>

\* OperationAdmissionService.run: the reservation, after the readiness check.
Charge(c) ==
    /\ stage[c] = "charging"
    /\ \/ Go(c, "returned") /\ UNCHANGED active
       \/ ~cancelled[c] /\ Go(c, "running") /\ active' = active \cup {c}
    /\ UNCHANGED <<uses, cancelled, leaked, admission, shared>>

\* A provider request with a borrowed client, between two budget checks.
UseClient(c) ==
    /\ stage[c] = "running" /\ ~cancelled[c] /\ clients = "open" /\ uses[c] < MaxUses
    /\ uses' = [uses EXCEPT ![c] = @ + 1]
    /\ UNCHANGED <<stage, cancelled, active, leaked, admission, shared>>

\* eval_submit starts the evaluation worker of the server if there is none.
StartJobs(c) ==
    /\ stage[c] = "running" /\ c \in Submitters /\ jobs = "none"
    /\ jobs' = "started"
    /\ UNCHANGED <<stage, uses, cancelled, clients, usage, active, leaked, admission>>

\* The operation returns or raises.
EndWork(c) ==
    /\ stage[c] = "running"
    /\ Go(c, IF Charged(c) THEN "settling" ELSE "returned")
    /\ UNCHANGED <<uses, cancelled, active, leaked, admission, shared>>

\* _execute's finally: the terminal outcome, or a failure that is remembered.
Settle(c) ==
    /\ stage[c] = "settling"
    /\ Go(c, "returned")
    /\ \/ active' = active \ {c} /\ UNCHANGED leaked
       \/ leaked' = leaked \cup {c} /\ UNCHANGED active
    /\ UNCHANGED <<uses, cancelled, admission, shared>>

-----------------------------------------------------------------------------
(* Shutdown.                                                               *)

\* close: under _lock, every live budget is cancelled.
Close ==
    /\ shutdown = "serving"
    /\ closed' = TRUE
    /\ cancelled' = [c \in Calls |-> cancelled[c] \/ c \in budgets]
    /\ shutdown' = "draining"
    /\ UNCHANGED <<stage, uses, permits, principals, budgets, drained, active, leaked, shared>>

\* drain_and_close: wait for _drained, then NVIDIAClients.close.
CloseClients ==
    /\ shutdown = "draining" /\ drained
    /\ clients' = "closed" /\ shutdown' = "clients_closed"
    /\ UNCHANGED <<stage, uses, cancelled, permits, principals, budgets, closed, drained,
                   usage, active, leaked, jobs>>

\* store.close, which keeps the owner lease while a row of it is active.
CloseUsage ==
    /\ shutdown = "clients_closed"
    /\ usage' = IF usage = "none" THEN "none" ELSE IF active = {} THEN "released" ELSE "retained"
    /\ shutdown' = "usage_closed"
    /\ UNCHANGED <<stage, uses, cancelled, permits, principals, budgets, closed, drained,
                   clients, active, leaked, jobs>>

\* The lifespan closes the evaluation worker last.
CloseJobs ==
    /\ shutdown = "usage_closed"
    /\ jobs' = IF jobs = "started" THEN "closed" ELSE jobs
    /\ shutdown' = "stopped"
    /\ UNCHANGED <<stage, uses, cancelled, permits, principals, budgets, closed, drained,
                   clients, usage, active, leaked>>

OnLoop(c) == Enter(c) \/ Leave(c) \/ Disconnect(c)
Thread(c) == Begin(c) \/ Charge(c) \/ UseClient(c) \/ StartJobs(c) \/ EndWork(c) \/ Settle(c)
Shutdown == Close \/ CloseClients \/ CloseUsage \/ CloseJobs

Next == (\E c \in Calls : OnLoop(c) \/ Thread(c)) \/ Shutdown

\* The event loop and the threads run; a call ends because its uses are bounded
\* by the provider-call budget, the deadline and the retries of a request.
Fairness ==
    /\ \A c \in Calls : WF_vars(Thread(c) \/ Leave(c))
    /\ WF_vars(CloseClients \/ CloseUsage \/ CloseJobs)

Spec == Init /\ [][Next]_vars
FairSpec == Spec /\ Fairness

-----------------------------------------------------------------------------
(* Properties.                                                             *)

TypeOK ==
    /\ stage \in [Calls -> Stages]
    /\ uses \in [Calls -> 0 .. MaxUses] /\ cancelled \in [Calls -> BOOLEAN]
    /\ permits \in 0 .. Capacity /\ principals \in [Principals -> 0 .. PrincipalLimit]
    /\ budgets \subseteq Calls /\ active \subseteq Calls /\ leaked \subseteq Calls
    /\ closed \in BOOLEAN /\ drained \in BOOLEAN
    /\ shutdown \in {"serving", "draining", "clients_closed", "usage_closed", "stopped"}
    /\ clients \in {"open", "closed"} /\ usage \in {"none", "open", "released", "retained"}
    /\ jobs \in {"none", "started", "closed"}

\* Between admission and the answer a call holds exactly one slot of the server
\* and one of its principal, on every path; an admitted call never waits for a
\* thread, and a row that holds a slot in the database belongs to a call on a
\* thread or to a failed terminal write.
SlotsMatchCalls ==
    LET inside == {c \in Calls : stage[c] \in OnThread \cup {"admitted", "returned"}}
    IN  /\ budgets = inside
        /\ permits + Cardinality(inside) = Capacity
        /\ \A p \in Principals : principals[p] = Cardinality({c \in inside : PrincipalOf[c] = p})
        /\ drained <=> inside = {}
        /\ \A c \in Calls : stage[c] = "admitted" => FreeThreads > 0
        /\ \A c \in active : stage[c] \in {"running", "settling"} \/ c \in leaked

\* What calls share is closed only when none of them is left that could use it,
\* none can come, and the lease of the server's owner is given up only when no
\* row of it holds a slot; no evaluation worker outlives the server.
ClosedMeansQuiet ==
    shutdown \notin {"serving", "draining"} =>
        /\ \A c \in Calls : stage[c] \in {"idle", "refused", "answered"}
        /\ usage = "released" => active = {}
        /\ shutdown = "stopped" => jobs # "started" /\ usage # "open"

\* What the calls hold is accounted for, while they run and when the server stops.
CallsAreAccounted == TypeOK /\ SlotsMatchCalls /\ ClosedMeansQuiet

\* A shutdown that has begun ends, and every admitted call is answered.
ShutdownEnds == (shutdown = "draining") ~> (shutdown = "stopped")
CallsAreAnswered == \A c \in Calls : (stage[c] = "admitted") ~> (stage[c] = "answered")
ShutdownCompletes == ShutdownEnds /\ CallsAreAnswered

=============================================================================
