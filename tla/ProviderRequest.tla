--------------------------- MODULE ProviderRequest ---------------------------
(***************************************************************************)
(* Provider requests of one operation under its budget: OperationBudget in *)
(* operations.py, _request_with_retry and its callers in providers/nvidia.py.*)
(*                                                                         *)
(* An operation makes several requests one after the other (the batches of *)
(* an embedding, then a ranking, a generation).  Each is tried a bounded   *)
(* number of times.  An attempt is recorded before it is sent and taken    *)
(* back if it turns out not to be sent; its tokens are recorded when it    *)
(* has returned.  Deadline and cancellation are shared by all attempts and *)
(* by the pauses between them.                                             *)
(*                                                                         *)
(* Time is counted in units; a thread may be delayed for any time between  *)
(* any two steps, and a request may take longer than its timeout.          *)
(***************************************************************************)
EXTENDS Integers, FiniteSetsExt

CONSTANTS
    Requests,         \* bound: requests of the operation
    MaxRetries,       \* nvidia_max_retries
    MaxProviderCalls, \* max_provider_calls, which is positive
    Deadline,         \* operation_timeout_seconds; the operation begins at 0
    Horizon,          \* bound: the clock stops here, after the deadline
    RetryInitial, RetryMax, \* retry_initial_seconds, retry_max_seconds
    RetryAfters,      \* what a provider may ask for in a Retry-After header
    Usages            \* what usage.total_tokens may be

RequestAssumption ==
    /\ MaxRetries \in 0 .. 10 /\ MaxProviderCalls \in Nat \ {0} /\ Requests \in Nat \ {0}
    /\ Deadline \in Nat \ {0} /\ Horizon \in Nat /\ Horizon >= Deadline
    /\ RetryInitial \in Nat \ {0} /\ RetryMax \in Nat \ {0}
    /\ RetryAfters \subseteq Nat /\ Usages \subseteq Nat

VARIABLES
    clock,
    cancelled,  \* budget.cancelled
    pc,         \* position in the operation
    request,    \* requests that have succeeded
    attempt,    \* attempt of _request_with_retry
    counted,    \* [attempts, unknown, tokens]: provider_attempts,
                \*   unavailable_usage_attempts, measured_tokens
    recorded,   \* what the usage callback has last made durable
    response,   \* what the provider has answered
    wake,       \* when the pause ends
    result,     \* what the operation returns or raises
    sent,       \* history: attempts that have left
    notBefore,  \* history: when the provider accepts the next attempt
    sentStopped \* history: attempts sent although the operation was to stop

vars == <<clock, cancelled, pc, request, attempt, counted, recorded, response, wake, result,
          sent, notBefore, sentStopped>>

history == <<sent, notBefore, sentStopped>>

NoUsage == -1
NoHeader == -1
NoResponse == [kind |-> "none", usage |-> NoUsage, header |-> NoHeader]
Responses ==
    [kind : {"valid", "invalid"}, usage : Usages \cup {NoUsage}, header : {NoHeader}]
    \cup [kind : {"refused", "interrupted"}, usage : {NoUsage}, header : {NoHeader}]
    \cup [kind : {"transient"}, usage : {NoUsage}, header : RetryAfters \cup {NoHeader}]
Failures == {"cancelled", "deadline_exhausted", "budget_exhausted", "not_recorded", "invalid_response",
             "refused", "after_retries", "retry_after_limit"}

Init ==
    /\ clock = 0 /\ cancelled = FALSE
    /\ pc = "next" /\ request = 0 /\ attempt = 0
    /\ counted = [attempts |-> 0, unknown |-> 0, tokens |-> 0] /\ recorded = counted
    /\ response = NoResponse /\ wake = 0 /\ result = "none"
    /\ sent = 0 /\ notBefore = 0 /\ sentStopped = 0

\* remaining raises.
Stopped == cancelled \/ clock >= Deadline
StopReason == IF cancelled THEN "cancelled" ELSE "deadline_exhausted"

Raise(failure) == pc' = "ended" /\ result' = failure

-----------------------------------------------------------------------------
(* Before an attempt.                                                      *)

Attempted == [counted EXCEPT !.attempts = @ + 1, !.unknown = @ + 1]
Unattempted == [counted EXCEPT !.attempts = @ - 1, !.unknown = @ - 1]

\* Mutant of Reserve: the attempt is recorded when it returns.
ReserveUnrecorded ==
    /\ pc = "next"
    /\ \/ Stopped /\ Raise(StopReason) /\ UNCHANGED counted
       \/ /\ ~Stopped /\ counted.attempts >= MaxProviderCalls
          /\ Raise("budget_exhausted") /\ UNCHANGED counted
       \/ /\ ~Stopped /\ counted.attempts < MaxProviderCalls
          /\ counted' = Attempted /\ pc' = "reserved" /\ UNCHANGED result
    /\ UNCHANGED <<clock, cancelled, request, attempt, recorded, response, wake, history>>

\* reserve_provider_call up to its second look at the clock.  A callback that
\* raises takes the attempt back, and from the record what it may have written.
Reserve ==
    /\ pc = "next"
    /\ \/ Stopped /\ Raise(StopReason) /\ UNCHANGED <<counted, recorded>>
       \/ /\ ~Stopped /\ counted.attempts >= MaxProviderCalls
          /\ Raise("budget_exhausted") /\ UNCHANGED <<counted, recorded>>
       \/ /\ ~Stopped /\ counted.attempts < MaxProviderCalls
          /\ \/ /\ counted' = Attempted /\ recorded' = Attempted
                /\ pc' = "reserved" /\ UNCHANGED result
             \/ /\ UNCHANGED counted
                /\ recorded' \in {counted, Attempted}
                /\ Raise("not_recorded")
    /\ UNCHANGED <<clock, cancelled, request, attempt, response, wake, history>>

\* The second look: the attempt goes out, or is taken back.
Dispatch ==
    /\ pc = "reserved"
    /\ \/ ~Stopped /\ pc' = "sending" /\ UNCHANGED <<counted, recorded, result>>
       \/ /\ Stopped
          /\ counted' = Unattempted
          /\ recorded' \in {recorded, Unattempted}
          /\ Raise(StopReason)
    /\ UNCHANGED <<clock, cancelled, request, attempt, response, wake, history>>

\* send: the request leaves.
Send ==
    /\ pc = "sending"
    /\ pc' = "sent"
    /\ sent' = sent + 1
    /\ sentStopped' = sentStopped + IF Stopped THEN 1 ELSE 0
    /\ UNCHANGED <<clock, cancelled, request, attempt, counted, recorded, response, wake, result, notBefore>>

-----------------------------------------------------------------------------
(* After an attempt.                                                       *)

\* The provider answers, at once or late; a timeout or a broken connection is
\* transient and carries no header, an interruption has no response.
Answer ==
    /\ pc = "sent"
    /\ response' \in Responses
    /\ pc' = "answered"
    /\ notBefore' = IF response'.header = NoHeader THEN 0 ELSE clock + response'.header
    /\ UNCHANGED <<clock, cancelled, request, attempt, counted, recorded, wake, result, sent, sentStopped>>

Measured(usage) == [counted EXCEPT !.unknown = @ - 1, !.tokens = @ + usage]

\* record_provider_usage in the finally; its error replaces what was to come.
RecordUsage(outcome, next) ==
    IF response.usage = NoUsage
    THEN /\ UNCHANGED <<counted, recorded>>
         /\ pc' = next /\ result' = outcome
    ELSE /\ counted' = Measured(response.usage)
         /\ \/ recorded' = counted' /\ pc' = next /\ result' = outcome
            \/ UNCHANGED recorded /\ Raise("not_recorded")

\* The classification of a response: success between two looks at the clock,
\* an error that is final, or one that may be tried again.
Judge ==
    /\ pc = "answered"
    /\ \/ /\ response.kind = "valid" /\ ~Stopped
          /\ RecordUsage("none", "succeeded")
       \/ /\ response.kind \in {"valid", "invalid"} /\ Stopped
          /\ RecordUsage(StopReason, "ended")
       \/ /\ response.kind = "invalid" /\ ~Stopped
          /\ RecordUsage("invalid_response", "ended")
       \/ /\ response.kind \in {"refused", "interrupted"}
          /\ RecordUsage("refused", "ended")
       \/ /\ response.kind = "transient"
          /\ RecordUsage("none", "failed")
    /\ UNCHANGED <<clock, cancelled, request, attempt, response, wake, history>>

\* The caller goes on to its next request, or returns.
Succeed ==
    /\ pc = "succeeded"
    /\ request' = request + 1 /\ attempt' = 0
    /\ IF request + 1 = Requests THEN Raise("done") ELSE pc' = "next" /\ UNCHANGED result
    /\ UNCHANGED <<clock, cancelled, counted, recorded, response, wake, history>>

LeastOf(a, b) == IF a < b THEN a ELSE b

\* The jittered exponential delay, never less than what the provider asks for.
Exponential == LeastOf(RetryMax, RetryInitial * 2 ^ attempt)

Delays ==
    {IF response.header # NoHeader /\ response.header > d THEN response.header ELSE d :
        d \in (Exponential \div 2) .. Exponential}

\* The rest of the loop's body: give up, or pause - a pause that the deadline
\* does not allow is refused at once.
Retry ==
    /\ pc = "failed"
    /\ \/ Stopped /\ Raise(StopReason) /\ UNCHANGED wake
       \/ ~Stopped /\ attempt >= MaxRetries /\ Raise("after_retries") /\ UNCHANGED wake
       \/ /\ ~Stopped /\ attempt < MaxRetries
          /\ IF response.header # NoHeader /\ response.header > RetryMax
             THEN /\ Raise(IF response.header >= Deadline - clock THEN "deadline_exhausted"
                           ELSE "retry_after_limit")
                  /\ UNCHANGED wake
             ELSE \E delay \in Delays :
                    IF delay >= Deadline - clock
                    THEN Raise("deadline_exhausted") /\ UNCHANGED wake
                    ELSE wake' = clock + delay /\ pc' = "pausing" /\ UNCHANGED result
    /\ UNCHANGED <<clock, cancelled, request, attempt, counted, recorded, response, history>>

\* wait returns when its time has passed or the operation is cancelled.
Wake ==
    /\ pc = "pausing" /\ (cancelled \/ clock >= wake)
    /\ IF Stopped THEN Raise(StopReason) /\ UNCHANGED attempt
       ELSE pc' = "next" /\ attempt' = attempt + 1 /\ UNCHANGED result
    /\ UNCHANGED <<clock, cancelled, request, counted, recorded, response, wake, history>>

\* Another thread cancels the operation.
Cancel ==
    /\ ~cancelled /\ pc # "ended"
    /\ cancelled' = TRUE
    /\ UNCHANGED <<clock, pc, request, attempt, counted, recorded, response, wake, result, history>>

Tick ==
    /\ pc # "ended" /\ clock < Horizon
    /\ clock' = clock + 1
    /\ UNCHANGED <<cancelled, pc, request, attempt, counted, recorded, response, wake, result, history>>

Progress == Reserve \/ Dispatch \/ Send \/ Answer \/ Judge \/ Succeed \/ Retry \/ Wake
Next == Progress \/ Cancel \/ Tick

\* The thread runs and the clock moves; a request returns because its timeout bounds it.
Fairness == WF_vars(Progress) /\ WF_vars(Tick)

Spec == Init /\ [][Next]_vars
FairSpec == Spec /\ Fairness

-----------------------------------------------------------------------------
(* Properties.                                                             *)

Usage == [attempts : 0 .. MaxProviderCalls, unknown : 0 .. MaxProviderCalls, tokens : Nat]

TypeOK ==
    /\ clock \in 0 .. Horizon /\ cancelled \in BOOLEAN
    /\ pc \in {"next", "reserved", "sending", "sent", "answered", "succeeded", "failed", "pausing", "ended"}
    /\ request \in 0 .. Requests /\ attempt \in 0 .. MaxRetries
    /\ counted \in Usage /\ recorded \in Usage
    /\ response \in Responses \cup {NoResponse}
    /\ wake \in 0 .. Deadline /\ result \in Failures \cup {"none", "done"}
    /\ sent \in Nat /\ notBefore \in Nat /\ sentStopped \in Nat

\* Every attempt that has left is on the durable record and inside the accepted
\* number of calls, whatever fails; the record exceeds it by one at most; and
\* the usage of an attempt is unknown until it is measured.
SentIsRecorded ==
    /\ sent <= recorded.attempts /\ recorded.attempts <= sent + 1
    /\ counted.attempts = sent + IF pc \in {"reserved", "sending"} THEN 1 ELSE 0
    /\ recorded.tokens <= counted.tokens /\ counted.unknown <= recorded.unknown
    /\ counted.attempts <= MaxProviderCalls

\* An attempt is never sent before the time that the provider asked for, and
\* after a cancellation or the deadline at most the attempt that had passed its
\* last look at them still leaves.
WelcomeSend == sent' > sent => clock >= notBefore /\ sentStopped' <= 1
SendsOnlyWhenWelcome == [][WelcomeSend]_vars

\* The operation ends.
OperationEnds == <>(pc = "ended")

=============================================================================
