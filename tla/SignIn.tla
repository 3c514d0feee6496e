------------------------------- MODULE SignIn -------------------------------
(***************************************************************************)
(* The sign-in of the hosted portal: the GitHub routes and the rate limit  *)
(* of interfaces/mcp.py, complete_github_oauth of services/beta_auth.py.   *)
(*                                                                         *)
(* A browser keeps its session in a cookie: a request carries the cookie   *)
(* that the browser has, and an answer replaces it.  A sign-in starts with *)
(* a state in the cookie, goes through the identity provider, and comes    *)
(* back with a code; the exchange of the code takes time, while the same   *)
(* browser may start another sign-in or leave.  Attempts are limited for a *)
(* route and an address in a sliding window, in the memory of a server.    *)
(*                                                                         *)
(* Abstracted: states and codes are fresh; a user approves at the provider *)
(* or not; cookies cannot be forged; an address is that of the browser.    *)
(***************************************************************************)
EXTENDS Naturals, Sequences, FiniteSets, SequencesExt

CONSTANTS
    Browsers, NoBrowser,
    AddressOf,   \* Browsers -> address; browsers may share one
    Users, NoUser,
    States, NoState,  \* pool of secrets.token_urlsafe states
    MaxAttempts, Window,  \* the limit of a key in a window
    Horizon      \* bound on the clock

SignInAssumption ==
    /\ NoBrowser \notin Browsers /\ NoUser \notin Users /\ NoState \notin States
    /\ MaxAttempts \in Nat \ {0} /\ Window \in Nat \ {0} /\ Horizon \in Nat

VARIABLES
    now,
    attempts,  \* _attempts: a sequence of [key, times], oldest last attempt first
    cookie,    \* Browsers -> session
    starter,   \* history: States -> the browser that started the sign-in
    code,      \* States -> the user whose approval the code of the state stands for
    redeemed,  \* states whose code was exchanged
    exchange,  \* Browsers -> the callback in flight
    accepted,  \* history: [key, at] of all attempts that were let through
    asked      \* history: time of the last attempt

vars == <<now, attempts, cookie, starter, code, redeemed, exchange, accepted, asked>>

Empty == [state |-> NoState, account |-> NoUser]
NoExchange == [state |-> NoState, user |-> NoUser]
Key(b, route) == <<route, AddressOf[b]>>

Init ==
    /\ now = 0 /\ attempts = <<>> /\ accepted = <<>> /\ asked = 0
    /\ cookie = [b \in Browsers |-> Empty]
    /\ starter = [s \in States |-> NoBrowser]
    /\ code = [s \in States |-> NoUser] /\ redeemed = {}
    /\ exchange = [b \in Browsers |-> NoExchange]

-----------------------------------------------------------------------------
(* _InMemoryRateLimiter.allow.                                             *)

Live(at) == now - at < Window

\* The clients that have been quiet for a window are forgotten, from the front on.
Evicted ==
    LET live == {i \in DOMAIN attempts : Live(Last(attempts[i].times))}
    IN  IF live = {} THEN <<>>
        ELSE SubSeq(attempts, CHOOSE i \in live : \A j \in live : i <= j, Len(attempts))

TimesOf(table, key) ==
    LET entries == SelectSeq(table, LAMBDA entry : entry.key = key)
    IN  IF entries = <<>> THEN <<>> ELSE SelectSeq(entries[1].times, Live)

\* Mutant of Allowed: the limit is taken for the last attempt that fits.
AllowedInclusive(key) == Len(TimesOf(Evicted, key)) <= MaxAttempts

\* What allow answers.
Allowed(key) == Len(TimesOf(Evicted, key)) < MaxAttempts

\* The table after an attempt that was let through: its client goes to the end.
Recorded(key) ==
    Append(SelectSeq(Evicted, LAMBDA entry : entry.key # key),
           [key |-> key, times |-> Append(TimesOf(Evicted, key), now)])

\* After one that was not: the client keeps its place and its live attempts.
Trimmed(key) ==
    LET table == Evicted
    IN  [i \in DOMAIN table |-> IF table[i].key = key THEN [key |-> key, times |-> TimesOf(table, key)] ELSE table[i]]

Attempt(b, route) ==
    LET key == Key(b, route)
    IN  /\ asked' = now
        /\ attempts' = IF Allowed(key) THEN Recorded(key) ELSE Trimmed(key)
        /\ accepted' = IF Allowed(key) THEN Append(accepted, [key |-> key, at |-> now]) ELSE accepted

-----------------------------------------------------------------------------
(* The routes.                                                             *)

\* github_start: the answer sets a fresh state beside what the session has.
Start(b) ==
    /\ Attempt(b, "start")
    /\ IF ~Allowed(Key(b, "start"))
       THEN UNCHANGED <<cookie, starter>>
       ELSE \E s \in States : /\ starter[s] = NoBrowser
                              /\ starter' = [starter EXCEPT ![s] = b]
                              /\ cookie' = [cookie EXCEPT ![b].state = s]
    /\ UNCHANGED <<now, code, redeemed, exchange>>

\* At the provider, a user approves the sign-in that the state stands for.
Approve ==
    /\ \E s \in States, u \in Users : /\ starter[s] # NoBrowser /\ code[s] = NoUser
                                      /\ code' = [code EXCEPT ![s] = u]
    /\ UNCHANGED <<now, attempts, cookie, starter, redeemed, exchange, accepted, asked>>

\* Mutant of StateMatches: a state that the session lacks is not missed.
StateMatchesAny(b, s) == cookie[b].state \in {s, NoState}

\* The state of the callback has to be the one in the session.
StateMatches(b, s) == cookie[b].state = s

\* github_callback with a state and the provider's code for it, from wherever the
\* browser has the address; the session's state is taken out of the request.
Callback(b, s) ==
    /\ exchange[b] = NoExchange  \* bound: one callback of a browser at a time
    /\ code[s] # NoUser
    /\ Attempt(b, "callback")
    /\ IF ~Allowed(Key(b, "callback"))
       THEN UNCHANGED <<cookie, exchange>>
       ELSE IF StateMatches(b, s)
       THEN exchange' = [exchange EXCEPT ![b] = [state |-> s, user |-> cookie[b].account]] /\ UNCHANGED cookie
       ELSE cookie' = [cookie EXCEPT ![b].state = NoState] /\ UNCHANGED exchange
    /\ UNCHANGED <<now, starter, code, redeemed>>

\* complete_github_oauth, in a worker: the code can be exchanged once.  The answer
\* carries the session of the request, without its state.
Complete(b) ==
    /\ exchange[b] # NoExchange
    /\ LET s == exchange[b].state
           failed == cookie' = [cookie EXCEPT ![b] = [state |-> NoState, account |-> exchange[b].user]]
       IN  \/ s \notin redeemed /\ redeemed' = redeemed \cup {s}
              /\ (cookie' = [cookie EXCEPT ![b] = [state |-> NoState, account |-> code[s]]] \/ failed)
           \/ UNCHANGED redeemed /\ failed
    /\ exchange' = [exchange EXCEPT ![b] = NoExchange]
    /\ UNCHANGED <<now, attempts, starter, code, accepted, asked>>

\* The browser leaves before the answer; the worker is drained.
Abandon(b) ==
    /\ exchange[b] # NoExchange
    /\ \E used \in BOOLEAN : redeemed' = IF used THEN redeemed \cup {exchange[b].state} ELSE redeemed
    /\ exchange' = [exchange EXCEPT ![b] = NoExchange]
    /\ UNCHANGED <<now, attempts, cookie, starter, code, accepted, asked>>

\* beta_logout.
Logout(b) ==
    /\ cookie[b] # Empty
    /\ cookie' = [cookie EXCEPT ![b] = Empty]
    /\ UNCHANGED <<now, attempts, starter, code, redeemed, exchange, accepted, asked>>

Tick == now < Horizon /\ now' = now + 1
        /\ UNCHANGED <<attempts, cookie, starter, code, redeemed, exchange, accepted, asked>>

Browser(b) == Start(b) \/ (\E s \in States : Callback(b, s)) \/ Complete(b) \/ Abandon(b) \/ Logout(b)

\* bound: as many attempts as the windows of the clock would let through
Busy == Len(accepted) <= MaxAttempts * Cardinality(Browsers) + 1

Next == (Busy /\ \E b \in Browsers : Browser(b)) \/ Approve \/ Tick

Spec == Init /\ [][Next]_vars

-----------------------------------------------------------------------------
(* Properties.                                                             *)

Keys == {Key(b, route) : b \in Browsers, route \in {"start", "callback"}}

TypeOK ==
    /\ now \in 0 .. Horizon /\ asked \in 0 .. now
    /\ \A entry \in Range(attempts) : entry.key \in Keys /\ Len(entry.times) \in 1 .. MaxAttempts
    /\ cookie \in [Browsers -> [state : States \cup {NoState}, account : Users \cup {NoUser}]]
    /\ starter \in [States -> Browsers \cup {NoBrowser}]
    /\ code \in [States -> Users \cup {NoUser}]
    /\ redeemed \subseteq States

\* A browser is signed in only as a user who approved a sign-in that this browser
\* had started, whatever else it started, left or received meanwhile.
SessionsAreOwn ==
    \A b \in Browsers : cookie[b].account # NoUser =>
        \E s \in redeemed : starter[s] = b /\ code[s] = cookie[b].account

\* In no window more attempts of a client are let through than the limit.
AttemptsAreLimited ==
    \A k \in Keys : \A from \in 0 .. now :
        Cardinality({i \in DOMAIN accepted : accepted[i].key = k /\ accepted[i].at \in from .. from + Window - 1})
            <= MaxAttempts

\* The table remembers the clients of the last window and no others, so that it
\* does not grow with the clients of the past.
TableIsTheLastWindow ==
    LET recent == {i \in DOMAIN accepted : asked - accepted[i].at < Window}
    IN  /\ {entry.key : entry \in Range(attempts)} = {accepted[i].key : i \in recent}
        /\ \A i \in DOMAIN attempts : \A j \in 1 .. i - 1 :
             /\ attempts[i].key # attempts[j].key
             /\ Last(attempts[j].times) <= Last(attempts[i].times)

=============================================================================
