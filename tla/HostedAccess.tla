---------------------------- MODULE HostedAccess ----------------------------
(***************************************************************************)
(* The way of a request for a tool through a hosted server: the layers of  *)
(* interfaces/mcp.py, interfaces/mcp_authorization.py and                  *)
(* services/authorization.py around the tool executor.                     *)
(*                                                                         *)
(* A request is checked for its host, admitted by a bounded guard while it *)
(* authenticates, authenticated by an issuer or by the keys of the server, *)
(* its body is read and checked for the scopes of the operation, and the   *)
(* service that does the work authorizes it again.  Time passes and keys   *)
(* and tokens end between any two of these steps, and clients leave.       *)
(*                                                                         *)
(* Abstracted: a credential is a model value with the claims an issuer     *)
(* would tell; the SDK's own layers, the content of bodies and answers;    *)
(* the executor's admission is ToolExecutor and the second look at a key   *)
(* in the accounting transaction is BetaAccounts, here they may refuse.    *)
(***************************************************************************)
EXTENDS Naturals, FiniteSets

CONSTANTS
    Requests,
    Tokens, NoToken,
    Kind,        \* Tokens -> "operator" (configured), "key" (pnm_) or "oauth"
    Scopes,      \* Tokens -> scopes
    Expiry,      \* Tokens -> first instant at which an oauth token has expired
    NotBefore,   \* Tokens -> first instant at which it is valid
    Foreign,     \* tokens of another resource or of another type
    Operations,
    Required,    \* OPERATION_SCOPES
    Capacity,    \* mcp_oauth_max_concurrent_requests
    Horizon,     \* bound on the clock
    MaxLost      \* bound: credentials that end

ASSUME AccessAssumption ==
    /\ IsFiniteSet(Requests) /\ Capacity \in Nat \ {0} /\ Horizon \in Nat /\ MaxLost \in Nat
    /\ NoToken \notin Tokens /\ Kind \in [Tokens -> {"operator", "key", "oauth"}]
    /\ Expiry \in [Tokens -> Nat] /\ NotBefore \in [Tokens -> Nat]

VARIABLES
    mode,     \* "oauth", "bearer" or "open": how the app was built
    legacy,   \* mcp_oauth_allow_legacy_keys
    now,
    standing, \* Tokens -> "active", "suspended" or "ended", for the issuer or in the key store
    permits,  \* free slots of the guard
    request,  \* Requests -> the request
    alive     \* history: Requests -> its token was in good standing when it arrived

accessVars == <<mode, legacy, now, standing, permits, request, alive>>

Places == {"none", "looking", "recognized", "introspecting", "claims", "reading", "dispatching",
           "working", "responding", "done"}
NewRequest == [at |-> "none", token |-> NoToken, operation |-> "none", slot |-> FALSE, gone |-> FALSE,
               reply |-> "none", denial |-> "none", ran |-> 0, status |-> 0]

AccessInit ==
    /\ mode \in {"oauth", "bearer", "open"} /\ legacy \in BOOLEAN /\ (legacy => mode = "oauth")
    /\ now = 0 /\ standing = [t \in Tokens |-> "active"]
    /\ permits = Capacity
    /\ request = [r \in Requests |-> NewRequest]
    /\ alive = [r \in Requests |-> FALSE]

ofServer == <<mode, legacy, now, standing>>

Go(r, place) == request' = [request EXCEPT ![r].at = place] /\ UNCHANGED <<permits, alive, ofServer>>

\* The answer, and the finally of the guard, whatever the way out.
Answer(r, status) ==
    /\ request' = [request EXCEPT ![r].at = "done", ![r].slot = FALSE, ![r].status = status]
    /\ permits' = IF request[r].slot THEN permits + 1 ELSE permits
    /\ UNCHANGED <<alive, ofServer>>

-----------------------------------------------------------------------------
(* Arrival: _MCPHostOriginApp and _OAuthRequestGuardApp.                   *)

Enter(r, token, operation) ==
    LET new == [NewRequest EXCEPT !.token = token, !.operation = operation]
        passed(place) == [new EXCEPT !.at = place]
        refused(status) == [new EXCEPT !.at = "done", !.status = status]
        guarded == mode = "oauth" /\ token # NoToken
    IN  /\ request[r].at = "none"
        /\ alive' = [alive EXCEPT ![r] = token # NoToken /\ (Kind[token] = "operator" \/ standing[token] = "active")]
        /\ \/ \* an untrusted host or origin, or a mounted path
              request' = [request EXCEPT ![r] = refused(421)] /\ UNCHANGED permits
           \/ /\ ~guarded
              /\ request' = [request EXCEPT ![r] = IF mode = "open" THEN passed("dispatching")
                                                     ELSE IF token = NoToken THEN refused(401)
                                                     ELSE passed("looking")]
              /\ UNCHANGED permits
           \/ guarded /\ permits = 0 /\ request' = [request EXCEPT ![r] = refused(429)] /\ UNCHANGED permits
           \/ /\ guarded /\ permits > 0 /\ permits' = permits - 1
              /\ request' = [request EXCEPT ![r] = [passed("looking") EXCEPT !.slot = TRUE]]
        /\ UNCHANGED ofServer

-----------------------------------------------------------------------------
(* Authentication: IntrospectionTokenVerifier and _BearerProtectedASGIApp. *)

Token(r) == request[r].token
Accept(r) == Go(r, IF mode = "oauth" THEN "reading" ELSE "dispatching")

\* A configured token; in oauth mode only when old credentials are allowed.
LookOperator(r) ==
    /\ request[r].at = "looking" /\ Kind[Token(r)] = "operator" /\ (mode = "bearer" \/ legacy)
    /\ Accept(r)

\* _legacy_decision looks for the key first, and leaves a token that it does not
\* find, or cannot look for, to the issuer; the bearer app authenticates at once.
LookKey(r) ==
    /\ request[r].at = "looking"
    /\ IF mode = "bearer"
       THEN Kind[Token(r)] # "operator" /\ Go(r, "recognized")
       ELSE /\ ~(legacy /\ Kind[Token(r)] = "operator")
            /\ \/ legacy /\ Kind[Token(r)] = "key" /\ Go(r, "recognized")
               \/ Go(r, "introspecting")

\* authenticate_api_key, or an error of the store.
Authenticate(r) ==
    /\ request[r].at = "recognized"
    /\ \/ Kind[Token(r)] = "key" /\ standing[Token(r)] = "active" /\ Accept(r)
       \/ Kind[Token(r)] = "key" /\ standing[Token(r)] = "suspended" /\ Answer(r, IF mode = "bearer" THEN 403 ELSE 401)
       \/ (Kind[Token(r)] # "key" \/ standing[Token(r)] = "ended") /\ Answer(r, 401)
       \/ Answer(r, IF mode = "oauth" THEN 401 ELSE 500)

\* The issuer is asked; it may not answer in time, or not as it should.
Introspect(r) ==
    /\ request[r].at = "introspecting"
    /\ \/ Answer(r, 401)
       \/ /\ request' = [request EXCEPT ![r].at = "claims",
                            ![r].reply = IF Kind[Token(r)] = "oauth" THEN standing[Token(r)] ELSE "ended"]
          /\ UNCHANGED <<permits, alive, ofServer>>

\* The claims are compared with the time after the answer.
CheckClaims(r) ==
    /\ request[r].at = "claims"
    /\ IF /\ request[r].reply = "active" /\ Token(r) \notin Foreign
          /\ Expiry[Token(r)] > now /\ NotBefore[Token(r)] <= now
       THEN Accept(r)
       ELSE Answer(r, 401)

-----------------------------------------------------------------------------
(* Authorization: OperationAuthorizationApp, get_principal and the service.*)

HasScopes(r) == Required[request[r].operation] \subseteq Scopes[Token(r)]

\* The body is read under a limit of time and size, and a tool's scopes are
\* checked before the dispatch.
ReadBody(r) ==
    /\ request[r].at = "reading"
    /\ \/ Answer(r, 408)
       \/ Answer(r, 413)
       \/ IF HasScopes(r) THEN Go(r, "dispatching") ELSE Answer(r, 403)

\* Mutant of Denial: the expiry of a token is not looked at again.
DenialByScope(r) ==
    IF mode = "open" THEN "none"
    ELSE IF HasScopes(r) THEN "none" ELSE "insufficient_scope"

\* authorize_operation, with the code of its error.
Denial(r) ==
    IF mode = "open" THEN "none"
    ELSE IF Kind[Token(r)] = "oauth" /\ Expiry[Token(r)] <= now THEN "invalid_token"
    ELSE IF HasScopes(r) THEN "none" ELSE "insufficient_scope"

\* get_principal authorizes before the executor is asked, which may refuse.
Dispatch(r) ==
    /\ request[r].at = "dispatching"
    /\ \/ request' = [request EXCEPT ![r].denial = Denial(r), ![r].at = IF Denial(r) = "none" THEN "working" ELSE "responding"]
       \/ Denial(r) = "none" /\ request' = [request EXCEPT ![r].at = "responding"]
    /\ UNCHANGED <<permits, alive, ofServer>>

\* The worker thread starts: the service authorizes again and works; the request
\* is held until the thread has ended, also when its client has left.
Work(r) ==
    /\ request[r].at = "working"
    /\ \/ /\ Denial(r) # "none"
          /\ request' = [request EXCEPT ![r].denial = Denial(r), ![r].at = "responding"]
       \/ Denial(r) = "none" /\ request' = [request EXCEPT ![r].ran = now + 1, ![r].at = "responding"]
    /\ UNCHANGED <<permits, alive, ofServer>>

\* The head of the answer is held back until its body comes: a denial that the
\* service has recorded becomes a challenge; without an issuer it is a tool error.
Respond(r) ==
    /\ request[r].at = "responding"
    /\ LET denial == request[r].denial
       IN  Answer(r, IF request[r].gone THEN 0
                     ELSE IF denial = "none" \/ mode # "oauth" THEN 200
                     ELSE IF denial = "invalid_token" THEN 401
                     ELSE 403)

\* The client leaves: at once, or when the thread has been drained.
Disconnect(r) ==
    /\ request[r].at \notin {"none", "done"} /\ ~request[r].gone
    /\ IF request[r].at \in {"working", "responding"}
       THEN request' = [request EXCEPT ![r].gone = TRUE] /\ UNCHANGED <<permits, alive, ofServer>>
       ELSE Answer(r, 0)

-----------------------------------------------------------------------------
Tick == now < Horizon /\ now' = now + 1 /\ UNCHANGED <<mode, legacy, standing, permits, request, alive>>

\* A token is revoked, a key rotated, or its account suspended.
Lose ==
    /\ Cardinality({t \in Tokens : standing[t] # "active"}) < MaxLost
    /\ \E t \in Tokens : /\ standing[t] = "active" /\ Kind[t] # "operator"
                         /\ \/ standing' = [standing EXCEPT ![t] = "ended"]
                            \/ Kind[t] = "key" /\ standing' = [standing EXCEPT ![t] = "suspended"]
    /\ UNCHANGED <<mode, legacy, now, permits, request, alive>>

RequestStep(r) ==
    \/ \E token \in Tokens \cup {NoToken}, operation \in Operations : Enter(r, token, operation)
    \/ LookOperator(r) \/ LookKey(r) \/ Authenticate(r) \/ Introspect(r) \/ CheckClaims(r)
    \/ ReadBody(r) \/ Dispatch(r) \/ Work(r) \/ Respond(r) \/ Disconnect(r)

AccessNext == (\E r \in Requests : RequestStep(r)) \/ Tick \/ Lose

AccessSpec == AccessInit /\ [][AccessNext]_accessVars

-----------------------------------------------------------------------------
(* Properties.                                                             *)

AccessTypeOK ==
    /\ mode \in {"oauth", "bearer", "open"} /\ now \in 0 .. Horizon
    /\ standing \in [Tokens -> {"active", "suspended", "ended"}]
    /\ \A r \in Requests :
         /\ request[r].at \in Places /\ request[r].token \in Tokens \cup {NoToken}
         /\ request[r].denial \in {"none", "invalid_token", "insufficient_scope"}
         /\ request[r].status \in {0, 200, 401, 403, 408, 413, 421, 429, 500}
         /\ request[r].at \notin {"none", "done"} /\ mode # "open" => request[r].token # NoToken

\* An operation runs only for a request whose credential was good when it came or
\* later, has the scopes of the operation, is for this server and has not expired
\* when the work starts.
OnlyAuthorizedWorkRuns ==
    mode # "open" => \A r \in Requests : request[r].ran > 0 =>
        /\ alive[r] /\ HasScopes(r)
        /\ Kind[Token(r)] = "oauth" =>
             Token(r) \notin Foreign /\ NotBefore[Token(r)] < request[r].ran /\ request[r].ran <= Expiry[Token(r)]

\* A denial is told as such, by the status that its cause asks for, and no answer
\* of success hides one; work that ran is never answered by a denial.
DenialsAreTold ==
    \A r \in Requests : request[r].at = "done" =>
        /\ request[r].denial # "none" /\ mode = "oauth" =>
             request[r].status \in {0, IF request[r].denial = "invalid_token" THEN 401 ELSE 403}
        /\ request[r].ran > 0 => request[r].status \in {0, 200} /\ request[r].denial = "none"

\* The free slots of the guard are those that no request in flight holds.
SlotsAreReturned == permits + Cardinality({r \in Requests : request[r].slot}) = Capacity
                    /\ \A r \in Requests : request[r].slot => request[r].at \notin {"none", "done"}

\* What a request obtains is what it has earned, in time and place.
AccessIsEarned == AccessTypeOK /\ OnlyAuthorizedWorkRuns /\ DenialsAreTold /\ SlotsAreReturned

=============================================================================
