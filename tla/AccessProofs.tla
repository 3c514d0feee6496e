----------------------------- MODULE AccessProofs -----------------------------
(***************************************************************************)
(* Proofs about HostedAccess, for any requests, credentials and scopes and *)
(* any number of free slots: only authorized work runs, a denial is told   *)
(* as such, and the guard gets its slots back; and about SignIn: whose     *)
(* session a browser has.                                                  *)
(***************************************************************************)
EXTENDS HostedAccess, FiniteSetTheorems, TLAPS

(***************************************************************************)
(* The inductive invariant.                                                *)
(***************************************************************************)

Statuses == {0, 200, 401, 403, 408, 413, 421, 429, 500}

Request == [at : Places, token : Tokens \cup {NoToken}, operation : Operations \cup {"none"}, slot : BOOLEAN,
            gone : BOOLEAN, reply : {"none", "active", "suspended", "ended"},
            denial : {"none", "invalid_token", "insufficient_scope"}, ran : Nat,
            status : Statuses]

Types ==
    /\ mode \in {"oauth", "bearer", "open"} /\ legacy \in BOOLEAN /\ now \in 0 .. Horizon
    /\ standing \in [Tokens -> {"active", "suspended", "ended"}]
    /\ permits \in Nat
    /\ request \in [Requests -> Request]
    /\ alive \in [Requests -> BOOLEAN]

Authenticating == {"looking", "recognized", "introspecting", "claims", "reading"}
Cleared == {"reading", "dispatching", "working"}

\* A request that has a place has a credential, unless the app is open.
PlaceInv(r) ==
    /\ request[r].at \in Authenticating => mode # "open"
    /\ request[r].at \notin {"none", "done"} /\ mode # "open" => Token(r) # NoToken
    /\ request[r].slot => request[r].at \notin {"none", "done"}

\* A credential that is good now was good when the request arrived.
AliveInv(r) ==
    /\ request[r].at # "none" /\ Token(r) # NoToken
       /\ (Kind[Token(r)] = "operator" \/ standing[Token(r)] = "active") => alive[r]
    /\ request[r].at = "claims" /\ request[r].reply = "active" => alive[r] /\ Kind[Token(r)] = "oauth"

\* What authentication has found out about a request that is past it.
ClearedInv(r) ==
    request[r].at \in Cleared /\ mode # "open" =>
        /\ alive[r]
        /\ Kind[Token(r)] = "oauth" => Token(r) \notin Foreign /\ NotBefore[Token(r)] <= now

\* A denial and the end of the work are on the way to the answer, or told.
OutcomeInv(r) ==
    /\ request[r].denial # "none" => request[r].at \in {"responding", "done"}
    /\ request[r].ran > 0 => request[r].at \in {"responding", "done"} /\ request[r].denial = "none"

\* What OnlyAuthorizedWorkRuns says of one request.
RanInv(r) ==
    mode # "open" /\ request[r].ran > 0 =>
        /\ alive[r] /\ HasScopes(r)
        /\ Kind[Token(r)] = "oauth" =>
             Token(r) \notin Foreign /\ NotBefore[Token(r)] < request[r].ran /\ request[r].ran <= Expiry[Token(r)]

\* The status that a denial asks for.
Challenge(r) == IF request[r].denial = "invalid_token" THEN 401 ELSE 403

\* What DenialsAreTold says of one request.
ToldInv(r) ==
    request[r].at = "done" =>
        /\ request[r].denial # "none" /\ mode = "oauth" => request[r].status \in {0, Challenge(r)}
        /\ request[r].ran > 0 => request[r].status \in {0, 200} /\ request[r].denial = "none"

RequestInv(r) ==
    PlaceInv(r) /\ AliveInv(r) /\ ClearedInv(r) /\ OutcomeInv(r) /\ RanInv(r) /\ ToldInv(r)

Slots == {r \in Requests : request[r].slot}

IInv ==
    /\ Types
    /\ \A r \in Requests : RequestInv(r)
    /\ permits + Cardinality(Slots) = Capacity

(***************************************************************************)
(* Initially.                                                              *)
(***************************************************************************)

LEMMA InitHolds == AccessInit => IInv
<1> SUFFICES ASSUME AccessInit PROVE IInv
  OBVIOUS
<1> USE AccessAssumption
<1>1. NewRequest \in Request
  BY DEF NewRequest, Request, Places, Statuses
<1>2. Types
  BY <1>1 DEF AccessInit, Types
<1>3. ASSUME NEW r \in Requests PROVE RequestInv(r)
  BY DEF AccessInit, NewRequest, RequestInv, PlaceInv, AliveInv, ClearedInv, OutcomeInv, RanInv, ToldInv,
         Authenticating, Cleared
<1>4. Slots = {}
  BY DEF AccessInit, NewRequest, Slots
<1> QED
  BY <1>2, <1>3, <1>4, FS_EmptySet DEF AccessInit, IInv

(***************************************************************************)
(* The ways on: a request goes to its next place, or is answered.          *)
(***************************************************************************)

LEMMA GoTypes ==
    ASSUME Types, NEW r \in Requests, NEW place \in Places, Go(r, place)
    PROVE Types' /\ request'[r] = [request[r] EXCEPT !.at = place]
<1>1. [request[r] EXCEPT !.at = place] \in Request /\ request[r] \in Request
  BY DEF Types, Request
<1> QED
  BY <1>1 DEF Types, Go, ofServer

LEMMA AnswerTypes ==
    ASSUME Types, NEW r \in Requests, NEW status \in Statuses, Answer(r, status)
    PROVE /\ Types'
          /\ request'[r].at = "done" /\ request'[r].token = request[r].token /\ request'[r].slot = FALSE
          /\ request'[r].operation = request[r].operation /\ request'[r].denial = request[r].denial
          /\ request'[r].ran = request[r].ran /\ request'[r].status = status
<1> DEFINE answered == [request[r] EXCEPT !.at = "done", !.slot = FALSE, !.status = status]
<1>1. answered \in Request /\ request[r] \in Request
  <2>1. request[r] \in Request /\ "done" \in Places
    BY DEF Types, Places
  <2> QED
    BY <2>1 DEF Request
<1>2. permits' \in Nat
  BY DEF Types, Answer
<1>3. request' = [request EXCEPT ![r] = answered]
  BY DEF Answer
<1>4. /\ answered.at = "done" /\ answered.token = request[r].token /\ answered.slot = FALSE
      /\ answered.operation = request[r].operation /\ answered.denial = request[r].denial
      /\ answered.ran = request[r].ran /\ answered.status = status
  BY <1>1 DEF Request
<1> HIDE DEF answered
<1>5. request'[r] = answered /\ request' \in [Requests -> Request]
  BY <1>1, <1>3 DEF Types
<1> QED
  BY <1>2, <1>4, <1>5 DEF Types, Answer, ofServer

\* A request on its way to the work stays authorized by what it has proved.
LEMMA GoKeeps ==
    ASSUME Types, NEW r \in Requests, NEW place \in Places \ {"none", "done", "responding"}, RequestInv(r),
           request[r].at \notin {"none", "done", "responding"}, Go(r, place),
           place \in Authenticating => mode # "open",
           place = "claims" /\ request[r].reply = "active" => alive[r] /\ Kind[Token(r)] = "oauth",
           place \in Cleared /\ mode # "open" =>
               /\ alive[r]
               /\ Kind[Token(r)] = "oauth" => Token(r) \notin Foreign /\ NotBefore[Token(r)] <= now
    PROVE Types' /\ RequestInv(r)'
<1>1. Types' /\ request'[r] = [request[r] EXCEPT !.at = place] /\ UNCHANGED <<alive, ofServer>>
  BY GoTypes DEF Go
<1>2. /\ request'[r].at = place /\ Token(r)' = Token(r) /\ request'[r].slot = request[r].slot
      /\ request'[r].denial = request[r].denial /\ request'[r].ran = request[r].ran
      /\ request'[r].reply = request[r].reply
  BY <1>1 DEF Types, Request, Token
<1>3. request[r].denial = "none" /\ ~(request[r].ran > 0)
  BY DEF RequestInv, OutcomeInv
<1>4. PlaceInv(r)' /\ AliveInv(r)' /\ ClearedInv(r)'
  BY <1>1, <1>2 DEF RequestInv, PlaceInv, AliveInv, ClearedInv, ofServer
<1>5. OutcomeInv(r)' /\ RanInv(r)' /\ ToldInv(r)'
  BY <1>2, <1>3 DEF OutcomeInv, RanInv, ToldInv
<1> QED
  BY <1>1, <1>4, <1>5 DEF RequestInv

\* A status that a request in flight may be answered with.
Tells(r, status) ==
    /\ request[r].at \notin {"none", "done"}
    /\ request[r].denial # "none" /\ mode = "oauth" => status \in {0, Challenge(r)}
    /\ request[r].ran > 0 => status \in {0, 200}

\* An answer tells the denial that is there, and no other.
LEMMA AnswerKeeps ==
    ASSUME Types, NEW r \in Requests, NEW status \in Statuses, RequestInv(r),
           Tells(r, status), Answer(r, status)
    PROVE Types' /\ RequestInv(r)'
<1>0. UNCHANGED <<alive, ofServer>>
  BY DEF Answer
<1>1. Types' /\ UNCHANGED <<alive, ofServer>>
  BY <1>0, AnswerTypes
<1>2. /\ request'[r].at = "done" /\ Token(r)' = Token(r) /\ request'[r].slot = FALSE
      /\ request'[r].denial = request[r].denial /\ request'[r].ran = request[r].ran
      /\ request'[r].status = status /\ HasScopes(r)' = HasScopes(r)
  <2>1. request'[r].token = request[r].token /\ request'[r].operation = request[r].operation
    BY AnswerTypes
  <2>2. /\ request'[r].at = "done" /\ request'[r].slot = FALSE /\ request'[r].denial = request[r].denial
        /\ request'[r].ran = request[r].ran /\ request'[r].status = status
    BY AnswerTypes
  <2> QED
    BY <2>1, <2>2 DEF Token, HasScopes
<1>3. PlaceInv(r)' /\ AliveInv(r)' /\ ClearedInv(r)'
  <2>1. PlaceInv(r)' /\ ClearedInv(r)'
    BY <1>2 DEF PlaceInv, ClearedInv, Authenticating, Cleared
  <2>2. AliveInv(r) /\ request[r].at # "none"
    BY DEF RequestInv, Tells
  <2>3. AliveInv(r)'
    BY <1>1, <1>2, <2>2 DEF AliveInv, ofServer
  <2> QED
    BY <2>1, <2>3
<1>4. OutcomeInv(r)' /\ RanInv(r)' /\ ToldInv(r)'
  <2>1. Challenge(r)' = Challenge(r)
    BY <1>2 DEF Challenge
  <2> QED
    BY <1>1, <1>2, <2>1 DEF RequestInv, OutcomeInv, RanInv, ToldInv, Tells, ofServer
<1> QED
  BY <1>1, <1>3, <1>4 DEF RequestInv

(***************************************************************************)
(* Every step of a request preserves what is known of it.                  *)
(***************************************************************************)

\* A request that has just arrived, at its first place.
Arrived(r, token) ==
    /\ request' \in [Requests -> Request] /\ permits' \in Nat
    /\ request'[r].token = token
    /\ request'[r].at \in {"looking", "dispatching", "done"}
    /\ request'[r].denial = "none" /\ request'[r].ran = 0
    /\ request'[r].at = "looking" => mode # "open" /\ token # NoToken
    /\ request'[r].at = "dispatching" => mode = "open"
    /\ request'[r].slot => request'[r].at = "looking"

LEMMA EnterArrives ==
    ASSUME Types, NEW r \in Requests, NEW token \in Tokens \cup {NoToken}, NEW operation \in Operations,
           Enter(r, token, operation)
    PROVE Arrived(r, token)
<1> DEFINE new == [NewRequest EXCEPT !.token = token, !.operation = operation]
           refused(status) == request' = [request EXCEPT ![r] = [new EXCEPT !.at = "done", !.status = status]]
<1>1. /\ new \in Request /\ new.token = token /\ new.denial = "none" /\ new.ran = 0 /\ new.slot = FALSE
  <2>1. NewRequest \in Request
    BY DEF NewRequest, Request, Places, Statuses
  <2> QED
    BY <2>1 DEF NewRequest, Request
<1>0. 421 \in Statuses /\ 429 \in Statuses /\ 401 \in Statuses
  BY DEF Statuses
<1>2. \/ /\ UNCHANGED permits
         /\ \/ refused(421) \/ refused(429) \/ refused(401)
            \/ mode = "open" /\ request' = [request EXCEPT ![r] = [new EXCEPT !.at = "dispatching"]]
            \/ mode # "open" /\ token # NoToken /\ request' = [request EXCEPT ![r] = [new EXCEPT !.at = "looking"]]
      \/ /\ mode = "oauth" /\ token # NoToken /\ permits > 0 /\ permits' = permits - 1
         /\ request' = [request EXCEPT ![r] = [[new EXCEPT !.at = "looking"] EXCEPT !.slot = TRUE]]
  BY DEF Enter
<1> HIDE DEF new
<1>3. permits' \in Nat
  BY <1>2 DEF Types
<1>4. ASSUME NEW arrived \in Request, request' = [request EXCEPT ![r] = arrived],
             arrived.token = token, arrived.at \in {"looking", "dispatching", "done"},
             arrived.denial = "none", arrived.ran = 0,
             arrived.at = "looking" => mode # "open" /\ token # NoToken,
             arrived.at = "dispatching" => mode = "open",
             arrived.slot => arrived.at = "looking"
      PROVE Arrived(r, token)
  <2>1. request'[r] = arrived /\ request' \in [Requests -> Request]
    BY <1>4 DEF Types
  <2> QED
    BY <1>3, <1>4, <2>1 DEF Arrived
<1>5. ASSUME NEW status \in Statuses, refused(status)
      PROVE Arrived(r, token)
  <2>1. PICK arrived : arrived = [new EXCEPT !.at = "done", !.status = status]
    OBVIOUS
  <2>2. /\ arrived \in Request /\ arrived.token = token /\ arrived.at = "done" /\ arrived.denial = "none"
        /\ arrived.ran = 0 /\ arrived.slot = FALSE
    <3>1. "done" \in Places
      BY DEF Places
    <3>2. arrived \in Request
      BY <1>1, <2>1, <3>1 DEF Request
    <3>3. /\ arrived.token = new.token /\ arrived.at = "done" /\ arrived.denial = new.denial
          /\ arrived.ran = new.ran /\ arrived.slot = new.slot
      BY <1>1, <2>1 DEF Request
    <3> QED
      BY <1>1, <3>2, <3>3
  <2>3. request' = [request EXCEPT ![r] = arrived]
    BY <1>5, <2>1, Zenon
  <2> QED
    BY <1>4, <2>2, <2>3
<1>6. ASSUME NEW place \in {"looking", "dispatching"},
             place = "looking" => mode # "open" /\ token # NoToken,
             place = "dispatching" => mode = "open",
             request' = [request EXCEPT ![r] = [new EXCEPT !.at = place]]
      PROVE Arrived(r, token)
  <2>1. PICK arrived : arrived = [new EXCEPT !.at = place]
    OBVIOUS
  <2>2. /\ arrived \in Request /\ arrived.token = token /\ arrived.at = place /\ arrived.denial = "none"
        /\ arrived.ran = 0 /\ arrived.slot = FALSE
    BY <1>1, <2>1 DEF Request, Places
  <2>3. request' = [request EXCEPT ![r] = arrived]
    BY <1>6, <2>1, Zenon
  <2> QED
    BY <1>4, <1>6, <2>2, <2>3
<1>7. ASSUME mode = "oauth", token # NoToken,
             request' = [request EXCEPT ![r] = [[new EXCEPT !.at = "looking"] EXCEPT !.slot = TRUE]]
      PROVE Arrived(r, token)
  <2>1. PICK arrived : arrived = [[new EXCEPT !.at = "looking"] EXCEPT !.slot = TRUE]
    OBVIOUS
  <2>2. /\ arrived \in Request /\ arrived.token = token /\ arrived.at = "looking" /\ arrived.denial = "none"
        /\ arrived.ran = 0
    BY <1>1, <2>1 DEF Request, Places
  <2>3. request' = [request EXCEPT ![r] = arrived]
    BY <1>7, <2>1, Zenon
  <2> QED
    BY <1>4, <1>7, <2>2, <2>3
<1> HIDE DEF refused
<1>9. CASE refused(421) \/ refused(429) \/ refused(401)
  BY <1>0, <1>5, <1>9
<1>10. CASE mode = "open" /\ request' = [request EXCEPT ![r] = [new EXCEPT !.at = "dispatching"]]
  BY <1>6, <1>10, Zenon
<1>11. CASE mode # "open" /\ token # NoToken /\ request' = [request EXCEPT ![r] = [new EXCEPT !.at = "looking"]]
  BY <1>6, <1>11, Zenon
<1>12. CASE mode = "oauth" /\ token # NoToken
            /\ request' = [request EXCEPT ![r] = [[new EXCEPT !.at = "looking"] EXCEPT !.slot = TRUE]]
  BY <1>7, <1>12, Zenon
<1> QED
  BY <1>2, <1>9, <1>10, <1>11, <1>12, Zenon

\* What is known of a request when it has arrived: its credential was good if
\* it is good now.
LEMMA EnterKeeps ==
    ASSUME Types, NEW r \in Requests, NEW token \in Tokens \cup {NoToken}, NEW operation \in Operations,
           Enter(r, token, operation)
    PROVE Types' /\ RequestInv(r)'
<1>1. Arrived(r, token)
  BY EnterArrives
<1>2. /\ UNCHANGED ofServer /\ alive' \in [Requests -> BOOLEAN]
      /\ token # NoToken /\ (Kind[token] = "operator" \/ standing[token] = "active") => alive'[r]
  BY DEF Enter, Types
<1>3. Types'
  BY <1>1, <1>2 DEF Types, Arrived, ofServer
<1>4. PlaceInv(r)' /\ AliveInv(r)' /\ ClearedInv(r)'
  <2>1. PlaceInv(r)'
    BY <1>1, <1>2 DEF PlaceInv, Arrived, Token, Authenticating, ofServer
  <2>2. AliveInv(r)'
    BY <1>1, <1>2 DEF AliveInv, Arrived, Token, ofServer
  <2>3. ClearedInv(r)'
    BY <1>1, <1>2 DEF ClearedInv, Arrived, Cleared, ofServer
  <2> QED
    BY <2>1, <2>2, <2>3
<1>5. OutcomeInv(r)' /\ RanInv(r)' /\ ToldInv(r)'
  BY <1>1 DEF OutcomeInv, RanInv, ToldInv, Arrived
<1> QED
  BY <1>3, <1>4, <1>5 DEF RequestInv

\* Authentication lets pass only credentials that are good, or were when the
\* issuer answered.
LEMMA AuthenticationKeeps ==
    ASSUME Types, NEW r \in Requests, RequestInv(r),
           LookOperator(r) \/ LookKey(r) \/ Authenticate(r) \/ CheckClaims(r)
    PROVE Types' /\ RequestInv(r)'
<1> USE AccessAssumption
<1>1. /\ request[r].at \in {"looking", "recognized", "claims"} /\ mode # "open"
      /\ request[r].denial = "none" /\ ~(request[r].ran > 0)
  BY DEF LookOperator, LookKey, Authenticate, CheckClaims, RequestInv, PlaceInv, OutcomeInv, Authenticating
<1>2. Token(r) \in Tokens /\ Kind[Token(r)] \in {"operator", "key", "oauth"}
  BY <1>1 DEF RequestInv, PlaceInv, Types, Request, Token
<1>3. /\ "reading" \in Places \ {"none", "done", "responding"} /\ "dispatching" \in Places \ {"none", "done", "responding"}
      /\ "recognized" \in Places \ {"none", "done", "responding"} /\ "introspecting" \in Places \ {"none", "done", "responding"}
      /\ 401 \in Statuses /\ 403 \in Statuses /\ 500 \in Statuses
  BY DEF Places, Statuses
<1>4. ASSUME NEW status \in Statuses, Answer(r, status) PROVE Types' /\ RequestInv(r)'
  <2>1. Tells(r, status)
    BY <1>1 DEF Tells
  <2> QED
    BY <1>4, <2>1, AnswerKeeps
<1>5. ASSUME NEW place \in {"recognized", "introspecting"}, Go(r, place) PROVE Types' /\ RequestInv(r)'
  BY <1>1, <1>3, <1>5, GoKeeps DEF Cleared
<1>6. ASSUME Accept(r), alive[r], Kind[Token(r)] = "oauth" => Token(r) \notin Foreign /\ NotBefore[Token(r)] <= now
      PROVE Types' /\ RequestInv(r)'
  <2>1. PICK place \in {"reading", "dispatching"} : Go(r, place)
    BY <1>6 DEF Accept
  <2> QED
    BY <1>1, <1>3, <1>6, <2>1, GoKeeps
<1>7. CASE LookOperator(r)
  BY <1>1, <1>2, <1>6, <1>7 DEF LookOperator, RequestInv, AliveInv
<1>8. CASE LookKey(r)
  BY <1>5, <1>8 DEF LookKey
<1>9. CASE Authenticate(r)
  <2>1. standing[Token(r)] = "active" => alive[r]
    BY <1>1, <1>2 DEF RequestInv, AliveInv
  <2>2. CASE Kind[Token(r)] = "key" /\ standing[Token(r)] = "active" /\ Accept(r)
    BY <1>6, <2>1, <2>2
  <2>3. CASE \E status \in {401, 403, 500} : Answer(r, status)
    BY <1>3, <1>4, <2>3
  <2> QED
    BY <1>9, <2>2, <2>3 DEF Authenticate
<1>10. CASE CheckClaims(r)
  <2>1. request[r].reply = "active" => alive[r]
    BY <1>10 DEF CheckClaims, RequestInv, AliveInv
  <2> QED
    BY <1>3, <1>4, <1>6, <1>10, <2>1 DEF CheckClaims
<1> QED
  BY <1>7, <1>8, <1>9, <1>10

\* The issuer's answer says what the credential is when it is given.
LEMMA IntrospectKeeps ==
    ASSUME Types, NEW r \in Requests, RequestInv(r), Introspect(r)
    PROVE Types' /\ RequestInv(r)'
<1> USE AccessAssumption
<1>1. /\ request[r].at = "introspecting" /\ mode # "open" /\ Token(r) # NoToken
      /\ request[r].denial = "none" /\ ~(request[r].ran > 0)
  BY DEF Introspect, RequestInv, PlaceInv, OutcomeInv, Authenticating
<1>2. Token(r) \in Tokens /\ request[r] \in Request
  BY <1>1 DEF Types, Request, Token
<1>3. CASE Answer(r, 401)
  <2>1. 401 \in Statuses
    BY DEF Statuses
  <2>2. Tells(r, 401)
    BY <1>1 DEF Tells
  <2> QED
    BY <1>3, <2>1, <2>2, AnswerKeeps
<1>4. CASE /\ request' = [request EXCEPT ![r].at = "claims",
                            ![r].reply = IF Kind[Token(r)] = "oauth" THEN standing[Token(r)] ELSE "ended"]
           /\ UNCHANGED <<permits, alive, ofServer>>
  <2>1. PICK reply \in {"active", "suspended", "ended"} :
          reply = IF Kind[Token(r)] = "oauth" THEN standing[Token(r)] ELSE "ended"
    BY <1>2 DEF Types
  <2>2. request' = [request EXCEPT ![r] = [[request[r] EXCEPT !.at = "claims"] EXCEPT !.reply = reply]]
    BY <1>2, <1>4, <2>1 DEF Types, Request
  <2>3. [[request[r] EXCEPT !.at = "claims"] EXCEPT !.reply = reply] \in Request
    BY <1>2 DEF Request, Places
  <2>4. /\ request'[r].at = "claims" /\ Token(r)' = Token(r) /\ request'[r].slot = request[r].slot
        /\ request'[r].denial = "none" /\ request'[r].ran = request[r].ran /\ request'[r].reply = reply
    BY <1>1, <1>2, <2>2 DEF Types, Request, Token
  <2>5. Types'
    <3>1. request' \in [Requests -> Request]
      BY <2>2, <2>3 DEF Types
    <3> QED
      BY <1>4, <3>1 DEF Types, ofServer
  <2>6. reply = "active" => Kind[Token(r)] = "oauth" /\ standing[Token(r)] = "active"
    BY <2>1
  <2>7. PlaceInv(r)' /\ AliveInv(r)' /\ ClearedInv(r)'
    BY <1>1, <1>4, <2>4, <2>6 DEF RequestInv, PlaceInv, AliveInv, ClearedInv, ofServer, Cleared
  <2>8. OutcomeInv(r)' /\ RanInv(r)' /\ ToldInv(r)'
    BY <1>1, <2>4 DEF OutcomeInv, RanInv, ToldInv
  <2> QED
    BY <2>5, <2>7, <2>8 DEF RequestInv
<1> QED
  BY <1>3, <1>4 DEF Introspect

\* A body that is read in time goes on with what authentication has shown.
LEMMA ReadBodyKeeps ==
    ASSUME Types, NEW r \in Requests, RequestInv(r), ReadBody(r)
    PROVE Types' /\ RequestInv(r)'
<1>1. /\ request[r].at = "reading" /\ request[r].denial = "none" /\ ~(request[r].ran > 0) /\ ClearedInv(r)
  BY DEF ReadBody, RequestInv, OutcomeInv
<1>2. CASE \E status \in {408, 413, 403} : Answer(r, status)
  <2>1. \A status \in {408, 413, 403} : status \in Statuses
    BY DEF Statuses
  <2>2. \A status : Tells(r, status)
    BY <1>1 DEF Tells
  <2> QED
    BY <1>2, <2>1, <2>2, AnswerKeeps
<1>3. CASE Go(r, "dispatching")
  <2>1. "dispatching" \in Places \ {"none", "done", "responding"} /\ "dispatching" \notin Authenticating
    BY DEF Places, Authenticating
  <2>2. "dispatching" \in Cleared /\ mode # "open" =>
          alive[r] /\ (Kind[Token(r)] = "oauth" => Token(r) \notin Foreign /\ NotBefore[Token(r)] <= now)
    BY <1>1 DEF ClearedInv, Cleared
  <2> QED
    BY <1>1, <1>3, <2>1, <2>2, GoKeeps
<1> QED
  BY <1>2, <1>3 DEF ReadBody

\* A request that is dispatched, works or loses its client: only its place, its
\* denial and the time of its work may change.
Moved(r, place, denial, ran) ==
    /\ request' \in [Requests -> Request]
    /\ request'[r].at = place /\ request'[r].denial = denial /\ request'[r].ran = ran
    /\ request'[r].token = request[r].token /\ request'[r].operation = request[r].operation
    /\ request'[r].slot = request[r].slot

LEMMA Moves ==
    ASSUME Types, NEW r \in Requests, NEW place \in Places, NEW denial \in {"none", "invalid_token", "insufficient_scope"},
           NEW ran \in Nat, NEW gone \in BOOLEAN,
           request' = [request EXCEPT ![r] = [[[[request[r] EXCEPT !.at = place] EXCEPT !.denial = denial]
                                                EXCEPT !.ran = ran] EXCEPT !.gone = gone]]
    PROVE Moved(r, place, denial, ran)
<1>1. request[r] \in Request
  BY DEF Types
<1>2. PICK moved : moved = [[[[request[r] EXCEPT !.at = place] EXCEPT !.denial = denial]
                              EXCEPT !.ran = ran] EXCEPT !.gone = gone]
  OBVIOUS
<1>3. /\ moved \in Request /\ moved.at = place /\ moved.denial = denial /\ moved.ran = ran
      /\ moved.token = request[r].token /\ moved.operation = request[r].operation /\ moved.slot = request[r].slot
  BY <1>1, <1>2 DEF Request
<1>4. request' = [request EXCEPT ![r] = moved]
  BY <1>2, Zenon
<1>5. request'[r] = moved /\ request' \in [Requests -> Request]
  BY <1>3, <1>4 DEF Types
<1> QED
  BY <1>3, <1>5 DEF Moved

\* get_principal lets pass what is authorized, and a refusal is a denial.
LEMMA DispatchKeeps ==
    ASSUME Types, NEW r \in Requests, RequestInv(r), Dispatch(r)
    PROVE Types' /\ RequestInv(r)'
<1>1. /\ request[r].at = "dispatching" /\ request[r].denial = "none" /\ ~(request[r].ran > 0)
      /\ UNCHANGED <<permits, alive, ofServer>> /\ request[r] \in Request
  BY DEF Dispatch, RequestInv, OutcomeInv, Types
<1>2. PICK denial \in {"none", "invalid_token", "insufficient_scope"} : denial = Denial(r)
  BY DEF Denial
<1>3. PICK place \in {"working", "responding"} :
        /\ Moved(r, place, IF place = "working" THEN "none" ELSE request'[r].denial, request[r].ran)
  <2>1. request[r].ran \in Nat /\ request[r].gone \in BOOLEAN /\ "working" \in Places /\ "responding" \in Places
    BY <1>1 DEF Request, Places
  <2>2. CASE request' = [request EXCEPT ![r].denial = Denial(r),
                                        ![r].at = IF Denial(r) = "none" THEN "working" ELSE "responding"]
    <3>1. PICK place \in {"working", "responding"} : place = IF denial = "none" THEN "working" ELSE "responding"
      OBVIOUS
    <3>2. request' = [request EXCEPT ![r] = [[[[request[r] EXCEPT !.at = place] EXCEPT !.denial = denial]
                                              EXCEPT !.ran = request[r].ran] EXCEPT !.gone = request[r].gone]]
      BY <1>1, <1>2, <2>2, <3>1 DEF Types, Request
    <3>3. PICK ran \in Nat, gone \in BOOLEAN : ran = request[r].ran /\ gone = request[r].gone
      BY <2>1
    <3>4. Moved(r, place, denial, ran)
      BY <2>1, <3>2, <3>3, Moves
    <3> QED
      BY <3>1, <3>3, <3>4 DEF Moved
  <2>3. CASE Denial(r) = "none" /\ request' = [request EXCEPT ![r].at = "responding"]
    <3>1. request' = [request EXCEPT ![r] = [[[[request[r] EXCEPT !.at = "responding"] EXCEPT !.denial = "none"]
                                              EXCEPT !.ran = request[r].ran] EXCEPT !.gone = request[r].gone]]
      BY <1>1, <2>3 DEF Types, Request
    <3>2. PICK ran \in Nat, gone \in BOOLEAN : ran = request[r].ran /\ gone = request[r].gone
      BY <2>1
    <3>3. Moved(r, "responding", "none", ran)
      BY <2>1, <3>1, <3>2, Moves
    <3> QED
      BY <3>2, <3>3 DEF Moved
  <2> QED
    BY <2>2, <2>3 DEF Dispatch
<1>4. Types'
  BY <1>1, <1>3 DEF Types, Moved, ofServer
<1>5. PlaceInv(r)' /\ AliveInv(r)'
  <2>1. PlaceInv(r) /\ AliveInv(r)
    BY DEF RequestInv
  <2>2. PlaceInv(r)'
    BY <1>1, <1>3, <2>1 DEF PlaceInv, Moved, Token, Authenticating, ofServer
  <2> QED
    BY <1>1, <1>3, <2>1, <2>2 DEF AliveInv, Moved, Token, ofServer
<1>6. ClearedInv(r)'
  BY <1>1, <1>3 DEF RequestInv, ClearedInv, Moved, Token, Cleared, ofServer
<1>7. OutcomeInv(r)' /\ RanInv(r)' /\ ToldInv(r)'
  BY <1>1, <1>3 DEF Moved, OutcomeInv, RanInv, ToldInv
<1> QED
  BY <1>4, <1>5, <1>6, <1>7 DEF RequestInv

\* The service authorizes the work again when it starts, and what it refuses is
\* a denial.
LEMMA WorkKeeps ==
    ASSUME Types, NEW r \in Requests, RequestInv(r), Work(r)
    PROVE Types' /\ RequestInv(r)'
<1> USE AccessAssumption
<1>1. /\ request[r].at = "working" /\ request[r].denial = "none" /\ ~(request[r].ran > 0)
      /\ UNCHANGED <<permits, alive, ofServer>> /\ request[r] \in Request
  BY DEF Work, RequestInv, OutcomeInv, Types
<1>2. PICK ran0 \in Nat, gone \in BOOLEAN : ran0 = request[r].ran /\ gone = request[r].gone
  BY <1>1 DEF Request
<1>3. "responding" \in Places /\ now \in Nat
  BY DEF Places, Types
<1>4. PICK denial \in {"none", "invalid_token", "insufficient_scope"}, ran \in Nat :
        /\ Moved(r, "responding", denial, ran)
        /\ \/ ran = ran0
           \/ denial = "none" /\ Denial(r) = "none" /\ ran = now + 1
  <2>1. CASE Denial(r) # "none" /\ request' = [request EXCEPT ![r].denial = Denial(r), ![r].at = "responding"]
    <3>1. PICK denial \in {"none", "invalid_token", "insufficient_scope"} : denial = Denial(r)
      BY DEF Denial
    <3>2. request' = [request EXCEPT ![r] = [[[[request[r] EXCEPT !.at = "responding"] EXCEPT !.denial = denial]
                                              EXCEPT !.ran = ran0] EXCEPT !.gone = gone]]
      BY <1>1, <1>2, <2>1, <3>1 DEF Types, Request
    <3> QED
      BY <1>3, <3>2, Moves
  <2>2. CASE Denial(r) = "none" /\ request' = [request EXCEPT ![r].ran = now + 1, ![r].at = "responding"]
    <3>1. PICK ran \in Nat : ran = now + 1
      BY <1>3
    <3>2. request' = [request EXCEPT ![r] = [[[[request[r] EXCEPT !.at = "responding"] EXCEPT !.denial = "none"]
                                              EXCEPT !.ran = ran] EXCEPT !.gone = gone]]
      BY <1>1, <1>2, <2>2, <3>1 DEF Types, Request
    <3>3. Moved(r, "responding", "none", ran)
      BY <1>3, <3>2, Moves
    <3> QED
      BY <2>2, <3>1, <3>3
  <2> QED
    BY <2>1, <2>2 DEF Work
<1>5. Types'
  BY <1>1, <1>4 DEF Types, Moved, ofServer
<1>6. PlaceInv(r)' /\ AliveInv(r)' /\ ClearedInv(r)'
  <2>1. PlaceInv(r) /\ AliveInv(r)
    BY DEF RequestInv
  <2>2. PlaceInv(r)'
    BY <1>1, <1>4, <2>1 DEF PlaceInv, Moved, Token, Authenticating, ofServer
  <2>3. AliveInv(r)'
    BY <1>1, <1>4, <2>1 DEF AliveInv, Moved, Token, ofServer
  <2> QED
    BY <1>4, <2>2, <2>3 DEF ClearedInv, Moved, Cleared
<1>7. RanInv(r)'
  <2>1. ClearedInv(r) /\ Token(r)' = Token(r) /\ HasScopes(r)' = HasScopes(r)
    BY <1>4 DEF RequestInv, Moved, Token, HasScopes
  <2>2. CASE ran = ran0
    BY <1>1, <1>2, <1>4, <2>2 DEF RanInv, Moved
  <2>3. CASE Denial(r) = "none" /\ ran = now + 1
    <3>1. SUFFICES ASSUME mode # "open" PROVE RanInv(r)'
      BY <1>1 DEF RanInv, ofServer
    <3>2. alive[r] /\ (Kind[Token(r)] = "oauth" => Token(r) \notin Foreign /\ NotBefore[Token(r)] <= now)
      BY <1>1, <2>1, <3>1 DEF ClearedInv, Cleared
    <3>3. HasScopes(r) /\ ~(Kind[Token(r)] = "oauth" /\ Expiry[Token(r)] <= now)
      BY <2>3, <3>1 DEF Denial
    <3>4. Token(r) \in Tokens
      BY <1>1, <3>1 DEF RequestInv, PlaceInv, Request, Token
    <3>5. NotBefore[Token(r)] \in Nat /\ Expiry[Token(r)] \in Nat
      BY <3>4
    <3>6. request'[r].ran = now + 1 /\ alive'[r]
      BY <1>1, <1>4, <2>3, <3>2 DEF Moved
    <3> QED
      BY <1>3, <2>1, <3>2, <3>3, <3>5, <3>6 DEF RanInv
  <2> QED
    BY <1>4, <2>2, <2>3
<1>8. OutcomeInv(r)' /\ ToldInv(r)'
  BY <1>1, <1>2, <1>4 DEF Moved, OutcomeInv, ToldInv
<1> QED
  BY <1>5, <1>6, <1>7, <1>8 DEF RequestInv

\* The answer that is held back tells the denial that has been recorded.
LEMMA RespondKeeps ==
    ASSUME Types, NEW r \in Requests, RequestInv(r), Respond(r)
    PROVE Types' /\ RequestInv(r)'
<1> DEFINE told == IF request[r].gone THEN 0
                   ELSE IF request[r].denial = "none" \/ mode # "oauth" THEN 200
                   ELSE IF request[r].denial = "invalid_token" THEN 401
                   ELSE 403
<1>1. request[r].at = "responding" /\ Answer(r, told)
  BY DEF Respond
<1>2. PICK status \in Statuses : status = told
  BY DEF Statuses
<1>3. Tells(r, status)
  <2>1. request[r].ran > 0 => request[r].denial = "none"
    BY DEF RequestInv, OutcomeInv
  <2> QED
    BY <1>1, <1>2, <2>1 DEF Tells, Challenge
<1> HIDE DEF told
<1> QED
  BY <1>1, <1>2, <1>3, AnswerKeeps

\* A client that leaves is remembered as gone, or its request ends with no answer.
LEMMA DisconnectKeeps ==
    ASSUME Types, NEW r \in Requests, RequestInv(r), Disconnect(r)
    PROVE Types' /\ RequestInv(r)'
<1>0. request[r] \in Request
  BY DEF Types
<1>1. CASE request[r].at \in {"working", "responding"}
  <2>1. request' = [request EXCEPT ![r].gone = TRUE] /\ UNCHANGED <<permits, alive, ofServer>>
    BY <1>1 DEF Disconnect
  <2>2. PICK place \in Places, denial \in {"none", "invalid_token", "insufficient_scope"}, ran \in Nat :
          place = request[r].at /\ denial = request[r].denial /\ ran = request[r].ran
    BY <1>0 DEF Request
  <2>3. Moved(r, place, denial, ran)
    <3>1. request' = [request EXCEPT ![r] = [[[[request[r] EXCEPT !.at = place] EXCEPT !.denial = denial]
                                              EXCEPT !.ran = ran] EXCEPT !.gone = TRUE]]
      BY <1>0, <2>1, <2>2 DEF Types, Request
    <3> QED
      BY <3>1, Moves
  <2>4. Types'
    BY <2>1, <2>3 DEF Types, Moved, ofServer
  <2>5. /\ request'[r].at = request[r].at /\ request'[r].denial = request[r].denial
        /\ request'[r].ran = request[r].ran /\ request'[r].slot = request[r].slot
        /\ Token(r)' = Token(r) /\ HasScopes(r)' = HasScopes(r)
    BY <2>2, <2>3 DEF Moved, Token, HasScopes
  <2>6. PlaceInv(r)' /\ AliveInv(r)' /\ ClearedInv(r)'
    BY <1>1, <2>1, <2>5 DEF RequestInv, PlaceInv, AliveInv, ClearedInv, ofServer
  <2>7. OutcomeInv(r)' /\ RanInv(r)' /\ ToldInv(r)'
    BY <1>1, <2>1, <2>5 DEF RequestInv, OutcomeInv, RanInv, ToldInv, ofServer
  <2> QED
    BY <2>4, <2>6, <2>7 DEF RequestInv
<1>2. CASE request[r].at \notin {"working", "responding"}
  <2>1. Answer(r, 0) /\ request[r].at \notin {"none", "done"} /\ 0 \in Statuses
    BY <1>2 DEF Disconnect, Statuses
  <2>2. Tells(r, 0)
    BY <2>1 DEF Tells, Challenge
  <2> QED
    BY <2>1, <2>2, AnswerKeeps
<1> QED
  BY <1>1, <1>2

LEMMA StepKeeps ==
    ASSUME Types, NEW r \in Requests, RequestInv(r), RequestStep(r)
    PROVE Types' /\ RequestInv(r)'
BY EnterKeeps, AuthenticationKeeps, IntrospectKeeps, ReadBodyKeeps, DispatchKeeps, WorkKeeps,
   RespondKeeps, DisconnectKeeps DEF RequestStep

(***************************************************************************)
(* The others: what a step leaves alone, and the world around the requests.*)
(***************************************************************************)

\* A step of one request changes no other and not the server.
LEMMA StepIsLocal ==
    ASSUME Types, NEW r \in Requests, RequestStep(r), NEW s \in Requests \ {r}
    PROVE request'[s] = request[s] /\ alive'[s] = alive[s] /\ UNCHANGED ofServer
<1>1. UNCHANGED ofServer
  BY DEF RequestStep, Enter, LookOperator, LookKey, Authenticate, Introspect, CheckClaims, ReadBody, Dispatch, Work,
         Respond, Disconnect, Accept, Go, Answer
<1>2. alive'[s] = alive[s]
  <2>1. ASSUME NEW token, NEW operation, Enter(r, token, operation) PROVE alive'[s] = alive[s]
    BY <2>1 DEF Enter, Types
  <2>2. CASE UNCHANGED alive
    BY <2>2
  <2> QED
    BY <2>1, <2>2 DEF RequestStep, LookOperator, LookKey, Authenticate, Introspect, CheckClaims, ReadBody, Dispatch,
         Work, Respond, Disconnect, Accept, Go, Answer
<1>3. request'[s] = request[s]
  <2>1. ASSUME NEW token, NEW operation, Enter(r, token, operation) PROVE request'[s] = request[s]
    BY <2>1 DEF Enter, Types
  <2>2. ASSUME NEW place, Go(r, place) PROVE request'[s] = request[s]
    BY <2>2 DEF Go, Types
  <2>3. ASSUME NEW status, Answer(r, status) PROVE request'[s] = request[s]
    BY <2>3 DEF Answer, Types
  <2>4. CASE Introspect(r)
    BY <2>3, <2>4 DEF Introspect, Types
  <2>5. CASE Dispatch(r) \/ Work(r)
    BY <2>5 DEF Dispatch, Work, Types
  <2>6. CASE Disconnect(r)
    BY <2>3, <2>6 DEF Disconnect, Types
  <2>7. CASE LookOperator(r) \/ LookKey(r) \/ Authenticate(r) \/ CheckClaims(r) \/ ReadBody(r) \/ Respond(r)
    BY <2>2, <2>3, <2>7 DEF LookOperator, LookKey, Authenticate, CheckClaims, ReadBody, Respond, Accept
  <2> QED
    BY <2>1, <2>4, <2>5, <2>6, <2>7 DEF RequestStep
<1> QED
  BY <1>1, <1>2, <1>3

\* What is known of a request that no step touches.
LEMMA UntouchedKeeps ==
    ASSUME Types, NEW r \in Requests, RequestInv(r), request'[r] = request[r], alive'[r] = alive[r],
           UNCHANGED mode, now' \in Nat, now <= now',
           \A t \in Tokens : standing'[t] = "active" => standing[t] = "active"
    PROVE RequestInv(r)'
<1> USE AccessAssumption
<1>1. Token(r)' = Token(r) /\ HasScopes(r)' = HasScopes(r) /\ now \in Nat /\ request[r] \in Request
  BY DEF Token, HasScopes, Types
<1>2. Token(r) # NoToken => Token(r) \in Tokens /\ NotBefore[Token(r)] \in Nat
  BY <1>1 DEF Request, Token
<1>3. PlaceInv(r)' /\ OutcomeInv(r)' /\ RanInv(r)' /\ ToldInv(r)'
  BY <1>1 DEF RequestInv, PlaceInv, OutcomeInv, RanInv, ToldInv, Challenge
<1>4. AliveInv(r)'
  BY <1>1, <1>2 DEF RequestInv, AliveInv
<1>5. ClearedInv(r)'
  <2>1. request[r].at \in Cleared /\ mode # "open" => Token(r) # NoToken
    BY DEF RequestInv, PlaceInv, Cleared
  <2>2. ClearedInv(r)
    BY DEF RequestInv
  <2> QED
    BY <1>1, <1>2, <2>1, <2>2 DEF ClearedInv
<1> QED
  BY <1>3, <1>4, <1>5 DEF RequestInv

(***************************************************************************)
(* The guard: its free slots are those that no request holds.              *)
(***************************************************************************)

SlotsInv == permits + Cardinality(Slots) = Capacity

LEMMA SlotsAreFinite == IsFiniteSet(Slots) /\ Cardinality(Slots) \in Nat
<1>1. IsFiniteSet(Slots)
  BY AccessAssumption, FS_Subset DEF Slots
<1> QED
  BY <1>1, FS_CardinalityType

\* A step that changes who holds a slot changes the free slots with it.
LEMMA SlotsFollow ==
    ASSUME Types, NEW r \in Requests, SlotsInv, request' \in [Requests -> Request],
           \A s \in Requests \ {r} : request'[s] = request[s],
           \/ request'[r].slot = request[r].slot /\ permits' = permits
           \/ ~request[r].slot /\ request'[r].slot /\ permits > 0 /\ permits' = permits - 1
           \/ request[r].slot /\ ~request'[r].slot /\ permits' = permits + 1
    PROVE SlotsInv'
<1> USE AccessAssumption
<1>1. permits \in Nat /\ request[r].slot \in BOOLEAN /\ request'[r].slot \in BOOLEAN
  BY DEF Types, Request
<1>2. CASE request'[r].slot = request[r].slot /\ permits' = permits
  <2>1. Slots' = Slots
    BY <1>2 DEF Slots
  <2> QED
    BY <1>2, <2>1 DEF SlotsInv
<1>3. CASE ~request[r].slot /\ request'[r].slot /\ permits > 0 /\ permits' = permits - 1
  <2>1. Slots' = Slots \cup {r} /\ r \notin Slots
    BY <1>3 DEF Slots
  <2>2. Cardinality(Slots') = Cardinality(Slots) + 1
    BY <2>1, SlotsAreFinite, FS_AddElement
  <2> QED
    BY <1>1, <1>3, <2>2, SlotsAreFinite DEF SlotsInv
<1>4. CASE request[r].slot /\ ~request'[r].slot /\ permits' = permits + 1
  <2>1. Slots' = Slots \ {r} /\ r \in Slots
    BY <1>4 DEF Slots
  <2>2. Cardinality(Slots') = Cardinality(Slots) - 1
    BY <2>1, SlotsAreFinite, FS_RemoveElement
  <2> QED
    BY <1>1, <1>4, <2>2, SlotsAreFinite DEF SlotsInv
<1> QED
  BY <1>2, <1>3, <1>4

\* How a step of a request changes the slot it holds.
LEMMA StepMovesSlot ==
    ASSUME Types, NEW r \in Requests, RequestInv(r), RequestStep(r)
    PROVE \/ request'[r].slot = request[r].slot /\ permits' = permits
          \/ ~request[r].slot /\ request'[r].slot /\ permits > 0 /\ permits' = permits - 1
          \/ request[r].slot /\ ~request'[r].slot /\ permits' = permits + 1
<1>1. request[r] \in Request /\ request[r].slot \in BOOLEAN /\ permits \in Nat
  BY DEF Types, Request
<1>2. ASSUME NEW status, Answer(r, status)
      PROVE \/ request'[r].slot = request[r].slot /\ permits' = permits
            \/ request[r].slot /\ ~request'[r].slot /\ permits' = permits + 1
  <2>1. request'[r].slot = FALSE
    BY <1>1, <1>2 DEF Answer, Types, Request
  <2> QED
    BY <1>1, <1>2, <2>1 DEF Answer
<1>3. ASSUME NEW place, Go(r, place)
      PROVE request'[r].slot = request[r].slot /\ permits' = permits
  BY <1>1, <1>3 DEF Go, Types, Request
<1>4. ASSUME NEW token \in Tokens \cup {NoToken}, NEW operation \in Operations, Enter(r, token, operation)
      PROVE \/ request'[r].slot = request[r].slot /\ permits' = permits
            \/ ~request[r].slot /\ request'[r].slot /\ permits > 0 /\ permits' = permits - 1
  <2> DEFINE new == [NewRequest EXCEPT !.token = token, !.operation = operation]
             refused(status) == request' = [request EXCEPT ![r] = [new EXCEPT !.at = "done", !.status = status]]
  <2>1. ~request[r].slot
    BY <1>1, <1>4 DEF Enter, RequestInv, PlaceInv
  <2>2. new \in Request /\ new.slot = FALSE
    <3>1. NewRequest \in Request
      BY AccessAssumption DEF NewRequest, Request, Places, Statuses
    <3> QED
      BY <3>1 DEF NewRequest, Request
  <2>3. \/ /\ UNCHANGED permits
           /\ \/ refused(421) \/ refused(429) \/ refused(401)
              \/ request' = [request EXCEPT ![r] = [new EXCEPT !.at = "dispatching"]]
              \/ request' = [request EXCEPT ![r] = [new EXCEPT !.at = "looking"]]
        \/ /\ permits > 0 /\ permits' = permits - 1
           /\ request' = [request EXCEPT ![r] = [[new EXCEPT !.at = "looking"] EXCEPT !.slot = TRUE]]
    BY <1>4 DEF Enter
  <2> HIDE DEF new
  <2>4. ASSUME NEW status, refused(status) PROVE request'[r].slot = FALSE
    BY <2>2, <2>4 DEF Types, Request
  <2>5. ASSUME NEW place, request' = [request EXCEPT ![r] = [new EXCEPT !.at = place]]
        PROVE request'[r].slot = FALSE
    BY <2>2, <2>5 DEF Types, Request
  <2>6. ASSUME request' = [request EXCEPT ![r] = [[new EXCEPT !.at = "looking"] EXCEPT !.slot = TRUE]]
        PROVE request'[r].slot = TRUE
    BY <2>2, <2>6 DEF Types, Request
  <2> HIDE DEF refused
  <2>7. CASE permits' = permits /\ request'[r].slot = FALSE
    BY <1>1, <2>1, <2>7
  <2>8. CASE permits > 0 /\ permits' = permits - 1 /\ request'[r].slot = TRUE
    BY <2>1, <2>8
  <2> QED
    BY <2>3, <2>4, <2>5, <2>6, <2>7, <2>8
<1>5. CASE Introspect(r)
  <2>1. ASSUME NEW reply, request' = [request EXCEPT ![r].at = "claims", ![r].reply = reply]
        PROVE request'[r].slot = request[r].slot
    BY <1>1, <2>1 DEF Types, Request
  <2> QED
    BY <1>2, <1>5, <2>1 DEF Introspect
<1>6. CASE Dispatch(r) \/ Work(r)
  <2>1. ASSUME NEW denial, NEW place, request' = [request EXCEPT ![r].denial = denial, ![r].at = place]
        PROVE request'[r].slot = request[r].slot
    BY <1>1, <2>1 DEF Types, Request
  <2>2. ASSUME NEW ran, NEW place, request' = [request EXCEPT ![r].ran = ran, ![r].at = place]
        PROVE request'[r].slot = request[r].slot
    BY <1>1, <2>2 DEF Types, Request
  <2>3. ASSUME NEW place, request' = [request EXCEPT ![r].at = place]
        PROVE request'[r].slot = request[r].slot
    BY <1>1, <2>3 DEF Types, Request
  <2> QED
    BY <1>6, <2>1, <2>2, <2>3 DEF Dispatch, Work
<1>7. CASE Disconnect(r)
  <2>1. request' = [request EXCEPT ![r].gone = TRUE] => request'[r].slot = request[r].slot
    BY <1>1 DEF Types, Request
  <2> QED
    BY <1>2, <1>7, <2>1 DEF Disconnect
<1>8. CASE LookOperator(r) \/ LookKey(r) \/ Authenticate(r) \/ CheckClaims(r) \/ ReadBody(r) \/ Respond(r)
  BY <1>2, <1>3, <1>8 DEF LookOperator, LookKey, Authenticate, CheckClaims, ReadBody, Respond, Accept
<1> QED
  BY <1>4, <1>5, <1>6, <1>7, <1>8 DEF RequestStep

(***************************************************************************)
(* The invariant is inductive.                                             *)
(***************************************************************************)

\* Every step preserves the inductive invariant.
THEOREM Inductive == IInv /\ [AccessNext]_accessVars => IInv'
<1> SUFFICES ASSUME IInv, [AccessNext]_accessVars PROVE IInv'
  OBVIOUS
<1>0. Types /\ SlotsInv /\ \A r \in Requests : RequestInv(r)
  BY DEF IInv, SlotsInv
<1>1. ASSUME NEW r \in Requests, RequestStep(r) PROVE IInv'
  <2>1. Types' /\ RequestInv(r)'
    BY <1>0, <1>1, StepKeeps
  <2>2. \A s \in Requests \ {r} : request'[s] = request[s] /\ alive'[s] = alive[s] /\ UNCHANGED ofServer
    BY <1>0, <1>1, StepIsLocal
  <2>3. ASSUME NEW s \in Requests \ {r} PROVE RequestInv(s)'
    <3>1. request'[s] = request[s] /\ alive'[s] = alive[s] /\ UNCHANGED ofServer /\ now \in Nat
      BY <1>0, <2>2 DEF Types
    <3> QED
      BY <1>0, <3>1, UntouchedKeeps DEF ofServer
  <2>4. SlotsInv'
    <3>1. \A s \in Requests \ {r} : request'[s] = request[s]
      BY <2>2
    <3>2. request' \in [Requests -> Request]
      BY <2>1 DEF Types
    <3>3. \/ request'[r].slot = request[r].slot /\ permits' = permits
          \/ ~request[r].slot /\ request'[r].slot /\ permits > 0 /\ permits' = permits - 1
          \/ request[r].slot /\ ~request'[r].slot /\ permits' = permits + 1
      BY <1>0, <1>1, StepMovesSlot
    <3> QED
      BY <1>0, <3>1, <3>2, <3>3, SlotsFollow
  <2> QED
    BY <2>1, <2>3, <2>4 DEF IInv, SlotsInv
<1>2. CASE Tick \/ Lose
  <2>1. UNCHANGED <<request, alive, permits, mode>> /\ now \in Nat
    BY <1>0, <1>2 DEF Tick, Lose, Types
  <2>2. Types'
    <3>1. CASE Tick
      BY <1>0, <3>1, AccessAssumption DEF Tick, Types
    <3>2. CASE Lose
      BY <1>0, <3>2 DEF Lose, Types
    <3> QED
      BY <1>2, <3>1, <3>2
  <2>3. now' \in Nat /\ now <= now'
    BY <1>2, <2>1 DEF Tick, Lose
  <2>4. \A t \in Tokens : standing'[t] = "active" => standing[t] = "active"
    BY <1>0, <1>2 DEF Tick, Lose, Types
  <2>5. ASSUME NEW s \in Requests PROVE RequestInv(s)'
    BY <1>0, <2>1, <2>3, <2>4, UntouchedKeeps
  <2>6. SlotsInv'
    BY <1>0, <2>1 DEF SlotsInv, Slots
  <2> QED
    BY <2>2, <2>5, <2>6 DEF IInv, SlotsInv
<1>3. CASE UNCHANGED accessVars
  <2>1. UNCHANGED <<request, alive, permits, mode, now, standing, legacy>> /\ now \in Nat
    BY <1>0, <1>3 DEF accessVars, Types
  <2>2. Types' /\ SlotsInv'
    BY <1>0, <2>1 DEF Types, SlotsInv, Slots
  <2>3. ASSUME NEW s \in Requests PROVE RequestInv(s)'
    BY <1>0, <2>1, UntouchedKeeps
  <2> QED
    BY <2>2, <2>3 DEF IInv, SlotsInv
<1> QED
  BY <1>1, <1>2, <1>3 DEF AccessNext

\* Every reachable state satisfies the inductive invariant.
THEOREM Invariance == AccessSpec => []IInv
BY InitHolds, Inductive, PTL DEF AccessSpec

(***************************************************************************)
(* What the invariant says.                                                *)
(***************************************************************************)

\* The state of the server and of the requests has its types, and a request
\* inside a protected server has a credential (interfaces/mcp.py).
THEOREM TypeCorrect == AccessSpec => []AccessTypeOK
<1>1. IInv => AccessTypeOK
  <2> SUFFICES ASSUME IInv PROVE AccessTypeOK
    OBVIOUS
  <2>1. ASSUME NEW r \in Requests
        PROVE /\ request[r].at \in Places /\ request[r].token \in Tokens \cup {NoToken}
              /\ request[r].denial \in {"none", "invalid_token", "insufficient_scope"}
              /\ request[r].status \in {0, 200, 401, 403, 408, 413, 421, 429, 500}
              /\ request[r].at \notin {"none", "done"} /\ mode # "open" => request[r].token # NoToken
    <3>1. request[r] \in Request
      BY DEF IInv, Types
    <3>2. request[r].status \in {0, 200, 401, 403, 408, 413, 421, 429, 500}
      BY <3>1 DEF Request, Statuses
    <3>3. PlaceInv(r)
      BY DEF IInv, RequestInv
    <3> QED
      BY <3>1, <3>2, <3>3 DEF Request, PlaceInv, Token
  <2> QED
    BY <2>1 DEF IInv, Types, AccessTypeOK
<1> QED
  BY <1>1, Invariance, PTL

\* Work runs only for a request whose credential was in good standing when it
\* came or later, is for this server, has the scopes of the operation and is
\* within its time when the work starts, whatever ends or expires between the
\* layers (services/authorization.py, authorize_operation).
THEOREM WorkIsAuthorized == AccessSpec => []OnlyAuthorizedWorkRuns
<1>1. IInv => OnlyAuthorizedWorkRuns
  BY DEF IInv, RequestInv, RanInv, OnlyAuthorizedWorkRuns
<1> QED
  BY <1>1, Invariance, PTL

\* A recorded denial is answered by the status of its cause, and work that ran is
\* never answered as denied (interfaces/mcp_authorization.py).
THEOREM DenialSafety == AccessSpec => []DenialsAreTold
<1>1. IInv => DenialsAreTold
  <2> SUFFICES ASSUME IInv PROVE DenialsAreTold
    OBVIOUS
  <2>1. ASSUME NEW r \in Requests PROVE ToldInv(r)
    BY DEF IInv, RequestInv
  <2> QED
    BY <2>1 DEF ToldInv, Challenge, DenialsAreTold
<1> QED
  BY <1>1, Invariance, PTL

\* The guard of the unauthenticated requests gets every slot back, on every way
\* out of a request, and holds none for a request that has ended.
THEOREM SlotSafety == AccessSpec => []SlotsAreReturned
<1>1. IInv => SlotsAreReturned
  BY DEF IInv, RequestInv, PlaceInv, Slots, SlotsAreReturned
<1> QED
  BY <1>1, Invariance, PTL

\* What a request obtains at a hosted server is what it has earned: the types and
\* the three statements above (interfaces/mcp.py, services/authorization.py).
THEOREM AccessSafety == AccessSpec => []AccessIsEarned
<1>1. AccessTypeOK /\ OnlyAuthorizedWorkRuns /\ DenialsAreTold /\ SlotsAreReturned => AccessIsEarned
  BY DEF AccessIsEarned
<1> QED
  BY <1>1, TypeCorrect, WorkIsAuthorized, DenialSafety, SlotSafety, PTL

(***************************************************************************)
(* Sign-in to the portal: whose session a browser has (module SignIn).     *)
(***************************************************************************)

CONSTANTS Browsers, NoBrowser, AddressOf, Users, NoUser, States, NoState, MaxAttempts, Window
VARIABLES attempts, cookie, starter, code, redeemed, exchange, accepted, asked

SigningIn == INSTANCE SignIn

SignInTypes ==
    /\ cookie \in [Browsers -> [state : States \cup {NoState}, account : Users \cup {NoUser}]]
    /\ starter \in [States -> Browsers \cup {NoBrowser}]
    /\ code \in [States -> Users \cup {NoUser}]
    /\ redeemed \subseteq States
    /\ exchange \in [Browsers -> [state : States \cup {NoState}, user : Users \cup {NoUser}]]

\* The user approved a sign-in that the browser had started and that is over.
Earned(b, u) == u # NoUser => \E s \in redeemed : starter[s] = b /\ code[s] = u

\* A browser carries states that it started itself, a callback in flight has one
\* that was approved, and every account in a session or callback is earned.
SessionInv(b) ==
    /\ cookie[b].state # NoState => starter[cookie[b].state] = b
    /\ exchange[b] # SigningIn!NoExchange =>
         /\ exchange[b].state \in States /\ starter[exchange[b].state] = b
         /\ code[exchange[b].state] # NoUser
    /\ Earned(b, cookie[b].account) /\ Earned(b, exchange[b].user)

SignInInv == SignInTypes /\ \A b \in Browsers : SessionInv(b)

LEMMA SignInBegins == ASSUME SigningIn!SignInAssumption PROVE SigningIn!Init => SignInInv
BY DEF SigningIn!SignInAssumption, SigningIn!Init, SigningIn!Empty, SigningIn!NoExchange, SignInInv, SignInTypes,
       SessionInv, Earned

\* What holds of a browser stays while its cookie and its callback do and the
\* sign-ins only grow.
LEMMA SessionStays ==
    ASSUME SignInTypes, NEW b \in Browsers, SessionInv(b), cookie'[b] = cookie[b], exchange'[b] = exchange[b],
           NoState \notin States, redeemed \subseteq redeemed',
           \A s \in States : starter[s] = b => starter'[s] = b,
           \A s \in States : code[s] # NoUser => code'[s] = code[s]
    PROVE SessionInv(b)'
BY DEF SignInTypes, SessionInv, Earned, SigningIn!NoExchange

\* A change of one browser's cookie and callback keeps what holds of all, if the
\* sign-ins stay and the new cookie and callback are right.
LEMMA SessionChanges ==
    ASSUME SignInInv, NoState \notin States, NEW b \in Browsers, SignInTypes', UNCHANGED <<starter, code>>,
           redeemed \subseteq redeemed', SessionInv(b)',
           \A a \in Browsers \ {b} : cookie'[a] = cookie[a] /\ exchange'[a] = exchange[a]
    PROVE SignInInv'
<1>1. ASSUME NEW a \in Browsers \ {b} PROVE SessionInv(a)'
  BY <1>1, SessionStays DEF SignInInv
<1> QED
  BY <1>1 DEF SignInInv

LEMMA SignInStep ==
    ASSUME SigningIn!SignInAssumption, SignInInv, [SigningIn!Next]_(SigningIn!vars)
    PROVE SignInInv'
<1> USE DEF SigningIn!SignInAssumption, SigningIn!Empty, SigningIn!NoExchange
<1>0. SignInTypes /\ \A b \in Browsers : SessionInv(b)
  BY DEF SignInInv
<1>1. CASE UNCHANGED <<cookie, starter, code, redeemed, exchange>>
  BY <1>1 DEF SignInInv, SignInTypes, SessionInv, Earned
<1>2. ASSUME NEW b \in Browsers, NEW s \in States, starter[s] = NoBrowser, starter' = [starter EXCEPT ![s] = b],
             cookie' = [cookie EXCEPT ![b].state = s], UNCHANGED <<code, redeemed, exchange>>
      PROVE SignInInv'
  <2>1. SignInTypes'
    BY <1>0, <1>2 DEF SignInTypes
  <2>2. \A a \in Browsers : \A t \in States : starter[t] = a => starter'[t] = a
    BY <1>0, <1>2 DEF SignInTypes
  <2>3. ASSUME NEW a \in Browsers \ {b} PROVE SessionInv(a)'
    <3>1. cookie'[a] = cookie[a]
      BY <1>0, <1>2 DEF SignInTypes
    <3> QED
      BY <1>0, <1>2, <2>2, <3>1, SessionStays
  <2>4. SessionInv(b)'
    <3>1. cookie'[b].state = s /\ cookie'[b].account = cookie[b].account /\ starter'[s] = b
      BY <1>0, <1>2 DEF SignInTypes
    <3> QED
      BY <1>0, <1>2, <2>2, <3>1 DEF SignInTypes, SessionInv, Earned
  <2> QED
    BY <2>1, <2>3, <2>4 DEF SignInInv
<1>3. ASSUME NEW s \in States, NEW u \in Users, code[s] = NoUser, code' = [code EXCEPT ![s] = u],
             UNCHANGED <<cookie, starter, redeemed, exchange>>
      PROVE SignInInv'
  <2>1. SignInTypes'
    BY <1>0, <1>3 DEF SignInTypes
  <2>2. \A t \in States : code[t] # NoUser => code'[t] = code[t]
    BY <1>0, <1>3 DEF SignInTypes
  <2> QED
    BY <1>0, <1>3, <2>1, <2>2, SessionStays DEF SignInInv
<1>4. ASSUME NEW b \in Browsers, NEW s \in States, code[s] # NoUser, SigningIn!StateMatches(b, s),
             exchange' = [exchange EXCEPT ![b] = [state |-> s, user |-> cookie[b].account]],
             UNCHANGED <<cookie, starter, code, redeemed>>
      PROVE SignInInv'
  <2>1. SignInTypes'
    BY <1>0, <1>4 DEF SignInTypes
  <2>2. SessionInv(b)'
    BY <1>0, <1>4 DEF SignInTypes, SessionInv, Earned, SigningIn!StateMatches
  <2> QED
    BY <1>0, <1>4, <2>1, <2>2, SessionChanges DEF SignInTypes
<1>5. ASSUME NEW b \in Browsers, NEW session, session.account = cookie[b].account, session.state = NoState,
             session \in [state : States \cup {NoState}, account : Users \cup {NoUser}],
             cookie' = [cookie EXCEPT ![b] = session], UNCHANGED <<starter, code, redeemed, exchange>>
      PROVE SignInInv'
  <2>1. SignInTypes'
    BY <1>0, <1>5 DEF SignInTypes
  <2>2. SessionInv(b)'
    BY <1>0, <1>5 DEF SignInTypes, SessionInv, Earned
  <2> QED
    BY <1>0, <1>5, <2>1, <2>2, SessionChanges DEF SignInTypes
<1>6. ASSUME NEW b \in Browsers, exchange[b] # SigningIn!NoExchange, redeemed \subseteq redeemed', redeemed' \subseteq States,
             exchange' = [exchange EXCEPT ![b] = SigningIn!NoExchange], UNCHANGED <<starter, code>>,
             \/ UNCHANGED cookie
             \/ cookie' = [cookie EXCEPT ![b] = [state |-> NoState, account |-> exchange[b].user]]
             \/ /\ exchange[b].state \in redeemed'
                /\ cookie' = [cookie EXCEPT ![b] = [state |-> NoState, account |-> code[exchange[b].state]]]
      PROVE SignInInv'
  <2>1. exchange[b].state \in States /\ starter[exchange[b].state] = b
    BY <1>0, <1>6 DEF SessionInv
  <2>2. SignInTypes'
    BY <1>0, <1>6, <2>1 DEF SignInTypes
  <2>3. SessionInv(b)'
    BY <1>0, <1>6, <2>1 DEF SignInTypes, SessionInv, Earned
  <2> QED
    BY <1>0, <1>6, <2>2, <2>3, SessionChanges DEF SignInTypes
<1>7. CASE \E b \in Browsers : SigningIn!Start(b)
  BY <1>1, <1>2, <1>7 DEF SigningIn!Start
<1>8. CASE \E b \in Browsers, s \in States : SigningIn!Callback(b, s)
  <2>1. PICK b \in Browsers, s \in States : SigningIn!Callback(b, s)
    BY <1>8
  <2>2. PICK session : session = [cookie[b] EXCEPT !.state = NoState]
    OBVIOUS
  <2>3. /\ session \in [state : States \cup {NoState}, account : Users \cup {NoUser}]
        /\ session.account = cookie[b].account /\ session.state = NoState
        /\ [cookie EXCEPT ![b].state = NoState] = [cookie EXCEPT ![b] = session]
    BY <1>0, <2>2 DEF SignInTypes
  <2> QED
    BY <1>1, <1>4, <1>5, <2>1, <2>3 DEF SigningIn!Callback
<1>9. CASE \E b \in Browsers : SigningIn!Complete(b)
  <2>1. PICK b \in Browsers : SigningIn!Complete(b)
    BY <1>9
  <2>2. exchange[b].state \in States /\ redeemed \subseteq States
    BY <1>0, <2>1 DEF SessionInv, SigningIn!Complete, SignInTypes
  <2> QED
    BY <1>6, <2>1, <2>2 DEF SigningIn!Complete
<1>10. CASE \E b \in Browsers : SigningIn!Abandon(b)
  <2>1. PICK b \in Browsers : SigningIn!Abandon(b)
    BY <1>10
  <2>2. exchange[b].state \in States /\ redeemed \subseteq States
    BY <1>0, <2>1 DEF SessionInv, SigningIn!Abandon, SignInTypes
  <2> QED
    BY <1>6, <2>1, <2>2 DEF SigningIn!Abandon
<1>11. CASE \E b \in Browsers : SigningIn!Logout(b)
  <2>1. PICK b \in Browsers : SigningIn!Logout(b)
    BY <1>11
  <2>2. cookie' = [cookie EXCEPT ![b] = SigningIn!Empty] /\ UNCHANGED <<starter, code, redeemed, exchange>>
    BY <2>1 DEF SigningIn!Logout
  <2>3. SignInTypes'
    BY <1>0, <2>2 DEF SignInTypes
  <2>4. SessionInv(b)'
    BY <1>0, <2>2 DEF SignInTypes, SessionInv, Earned
  <2> QED
    BY <1>0, <2>2, <2>3, <2>4, SessionChanges DEF SignInTypes
<1>12. CASE SigningIn!Approve
  BY <1>3, <1>12 DEF SigningIn!Approve
<1> QED
  BY <1>1, <1>7, <1>8, <1>9, <1>10, <1>11, <1>12
     DEF SigningIn!Next, SigningIn!Browser, SigningIn!Tick, SigningIn!vars

\* A browser is signed in only as a user who approved a sign-in that this very
\* browser had started, whatever else it started, left or received meanwhile, in
\* other tabs too (interfaces/mcp.py, github_callback).
THEOREM SessionSafety ==
    ASSUME SigningIn!SignInAssumption
    PROVE SigningIn!Spec => []SigningIn!SessionsAreOwn
<1>1. SignInInv => SigningIn!SessionsAreOwn
  BY DEF SignInInv, SessionInv, Earned, SigningIn!SessionsAreOwn
<1>2. SigningIn!Init => SignInInv
  BY SignInBegins
<1>3. SignInInv /\ [SigningIn!Next]_(SigningIn!vars) => SignInInv'
  BY SignInStep
<1> QED
  BY <1>1, <1>2, <1>3, PTL DEF SigningIn!Spec

=============================================================================
