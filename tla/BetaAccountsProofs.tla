------------------------- MODULE BetaAccountsProofs -------------------------
(***************************************************************************)
(* Proofs about BetaAccounts, for any number of accounts, keys, forms,     *)
(* server processes and requests: an account has one active key at most, a *)
(* valid form makes one key, and work is accepted only from current keys.  *)
(***************************************************************************)
EXTENDS BetaAccounts, FiniteSetTheorems, TLAPS

(***************************************************************************)
(* The inductive invariant.                                                *)
(***************************************************************************)

\* The types that do not rest on the uniqueness of active keys.
Types ==
    /\ status \in [Accounts -> {"absent", "active", "suspended"}]
    /\ owner \in [Keys -> Accounts \cup {NoAccount}]
    /\ revoked \subseteq {k \in Keys : owner[k] # NoAccount}
    /\ consumed \subseteq Forms
    /\ used \in [Accounts -> 0 .. DailyQuota]
    /\ form \in [Forms -> Claims]
    /\ regenerating \in [Servers -> SUBSET Accounts]
    /\ post \in [Posts -> Post] /\ call \in [Calls -> Call]
    /\ clock \in Ticks
    /\ rotations \in [Forms -> Nat]

\* The partial unique index of api_keys, without counting.
OneActiveKey == \A a \in Accounts : \A k, l \in ActiveKeys(a) : k = l

Serving == {"entered", "checked", "validated", "sampled", "answered"}

\* A post that is served has its account and server, and a form until it is
\* answered; the time it works with is not ahead of the clock.
PostInv ==
    \A p \in Posts :
        /\ post[p].state \in Serving => post[p].server \in Servers /\ post[p].account \in Accounts
        /\ post[p].state \in {"entered", "checked", "validated", "sampled"} => post[p].form \in Forms
        /\ post[p].state \notin Serving => post[p].server = NoServer
        /\ post[p].now <= clock

\* A request that has been looked up presents a key.
CallInv == \A c \in Calls : call[c].state \in {"seen", "accepted"} => call[c].key \in Keys

\* A form that has not been handed out has made no key, and a valid one that
\* has made its key is among the submissions that were recorded.
FormInv ==
    \A f \in Forms :
        /\ form[f].account = NoAccount => rotations[f] = 0 /\ form[f].expires = 0
        /\ form[f].expires > clock => rotations[f] = 0 \/ (rotations[f] = 1 /\ f \in consumed)

IInv == Types /\ OneActiveKey /\ PostInv /\ CallInv /\ FormInv /\ GuardMatchesPosts

(***************************************************************************)
(* Active keys.                                                            *)
(***************************************************************************)

\* What has one element at most has cardinality one at most.
LEMMA AtMostOne ==
    ASSUME NEW S, \A x, y \in S : x = y
    PROVE  Cardinality(S) <= 1
<1>1. CASE S = {}
  BY <1>1, FS_EmptySet
<1>2. CASE S # {}
  <2>1. PICK x \in S : TRUE
    BY <1>2
  <2>2. S = {x}
    BY <2>1
  <2>3. QED
    BY <2>2, FS_Singleton
<1>3. QED
  BY <1>1, <1>2

\* The current key of an account is its active key.
LEMMA CurrentKeyFact ==
    ASSUME OneActiveKey, NEW a \in Accounts
    PROVE  /\ ActiveKeys(a) = {} => CurrentKey(a) = NoKey
           /\ \A k \in ActiveKeys(a) : CurrentKey(a) = k
<1>1. CASE ActiveKeys(a) = {}
  BY <1>1 DEF CurrentKey
<1>2. CASE ActiveKeys(a) # {}
  <2>1. CurrentKey(a) \in ActiveKeys(a)
    BY <1>2 DEF CurrentKey
  <2>2. QED
    BY <1>2, <2>1 DEF OneActiveKey
<1>3. QED
  BY <1>1, <1>2

\* A rotation leaves the account with the new key alone, and the other
\* accounts with the keys they had.
LEMMA RotateKeys ==
    ASSUME IInv, NEW p \in Posts, Rotate(p), NEW a, a = post[p].account
    PROVE  /\ a \in Accounts
           /\ owner' \in [Keys -> Accounts \cup {NoAccount}]
           /\ revoked' \subseteq {l \in Keys : owner'[l] # NoAccount}
           /\ \A b \in Accounts \ {a} : ActiveKeys(b)' = ActiveKeys(b)
           /\ \E k \in Keys :
                /\ owner[k] = NoAccount
                /\ {l \in Keys : owner'[l] # NoAccount} = {l \in Keys : owner[l] # NoAccount} \cup {k}
                /\ ActiveKeys(a)' = {k}
<1>1. a \in Accounts
  BY DEF IInv, PostInv, Rotate, Serving
<1>2. PICK k \in Keys :
        /\ owner[k] = NoAccount
        /\ revoked' = revoked \cup ActiveKeys(a)
        /\ owner' = [owner EXCEPT ![k] = a]
  BY DEF Rotate
<1>3. k \notin revoked' /\ owner'[k] = a
  BY <1>1, <1>2, AccountsAssumption DEF IInv, Types, ActiveKeys
<1>4. \A l \in Keys \ {k} : owner'[l] = owner[l]
  BY <1>2 DEF IInv, Types
<1>5. ActiveKeys(a)' = {k}
  BY <1>2, <1>3, <1>4 DEF ActiveKeys
<1>6. \A b \in Accounts \ {a} : ActiveKeys(b)' = ActiveKeys(b)
  BY <1>2, <1>3, <1>4, AccountsAssumption DEF ActiveKeys
<1>7. revoked' \subseteq {l \in Keys : owner'[l] # NoAccount}
  BY <1>1, <1>2, <1>4, AccountsAssumption DEF IInv, Types, ActiveKeys
<1>8. {l \in Keys : owner'[l] # NoAccount} = {l \in Keys : owner[l] # NoAccount} \cup {k}
  BY <1>1, <1>3, <1>4, AccountsAssumption
<1>9. owner' \in [Keys -> Accounts \cup {NoAccount}]
  BY <1>1, <1>2 DEF IInv, Types
<1>10. QED
  BY <1>1, <1>2, <1>5, <1>6, <1>7, <1>8, <1>9

\* A revocation leaves the account without a key.
LEMMA RevokeKeys ==
    ASSUME NEW a \in Accounts, Revoke(a)
    PROVE  /\ ActiveKeys(a)' = {}
           /\ \A b \in Accounts \ {a} : ActiveKeys(b)' = ActiveKeys(b)
BY DEF Revoke, ActiveKeys

(***************************************************************************)
(* Types.                                                                  *)
(***************************************************************************)

\* A post between two of its steps is well formed.
LEMMA PostTypes ==
    ASSUME Types, NEW p \in Posts, NEW state \in PostStates
    PROVE  /\ Moved(p, state) \in [Posts -> Post]
           /\ Answered(p) \in [Posts -> Post]
           /\ Ended(p) \in [Posts -> Post]
<1>1. 0 \in Ticks
  BY AccountsAssumption DEF Ticks
<1>2. Idle("ended") \in Post
  BY <1>1 DEF Idle, Post, PostStates
<1>3. Moved(p, state) \in [Posts -> Post]
  BY DEF Types, Moved, Post
<1>4. Answered(p) \in [Posts -> Post]
  <2>1. [post[p] EXCEPT !.state = "answered", !.form = NoForm, !.now = 0] \in Post
    BY <1>1 DEF Types, Post, PostStates
  <2>2. Answered(p) = [post EXCEPT ![p] = [post[p] EXCEPT !.state = "answered", !.form = NoForm, !.now = 0]]
    BY DEF Types, Answered
  <2>3. QED
    BY <2>1, <2>2 DEF Types
<1>5. QED
  BY <1>2, <1>3, <1>4 DEF Types, Ended

LEMMA InvInit == Init => IInv
<1> SUFFICES ASSUME Init PROVE IInv
  OBVIOUS
<1> USE AccountsAssumption DEF Init
<1>1. 0 \in Ticks /\ 0 \in 0 .. LastTick + Lifetime /\ 0 \in 0 .. DailyQuota
  BY DEF Ticks
<1>2. Types
  BY <1>1 DEF Types, Claims, Unissued, Idle, Post, PostStates, Call
<1>3. OneActiveKey
  BY DEF OneActiveKey, ActiveKeys
<1>4. PostInv /\ CallInv /\ FormInv
  BY DEF PostInv, CallInv, FormInv, Serving, Idle, Unissued
<1>5. GuardMatchesPosts
  BY DEF GuardMatchesPosts, Idle
<1>6. QED
  BY <1>2, <1>3, <1>4, <1>5 DEF IInv

LEMMA TypesStep == IInv /\ [Next]_vars => Types'
<1> SUFFICES ASSUME IInv, [Next]_vars PROVE Types'
  OBVIOUS
<1> USE DEF IInv
<1>1. ASSUME NEW a \in Accounts, AccountNext(a) PROVE Types'
  <2>1. CASE SignIn(a) \/ \E new \in {"active", "suspended"} : SetStatus(a, new)
    BY <2>1 DEF Types, SignIn, SetStatus
  <2>2. CASE Revoke(a)
    BY <2>2, AccountsAssumption DEF Types, Revoke, ActiveKeys
  <2>3. ASSUME NEW f \in Forms, Render(a, f) PROVE Types'
    <3>1. clock + Lifetime \in 0 .. LastTick + Lifetime
      BY AccountsAssumption DEF Types, Ticks
    <3>2. form' \in [Forms -> Claims]
      BY <2>3, <3>1 DEF Types, Render, Claims
    <3>3. QED
      BY <2>3, <3>2 DEF Types, Render, storeVars
  <2>4. QED
    BY <1>1, <2>1, <2>2, <2>3 DEF AccountNext
<1>2. ASSUME NEW p \in Posts, PostNext(p) PROVE Types'
  <2>1. ASSUME NEW s \in Servers, NEW a \in Accounts, NEW f \in Forms, Enter(p, s, a, f) PROVE Types'
    <3>1. [state |-> "entered", server |-> s, account |-> a, form |-> f, now |-> 0] \in Post
      BY AccountsAssumption DEF Post, PostStates, Ticks
    <3>2. post' \in [Posts -> Post] /\ regenerating' \in [Servers -> SUBSET Accounts]
      <4>1. Ended(p) \in [Posts -> Post]
        BY PostTypes DEF PostStates
      <4>2. QED
        BY <2>1, <3>1, <4>1 DEF Types, Enter
    <3>3. QED
      BY <2>1, <3>2 DEF Types, Enter, storeVars
  <2>2. CASE Check(p) \/ Validate(p) \/ RotateFails(p)
    <3>1. post' \in [Posts -> Post]
      BY <2>2, PostTypes DEF Check, Validate, RotateFails, PostStates
    <3>2. QED
      BY <2>2, <3>1 DEF Types, Check, Validate, RotateFails, storeVars
  <2>3. CASE Sample(p)
    <3>1. post' = [post EXCEPT ![p] = [post[p] EXCEPT !.state = "sampled", !.now = clock]]
      BY <2>3 DEF Types, Sample
    <3>2. [post[p] EXCEPT !.state = "sampled", !.now = clock] \in Post
      BY DEF Types, Post, PostStates
    <3>3. QED
      BY <2>3, <3>1, <3>2 DEF Types, Sample, storeVars
  <2>4. CASE Rotate(p)
    <3>1. post[p].form \in Forms
      BY <2>4 DEF PostInv, Rotate
    <3>2. owner' \in [Keys -> Accounts \cup {NoAccount}] /\ revoked' \subseteq {l \in Keys : owner'[l] # NoAccount}
      BY <2>4, RotateKeys
    <3>3. post' \in [Posts -> Post]
      BY <2>4, PostTypes DEF Rotate, PostStates
    <3>4. consumed' \subseteq Forms /\ rotations' \in [Forms -> Nat]
      BY <2>4, <3>1 DEF Types, Rotate, Unexpired
    <3>5. QED
      BY <2>4, <3>2, <3>3, <3>4 DEF Types, Rotate
  <2>5. CASE Replayed(p)
    <3>1. post' \in [Posts -> Post]
      BY <2>5, PostTypes DEF Replayed, PostStates
    <3>2. QED
      BY <2>5, <3>1 DEF Types, Replayed, Unexpired
  <2>6. CASE Leave(p)
    <3>1. post' \in [Posts -> Post]
      BY <2>6, PostTypes DEF Leave, PostStates
    <3>2. QED
      BY <2>6, <3>1 DEF Types, Leave, storeVars
  <2>7. QED
    BY <1>2, <2>1, <2>2, <2>3, <2>4, <2>5, <2>6 DEF PostNext
<1>3. ASSUME NEW s \in Servers, Crash(s) PROVE Types'
  <2>1. Idle("ended") \in Post
    BY AccountsAssumption DEF Idle, Post, PostStates, Ticks
  <2>2. QED
    BY <1>3, <2>1 DEF Types, Crash, storeVars
<1>4. ASSUME NEW c \in Calls, CallNext(c) PROVE Types'
  <2>1. ASSUME NEW k \in Keys, Look(c, k) PROVE Types'
    <3>1. AccountOf(k) \in Accounts \cup {NoAccount}
      BY DEF Types, AccountOf
    <3>2. QED
      BY <2>1, <3>1 DEF Types, Look, Call, storeVars
  <2>2. CASE Admit(c) \/ Deny(c)
    <3>1. call' \in [Calls -> Call]
      BY <2>2 DEF Types, Admit, Deny, Call
    <3>2. QED
      BY <2>2, <3>1 DEF Types, Admit, Deny, storeVars
  <2>3. CASE Consume(c)
    <3>1. call' \in [Calls -> Call]
      BY <2>3 DEF Types, Consume, Call
    <3>2. used' \in [Accounts -> 0 .. DailyQuota]
      BY <2>3, AccountsAssumption DEF Types, Consume, Admissible, Active
    <3>3. QED
      BY <2>3, <3>1, <3>2 DEF Types, Consume
  <2>4. QED
    BY <1>4, <2>1, <2>2, <2>3 DEF CallNext
<1>5. CASE Tick
  BY <1>5, AccountsAssumption DEF Types, Tick, Ticks, storeVars
<1>6. CASE UNCHANGED vars
  BY <1>6 DEF Types, vars, storeVars
<1>7. QED
  BY <1>1, <1>2, <1>3, <1>4, <1>5, <1>6 DEF Next

(***************************************************************************)
(* Posts and guards.                                                       *)
(***************************************************************************)

\* What the ways to move a post leave of it, and of the other posts.
LEMMA PostMoves ==
    ASSUME Types, NEW p \in Posts, NEW state
    PROVE  /\ \A q \in Posts \ {p} :
                Moved(p, state)[q] = post[q] /\ Answered(p)[q] = post[q] /\ Ended(p)[q] = post[q]
           /\ Moved(p, state)[p].state = state
           /\ Moved(p, state)[p].server = post[p].server /\ Moved(p, state)[p].account = post[p].account
           /\ Moved(p, state)[p].form = post[p].form /\ Moved(p, state)[p].now = post[p].now
           /\ Answered(p)[p].state = "answered" /\ Answered(p)[p].now = 0
           /\ Answered(p)[p].server = post[p].server /\ Answered(p)[p].account = post[p].account
           /\ Ended(p)[p] = Idle("ended")
BY DEF Types, Post, Moved, Answered, Ended

\* The steps between entry and answer, in which a post stays with its server.
Working(p) == Check(p) \/ Validate(p) \/ Sample(p) \/ Rotate(p) \/ Replayed(p) \/ RotateFails(p)

LEMMA WorkingFrame ==
    ASSUME IInv, NEW p \in Posts, Working(p)
    PROVE  /\ regenerating' = regenerating /\ form' = form /\ clock' = clock /\ call' = call
           /\ post[p].state \in Serving \ {"answered"} /\ post'[p].state \in Serving \ {"entered"}
           /\ post'[p].state = "answered" \/ post'[p].form = post[p].form
           /\ post'[p].now <= clock
           /\ \A q \in Posts \ {p} : post'[q] = post[q]
           /\ \A q \in Posts : post'[q].server = post[q].server /\ post'[q].account = post[q].account
<1> USE DEF IInv
<1>1. 0 <= clock /\ clock <= clock
  BY AccountsAssumption DEF Types, Ticks
<1>2. CASE Sample(p)
  BY <1>1, <1>2 DEF Types, Sample, Post, Serving, storeVars
<1>3. CASE Check(p) \/ Validate(p)
  BY <1>1, <1>3, PostMoves DEF Check, Validate, Serving, PostInv
<1>4. CASE Rotate(p) \/ Replayed(p) \/ RotateFails(p)
  BY <1>1, <1>4, PostMoves DEF Rotate, Replayed, RotateFails, Serving
<1>5. QED
  BY <1>2, <1>3, <1>4 DEF Working

\* Posts that stay where they are keep the guards as they are.
LEMMA SameGuards ==
    ASSUME GuardMatchesPosts, regenerating' = regenerating,
           \A q \in Posts : post'[q].server = post[q].server /\ post'[q].account = post[q].account
    PROVE  GuardMatchesPosts'
BY DEF GuardMatchesPosts

\* Each post that moves keeps what is known of posts and guards.
LEMMA PostStep ==
    ASSUME IInv, NEW p \in Posts, PostNext(p)
    PROVE  PostInv' /\ GuardMatchesPosts'
<1> USE DEF IInv
<1>1. CASE Working(p)
  <2>1. GuardMatchesPosts'
    BY <1>1, WorkingFrame, SameGuards
  <2>2. PostInv'
    BY <1>1, WorkingFrame DEF PostInv, Serving
  <2>3. QED
    BY <2>1, <2>2
<1>2. ASSUME NEW s \in Servers, NEW a \in Accounts, NEW f \in Forms, Enter(p, s, a, f)
      PROVE  PostInv' /\ GuardMatchesPosts'
  <2>1. post[p].state = "new" /\ post[p].server = NoServer /\ post[p].server \notin Servers
    BY <1>2, AccountsAssumption DEF Enter, PostInv, Serving
  <2>2. clock' = clock /\ 0 <= clock
    BY <1>2, AccountsAssumption DEF Enter, Types, Ticks
  <2>3. CASE a \in regenerating[s]
    <3>1. post' = Ended(p) /\ regenerating' = regenerating
      BY <1>2, <2>3 DEF Enter
    <3>2. post'[p] = Idle("ended") /\ \A q \in Posts \ {p} : post'[q] = post[q]
      BY <3>1, PostMoves
    <3>3. PostInv'
      BY <2>2, <3>2 DEF PostInv, Idle, Serving
    <3>4. ASSUME NEW t \in Servers
          PROVE  {q \in Posts : post'[q].server = t} = {q \in Posts : post[q].server = t} \ {p}
      BY <3>2, AccountsAssumption DEF Idle
    <3>5. \A t \in Servers : p \notin {q \in Posts : post[q].server = t}
      BY <2>1
    <3>6. GuardMatchesPosts'
      BY <3>1, <3>2, <3>4, <3>5 DEF GuardMatchesPosts
    <3>7. QED
      BY <3>3, <3>6
  <2>4. CASE a \notin regenerating[s]
    <3> DEFINE entered == [state |-> "entered", server |-> s, account |-> a, form |-> f, now |-> 0]
    <3>1. post' = [post EXCEPT ![p] = entered] /\ regenerating' = [regenerating EXCEPT ![s] = @ \cup {a}]
      BY <1>2, <2>4 DEF Enter
    <3>2. post'[p] = entered /\ \A q \in Posts \ {p} : post'[q] = post[q]
      BY <3>1 DEF Types
    <3>3. PostInv'
      BY <2>2, <3>2 DEF PostInv, Serving
    <3>4. \A q \in Posts : post[q].server = s => q # p /\ post[q].account # a
      BY <2>1, <2>4 DEF GuardMatchesPosts
    <3>5. ASSUME NEW t \in Servers
          PROVE  /\ regenerating'[t] = {post'[q].account : q \in {r \in Posts : post'[r].server = t}}
                 /\ \A q, r \in {o \in Posts : post'[o].server = t} : q # r => post'[q].account # post'[r].account
      <4>1. CASE t = s
        <5>1. regenerating'[s] = regenerating[s] \cup {a}
          BY <3>1 DEF Types
        <5>2. regenerating[s] = {post[q].account : q \in {r \in Posts : post[r].server = s}}
          BY DEF GuardMatchesPosts
        <5>3. {r \in Posts : post'[r].server = s} = {r \in Posts : post[r].server = s} \cup {p}
          BY <3>2
        <5>4. {post'[q].account : q \in {r \in Posts : post'[r].server = s}}
                = {post[q].account : q \in {r \in Posts : post[r].server = s}} \cup {a}
          BY <3>2, <3>4, <5>3
        <5>5. \A q, r \in {o \in Posts : post'[o].server = s} : q # r => post'[q].account # post'[r].account
          BY <3>2, <3>4 DEF GuardMatchesPosts
        <5>6. QED
          BY <4>1, <5>1, <5>2, <5>4, <5>5
      <4>2. CASE t # s
        <5>1. regenerating'[t] = regenerating[t]
          BY <3>1, <4>2 DEF Types
        <5>2. {r \in Posts : post'[r].server = t} = {r \in Posts : post[r].server = t}
          BY <2>1, <3>2, <4>2
        <5>3. \A q \in {r \in Posts : post[r].server = t} : post'[q] = post[q]
          BY <2>1, <3>2
        <5>4. QED
          BY <5>1, <5>2, <5>3 DEF GuardMatchesPosts
      <4>3. QED
        BY <4>1, <4>2
    <3>6. QED
      BY <3>3, <3>5 DEF GuardMatchesPosts
  <2>5. QED
    BY <2>3, <2>4
<1>3. CASE Leave(p)
  <2>1. /\ post' = Ended(p) /\ clock' = clock /\ 0 <= clock
        /\ regenerating' = [regenerating EXCEPT ![post[p].server] = @ \ {post[p].account}]
        /\ post[p].server \in Servers
    BY <1>3, AccountsAssumption DEF Leave, PostInv, Serving, Types, Ticks
  <2>2. post'[p] = Idle("ended") /\ \A q \in Posts \ {p} : post'[q] = post[q]
    BY <2>1, PostMoves
  <2>3. PostInv'
    BY <2>1, <2>2 DEF PostInv, Idle, Serving
  <2>4. ASSUME NEW t \in Servers
        PROVE  {q \in Posts : post'[q].server = t} = {q \in Posts : post[q].server = t} \ {p}
    BY <2>2, AccountsAssumption DEF Idle
  <2>5. ASSUME NEW t \in Servers
        PROVE  /\ regenerating'[t] = {post'[q].account : q \in {r \in Posts : post'[r].server = t}}
               /\ \A q, r \in {o \in Posts : post'[o].server = t} : q # r => post'[q].account # post'[r].account
    <3>1. {post'[q].account : q \in {r \in Posts : post'[r].server = t}}
            = {post[q].account : q \in {r \in Posts : post[r].server = t} \ {p}}
      BY <2>2, <2>4
    <3>2. \A q, r \in {o \in Posts : post'[o].server = t} : q # r => post'[q].account # post'[r].account
      BY <2>2, <2>4 DEF GuardMatchesPosts
    <3>3. regenerating'[t] = {post[q].account : q \in {r \in Posts : post[r].server = t} \ {p}}
      <4>1. CASE t = post[p].server
        <5>1. regenerating'[t] = regenerating[t] \ {post[p].account}
          BY <2>1, <4>1 DEF Types
        <5>2. \A q \in {r \in Posts : post[r].server = t} \ {p} : post[q].account # post[p].account
          BY <4>1 DEF GuardMatchesPosts
        <5>3. QED
          BY <5>1, <5>2 DEF GuardMatchesPosts
      <4>2. CASE t # post[p].server
        BY <2>1, <4>2 DEF Types, GuardMatchesPosts
      <4>3. QED
        BY <4>1, <4>2
    <3>4. QED
      BY <3>1, <3>2, <3>3
  <2>6. QED
    BY <2>3, <2>5 DEF GuardMatchesPosts
<1>4. QED
  BY <1>1, <1>2, <1>3 DEF PostNext, Working

\* A server that dies takes its posts and its guard with it.
LEMMA CrashStep ==
    ASSUME IInv, NEW s \in Servers, Crash(s)
    PROVE  PostInv' /\ GuardMatchesPosts'
<1> USE DEF IInv
<1>1. /\ \A q \in Posts : post[q].server = s => post'[q] = Idle("ended")
      /\ \A q \in Posts : post[q].server # s => post'[q] = post[q]
      /\ regenerating' = [regenerating EXCEPT ![s] = {}] /\ clock' = clock /\ 0 <= clock
  BY AccountsAssumption DEF Crash, Types, Ticks
<1>2. PostInv'
  BY <1>1 DEF PostInv, Idle, Serving
<1>3. {q \in Posts : post'[q].server = s} = {} /\ regenerating'[s] = {}
  BY <1>1, AccountsAssumption DEF Idle, Types
<1>4. ASSUME NEW t \in Servers \ {s}
      PROVE  /\ regenerating'[t] = regenerating[t]
             /\ {q \in Posts : post'[q].server = t} = {q \in Posts : post[q].server = t}
             /\ \A q \in {r \in Posts : post[r].server = t} : post'[q] = post[q]
  BY <1>1, AccountsAssumption DEF Idle, Types
<1>5. QED
  BY <1>2, <1>3, <1>4 DEF GuardMatchesPosts

(***************************************************************************)
(* Forms.                                                                  *)
(***************************************************************************)

\* A form makes its key once as long as it is valid: the transaction that
\* makes it records the submission, and deletes recorded ones only with a time
\* at which they have expired.
LEMMA RotateForm ==
    ASSUME IInv, NEW p \in Posts, Rotate(p)
    PROVE  FormInv'
<1> USE DEF IInv
<1>1. PICK g \in Forms : g = post[p].form
  BY DEF PostInv, Rotate
<1>2. /\ rotations' = [rotations EXCEPT ![g] = @ + 1] /\ form' = form /\ clock' = clock
      /\ consumed' = Unexpired(p) \cup {g} /\ g \notin Unexpired(p) /\ form[g].expires > post[p].now
  BY <1>1 DEF Rotate, Fresh
<1>3. post[p].now <= clock /\ post[p].now \in Nat /\ clock \in Nat /\ \A f \in Forms : form[f].expires \in Nat
  BY AccountsAssumption DEF PostInv, Types, Post, Ticks, Claims
<1>4. ASSUME NEW f \in Forms, f # g
      PROVE  /\ form[f].account = NoAccount => rotations'[f] = 0 /\ form[f].expires = 0
             /\ form[f].expires > clock => rotations'[f] = 0 \/ (rotations'[f] = 1 /\ f \in consumed')
  <2>1. rotations'[f] = rotations[f]
    BY <1>2, <1>4 DEF Types
  <2>2. form[f].expires > clock /\ f \in consumed => f \in consumed'
    BY <1>2, <1>3 DEF Unexpired
  <2>3. QED
    BY <2>1, <2>2 DEF FormInv
<1>5. form[g].expires > 0 /\ form[g].account # NoAccount
  BY <1>2, <1>3 DEF FormInv
<1>6. form[g].expires > clock => rotations'[g] = 1 /\ g \in consumed'
  <2>1. g \notin consumed
    BY <1>2 DEF Unexpired
  <2>2. rotations'[g] = rotations[g] + 1
    BY <1>2 DEF Types
  <2>3. QED
    BY <1>2, <2>1, <2>2 DEF FormInv
<1>7. QED
  BY <1>2, <1>4, <1>5, <1>6 DEF FormInv

LEMMA FormStep == IInv /\ [Next]_vars => FormInv'
<1> SUFFICES ASSUME IInv, [Next]_vars PROVE FormInv'
  OBVIOUS
<1> USE DEF IInv
<1>1. ASSUME NEW p \in Posts, Rotate(p) PROVE FormInv'
  BY <1>1, RotateForm
<1>2. ASSUME NEW p \in Posts, Replayed(p) PROVE FormInv'
  <2>1. post[p].now <= clock /\ post[p].now \in Nat /\ clock \in Nat /\ \A f \in Forms : form[f].expires \in Nat
    BY AccountsAssumption DEF PostInv, Types, Post, Ticks, Claims
  <2>2. \A f \in consumed : f \in Forms /\ form[f].expires > clock => f \in consumed'
    BY <1>2, <2>1 DEF Replayed, Unexpired
  <2>3. QED
    BY <1>2, <2>2 DEF FormInv, Replayed
<1>3. ASSUME NEW a \in Accounts, NEW f \in Forms, Render(a, f) PROVE FormInv'
  <2>1. rotations[f] = 0
    BY <1>3 DEF Render, Unissued, FormInv
  <2>2. /\ form' = [form EXCEPT ![f] = [account |-> a, expires |-> clock + Lifetime]]
        /\ UNCHANGED <<consumed, clock, rotations>>
    BY <1>3 DEF Render, storeVars
  <2>3. form'[f].account # NoAccount /\ \A g \in Forms \ {f} : form'[g] = form[g]
    BY <2>2, AccountsAssumption DEF Types
  <2>4. QED
    BY <2>1, <2>2, <2>3 DEF FormInv
<1>4. CASE Tick
  <2>1. clock' = clock + 1 /\ clock \in Nat /\ \A f \in Forms : form[f].expires \in Nat
    BY <1>4, AccountsAssumption DEF Tick, Types, Ticks, Claims
  <2>2. QED
    BY <1>4, <2>1 DEF FormInv, Tick, storeVars
<1>5. CASE \/ \E a \in Accounts : SignIn(a) \/ Revoke(a) \/ \E new \in {"active", "suspended"} : SetStatus(a, new)
           \/ \E p \in Posts :
                \/ \E s \in Servers, a \in Accounts, f \in Forms : Enter(p, s, a, f)
                \/ Check(p) \/ Validate(p) \/ Sample(p) \/ RotateFails(p) \/ Leave(p)
           \/ \E s \in Servers : Crash(s)
           \/ \E c \in Calls : CallNext(c)
           \/ UNCHANGED vars
  <2>1. UNCHANGED <<form, consumed, clock, rotations>>
    BY <1>5 DEF SignIn, Revoke, SetStatus, Enter, Check, Validate, Sample, RotateFails, Leave, Crash,
                CallNext, Look, Admit, Consume, Deny, vars, storeVars
  <2>2. QED
    BY <2>1 DEF FormInv
<1>6. QED
  BY <1>1, <1>2, <1>3, <1>4, <1>5 DEF Next, AccountNext, PostNext

(***************************************************************************)
(* Keys and calls.                                                         *)
(***************************************************************************)

\* The current key depends on the active keys alone.
LEMMA SameCurrent ==
    ASSUME NEW a \in Accounts, ActiveKeys(a)' = ActiveKeys(a)
    PROVE  CurrentKey(a)' = CurrentKey(a)
<1> DEFINE Of(S) == IF S = {} THEN NoKey ELSE CHOOSE k \in S : TRUE
<1>1. CurrentKey(a) = Of(ActiveKeys(a)) /\ CurrentKey(a)' = Of(ActiveKeys(a)')
  BY DEF CurrentKey
<1> HIDE DEF Of
<1>2. QED
  BY <1>1

LEMMA SameKeys ==
    ASSUME UNCHANGED <<owner, revoked>>
    PROVE  \A a \in Accounts : ActiveKeys(a)' = ActiveKeys(a) /\ CurrentKey(a)' = CurrentKey(a)
BY DEF ActiveKeys, CurrentKey

\* Only a revocation and a rotation change which keys are active.
LEMMA KeysFrame ==
    ASSUME [Next]_vars,
           \A a \in Accounts : ~Revoke(a),
           \A p \in Posts : ~Rotate(p)
    PROVE  UNCHANGED <<owner, revoked>>
BY DEF Next, AccountNext, PostNext, CallNext, SignIn, SetStatus, Render, Enter, Check, Validate, Sample, Replayed,
       RotateFails, Leave, Crash, Look, Admit, Consume, Deny, Tick, vars, storeVars

LEMMA KeysStep == IInv /\ [Next]_vars => OneActiveKey'
<1> SUFFICES ASSUME IInv, [Next]_vars PROVE OneActiveKey'
  OBVIOUS
<1>1. ASSUME NEW p \in Posts, Rotate(p) PROVE OneActiveKey'
  <2>1. PICK a : a = post[p].account
    OBVIOUS
  <2>2. \E k : ActiveKeys(a)' = {k}
    BY <1>1, <2>1, RotateKeys
  <2>3. \A b \in Accounts \ {a} : ActiveKeys(b)' = ActiveKeys(b)
    BY <1>1, <2>1, RotateKeys
  <2>4. QED
    BY <2>2, <2>3 DEF IInv, OneActiveKey
<1>2. ASSUME NEW a \in Accounts, Revoke(a) PROVE OneActiveKey'
  <2>1. ActiveKeys(a)' = {} /\ \A b \in Accounts \ {a} : ActiveKeys(b)' = ActiveKeys(b)
    BY <1>2, RevokeKeys
  <2>2. QED
    BY <2>1 DEF IInv, OneActiveKey
<1>3. CASE /\ \A a \in Accounts : ~Revoke(a)
           /\ \A p \in Posts : ~Rotate(p)
  BY <1>3, KeysFrame, SameKeys DEF IInv, OneActiveKey
<1>4. QED
  BY <1>1, <1>2, <1>3

LEMMA CallStep ==
    ASSUME IInv, NEW c \in Calls, CallNext(c)
    PROVE  CallInv'
BY DEF IInv, Types, Call, CallInv, CallNext, Look, Admit, Consume, Deny, Admissible

(***************************************************************************)
(* The inductive invariant holds.                                          *)
(***************************************************************************)

LEMMA InvStep == IInv /\ [Next]_vars => IInv'
<1> SUFFICES ASSUME IInv, [Next]_vars PROVE IInv'
  OBVIOUS
<1>1. Types' /\ FormInv' /\ OneActiveKey'
  BY TypesStep, FormStep, KeysStep
<1>2. ASSUME NEW p \in Posts, PostNext(p) PROVE IInv'
  <2>1. call' = call
    BY <1>2 DEF PostNext, Enter, Check, Validate, Sample, Rotate, Replayed, RotateFails, Leave
  <2>2. QED
    BY <1>1, <1>2, <2>1, PostStep DEF IInv, CallInv
<1>3. ASSUME NEW s \in Servers, Crash(s) PROVE IInv'
  BY <1>1, <1>3, CrashStep DEF IInv, CallInv, Crash
<1>4. ASSUME NEW c \in Calls, CallNext(c) PROVE IInv'
  <2>1. UNCHANGED <<post, regenerating, clock>>
    BY <1>4 DEF CallNext, Look, Admit, Consume, Deny
  <2>2. QED
    BY <1>1, <1>4, <2>1, CallStep DEF IInv, PostInv, GuardMatchesPosts
<1>5. CASE Tick
  <2>1. clock' = clock + 1 /\ clock \in Nat /\ \A p \in Posts : post[p].now \in Nat
    BY <1>5, AccountsAssumption DEF IInv, Types, Tick, Ticks, Post
  <2>2. UNCHANGED <<post, regenerating, call>>
    BY <1>5 DEF Tick
  <2>3. \A p \in Posts : post[p].now <= clock'
    BY <2>1 DEF IInv, PostInv
  <2>4. QED
    BY <1>1, <2>2, <2>3 DEF IInv, PostInv, CallInv, GuardMatchesPosts
<1>6. CASE (\E a \in Accounts : AccountNext(a)) \/ UNCHANGED vars
  <2>1. UNCHANGED <<post, regenerating, call, clock>>
    BY <1>6 DEF AccountNext, SignIn, SetStatus, Revoke, Render, vars
  <2>2. QED
    BY <1>1, <2>1 DEF IInv, PostInv, CallInv, GuardMatchesPosts
<1>7. QED
  BY <1>2, <1>3, <1>4, <1>5, <1>6 DEF Next

(***************************************************************************)
(* The register of credentials.                                            *)
(***************************************************************************)

\* What the register sees of the accounts.
CurrentMap == [a \in Accounts |-> CurrentKey(a)]
Minted == {k \in Keys : owner[k] # NoAccount}
Enabled == {a \in Accounts : Active(a)}
AcceptedWork == {<<call[c].key, c>> : c \in {d \in Calls : call[d].state = "accepted"}}

registered == <<CurrentMap, Minted, Enabled, AcceptedWork>>

LEMMA RotateRefines ==
    ASSUME IInv, IInv', NEW p \in Posts, Rotate(p)
    PROVE  Register!RegisterNext
<1>1. PICK a \in Accounts : a = post[p].account
  BY RotateKeys
<1>2. PICK k \in Keys : owner[k] = NoAccount /\ Minted' = Minted \cup {k} /\ ActiveKeys(a)' = {k}
  BY <1>1, RotateKeys DEF Minted
<1>3. \A b \in Accounts \ {a} : ActiveKeys(b)' = ActiveKeys(b)
  BY <1>1, RotateKeys
<1>4. CurrentKey(a)' = k
  BY <1>2 DEF CurrentKey
<1>5. \A b \in Accounts \ {a} : CurrentKey(b)' = CurrentKey(b)
  BY <1>3, SameCurrent
<1>6. CurrentMap' = [CurrentMap EXCEPT ![a] = k]
  BY <1>4, <1>5 DEF CurrentMap
<1>7. Enabled' = Enabled /\ AcceptedWork' = AcceptedWork
  BY DEF Rotate, Enabled, Active, AcceptedWork
<1>8. Register!Mint(a, k)
  BY <1>2, <1>6, <1>7 DEF Register!Mint, CurrentMap, Minted, Enabled, AcceptedWork
<1>9. QED
  BY <1>8 DEF Register!RegisterNext

LEMMA AccountRefines ==
    ASSUME IInv, NEW a \in Accounts, AccountNext(a)
    PROVE  Register!RegisterNext \/ UNCHANGED registered
<1>1. AcceptedWork' = AcceptedWork /\ Minted' = Minted
  BY DEF AccountNext, SignIn, SetStatus, Revoke, Render, AcceptedWork, Minted, storeVars
<1>2. CASE Revoke(a)
  <2>1. ActiveKeys(a)' = {} /\ \A b \in Accounts \ {a} : ActiveKeys(b)' = ActiveKeys(b)
    BY <1>2, RevokeKeys
  <2>2. CurrentKey(a)' = NoKey /\ \A b \in Accounts \ {a} : CurrentKey(b)' = CurrentKey(b)
    BY <2>1, SameCurrent DEF CurrentKey
  <2>3. CurrentMap' = [CurrentMap EXCEPT ![a] = NoKey]
    BY <2>2 DEF CurrentMap
  <2>4. Enabled' = Enabled
    BY <1>2 DEF Revoke, Enabled, Active
  <2>5. Register!Withdraw(a)
    BY <1>1, <2>3, <2>4 DEF Register!Withdraw, CurrentMap, Minted, Enabled, AcceptedWork
  <2>6. QED
    BY <2>5 DEF Register!RegisterNext
<1>3. CASE SignIn(a) \/ \E new \in {"active", "suspended"} : SetStatus(a, new)
  <2>1. UNCHANGED <<owner, revoked>>
    BY <1>3 DEF SignIn, SetStatus
  <2>2. CurrentMap' = CurrentMap
    BY <2>1, SameKeys DEF CurrentMap
  <2>3. \A b \in Accounts \ {a} : status'[b] = status[b]
    BY <1>3 DEF IInv, Types, SignIn, SetStatus
  <2>4. Enabled' \in {Enabled \cup {a}, Enabled \ {a}}
    BY <2>3 DEF Enabled, Active
  <2>5. Register!SetStanding(a)
    BY <1>1, <2>2, <2>4 DEF Register!SetStanding, CurrentMap, Minted, Enabled, AcceptedWork
  <2>6. QED
    BY <2>5 DEF Register!RegisterNext
<1>4. CASE \E f \in Forms : Render(a, f)
  <2>1. UNCHANGED <<owner, revoked, status>>
    BY <1>4 DEF Render, storeVars
  <2>2. CurrentMap' = CurrentMap /\ Enabled' = Enabled
    BY <2>1, SameKeys DEF CurrentMap, Enabled, Active
  <2>3. QED
    BY <1>1, <2>2 DEF registered
<1>5. QED
  BY <1>2, <1>3, <1>4 DEF AccountNext

\* Work is accepted from the key that is current when the transaction runs.
LEMMA CallRefines ==
    ASSUME IInv, NEW c \in Calls, CallNext(c)
    PROVE  Register!RegisterNext \/ UNCHANGED registered
<1> USE DEF IInv
<1>1. UNCHANGED <<owner, revoked, status>>
  BY DEF CallNext, Look, Admit, Consume, Deny, storeVars
<1>2. CurrentMap' = CurrentMap /\ Enabled' = Enabled /\ Minted' = Minted
  BY <1>1, SameKeys DEF CurrentMap, Enabled, Active, Minted
<1>3. CASE (\E k \in Keys : Look(c, k)) \/ Deny(c)
  <2>1. call[c].state # "accepted" /\ call'[c].state # "accepted" /\ \A d \in Calls \ {c} : call'[d] = call[d]
    BY <1>3 DEF Types, Look, Deny, Call
  <2>2. AcceptedWork' = AcceptedWork
    BY <2>1 DEF AcceptedWork
  <2>3. QED
    BY <1>2, <2>2 DEF registered
<1>4. CASE Admit(c) \/ Consume(c)
  <2>1. PICK k \in Keys, a \in Accounts : k = call[c].key /\ a = call[c].account
    BY <1>4 DEF Admit, Consume, Admissible, Active, CallInv
  <2>2. k \in ActiveKeys(a) /\ a \in Enabled
    BY <1>4, <2>1, AccountsAssumption DEF Admit, Consume, Admissible, AccountOf, ActiveKeys, Enabled
  <2>3. CurrentMap[a] = k /\ k # NoKey
    BY <2>2, CurrentKeyFact, AccountsAssumption DEF CurrentMap
  <2>4. /\ call[c].state # "accepted" /\ call'[c].state = "accepted" /\ call'[c].key = k
        /\ \A d \in Calls \ {c} : call'[d] = call[d]
    BY <1>4, <2>1 DEF Types, Admit, Consume, Admissible, Call
  <2>5. AcceptedWork' = AcceptedWork \cup {<<k, c>>}
    BY <2>4 DEF AcceptedWork
  <2>6. c \notin {pair[2] : pair \in AcceptedWork}
    BY <2>4 DEF AcceptedWork
  <2>7. Register!Accept(a, k, c)
    BY <1>2, <2>2, <2>3, <2>5, <2>6 DEF Register!Accept, CurrentMap, Minted, Enabled, AcceptedWork
  <2>8. QED
    BY <2>1, <2>7 DEF Register!RegisterNext
<1>5. QED
  BY <1>3, <1>4 DEF CallNext

LEMMA RegisterStep == IInv /\ IInv' /\ [Next]_vars => [Register!RegisterNext]_(Register!registerVars)
<1> SUFFICES ASSUME IInv, IInv', [Next]_vars PROVE Register!RegisterNext \/ UNCHANGED registered
  BY DEF Register!registerVars, registered, CurrentMap, Minted, Enabled, AcceptedWork
<1>1. CASE \E p \in Posts : Rotate(p)
  BY <1>1, RotateRefines
<1>2. CASE \/ \E p \in Posts : PostNext(p) /\ ~Rotate(p)
           \/ \E s \in Servers : Crash(s)
           \/ Tick
           \/ UNCHANGED vars
  <2>1. UNCHANGED <<owner, revoked, status, call>>
    BY <1>2 DEF PostNext, Enter, Check, Validate, Sample, Replayed, RotateFails, Leave, Crash, Tick, vars, storeVars
  <2>2. QED
    BY <2>1, SameKeys DEF registered, CurrentMap, Minted, Enabled, Active, AcceptedWork
<1>3. QED
  BY <1>1, <1>2, AccountRefines, CallRefines DEF Next

(***************************************************************************)
(* The results.                                                            *)
(***************************************************************************)

\* The variables keep their types; an account never has two active keys, and
\* only minted keys are revoked.
THEOREM TypeCorrect == Spec => []TypeOK
<1>1. IInv => TypeOK
  BY AtMostOne DEF IInv, Types, OneActiveKey, TypeOK
<1>2. QED
  BY <1>1, InvInit, InvStep, PTL DEF Spec

\* A valid form makes one key at most, and the guards of the servers follow
\* the posts they serve.
THEOREM FormSafety == Spec => []FormsAreServedOnce
<1>1. IInv => FormsAreServedOnce
  BY DEF IInv, FormInv, FormsAreServedOnce, ValidFormRotatesOnce
<1>2. QED
  BY <1>1, InvInit, InvStep, PTL DEF Spec

\* The accounts implement CredentialRegister: keys that were replaced or
\* revoked never return, and work is accepted from current keys only.
THEOREM Refinement == Spec => ImplementsRegister
<1>1. ASSUME Init PROVE Register!RegisterInit
  <2>1. \A a \in Accounts : CurrentKey(a) = NoKey
    BY <1>1, AccountsAssumption DEF Init, CurrentKey, ActiveKeys
  <2>2. QED
    BY <1>1, <2>1 DEF Init, Register!RegisterInit, Active
<1>2. QED
  BY <1>1, InvInit, InvStep, RegisterStep, PTL DEF Spec, ImplementsRegister, Register!RegisterSpec

=============================================================================
