---------------------------- MODULE BetaAccounts ----------------------------
(***************************************************************************)
(* Hosted accounts and their API keys: storage/auth_store.py,              *)
(* services/beta_auth.py and the key-generation route of interfaces/mcp.py.*)
(*                                                                         *)
(* Several server processes share one SQLite database.  Every mutation is  *)
(* one BEGIN IMMEDIATE transaction, but the checks that precede it read in *)
(* transactions of their own, and the time a transaction works with is     *)
(* sampled before it waits for the writer lock.  A key-generation form     *)
(* carries a signed submission id, so that a repeated post is recognized.  *)
(*                                                                         *)
(* Abstracted: keys, submission ids and accounts are model values (secrets *)
(* are fresh, signatures cannot be forged); time is counted in ticks, half *)
(* an hour is Lifetime of them; usage of a single UTC day is counted; the  *)
(* audit trail, written in the same transactions, is left out; SQLite      *)
(* refusals roll back and are RotateFails or stutters.                     *)
(***************************************************************************)
EXTENDS Naturals, FiniteSets

CONSTANTS
    Accounts, NoAccount,
    Keys, NoKey,     \* pool of secrets.token_urlsafe keys
    Forms, NoForm,   \* pool of submission ids
    Servers, NoServer,
    Posts,           \* pool of key-generation requests
    Calls,           \* pool of requests that present a key
    Lifetime,        \* ticks for which a form is valid
    DailyQuota,      \* quota of consume_quota_for_api_key
    LastTick         \* bound on the clock

ASSUME AccountsAssumption ==
    /\ NoAccount \notin Accounts /\ NoKey \notin Keys
    /\ NoForm \notin Forms /\ NoServer \notin Servers
    /\ Lifetime \in Nat \ {0} /\ DailyQuota \in Nat \ {0} /\ LastTick \in Nat

VARIABLES
    status,       \* accounts.status, or "absent"
    owner,        \* api_keys: Keys -> account, or NoAccount for a key not minted
    revoked,      \* api_keys with revoked_at
    consumed,     \* api_key_submissions
    used,         \* daily_usage of the day
    form,         \* Forms -> the claims of each form handed out
    regenerating, \* Servers -> accounts in regenerating_accounts
    post,         \* Posts -> state of each key-generation request
    call,         \* Calls -> state of each request with a key
    clock,
    rotations     \* history: Forms -> keys minted by each form

storeVars == <<status, owner, revoked, consumed, used>>
vars == <<storeVars, form, regenerating, post, call, clock, rotations>>

Ticks == 0 .. LastTick
Claims == [account : Accounts \cup {NoAccount}, expires : 0 .. LastTick + Lifetime]
Unissued == [account |-> NoAccount, expires |-> 0]

PostStates == {"new", "entered", "checked", "validated", "sampled", "answered", "ended"}
Post == [state : PostStates, server : Servers \cup {NoServer}, account : Accounts \cup {NoAccount},
         form : Forms \cup {NoForm}, now : Ticks]
Call == [state : {"new", "seen", "accepted", "denied"}, key : Keys \cup {NoKey},
         account : Accounts \cup {NoAccount}]

\* A request of the pool before it arrives and after it has ended.
Idle(state) == [state |-> state, server |-> NoServer, account |-> NoAccount, form |-> NoForm, now |-> 0]

\* _fetch_account_by_key_hash: the account of a key that is not revoked.
AccountOf(k) == IF k \in revoked THEN NoAccount ELSE owner[k]

ActiveKeys(a) == {k \in Keys : owner[k] = a /\ k \notin revoked}

Active(a) == a \in Accounts /\ status[a] = "active"

-----------------------------------------------------------------------------
Init ==
    /\ status = [a \in Accounts |-> "absent"]
    /\ owner = [k \in Keys |-> NoAccount] /\ revoked = {}
    /\ consumed = {} /\ used = [a \in Accounts |-> 0]
    /\ form = [f \in Forms |-> Unissued]
    /\ regenerating = [s \in Servers |-> {}]
    /\ post = [p \in Posts |-> Idle("new")]
    /\ call = [c \in Calls |-> [state |-> "new", key |-> NoKey, account |-> NoAccount]]
    /\ clock = 0
    /\ rotations = [f \in Forms |-> 0]

(* Accounts and operators.                                                 *)

\* upsert_account_from_github: a sign-in creates the account; a later one
\* leaves the status as it is.
SignIn(a) ==
    /\ status[a] = "absent"
    /\ status' = [status EXCEPT ![a] = "active"]
    /\ UNCHANGED <<owner, revoked, consumed, used, form, regenerating, post, call, clock, rotations>>

\* suspend_account and resume_account.
SetStatus(a, new) ==
    /\ status[a] # "absent"
    /\ status' = [status EXCEPT ![a] = new]
    /\ UNCHANGED <<owner, revoked, consumed, used, form, regenerating, post, call, clock, rotations>>

Revoke(a) ==
    /\ status[a] # "absent"
    /\ revoked' = revoked \cup ActiveKeys(a)
    /\ UNCHANGED <<status, owner, consumed, used, form, regenerating, post, call, clock, rotations>>

\* The dashboard, or the page that answers a post, hands out a form.
Render(a, f) ==
    /\ status[a] # "absent" /\ form[f] = Unissued
    /\ form' = [form EXCEPT ![f] = [account |-> a, expires |-> clock + Lifetime]]
    /\ UNCHANGED <<storeVars, regenerating, post, call, clock, rotations>>

-----------------------------------------------------------------------------
(* beta_regenerate_api_key.                                                *)

Moved(p, state) == [post EXCEPT ![p].state = state]

\* issue_api_key has returned or raised: only the page is left to render.
Answered(p) == [post EXCEPT ![p].state = "answered", ![p].form = NoForm, ![p].now = 0]

Ended(p) == [post EXCEPT ![p] = Idle("ended")]

\* A signed-in browser posts a form, perhaps of another account, perhaps
\* again.  The server admits one post per account at a time.
Enter(p, s, a, f) ==
    /\ post[p].state = "new" /\ status[a] # "absent" /\ form[f] # Unissued
    /\ IF a \in regenerating[s]
       THEN /\ post' = Ended(p)
            /\ UNCHANGED regenerating
       ELSE /\ post' = [post EXCEPT ![p] = [state |-> "entered", server |-> s, account |-> a,
                                            form |-> f, now |-> 0]]
            /\ regenerating' = [regenerating EXCEPT ![s] = @ \cup {a}]
    /\ UNCHANGED <<storeVars, form, call, clock, rotations>>

\* issue_api_key reads the account: a suspended one gets no key.
Check(p) ==
    /\ post[p].state = "entered"
    /\ post' = IF Active(post[p].account) THEN Moved(p, "checked") ELSE Answered(p)
    /\ UNCHANGED <<storeVars, form, regenerating, call, clock, rotations>>

\* _validate_api_key_submission.
Validate(p) ==
    LET claims == form[post[p].form]
    IN  /\ post[p].state = "checked"
        /\ post' = IF claims.account = post[p].account /\ claims.expires > clock
                   THEN Moved(p, "validated") ELSE Answered(p)
        /\ UNCHANGED <<storeVars, form, regenerating, call, clock, rotations>>

\* The time of the rotation is read before its transaction begins.
Sample(p) ==
    /\ post[p].state = "validated"
    /\ post' = [post EXCEPT ![p].state = "sampled", ![p].now = clock]
    /\ UNCHANGED <<storeVars, form, regenerating, call, clock, rotations>>

\* Mutant of Unexpired: the comparison is the other way round.
UnexpiredReversed(p) == {f \in consumed : form[f].expires <= post[p].now}

\* The submissions that DELETE ... WHERE expires_at <= now leaves.
Unexpired(p) == {f \in consumed : form[f].expires > post[p].now}

\* The submission is inserted: it has not been used and has not expired.
Fresh(p) == post[p].form \notin Unexpired(p) /\ form[post[p].form].expires > post[p].now

\* Mutant of Rotate: the keys of before stay.
RotateKeepsOld(p) ==
    /\ post[p].state = "sampled" /\ Fresh(p)
    /\ \E k \in Keys :
        /\ owner[k] = NoAccount
        /\ owner' = [owner EXCEPT ![k] = post[p].account]
    /\ consumed' = Unexpired(p) \cup {post[p].form}
    /\ rotations' = [rotations EXCEPT ![post[p].form] = @ + 1]
    /\ post' = Answered(p)
    /\ UNCHANGED <<status, revoked, used, form, regenerating, call, clock>>

\* rotate_api_key: one transaction records the submission, revokes the key of
\* before and inserts the new one.
Rotate(p) ==
    /\ post[p].state = "sampled" /\ Fresh(p)
    /\ \E k \in Keys :
        /\ owner[k] = NoAccount
        /\ revoked' = revoked \cup ActiveKeys(post[p].account)
        /\ owner' = [owner EXCEPT ![k] = post[p].account]
    /\ consumed' = Unexpired(p) \cup {post[p].form}
    /\ rotations' = [rotations EXCEPT ![post[p].form] = @ + 1]
    /\ post' = Answered(p)
    /\ UNCHANGED <<status, used, form, regenerating, call, clock>>

\* The submission was used already, or expired in between: the transaction
\* commits what it deleted and no key is made.
Replayed(p) ==
    /\ post[p].state = "sampled" /\ ~Fresh(p)
    /\ consumed' = Unexpired(p)
    /\ post' = Answered(p)
    /\ UNCHANGED <<status, owner, revoked, used, form, regenerating, call, clock, rotations>>

\* A storage failure rolls the rotation back.
RotateFails(p) ==
    /\ post[p].state = "sampled"
    /\ post' = Answered(p)
    /\ UNCHANGED <<storeVars, form, regenerating, call, clock, rotations>>

\* The answer is rendered, or the browser has gone (a cancellation waits for
\* the work in progress); either way the guard is released.
Leave(p) ==
    /\ post[p].state \in {"entered", "answered"}
    /\ post' = Ended(p)
    /\ regenerating' = [regenerating EXCEPT ![post[p].server] = @ \ {post[p].account}]
    /\ UNCHANGED <<storeVars, form, call, clock, rotations>>

\* A server process dies and is restarted; its guard was in memory.
Crash(s) ==
    /\ post' = [p \in Posts |-> IF post[p].server = s THEN Idle("ended") ELSE post[p]]
    /\ regenerating' = [regenerating EXCEPT ![s] = {}]
    /\ post' # post
    /\ UNCHANGED <<storeVars, form, call, clock, rotations>>

-----------------------------------------------------------------------------
(* Requests that present a key.                                            *)

\* authenticate_api_key, and the preliminary read of consume_quota_for_api_key.
Look(c, k) ==
    /\ call[c].state = "new"
    /\ call' = [call EXCEPT ![c] =
                    [state |-> IF AccountOf(k) # NoAccount THEN "seen" ELSE "denied",
                     key |-> k, account |-> AccountOf(k)]]
    /\ UNCHANGED <<storeVars, form, regenerating, post, clock, rotations>>

\* Mutant of Admissible: what Look has read still holds.
AdmissibleSeen(c) == call[c].state = "seen"

\* Under the writer lock the key and its account are looked up again.
Admissible(c) ==
    /\ call[c].state = "seen"
    /\ AccountOf(call[c].key) = call[c].account
    /\ Active(call[c].account)

\* admit_operation: work is accepted in the transaction that reads the
\* credential.  (Limits and charges are those of module OperationStore.)
Admit(c) ==
    /\ Admissible(c)
    /\ call' = [call EXCEPT ![c].state = "accepted"]
    /\ UNCHANGED <<storeVars, form, regenerating, post, clock, rotations>>

\* consume_quota_for_api_key: the same, against the daily count of requests.
Consume(c) ==
    /\ Admissible(c)
    /\ used[call[c].account] < DailyQuota
    /\ used' = [used EXCEPT ![call[c].account] = @ + 1]
    /\ call' = [call EXCEPT ![c].state = "accepted"]
    /\ UNCHANGED <<status, owner, revoked, consumed, form, regenerating, post, clock, rotations>>

\* Either refuses: the credential has changed, or a limit is reached.
Deny(c) ==
    /\ call[c].state = "seen"
    /\ call' = [call EXCEPT ![c].state = "denied"]
    /\ UNCHANGED <<storeVars, form, regenerating, post, clock, rotations>>

Tick ==
    /\ clock < LastTick
    /\ clock' = clock + 1
    /\ UNCHANGED <<storeVars, form, regenerating, post, call, rotations>>

-----------------------------------------------------------------------------
AccountNext(a) ==
    \/ SignIn(a) \/ Revoke(a)
    \/ \E new \in {"active", "suspended"} : SetStatus(a, new)
    \/ \E f \in Forms : Render(a, f)

PostNext(p) ==
    \/ \E s \in Servers, a \in Accounts, f \in Forms : Enter(p, s, a, f)
    \/ Check(p) \/ Validate(p) \/ Sample(p)
    \/ Rotate(p) \/ Replayed(p) \/ RotateFails(p) \/ Leave(p)

CallNext(c) ==
    \/ \E k \in Keys : Look(c, k)
    \/ Admit(c) \/ Consume(c) \/ Deny(c)

Next ==
    \/ \E a \in Accounts : AccountNext(a)
    \/ \E p \in Posts : PostNext(p)
    \/ \E s \in Servers : Crash(s)
    \/ \E c \in Calls : CallNext(c)
    \/ Tick

Spec == Init /\ [][Next]_vars

-----------------------------------------------------------------------------
(* Properties.                                                             *)

\* Every variable has its type; an account never has two active keys
\* (idx_api_keys_active_account), and only minted keys are revoked.
TypeOK ==
    /\ status \in [Accounts -> {"absent", "active", "suspended"}]
    /\ owner \in [Keys -> Accounts \cup {NoAccount}]
    /\ revoked \subseteq {k \in Keys : owner[k] # NoAccount}
    /\ \A a \in Accounts : Cardinality(ActiveKeys(a)) <= 1
    /\ consumed \subseteq Forms
    /\ used \in [Accounts -> 0 .. DailyQuota]
    /\ form \in [Forms -> Claims]
    /\ regenerating \in [Servers -> SUBSET Accounts]
    /\ post \in [Posts -> Post] /\ call \in [Calls -> Call]
    /\ clock \in Ticks
    /\ rotations \in [Forms -> Nat]

\* A form that is still valid has made one key at most, although posts of it
\* may run in several processes, wait for the writer with an old time, and
\* meet the rotations of other accounts, which delete expired submissions.
ValidFormRotatesOnce ==
    \A f \in Forms : form[f].expires > clock => rotations[f] <= 1

\* The guard of a server names exactly the accounts whose posts it serves,
\* one post for each: it neither lets a second one in nor stays behind.
GuardMatchesPosts ==
    \A s \in Servers :
        LET serving == {p \in Posts : post[p].server = s}
        IN  /\ regenerating[s] = {post[p].account : p \in serving}
            /\ \A p, q \in serving : p # q => post[p].account # post[q].account

\* Both: a post of a valid form rotates once, and the guards follow the posts.
FormsAreServedOnce == ValidFormRotatesOnce /\ GuardMatchesPosts

\* The accounts implement the register of credentials: keys that were replaced
\* or revoked never return, and work is accepted only from the current key of
\* an account in good standing, whatever commits after it was looked up.
CurrentKey(a) == IF ActiveKeys(a) = {} THEN NoKey ELSE CHOOSE k \in ActiveKeys(a) : TRUE

Register == INSTANCE CredentialRegister WITH
                Holders <- Accounts, Tokens <- Keys, Work <- Calls, None <- NoKey,
                current <- [a \in Accounts |-> CurrentKey(a)],
                minted <- {k \in Keys : owner[k] # NoAccount},
                enabled <- {a \in Accounts : Active(a)},
                acceptedWork <- {<<call[c].key, c>> : c \in {d \in Calls : call[d].state = "accepted"}}

ImplementsRegister == Register!RegisterSpec

\* docs/hosted-beta-operations.md: "Refreshing or retrying a completed form
\* redirects to /beta and preserves the active key".
FormRotatesOnce == \A f \in Forms : rotations[f] <= 1

=============================================================================
