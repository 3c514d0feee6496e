------------------------- MODULE CredentialRegister -------------------------
(***************************************************************************)
(* What the account service promises to those who accept work from keys:   *)
(* an account has one current key at most, a key that has been replaced or *)
(* revoked never returns, and work is accepted only from the current key   *)
(* of an account that is enabled at that moment.                           *)
(***************************************************************************)
CONSTANTS Holders, Tokens, Work, None

VARIABLES current,   \* Holders -> the key each may use, or None
          minted,    \* keys that ever existed
          enabled,   \* accounts in good standing
          acceptedWork

registerVars == <<current, minted, enabled, acceptedWork>>

RegisterInit ==
    /\ current = [h \in Holders |-> None]
    /\ minted = {} /\ enabled = {} /\ acceptedWork = {}

Mint(h, t) ==
    /\ t \notin minted
    /\ minted' = minted \cup {t}
    /\ current' = [current EXCEPT ![h] = t]
    /\ UNCHANGED <<enabled, acceptedWork>>

Withdraw(h) ==
    /\ current' = [current EXCEPT ![h] = None]
    /\ UNCHANGED <<minted, enabled, acceptedWork>>

SetStanding(h) ==
    /\ enabled' \in {enabled \cup {h}, enabled \ {h}}
    /\ UNCHANGED <<current, minted, acceptedWork>>

Accept(h, t, w) ==
    /\ h \in enabled /\ t # None /\ current[h] = t
    /\ w \notin {pair[2] : pair \in acceptedWork}
    /\ acceptedWork' = acceptedWork \cup {<<t, w>>}
    /\ UNCHANGED <<current, minted, enabled>>

RegisterNext ==
    \E h \in Holders :
        \/ Withdraw(h) \/ SetStanding(h)
        \/ \E t \in Tokens : Mint(h, t) \/ \E w \in Work : Accept(h, t, w)

RegisterSpec == RegisterInit /\ [][RegisterNext]_registerVars

=============================================================================
