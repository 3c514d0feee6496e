--------------------------- MODULE MCBetaAccounts ---------------------------
(* Instances of BetaAccounts for TLC.                                        *)
EXTENDS BetaAccounts, TLC

MCSymmetry == Permutations(Accounts) \cup Permutations(Keys) \cup Permutations(Forms)
              \cup Permutations(Servers) \cup Permutations(Posts)

=============================================================================
