--------------------------- MODULE ExecutionLedger ---------------------------
(***************************************************************************)
(* What operation admission promises to the providers behind it, whatever  *)
(* processes, leases and transactions implement it: no operation is        *)
(* executed twice, and never more than Limit operations execute at once.   *)
(***************************************************************************)
EXTENDS Naturals, FiniteSets

CONSTANTS Ops, Limit

VARIABLES running,  \* operations being executed
          started   \* operations whose execution ever began

ledgerVars == <<running, started>>

LedgerInit == running = {} /\ started = {}

\* An operation begins: for the first time, and only below the limit.
Begin(op) ==
    /\ op \in Ops \ started
    /\ Cardinality(running) < Limit
    /\ running' = running \cup {op}
    /\ started' = started \cup {op}

\* Operations end: one on its own, or all those of a process that dies.
End(some) ==
    /\ running' = running \ some
    /\ started' = started

LedgerNext ==
    \/ \E op \in Ops : Begin(op)
    \/ \E some \in SUBSET running : End(some)

LedgerSpec == LedgerInit /\ [][LedgerNext]_ledgerVars

=============================================================================
