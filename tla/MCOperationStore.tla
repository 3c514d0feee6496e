-------------------------- MODULE MCOperationStore --------------------------
(* Instances of OperationStore for TLC.                                    *)
EXTENDS OperationStore, TLC

\* Every digest is one unit; MCHosted has larger ones.
MCWorkUnits == [r \in Requests |-> 1]

MCSymmetry == Permutations(Owners) \cup Permutations(OpIds) \cup Permutations(Principals)

=============================================================================
