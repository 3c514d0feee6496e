---------------------------- MODULE MCGenerations ----------------------------
(* Instances of Generations for TLC.                                         *)
EXTENDS Generations, TLC

MCSymmetry == Permutations(Ids) \cup Permutations(Commands) \cup Permutations(Readers)

=============================================================================
