--------------------------- MODULE MCEvaluationJobs ---------------------------
(* Instances of EvaluationJobs for TLC.                                      *)
EXTENDS EvaluationJobs

CONSTANTS g1

\* All jobs capture the same generation.
MCGenOf == [j \in Jobs |-> g1]

=============================================================================
