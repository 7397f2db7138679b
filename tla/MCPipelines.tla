----------------------------- MODULE MCPipelines -----------------------------
(* Instances of Pipelines for TLC.                                            *)
EXTENDS Pipelines, TLC

CONSTANTS p1, p2, r1

\* A run of each of two pipelines, or every run of one pipeline.
TwoPipelines == [r \in Runs |-> IF r = r1 THEN p1 ELSE p2]
OnePipeline == [r \in Runs |-> p1]

JobSymmetry == Permutations(Jobs)

=============================================================================
