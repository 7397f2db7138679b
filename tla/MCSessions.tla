------------------------------ MODULE MCSessions ------------------------------
(* Instances of Sessions for TLC: two requests of one user, a worker thread   *)
(* that serves terminations and the idle job.                                 *)
EXTENDS Sessions

CONSTANTS s1, s2, u1, full, lean, b1, b2, route, reaper

OneUser == [s \in Sessions |-> u1]

\* Two requests for the same combination, which uses every integration.
SameCombo == [s \in Sessions |-> full]

\* Two requests for different combinations of compatible versions.
TwoCombos == [s \in Sessions |-> IF s = s1 THEN full ELSE lean]

\* replicaCount.backend: 1, the default of the Helm chart.
OneBackend == [x \in Sessions \cup Threads |-> b1]

\* A rolling update: the first session and the idle job on one backend, the
\* second session and the terminations on the other one.
TwoBackends == [x \in Sessions \cup Threads |-> IF x \in {s1, reaper} THEN b1 ELSE b2]

=============================================================================
