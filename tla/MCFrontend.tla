------------------------------ MODULE MCFrontend ------------------------------
(* An instance of Frontend for TLC.                                           *)
EXTENDS Frontend, TLC

CONSTANTS t1, t2, c1, c2, o1, o2, i1, i2, r1

\* One tab with two requests at a time, another one without.
CallsOfTabs == (t1 :> {c1, c2}) @@ (t2 :> {})

\* A list of two full pages and one without an entry.
PageCounts == (o1 :> 2) @@ (o2 :> 0)

\* Two instances, one with a repository.
RepositoriesOfInstances == (i1 :> {r1}) @@ (i2 :> {})

\* One change for each of the things a page shows.
OfferedChanges == {<<"PATCH", "project">>, <<"PATCH", "members">>, <<"DELETE", "model">>}

=============================================================================
