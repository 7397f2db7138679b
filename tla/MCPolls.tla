-------------------------------- MODULE MCPolls --------------------------------
(* The three parts of the frontend that poll the backend, for the liveness    *)
(* runs of TLC.  As in Frontend, an initial state picks the part that moves.*)
EXTENDS Viewer, RunPage, SessionList

VARIABLE poll \* the part that moves

pollVars == <<poll, viewVars, rpVars, slVars>>

PollsInit ==
    /\ poll \in {"viewer", "run", "sessions"}
    /\ ViewerInit /\ (poll # "viewer" => viewRemote \in [ViewSessions -> {"pending"}])
    /\ RunPageInit /\ (poll # "run" => rpRemote \in [Runs -> {"pending"}])
    /\ SessionListInit /\ (poll # "sessions" => slRemote = {})

ViewerPolls == poll = "viewer" /\ ViewerNext /\ UNCHANGED <<poll, rpVars, slVars>>
RunPagePolls == poll = "run" /\ RunPageNext /\ UNCHANGED <<poll, viewVars, slVars>>
SessionListPolls == poll = "sessions" /\ SessionListNext /\ UNCHANGED <<poll, viewVars, rpVars>>

PollsNext == ViewerPolls \/ RunPagePolls \/ SessionListPolls

\* Only the part that moves can be fair: the steps of the other ones are enabled for
\* ever and never taken.
PollsSpec ==
    /\ PollsInit /\ [][PollsNext]_pollVars
    /\ poll = "viewer" => ViewerFairness
    /\ poll = "run" => RunPageFairness
    /\ poll = "sessions" => SessionListFairness

=============================================================================
