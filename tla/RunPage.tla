-------------------------------- MODULE RunPage --------------------------------
(***************************************************************************)
(* The page of one run of a backup pipeline in the frontend                *)
(* (models/backup-settings: the wrapper of a run, the service that holds   *)
(* the run, and the view of its logs and events).                          *)
(*                                                                         *)
(* The wrapper asks for the run every two seconds until the run the        *)
(* service holds has finished; its requests are not cancelled.  Logs and   *)
(* events are asked for anew with each answer.                             *)
(***************************************************************************)
EXTENDS Naturals, Sequences, SequencesExt, FiniteSets, Api

CONSTANTS
    Runs,       \* runs of a pipeline
    MaxRunAsked \* bound on the requests for a run that are under way

NoRun == "no run"
Panels == {"logs", "events"}
RunStatuses == {"pending", "running", "success"}

ASSUME RunPageAssumption == NoRun \notin Runs /\ MaxRunAsked \in Nat

VARIABLES
    rpAddress, \* the run the address names
    rpRemote,  \* rpRemote[r]: its status in the backend
    rpHeld,    \* _pipelineRun
    rpAsked,   \* requests for a run that are under way
    rpPanel,   \* what is shown of the logs and of the events
    rpAsks,    \* the request under way for each of them
    rpStream,  \* no such request has failed since the page was opened
    rpLate     \* a run came, or was kept, that the address does not name

rpVars == <<rpAddress, rpRemote, rpHeld, rpAsked, rpPanel, rpAsks, rpStream, rpLate>>

\* pipelineRunIsFinished
Finished(status) == status \notin {"pending", "scheduled", "running"}

Unread == "unread"
RunOf(run, status) == [run |-> run, status |-> status]
NoneHeld == RunOf(NoRun, Unread)
PanelRequest(panel, run) == IF panel = "logs" THEN GetLogs(run) ELSE GetPipelineRunEvents(run)
NoRequest == [call |-> GetLogs(NoRun), read |-> Unread]
Nothing == [panel \in Panels |-> NoneHeld]

RunPageInit ==
    /\ rpAddress = NoRun
    /\ rpRemote \in [Runs -> {"pending", "success"}]
    /\ rpHeld = NoneHeld /\ rpAsked = <<>>
    /\ rpPanel = Nothing
    /\ rpAsks = [panel \in Panels |-> NoRequest]
    /\ rpStream = [panel \in Panels |-> TRUE]
    /\ rpLate = FALSE

\* Mutant: exhaustMap, no new request while one is under way.
AskOnce(panel, run) ==
    IF rpStream[panel] /\ rpAsks[panel] = NoRequest
    THEN [call |-> PanelRequest(panel, run), read |-> Unread] ELSE rpAsks[panel]

\* switchMap: the request under way is dropped.
AskAnew(panel, run) ==
    IF rpStream[panel] THEN [call |-> PanelRequest(panel, run), read |-> Unread] ELSE rpAsks[panel]

\* pipelineRun$ emits while the page is open, or the page opens and a run is held.
AskPanels(run) == rpAsks' = [panel \in Panels |-> AskAnew(panel, run)]

OpenRun(r) ==
    /\ rpAddress = NoRun
    /\ rpAddress' = r
    /\ IF rpHeld = NoneHeld THEN UNCHANGED rpAsks ELSE AskPanels(rpHeld.run)
    /\ UNCHANGED <<rpRemote, rpHeld, rpAsked, rpPanel, rpStream, rpLate>>

\* The address names another run (a step in the history): the page stays.  The wrapper
\* means to reset the run then, but waits for an address without a run, which it never sees.
ChangeRun(r) ==
    /\ rpAddress \notin {NoRun, r}
    /\ rpAddress' = r
    /\ rpLate' = (rpLate \/ rpHeld # NoneHeld)
    /\ UNCHANGED <<rpRemote, rpHeld, rpAsked, rpPanel, rpAsks, rpStream>>

\* Mutant: the page forgets to reset the run.
RunKept == UNCHANGED rpHeld

ResetPipelineRun == rpHeld' = NoneHeld

\* ngOnDestroy: requests for the run go on, those for logs and events do not.
LeaveRun ==
    /\ rpAddress # NoRun
    /\ rpAddress' = NoRun
    /\ ResetPipelineRun
    /\ rpPanel' = Nothing
    /\ rpAsks' = [panel \in Panels |-> NoRequest]
    /\ rpStream' = [panel \in Panels |-> TRUE]
    /\ UNCHANGED <<rpRemote, rpAsked, rpLate>>

\* Mutant: the timer stops at a run that is not being prepared any more.
HeldStarted == rpHeld.status \notin {Unread, "pending", "scheduled"}

HeldFinished == rpHeld # NoneHeld /\ Finished(rpHeld.status)

\* timer(0, 2000): nothing is asked while the run that is held has finished.
RunTick ==
    /\ rpAddress # NoRun /\ ~HeldFinished
    /\ Len(rpAsked) < MaxRunAsked
    /\ rpAsked' = Append(rpAsked, [call |-> GetPipelineRun(rpAddress), read |-> Unread])
    /\ UNCHANGED <<rpAddress, rpRemote, rpHeld, rpPanel, rpAsks, rpStream, rpLate>>

RunServed(k) ==
    /\ rpAsked[k].read = Unread
    /\ rpAsked' = [rpAsked EXCEPT ![k].read = Serve(rpAsked[k].call, rpRemote)]
    /\ UNCHANGED <<rpAddress, rpRemote, rpHeld, rpPanel, rpAsks, rpStream, rpLate>>

RunReturns(k) ==
    LET run == rpAsked[k].call.key[1] IN
    /\ rpAsked[k].read # Unread
    /\ rpAsked' = RemoveAt(rpAsked, k)
    /\ rpHeld' = RunOf(run, rpAsked[k].read)
    /\ IF rpAddress = NoRun THEN UNCHANGED rpAsks ELSE AskPanels(run)
    /\ rpLate' = (rpLate \/ run # rpAddress)
    /\ UNCHANGED <<rpAddress, rpRemote, rpPanel, rpStream>>

\* The timer goes on.
RunFails(k) ==
    /\ rpAsked' = RemoveAt(rpAsked, k)
    /\ UNCHANGED <<rpAddress, rpRemote, rpHeld, rpPanel, rpAsks, rpStream, rpLate>>

PanelServed(panel) ==
    /\ rpAsks[panel] # NoRequest /\ rpAsks[panel].read = Unread
    /\ rpAsks' = [rpAsks EXCEPT ![panel].read = Serve(rpAsks[panel].call, rpRemote)]
    /\ UNCHANGED <<rpAddress, rpRemote, rpHeld, rpAsked, rpPanel, rpStream, rpLate>>

PanelReturns(panel) ==
    /\ rpAsks[panel].read # Unread
    /\ rpPanel' = [rpPanel EXCEPT ![panel] = RunOf(rpAsks[panel].call.key[1], rpAsks[panel].read)]
    /\ rpAsks' = [rpAsks EXCEPT ![panel] = NoRequest]
    /\ UNCHANGED <<rpAddress, rpRemote, rpHeld, rpAsked, rpStream, rpLate>>

\* An error ends the stream: "Couldn't fetch logs" stays until the page is left.
PanelFails(panel) ==
    /\ rpAsks[panel] # NoRequest
    /\ rpPanel' = [rpPanel EXCEPT ![panel] = NoneHeld]
    /\ rpAsks' = [rpAsks EXCEPT ![panel] = NoRequest]
    /\ rpStream' = [rpStream EXCEPT ![panel] = FALSE]
    /\ UNCHANGED <<rpAddress, rpRemote, rpHeld, rpAsked, rpLate>>

\* The scheduler of the backend: see Pipelines.
RemoteProceeds(r) ==
    /\ ~Finished(rpRemote[r])
    /\ rpRemote' = [rpRemote EXCEPT ![r] = IF @ = "pending" THEN "running" ELSE "success"]
    /\ UNCHANGED <<rpAddress, rpHeld, rpAsked, rpPanel, rpAsks, rpStream, rpLate>>

RunPageNext ==
    \/ LeaveRun \/ RunTick
    \/ \E r \in Runs : OpenRun(r) \/ ChangeRun(r) \/ RemoteProceeds(r)
    \/ \E k \in DOMAIN rpAsked : RunServed(k) \/ RunReturns(k) \/ RunFails(k)
    \/ \E panel \in Panels : PanelServed(panel) \/ PanelReturns(panel) \/ PanelFails(panel)

RunPageSpec == RunPageInit /\ [][RunPageNext]_rpVars

\* The timer runs; the requests that are sent do not all fail.
RunPageFairness ==
    /\ WF_rpVars(RunTick)
    /\ SF_rpVars(rpAsked # <<>> /\ RunServed(1))
    /\ SF_rpVars(rpAsked # <<>> /\ RunReturns(1))

----------------------------------------------------------------------------
(* Properties *)

RunPageTypeOK ==
    /\ rpAddress \in Runs \cup {NoRun}
    /\ rpRemote \in [Runs -> RunStatuses]
    /\ rpHeld \in [run : Runs \cup {NoRun}, status : RunStatuses \cup {Unread}]
    /\ rpPanel \in [Panels -> [run : Runs \cup {NoRun}, status : RunStatuses \cup {Unread}]]
    /\ Len(rpAsked) <= MaxRunAsked
    /\ \A request \in ToSet(rpAsked) :
          request.call \in {GetPipelineRun(r) : r \in Runs} /\ request.read \in RunStatuses \cup {Unread}
    /\ rpStream \in [Panels -> BOOLEAN] /\ rpLate \in BOOLEAN

\* The page shows the run its address names.  Exceptions: an answer that comes after its
\* page was left, which the next page shows, and the run held when the address of an open
\* page changes.  If such a run has finished, the timer never asks for the right one.
RunHeldIsAddressed == rpHeld # NoneHeld => rpHeld.run = rpAddress \/ rpLate

\* When the page shows that its run has finished, the logs and events it shows are
\* those the run ended with, an error, or on their way: whatever the order in which
\* the answers to the polls and to the requests for the logs came.
FinishedRunHasFinalLogs ==
    rpAddress # NoRun /\ HeldFinished =>
        \A panel \in Panels :
            rpStream[panel] /\ rpAsks[panel] = NoRequest => rpPanel[panel] = rpHeld

\* A page that stays open shows in the end that its run has finished, however many of
\* its requests fail or overtake each other; the exceptions are the ones above.
FinalShown ==
    \A r \in Runs :
        <>[](rpAddress = r /\ Finished(rpRemote[r]))
            => <>[](rpHeld = RunOf(r, rpRemote[r]) \/ (rpLate /\ rpHeld.run # r))

=============================================================================
