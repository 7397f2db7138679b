-------------------------------- MODULE Viewer --------------------------------
(***************************************************************************)
(* The session viewer of the frontend (sessions/session): the page that    *)
(* shows the sessions named in its query parameters side by side.          *)
(*                                                                         *)
(* For each session it asks every three seconds for the state until the    *)
(* session runs, then for the connection information, and then gives the   *)
(* session's frame a URL.  The list of sessions is a subject of a service  *)
(* that outlives the page; leaving the page clears it, while the requests  *)
(* for connection information that are under way are not cancelled.        *)
(***************************************************************************)
EXTENDS Naturals, Sequences, SequencesExt, FiniteSets, Api

CONSTANTS
    ViewSessions,  \* session ids
    Guacamole,     \* sessions whose connection method is guacamole
    WithToken,     \* sessions with a TeamForCapella token
    NoRedirect,    \* sessions without a redirect URL
    MaxPushes,     \* bound on the polls that are started
    MaxStates      \* bound on the changes of a session in the backend

Nobody == "nobody"
\* _sessions is undefined or holds a session at least.
NoList == <<>>
PollPhases == {"unused", "waiting", "asked", "connecting", "over"}
Unknown == "unknown"
RemoteStates == {"pending", "running", "stopped"}

ASSUME ViewerAssumption ==
    /\ Guacamole \subseteq ViewSessions /\ WithToken \subseteq ViewSessions
    /\ NoRedirect \subseteq ViewSessions /\ Nobody \notin ViewSessions
    /\ MaxPushes \in Nat /\ MaxStates \in Nat

VARIABLES
    viewOpen,      \* the page is shown
    viewAsked,     \* sessions the page, since it was opened, was asked to show
    viewList,      \* _sessions of the service
    viewPolls,     \* viewPolls[i]: the i-th call of pushSession
    viewRemote,    \* viewRemote[s]: the state the backend reports
    viewChanges,   \* changes of viewRemote so far
    viewAuth,      \* whose token localStorage holds under GUAC_AUTH
    viewFrame,     \* viewFrame[s]: whose desktop the frame of s shows
    viewLate,      \* sessions that were connecting when a page was left
    viewWaited,    \* sessions the list held before they ran
    viewRivals,    \* guacamole sessions connected in this browser
    viewErrors     \* sessions for which an error was shown

viewVars == <<viewOpen, viewAsked, viewList, viewPolls, viewRemote, viewChanges,
              viewAuth, viewFrame, viewLate, viewWaited, viewRivals, viewErrors>>
viewHistory == <<viewLate, viewWaited, viewRivals, viewErrors>>

ViewerSession == [id : ViewSessions, running : BOOLEAN, url : BOOLEAN,
                  token : BOOLEAN, focused : BOOLEAN, fullscreen : BOOLEAN]

Poll == [id : ViewSessions \cup {Nobody}, phase : PollPhases,
         answer : RemoteStates \cup {Unknown}]

Listed == ToSet(viewList)
ListedIds == {e.id : e \in Listed}

\* The only state beautifyState calls a success.
Success(state) == state = "running"

ViewerInit ==
    /\ viewOpen = FALSE /\ viewAsked = {}
    /\ viewList = NoList
    /\ viewPolls = [i \in 1 .. MaxPushes |->
                       [id |-> Nobody, phase |-> "unused", answer |-> Unknown]]
    /\ viewRemote \in [ViewSessions -> {"pending", "running"}]
    /\ viewChanges = 0
    /\ viewAuth = Nobody
    /\ viewFrame = [s \in ViewSessions |-> Nobody]
    /\ viewLate = {} /\ viewWaited = {} /\ viewRivals = {} /\ viewErrors = {}

----------------------------------------------------------------------------
(* The list *)

\* Mutant: a session that is updated keeps its URL.
UpdatedKeepsURL(entry, s, state, url) == [entry EXCEPT !.running = Success(state), !.url = @ \/ url]

Updated(entry, s, state, url) ==
    [entry EXCEPT !.running = Success(state), !.url = url]

\* Mutant: a session that is inserted loses the token.
InsertedTokenless(s, state, url, token) ==
    [id |-> s, running |-> Success(state), url |-> url, token |-> FALSE,
     focused |-> viewList = NoList, fullscreen |-> FALSE]

Inserted(s, state, url, token) ==
    [id |-> s, running |-> Success(state), url |-> url, token |-> token,
     focused |-> viewList = NoList, fullscreen |-> FALSE]

UpdateOrInsertSession(s, state, url, token) ==
    viewList' = IF s \notin ListedIds
                 THEN Append(viewList, Inserted(s, state, url, token))
                 ELSE [k \in DOMAIN viewList |-> IF viewList[k].id = s
                                                 THEN Updated(viewList[k], s, state, url)
                                                 ELSE viewList[k]]

SetPoll(i, phase, answer) ==
    viewPolls' = [viewPolls EXCEPT ![i].phase = phase, ![i].answer = answer]

----------------------------------------------------------------------------
(* The page *)

UsedPolls == {i \in 1 .. MaxPushes : viewPolls[i].phase # "unused"}

NewPoll(s) == [id |-> s, phase |-> "waiting", answer |-> Unknown]

\* pushSession for each id in the query parameters; polls are started in order.
PushSessions(ids) ==
    LET used == Cardinality(UsedPolls) IN
    /\ used + Len(ids) <= MaxPushes
    /\ viewPolls' = [i \in 1 .. MaxPushes |->
          IF i \in used + 1 .. used + Len(ids) THEN NewPoll(ids[i - used]) ELSE viewPolls[i]]
    /\ viewAsked' = viewAsked \cup ToSet(ids)
    /\ UNCHANGED <<viewList, viewRemote, viewChanges, viewAuth, viewFrame, viewHistory>>

OpenViewer ==
    /\ ~viewOpen
    /\ viewOpen' = TRUE
    /\ \E n \in 1 .. MaxPushes : \E ids \in [1 .. n -> ViewSessions] : PushSessions(ids)

\* queryParams emits again: the sessions are pushed, nothing is cleared.
ChangeParams ==
    /\ viewOpen
    /\ UNCHANGED viewOpen
    /\ \E n \in 1 .. MaxPushes : \E ids \in [1 .. n -> ViewSessions] : PushSessions(ids)

\* Mutant: the polls survive the page.
KeepPolling == UNCHANGED viewPolls

Unsubscribe ==
    viewPolls' = [i \in 1 .. MaxPushes |->
        IF viewPolls[i].phase \in {"waiting", "asked"}
        THEN [viewPolls[i] EXCEPT !.phase = "over", !.answer = Unknown]
        ELSE viewPolls[i]]

\* clearSessions: the polls stop; a request for connection information goes on.
ClearSessions ==
    /\ viewOpen
    /\ viewOpen' = FALSE /\ viewAsked' = {}
    /\ viewList' = NoList
    /\ Unsubscribe
    /\ viewFrame' = [s \in ViewSessions |-> Nobody]
    /\ viewLate' = viewLate \cup
          {viewPolls[i].id : i \in {j \in 1 .. MaxPushes : viewPolls[j].phase = "connecting"}}
    /\ UNCHANGED <<viewRemote, viewChanges, viewAuth, viewWaited, viewRivals, viewErrors>>

FocusSession(s) ==
    /\ viewOpen /\ s \in ListedIds
    /\ viewList' = [k \in DOMAIN viewList |-> [viewList[k] EXCEPT !.focused = viewList[k].id = s]]
    /\ UNCHANGED <<viewOpen, viewAsked, viewPolls, viewRemote, viewChanges, viewAuth,
                   viewFrame, viewHistory>>

\* sessions$ shows the fullscreen session alone; its frame is built anew.
Visible == IF \E e \in Listed : e.fullscreen
           THEN {e.id : e \in {x \in Listed : x.fullscreen}} ELSE ListedIds

ToggleFullscreen(s) ==
    /\ viewOpen /\ s \in Visible /\ Len(viewList) > 1
    /\ viewList' = [k \in DOMAIN viewList |->
          IF viewList[k].id = s THEN [viewList[k] EXCEPT !.fullscreen = ~@] ELSE viewList[k]]
    /\ viewFrame' = [t \in ViewSessions |-> Nobody]
    /\ UNCHANGED <<viewOpen, viewAsked, viewPolls, viewRemote, viewChanges, viewAuth, viewHistory>>

\* Mutant: every client takes the token of the last session.
DesktopOfLast(s) == viewAuth

\* The guacamole client of every session has the same URL and takes the token from
\* localStorage (external).
DesktopOf(s) == IF s \in Guacamole THEN viewAuth ELSE s

\* The iframe of s loads its URL.
LoadFrame(s) ==
    /\ viewOpen /\ s \in Visible /\ viewFrame[s] = Nobody
    /\ \E e \in Listed : e.id = s /\ e.url
    /\ viewFrame' = [viewFrame EXCEPT ![s] = DesktopOf(s)]
    /\ UNCHANGED <<viewOpen, viewAsked, viewList, viewPolls, viewRemote, viewChanges,
                   viewAuth, viewHistory>>

\* resizeSessions: frames of guacamole sessions load again.
ResizeSessions ==
    /\ viewOpen
    /\ viewFrame' = [s \in ViewSessions |-> IF s \in Guacamole THEN Nobody ELSE viewFrame[s]]
    /\ UNCHANGED <<viewOpen, viewAsked, viewList, viewPolls, viewRemote, viewChanges,
                   viewAuth, viewHistory>>

----------------------------------------------------------------------------
(* The polls *)

\* timer(0, 3000) and switchMap: each tick asks anew and drops the answer to an
\* earlier request.
Tick(i) ==
    /\ viewPolls[i].phase \in {"waiting", "asked"}
    /\ SetPoll(i, "asked", Unknown)
    /\ UNCHANGED <<viewOpen, viewAsked, viewList, viewRemote, viewChanges, viewAuth,
                   viewFrame, viewHistory>>

\* The request a poll has under way.
RequestOf(poll) == IF poll.phase = "connecting" THEN GetSessionConnectionInformation(poll.id)
                   ELSE GetSession(poll.id)

\* The backend reads the state of the session.
RemoteAnswers(i) ==
    /\ viewPolls[i].phase = "asked" /\ viewPolls[i].answer = Unknown
    /\ viewPolls' = [viewPolls EXCEPT ![i].answer = Serve(RequestOf(viewPolls[i]), viewRemote)]
    /\ UNCHANGED <<viewOpen, viewAsked, viewList, viewRemote, viewChanges, viewAuth,
                   viewFrame, viewHistory>>

\* Mutant: a poll asks once.
PhaseAfterOnce(state) == IF Success(state) THEN "connecting" ELSE "over"

\* takeWhile, inclusive: a session that runs ends the poll.
PhaseAfter(state) == IF Success(state) THEN "connecting" ELSE "waiting"

\* A session that does not run yet is listed and asked about again; one that runs is
\* asked for its connection information.
GetSessionReturns(i) ==
    LET poll == viewPolls[i] IN
    /\ poll.phase = "asked" /\ poll.answer # Unknown
    /\ IF Success(poll.answer)
       THEN /\ SetPoll(i, PhaseAfter(poll.answer), poll.answer)
            /\ UNCHANGED <<viewList, viewFrame, viewWaited>>
       ELSE /\ SetPoll(i, PhaseAfter(poll.answer), Unknown)
            /\ UpdateOrInsertSession(poll.id, poll.answer, FALSE, FALSE)
            /\ viewFrame' = [viewFrame EXCEPT ![poll.id] = Nobody]
            /\ viewWaited' = viewWaited \cup {poll.id}
    /\ UNCHANGED <<viewOpen, viewAsked, viewRemote, viewChanges, viewAuth, viewLate,
                   viewRivals, viewErrors>>

\* An error ends the poll for good; the error handling interceptor shows it.
RequestFails(i) ==
    /\ viewPolls[i].phase \in {"asked", "connecting"}
    /\ SetPoll(i, "over", Unknown)
    /\ viewErrors' = viewErrors \cup {viewPolls[i].id}
    /\ UNCHANGED <<viewOpen, viewAsked, viewList, viewRemote, viewChanges, viewAuth,
                   viewFrame, viewLate, viewWaited, viewRivals>>

\* _connectToSession with the answer to GetSessionConnectionInformation.
ConnectToSession(i) ==
    LET s == viewPolls[i].id IN
    /\ RequestOf(viewPolls[i]) = GetSessionConnectionInformation(s)
    /\ SetPoll(i, "over", Unknown)
    /\ IF s \in Guacamole
       THEN viewAuth' = s /\ viewRivals' = viewRivals \cup {s}
       ELSE UNCHANGED <<viewAuth, viewRivals>>
    /\ IF s \in NoRedirect
       THEN viewErrors' = viewErrors \cup {s} /\ UNCHANGED <<viewList, viewFrame>>
       ELSE /\ UpdateOrInsertSession(s, viewPolls[i].answer, TRUE, s \in WithToken)
            /\ viewFrame' = [viewFrame EXCEPT ![s] = Nobody]
            /\ UNCHANGED viewErrors
    /\ UNCHANGED <<viewOpen, viewAsked, viewRemote, viewChanges, viewLate, viewWaited>>

\* The pod of a session starts, stops or starts anew.
RemoteChanges(s) ==
    /\ viewChanges < MaxStates
    /\ viewChanges' = viewChanges + 1
    /\ \E state \in RemoteStates \ {viewRemote[s]} : viewRemote' = [viewRemote EXCEPT ![s] = state]
    /\ UNCHANGED <<viewOpen, viewAsked, viewList, viewPolls, viewAuth, viewFrame, viewHistory>>

ViewerPageStep ==
    \/ OpenViewer \/ ChangeParams \/ ClearSessions \/ ResizeSessions
    \/ \E s \in ViewSessions :
          FocusSession(s) \/ ToggleFullscreen(s) \/ LoadFrame(s) \/ RemoteChanges(s)

ViewerPollStep == \E i \in 1 .. MaxPushes :
    Tick(i) \/ RemoteAnswers(i) \/ GetSessionReturns(i) \/ RequestFails(i) \/ ConnectToSession(i)

ViewerNext == ViewerPageStep \/ ViewerPollStep

ViewerSpec == ViewerInit /\ [][ViewerNext]_viewVars

\* The timer fires and requests are answered.  SF: a tick takes back the answer of a
\* backend that is slower than three seconds, and the backend is not always that slow.
ViewerFairness == \A i \in 1 .. MaxPushes :
    /\ WF_viewVars(viewPolls[i].phase = "waiting" /\ Tick(i))
    /\ WF_viewVars(RemoteAnswers(i)) /\ SF_viewVars(GetSessionReturns(i))
    /\ WF_viewVars(ConnectToSession(i))

----------------------------------------------------------------------------
(* Properties *)

ViewerTypeOK ==
    /\ viewOpen \in BOOLEAN /\ viewAsked \subseteq ViewSessions
    /\ viewList \in Seq(ViewerSession)
    /\ viewPolls \in [1 .. MaxPushes -> Poll]
    /\ viewRemote \in [ViewSessions -> RemoteStates]
    /\ viewChanges \in 0 .. MaxStates
    /\ viewAuth \in ViewSessions \cup {Nobody}
    /\ viewFrame \in [ViewSessions -> ViewSessions \cup {Nobody}]
    /\ viewLate \subseteq ViewSessions /\ viewWaited \subseteq ViewSessions
    /\ viewRivals \subseteq ViewSessions /\ viewErrors \subseteq ViewSessions

\* The page shows the sessions it was asked for.  The exception is a session whose
\* connection information was under way when an earlier page was left: it enters
\* the cleared list, and the next page shows it.
ShownWasRequested == ListedIds \subseteq viewAsked \cup viewLate

\* Only a session that was last seen running has a URL, and each that was has one:
\* a frame never points at a session that stopped, whatever order the polls of one
\* session answer in.
ConnectedIffRunning == \A e \in Listed : e.running = e.url

\* A connected session offers its TeamForCapella token, unless the viewer listed
\* it before it ran: updateOrInsertSession drops the token of a listed session.
TokenUnlessWaited ==
    \A e \in Listed : e.url /\ e.id \in WithToken /\ e.id \notin viewWaited => e.token

\* A frame shows the session it stands for.  Guacamole sessions share one key of
\* localStorage: their frames may show another session once a second one was
\* connected in this browser, and show none but connected ones even then.
FrameShowsOwnSession ==
    \A s \in ViewSessions :
        viewFrame[s] \notin {s, Nobody} => {s, viewFrame[s]} \subseteq viewRivals

\* A session the page was asked for and that runs gets its frame, unless an error was
\* shown for it: whichever polls of it are under way, however often the tick drops an
\* answer, and whatever was left over from an earlier page.
RunningIsConnected == \A s \in ViewSessions :
    viewOpen /\ s \in viewAsked /\ viewRemote[s] = "running" ~>
        \/ ~viewOpen \/ viewRemote[s] # "running" \/ s \in viewErrors
        \/ \E e \in Listed : e.id = s /\ e.url

=============================================================================
