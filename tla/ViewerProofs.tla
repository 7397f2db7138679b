----------------------------- MODULE ViewerProofs -----------------------------
(***************************************************************************)
(* The page of the session viewer: the list of sessions, for any sessions, *)
(* polls and changes in the backend, and the tiles, for any window and any *)
(* number of sessions.                                                     *)
(***************************************************************************)
EXTENDS Viewer, Tiling, SequenceLemmas, WellFoundedInduction

Wanted == viewAsked \cup viewLate

\* What holds of an entry of the list, whichever poll wrote it last.
GoodEntry(e, wanted, rivals, waited) ==
    /\ e.id \in wanted
    /\ e.running = e.url
    /\ e.url /\ e.id \in Guacamole => e.id \in rivals
    /\ e.id \in waited \/ (e.token <=> e.id \in WithToken)

ViewListInv == \A k \in DOMAIN viewList : GoodEntry(viewList[k], Wanted, viewRivals, viewWaited)

\* A poll that goes on is about a session some page was asked for, and only one that has
\* seen it run asks for the connection.
PollInv == \A i \in 1 .. MaxPushes :
    /\ viewPolls[i].phase \in {"waiting", "asked", "connecting"} => viewPolls[i].id \in Wanted
    /\ viewPolls[i].phase = "connecting" => viewPolls[i].answer = "running"

FrameInv ==
    /\ viewAuth \in viewRivals \cup {Nobody}
    /\ FrameShowsOwnSession

ViewerInv == ViewerTypeOK /\ ViewListInv /\ PollInv /\ FrameInv

----------------------------------------------------------------------------
(* Lists and polls *)

\* The list keeps its promises when it stays and what they refer to grows.
LEMMA ViewListStays ==
    ASSUME ViewListInv, viewList' = viewList, Wanted \subseteq Wanted',
           viewRivals \subseteq viewRivals', viewWaited \subseteq viewWaited'
    PROVE  ViewListInv'
  BY DEF ViewListInv, GoodEntry

\* What a poll inserts or updates leaves every entry as good as its last poll.
LEMMA Updates ==
    ASSUME ViewerTypeOK, ViewListInv,
           NEW s \in ViewSessions, NEW state \in RemoteStates, NEW url \in BOOLEAN, NEW token \in BOOLEAN,
           UpdateOrInsertSession(s, state, url, token), url = Success(state),
           s \in Wanted, Wanted' = Wanted, viewRivals \subseteq viewRivals', viewWaited \subseteq viewWaited',
           url /\ s \in Guacamole => s \in viewRivals',
           s \in viewWaited' \/ (token <=> s \in WithToken)
    PROVE  viewList' \in Seq(ViewerSession) /\ ViewListInv'
  <1> DEFINE new == Inserted(s, state, url, token)
  <1>1. viewList \in Seq(ViewerSession) /\ \A k \in DOMAIN viewList : viewList[k] \in ViewerSession
    BY ElementOfSeq, LenProperties DEF ViewerTypeOK
  <1>2. CASE s \notin ListedIds
    <2>1. new \in ViewerSession /\ GoodEntry(new, Wanted', viewRivals', viewWaited')
      BY DEF Inserted, ViewerSession, GoodEntry, Success, Wanted
    <2>2. viewList' = Append(viewList, new)
      BY <1>2 DEF UpdateOrInsertSession
    <2>3. /\ viewList' \in Seq(ViewerSession)
          /\ DOMAIN viewList' = 1 .. Len(viewList) + 1
          /\ \A k \in 1 .. Len(viewList) : viewList'[k] = viewList[k]
          /\ viewList'[Len(viewList) + 1] = new
      BY <1>1, <2>1, <2>2, AppendProperties, LenProperties
    <2>4. ASSUME NEW k \in DOMAIN viewList'
          PROVE  GoodEntry(viewList'[k], Wanted', viewRivals', viewWaited')
      <3>1. CASE k \in DOMAIN viewList
        <4>1. viewList'[k] = viewList[k]
          BY <1>1, <2>3, <3>1, LenProperties
        <4> QED
          BY <3>1, <4>1 DEF ViewListInv, GoodEntry
      <3>2. CASE k \notin DOMAIN viewList
        <4>1. k = Len(viewList) + 1
          BY <1>1, <2>3, <3>2, LenProperties
        <4> QED
          BY <2>1, <2>3, <4>1
      <3> QED
        BY <3>1, <3>2
    <2> QED
      BY <2>3, <2>4 DEF ViewListInv
  <1>3. CASE s \in ListedIds
    <2>1. viewList' = [k \in DOMAIN viewList |-> IF viewList[k].id = s
                                                THEN Updated(viewList[k], s, state, url)
                                                ELSE viewList[k]]
      BY <1>3 DEF UpdateOrInsertSession
    <2>2. ASSUME NEW k \in DOMAIN viewList, viewList[k].id = s
          PROVE  /\ Updated(viewList[k], s, state, url) \in ViewerSession
                 /\ GoodEntry(Updated(viewList[k], s, state, url), Wanted', viewRivals', viewWaited')
      <3> DEFINE old == viewList[k]
                 upd == Updated(old, s, state, url)
      <3>1. old \in ViewerSession /\ GoodEntry(old, Wanted, viewRivals, viewWaited)
        BY <1>1 DEF ViewListInv
      <3>2. /\ upd \in ViewerSession
            /\ upd.id = s /\ upd.running = Success(state) /\ upd.url = url /\ upd.token = old.token
        BY <2>2, <3>1 DEF Updated, ViewerSession, Success
      <3>3. s \in viewWaited' \/ (upd.token <=> s \in WithToken)
        BY <2>2, <3>1, <3>2 DEF GoodEntry
      <3> QED
        BY <3>2, <3>3 DEF GoodEntry, Wanted
    <2>3. viewList' \in [DOMAIN viewList -> ViewerSession]
      BY <1>1, <2>1, <2>2
    <2>4. viewList' \in Seq(ViewerSession) /\ DOMAIN viewList' = DOMAIN viewList
      BY <1>1, <2>3, Mapped
    <2>5. ASSUME NEW k \in DOMAIN viewList
          PROVE  GoodEntry(viewList'[k], Wanted', viewRivals', viewWaited')
      <3>1. CASE viewList[k].id = s
        BY <2>1, <2>2, <3>1
      <3>2. CASE viewList[k].id # s
        BY <2>1, <3>2 DEF ViewListInv, GoodEntry
      <3> QED
        BY <3>1, <3>2
    <2> QED
      BY <2>4, <2>5 DEF ViewListInv
  <1> QED
    BY <1>2, <1>3

----------------------------------------------------------------------------
(* Every step keeps the invariant *)

\* The invariant of the viewer holds to begin with.
LEMMA ViewerInitial == ViewerInit => ViewerInv
  <1> SUFFICES ASSUME ViewerInit
               PROVE  ViewerInv
    OBVIOUS
  <1>1. ViewerTypeOK
    <2>1. viewPolls \in [1 .. MaxPushes -> Poll]
      BY DEF ViewerInit, Poll, PollPhases
    <2>2. viewRemote \in [ViewSessions -> RemoteStates]
      BY DEF ViewerInit, RemoteStates
    <2>3. viewList \in Seq(ViewerSession)
      BY EmptySeq DEF ViewerInit, NoList
    <2>4. viewChanges \in 0 .. MaxStates
      BY ViewerAssumption DEF ViewerInit
    <2> QED
      BY <2>1, <2>2, <2>3, <2>4 DEF ViewerInit, ViewerTypeOK
  <1>2. ViewListInv
    BY DEF ViewerInit, ViewListInv, NoList
  <1>3. PollInv /\ FrameInv
    BY DEF ViewerInit, PollInv, FrameInv, FrameShowsOwnSession
  <1> QED
    BY <1>1, <1>2, <1>3 DEF ViewerInv

\* Polls are started for the sessions that were asked for.
LEMMA PushStep ==
    ASSUME ViewerInv, viewOpen' \in BOOLEAN, NEW n \in 1 .. MaxPushes,
           NEW ids \in [1 .. n -> ViewSessions], PushSessions(ids)
    PROVE  ViewerInv'
  <1> DEFINE used == Cardinality(UsedPolls)
  <1> USE ViewerAssumption DEF ViewerInv
  <1>1. used \in Nat
    <2>1. IsFiniteSet(1 .. MaxPushes) /\ UsedPolls \in SUBSET (1 .. MaxPushes)
      BY FS_Interval DEF UsedPolls
    <2> QED
      BY <2>1, FS_Subset, FS_CardinalityType
  <1>2. ids \in Seq(ViewSessions) /\ DOMAIN ids = 1 .. Len(ids) /\ Len(ids) \in Nat
    BY SeqDef, LenProperties
  <1>3. ToSet(ids) \subseteq ViewSessions
    BY <1>2 DEF ToSet
  <1>4. Wanted' = Wanted \cup ToSet(ids) /\ viewList' = viewList
    BY DEF PushSessions, Wanted, viewHistory
  <1>5. ASSUME NEW i \in 1 .. MaxPushes
        PROVE  \/ viewPolls'[i] = viewPolls[i]
               \/ \E s \in ToSet(ids) : viewPolls'[i] = NewPoll(s)
    <2>1. CASE i \in used + 1 .. used + Len(ids)
      <3>1. i - used \in DOMAIN ids
        BY <1>1, <1>2, <2>1
      <3>2. ids[i - used] \in ToSet(ids)
        BY <3>1 DEF ToSet
      <3> QED
        BY <2>1, <3>2 DEF PushSessions
    <2>2. CASE i \notin used + 1 .. used + Len(ids)
      BY <2>2 DEF PushSessions
    <2> QED
      BY <2>1, <2>2
  <1>6. viewPolls' \in [1 .. MaxPushes -> Poll]
    <2>1. ASSUME NEW i \in 1 .. MaxPushes
          PROVE  viewPolls'[i] \in Poll
      <3>1. viewPolls[i] \in Poll
        BY DEF ViewerTypeOK
      <3>2. \A s \in ViewSessions : NewPoll(s) \in Poll
        BY DEF NewPoll, Poll, PollPhases
      <3> QED
        BY <1>3, <1>5, <3>1, <3>2
    <2>2. viewPolls' = [i \in 1 .. MaxPushes |-> viewPolls'[i]]
      BY DEF PushSessions
    <2> QED
      BY <2>1, <2>2
  <1>7. ViewerTypeOK'
    BY <1>3, <1>4, <1>6 DEF ViewerTypeOK, PushSessions, viewHistory
  <1>8. ViewListInv'
    BY <1>4, ViewListStays DEF PushSessions, viewHistory
  <1>9. PollInv'
    <2>1. ASSUME NEW i \in 1 .. MaxPushes
          PROVE  /\ viewPolls'[i].phase \in {"waiting", "asked", "connecting"} => viewPolls'[i].id \in Wanted'
                 /\ viewPolls'[i].phase = "connecting" => viewPolls'[i].answer = "running"
      <3>1. CASE viewPolls'[i] = viewPolls[i]
        BY <1>4, <3>1 DEF PollInv
      <3>2. CASE \E s \in ToSet(ids) : viewPolls'[i] = NewPoll(s)
        BY <1>4, <3>2 DEF NewPoll
      <3> QED
        BY <1>5, <3>1, <3>2
    <2> QED
      BY <2>1 DEF PollInv
  <1>10. FrameInv'
    BY DEF FrameInv, FrameShowsOwnSession, PushSessions, viewHistory
  <1> QED
    BY <1>7, <1>8, <1>9, <1>10

\* Leaving the page: what was connecting is still wanted by the page that was left.
LEMMA ClearStep ==
    ASSUME ViewerInv, ClearSessions
    PROVE  ViewerInv'
  <1> USE ViewerAssumption DEF ViewerInv
  <1>1. viewPolls' \in [1 .. MaxPushes -> Poll]
    BY DEF ClearSessions, Unsubscribe, ViewerTypeOK, Poll, PollPhases
  <1>2. viewLate' \subseteq ViewSessions
    BY DEF ClearSessions, ViewerTypeOK, PollInv, Wanted
  <1>3. ViewerTypeOK'
    BY <1>1, <1>2, EmptySeq DEF ClearSessions, ViewerTypeOK, NoList
  <1>4. ViewListInv'
    BY DEF ViewListInv, ClearSessions, NoList
  <1>5. ASSUME NEW i \in 1 .. MaxPushes
        PROVE  /\ viewPolls'[i].phase \in {"waiting", "asked", "connecting"} => viewPolls'[i].id \in Wanted'
               /\ viewPolls'[i].phase = "connecting" => viewPolls'[i].answer = "running"
    <2>1. CASE viewPolls[i].phase \in {"waiting", "asked"}
      BY <2>1 DEF ClearSessions, Unsubscribe, ViewerTypeOK, Poll
    <2>2. CASE viewPolls[i].phase \notin {"waiting", "asked"}
      BY <2>2 DEF ClearSessions, Unsubscribe, PollInv, Wanted
    <2> QED
      BY <2>1, <2>2
  <1>6. PollInv'
    BY <1>5 DEF PollInv
  <1>7. FrameInv'
    BY DEF FrameInv, FrameShowsOwnSession, ClearSessions
  <1> QED
    BY <1>3, <1>4, <1>6, <1>7

\* Focusing a session and full screen change neither what is shown nor its connection.
LEMMA ListPageSteps ==
    ASSUME ViewerInv, NEW s \in ViewSessions, FocusSession(s) \/ ToggleFullscreen(s)
    PROVE  ViewerInv'
  <1> USE ViewerAssumption DEF ViewerInv
  <1>1. viewList \in Seq(ViewerSession) /\ \A k \in DOMAIN viewList : viewList[k] \in ViewerSession
    BY ElementOfSeq, LenProperties DEF ViewerTypeOK
  <1>2. viewList' \in [DOMAIN viewList -> ViewerSession]
    <2>1. CASE FocusSession(s)
      BY <1>1, <2>1 DEF FocusSession, ViewerSession
    <2>2. CASE ToggleFullscreen(s)
      BY <1>1, <2>2 DEF ToggleFullscreen, ViewerSession
    <2> QED
      BY <2>1, <2>2
  <1>3. viewList' \in Seq(ViewerSession) /\ DOMAIN viewList' = DOMAIN viewList
    BY <1>1, <1>2, Mapped
  <1>4. ASSUME NEW k \in DOMAIN viewList
        PROVE  /\ viewList'[k].id = viewList[k].id /\ viewList'[k].running = viewList[k].running
               /\ viewList'[k].url = viewList[k].url /\ viewList'[k].token = viewList[k].token
    <2>1. CASE FocusSession(s)
      BY <1>1, <2>1 DEF FocusSession, ViewerSession
    <2>2. CASE ToggleFullscreen(s)
      BY <1>1, <2>2 DEF ToggleFullscreen, ViewerSession
    <2> QED
      BY <2>1, <2>2
  <1>5. ViewerTypeOK'
    BY <1>3 DEF ViewerTypeOK, FocusSession, ToggleFullscreen, viewHistory
  <1>6. ViewListInv'
    BY <1>3, <1>4 DEF ViewListInv, GoodEntry, Wanted, FocusSession, ToggleFullscreen, viewHistory
  <1>7. PollInv'
    BY DEF PollInv, Wanted, FocusSession, ToggleFullscreen, viewHistory
  <1>8. FrameInv'
    BY DEF FrameInv, FrameShowsOwnSession, FocusSession, ToggleFullscreen, viewHistory
  <1> QED
    BY <1>5, <1>6, <1>7, <1>8

\* A frame that loads shows its own session, or the last guacamole session, when it is
\* one that was connected.
LEMMA FramePageSteps ==
    ASSUME ViewerInv, ResizeSessions \/ \E s \in ViewSessions : LoadFrame(s) \/ RemoteChanges(s)
    PROVE  ViewerInv'
  <1> USE ViewerAssumption DEF ViewerInv
  <1>1. CASE ResizeSessions
    <2>1. ViewerTypeOK'
      BY <1>1 DEF ViewerTypeOK, ResizeSessions, viewHistory
    <2>2. ViewListInv' /\ PollInv'
      BY <1>1, ViewListStays DEF PollInv, Wanted, ResizeSessions, viewHistory
    <2>3. FrameInv'
      BY <1>1 DEF FrameInv, FrameShowsOwnSession, ResizeSessions, viewHistory, ViewerTypeOK
    <2> QED
      BY <2>1, <2>2, <2>3
  <1>2. ASSUME NEW s \in ViewSessions, LoadFrame(s)
        PROVE  ViewerInv'
    <2>1. ViewerTypeOK'
      BY <1>2 DEF ViewerTypeOK, LoadFrame, DesktopOf, viewHistory
    <2>2. ViewListInv' /\ PollInv'
      BY <1>2, ViewListStays DEF PollInv, Wanted, LoadFrame, viewHistory
    <2>3. s \in Guacamole => s \in viewRivals
      BY <1>2 DEF LoadFrame, Listed, ToSet, ViewListInv, GoodEntry
    <2>4. FrameInv'
      BY <1>2, <2>3 DEF FrameInv, FrameShowsOwnSession, LoadFrame, DesktopOf, viewHistory, ViewerTypeOK
    <2> QED
      BY <2>1, <2>2, <2>4
  <1>3. ASSUME NEW s \in ViewSessions, RemoteChanges(s)
        PROVE  ViewerInv'
    <2>1. ViewerTypeOK'
      BY <1>3 DEF ViewerTypeOK, RemoteChanges, viewHistory
    <2>2. ViewListInv' /\ PollInv'
      BY <1>3, ViewListStays DEF PollInv, Wanted, RemoteChanges, viewHistory
    <2>3. FrameInv'
      BY <1>3 DEF FrameInv, FrameShowsOwnSession, RemoteChanges, viewHistory
    <2> QED
      BY <2>1, <2>2, <2>3
  <1> QED
    BY <1>1, <1>2, <1>3

\* The ticks, answers and errors of the polls.
LEMMA PollSteps ==
    ASSUME ViewerInv, NEW i \in 1 .. MaxPushes,
           Tick(i) \/ RemoteAnswers(i) \/ RequestFails(i)
    PROVE  ViewerInv'
  <1> USE ViewerAssumption DEF ViewerInv
  <1>1. viewPolls[i] \in Poll
    BY DEF ViewerTypeOK
  <1>2. ASSUME RemoteAnswers(i)
        PROVE  Serve(RequestOf(viewPolls[i]), viewRemote) \in RemoteStates
    <2>1. viewPolls[i].phase = "asked" /\ viewPolls[i].id \in ViewSessions
      BY <1>2 DEF RemoteAnswers, PollInv, Wanted, ViewerTypeOK
    <2>2. Serve(GetSession(viewPolls[i].id), viewRemote) = viewRemote[viewPolls[i].id]
      BY DEF Serve, GetSession, Request
    <2> QED
      BY <2>1, <2>2 DEF RequestOf, ViewerTypeOK
  <1>3. viewPolls' \in [1 .. MaxPushes -> Poll]
    <2>1. CASE Tick(i)
      <3>1. viewPolls' = [viewPolls EXCEPT ![i] = [viewPolls[i] EXCEPT !.phase = "asked", !.answer = Unknown]]
        BY <1>1, <2>1 DEF Tick, SetPoll, ViewerTypeOK
      <3> QED
        BY <1>1, <3>1 DEF ViewerTypeOK, Poll, PollPhases
    <2>2. CASE RequestFails(i)
      <3>1. viewPolls' = [viewPolls EXCEPT ![i] = [viewPolls[i] EXCEPT !.phase = "over", !.answer = Unknown]]
        BY <1>1, <2>2 DEF RequestFails, SetPoll, ViewerTypeOK
      <3> QED
        BY <1>1, <3>1 DEF ViewerTypeOK, Poll, PollPhases
    <2>3. CASE RemoteAnswers(i)
      BY <1>1, <1>2, <2>3 DEF RemoteAnswers, ViewerTypeOK, Poll
    <2> QED
      BY <2>1, <2>2, <2>3
  <1>4. ViewerTypeOK'
    BY <1>1, <1>3 DEF ViewerTypeOK, Tick, RemoteAnswers, RequestFails, SetPoll, viewHistory, PollInv, Wanted
  <1>5. ViewListInv'
    BY ViewListStays DEF Wanted, Tick, RemoteAnswers, RequestFails, viewHistory
  <1>6. PollInv'
    BY <1>1 DEF PollInv, Wanted, Tick, RemoteAnswers, RequestFails, SetPoll, viewHistory, ViewerTypeOK, Poll
  <1>7. FrameInv'
    BY DEF FrameInv, FrameShowsOwnSession, Tick, RemoteAnswers, RequestFails, viewHistory
  <1> QED
    BY <1>4, <1>5, <1>6, <1>7

\* A state that was read.
LEMMA AnswerStep ==
    ASSUME ViewerInv, NEW i \in 1 .. MaxPushes, GetSessionReturns(i)
    PROVE  ViewerInv'
  <1> DEFINE poll == viewPolls[i]
  <1> USE ViewerAssumption DEF ViewerInv
  <1>1. /\ poll \in Poll /\ poll.phase = "asked" /\ poll.id \in Wanted /\ poll.id \in ViewSessions
        /\ poll.answer \in RemoteStates
    BY DEF GetSessionReturns, ViewerTypeOK, PollInv, Wanted, Poll
  <1>2. Wanted' = Wanted /\ viewRivals' = viewRivals
    BY DEF GetSessionReturns, Wanted
  <1>3. CASE Success(poll.answer)
    <2>1. viewPolls' = [viewPolls EXCEPT ![i].phase = "connecting", ![i].answer = poll.answer]
      BY <1>3 DEF GetSessionReturns, SetPoll, PhaseAfter
    <2>2. ViewerTypeOK'
      BY <1>1, <1>3, <2>1 DEF ViewerTypeOK, GetSessionReturns, Poll, PollPhases
    <2>3. ViewListInv'
      BY <1>2, <1>3, ViewListStays DEF GetSessionReturns
    <2>4. PollInv'
      BY <1>1, <1>2, <1>3, <2>1 DEF PollInv, Success, ViewerTypeOK, Poll
    <2>5. FrameInv'
      BY <1>3 DEF FrameInv, FrameShowsOwnSession, GetSessionReturns
    <2> QED
      BY <2>2, <2>3, <2>4, <2>5
  <1>4. CASE ~Success(poll.answer)
    <2>1. /\ viewPolls' = [viewPolls EXCEPT ![i].phase = "waiting", ![i].answer = Unknown]
          /\ UpdateOrInsertSession(poll.id, poll.answer, FALSE, FALSE)
          /\ viewFrame' = [viewFrame EXCEPT ![poll.id] = Nobody]
          /\ viewWaited' = viewWaited \cup {poll.id}
      BY <1>4 DEF GetSessionReturns, SetPoll, PhaseAfter
    <2>2. viewList' \in Seq(ViewerSession) /\ ViewListInv'
      <3>1. FALSE \in BOOLEAN /\ FALSE = Success(poll.answer)
        BY <1>4 DEF Success
      <3>2. /\ viewRivals \subseteq viewRivals' /\ viewWaited \subseteq viewWaited'
            /\ poll.id \in viewWaited'
        BY <1>2, <2>1
      <3> QED
        BY <1>1, <1>2, <2>1, <3>1, <3>2, Updates, Zenon DEF ViewerInv
    <2>3. ViewerTypeOK'
      BY <1>1, <2>1, <2>2 DEF ViewerTypeOK, GetSessionReturns, Poll, PollPhases
    <2>4. PollInv'
      BY <1>1, <1>2, <2>1 DEF PollInv, ViewerTypeOK, Poll
    <2>5. FrameInv'
      BY <1>2, <2>1 DEF FrameInv, FrameShowsOwnSession, GetSessionReturns, ViewerTypeOK
    <2> QED
      BY <2>2, <2>3, <2>4, <2>5
  <1> QED
    BY <1>3, <1>4

\* The connection information, for a session that was seen running.
LEMMA ConnectStep ==
    ASSUME ViewerInv, NEW i \in 1 .. MaxPushes, ConnectToSession(i)
    PROVE  ViewerInv'
  <1> DEFINE s == viewPolls[i].id
  <1> USE ViewerAssumption DEF ViewerInv
  <1>1. viewPolls[i].phase = "connecting"
    <2>1. GetSession(s) # GetSessionConnectionInformation(s)
      BY DEF GetSession, GetSessionConnectionInformation, Request
    <2> QED
      BY <2>1 DEF ConnectToSession, RequestOf
  <1>2. /\ viewPolls[i] \in Poll /\ s \in Wanted /\ s \in ViewSessions
        /\ viewPolls[i].answer = "running"
    BY <1>1 DEF ViewerTypeOK, PollInv, Wanted
  <1>3. /\ Wanted' = Wanted /\ viewWaited' = viewWaited
        /\ viewRivals \subseteq viewRivals' /\ viewRivals' \subseteq ViewSessions
        /\ s \in Guacamole => s \in viewRivals'
        /\ viewAuth' \in viewRivals' \cup {Nobody} /\ viewAuth' \in ViewSessions \cup {Nobody}
    BY <1>2 DEF ConnectToSession, Wanted, ViewerTypeOK, FrameInv
  <1>4. viewList' \in Seq(ViewerSession) /\ ViewListInv'
    <2>1. CASE s \in NoRedirect
      BY <1>3, <2>1, ViewListStays DEF ConnectToSession, ViewerTypeOK
    <2>2. CASE s \notin NoRedirect
      <3>1. UpdateOrInsertSession(s, "running", TRUE, s \in WithToken)
        BY <1>2, <2>2 DEF ConnectToSession
      <3>2. "running" \in RemoteStates /\ TRUE = Success("running")
        BY DEF RemoteStates, Success
      <3>3. TRUE \in BOOLEAN /\ (s \in WithToken) \in BOOLEAN
        OBVIOUS
      <3>4. viewWaited \subseteq viewWaited'
        BY <1>3
      <3> QED
        BY <1>2, <1>3, <3>1, <3>2, <3>3, <3>4, Updates, Zenon DEF ViewerInv
    <2> QED
      BY <2>1, <2>2
  <1>5. viewPolls' = [viewPolls EXCEPT ![i].phase = "over", ![i].answer = Unknown]
    BY DEF ConnectToSession, SetPoll
  <1>6. /\ viewFrame' \in [ViewSessions -> ViewSessions \cup {Nobody}]
        /\ \A t \in ViewSessions : viewFrame'[t] \in {viewFrame[t], Nobody}
    BY <1>2 DEF ConnectToSession, ViewerTypeOK
  <1>7. ViewerTypeOK'
    BY <1>2, <1>3, <1>4, <1>5, <1>6 DEF ViewerTypeOK, ConnectToSession, Poll, PollPhases
  <1>8. PollInv'
    BY <1>2, <1>3, <1>5 DEF PollInv, ViewerTypeOK, Poll
  <1>9. FrameInv'
    BY <1>3, <1>6 DEF FrameInv, FrameShowsOwnSession
  <1> QED
    BY <1>4, <1>7, <1>8, <1>9

\* Every step keeps the invariant of the viewer.
LEMMA ViewerStep == ViewerInv /\ [ViewerNext]_viewVars => ViewerInv'
  <1> SUFFICES ASSUME ViewerInv, [ViewerNext]_viewVars
               PROVE  ViewerInv'
    OBVIOUS
  <1>1. CASE UNCHANGED viewVars
    BY <1>1 DEF viewVars, ViewerInv, ViewerTypeOK, ViewListInv, PollInv, FrameInv, FrameShowsOwnSession, Wanted
  <1>2. CASE OpenViewer \/ ChangeParams
    <2>1. PICK n \in 1 .. MaxPushes : \E ids \in [1 .. n -> ViewSessions] : PushSessions(ids)
      BY <1>2 DEF OpenViewer, ChangeParams
    <2>2. viewOpen' \in BOOLEAN
      BY <1>2 DEF OpenViewer, ChangeParams, ViewerInv, ViewerTypeOK
    <2> QED
      BY <2>1, <2>2, PushStep
  <1>3. CASE ClearSessions
    BY <1>3, ClearStep
  <1>4. CASE ResizeSessions \/ \E s \in ViewSessions : LoadFrame(s) \/ RemoteChanges(s)
    BY <1>4, FramePageSteps
  <1>5. CASE \E s \in ViewSessions : FocusSession(s) \/ ToggleFullscreen(s)
    BY <1>5, ListPageSteps
  <1>6. CASE ViewerPollStep
    BY <1>6, PollSteps, AnswerStep, ConnectStep DEF ViewerPollStep
  <1> QED
    BY <1>1, <1>2, <1>3, <1>4, <1>5, <1>6 DEF ViewerNext, ViewerPageStep

----------------------------------------------------------------------------
(* The theorems *)

\* The invariant: what each entry of the list, each poll and each frame is worth.
THEOREM ViewerInvariant == ViewerSpec => []ViewerInv
  BY ViewerInitial, ViewerStep, PTL DEF ViewerSpec

\* The page shows sessions it was asked for, or that were connecting when an earlier
\* page was left, for any number of polls of any sessions.
THEOREM OnlyWantedSessionsAreShown == ViewerSpec => []ShownWasRequested
  <1>1. ViewerInv => ShownWasRequested
    BY DEF ViewerInv, ViewListInv, GoodEntry, ShownWasRequested, ListedIds, Listed, ToSet, Wanted
  <1> QED
    BY <1>1, ViewerInvariant, PTL

\* An entry has a URL exactly when its session was last seen running, in whatever order
\* the polls of one session answer.
THEOREM OnlyRunningSessionsAreConnected == ViewerSpec => []ConnectedIffRunning
  <1>1. ViewerInv => ConnectedIffRunning
    BY DEF ViewerInv, ViewListInv, GoodEntry, ConnectedIffRunning, Listed, ToSet
  <1> QED
    BY <1>1, ViewerInvariant, PTL

\* A token is only ever lost by a session that was listed before it ran.
THEOREM TokensAreOffered == ViewerSpec => []TokenUnlessWaited
  <1>1. ViewerInv => TokenUnlessWaited
    BY DEF ViewerInv, ViewListInv, GoodEntry, TokenUnlessWaited, Listed, ToSet
  <1> QED
    BY <1>1, ViewerInvariant, PTL

\* A frame shows its own session, or two guacamole sessions that were both connected
\* in this browser.
THEOREM FramesShowConnectedSessions == ViewerSpec => []FrameShowsOwnSession
  <1>1. ViewerInv => FrameShowsOwnSession
    BY DEF ViewerInv, FrameInv
  <1> QED
    BY <1>1, ViewerInvariant, PTL

-----------------------------------------------------------------------------
(* Sums of the widths of tiles *)

\* The sum of the widths, as LayoutFillsWindow states it.
WidthSum(T) == MapThenSumSet(LAMBDA t : t.width, T)

\* What the sum takes first, and the equation that it is defined by.
Taken(s) == CHOOSE t \in s : TRUE
Rest(s) == s \ {Taken(s)}
SumsSubsets(f, T) ==
    /\ f \in [SUBSET T -> Int]
    /\ f[{}] = 0
    /\ \A s \in SUBSET T : s # {} => f[s] = Taken(s).width + f[Rest(s)]

\* A set of subsets of a finite set has one that includes no other.
LEMMA LeastSubset ==
    ASSUME NEW T, IsFiniteSet(T), NEW B \in SUBSET (SUBSET T), B # {}
    PROVE  \E u \in B : u \in SUBSET T /\ \A v \in B : v \subseteq u => v = u
  <1>1. IsWellFoundedOn(StrictSubsetOrdering(T), SUBSET T)
    BY FS_StrictSubsetOrderingWellFounded, FS_FiniteSubsetsOfFinite
  <1>2. PICK u \in B : \A v \in B : <<v, u>> \notin StrictSubsetOrdering(T)
    BY <1>1, WFMin
  <1> QED
    BY <1>2 DEF StrictSubsetOrdering

\* The element that the sum takes next is one of the set, and the rest is smaller.
LEMMA TakenFrom ==
    ASSUME NEW T, NEW s \in SUBSET T, s # {}
    PROVE  Taken(s) \in s /\ Taken(s) \in T /\ Rest(s) \in SUBSET T /\ Rest(s) \in SUBSET s /\ Rest(s) # s
  BY DEF Taken, Rest

\* The equation determines the sum.
LEMMA SumsAgree ==
    ASSUME NEW T, IsFiniteSet(T), NEW f, SumsSubsets(f, T), NEW U, NEW g, SumsSubsets(g, U),
           NEW r \in SUBSET T, r \in SUBSET U
    PROVE  f[r] = g[r]
  <1> DEFINE B == {s \in SUBSET T : s \in SUBSET U /\ f[s] # g[s]}
  <1>1. B \in SUBSET (SUBSET T)
    OBVIOUS
  <1>2. ASSUME NEW u \in B, \A v \in B : v \subseteq u => v = u
        PROVE  FALSE
    <2>1. u \in SUBSET T /\ u \in SUBSET U /\ f[u] # g[u]
      OBVIOUS
    <2>2. u # {}
      BY <2>1 DEF SumsSubsets
    <2>3. Rest(u) \in SUBSET u /\ Rest(u) # u
      BY <2>1, <2>2, TakenFrom
    <2>4. Rest(u) \notin B
      BY <1>2, <2>3
    <2>5. f[Rest(u)] = g[Rest(u)]
      BY <2>1, <2>3, <2>4
    <2>6. f[u] = Taken(u).width + f[Rest(u)] /\ g[u] = Taken(u).width + g[Rest(u)]
      BY <2>1, <2>2 DEF SumsSubsets
    <2> QED
      BY <2>1, <2>5, <2>6
  <1> HIDE DEF B
  <1>3. B = {}
    BY <1>1, <1>2, LeastSubset
  <1> QED
    BY <1>3 DEF B

\* Every finite set of tiles has a function that sums its subsets: the smallest one
\* without it would have a rest with one.
LEMMA SumsExist ==
    ASSUME NEW T, IsFiniteSet(T), \A t \in T : t.width \in Int, NEW r \in SUBSET T
    PROVE  \E f : SumsSubsets(f, r)
  <1> DEFINE B == {u \in SUBSET T : ~\E f : SumsSubsets(f, u)}
  <1>1. B \in SUBSET (SUBSET T)
    OBVIOUS
  <1>2. ASSUME NEW u \in SUBSET T, \A v \in SUBSET u : v # u => \E f : SumsSubsets(f, v)
        PROVE  \E f : SumsSubsets(f, u)
    <2> DEFINE F(v) == CHOOSE f : SumsSubsets(f, v)
    <2>1. \A v \in SUBSET u : v # u => SumsSubsets(F(v), v)
      BY <1>2
    <2> HIDE DEF F
    <2> DEFINE value(v) == IF v = {} THEN 0 ELSE Taken(v).width + F(Rest(v))[Rest(v)]
               sum == [v \in SUBSET u |-> value(v)]
    <2>2. ASSUME NEW v \in SUBSET u, v # {}
          PROVE  /\ Taken(v).width \in Int /\ SumsSubsets(F(Rest(v)), Rest(v))
                 /\ Rest(v) \in SUBSET u /\ Rest(v) # u /\ IsFiniteSet(Rest(v))
      <3>0. Taken(v) \in v /\ Rest(v) \subseteq v /\ Rest(v) # v
        BY <2>2, TakenFrom
      <3>1. Rest(v) \in SUBSET u /\ Rest(v) # u /\ Taken(v) \in T
        BY <3>0
      <3>2. IsFiniteSet(Rest(v))
        BY <3>1, FS_Subset
      <3> QED
        BY <2>1, <3>1, <3>2
    <2>3. ASSUME NEW v \in SUBSET u
          PROVE  value(v) \in Int
      <3>1. CASE v # {}
        <4>1. F(Rest(v))[Rest(v)] \in Int
          BY <2>2, <3>1 DEF SumsSubsets
        <4> QED
          BY <2>2, <3>1, <4>1
      <3> QED
        BY <3>1
    <2>4. ASSUME NEW v \in SUBSET u, v # {}
          PROVE  F(Rest(v))[Rest(v)] = value(Rest(v))
      <3>1. PICK w : w = Rest(v)
        OBVIOUS
      <3>2. w \in SUBSET u /\ SumsSubsets(F(w), w) /\ IsFiniteSet(w)
        BY <2>2, <2>4, <3>1
      <3>3. CASE w = {}
        BY <3>1, <3>2, <3>3 DEF SumsSubsets
      <3>4. CASE w # {}
        <4>1. SumsSubsets(F(Rest(w)), Rest(w)) /\ IsFiniteSet(Rest(w))
          BY <2>2, <3>2, <3>4
        <4>2. Rest(w) \in SUBSET w /\ Rest(w) \in SUBSET Rest(w)
          BY <3>4, TakenFrom
        <4>3. F(w)[Rest(w)] = F(Rest(w))[Rest(w)]
          BY <3>2, <4>1, <4>2, SumsAgree
        <4>4. F(w)[w] = Taken(w).width + F(w)[Rest(w)]
          BY <3>2, <3>4 DEF SumsSubsets
        <4> QED
          BY <3>1, <3>4, <4>3, <4>4
      <3> QED
        BY <3>3, <3>4
    <2>5. \A v \in SUBSET u : sum[v] = value(v)
      OBVIOUS
    <2>6. sum \in [SUBSET u -> Int]
      BY <2>3
    <2>7. sum[{}] = 0
      BY <2>5
    <2>8. ASSUME NEW v \in SUBSET u, v # {}
          PROVE  sum[v] = Taken(v).width + sum[Rest(v)]
      <3>1. sum[v] = Taken(v).width + F(Rest(v))[Rest(v)]
        BY <2>5, <2>8
      <3>2. sum[Rest(v)] = value(Rest(v))
        BY <2>2, <2>5, <2>8
      <3> QED
        BY <2>4, <2>8, <3>1, <3>2
    <2> HIDE DEF sum, value
    <2> QED
      BY <2>6, <2>7, <2>8 DEF SumsSubsets
  <1>3. ASSUME NEW u \in B, \A v \in B : v \subseteq u => v = u
        PROVE  FALSE
    <2>1. u \in SUBSET T /\ ~\E f : SumsSubsets(f, u)
      OBVIOUS
    <2>2. \A v \in SUBSET u : v # u => \E f : SumsSubsets(f, v)
      BY <1>3, <2>1
    <2> QED
      BY <1>2, <2>1, <2>2
  <1> HIDE DEF B
  <1>4. B = {}
    BY <1>1, <1>3, LeastSubset
  <1> QED
    BY <1>4 DEF B

\* The operator of the community modules is a solution of the equation.
LEMMA SumIsSolution ==
    ASSUME NEW T, IsFiniteSet(T), \A t \in T : t.width \in Int
    PROVE  \E f : SumsSubsets(f, T) /\ WidthSum(T) = f[T]
  <1> DEFINE isIter(f) == f = [v \in SUBSET T |-> IF v = {} THEN 0 ELSE Taken(v).width + f[Rest(v)]]
             iter == CHOOSE g : isIter(g)
  <1>1. PICK f : SumsSubsets(f, T)
    BY SumsExist
  <1>2. isIter(f)
    BY <1>1 DEF SumsSubsets
  <1>3. isIter(iter)
    BY <1>2
  <1>4. WidthSum(T) = iter[T]
    BY DEF WidthSum, MapThenSumSet, MapThenFoldSet, Taken, Rest
  <1> HIDE DEF iter
  <1>5. iter[{}] = 0
    <2>1. {} \in SUBSET T
      OBVIOUS
    <2> QED
      BY <1>3, <2>1
  <1>6. \A v \in SUBSET T : v # {} => iter[v] = Taken(v).width + iter[Rest(v)]
    BY <1>3
  <1>7. iter = [v \in SUBSET T |-> iter[v]]
    BY <1>3
  <1> DEFINE B == {v \in SUBSET T : iter[v] \notin Int}
  <1>8. B \in SUBSET (SUBSET T)
    OBVIOUS
  <1>9. ASSUME NEW u \in B, \A v \in B : v \subseteq u => v = u
        PROVE  FALSE
    <2>1. u \in SUBSET T /\ iter[u] \notin Int
      OBVIOUS
    <2>2. u # {}
      <3> SUFFICES ASSUME u = {}
                   PROVE  FALSE
        OBVIOUS
      <3>1. iter[u] = 0
        BY <1>5
      <3> QED
        BY <2>1, <3>1
    <2>3. Rest(u) \in SUBSET u /\ Rest(u) # u /\ Rest(u) \in SUBSET T /\ Taken(u).width \in Int
      BY <2>1, <2>2, TakenFrom
    <2>4. iter[Rest(u)] \in Int
      BY <1>9, <2>3
    <2> QED
      BY <1>6, <2>1, <2>2, <2>3, <2>4
  <1> HIDE DEF B
  <1>10. B = {}
    <2> SUFFICES ASSUME B # {}
                 PROVE  FALSE
      OBVIOUS
    <2>1. PICK u \in B : \A v \in B : v \subseteq u => v = u
      BY <1>8, LeastSubset
    <2> QED
      BY <1>9, <2>1
  <1>11. \A v \in SUBSET T : iter[v] \in Int
    BY <1>10 DEF B
  <1>12. iter \in [SUBSET T -> Int]
    BY <1>7, <1>11
  <1> QED
    BY <1>4, <1>5, <1>6, <1>12 DEF SumsSubsets

\* The sum of widths is what this function says.
LEMMA SumOfSubsets ==
    ASSUME NEW T, IsFiniteSet(T), \A t \in T : t.width \in Int
    PROVE  \E f : SumsSubsets(f, T) /\ \A s \in SUBSET T : WidthSum(s) = f[s]
  <1>1. PICK f : SumsSubsets(f, T)
    BY SumsExist
  <1>2. ASSUME NEW s \in SUBSET T
        PROVE  WidthSum(s) = f[s]
    <2>1. IsFiniteSet(s) /\ \A t \in s : t.width \in Int
      BY FS_Subset
    <2>2. PICK g : SumsSubsets(g, s) /\ WidthSum(s) = g[s]
      BY <2>1, SumIsSolution
    <2>3. s \in SUBSET s
      OBVIOUS
    <2>4. g[s] = f[s]
      BY <1>1, <2>1, <2>2, <2>3, SumsAgree
    <2> QED
      BY <2>2, <2>4
  <1> QED
    BY <1>1, <1>2

\* Any element may be taken first.
LEMMA SumWithout ==
    ASSUME NEW T, IsFiniteSet(T), \A t \in T : t.width \in Int
    PROVE  /\ WidthSum({}) = 0 /\ WidthSum(T) \in Int
           /\ \A t \in T : WidthSum(T \ {t}) \in Int /\ WidthSum(T) = t.width + WidthSum(T \ {t})
  <1>1. PICK f : SumsSubsets(f, T) /\ \A s \in SUBSET T : WidthSum(s) = f[s]
    BY SumOfSubsets
  <1>2. \A s \in SUBSET T : f[s] \in Int
    BY <1>1 DEF SumsSubsets
  <1> DEFINE B == {s \in SUBSET T : \E t \in s : f[s] # t.width + f[s \ {t}]}
  <1>3. B \in SUBSET (SUBSET T)
    OBVIOUS
  <1>4. ASSUME NEW u \in B, \A v \in B : v \subseteq u => v = u
        PROVE  FALSE
    <2>1. u \in SUBSET T
      OBVIOUS
    <2>2. PICK t \in u : f[u] # t.width + f[u \ {t}]
      OBVIOUS
    <2>3. PICK first : first = Taken(u)
      OBVIOUS
    <2>4. first \in u /\ f[u] = first.width + f[u \ {first}]
      BY <1>1, <2>1, <2>2, <2>3, TakenFrom DEF SumsSubsets, Rest
    <2>5. first # t
      BY <2>2, <2>4
    <2>6. u \ {first} \in SUBSET T /\ u \ {t} \in SUBSET T /\ u \ {first} \notin B /\ u \ {t} \notin B
      BY <1>4, <2>1, <2>2, <2>4
    <2>7. f[u \ {first}] = t.width + f[(u \ {first}) \ {t}]
      BY <2>2, <2>5, <2>6
    <2>8. f[u \ {t}] = first.width + f[(u \ {t}) \ {first}]
      BY <2>4, <2>5, <2>6
    <2>9. (u \ {first}) \ {t} = (u \ {t}) \ {first}
      OBVIOUS
    <2>10. t.width \in Int /\ first.width \in Int
      BY <2>1, <2>4
    <2>11. PICK rest : rest = f[(u \ {t}) \ {first}]
      OBVIOUS
    <2>12. rest \in Int
      BY <1>2, <2>6, <2>11
    <2>13. f[u] = first.width + (t.width + rest) /\ f[u \ {t}] = first.width + rest
      BY <2>4, <2>7, <2>8, <2>9, <2>11
    <2>14. t.width + (first.width + rest) = first.width + (t.width + rest)
      BY <2>10, <2>12
    <2> QED
      BY <2>2, <2>13, <2>14
  <1> HIDE DEF B
  <1>5. B = {}
    <2> SUFFICES ASSUME B # {}
                 PROVE  FALSE
      OBVIOUS
    <2>1. PICK u \in B : \A v \in B : v \subseteq u => v = u
      BY <1>3, LeastSubset
    <2> QED
      BY <1>4, <2>1
  <1>6. T \in SUBSET T /\ {} \in SUBSET T /\ \A t \in T : T \ {t} \in SUBSET T
    OBVIOUS
  <1>7. \A t \in T : f[T] = t.width + f[T \ {t}]
    BY <1>5, <1>6 DEF B
  <1>8. f[{}] = 0
    BY <1>1 DEF SumsSubsets
  <1> QED
    BY <1>1, <1>2, <1>6, <1>7, <1>8

\* Tiles that are all as wide.
LEMMA SumOfEqual ==
    ASSUME NEW T, IsFiniteSet(T), NEW w \in Int, \A t \in T : t.width = w
    PROVE  WidthSum(T) = Cardinality(T) * w
  <1> DEFINE B == {s \in SUBSET T : WidthSum(s) # Cardinality(s) * w}
  <1>1. B \in SUBSET (SUBSET T)
    OBVIOUS
  <1>2. ASSUME NEW u \in B, \A v \in B : v \subseteq u => v = u
        PROVE  FALSE
    <2>1. u \in SUBSET T /\ WidthSum(u) # Cardinality(u) * w
      OBVIOUS
    <2>2. IsFiniteSet(u) /\ \A t \in u : t.width \in Int
      BY <2>1, FS_Subset
    <2>3. u # {}
      <3>1. WidthSum({}) = 0
        BY <2>2, SumWithout
      <3>2. Cardinality({}) * w = 0
        BY FS_EmptySet
      <3> QED
        BY <2>1, <3>1, <3>2
    <2>4. PICK t : t \in u
      BY <2>3
    <2>5. WidthSum(u) = w + WidthSum(u \ {t})
      BY <2>1, <2>2, <2>4, SumWithout
    <2>6. u \ {t} \in SUBSET T /\ u \ {t} \notin B
      BY <1>2, <2>1, <2>4
    <2>7. WidthSum(u \ {t}) = Cardinality(u \ {t}) * w
      BY <2>6
    <2>8. Cardinality(u) \in Nat /\ Cardinality(u \ {t}) = Cardinality(u) - 1
      BY <2>2, <2>4, FS_RemoveElement, FS_CardinalityType
    <2>9. w + (Cardinality(u) - 1) * w = Cardinality(u) * w
      BY <2>8
    <2> QED
      BY <2>1, <2>5, <2>7, <2>8, <2>9
  <1> HIDE DEF B
  <1>3. B = {}
    BY <1>1, <1>2, LeastSubset
  <1> QED
    BY <1>3 DEF B

-----------------------------------------------------------------------------
(* The tiles of the viewer *)

\* Tiles with an id and a slot of their own each.
Layout(T) ==
    /\ T \subseteq Tile /\ IsFiniteSet(T)
    /\ \A t, u \in T : t.id = u.id \/ t.index = u.index => t = u
    /\ {t.index : t \in T} = 0 .. Cardinality(T) - 1

Filled(T, width) ==
    /\ WidthSum(T) = Cardinality(T) * (width \div Cardinality(T))
    /\ Cardinality(T) <= 6 => \A t \in T : t.width >= (width * 15) \div 100

DragSet ==
    [index : Nat, left : Tile, right : Tile, attached : BOOLEAN, resized : BOOLEAN]

\* The two tiles that are dragged are still there, and together as wide as they were.
HeldTiles ==
    \E l, r \in tiles :
       /\ l # r /\ l.id = drag.left.id /\ r.id = drag.right.id
       /\ ~drag.resized /\ ~skewed => l.width + r.width = drag.left.width + drag.right.width

TilingInv ==
    /\ innerWidth \in Nat /\ skewed \in BOOLEAN
    /\ Layout(tiles)
    /\ ~skewed /\ tiles # {} => Filled(tiles, innerWidth)
    /\ Dragging => /\ drag \in DragSet
                   /\ drag.attached => HeldTiles

----------------------------------------------------------------------------
(* Sets of tiles *)

\* An injection onto a set keeps its size.
LEMMA ImageSize ==
    ASSUME NEW T, IsFiniteSet(T), NEW image, NEW g \in [T -> image],
           \A x, y \in T : g[x] = g[y] => x = y, \A y \in image : \E x \in T : g[x] = y
    PROVE  IsFiniteSet(image) /\ Cardinality(image) = Cardinality(T)
  <1>1. g \in Surjection(T, image) /\ g \in Injection(T, image)
    BY DEF Surjection, Injection, IsInjective
  <1> QED
    BY <1>1, FS_Surjection

\* The fields of a tile.
LEMMA TileFields ==
    ASSUME NEW t \in Tile
    PROVE  t.id \in TileSessions /\ t.index \in Nat /\ t.width \in Int
  BY DEF Tile

\* Six equal widths are not below the minimum.
LEMMA EqualIsEnough ==
    ASSUME NEW width \in Nat, NEW n \in Nat \ {0}, n <= 6
    PROVE  width \div n >= (width * 15) \div 100
  <1>1. n \in {1, 2, 3, 4, 5, 6}
    OBVIOUS
  <1>2. \A q, m \in Int : 100 * m <= 15 * width /\ width < 6 * q + 6 => m <= q
    OBVIOUS
  <1> QED
    BY <1>1

\* Equal widths fill the window up to the remainder of the division.
LEMMA EqualFills ==
    ASSUME NEW width \in Nat, NEW T, IsFiniteSet(T), T # {}, \A t \in T : t.width = width \div Cardinality(T)
    PROVE  Filled(T, width)
  <1>1. Cardinality(T) \in Nat \ {0}
    BY FS_EmptySet, FS_CardinalityType
  <1>2. width \div Cardinality(T) \in Int
    BY <1>1
  <1>3. WidthSum(T) = Cardinality(T) * (width \div Cardinality(T))
    BY <1>2, SumOfEqual
  <1> QED
    BY <1>1, <1>3, EqualIsEnough DEF Filled

\* Two tiles take new widths, or one another's slots.
LEMMA PairReplaced ==
    ASSUME NEW T, Layout(T), NEW l \in T, NEW r \in T, l # r,
           NEW l2 \in Tile, NEW r2 \in Tile, l2.id = l.id, r2.id = r.id,
           {l2.index, r2.index} = {l.index, r.index}, l2.index # r2.index,
           NEW T2, T2 = (T \ {l, r}) \cup {l2, r2}
    PROVE  /\ Layout(T2) /\ Cardinality(T2) = Cardinality(T) /\ l2 # r2
           /\ WidthSum(T2) = WidthSum(T) - (l.width + r.width) + (l2.width + r2.width)
  <1> DEFINE others == (T \ {l}) \ {r}
  <1>1. /\ T \subseteq Tile /\ IsFiniteSet(T)
        /\ \A t, u \in T : t.id = u.id \/ t.index = u.index => t = u
        /\ {t.index : t \in T} = 0 .. Cardinality(T) - 1
        /\ \A t \in T : t.width \in Int
    BY TileFields DEF Layout
  <1>2. /\ l2 \notin others /\ r2 \notin others /\ l2 # r2
        /\ \A t \in others : t.id # l.id /\ t.id # r.id /\ t.index # l.index /\ t.index # r.index
    BY <1>1
  <1>3. T2 = (others \cup {l2}) \cup {r2} /\ others \subseteq T
    OBVIOUS
  <1>4. /\ T2 \ {r2} = others \cup {l2} /\ (others \cup {l2}) \ {l2} = others
        /\ r2 \in T2 /\ l2 \in others \cup {l2} /\ r \in T \ {l}
    BY <1>2, <1>3
  <1> HIDE DEF others
  <1>5. /\ IsFiniteSet(T \ {l}) /\ IsFiniteSet(others) /\ IsFiniteSet(others \cup {l2}) /\ IsFiniteSet(T2)
        /\ Cardinality(T) \in Nat /\ Cardinality(T \ {l}) = Cardinality(T) - 1
        /\ Cardinality(others) = Cardinality(T) - 2
        /\ Cardinality(others \cup {l2}) = Cardinality(T) - 1 /\ Cardinality(T2) = Cardinality(T)
    <2>1. IsFiniteSet(T \ {l}) /\ Cardinality(T) \in Nat /\ Cardinality(T \ {l}) = Cardinality(T) - 1
      BY <1>1, FS_RemoveElement, FS_CardinalityType
    <2>2. IsFiniteSet(others) /\ Cardinality(others) = Cardinality(T) - 2
      <3>1. /\ IsFiniteSet((T \ {l}) \ {r})
            /\ Cardinality((T \ {l}) \ {r}) = Cardinality(T \ {l}) - 1
        BY <1>4, <2>1, FS_RemoveElement
      <3> QED
        BY <2>1, <3>1 DEF others
    <2>3. IsFiniteSet(others \cup {l2}) /\ Cardinality(others \cup {l2}) = Cardinality(T) - 1
      BY <1>2, <2>1, <2>2, FS_AddElement
    <2>4. r2 \notin others \cup {l2}
      BY <1>2
    <2>5. IsFiniteSet(T2) /\ Cardinality(T2) = Cardinality(T)
      <3>1. /\ IsFiniteSet((others \cup {l2}) \cup {r2})
            /\ Cardinality((others \cup {l2}) \cup {r2}) = Cardinality(others \cup {l2}) + 1
        BY <2>3, <2>4, FS_AddElement
      <3>2. Cardinality((others \cup {l2}) \cup {r2}) = Cardinality(T)
        BY <2>1, <2>3, <3>1
      <3> QED
        BY <1>3, <3>1, <3>2
    <2> QED
      BY <2>1, <2>2, <2>3, <2>5
  <1>6. /\ \A t \in T2 : t.width \in Int
        /\ l.width \in Int /\ r.width \in Int /\ l2.width \in Int /\ r2.width \in Int
    BY <1>1, <1>3, TileFields
  <1>7. /\ WidthSum(T) = l.width + WidthSum(T \ {l})
        /\ WidthSum(T \ {l}) = r.width + WidthSum(others)
        /\ WidthSum(T2) = r2.width + WidthSum(others \cup {l2})
        /\ WidthSum(others \cup {l2}) = l2.width + WidthSum(others)
        /\ WidthSum(others) \in Int
    <2>1. WidthSum(T) = l.width + WidthSum(T \ {l})
      BY <1>1, SumWithout
    <2>2. WidthSum(T \ {l}) = r.width + WidthSum(others)
      BY <1>1, <1>4, <1>5, SumWithout DEF others
    <2>3. WidthSum(T2) = r2.width + WidthSum(others \cup {l2})
      BY <1>4, <1>5, <1>6, SumWithout
    <2>4. \A t \in others \cup {l2} : t.width \in Int
      BY <1>3, <1>6
    <2>5. WidthSum(others \cup {l2}) = l2.width + WidthSum((others \cup {l2}) \ {l2})
      BY <1>4, <1>5, <2>4, SumWithout
    <2>6. \A t \in others : t.width \in Int
      BY <2>4
    <2>7. WidthSum(others) \in Int
      BY <1>5, <2>6, SumWithout
    <2> QED
      BY <1>4, <2>1, <2>2, <2>3, <2>5, <2>7
  <1>8. WidthSum(T2) = WidthSum(T) - (l.width + r.width) + (l2.width + r2.width)
    BY <1>6, <1>7
  <1>9. {t.index : t \in T2} = {t.index : t \in T}
    <2>1. {t.index : t \in T2} = {t.index : t \in others} \cup {l2.index, r2.index}
      BY <1>3
    <2>2. {t.index : t \in T} = {t.index : t \in others} \cup {l.index, r.index}
      BY DEF others
    <2> QED
      BY <2>1, <2>2
  <1>10. \A t, u \in T2 : t.id = u.id \/ t.index = u.index => t = u
    <2>1. l.id # r.id
      BY <1>1
    <2> QED
      BY <1>1, <1>2, <1>3, <2>1
  <1>11. T2 \subseteq Tile
    BY <1>1, <1>3
  <1> QED
    BY <1>1, <1>2, <1>5, <1>8, <1>9, <1>10, <1>11 DEF Layout

----------------------------------------------------------------------------
(* The steps *)

\* A drag is not the absence of one.
LEMMA NoDragIsNone ==
    ASSUME NEW d \in DragSet
    PROVE  d # NoDrag
  BY DEF DragSet, NoDrag

\* The invariant of the window manager holds to begin with.
LEMMA TilingInitial == TilingInit => TilingInv
  <1> SUFFICES ASSUME TilingInit
               PROVE  TilingInv
    OBVIOUS
  <1>1. Layout({})
    BY FS_EmptySet DEF Layout
  <1> QED
    BY <1>1, TilingAssumption DEF TilingInit, TilingInv, Dragging

\* A list of sessions that comes gives every tile the same width again.
LEMMA RebuildStep ==
    ASSUME NEW ids \in ListsOfSessions, Rebuild(ids), innerWidth \in Nat
    PROVE  Layout(tiles') /\ Filled(tiles', innerWidth) /\ skewed' = FALSE
  <1>1. PICK n \in 1 .. Cardinality(TileSessions) : ids \in [1 .. n -> TileSessions] /\ Cardinality(ToSet(ids)) = Len(ids)
    BY DEF ListsOfSessions
  <1>2. n \in Nat \ {0}
    BY TilingAssumption, FS_CardinalityType
  <1>3. ids \in Seq(TileSessions) /\ Len(ids) = n /\ DOMAIN ids = 1 .. n
    BY <1>1, <1>2, SeqDef, LenProperties
  <1>4. IsFiniteSet(1 .. n) /\ Cardinality(1 .. n) = n
    BY <1>2, FS_Interval
  <1>5. \A j, k \in 1 .. n : ids[j] = ids[k] => j = k
    <2>1. ToSet(ids) = {ids[k] : k \in 1 .. n}
      BY <1>3 DEF ToSet
    <2>2. ids \in Surjection(1 .. n, ToSet(ids))
      BY <1>1, <2>1 DEF Surjection
    <2>3. ids \in Injection(1 .. n, ToSet(ids))
      BY <1>1, <1>3, <1>4, <2>2, FS_Surjection
    <2> QED
      BY <2>3 DEF Injection, IsInjective
  <1> DEFINE tile == [k \in 1 .. n |-> [id |-> ids[k], index |-> k - 1, width |-> innerWidth \div n]]
  <1>6. tiles' = {tile[k] : k \in 1 .. n}
    BY <1>3 DEF Rebuild, EqualWidths
  <1>7. innerWidth \div n \in Int
    BY <1>2
  <1>8. tile \in [1 .. n -> Tile]
    BY <1>1, <1>7 DEF Tile
  <1>9. \A k \in 1 .. n : tile[k].id = ids[k] /\ tile[k].index = k - 1 /\ tile[k].width = innerWidth \div n
    OBVIOUS
  <1> HIDE DEF tile
  <1>10. IsFiniteSet(tiles') /\ Cardinality(tiles') = n
    <2>1. \A j, k \in 1 .. n : tile[j] = tile[k] => j = k
      BY <1>5, <1>9
    <2>2. tile \in [1 .. n -> tiles'] /\ \A t \in tiles' : \E k \in 1 .. n : tile[k] = t
      BY <1>6, <1>8
    <2> QED
      BY <1>4, <2>1, <2>2, ImageSize
  <1>11. \A t, u \in tiles' : t.id = u.id \/ t.index = u.index => t = u
    BY <1>5, <1>6, <1>9
  <1>12. {t.index : t \in tiles'} = 0 .. n - 1
    <2>1. {t.index : t \in tiles'} = {k - 1 : k \in 1 .. n}
      BY <1>6, <1>9
    <2>2. {k - 1 : k \in 1 .. n} = 0 .. n - 1
      <3>1. \A i \in 0 .. n - 1 : i + 1 \in 1 .. n /\ (i + 1) - 1 = i
        BY <1>2
      <3>2. \A k \in 1 .. n : k - 1 \in 0 .. n - 1
        BY <1>2
      <3> QED
        BY <3>1, <3>2
    <2> QED
      BY <2>1, <2>2
  <1>13. Layout(tiles')
    <2>1. tiles' \subseteq Tile
      BY <1>6, <1>8
    <2> QED
      BY <1>10, <1>11, <1>12, <2>1 DEF Layout
  <1>14. Filled(tiles', innerWidth)
    <2>1. tiles' # {} /\ \A t \in tiles' : t.width = innerWidth \div Cardinality(tiles')
      <3>1. 1 \in 1 .. n
        BY <1>2
      <3>2. tiles' # {}
        BY <1>6, <3>1
      <3>3. \A t \in tiles' : t.width = innerWidth \div n
        BY <1>6, <1>9
      <3> QED
        BY <1>10, <3>2, <3>3
    <2> QED
      BY <1>10, <2>1, EqualFills
  <1> QED
    BY <1>13, <1>14 DEF Rebuild

\* A list that is published rebuilds the tiles, or leaves them as they are.
LEMMA PublishStep ==
    ASSUME TilingInv, SessionsEmitted
    PROVE  TilingInv'
  <1>1. PICK ids \in ListsOfSessions : Publish(ids)
    BY DEF SessionsEmitted
  <1>2. /\ Layout(tiles') /\ skewed' \in BOOLEAN
        /\ ~skewed' /\ tiles' # {} => Filled(tiles', innerWidth)
    BY <1>1, RebuildStep DEF Publish, TilingInv
  <1>3. drag' # NoDrag => drag' \in DragSet /\ ~drag'.attached
    BY <1>1 DEF Publish, TilingInv, Dragging, DragSet
  <1> QED
    BY <1>1, <1>2, <1>3 DEF Publish, TilingInv, Dragging

\* A border that is held is between two neighbours.
LEMMA OnMouseDownStep ==
    ASSUME TilingInv, NEW index \in Slots, OnMouseDown(index)
    PROVE  TilingInv'
  <1> DEFINE l == TileAt(index)
             r == TileAt(index + 1)
  <1>1. /\ tiles \subseteq Tile /\ Cardinality(tiles) \in Nat
        /\ index \in {t.index : t \in tiles} /\ index + 1 \in {t.index : t \in tiles}
    BY FS_CardinalityType DEF TilingInv, Layout, OnMouseDown, Slots
  <1>2. l \in tiles /\ l.index = index /\ r \in tiles /\ r.index = index + 1
    BY <1>1 DEF TileAt
  <1>3. drag' = [index |-> index, left |-> l, right |-> r, attached |-> TRUE, resized |-> FALSE]
    BY DEF OnMouseDown
  <1> HIDE DEF l, r
  <1>4. index \in Nat
    BY <1>1 DEF Slots
  <1>5. l \in Tile /\ r \in Tile /\ l # r
    BY <1>1, <1>2, <1>4
  <1>6. drag' \in DragSet /\ drag'.left = l /\ drag'.right = r /\ drag'.attached /\ UNCHANGED <<tiles, innerWidth, skewed>>
    <2>1. drag' \in DragSet
      BY <1>3, <1>4, <1>5 DEF DragSet
    <2>2. drag'.left = l /\ drag'.right = r /\ drag'.attached
      BY <1>3
    <2> QED
      BY <2>1, <2>2 DEF OnMouseDown
  <1>7. HeldTiles'
    BY <1>2, <1>5, <1>6 DEF HeldTiles
  <1> QED
    BY <1>6, <1>7 DEF TilingInv, Dragging

\* A move takes from one neighbour what it gives to the other.
LEMMA OnMouseMoveStep ==
    ASSUME TilingInv, NEW delta \in Int, OnMouseMove(delta)
    PROVE  TilingInv'
  <1> DEFINE new == CalculateNewWidths(delta)
             least == MinimumWidth
             sum == drag.left.width + drag.right.width
  <1>1. /\ Dragging /\ drag \in DragSet /\ innerWidth \in Nat /\ Layout(tiles) /\ skewed \in BOOLEAN
        /\ UNCHANGED <<drag, innerWidth>>
    BY DEF OnMouseMove, TilingInv
  <1>2. /\ drag.left \in Tile /\ drag.right \in Tile /\ drag.resized \in BOOLEAN
        /\ drag.left.width \in Int /\ drag.right.width \in Int /\ least \in Int
    BY <1>1, TileFields DEF DragSet, MinimumWidth
  <1>3. CASE ~drag.attached
    BY <1>1, <1>3 DEF OnMouseMove, TilingInv, Dragging
  <1>4. CASE drag.attached
    <2>1. /\ new[1] \in Int /\ new[2] \in Int /\ new[1] + new[2] = sum
          /\ new[1] < least => sum < 2 * least
          /\ new[2] < least => sum < 2 * least
      <3> DEFINE left == drag.left.width + delta
                 right == drag.right.width - delta
      <3>1. left \in Int /\ right \in Int /\ left + right = sum /\ sum \in Int
        BY <1>2
      <3>2. new = IF left < least THEN <<least, sum - least>>
                  ELSE IF right < least THEN <<sum - least, least>> ELSE <<left, right>>
        BY DEF CalculateNewWidths, AdjustWidthsWithMinimum
      <3> HIDE DEF left, right, sum, least, new
      <3> QED
        BY <1>2, <3>1, <3>2
    <2> HIDE DEF new
    <2>2. PICK l \in tiles, r \in tiles :
             /\ l # r /\ l.id = drag.left.id /\ r.id = drag.right.id
             /\ ~drag.resized /\ ~skewed => l.width + r.width = sum
      BY <1>1, <1>4 DEF TilingInv, HeldTiles
    <2> DEFINE l2 == [l EXCEPT !.width = new[1]]
               r2 == [r EXCEPT !.width = new[2]]
    <2>3. /\ l2 \in Tile /\ l2.id = l.id /\ l2.index = l.index /\ l2.width = new[1]
          /\ r2 \in Tile /\ r2.id = r.id /\ r2.index = r.index /\ r2.width = new[2]
          /\ l \in Tile /\ r \in Tile
      BY <1>1, <2>1 DEF Layout, Tile
    <2>4. /\ skewed' = (skewed \/ drag.resized)
          /\ tiles' = {CASE t.id = drag.left.id -> [t EXCEPT !.width = new[1]]
                         [] t.id = drag.right.id -> [t EXCEPT !.width = new[2]]
                         [] OTHER -> t : t \in tiles}
      BY <1>4 DEF OnMouseMove, new
    <2>5. /\ \A t \in tiles : t.id = l.id => t = l
          /\ \A t \in tiles : t.id = r.id => t = r
          /\ l.id # r.id /\ l.index # r.index
      BY <1>1, <2>2 DEF Layout
    <2>6. tiles' = {IF t = l THEN l2 ELSE IF t = r THEN r2 ELSE t : t \in tiles}
      <3> DEFINE moved(t) == CASE t.id = drag.left.id -> [t EXCEPT !.width = new[1]]
                               [] t.id = drag.right.id -> [t EXCEPT !.width = new[2]]
                               [] OTHER -> t
                 chosen(t) == IF t = l THEN l2 ELSE IF t = r THEN r2 ELSE t
      <3>1. \A t \in tiles : moved(t) = chosen(t)
        BY <2>2, <2>5
      <3>2. tiles' = {moved(t) : t \in tiles}
        BY <2>4
      <3> HIDE DEF moved, chosen
      <3>3. tiles' = {chosen(t) : t \in tiles}
        BY <3>1, <3>2
      <3> QED
        BY <3>3 DEF chosen
    <2> HIDE DEF l2, r2
    <2>7. tiles' = (tiles \ {l, r}) \cup {l2, r2}
      BY <2>2, <2>6
    <2>8. /\ Layout(tiles') /\ Cardinality(tiles') = Cardinality(tiles) /\ l2 # r2
          /\ WidthSum(tiles') = WidthSum(tiles) - (l.width + r.width) + (l2.width + r2.width)
      BY <1>1, <2>2, <2>3, <2>5, <2>7, PairReplaced
    <2>9. HeldTiles'
      <3>1. l2 \in tiles' /\ r2 \in tiles' /\ l2.width + r2.width = sum
        BY <2>1, <2>3, <2>7
      <3> QED
        BY <1>1, <2>2, <2>3, <2>8, <3>1 DEF HeldTiles
    <2>10. ASSUME ~skewed'
           PROVE  Filled(tiles', innerWidth)
      <3>1. ~skewed /\ ~drag.resized /\ tiles # {} /\ Filled(tiles, innerWidth)
        BY <2>2, <2>4, <2>10 DEF TilingInv
      <3>2. WidthSum(tiles) \in Int
        BY <1>1, TileFields, SumWithout DEF Layout
      <3>3. l.width + r.width = sum /\ l2.width + r2.width = sum /\ sum \in Int
        BY <1>2, <2>1, <2>2, <2>3, <3>1
      <3>4. WidthSum(tiles') = WidthSum(tiles)
        BY <2>8, <3>2, <3>3
      <3>5. ASSUME Cardinality(tiles') <= 6
            PROVE  \A t \in tiles' : t.width >= least
        <4>1. \A t \in tiles : t.width >= least
          BY <2>8, <3>1, <3>5 DEF Filled, MinimumWidth
        <4>2. sum >= 2 * least
          <5>1. l.width \in Int /\ r.width \in Int /\ l.width >= least /\ r.width >= least
            BY <2>2, <2>3, <4>1, TileFields
          <5> HIDE DEF sum, least
          <5> QED
            BY <1>2, <3>3, <5>1
        <4>3. l2.width >= least /\ r2.width >= least
          BY <1>2, <2>1, <2>3, <3>3, <4>2
        <4> QED
          BY <2>7, <4>1, <4>3
      <3> QED
        BY <2>8, <3>1, <3>4, <3>5 DEF Filled, MinimumWidth
    <2>11. skewed' \in BOOLEAN
      BY <1>1, <1>2, <2>4
    <2> QED
      BY <1>1, <2>8, <2>9, <2>10, <2>11 DEF TilingInv, Dragging
  <1> QED
    BY <1>3, <1>4

\* A border that is let go leaves the widths as they are.
LEMMA OnMouseUpStep ==
    ASSUME TilingInv, OnMouseUp
    PROVE  TilingInv'
  BY DEF OnMouseUp, TilingInv, Dragging

\* A window that is resized gives every tile the same width again.
LEMMA OnResizeStep ==
    ASSUME TilingInv, NEW width \in InnerWidths, OnResize(width)
    PROVE  TilingInv'
  <1>1. /\ width \in Nat /\ Layout(tiles) /\ innerWidth' = width /\ skewed' = FALSE
        /\ tiles' = {[t EXCEPT !.width = width \div Cardinality(tiles)] : t \in tiles}
    BY TilingAssumption DEF OnResize, TilingInv
  <1> DEFINE share == width \div Cardinality(tiles)
             tile == [t \in tiles |-> [t EXCEPT !.width = share]]
  <1>2. tiles' = {tile[t] : t \in tiles}
    BY <1>1
  <1>3. tiles # {} => Cardinality(tiles) \in Nat \ {0} /\ share \in Int
    BY <1>1, FS_EmptySet, FS_CardinalityType DEF Layout
  <1> HIDE DEF share
  <1>4. \A t \in tiles : tile[t] \in Tile /\ tile[t].id = t.id /\ tile[t].index = t.index /\ tile[t].width = share
    BY <1>1, <1>3 DEF Layout, Tile
  <1>5. tile \in [tiles -> Tile]
    BY <1>4
  <1> HIDE DEF tile
  <1>6. IsFiniteSet(tiles') /\ Cardinality(tiles') = Cardinality(tiles)
    <2>1. \A t, u \in tiles : tile[t] = tile[u] => t = u
      BY <1>1, <1>4 DEF Layout
    <2>2. tile \in [tiles -> tiles'] /\ \A u \in tiles' : \E t \in tiles : tile[t] = u
      BY <1>2, <1>5
    <2>3. IsFiniteSet(tiles)
      BY <1>1 DEF Layout
    <2> QED
      BY <2>1, <2>2, <2>3, ImageSize
  <1>7. Layout(tiles')
    <2>1. {t.index : t \in tiles'} = {t.index : t \in tiles}
      BY <1>2, <1>4
    <2>2. \A t, u \in tiles' : t.id = u.id \/ t.index = u.index => t = u
      BY <1>1, <1>2, <1>4 DEF Layout
    <2>3. tiles' \subseteq Tile
      BY <1>2, <1>4
    <2> QED
      BY <1>1, <1>6, <2>1, <2>2, <2>3 DEF Layout
  <1>8. tiles' # {} => Filled(tiles', width)
    <2>1. \A t \in tiles' : t.width = width \div Cardinality(tiles')
      BY <1>2, <1>4, <1>6 DEF share
    <2> QED
      BY <1>1, <1>6, <2>1, EqualFills
  <1>9. ASSUME Dragging
        PROVE  /\ drag' \in DragSet
               /\ drag'.attached => HeldTiles'
    <2>1. drag \in DragSet /\ drag' = [drag EXCEPT !.resized = TRUE]
      BY <1>9 DEF OnResize, TilingInv
    <2>2. /\ drag' \in DragSet /\ drag'.resized
          /\ drag'.left = drag.left /\ drag'.right = drag.right
          /\ drag'.attached = drag.attached
      BY <2>1 DEF DragSet
    <2>3. ASSUME drag.attached
          PROVE  HeldTiles'
      <3>1. PICK l \in tiles, r \in tiles : l # r /\ l.id = drag.left.id /\ r.id = drag.right.id
        BY <1>9, <2>3 DEF TilingInv, HeldTiles
      <3>2. tile[l] \in tiles' /\ tile[r] \in tiles' /\ tile[l].id = l.id /\ tile[r].id = r.id
        BY <1>2, <1>4
      <3>3. tile[l] # tile[r]
        BY <1>1, <3>1, <3>2 DEF Layout
      <3> QED
        BY <2>2, <3>1, <3>2, <3>3 DEF HeldTiles
    <2> QED
      BY <1>9, <2>2, <2>3 DEF TilingInv
  <1> QED
    BY <1>1, <1>7, <1>8, <1>9 DEF OnResize, TilingInv, Dragging

\* Two tiles that are swapped exchange their slots.
LEMMA SwapSessionsStep ==
    ASSUME TilingInv, NEW first \in tiles, NEW second \in tiles, SwapSessions(first, second)
    PROVE  TilingInv'
  <1> DEFINE l2 == [first EXCEPT !.index = second.index, !.width = second.width]
             r2 == [second EXCEPT !.index = first.index, !.width = first.width]
  <1>1. /\ Layout(tiles) /\ ~Dragging /\ second.index = first.index - 1
        /\ tiles' = (tiles \ {first, second}) \cup {l2, r2}
        /\ UNCHANGED <<drag, innerWidth, skewed>>
    BY DEF SwapSessions, TilingInv
  <1>2. /\ first \in Tile /\ second \in Tile /\ first.index \in Nat /\ first # second
        /\ first.width \in Int /\ second.width \in Int
    BY <1>1, TileFields DEF Layout
  <1>3. /\ l2 \in Tile /\ l2.id = first.id /\ l2.index = second.index /\ l2.width = second.width
        /\ r2 \in Tile /\ r2.id = second.id /\ r2.index = first.index /\ r2.width = first.width
    BY <1>2 DEF Tile
  <1> HIDE DEF l2, r2
  <1>4. second.index # first.index
    BY <1>1, <1>2
  <1>5. /\ Layout(tiles') /\ Cardinality(tiles') = Cardinality(tiles)
        /\ WidthSum(tiles') = WidthSum(tiles) - (first.width + second.width) + (l2.width + r2.width)
    BY <1>1, <1>2, <1>3, <1>4, PairReplaced
  <1>6. WidthSum(tiles) \in Int
    BY <1>1, TileFields, SumWithout DEF Layout
  <1>7. WidthSum(tiles') = WidthSum(tiles)
    BY <1>2, <1>3, <1>5, <1>6
  <1>8. \A t \in tiles' : \E u \in tiles : t.width = u.width
    BY <1>1, <1>3
  <1>9. tiles # {}
    OBVIOUS
  <1>10. ~skewed => Filled(tiles', innerWidth)
    BY <1>5, <1>7, <1>8, <1>9 DEF TilingInv, Filled
  <1> QED
    BY <1>1, <1>5, <1>10 DEF TilingInv, Dragging

\* Every step keeps the invariant of the window manager.
LEMMA TilingStep ==
    ASSUME TilingInv, [TilingNext]_tileVars
    PROVE  TilingInv'
  <1>1. CASE UNCHANGED tileVars
    BY <1>1 DEF tileVars, TilingInv, Dragging, HeldTiles
  <1>2. \A d \in Distances : d \in Int /\ -d \in Int
    BY TilingAssumption
  <1> QED
    BY <1>1, <1>2, PublishStep, OnMouseDownStep, OnMouseMoveStep, OnMouseUpStep, OnResizeStep, SwapSessionsStep
       DEF TilingNext

\* In every reachable state the tiles take the slots one each and fill the window, unless
\* it was resized during a drag, and the border that is held is between the two tiles of
\* the drag.
THEOREM TilingInvariant == TilingSpec => []TilingInv
  BY TilingInitial, TilingStep, PTL DEF TilingSpec

\* Any number of sessions in windows of any width: after any swaps and drags the tiles
\* fill the window, each in a slot of its own, and six or less stay above the minimum.
THEOREM TilesFillTheWindow == TilingSpec => []LayoutFillsWindow
  <1>1. ASSUME TilingInv
        PROVE  LayoutFillsWindow
    <2> SUFFICES ASSUME tiles # {}
                 PROVE  /\ {t.index : t \in tiles} = Slots
                        /\ Cardinality({t.id : t \in tiles}) = Cardinality(tiles)
                        /\ ~skewed =>
                              /\ WidthSum(tiles) = Cardinality(tiles) * (innerWidth \div Cardinality(tiles))
                              /\ Cardinality(tiles) <= 6 => \A t \in tiles : t.width >= MinimumWidth
      BY DEF LayoutFillsWindow, WidthSum
    <2> DEFINE id == [t \in tiles |-> t.id]
             ids == {t.id : t \in tiles}
    <2>1. IsFiniteSet(tiles) /\ \A t, u \in tiles : id[t] = id[u] => t = u
      BY <1>1 DEF TilingInv, Layout
    <2>2. id \in [tiles -> ids] /\ \A i \in ids : \E t \in tiles : id[t] = i
      OBVIOUS
    <2> HIDE DEF id, ids
    <2>3. Cardinality(ids) = Cardinality(tiles)
      BY <2>1, <2>2, ImageSize
    <2> USE DEF ids
    <2> QED
      BY <1>1, <2>3 DEF TilingInv, Layout, Filled, Slots, MinimumWidth
  <1> QED
    BY <1>1, TilingInvariant, PTL

=============================================================================
