---------------------------- MODULE FrontendProofs ----------------------------
(***************************************************************************)
(* The specification of the whole frontend implements the one of each      *)
(* part, so that what is proved of a part holds of the whole, and its      *)
(* type invariant.                                                         *)
(***************************************************************************)
EXTENDS Frontend, ViewerProofs, PagesProofs, DialogsProofs, ListsProofs

----------------------------------------------------------------------------
(* The parts *)

\* A step of the frontend is a step of the part that moves and leaves the others alone.
THEOREM PartsAreImplemented ==
    FrontendSpec =>
        /\ ViewerSpec /\ TilingSpec /\ LoginSpec /\ PagesSpec /\ ListsSpec /\ RunPageSpec
        /\ SessionListSpec /\ StoresSpec /\ ReposSpec /\ ElementsSpec /\ DialogsSpec
        /\ DiagramsSpec
  <1>1. FrontendInit =>
            /\ ViewerInit /\ TilingInit /\ LoginInit /\ PagesInit /\ ListsInit /\ RunPageInit
            /\ SessionListInit /\ StoresInit /\ ReposInit /\ ElementsInit /\ DialogsInit
            /\ DiagramsInit
    BY DEF FrontendInit
  <1>2. [FrontendNext]_frontendVars =>
            /\ [ViewerNext]_viewVars /\ [TilingNext]_tileVars /\ [LoginNext]_loginVars
            /\ [PagesNext]_pageVars /\ [ListsNext]_listVars /\ [RunPageNext]_rpVars
            /\ [SessionListNext]_slVars /\ [StoresNext]_storeVars /\ [ReposNext]_reposVars
            /\ [ElementsNext]_elementVars /\ [DialogsNext]_requestDialogVars
            /\ [DiagramsNext]_diagramVars
    BY Zenon DEF FrontendNext, frontendVars, ViewerMoves, TilingMoves, LoginMoves, PagesMoves,
           ListsMoves, RunMoves, SessionsMoves, StoresMoves, RepositoriesMoves,
           ElementsMoves, DialogsMoves, DiagramsMoves
  <1> QED
    BY <1>1, <1>2, PTL DEF FrontendSpec, ViewerSpec, TilingSpec, LoginSpec, PagesSpec,
       ListsSpec, RunPageSpec, SessionListSpec, StoresSpec, ReposSpec, ElementsSpec,
       DialogsSpec, DiagramsSpec

----------------------------------------------------------------------------
(* The window manager *)

\* The types of the window manager that its layout does not rest on.
TilingBounds == innerWidth \in InnerWidths /\ resizes \in 0 .. MaxResizes

\* The window manager keeps its types: the window has one of its widths.
LEMMA TilingTypes == TilingSpec => []TilingTypeOK
  <1>1. TilingInit => TilingBounds
    BY TilingAssumption DEF TilingInit, TilingBounds
  <1>2. TilingBounds /\ [TilingNext]_tileVars => TilingBounds'
    <2> SUFFICES ASSUME TilingBounds, [TilingNext]_tileVars
                 PROVE  TilingBounds'
      OBVIOUS
    <2>1. CASE \E width \in InnerWidths : OnResize(width)
      BY <2>1, TilingAssumption DEF TilingBounds, OnResize
    <2>2. CASE UNCHANGED <<innerWidth, resizes>>
      BY <2>2 DEF TilingBounds
    <2> QED
      BY <2>1, <2>2 DEF TilingNext, tileVars, SessionsEmitted, Publish, OnMouseUp, OnMouseDown, OnMouseMove, SwapSessions
  <1>3. TilingInv /\ TilingBounds => TilingTypeOK
    BY DEF TilingInv, TilingBounds, TilingTypeOK, Layout, DragSet
  <1> QED
    BY <1>1, <1>2, <1>3, TilingInvariant, PTL DEF TilingSpec

----------------------------------------------------------------------------
(* Lists that are loaded page by page *)

\* The pages that can exist bound the list, and the requests that are sent.
ListBounds ==
    /\ listKind \in {"runs", "events"}
    /\ Len(listPages) <= MaxPage /\ Len(listRequests) <= MaxListRequests
    /\ listFailed \subseteq 1 .. MaxPage
    /\ {listShown, listSubscribed} \subseteq BOOLEAN

\* A page that is asked for is one of the pages that can exist.
LEMMA LoadedBounds ==
    ASSUME NEW pages \in Seq(PageValues), NEW sent \in Seq(ListRequest), NEW owner,
           NEW n \in 1 .. MaxPage, LoadPage(pages, sent, owner, n),
           Len(pages) <= MaxPage, Len(sent) <= MaxListRequests
    PROVE  Len(listPages') <= MaxPage /\ Len(listRequests') <= MaxListRequests
  <1>1. CASE PageAt(pages, n) # Undefined
    BY <1>1 DEF LoadPage
  <1>2. CASE PageAt(pages, n) = Undefined
    <2> DEFINE new == [call |-> PageRequest(owner, n), current |-> TRUE]
    <2>1. /\ listPages' = Assigned(pages, n, Loading)
          /\ Len(sent) < MaxListRequests /\ listRequests' = Append(sent, new)
      BY <1>2 DEF LoadPage
    <2>2. Undefined \in PageValues /\ Loading \in PageValues
      BY DEF PageValues
    <2>3. Len(Assigned(pages, n, Loading)) = IF n > Len(pages) THEN n ELSE Len(pages)
      BY <2>2, AssignedPages
    <2>4. Len(Append(sent, new)) = Len(sent) + 1 /\ Len(sent) \in Nat
      BY LenProperties
    <2>5. MaxListRequests \in Nat
      BY PagedListsAssumption
    <2> QED
      BY <2>1, <2>3, <2>4, <2>5 DEF MaxPage
  <1> QED
    BY <1>1, <1>2

\* A list keeps its types: it has no more pages than exist.
LEMMA ListTypesHold == ListsSpec => []ListsTypeOK
  <1>1. ListsInit => ListBounds
    <2> SUFFICES ASSUME ListsInit
                 PROVE  ListBounds
      OBVIOUS
    <2>1. Len(listPages) = 0 /\ Len(listRequests) = 0
      BY EmptySeq DEF ListsInit
    <2>2. 0 <= MaxPage /\ 0 <= MaxListRequests
      BY PagedListsAssumption DEF MaxPage
    <2> QED
      BY <2>1, <2>2 DEF ListsInit, ListBounds
  <1>2. PagedInv /\ ListBounds /\ [ListsNext]_listVars => ListBounds'
    <2> SUFFICES ASSUME PagedInv, ListBounds, [ListsNext]_listVars
                 PROVE  ListBounds'
      OBVIOUS
    <2>1. /\ listPages \in Seq(PageValues) /\ listRequests \in Seq(ListRequest)
          /\ Len(listPages) <= MaxPage /\ Len(listRequests) <= MaxListRequests /\ MaxListRequests \in Nat
      BY PagedListsAssumption DEF PagedInv, PagedTypes, ListBounds
    <2>2. ASSUME NEW owner \in Owners \cup {NoOwner}, EmitOwner(owner)
          PROVE  ListBounds'
      <3>1. /\ Outdated \in Seq(ListRequest) /\ Len(Outdated) <= MaxListRequests
            /\ <<>> \in Seq(PageValues) /\ Len(<<>>) = 0
        <4>1. Outdated \in Seq(ListRequest) /\ <<>> \in Seq(PageValues)
          BY <2>1, EmptiedList
        <4>2. DOMAIN Outdated = DOMAIN listRequests
          BY DEF Outdated
        <4>3. Len(Outdated) = Len(listRequests)
          BY <2>1, <4>1, <4>2, LenProperties
        <4> QED
          BY <2>1, <4>1, <4>3, EmptySeq
      <3>2. Len(listPages') <= MaxPage /\ Len(listRequests') <= MaxListRequests
        <4>1. CASE listKind = "runs" /\ listSubscribed /\ owner # NoOwner
          <5>1. LoadPage(<<>>, Outdated, owner, 1) /\ 1 \in 1 .. MaxPage /\ Len(<<>>) <= MaxPage
            BY <2>2, <3>1, <4>1 DEF EmitOwner, ResetPages, MaxPage
          <5> QED
            BY <3>1, <5>1, LoadedBounds
        <4>2. CASE ~(listKind = "runs" /\ listSubscribed /\ owner # NoOwner)
          BY <2>2, <3>1, <4>2 DEF EmitOwner, ResetPages, MaxPage
        <4> QED
          BY <4>1, <4>2
      <3> QED
        BY <2>2, <3>2 DEF ListBounds, EmitOwner
    <2>3. CASE ShowList
      <3>1. Len(listPages') <= MaxPage /\ Len(listRequests') <= MaxListRequests
        BY <2>1, <2>3, LoadedBounds DEF ShowList, MaxPage
      <3> QED
        BY <2>3, <3>1 DEF ListBounds, ShowList
    <2>4. CASE HideList
      BY <2>4 DEF ListBounds, HideList
    <2>5. ASSUME NEW n \in 1 .. MaxPage, ObserveVisible(n)
          PROVE  ListBounds'
      <3>1. Len(listPages') <= MaxPage /\ Len(listRequests') <= MaxListRequests
        BY <2>1, <2>5, LoadedBounds DEF ObserveVisible
      <3> QED
        BY <2>5, <3>1 DEF ListBounds, ObserveVisible
    <2>6. ASSUME NEW k \in DOMAIN listRequests
          PROVE  /\ listRequests[k] \in ListRequest
                 /\ Len(ListAnswered(k)) <= MaxListRequests
      <3>1. ListAnswered(k) = RemoveAt(listRequests, k)
        BY DEF ListAnswered, RemoveAt
      <3>2. Len(RemoveAt(listRequests, k)) = Len(listRequests) - 1 /\ Len(listRequests) \in Nat
        BY <2>1, Removed, LenProperties
      <3> QED
        BY <2>1, <3>1, <3>2, ElementOfSeq, LenProperties
    <2>7. ASSUME NEW k \in DOMAIN listRequests, PageReturns(k)
          PROVE  ListBounds'
      <3> DEFINE owner == OwnerOf(listRequests[k])
                 n == PageOf(listRequests[k])
                 pages == Assigned(listPages, n, owner)
      <3>1. owner \in Owners /\ n \in 1 .. MaxPage
        BY <2>6, RequestTyped
      <3>2. owner \in PageValues /\ Undefined \in PageValues
        BY <3>1 DEF PageValues
      <3> HIDE DEF owner, n
      <3>3. /\ pages \in Seq(PageValues)
            /\ Len(pages) = IF n > Len(listPages) THEN n ELSE Len(listPages)
        BY <2>1, <3>1, <3>2, AssignedPages
      <3>4. Len(pages) <= MaxPage /\ Len(pages) \in Nat /\ Len(pages) >= 1
        BY <2>1, <3>1, <3>3, LenProperties DEF MaxPage
      <3> HIDE DEF pages
      <3>5. Len(Initialized(pages)) <= MaxPage
        <4>1. pages[1] \in PageValues
          BY <3>3, <3>4, ElementOfSeq
        <4>2. CASE pages[1] \in {Undefined, Loading}
          BY <3>4, <4>2 DEF Initialized
        <4>3. CASE pages[1] \in Owners
          <5>1. /\ PageCount[pages[1]] \in 0 .. MaxPage /\ PageCount[pages[1]] \in Nat
                /\ pages[1] \notin {Undefined, Loading}
            BY <4>3, PagedListsAssumption DEF MaxPage
          <5>2. Len(Initialized(pages)) = PageCount[pages[1]]
            BY <3>2, <3>3, <5>1, InitializedPages
          <5> QED
            BY <5>1, <5>2 DEF MaxPage
        <4> QED
          BY <4>1, <4>2, <4>3 DEF PageValues
      <3>6. listPages' = Initialized(pages)
        BY <2>7 DEF PageReturns, pages, owner, n
      <3> QED
        BY <2>6, <2>7, <3>5, <3>6 DEF ListBounds, PageReturns
    <2>8. ASSUME NEW k \in DOMAIN listRequests, PageFails(k)
          PROVE  ListBounds'
      <3>1. PageOf(listRequests[k]) \in 1 .. MaxPage
        BY <2>6, RequestTyped
      <3> QED
        BY <2>6, <2>8, <3>1 DEF ListBounds, PageFails
    <2>9. CASE UNCHANGED listVars
      BY <2>9 DEF ListBounds, listVars
    <2> QED
      BY <2>2, <2>3, <2>4, <2>5, <2>7, <2>8, <2>9 DEF ListsNext
  <1>3. PagedInv /\ ListBounds => ListsTypeOK
    <2> SUFFICES ASSUME PagedInv, ListBounds
                 PROVE  ListsTypeOK
      OBVIOUS
    <2>1. \A k \in DOMAIN listPages : listPages[k] \in PageValues
      BY ElementOfSeq, LenProperties DEF PagedInv, PagedTypes
    <2>2. \A k \in DOMAIN listRequests : listRequests[k] \in ListRequest
      BY ElementOfSeq, LenProperties DEF PagedInv, PagedTypes
    <2>3. ToSet(listPages) \subseteq PageValues /\ ToSet(listRequests) \subseteq ListRequest
      BY <2>1, <2>2 DEF ToSet
    <2> QED
      BY <2>3 DEF PagedInv, PagedTypes, ListBounds, ListsTypeOK, PageValues
  <1> QED
    BY <1>1, <1>2, <1>3, PagedInvariant, PTL DEF ListsSpec

----------------------------------------------------------------------------
(* The session list *)

\* Requests and delays together are bounded; the requests that are left behind are
\* requests to terminate sessions that exist or existed.
SessionBounds ==
    /\ slUsers <= MaxUsers /\ Busy <= MaxAsked
    /\ slList \in KnownLists
    /\ slIdle \in [Senders -> 0 .. MaxIdle]
    /\ slUnwatched \subseteq {TerminateSession(s) : s \in ListedSessions}

\* A subscription asks if there is room for one more request.
LEMMA SubscribedBounds ==
    ASSUME ListTypes, SessionBounds, NEW sender \in Senders, Subscribe(sender), UNCHANGED slDelayed
    PROVE  Busy' <= MaxAsked /\ slIdle' \in [Senders -> 0 .. MaxIdle]
  <1>1. /\ slDelayed \in Nat /\ Len(slAsked) \in Nat /\ slIdle \in [Senders -> 0 .. MaxIdle]
        /\ MaxAsked \in Nat /\ MaxIdle \in Nat /\ Len(slAsked) + slDelayed <= MaxAsked
    BY SessionListAssumption, LenProperties DEF ListTypes, SessionBounds, Busy
  <1>2. CASE slUsers > 0
    <2>1. /\ slAsked' = Append(slAsked, Ask(sender)) /\ slIdle' = slIdle
          /\ Len(slAsked) + slDelayed < MaxAsked
      BY <1>2 DEF Subscribe, Busy
    <2>2. Len(slAsked') = Len(slAsked) + 1
      BY <2>1, NewAsk, Appended DEF ListTypes
    <2> QED
      BY <1>1, <2>1, <2>2 DEF Busy
  <1>3. CASE ~(slUsers > 0)
    <2>1. /\ slAsked' = slAsked
          /\ slIdle' = [slIdle EXCEPT ![sender] = IF slIdle[sender] < MaxIdle THEN slIdle[sender] + 1 ELSE slIdle[sender]]
      BY <1>3 DEF Subscribe, OneMoreIdle
    <2> QED
      BY <1>1, <2>1 DEF Busy
  <1> QED
    BY <1>2, <1>3

\* An answer makes room for the delay that follows it.
LEMMA AnsweredBounds ==
    ASSUME ListTypes, SessionBounds, NEW k \in DOMAIN slAsked, SlAnswered(k), AsksAgain(k)
    PROVE  Busy' <= MaxAsked
  <1>1. /\ slDelayed \in Nat /\ Len(slAsked) \in Nat /\ MaxAsked \in Nat
        /\ Len(slAsked) + slDelayed <= MaxAsked
    BY SessionListAssumption, LenProperties DEF ListTypes, SessionBounds, Busy
  <1>2. Len(slAsked') = Len(slAsked) - 1
    BY Removed DEF SlAnswered, ListTypes
  <1>3. slDelayed' \in {slDelayed, slDelayed + 1}
    BY <1>1 DEF AsksAgain
  <1> QED
    BY <1>1, <1>2, <1>3 DEF Busy

\* The session list keeps its types.
LEMMA SessionListTypes == SessionListSpec => []SessionListTypeOK
  <1>1. SessionListInit => SessionBounds
    <2>1. Len(<<>>) = 0 /\ UndefinedList \in KnownLists
      BY DEF UndefinedList, KnownLists
    <2> QED
      BY <2>1, SessionListAssumption DEF SessionListInit, SessionBounds, Busy
  <1>2. SessionListInv /\ SessionBounds /\ [SessionListNext]_slVars => SessionBounds'
    <2> SUFFICES ASSUME SessionListInv, SessionBounds, [SessionListNext]_slVars
                 PROVE  SessionBounds'
      OBVIOUS
    <2>1. /\ slUsers \in Nat /\ slDelayed \in Nat /\ Len(slAsked) \in Nat
          /\ slAsked \in Seq(ListCallSet) /\ slIdle \in [Senders -> 0 .. MaxIdle]
          /\ Len(slAsked) + slDelayed <= MaxAsked /\ slUsers <= MaxUsers
          /\ MaxAsked \in Nat /\ MaxIdle \in Nat /\ MaxUsers \in Nat /\ ListTypes
          /\ slIdle["page"] \in Nat /\ slIdle["loadSessions"] \in Nat
      BY SessionListAssumption, LenProperties
         DEF SessionListInv, ListInv, ListTypes, SessionBounds, Busy, Senders
    <2>2. \A k \in DOMAIN slAsked : slAsked[k] \in ListCallSet
      BY <2>1, ElementOfSeq, LenProperties
    <2>3. \A k \in DOMAIN slAsked : slAsked[k].sender \in Senders /\ slAsked[k].read \in KnownLists
      BY <2>2 DEF ListCallSet
    <2>4. \A s \in DOMAIN slDialog : s \in ListedSessions
      BY DEF SessionListInv, ListInv, ListsWereTrue, DialogInv
    <2>5. "page" \in Senders /\ "loadSessions" \in Senders /\ UndefinedList \in KnownLists
      BY DEF Senders, UndefinedList, KnownLists
    <2>6. CASE UserEmits
      <3> DEFINE again == [k \in DOMAIN slAsked |-> Ask(slAsked[k].sender)]
                 fromPage == [k \in 1 .. slIdle["page"] |-> Ask("page")]
                 fromOthers == [k \in 1 .. slIdle["loadSessions"] |-> Ask("loadSessions")]
      <3>1. /\ slUsers' = slUsers + 1 /\ slUsers < MaxUsers
            /\ slAsked' = again \o fromPage \o fromOthers
            /\ Len(slAsked) + slDelayed + slIdle["page"] + slIdle["loadSessions"] <= MaxAsked
            /\ slIdle' = [sender \in Senders |-> 0]
            /\ UNCHANGED <<slDelayed, slList, slUnwatched>>
        BY <2>6 DEF UserEmits, Busy, dialogVars
      <3>2. again \in Seq(ListCallSet) /\ Len(again) = Len(slAsked)
        <4>1. again \in [DOMAIN slAsked -> ListCallSet]
          BY <2>3, NewAsk
        <4>2. again \in Seq(ListCallSet) /\ DOMAIN again = DOMAIN slAsked
          BY <2>1, <4>1, Mapped
        <4> QED
          BY <2>1, <4>2, LenProperties
      <3>3. fromPage \in Seq(ListCallSet) /\ Len(fromPage) = slIdle["page"]
        BY <2>1, <2>5, NewAsk, SeqDef, LenProperties
      <3>4. fromOthers \in Seq(ListCallSet) /\ Len(fromOthers) = slIdle["loadSessions"]
        BY <2>1, <2>5, NewAsk, SeqDef, LenProperties
      <3> HIDE DEF again, fromPage, fromOthers
      <3>5. again \o fromPage \in Seq(ListCallSet) /\ Len(again \o fromPage) = Len(again) + Len(fromPage)
        BY <3>2, <3>3, Joined
      <3>6. Len(slAsked') = Len(again \o fromPage) + Len(fromOthers)
        BY <3>1, <3>4, <3>5, Joined
      <3>7. Busy' <= MaxAsked
        BY <2>1, <3>1, <3>2, <3>3, <3>4, <3>5, <3>6 DEF Busy
      <3> QED
        BY <2>1, <3>1, <3>7 DEF SessionBounds
    <2>7. CASE OpenPage
      <3>1. Busy' <= MaxAsked /\ slIdle' \in [Senders -> 0 .. MaxIdle]
        BY <2>1, <2>5, <2>7, SubscribedBounds DEF OpenPage
      <3> QED
        BY <2>7, <3>1 DEF OpenPage, SessionBounds, dialogVars
    <2>8. CASE ClosePage
      <3> DEFINE kept == {k \in DOMAIN slAsked : slAsked[k].sender # "page"}
      <3>1. slAsked' = Filtered(slAsked, kept) /\ kept \in SUBSET DOMAIN slAsked
        BY <2>8 DEF ClosePage
      <3>2. Len(slAsked') <= Len(slAsked) /\ Len(slAsked') \in Nat
        BY <2>1, <3>1, FilteredLength
      <3>3. Busy' <= MaxAsked /\ slIdle' \in [Senders -> 0 .. MaxIdle]
        BY <2>1, <2>5, <2>8, <3>2 DEF ClosePage, Busy
      <3> QED
        BY <2>8, <3>3 DEF ClosePage, SessionBounds, dialogVars
    <2>9. CASE DelayEnds
      <3>1. Len(slAsked') = Len(slAsked) + 1
        BY <2>1, <2>5, <2>9, NewAsk, Appended DEF DelayEnds
      <3>2. Busy' <= MaxAsked
        BY <2>1, <2>9, <3>1 DEF DelayEnds, Busy
      <3> QED
        BY <2>9, <3>2 DEF DelayEnds, SessionBounds, dialogVars
    <2>10. ASSUME NEW k \in DOMAIN slAsked, ListServed(k)
           PROVE  SessionBounds'
      <3>1. DOMAIN slAsked' = DOMAIN slAsked
        BY <2>10 DEF ListServed
      <3>2. slAsked' \in Seq(ListCallSet)
        BY <2>10, SessionListStep DEF SessionListInv, ListInv, ListTypes
      <3>3. Len(slAsked') = Len(slAsked)
        BY <2>1, <3>1, <3>2, LenProperties
      <3> QED
        BY <2>10, <3>3 DEF ListServed, SessionBounds, Busy, dialogVars
    <2>11. ASSUME NEW k \in DOMAIN slAsked, ListReturns(k)
           PROVE  SessionBounds'
      <3>1. Busy' <= MaxAsked
        BY <2>1, <2>11, AnsweredBounds DEF ListReturns
      <3>2. slIdle' \in [Senders -> 0 .. MaxIdle]
        BY <2>1, <2>3, <2>11 DEF ListReturns, OneMoreIdle
      <3> QED
        BY <2>3, <2>11, <3>1, <3>2 DEF ListReturns, SessionBounds, dialogVars
    <2>12. ASSUME NEW k \in DOMAIN slAsked, ListFails(k)
           PROVE  SessionBounds'
      <3>1. Busy' <= MaxAsked
        BY <2>1, <2>12, AnsweredBounds DEF ListFails
      <3> QED
        BY <2>5, <2>12, <3>1 DEF ListFails, SessionBounds, dialogVars
    <2>13. ASSUME NEW s \in ListedSessions, SessionRequested(s)
           PROVE  SessionBounds'
      <3>1. Busy' <= MaxAsked /\ slIdle' \in [Senders -> 0 .. MaxIdle]
        BY <2>1, <2>5, <2>13, SubscribedBounds DEF SessionRequested
      <3> QED
        BY <2>13, <3>1 DEF SessionRequested, SessionBounds, dialogVars
    <2>14. ASSUME NEW s \in ListedSessions, TerminationReturns(s)
           PROVE  SessionBounds'
      <3>1. Busy' <= MaxAsked /\ slIdle' \in [Senders -> 0 .. MaxIdle]
        <4>1. CASE AllDone(s)
          BY <2>1, <2>5, <2>14, <4>1, SubscribedBounds DEF TerminationReturns
        <4>2. CASE ~AllDone(s)
          BY <2>1, <2>14, <4>2 DEF TerminationReturns, Busy
        <4> QED
          BY <4>1, <4>2
      <3> QED
        BY <2>14, <3>1 DEF TerminationReturns, SessionBounds
    <2>15. CASE DismissDialog \/ \E s \in ListedSessions : TerminationFails(s)
      BY <2>4, <2>15 DEF DismissDialog, TerminationFails, LeaveRequests, SessionBounds, Busy
    <2>16. ASSUME NEW s \in ListedSessions,
                  SessionGoes(s) \/ UnwatchedServed(s) \/ TerminationServed(s)
           PROVE  SessionBounds'
      BY <2>16 DEF SessionGoes, UnwatchedServed, TerminationServed, SessionBounds, Busy, dialogVars
    <2>17. CASE OpenTerminationDialog \/ DeleteAllSessions \/ UNCHANGED slVars
      BY <2>17 DEF OpenTerminationDialog, DeleteAllSessions, slVars, SessionBounds, Busy
    <2> QED
      BY <2>6, <2>7, <2>8, <2>9, <2>10, <2>11, <2>12, <2>13, <2>14, <2>15, <2>16, <2>17
         DEF SessionListNext
  <1>3. SessionListInv /\ SessionBounds => SessionListTypeOK
    <2> SUFFICES ASSUME SessionListInv, SessionBounds
                 PROVE  SessionListTypeOK
      OBVIOUS
    <2>1. slUsers \in 0 .. MaxUsers /\ slDelayed \in 0 .. MaxAsked
      BY SessionListAssumption, LenProperties
         DEF SessionListInv, ListInv, ListTypes, SessionBounds, Busy
    <2>2. slDialog \in [DOMAIN slDialog -> Steps] /\ DOMAIN slDialog \in SUBSET ListedSessions
      BY DEF SessionListInv, ListInv, ListsWereTrue, DialogInv
    <2>3. slDialog \in UNION {[S -> Steps] : S \in SUBSET ListedSessions}
      BY <2>2
    <2> QED
      BY <2>1, <2>3 DEF SessionListInv, ListInv, ListTypes, ListsWereTrue, DialogInv, ListCallSet,
                        SessionBounds, SessionListTypeOK
  <1> QED
    BY <1>1, <1>2, <1>3, SessionListInvariant, PTL DEF SessionListSpec

----------------------------------------------------------------------------
(* The repositories of an instance *)

\* What a repository that is listed can say, and how much is under way.
RepoBounds ==
    /\ \A repository \in DOMAIN reposHeld : reposHeld[repository] \in Statuses \cup {"LOADING"}
    /\ Len(reposCalls) <= MaxRepoCalls

\* The list is read if there is room for the requests.
LEMMA LoadBounds ==
    ASSUME NEW instance, NEW calls \in Seq(RepoCalls), NEW times \in Nat,
           LoadRepositories(instance, calls, times)
    PROVE  Len(reposCalls') <= MaxRepoCalls
  <1> DEFINE older == [i \in DOMAIN calls |-> [calls[i] EXCEPT !.newest = FALSE]]
             list == ListT4cRepositories(instance)
             reads == [k \in 1 .. times |-> RepoCall(list, instance, instance, k = times)]
             ofCalls == {older[i] : i \in DOMAIN calls}
             ofReads == {reads[k] : k \in 1 .. times}
  <1>1. Len(calls) + times <= MaxRepoCalls /\ reposCalls' = older \o reads
    BY DEF LoadRepositories
  <1>2. Len(calls) \in Nat /\ DOMAIN calls = 1 .. Len(calls)
    BY LenProperties
  <1>3. older \in [1 .. Len(calls) -> ofCalls]
    BY <1>2
  <1>4. reads \in [1 .. times -> ofReads]
    OBVIOUS
  <1> HIDE DEF older, reads, ofCalls, ofReads, list
  <1>5. older \in Seq(ofCalls) /\ Len(older) = Len(calls)
    BY <1>2, <1>3, SeqDef, LenProperties
  <1>6. reads \in Seq(ofReads) /\ Len(reads) = times
    BY <1>4, SeqDef, LenProperties
  <1>7. older \in Seq(ofCalls \cup ofReads) /\ reads \in Seq(ofCalls \cup ofReads)
    BY <1>5, <1>6
  <1>8. Len(older \o reads) = Len(older) + Len(reads)
    BY <1>7, Joined
  <1> QED
    BY <1>1, <1>5, <1>6, <1>8

\* The page of an instance keeps its types.
LEMMA RepositoryTypes == ReposSpec => []ReposTypeOK
  <1>1. ReposInit => RepoBounds
    <2> SUFFICES ASSUME ReposInit
                 PROVE  RepoBounds
      OBVIOUS
    <2>1. Len(reposCalls) = 0 /\ DOMAIN reposHeld = {}
      BY EmptySeq DEF ReposInit, NoRepositories
    <2>2. 0 <= MaxRepoCalls
      BY RepositoriesAssumption
    <2> QED
      BY <2>1, <2>2 DEF RepoBounds
  <1>2. RepoInv /\ RepoBounds /\ [ReposNext]_reposVars => RepoBounds'
    <2> SUFFICES ASSUME RepoInv, RepoBounds, [ReposNext]_reposVars
                 PROVE  RepoBounds'
      OBVIOUS
    <2>1. /\ reposCalls \in Seq(RepoCalls) /\ Len(reposCalls) \in Nat /\ Len(reposCalls) <= MaxRepoCalls
          /\ MaxRepoCalls \in Nat
      BY RepositoriesAssumption, LenProperties DEF RepoInv, RepoTypes, RepoBounds
    <2>2. \A i \in DOMAIN reposCalls :
             /\ RemoveAt(reposCalls, i) \in Seq(RepoCalls)
             /\ Len(RemoveAt(reposCalls, i)) <= MaxRepoCalls
      BY <2>1, Removed
    <2>3. \A request, instance, repository :
             SendRepoCall(request, instance, repository) => Len(reposCalls') <= MaxRepoCalls
      <3> SUFFICES ASSUME NEW request, NEW instance, NEW repository,
                          SendRepoCall(request, instance, repository)
                   PROVE  Len(reposCalls') <= MaxRepoCalls
        OBVIOUS
      <3> DEFINE call == RepoCall(request, instance, repository, FALSE)
      <3>1. Len(reposCalls) < MaxRepoCalls /\ reposCalls' = Append(reposCalls, call)
        BY DEF SendRepoCall
      <3> HIDE DEF call
      <3>2. Len(Append(reposCalls, call)) = Len(reposCalls) + 1
        BY <2>1, LenProperties
      <3> QED
        BY <2>1, <3>1, <3>2
    <2>4. ASSUME NEW instance \in Instances, ChooseInstance(instance)
          PROVE  RepoBounds'
      <3>1. Len(reposCalls') <= MaxRepoCalls
        BY <2>1, <2>4, LoadBounds DEF ChooseInstance
      <3> QED
        BY <2>4, <3>1 DEF ChooseInstance, RepoBounds
    <2>5. CASE LeaveInstance
      <3>1. DOMAIN reposCalls' = DOMAIN reposCalls
        BY <2>5 DEF LeaveInstance
      <3>2. reposCalls' \in Seq(RepoCalls)
        BY <2>5, LeaveStep DEF RepoInv, RepoTypes
      <3>3. Len(reposCalls') = Len(reposCalls)
        BY <2>1, <3>1, <3>2, LenProperties
      <3> QED
        BY <2>1, <2>5, <3>3 DEF LeaveInstance, RepoBounds, NoRepositories
    <2>6. CASE RefreshRepositories
      <3>1. Len(reposCalls') <= MaxRepoCalls
        BY <2>1, <2>6, LoadBounds DEF RefreshRepositories
      <3> QED
        BY <2>6, <3>1 DEF RefreshRepositories, RepoBounds
    <2>7. ASSUME NEW repository \in Repositories, CreateRepository(repository)
          PROVE  RepoBounds'
      BY <2>3, <2>7 DEF CreateRepository, RepoBounds
    <2>8. ASSUME NEW repository \in DOMAIN reposHeld, OperateRepository(repository)
          PROVE  RepoBounds'
      BY <2>3, <2>8 DEF OperateRepository, RepoBounds
    <2>9. ASSUME NEW repository \in DOMAIN reposHeld, RemoveRepository(repository)
          PROVE  RepoBounds'
      BY <2>3, <2>9 DEF RemoveRepository, RepoBounds
    <2>10. ASSUME NEW i \in DOMAIN reposCalls,
                  \/ ChangeRow(i) \/ CallServer(i) \/ ReadRows(i) \/ ServerUnreachable(i)
                  \/ ReadServer(i) \/ SyncRows(i)
           PROVE  RepoBounds'
      <3>1. PICK call : Advance(i, call)
        BY <2>10 DEF ChangeRow, CallServer, ReadRows, ServerUnreachable, ReadServer, SyncRows
      <3>2. reposHeld' = reposHeld
        BY <2>10 DEF ChangeRow, CallServer, ReadRows, ServerUnreachable, ReadServer, SyncRows, pageOfRepos
      <3>3. DOMAIN reposCalls' = DOMAIN reposCalls
        BY <3>1 DEF Advance
      <3>4. reposCalls' \in Seq(RepoCalls)
        BY <2>10, ChangeRowStep, CallServerStep, ListReadStep, SyncRowsStep DEF RepoInv, RepoTypes
      <3>5. Len(reposCalls') = Len(reposCalls)
        BY <2>1, <3>3, <3>4, LenProperties
      <3> QED
        BY <2>1, <3>2, <3>5 DEF RepoBounds
    <2>11. ASSUME NEW i \in DOMAIN reposCalls, ReposListed(i)
           PROVE  RepoBounds'
      <3>1. reposCalls[i].answer \in Answers
        BY CallTypes DEF RepoInv
      <3>2. \A answer \in Answers : \A repository \in DOMAIN answer : answer[repository] \in Statuses
        BY DEF Answers
      <3> HIDE DEF Answers
      <3>3. reposHeld' = reposCalls[i].answer /\ reposCalls' = RemoveAt(reposCalls, i)
        BY <2>11 DEF ReposListed
      <3> QED
        BY <2>2, <3>1, <3>2, <3>3 DEF RepoBounds
    <2>12. ASSUME NEW i \in DOMAIN reposCalls, ListFailed(i)
           PROVE  RepoBounds'
      BY <2>2, <2>12 DEF ListFailed, RepoBounds, NoRepositories
    <2>13. ASSUME NEW i \in DOMAIN reposCalls, NEW succeeded \in BOOLEAN, ChangeEnds(i, succeeded)
           PROVE  RepoBounds'
      <3> DEFINE loads == LoadsAfter(reposCalls[i], succeeded)
      <3>1. loads \in Nat
        BY DEF LoadsAfter
      <3>2. Len(reposCalls') <= MaxRepoCalls /\ reposHeld' = reposHeld
        BY <2>2, <2>13, <3>1, LoadBounds DEF ChangeEnds
      <3> QED
        BY <3>2 DEF RepoBounds
    <2>14. CASE UNCHANGED reposVars
      BY <2>14 DEF reposVars, pageOfRepos, RepoBounds
    <2> QED
      BY <2>4, <2>5, <2>6, <2>7, <2>8, <2>9, <2>10, <2>11, <2>12, <2>13, <2>14 DEF ReposNext
  <1>3. RepoInv /\ RepoBounds => ReposTypeOK
    BY DEF RepoInv, RepoTypes, RepoBounds, ReposTypeOK
  <1> QED
    BY <1>1, <1>2, <1>3, RepositoriesInvariant, PTL DEF ReposSpec

----------------------------------------------------------------------------
(* The versions or natures of a tool *)

\* No answer and no list has a revision that the backend has not.
Bounded(shown) == \A i \in DOMAIN shown : shown[i].revision <= MaxRevision
ElementBounds ==
    /\ Bounded(elementsShown)
    /\ \A i \in DOMAIN elementsCalls : Bounded(elementsCalls[i].answer)
    /\ \A element \in Elements : elementsData[element] <= MaxRevision
    /\ Len(elementsCalls) <= MaxElementCalls

\* An answer that is given leaves the other requests alone.
LEMMA AnswerBounds ==
    ASSUME ElementTypes, ElementTypes', ElementBounds, NEW i \in DOMAIN elementsCalls, NEW a, Bounded(a),
           elementsCalls' = [elementsCalls EXCEPT ![i] = [@ EXCEPT !.served = TRUE, !.answer = a]]
    PROVE  /\ \A k \in DOMAIN elementsCalls' : Bounded(elementsCalls'[k].answer)
           /\ Len(elementsCalls') <= MaxElementCalls
  <1>1. elementsCalls[i] \in ElementCalls(elementsKind)
    BY ElementOfSeq, LenProperties DEF ElementTypes
  <1>2. [elementsCalls[i] EXCEPT !.served = TRUE, !.answer = a].answer = a
    BY <1>1 DEF ElementCalls
  <1>3. /\ DOMAIN elementsCalls' = DOMAIN elementsCalls
        /\ elementsCalls'[i].answer = a
        /\ \A k \in DOMAIN elementsCalls : k # i => elementsCalls'[k] = elementsCalls[k]
    BY <1>2
  <1>4. Len(elementsCalls') = Len(elementsCalls)
    BY <1>3, LenProperties DEF ElementTypes
  <1> QED
    BY <1>3, <1>4 DEF ElementBounds

\* What is served is as the backend has it.
LEMMA ServeBounds ==
    ASSUME ElementsInv, ElementBounds, NEW i \in DOMAIN elementsCalls, ServeElement(i)
    PROVE  ElementBounds'
  <1> DEFINE call == elementsCalls[i]
             e == call.element
             ids == SetToSeq(Existing)
             list == [k \in DOMAIN ids |-> Element(ids[k])]
             WithAnswerTo(a) == elementsCalls' = [elementsCalls EXCEPT ![i] = [@ EXCEPT !.served = TRUE, !.answer = a]]
  <1>1. ElementTypes /\ ElementTypes' /\ elementsShown' = elementsShown
    BY ServeElementStep DEF ElementsInv, ServeElement
  <1>2. call \in ElementCalls(elementsKind)
    BY <1>1, ElementOfSeq, LenProperties DEF ElementTypes
  <1>3. e \in Elements \cup {Tool} /\ (call.request.verb # "GET" => e \in Elements)
    BY <1>2, ElementCallFields
  <1>4. elementsData \in ElementRevisions /\ MaxRevision \in Nat
    BY <1>1, ElementsAssumption DEF ElementTypes
  <1>5. Bounded(list)
    <2>1. IsFiniteSet(Existing) /\ Existing \subseteq Elements
      BY ElementsAssumption, FS_Subset DEF Existing
    <2>2. \A k \in DOMAIN ids : ids[k] \in Existing
      BY <2>1, SetListed, ElementOfSeq, LenProperties
    <2>3. \A k \in DOMAIN list : list[k] = Element(ids[k]) /\ ids[k] \in Elements
      BY <2>1, <2>2
    <2> QED
      BY <2>3 DEF Bounded, Element, ElementBounds
  <1>6. Bounded(<<>>)
    BY DEF Bounded
  <1>7. ASSUME NEW revision \in Nat, revision <= MaxRevision
        PROVE  Bounded(<<[id |-> e, revision |-> revision]>>)
    BY <1>7 DEF Bounded
  <1> HIDE DEF call, e, list, ids
  <1>8. /\ \A element \in Elements : elementsData'[element] <= MaxRevision
        /\ \E a : WithAnswerTo(a) /\ Bounded(a)
    <2>1. \/ WithAnswerTo(list) /\ UNCHANGED elementsData
          \/ WithAnswerTo(<<>>) /\ UNCHANGED elementsData
          \/ /\ e \in Elements
             /\ elementsData' = [elementsData EXCEPT ![e] = 0] /\ WithAnswerTo(<<[id |-> e, revision |-> 0]>>)
          \/ /\ e \in Elements /\ elementsData[e] \in 0 .. MaxRevision - 1
             /\ elementsData' = [elementsData EXCEPT ![e] = @ + 1]
             /\ WithAnswerTo(<<[id |-> e, revision |-> elementsData[e] + 1]>>)
          \/ /\ e \in Elements
             /\ elementsData' = [elementsData EXCEPT ![e] = Deleted] /\ WithAnswerTo(<<>>)
      <3>1. call.request.verb \in {"GET", "POST", "PUT", "DELETE"}
        BY <1>2, ElementCallFields
      <3>2. IsElementRead(call) <=> call.request.verb = "GET"
        BY DEF IsElementRead
      <3>3. IsElementList(call) => IsElementRead(call)
        BY ElementRequestsTell DEF IsElementList, IsElementRead
      <3> QED
        BY <1>3, <3>1, <3>2, <3>3 DEF ServeElement, call, e, list, ids
    <2> HIDE DEF WithAnswerTo
    <2>2. \A element \in Elements : elementsData'[element] <= MaxRevision
      BY <1>4, <2>1 DEF ElementBounds, ElementRevisions, Deleted
    <2>3. \E a : WithAnswerTo(a) /\ Bounded(a)
      <3>1. CASE WithAnswerTo(list) \/ WithAnswerTo(<<>>)
        BY <1>5, <1>6, <3>1
      <3>2. CASE WithAnswerTo(<<[id |-> e, revision |-> 0]>>)
        <4>1. Bounded(<<[id |-> e, revision |-> 0]>>)
          BY <1>4, <1>7
        <4> QED
          BY <3>2, <4>1
      <3>3. CASE e \in Elements /\ elementsData[e] \in 0 .. MaxRevision - 1
                    /\ WithAnswerTo(<<[id |-> e, revision |-> elementsData[e] + 1]>>)
        <4>1. elementsData[e] + 1 \in Nat /\ elementsData[e] + 1 <= MaxRevision
          BY <1>4, <3>3
        <4>2. Bounded(<<[id |-> e, revision |-> elementsData[e] + 1]>>)
          BY <1>7, <4>1
        <4> QED
          BY <3>3, <4>2
      <3> QED
        BY <2>1, <3>1, <3>2, <3>3
    <2> QED
      BY <2>2, <2>3
  <1>9. PICK a : WithAnswerTo(a) /\ Bounded(a)
    BY <1>8
  <1>10. /\ \A k \in DOMAIN elementsCalls' : Bounded(elementsCalls'[k].answer)
         /\ Len(elementsCalls') <= MaxElementCalls
    BY <1>1, <1>9, AnswerBounds
  <1> QED
    BY <1>1, <1>8, <1>10 DEF ElementBounds

\* What is taken from an answer was served.
LEMMA PatchBounds ==
    ASSUME ElementsInv, ElementBounds, NEW i \in DOMAIN elementsCalls, ElementAnswered(i)
    PROVE  Bounded(elementsShown')
  <1> DEFINE call == elementsCalls[i]
  <1>1. elementsShown \in Seq(ElementRecords) /\ elementsCalls \in Seq(ElementCalls(elementsKind))
    BY DEF ElementsInv, ElementTypes
  <1>2. call \in ElementCalls(elementsKind)
    BY <1>1, ElementOfSeq, LenProperties
  <1>3. /\ call.answer \in Seq(ElementRecords) /\ Bounded(call.answer) /\ Bounded(elementsShown)
        /\ call.served
        /\ call.request.verb = "PUT" => \E revision \in Nat : AnswersWith(call, revision)
    BY <1>2, ElementCallFields DEF ElementBounds, ElementAnswered
  <1>4. IsElementList(call) => call.request.verb = "GET"
    BY ElementRequestsTell DEF IsElementList
  <1> HIDE DEF call
  <1>5. \/ elementsShown' = elementsShown \/ elementsShown' = call.answer
        \/ elementsShown' = elementsShown \o call.answer
        \/ call.request.verb = "PUT" /\ elementsShown' = Replaced(elementsShown, call.answer[1])
        \/ elementsShown' = Without(elementsShown, call.element)
    BY <1>4 DEF ElementAnswered, PatchElements, call
  <1>6. CASE elementsShown' = elementsShown \o call.answer
    <2>1. \A j \in DOMAIN elementsShown' :
             \/ j \in DOMAIN elementsShown /\ elementsShown'[j] = elementsShown[j]
             \/ \E k \in DOMAIN call.answer : elementsShown'[j] = call.answer[k]
      BY <1>1, <1>3, <1>6, Joined
    <2> QED
      BY <1>3, <2>1 DEF Bounded
  <1>7. CASE call.request.verb = "PUT" /\ elementsShown' = Replaced(elementsShown, call.answer[1])
    <2>1. PICK revision \in Nat : call.answer = <<[id |-> call.element, revision |-> revision]>>
      BY <1>3, <1>7 DEF AnswersWith
    <2>2. 1 \in DOMAIN call.answer
      BY <2>1
    <2>3. call.answer[1].revision <= MaxRevision
      BY <1>3, <2>2 DEF Bounded
    <2> QED
      BY <1>3, <1>7, <2>3 DEF Bounded, Replaced
  <1>8. CASE elementsShown' = Without(elementsShown, call.element)
    <2> DEFINE kept == {j \in DOMAIN elementsShown : elementsShown[j].id # call.element}
    <2>1. elementsShown' = Filtered(elementsShown, kept) /\ kept \in SUBSET DOMAIN elementsShown
      BY <1>8 DEF Without
    <2>2. \A j \in DOMAIN elementsShown' : \E k \in DOMAIN elementsShown : elementsShown'[j] = elementsShown[k]
      BY <1>1, <2>1, FilteredElements
    <2> QED
      BY <1>3, <2>2 DEF Bounded
  <1> QED
    BY <1>3, <1>5, <1>6, <1>7, <1>8

\* The list of versions or natures keeps its types.
LEMMA ElementTypesHold == ElementsSpec => []ElementsTypeOK
  <1>1. ElementsInit => ElementBounds
    <2> SUFFICES ASSUME ElementsInit
                 PROVE  ElementBounds
      OBVIOUS
    <2>1. Len(elementsCalls) = 0 /\ DOMAIN elementsCalls = {} /\ DOMAIN elementsShown = {}
      BY EmptySeq DEF ElementsInit
    <2>2. MaxElementCalls \in Nat /\ MaxRevision \in Nat
      BY ElementsAssumption
    <2>3. \A element \in Elements : elementsData[element] <= MaxRevision
      BY <2>2 DEF ElementsInit, Unborn
    <2> QED
      BY <2>1, <2>2, <2>3 DEF ElementBounds, Bounded
  <1>2. ElementsInv /\ ElementBounds /\ [ElementsNext]_elementVars => ElementBounds'
    <2> SUFFICES ASSUME ElementsInv, ElementBounds, [ElementsNext]_elementVars
                 PROVE  ElementBounds'
      OBVIOUS
    <2>1. /\ elementsCalls \in Seq(ElementCalls(elementsKind)) /\ Len(elementsCalls) \in Nat
          /\ Len(elementsCalls) <= MaxElementCalls /\ MaxElementCalls \in Nat
          /\ \A i \in DOMAIN elementsCalls : Bounded(elementsCalls[i].answer)
      BY ElementsAssumption, LenProperties DEF ElementsInv, ElementTypes, ElementBounds
    <2>2. \A i \in DOMAIN elementsCalls : elementsCalls[i] \in ElementCalls(elementsKind)
      BY <2>1, ElementOfSeq, LenProperties
    <2>3. \A request, element : Bounded(ElementCall(request, element).answer)
      BY DEF ElementCall, Bounded
    <2>4. ASSUME NEW i \in DOMAIN elementsCalls, elementsCalls' = RemoveAt(elementsCalls, i)
          PROVE  /\ \A k \in DOMAIN elementsCalls' : Bounded(elementsCalls'[k].answer)
                 /\ Len(elementsCalls') <= MaxElementCalls
      <3>1. /\ Len(elementsCalls') = Len(elementsCalls) - 1
            /\ \A j \in DOMAIN elementsCalls' : \E k \in DOMAIN elementsCalls : elementsCalls'[j] = elementsCalls[k]
        BY <2>1, <2>4, Removed, RemovedElements
      <3> QED
        BY <2>1, <3>1
    <2>5. CASE OpenElements
      <3> DEFINE first == ElementCall(Of(elementsKind).default, Tool)
                 second == ElementCall(Of(elementsKind).list, Tool)
                 all == {elementsCalls[i] : i \in DOMAIN elementsCalls} \cup {first, second}
      <3>1. /\ Len(elementsCalls) + 2 <= MaxElementCalls /\ elementsCalls' = elementsCalls \o <<first, second>>
            /\ UNCHANGED <<elementsShown, elementsData>>
        BY <2>5 DEF OpenElements
      <3>2. Bounded(first.answer) /\ Bounded(second.answer)
        BY <2>3
      <3>3. elementsCalls \in Seq(all)
        BY <2>1, SeqDef, LenProperties
      <3> HIDE DEF first, second
      <3>4. <<first, second>> \in Seq(all) /\ Len(<<first, second>>) = 2
        OBVIOUS
      <3>5. \A k \in DOMAIN <<first, second>> : <<first, second>>[k] \in {first, second}
        OBVIOUS
      <3> HIDE DEF all
      <3>6. /\ Len(elementsCalls') = Len(elementsCalls) + 2
            /\ \A k \in DOMAIN elementsCalls' :
                  \/ k \in DOMAIN elementsCalls /\ elementsCalls'[k] = elementsCalls[k]
                  \/ elementsCalls'[k] \in {first, second}
        BY <3>1, <3>3, <3>4, <3>5, Joined
      <3> QED
        BY <2>1, <3>1, <3>2, <3>6 DEF ElementBounds
    <2>6. CASE LeaveElements
      <3>1. /\ DOMAIN elementsCalls' = DOMAIN elementsCalls
            /\ \A k \in DOMAIN elementsCalls : elementsCalls'[k] = [elementsCalls[k] EXCEPT !.page = FALSE]
            /\ elementsShown' = <<>> /\ elementsData' = elementsData
        BY <2>6 DEF LeaveElements
      <3>2. \A k \in DOMAIN elementsCalls' : elementsCalls'[k].answer = elementsCalls[k].answer
        BY <2>2, <3>1 DEF ElementCalls
      <3>3. elementsCalls' \in Seq(ElementCalls(elementsKind'))
        BY <2>6, LeaveElementsStep DEF ElementsInv, ElementTypes
      <3>4. Len(elementsCalls') = Len(elementsCalls)
        BY <2>1, <3>1, <3>3, LenProperties
      <3> QED
        BY <2>1, <3>1, <3>2, <3>4 DEF ElementBounds, Bounded
    <2>7. ASSUME NEW element \in Elements, SubmitNewElement(element) \/ SubmitOrRemove(element)
          PROVE  ElementBounds'
      <3>1. PICK request : SendElement(request, element)
        BY <2>7 DEF SubmitNewElement, SubmitOrRemove
      <3> DEFINE call == ElementCall(request, element)
                 all == {elementsCalls[i] : i \in DOMAIN elementsCalls} \cup {call}
      <3>2. /\ Len(elementsCalls) < MaxElementCalls /\ elementsCalls' = Append(elementsCalls, call)
            /\ UNCHANGED <<elementsShown, elementsData>>
        BY <3>1 DEF SendElement
      <3>3. Bounded(call.answer)
        BY <2>3
      <3> HIDE DEF call
      <3>4. elementsCalls \in Seq(all) /\ call \in all
        BY <2>1, SeqDef, LenProperties
      <3> HIDE DEF all
      <3>5. /\ Len(elementsCalls') = Len(elementsCalls) + 1
            /\ \A k \in DOMAIN elementsCalls' :
                  elementsCalls'[k] = call \/ (k \in DOMAIN elementsCalls /\ elementsCalls'[k] = elementsCalls[k])
        BY <3>2, <3>4, Appended
      <3> QED
        BY <2>1, <3>2, <3>3, <3>5 DEF ElementBounds
    <2>8. ASSUME NEW i \in DOMAIN elementsCalls, ServeElement(i)
          PROVE  ElementBounds'
      BY <2>8, ServeBounds
    <2>9. ASSUME NEW i \in DOMAIN elementsCalls, ElementAnswered(i)
          PROVE  ElementBounds'
      <3>1. Bounded(elementsShown')
        BY <2>9, PatchBounds
      <3> QED
        BY <2>4, <2>9, <3>1 DEF ElementAnswered, ElementBounds
    <2>10. ASSUME NEW i \in DOMAIN elementsCalls, ElementFailed(i)
           PROVE  ElementBounds'
      BY <2>4, <2>10 DEF ElementFailed, ElementBounds
    <2>11. CASE UNCHANGED elementVars
      BY <2>11 DEF elementVars, ElementBounds
    <2> QED
      BY <2>5, <2>6, <2>7, <2>8, <2>9, <2>10, <2>11 DEF ElementsNext
  <1>3. ElementsInv /\ ElementBounds => ElementsTypeOK
    <2> SUFFICES ASSUME ElementsInv, ElementBounds
                 PROVE  ElementsTypeOK
      OBVIOUS
    <2>1. \A i \in DOMAIN elementsShown : elementsShown[i] \in ElementRecords
      BY ElementOfSeq, LenProperties DEF ElementsInv, ElementTypes
    <2>2. \A i \in DOMAIN elementsShown : elementsShown[i] \in [id : Elements, revision : 0 .. MaxRevision]
      BY <2>1, ElementsAssumption DEF ElementRecords, ElementBounds, Bounded
    <2>3. elementsData \in [Elements -> Deleted .. MaxRevision]
      BY ElementsAssumption DEF ElementsInv, ElementTypes, ElementRevisions, ElementBounds, Unborn, Deleted
    <2> QED
      BY <2>2, <2>3 DEF ElementsInv, ElementTypes, ElementBounds, ElementsTypeOK
  <1> QED
    BY <1>1, <1>2, <1>3, ElementsInvariant, PTL DEF ElementsSpec

----------------------------------------------------------------------------
(* Dialogs that send one request or several *)

\* The items whose requests somebody waits for, each of them once.
LiveItems(calls) == {calls[k].item : k \in {j \in DOMAIN calls : calls[j].live}}
Apart(calls) ==
    \A j, k \in DOMAIN calls :
        calls[j].live /\ calls[k].live /\ calls[j].item = calls[k].item => j = k

\* A submission that gathers its errors has at the most one of each item that is not
\* awaited any more; every other submission ends with its first.
DialogBounds ==
    /\ dialogSubmits <= MaxSubmits
    /\ ~Way("gathers") => dialogErrors \in {0, 1}
    /\ Way("gathers") => Apart(dialogCalls) /\ dialogErrors <= Cardinality(Items \ LiveItems(dialogCalls))

\* Errors are gathered for batches alone, while the button is disabled.
LEMMA WaysFit ==
    ASSUME dialogKind \in Kinds
    PROVE  /\ Way("gathers") => Way("disables") /\ Way("batch")
           /\ Way("batch") => Way("disables")
  BY DEF Way, Kinds, WaysOf

\* A set of items is no larger than the set of all items, and a part is no larger than it.
LEMMA ItemsLeft ==
    ASSUME NEW some \in SUBSET Items, NEW fewer \in SUBSET some
    PROVE  /\ Cardinality(Items \ some) \in Nat /\ Cardinality(Items \ some) <= Cardinality(Items)
           /\ Cardinality(Items \ some) <= Cardinality(Items \ fewer)
           /\ \A item \in some : item \notin fewer =>
                 Cardinality(Items \ some) + 1 <= Cardinality(Items \ fewer)
  <1>1. IsFiniteSet(Items) /\ IsFiniteSet(Items \ fewer) /\ IsFiniteSet(Items \ some)
    BY DialogsAssumption, FS_Subset
  <1>2. Cardinality(Items \ some) <= Cardinality(Items)
    BY <1>1, FS_Subset
  <1>3. Cardinality(Items \ some) <= Cardinality(Items \ fewer)
    <2>1. (Items \ some) \in SUBSET (Items \ fewer)
      OBVIOUS
    <2> QED
      BY <1>1, <2>1, FS_Subset
  <1>4. ASSUME NEW item \in some, item \notin fewer
        PROVE  Cardinality(Items \ some) + 1 <= Cardinality(Items \ fewer)
    <2> DEFINE more == (Items \ some) \cup {item}
    <2>1. IsFiniteSet(more) /\ Cardinality(more) = Cardinality(Items \ some) + 1
      BY <1>1, FS_AddElement
    <2>2. more \in SUBSET (Items \ fewer)
      BY <1>4
    <2> HIDE DEF more
    <2>3. Cardinality(more) <= Cardinality(Items \ fewer)
      BY <1>1, <2>2, FS_Subset
    <2> QED
      BY <2>1, <2>3
  <1>5. Cardinality(Items \ some) \in Nat
    BY <1>1, FS_CardinalityType
  <1> QED
    BY <1>2, <1>3, <1>4, <1>5

\* What a submission sends is awaited once, if nothing was awaited before.
LEMMA SubmittedBounds ==
    ASSUME DialogsInv, DialogBounds, SubmitDialog
    PROVE  DialogBounds'
  <1> DEFINE asked == SetToSeq(dialogAsked')
             sent == [i \in DOMAIN asked |-> DialogCall(asked[i])]
  <1>1. /\ dialogKind \in Kinds /\ dialogKind' = dialogKind /\ dialogCalls \in Seq(DialogCallSet)
        /\ dialogSubmits \in Nat /\ dialogSubmits' <= MaxSubmits /\ MaxSubmits \in Nat
        /\ dialogErrors' = 0 /\ dialogCalls' = dialogCalls \o sent /\ ~dialogBusy
    BY DialogsAssumption DEF SubmitDialog, DialogsInv, DialogTypes
  <1>2. dialogAsked' \in SUBSET Items /\ IsFiniteSet(dialogAsked')
    BY DialogsAssumption, FS_Subset DEF SubmitDialog, Batch
  <1>3. /\ asked \in Seq(dialogAsked')
        /\ \A i, j \in DOMAIN asked : asked[i] = asked[j] => i = j
    BY <1>2, SetListed
  <1>4. \A i \in DOMAIN asked : asked[i] \in Items
    BY <1>2, <1>3, ElementOfSeq, LenProperties
  <1> HIDE DEF asked
  <1>5. \A i \in DOMAIN sent : sent[i] = DialogCall(asked[i]) /\ sent[i].item = asked[i] /\ sent[i].live
    BY DEF DialogCall
  <1>6. sent \in Seq(DialogCallSet) /\ DOMAIN sent = DOMAIN asked
    <2>1. sent \in [DOMAIN asked -> DialogCallSet]
      BY <1>1, <1>4, SentCall
    <2> QED
      BY <1>3, <2>1, Mapped
  <1> HIDE DEF sent
  <1>7. ASSUME Way("gathers")
        PROVE  Apart(dialogCalls') /\ 0 <= Cardinality(Items \ LiveItems(dialogCalls'))
    <2>1. \A k \in DOMAIN dialogCalls : ~dialogCalls[k].live
      BY <1>1, <1>7, WaysFit DEF DialogsInv, OneSubmission, WaitsFor
    <2>2. /\ dialogCalls' \in Seq(DialogCallSet)
          /\ DOMAIN dialogCalls' = 1 .. Len(dialogCalls) + Len(sent)
          /\ DOMAIN dialogCalls = 1 .. Len(dialogCalls) /\ DOMAIN sent = 1 .. Len(sent)
          /\ Len(dialogCalls) \in Nat /\ Len(sent) \in Nat
          /\ \A k \in DOMAIN dialogCalls' :
                dialogCalls'[k] = IF k <= Len(dialogCalls) THEN dialogCalls[k] ELSE sent[k - Len(dialogCalls)]
      <3>1. dialogCalls' \in Seq(DialogCallSet) /\ Len(dialogCalls') = Len(dialogCalls) + Len(sent)
        BY <1>1, <1>6, Joined
      <3> QED
        BY <1>1, <1>6, <3>1, ConcatProperties, LenProperties
    <2>3. \A k \in DOMAIN dialogCalls' :
             dialogCalls'[k].live => /\ k - Len(dialogCalls) \in DOMAIN sent
                                     /\ dialogCalls'[k].item = asked[k - Len(dialogCalls)]
      BY <1>5, <2>1, <2>2
    <2>4. Apart(dialogCalls')
      BY <1>3, <1>6, <2>2, <2>3 DEF Apart
    <2>5. LiveItems(dialogCalls') \in SUBSET Items
      BY <1>4, <1>6, <2>3 DEF LiveItems
    <2>6. Cardinality(Items \ LiveItems(dialogCalls')) \in Nat
      BY <2>5, ItemsLeft
    <2> QED
      BY <2>4, <2>6
  <1>8. Way("gathers")' = Way("gathers")
    BY <1>1 DEF Way
  <1> QED
    BY <1>1, <1>7, <1>8 DEF DialogBounds

\* An answer takes its item from those that are awaited.
LEMMA AnsweredApart ==
    ASSUME NEW calls \in Seq(DialogCallSet), NEW i \in DOMAIN calls, calls[i].live, Apart(calls),
           NEW rest, DOMAIN rest = DOMAIN RemoveAt(calls, i),
           \A k \in DOMAIN rest : /\ rest[k].item = RemoveAt(calls, i)[k].item
                                  /\ rest[k].live => RemoveAt(calls, i)[k].live
    PROVE  /\ Apart(rest) /\ LiveItems(rest) \in SUBSET LiveItems(calls)
           /\ LiveItems(calls) \in SUBSET Items
           /\ calls[i].item \in LiveItems(calls) /\ calls[i].item \notin LiveItems(rest)
  <1> DEFINE left == RemoveAt(calls, i)
  <1>1. \A j \in DOMAIN left : \E a \in DOMAIN calls \ {i} : left[j] = calls[a]
    BY RemovedElements
  <1>2. \A j, k \in DOMAIN left : j # k =>
           \E a, b \in DOMAIN calls \ {i} : a # b /\ left[j] = calls[a] /\ left[k] = calls[b]
    BY RemovedApart
  <1> HIDE DEF left
  <1>3. Apart(rest)
    BY <1>2 DEF Apart, left
  <1>4. LiveItems(rest) \in SUBSET LiveItems(calls) /\ calls[i].item \notin LiveItems(rest)
    BY <1>1 DEF LiveItems, Apart, left
  <1>5. \A k \in DOMAIN calls : calls[k].item \in Items
    <2>1. \A k \in DOMAIN calls : calls[k] \in DialogCallSet
      BY ElementOfSeq, LenProperties
    <2> QED
      BY <2>1 DEF DialogCallSet
  <1> QED
    BY <1>3, <1>4, <1>5 DEF LiveItems

\* The dialogs keep their types: no more errors are counted than items were sent.
LEMMA DialogTypesHold == DialogsSpec => []DialogsTypeOK
  <1>1. DialogsInit => DialogBounds
    <2> SUFFICES ASSUME DialogsInit
                 PROVE  DialogBounds
      OBVIOUS
    <2>1. DOMAIN dialogCalls = {} /\ LiveItems(dialogCalls) = {}
      BY DEF DialogsInit, LiveItems
    <2>2. Cardinality(Items \ LiveItems(dialogCalls)) \in Nat
      BY <2>1, ItemsLeft
    <2> QED
      BY <2>1, <2>2, DialogsAssumption DEF DialogsInit, DialogBounds, Apart
  <1>2. DialogsInv /\ DialogBounds /\ [DialogsNext]_requestDialogVars => DialogBounds'
    <2> SUFFICES ASSUME DialogsInv, DialogBounds, [DialogsNext]_requestDialogVars
                 PROVE  DialogBounds'
      OBVIOUS
    <2>1. dialogCalls \in Seq(DialogCallSet) /\ dialogKind \in Kinds /\ dialogErrors \in Nat
      BY DEF DialogsInv, DialogTypes
    <2>2. \A k \in DOMAIN dialogCalls : dialogCalls[k] \in DialogCallSet
      BY <2>1, ElementOfSeq, LenProperties
    <2>3. ASSUME dialogKind' = dialogKind PROVE \A way : Way(way)' = Way(way)
      BY <2>3 DEF Way
    <2>4. CASE UNCHANGED <<dialogKind, dialogErrors, dialogCalls, dialogSubmits>>
      BY <2>3, <2>4 DEF DialogBounds
    <2>5. CASE SubmitDialog
      BY <2>5, SubmittedBounds
    <2>6. ASSUME NEW i \in DOMAIN dialogCalls, ServeDialog(i)
          PROVE  DialogBounds'
      <3>1. /\ DOMAIN dialogCalls' = DOMAIN dialogCalls
            /\ \A k \in DOMAIN dialogCalls : /\ dialogCalls'[k].item = dialogCalls[k].item
                                             /\ dialogCalls'[k].live = dialogCalls[k].live
        BY <2>2, <2>6 DEF ServeDialog, DialogCallSet
      <3>2. Apart(dialogCalls') <=> Apart(dialogCalls)
        BY <3>1 DEF Apart
      <3>3. LiveItems(dialogCalls') = LiveItems(dialogCalls)
        BY <3>1 DEF LiveItems
      <3>4. UNCHANGED <<dialogKind, dialogErrors, dialogSubmits>>
        BY <2>6 DEF ServeDialog
      <3> QED
        BY <2>3, <3>2, <3>3, <3>4 DEF DialogBounds
    <2>7. ASSUME NEW i \in DOMAIN dialogCalls, DialogAnswered(i)
          PROVE  DialogBounds'
      <3>1. /\ dialogCalls' = RemoveAt(dialogCalls, i) /\ dialogCalls[i].live
            /\ dialogErrors' = IF Way("batch") THEN dialogErrors ELSE 0
            /\ UNCHANGED <<dialogKind, dialogSubmits>>
        BY <2>7 DEF DialogAnswered, Ends
      <3>2. ASSUME Way("gathers")
            PROVE  Apart(dialogCalls') /\ dialogErrors' <= Cardinality(Items \ LiveItems(dialogCalls'))
        <4>1. Apart(dialogCalls) /\ dialogErrors <= Cardinality(Items \ LiveItems(dialogCalls))
          BY <3>2 DEF DialogBounds
        <4>2. /\ Apart(dialogCalls') /\ LiveItems(dialogCalls') \in SUBSET LiveItems(dialogCalls)
              /\ LiveItems(dialogCalls) \in SUBSET Items
          BY <2>1, <3>1, <4>1, AnsweredApart
        <4>3. /\ Cardinality(Items \ LiveItems(dialogCalls)) <= Cardinality(Items \ LiveItems(dialogCalls'))
              /\ Cardinality(Items \ LiveItems(dialogCalls)) \in Nat
              /\ Cardinality(Items \ LiveItems(dialogCalls')) \in Nat
          BY <4>2, ItemsLeft
        <4>4. dialogErrors' = dialogErrors
          BY <2>1, <3>1, <3>2, WaysFit
        <4> QED
          BY <2>1, <4>1, <4>2, <4>3, <4>4
      <3> QED
        BY <2>3, <3>1, <3>2 DEF DialogBounds
    <2>8. ASSUME NEW i \in DOMAIN dialogCalls, DialogFailed(i)
          PROVE  DialogBounds'
      <3> DEFINE rest == RemoveAt(dialogCalls, i)
      <3>1. /\ dialogCalls[i].live
            /\ dialogErrors' = IF Way("batch") THEN dialogErrors + 1 ELSE 1
            /\ UNCHANGED <<dialogKind, dialogSubmits>>
            /\ dialogCalls' = [k \in DOMAIN rest |-> [rest[k] EXCEPT !.live = @ /\ ~(Way("batch") /\ ~Way("gathers"))]]
        BY <2>8 DEF DialogFailed, Ends
      <3>2. rest \in Seq(DialogCallSet)
        BY <2>1, Removed
      <3>3. \A k \in DOMAIN rest : rest[k] \in DialogCallSet
        BY <3>2, ElementOfSeq, LenProperties
      <3>4. /\ DOMAIN dialogCalls' = DOMAIN rest
            /\ \A k \in DOMAIN rest : /\ dialogCalls'[k].item = rest[k].item
                                      /\ dialogCalls'[k].live => rest[k].live
        BY <3>1, <3>3 DEF DialogCallSet
      <3>5. ASSUME Way("gathers")
            PROVE  Apart(dialogCalls') /\ dialogErrors' <= Cardinality(Items \ LiveItems(dialogCalls'))
        <4>1. Apart(dialogCalls) /\ dialogErrors <= Cardinality(Items \ LiveItems(dialogCalls))
          BY <3>5 DEF DialogBounds
        <4>2. /\ Apart(dialogCalls') /\ LiveItems(dialogCalls') \in SUBSET LiveItems(dialogCalls)
              /\ LiveItems(dialogCalls) \in SUBSET Items
              /\ dialogCalls[i].item \in LiveItems(dialogCalls)
              /\ dialogCalls[i].item \notin LiveItems(dialogCalls')
          <5>1. dialogCalls[i].live
            BY <3>1
          <5>2. /\ DOMAIN dialogCalls' = DOMAIN RemoveAt(dialogCalls, i)
                /\ \A k \in DOMAIN dialogCalls' :
                      /\ dialogCalls'[k].item = RemoveAt(dialogCalls, i)[k].item
                      /\ dialogCalls'[k].live => RemoveAt(dialogCalls, i)[k].live
            BY <3>4
          <5> HIDE DEF rest
          <5> QED
            BY <2>1, <4>1, <5>1, <5>2, AnsweredApart
        <4>3. /\ Cardinality(Items \ LiveItems(dialogCalls)) + 1 <= Cardinality(Items \ LiveItems(dialogCalls'))
              /\ Cardinality(Items \ LiveItems(dialogCalls)) \in Nat
          BY <4>2, ItemsLeft
        <4>4. Cardinality(Items \ LiveItems(dialogCalls')) \in Nat
          BY <4>2, ItemsLeft
        <4>5. dialogErrors' = dialogErrors + 1
          BY <2>1, <3>1, <3>5, WaysFit
        <4> QED
          BY <2>1, <4>1, <4>2, <4>3, <4>4, <4>5
      <3>6. ASSUME ~Way("gathers")
            PROVE  dialogErrors' \in {0, 1}
        <4>1. CASE Way("batch")
          <5>1. WaitsFor(dialogCalls)
            BY <3>1 DEF WaitsFor
          <5>2. Way("disables")
            BY <2>1, <4>1, WaysFit
          <5>3. dialogErrors = 0
            BY <3>6, <5>1, <5>2 DEF DialogsInv, OneSubmission
          <5> QED
            BY <3>1, <4>1, <5>3
        <4>2. CASE ~Way("batch")
          BY <3>1, <4>2
        <4> QED
          BY <4>1, <4>2
      <3> QED
        BY <2>3, <3>1, <3>5, <3>6 DEF DialogBounds
    <2>9. CASE LeaveDialog \/ UNCHANGED requestDialogVars \/ \E item \in Items : EditUsers(item)
      BY <2>4, <2>9 DEF LeaveDialog, EditUsers, requestDialogVars
    <2>10. CASE SubmitWithoutProject
      <3>1. /\ UNCHANGED <<dialogKind, dialogErrors, dialogCalls>>
            /\ dialogSubmits < MaxSubmits /\ dialogSubmits' = dialogSubmits + 1
        BY <2>10 DEF SubmitWithoutProject
      <3>2. dialogSubmits' <= MaxSubmits
        BY <3>1, DialogsAssumption DEF DialogsInv, DialogTypes
      <3> QED
        BY <2>3, <3>1, <3>2 DEF DialogBounds
    <2> QED
      BY <2>5, <2>6, <2>7, <2>8, <2>9, <2>10 DEF DialogsNext
  <1>3. DialogsInv /\ DialogBounds => DialogsTypeOK
    <2> SUFFICES ASSUME DialogsInv, DialogBounds
                 PROVE  DialogsTypeOK
      OBVIOUS
    <2>1. dialogCalls \in Seq(DialogCallSet) /\ dialogErrors \in Nat /\ dialogSubmits \in Nat
      BY DEF DialogsInv, DialogTypes
    <2>2. \A k \in DOMAIN dialogCalls : dialogCalls[k].item \in Items
      <3>1. \A k \in DOMAIN dialogCalls : dialogCalls[k] \in DialogCallSet
        BY <2>1, ElementOfSeq, LenProperties
      <3> QED
        BY <3>1 DEF DialogCallSet
    <2>3. LiveItems(dialogCalls) \in SUBSET Items
      BY <2>2 DEF LiveItems
    <2>4. /\ Cardinality(Items \ LiveItems(dialogCalls)) <= Cardinality(Items)
          /\ Cardinality(Items \ LiveItems(dialogCalls)) \in Nat
      BY <2>3, ItemsLeft
    <2>5. Cardinality(Items) \in Nat /\ Cardinality(Items) >= 1
      BY DialogsAssumption, FS_CardinalityType, FS_EmptySet
    <2>6. dialogErrors \in 0 .. Cardinality(Items) /\ dialogSubmits \in 0 .. MaxSubmits
      BY <2>1, <2>4, <2>5, DialogsAssumption DEF DialogBounds
    <2> QED
      BY <2>2, <2>6 DEF DialogsInv, DialogTypes, DialogsTypeOK
  <1> QED
    BY <1>1, <1>2, <1>3, DialogsInvariant, PTL DEF DialogsSpec

----------------------------------------------------------------------------
(* The diagrams of a model *)

\* The dialog of diagrams keeps its types.
LEMMA DiagramTypesHold == DiagramsSpec => []DiagramsTypeOK
  <1>1. DiagramsInv => DiagramsTypeOK
    BY DEF DiagramsInv, DiagramTypes, DiagramsTypeOK, ExportNumbers
  <1> QED
    BY <1>1, DiagramsInvariant, PTL

----------------------------------------------------------------------------
(* The frontend *)

\* In every reachable state of the frontend the variables of each part have their types
\* and stay within their bounds: a list has no more pages than exist, no more errors are
\* counted than requests were sent, no revision or job is named that has not been.
THEOREM FrontendTypes == FrontendSpec => []FrontendTypeOK
  <1>1. ViewerInv => ViewerTypeOK
    BY DEF ViewerInv
  <1>2. LoginInv => LoginTypeOK
    BY DEF LoginInv
  <1>3. RunPageInv => RunPageTypeOK
    BY DEF RunPageInv, RunTypes
  <1>4. StoresInv => StoresTypeOK
    <2> SUFFICES ASSUME StoresInv
                 PROVE  StoresTypeOK
      OBVIOUS
    <2>1. storeName \in Names /\ storeCalls \in Seq(StoreCallSet(storeName))
      BY DEF StoresInv, StoresTypes
    <2>2. \A i \in DOMAIN storeCalls : storeCalls[i] \in StoreCallSet(storeName)
      BY <2>1, ElementOfSeq, LenProperties
    <2>3. \A i \in DOMAIN storeCalls :
             storeCalls[i].of \in ReadsOf[storeName] /\ storeCalls[i].seen \in Versions
      BY <2>1, <2>2, StoreCallFacts
    <2> QED
      BY <2>3 DEF StoresInv, StoresTypes, StoresTypeOK
  <1>5. ViewerTypeOK /\ TilingTypeOK /\ LoginTypeOK /\ PagesTypeOK /\ ListsTypeOK /\ RunPageTypeOK
           /\ SessionListTypeOK /\ StoresTypeOK /\ ReposTypeOK /\ ElementsTypeOK /\ DialogsTypeOK
           /\ DiagramsTypeOK
        => FrontendTypeOK
    BY DEF FrontendTypeOK
  <1> QED
    BY <1>1, <1>2, <1>3, <1>4, <1>5, PartsAreImplemented, ViewerInvariant, TilingTypes, LoginTypes,
       PagesTypes, ListTypesHold, RunPageInvariant, SessionListTypes, StoresInvariant, RepositoryTypes,
       ElementTypesHold, DialogTypesHold, DiagramTypesHold, PTL

=============================================================================
