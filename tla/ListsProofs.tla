----------------------------- MODULE ListsProofs -----------------------------
(***************************************************************************)
(* The lists of the frontend: the sessions of a user, the lists that are   *)
(* loaded page by page, the repositories of an instance and the versions   *)
(* or natures of a tool, for any number of entries, pages and requests     *)
(* under way.                                                              *)
(***************************************************************************)
EXTENDS SessionList, PagedLists, Repositories, ToolElements, SequenceLemmas

-----------------------------------------------------------------------------
(* The list of sessions *)

ListCallSet == [call : {GetSessionsForUser(Me)}, sender : Senders, read : KnownLists]

ListTypes ==
    /\ slUsers \in Nat /\ slDelayed \in Nat /\ slOpen \in BOOLEAN
    /\ slIdle \in [Senders -> Nat]
    /\ slAsked \in Seq(ListCallSet)

\* Whoever refreshes the page: a delay, a request of the page, a subscription of it.
Polled ==
    \/ slDelayed > 0
    \/ \E k \in DOMAIN slAsked : slAsked[k].sender = "page"
    \/ slUsers = 0 /\ slIdle["page"] > 0

\* What is or was listed is or was a session.
ListsWereTrue ==
    /\ slRemote \subseteq slEver /\ slEver \subseteq ListedSessions
    /\ slList.of \subseteq slEver
    /\ \A k \in DOMAIN slAsked : slAsked[k].read.of \subseteq slEver

ListInv == ListTypes /\ ListsWereTrue /\ (slOpen => Polled)

\* Every session of the dialog that has terminated is gone, and while the button is
\* disabled each of them has been asked to.
DialogInv ==
    /\ slBusy \in BOOLEAN /\ (slBusy => slDialog # NoDialog)
    /\ slDialog \in [DOMAIN slDialog -> Steps] /\ DOMAIN slDialog \subseteq slEver
    /\ \A s \in DOMAIN slDialog :
          /\ slDialog[s] \in {"terminated", "answered"} => s \notin slRemote
          /\ slBusy => slDialog[s] # "idle"

SessionListInv == ListInv /\ DialogInv

\* A request for the list that was just sent has read nothing.
LEMMA NewAsk ==
    ASSUME NEW sender \in Senders
    PROVE  /\ Ask(sender) \in ListCallSet /\ Ask(sender).sender = sender
           /\ Ask(sender).read.of = {}
  BY DEF Ask, ListCallSet, UndefinedList, KnownLists

\* A step that leaves the dialog alone and revives no session.
LEMMA DialogKept ==
    ASSUME DialogInv, UNCHANGED <<slDialog, slBusy>>, slEver \subseteq slEver',
           slRemote' \cap slEver \subseteq slRemote
    PROVE  DialogInv'
  BY DEF DialogInv

\* A step that leaves the list and its requests alone.
LEMMA ListKept ==
    ASSUME ListInv, UNCHANGED <<slUsers, slOpen, slEver, slList, slAsked, slDelayed, slIdle>>,
           slRemote' \subseteq slRemote
    PROVE  ListInv'
  BY DEF ListInv, ListTypes, ListsWereTrue, Polled

\* A subscription asks at once, or waits for the first user; no other one ends.
LEMMA Subscribed ==
    ASSUME ListInv, NEW sender \in Senders, Subscribe(sender), UNCHANGED <<slUsers, slDelayed>>
    PROVE  /\ slIdle' \in [Senders -> Nat] /\ slAsked' \in Seq(ListCallSet)
           /\ \A k \in DOMAIN slAsked' : slAsked'[k].read.of \subseteq slEver
           /\ Polled => Polled'
           /\ sender = "page" => Polled'
  <1> USE DEF ListInv, ListTypes
  <1>1. CASE slUsers > 0
    <2>1. slAsked' = Append(slAsked, Ask(sender)) /\ slIdle' = slIdle
      BY <1>1 DEF Subscribe
    <2>2. /\ slAsked' \in Seq(ListCallSet)
          /\ \A j \in DOMAIN slAsked : j \in DOMAIN slAsked' /\ slAsked'[j] = slAsked[j]
          /\ \E j \in DOMAIN slAsked' : slAsked'[j] = Ask(sender)
          /\ \A j \in DOMAIN slAsked' : slAsked'[j] = Ask(sender) \/ (j \in DOMAIN slAsked /\ slAsked'[j] = slAsked[j])
      BY <2>1, NewAsk, Appended
    <2>3. \A k \in DOMAIN slAsked' : slAsked'[k].read.of \subseteq slEver
      BY <2>2, NewAsk DEF ListsWereTrue
    <2>4. (Polled => Polled') /\ (sender = "page" => Polled')
      BY <2>1, <2>2, NewAsk DEF Polled
    <2> QED
      BY <2>1, <2>2, <2>3, <2>4
  <1>2. CASE ~(slUsers > 0)
    <2>1. /\ slUsers = 0 /\ slUsers' = 0 /\ UNCHANGED <<slAsked, slDelayed>>
          /\ slIdle' = [slIdle EXCEPT ![sender] = IF slIdle[sender] < MaxIdle THEN slIdle[sender] + 1 ELSE slIdle[sender]]
      BY <1>2 DEF Subscribe, OneMoreIdle
    <2>2. /\ slIdle' \in [Senders -> Nat]
          /\ \A s \in Senders : slIdle[s] > 0 => slIdle'[s] > 0
          /\ slIdle'[sender] > 0
      BY <2>1, SessionListAssumption
    <2>3. "page" \in Senders
      BY DEF Senders
    <2> QED
      BY <2>1, <2>2, <2>3 DEF Polled, ListsWereTrue
  <1> QED
    BY <1>1, <1>2

\* The invariant of the session list holds to begin with.
LEMMA SessionListInitial == SessionListInit => SessionListInv
  <1> SUFFICES ASSUME SessionListInit
               PROVE  SessionListInv
    OBVIOUS
  <1>1. slAsked \in Seq(ListCallSet) /\ DOMAIN slAsked = {}
    BY DEF SessionListInit
  <1> QED
    BY <1>1 DEF SessionListInit, SessionListInv, ListInv, ListTypes, ListsWereTrue, DialogInv,
                NoDialog, UndefinedList, Senders

\* A user that is emitted again makes every subscription ask.
LEMMA UserEmitsStep ==
    ASSUME SessionListInv, UserEmits
    PROVE  SessionListInv'
  <1> USE DEF SessionListInv, ListInv
  <1> DEFINE again == [k \in DOMAIN slAsked |-> Ask(slAsked[k].sender)]
             fromPage == [k \in 1 .. slIdle["page"] |-> Ask("page")]
             fromOthers == [k \in 1 .. slIdle["loadSessions"] |-> Ask("loadSessions")]
  <1>1. /\ slUsers \in Nat /\ slUsers' = slUsers + 1 /\ slIdle["page"] \in Nat /\ slIdle["loadSessions"] \in Nat
        /\ slAsked \in Seq(ListCallSet) /\ slIdle' = [sender \in Senders |-> 0]
        /\ UNCHANGED <<slOpen, slRemote, slEver, slList, slDelayed, dialogVars>>
    BY DEF UserEmits, ListTypes, Senders
  <1>2. /\ Ask("page") \in ListCallSet /\ Ask("loadSessions") \in ListCallSet
        /\ Ask("page").read.of = {} /\ Ask("loadSessions").read.of = {} /\ Ask("page").sender = "page"
    BY NewAsk DEF Senders
  <1>3. \A k \in DOMAIN slAsked : slAsked[k].sender \in Senders
    <2>1. \A k \in DOMAIN slAsked : slAsked[k] \in ListCallSet
      BY <1>1, ElementOfSeq, LenProperties
    <2> QED
      BY <2>1 DEF ListCallSet
  <1>4. /\ again \in Seq(ListCallSet) /\ DOMAIN again = DOMAIN slAsked
        /\ \A k \in DOMAIN again : again[k].sender = slAsked[k].sender /\ again[k].read.of = {}
    <2>1. again \in [DOMAIN slAsked -> ListCallSet]
      BY <1>3, NewAsk
    <2>2. again \in Seq(ListCallSet)
      BY <1>1, <2>1, Mapped
    <2> QED
      BY <1>3, <2>2, NewAsk
  <1>5. /\ fromPage \in Seq(ListCallSet) /\ DOMAIN fromPage = 1 .. slIdle["page"]
        /\ \A k \in DOMAIN fromPage : fromPage[k] = Ask("page")
    BY <1>1, <1>2, SeqDef
  <1>6. /\ fromOthers \in Seq(ListCallSet) /\ \A k \in DOMAIN fromOthers : fromOthers[k] = Ask("loadSessions")
    BY <1>1, <1>2, SeqDef
  <1>7. slAsked' = again \o fromPage \o fromOthers
    BY DEF UserEmits
  <1> HIDE DEF again, fromPage, fromOthers
  <1> DEFINE first == again \o fromPage
  <1>8. /\ first \in Seq(ListCallSet)
        /\ \A j \in DOMAIN again : j \in DOMAIN first /\ first[j] = again[j]
        /\ \A j \in DOMAIN fromPage : \E i \in DOMAIN first : first[i] = fromPage[j]
        /\ \A i \in DOMAIN first :
              \/ i \in DOMAIN again /\ first[i] = again[i]
              \/ \E j \in DOMAIN fromPage : first[i] = fromPage[j]
    <2>1. again \in Seq(ListCallSet) /\ fromPage \in Seq(ListCallSet)
      BY <1>4, <1>5
    <2> QED
      BY <2>1, Joined
  <1>9. slAsked' = first \o fromOthers
    BY <1>7
  <1> HIDE DEF first
  <1>10. /\ slAsked' \in Seq(ListCallSet)
         /\ \A j \in DOMAIN first : j \in DOMAIN slAsked' /\ slAsked'[j] = first[j]
         /\ \A i \in DOMAIN slAsked' :
              \/ i \in DOMAIN first /\ slAsked'[i] = first[i]
              \/ \E j \in DOMAIN fromOthers : slAsked'[i] = fromOthers[j]
    BY <1>6, <1>8, <1>9, Joined
  <1>11. \A i \in DOMAIN slAsked' : slAsked'[i].read.of = {}
    BY <1>2, <1>4, <1>5, <1>6, <1>8, <1>10
  <1>12. Polled => Polled'
    <2>1. CASE slDelayed > 0
      BY <1>1, <2>1 DEF Polled
    <2>2. CASE \E k \in DOMAIN slAsked : slAsked[k].sender = "page"
      BY <1>4, <1>8, <1>10, <2>2 DEF Polled
    <2>3. CASE slIdle["page"] > 0
      <3>1. 1 \in DOMAIN fromPage
        BY <1>1, <1>5, <2>3
      <3>2. PICK i \in DOMAIN first : first[i] = Ask("page")
        BY <1>5, <1>8, <3>1
      <3> QED
        BY <1>2, <1>10, <3>2 DEF Polled
    <2> QED
      BY <2>1, <2>2, <2>3 DEF Polled
  <1>13. ListTypes' /\ ListsWereTrue'
    BY <1>1, <1>10, <1>11 DEF ListTypes, ListsWereTrue
  <1> QED
    BY <1>1, <1>12, <1>13, DialogKept DEF dialogVars

\* A page that opens subscribes or asks.
LEMMA OpenPageStep ==
    ASSUME SessionListInv, OpenPage
    PROVE  SessionListInv'
  <1>1. "page" \in Senders
    BY DEF Senders
  <1> QED
    BY <1>1, Subscribed, DialogKept DEF OpenPage, SessionListInv, ListInv, ListTypes, ListsWereTrue, dialogVars

\* A page that is closed needs no refresh.
LEMMA ClosePageStep ==
    ASSUME SessionListInv, ClosePage
    PROVE  SessionListInv'
  <1> DEFINE kept == {k \in DOMAIN slAsked : slAsked[k].sender # "page"}
  <1>1. slAsked \in Seq(ListCallSet) /\ kept \in SUBSET DOMAIN slAsked /\ slAsked' = Filtered(slAsked, kept)
    BY DEF ClosePage, SessionListInv, ListInv, ListTypes
  <1>2. /\ slAsked' \in Seq(ListCallSet)
        /\ \A j \in DOMAIN slAsked' : \E k \in DOMAIN slAsked : slAsked'[j] = slAsked[k]
    BY <1>1, FilteredElements
  <1>3. ListTypes'
    BY <1>2 DEF ClosePage, SessionListInv, ListInv, ListTypes
  <1>4. ListsWereTrue'
    BY <1>2 DEF ClosePage, SessionListInv, ListInv, ListsWereTrue
  <1> QED
    BY <1>3, <1>4, DialogKept DEF ClosePage, SessionListInv, ListInv, dialogVars

\* A delay that ends becomes a request or a subscription.
LEMMA DelayEndsStep ==
    ASSUME SessionListInv, DelayEnds
    PROVE  SessionListInv'
  <1>1. "page" \in Senders /\ slAsked \in Seq(ListCallSet) /\ slAsked' = Append(slAsked, Ask("page"))
    BY DEF Senders, SessionListInv, ListInv, ListTypes, DelayEnds
  <1>2. /\ slAsked' \in Seq(ListCallSet)
        /\ \E j \in DOMAIN slAsked' : slAsked'[j] = Ask("page")
        /\ \A j \in DOMAIN slAsked' : slAsked'[j] = Ask("page") \/ (j \in DOMAIN slAsked /\ slAsked'[j] = slAsked[j])
    BY <1>1, NewAsk, Appended
  <1>3. Polled'
    BY <1>1, <1>2, NewAsk DEF Polled
  <1>4. ListTypes' /\ ListsWereTrue'
    BY <1>1, <1>2, NewAsk DEF SessionListInv, ListInv, ListTypes, ListsWereTrue, DelayEnds
  <1> QED
    BY <1>3, <1>4, DialogKept DEF DelayEnds, SessionListInv, ListInv, dialogVars

\* A list that is served is true of the sessions.
LEMMA ListServedStep ==
    ASSUME SessionListInv, NEW k \in DOMAIN slAsked, ListServed(k)
    PROVE  SessionListInv'
  <1> DEFINE served == [slAsked[k] EXCEPT !.read = ListOf(slRemote)]
  <1>1. slAsked \in Seq(ListCallSet) /\ slAsked' = [slAsked EXCEPT ![k] = served]
    BY DEF ListServed, SessionListInv, ListInv, ListTypes
  <1>2. slAsked[k] \in ListCallSet
    BY <1>1, ElementOfSeq, LenProperties
  <1>3. served \in ListCallSet /\ served.sender = slAsked[k].sender /\ served.read.of = slRemote
    BY <1>2 DEF ListCallSet, ListOf, KnownLists, SessionListInv, ListInv, ListsWereTrue
  <1> HIDE DEF served
  <1>4. /\ slAsked' \in Seq(ListCallSet) /\ DOMAIN slAsked' = DOMAIN slAsked
        /\ \A j \in DOMAIN slAsked : slAsked'[j] = IF j = k THEN served ELSE slAsked[j]
    BY <1>1, <1>3, ReplacedElement
  <1>5. Polled => Polled'
    BY <1>3, <1>4 DEF Polled, ListServed
  <1>6. ListTypes' /\ ListsWereTrue'
    BY <1>3, <1>4 DEF SessionListInv, ListInv, ListTypes, ListsWereTrue, ListServed
  <1> QED
    BY <1>5, <1>6, DialogKept DEF ListServed, SessionListInv, ListInv, dialogVars

\* An answer, of any kind: the request is over, and the page waits for the next one.
LEMMA SessionsAnswered ==
    ASSUME SessionListInv, NEW k \in DOMAIN slAsked, SlAnswered(k), AsksAgain(k),
           slIdle' \in [Senders -> Nat],
           \A sender \in Senders : slIdle[sender] > 0 => slIdle'[sender] > 0,
           slList' \in {UndefinedList, slAsked[k].read},
           UNCHANGED <<slUsers, slOpen, slRemote, slEver, dialogVars>>
    PROVE  SessionListInv'
  <1>1. slAsked \in Seq(ListCallSet) /\ slAsked' = RemoveAt(slAsked, k)
    BY DEF SlAnswered, SessionListInv, ListInv, ListTypes
  <1>2. /\ slAsked' \in Seq(ListCallSet)
        /\ \A j \in DOMAIN slAsked' : \E i \in DOMAIN slAsked \ {k} : slAsked'[j] = slAsked[i]
        /\ \A i \in DOMAIN slAsked \ {k} : \E j \in DOMAIN slAsked' : slAsked'[j] = slAsked[i]
    BY <1>1, Removed, RemovedElements
  <1>3. /\ slDelayed \in Nat /\ slDelayed' \in Nat /\ slDelayed' >= slDelayed
        /\ slAsked[k].sender = "page" => slDelayed' > 0
    BY DEF AsksAgain, SessionListInv, ListInv, ListTypes
  <1>4. Polled => Polled'
    <2>1. CASE slDelayed > 0
      BY <1>3, <2>1 DEF Polled
    <2>2. CASE \E i \in DOMAIN slAsked : slAsked[i].sender = "page"
      BY <1>2, <1>3, <2>2 DEF Polled
    <2>3. CASE slUsers = 0 /\ slIdle["page"] > 0
      BY <2>3 DEF Polled, Senders
    <2> QED
      BY <2>1, <2>2, <2>3 DEF Polled
  <1>5. ListTypes' /\ ListsWereTrue'
    BY <1>2, <1>3 DEF SessionListInv, ListInv, ListTypes, ListsWereTrue, UndefinedList
  <1> QED
    BY <1>4, <1>5, DialogKept DEF SessionListInv, ListInv, dialogVars

\* A list that returns to the page is followed by a delay.
LEMMA ListReturnsStep ==
    ASSUME SessionListInv, NEW k \in DOMAIN slAsked, ListReturns(k)
    PROVE  SessionListInv'
  <1> DEFINE sender == slAsked[k].sender
  <1>1. slAsked[k] \in ListCallSet /\ slIdle \in [Senders -> Nat]
    BY ElementOfSeq, LenProperties DEF SessionListInv, ListInv, ListTypes
  <1>2. sender \in Senders
    BY <1>1 DEF ListCallSet
  <1>3. slIdle' = [slIdle EXCEPT ![sender] = IF slIdle[sender] < MaxIdle THEN slIdle[sender] + 1 ELSE slIdle[sender]]
    BY DEF ListReturns, OneMoreIdle
  <1>4. slIdle' \in [Senders -> Nat] /\ \A s \in Senders : slIdle[s] > 0 => slIdle'[s] > 0
    BY <1>1, <1>2, <1>3
  <1> QED
    BY <1>4, SessionsAnswered DEF ListReturns

\* A list of the page that fails is followed by a delay as well.
LEMMA ListFailsStep ==
    ASSUME SessionListInv, NEW k \in DOMAIN slAsked, ListFails(k)
    PROVE  SessionListInv'
  BY SessionsAnswered DEF ListFails, SessionListInv, ListInv, ListTypes

\* A session that is requested elsewhere.
LEMMA SessionRequestedStep ==
    ASSUME SessionListInv, NEW s \in ListedSessions, SessionRequested(s)
    PROVE  SessionListInv'
  <1>1. "loadSessions" \in Senders
    BY DEF Senders
  <1> QED
    BY <1>1, Subscribed, DialogKept
       DEF SessionRequested, SessionListInv, ListInv, ListTypes, ListsWereTrue, dialogVars

\* A session that terminates elsewhere.
LEMMA SessionGoesStep ==
    ASSUME SessionListInv, NEW s \in ListedSessions, SessionGoes(s) \/ UnwatchedServed(s)
    PROVE  SessionListInv'
  BY ListKept, DialogKept DEF SessionGoes, UnwatchedServed, SessionListInv, dialogVars

\* The steps of the dialog itself.
LEMMA OpenDialogStep ==
    ASSUME SessionListInv, OpenTerminationDialog
    PROVE  SessionListInv'
  <1>1. PICK S \in (SUBSET slList.of) \ {{}} : slDialog' = [s \in S |-> "idle"]
    BY DEF OpenTerminationDialog
  <1> QED
    BY <1>1, ListKept
       DEF OpenTerminationDialog, SessionListInv, ListInv, ListsWereTrue, DialogInv, NoDialog, Steps

\* The dialog asks to terminate what it names.
LEMMA DeleteAllStep ==
    ASSUME SessionListInv, DeleteAllSessions
    PROVE  SessionListInv'
  <1>1. DOMAIN slDialog' = DOMAIN slDialog /\ DOMAIN slDialog # {}
    BY DEF DeleteAllSessions, SessionListInv, DialogInv, NoDialog
  <1> QED
    BY <1>1, ListKept DEF DeleteAllSessions, SessionListInv, DialogInv, Steps, NoDialog

\* A termination that is served takes its session away.
LEMMA TerminationServedStep ==
    ASSUME SessionListInv, NEW s \in ListedSessions, TerminationServed(s)
    PROVE  SessionListInv'
  BY ListKept DEF TerminationServed, SessionListInv, DialogInv, Steps, NoDialog

\* A termination that returns leaves the others under way.
LEMMA TerminationReturnsStep ==
    ASSUME SessionListInv, NEW s \in ListedSessions, TerminationReturns(s)
    PROVE  SessionListInv'
  <1>1. CASE AllDone(s)
    <2>1. "loadSessions" \in Senders
      BY DEF Senders
    <2>2. ListInv'
      BY <1>1, <2>1, Subscribed DEF TerminationReturns, SessionListInv, ListInv, ListTypes, ListsWereTrue
    <2> QED
      BY <1>1, <2>2 DEF TerminationReturns, SessionListInv, DialogInv, NoDialog
  <1>2. CASE ~AllDone(s)
    <2>1. ListInv'
      BY <1>2, ListKept DEF TerminationReturns, SessionListInv
    <2> QED
      BY <1>2, <2>1 DEF TerminationReturns, SessionListInv, DialogInv, Steps, NoDialog
  <1> QED
    BY <1>1, <1>2

\* The dialog closes over what has terminated, or stays with an error.
LEMMA DialogEndsStep ==
    ASSUME SessionListInv, DismissDialog \/ \E s \in ListedSessions : TerminationFails(s)
    PROVE  SessionListInv'
  BY ListKept DEF DismissDialog, TerminationFails, SessionListInv, DialogInv, NoDialog, Steps

\* Every step keeps the invariant of the session list.
LEMMA SessionListStep ==
    ASSUME SessionListInv, [SessionListNext]_slVars
    PROVE  SessionListInv'
  <1>1. CASE UNCHANGED slVars
    BY <1>1, ListKept, DialogKept DEF slVars, SessionListInv
  <1> QED
    BY <1>1, UserEmitsStep, OpenPageStep, ClosePageStep, DelayEndsStep, ListServedStep, ListReturnsStep,
       ListFailsStep, SessionRequestedStep, SessionGoesStep, OpenDialogStep, DeleteAllStep,
       TerminationServedStep, TerminationReturnsStep, DialogEndsStep
       DEF SessionListNext

\* In every reachable state the open page has a delay, a request or a subscription that
\* refreshes it, what was listed was true once, and the dialog tells which terminations
\* took effect.
THEOREM SessionListInvariant == SessionListSpec => []SessionListInv
  BY SessionListInitial, SessionListStep, PTL DEF SessionListSpec

\* Whatever fails, however often user$ emits and however many requests are under way,
\* an open page is asked again.
THEOREM PollingNeverStops == SessionListSpec => []PollLives
  <1>1. SessionListInv => PollLives
    <2> SUFFICES ASSUME SessionListInv, slOpen, \E k \in DOMAIN slAsked : slAsked[k].sender = "page"
                 PROVE  \E r \in ToSet(slAsked) : r.sender = "page"
      BY DEF SessionListInv, ListInv, Polled, PollLives
    <2> QED
      BY DEF ToSet
  <1> QED
    BY <1>1, SessionListInvariant, PTL

\* A dialog over any number of sessions closes by itself only over terminated ones.
THEOREM DialogsCloseOverTerminated == SessionListSpec => ClosedMeansTerminated
  <1>1. ASSUME SessionListInv, [SessionListNext]_slVars, slBusy, slDialog' = NoDialog, ~DismissDialog
        PROVE  DOMAIN slDialog \cap slRemote' = {}
    <2> SUFFICES ASSUME DOMAIN slDialog # {}
                 PROVE  DOMAIN slDialog \cap slRemote' = {}
      OBVIOUS
    <2>1. slDialog' # slDialog /\ DOMAIN slDialog' = {}
      BY <1>1 DEF NoDialog
    <2>2. slDialog # NoDialog
      BY DEF NoDialog
    <2>3. PICK s \in ListedSessions : TerminationServed(s) \/ TerminationReturns(s) \/ TerminationFails(s)
      BY <1>1, <2>1, <2>2 DEF SessionListNext, slVars, dialogVars, UserEmits, OpenPage, ClosePage, DelayEnds,
            ListServed, ListReturns, ListFails, OpenTerminationDialog, DeleteAllSessions,
            SessionRequested, SessionGoes, UnwatchedServed
    <2>4. TerminationReturns(s) /\ AllDone(s)
      BY <2>1, <2>3 DEF TerminationServed, TerminationReturns, TerminationFails, Alive
    <2>5. /\ Alive = {s} /\ slDialog[s] = "terminated" /\ slRemote' = slRemote
      BY <2>4 DEF TerminationReturns, AllDone
    <2>6. \A t \in DOMAIN slDialog : slDialog[t] \in {"terminated", "answered"}
      <3>1. \A t \in DOMAIN slDialog : t # s => slDialog[t] \notin {"asked", "terminated", "refused"}
        BY <2>5 DEF Alive
      <3> QED
        BY <1>1, <2>5, <3>1 DEF SessionListInv, DialogInv, Steps
    <2> QED
      BY <1>1, <2>5, <2>6 DEF SessionListInv, DialogInv
  <1>2. SessionListInv /\ [SessionListNext]_slVars
            => [slBusy /\ slDialog' = NoDialog /\ ~DismissDialog
                  => DOMAIN slDialog \cap slRemote' = {}]_slVars
    BY <1>1
  <1> QED
    BY <1>2, SessionListInvariant, PTL DEF SessionListSpec, ClosedMeansTerminated

----------------------------------------------------------------------------
(* Lists that are loaded page by page *)

PageValues == Owners \cup {Undefined, Loading}

PagedTypes ==
    /\ listOwner \in Owners \cup {NoOwner}
    /\ listPages \in Seq(PageValues) /\ listRequests \in Seq(ListRequest)
    /\ listOvertaken \in BOOLEAN /\ listRaised \in BOOLEAN

\* The requests of the list that is shown are about its owner.
CurrentAreOf(requests, owner) ==
    \A k \in DOMAIN requests : requests[k].current => OwnerOf(requests[k]) = owner

\* A page that is under way is marked, and under way once; a list of more than one page
\* has its first page, and the length that page names.
PagesRightFor(pages, requests, owner) ==
    /\ \A n \in DOMAIN pages : pages[n] \in {owner, Undefined, Loading}
    /\ \A k \in DOMAIN requests : requests[k].current =>
          PageOf(requests[k]) \in DOMAIN pages /\ pages[PageOf(requests[k])] = Loading
    /\ \A j, k \in DOMAIN requests :
          requests[j].current /\ requests[k].current /\ PageOf(requests[j]) = PageOf(requests[k]) => j = k
    /\ Len(pages) > 1 => pages[1] = owner /\ owner \in Owners /\ Len(pages) = PageCount[owner]

PagedInv ==
    /\ PagedTypes /\ CurrentAreOf(listRequests, listOwner)
    /\ ~listOvertaken => PagesRightFor(listPages, listRequests, listOwner) /\ ~listRaised

\* A page that is written.
LEMMA AssignedPages ==
    ASSUME NEW S, NEW pages \in Seq(S), NEW n \in 1 .. MaxPage, NEW value \in S, Undefined \in S
    PROVE  /\ Assigned(pages, n, value) \in Seq(S)
           /\ Len(Assigned(pages, n, value)) = IF n > Len(pages) THEN n ELSE Len(pages)
           /\ Assigned(pages, n, value)[n] = value
           /\ \A k \in DOMAIN pages : k \in DOMAIN Assigned(pages, n, value)
           /\ n \in DOMAIN Assigned(pages, n, value)
           /\ \A k \in DOMAIN Assigned(pages, n, value) :
                 /\ k \in 1 .. Len(Assigned(pages, n, value))
                 /\ k # n => Assigned(pages, n, value)[k] = IF k \in DOMAIN pages THEN pages[k] ELSE Undefined
  <1> DEFINE m == IF n > Len(pages) THEN n ELSE Len(pages)
             written == Assigned(pages, n, value)
  <1>1. n \in Nat /\ Len(pages) \in Nat /\ m \in Nat /\ DOMAIN pages = 1 .. Len(pages)
    BY LenProperties DEF MaxPage
  <1>2. \A k \in 1 .. Len(pages) : pages[k] \in S
    BY <1>1, ElementOfSeq
  <1>3. written = [k \in 1 .. m |-> IF k = n THEN value ELSE IF k <= Len(pages) THEN pages[k] ELSE Undefined]
    BY DEF Assigned
  <1>4. written \in [1 .. m -> S]
    BY <1>1, <1>2, <1>3
  <1>5. written \in Seq(S) /\ DOMAIN written = 1 .. m /\ Len(written) = m
    BY <1>1, <1>4, SeqDef, LenProperties
  <1>6. n \in 1 .. m /\ 1 .. Len(pages) \subseteq 1 .. m
    BY <1>1 DEF MaxPage
  <1> QED
    BY <1>1, <1>3, <1>5, <1>6

\* The list once the first page has named its length.
LEMMA InitializedPages ==
    ASSUME NEW S, NEW pages \in Seq(S), Undefined \in S,
           PageCount[pages[1]] \in Nat
    PROVE  /\ pages[1] \in {Undefined, Loading} => Initialized(pages) = pages
           /\ pages[1] \notin {Undefined, Loading} =>
                 /\ Initialized(pages) \in Seq(S)
                 /\ Len(Initialized(pages)) = PageCount[pages[1]]
                 /\ DOMAIN Initialized(pages) = 1 .. PageCount[pages[1]]
                 /\ \A k \in DOMAIN Initialized(pages) :
                       Initialized(pages)[k] = IF k \in DOMAIN pages THEN pages[k] ELSE Undefined
  <1> SUFFICES ASSUME pages[1] \notin {Undefined, Loading}
               PROVE  /\ Initialized(pages) \in Seq(S)
                      /\ Len(Initialized(pages)) = PageCount[pages[1]]
                      /\ DOMAIN Initialized(pages) = 1 .. PageCount[pages[1]]
                      /\ \A k \in DOMAIN Initialized(pages) :
                            Initialized(pages)[k] = IF k \in DOMAIN pages THEN pages[k] ELSE Undefined
    BY DEF Initialized
  <1> DEFINE count == PageCount[pages[1]]
             whole == Initialized(pages)
  <1>1. whole = [k \in 1 .. count |-> IF k <= Len(pages) THEN pages[k] ELSE Undefined]
    BY DEF Initialized, PageAt
  <1>2. Len(pages) \in Nat /\ DOMAIN pages = 1 .. Len(pages)
    BY LenProperties
  <1>3. \A k \in 1 .. Len(pages) : pages[k] \in S
    BY <1>2, ElementOfSeq
  <1> HIDE DEF count, whole
  <1>4. count \in Nat
    BY DEF count
  <1>5. whole \in [1 .. count -> S]
    BY <1>1, <1>2, <1>3, <1>4
  <1>6. whole \in Seq(S) /\ DOMAIN whole = 1 .. count /\ Len(whole) = count
    BY <1>4, <1>5, SeqDef, LenProperties
  <1>7. \A k \in 1 .. count : whole[k] = IF k \in DOMAIN pages THEN pages[k] ELSE Undefined
    BY <1>1, <1>2, <1>4
  <1> QED
    BY <1>6, <1>7 DEF count, whole

\* What a request for a page says.
LEMMA PageRequestTyped ==
    ASSUME NEW owner \in Owners, NEW n \in 1 .. MaxPage
    PROVE  /\ [call |-> PageRequest(owner, n), current |-> TRUE] \in ListRequest
           /\ OwnerOf([call |-> PageRequest(owner, n), current |-> TRUE]) = owner
           /\ PageOf([call |-> PageRequest(owner, n), current |-> TRUE]) = n
  BY DEF ListRequest, PageRequest, GetPipelineRuns, GetProjectEvents, Request, OwnerOf, PageOf

\* The fields of a request for a page of a list.
LEMMA RequestTyped ==
    ASSUME NEW request \in ListRequest
    PROVE  OwnerOf(request) \in Owners /\ PageOf(request) \in 1 .. MaxPage /\ request.current \in BOOLEAN
  BY DEF ListRequest, PageRequest, GetPipelineRuns, GetProjectEvents, Request, OwnerOf, PageOf

\* An owner of a list is none of the markers of a page.
LEMMA OwnersApart ==
    ASSUME NEW owner \in Owners
    PROVE  owner \notin {NoOwner, Undefined, Loading} /\ PageCount[owner] \in Nat
  BY PagedListsAssumption DEF MaxPage

\* Assigning a page at an index makes the array longer only behind its end.
LEMMA LengthsAgree ==
    ASSUME NEW n \in Nat, NEW before \in Nat, NEW after \in Nat,
           after = IF n > before THEN n ELSE before
    PROVE  /\ n <= before => after = before
           /\ n = 1 /\ after > 1 => after = before
  OBVIOUS

\* A page is asked for: the first one, or one that scrolls into view.
LEMMA PageLoaded ==
    ASSUME NEW pages \in Seq(PageValues), NEW requests \in Seq(ListRequest), NEW owner \in Owners,
           NEW n \in 1 .. MaxPage, LoadPage(pages, requests, owner, n), CurrentAreOf(requests, owner)
    PROVE  /\ listPages' \in Seq(PageValues) /\ listRequests' \in Seq(ListRequest)
           /\ CurrentAreOf(listRequests', owner)
           /\ PagesRightFor(pages, requests, owner) /\ (n = 1 \/ n \in DOMAIN pages) =>
                 PagesRightFor(listPages', listRequests', owner)
  <1>1. CASE PageAt(pages, n) # Undefined
    BY <1>1 DEF LoadPage
  <1>2. CASE PageAt(pages, n) = Undefined
    <2> DEFINE new == [call |-> PageRequest(owner, n), current |-> TRUE]
               written == Assigned(pages, n, Loading)
               longer == Append(requests, new)
    <2>1. listPages' = written /\ listRequests' = longer
      BY <1>2 DEF LoadPage
    <2>2. new \in ListRequest /\ OwnerOf(new) = owner /\ PageOf(new) = n /\ new.current
      BY PageRequestTyped
    <2>3. Undefined \in PageValues /\ Loading \in PageValues
      BY DEF PageValues
    <2> HIDE DEF new
    <2>4. /\ written \in Seq(PageValues)
          /\ Len(written) = IF n > Len(pages) THEN n ELSE Len(pages)
          /\ written[n] = Loading /\ n \in DOMAIN written
          /\ \A k \in DOMAIN pages : k \in DOMAIN written
          /\ \A k \in DOMAIN written : k # n => written[k] = IF k \in DOMAIN pages THEN pages[k] ELSE Undefined
      BY <2>3, AssignedPages
    <2>5. /\ longer \in Seq(ListRequest) /\ DOMAIN requests = 1 .. Len(requests) /\ Len(requests) \in Nat
          /\ DOMAIN longer = 1 .. Len(requests) + 1
          /\ \A j \in DOMAIN requests : j \in DOMAIN longer /\ longer[j] = requests[j]
          /\ longer[Len(requests) + 1] = new
      BY <2>2, Appended
    <2> HIDE DEF written, longer
    <2>6. \A j \in DOMAIN longer : j \in DOMAIN requests \/ (j = Len(requests) + 1 /\ longer[j] = new)
      BY <2>5
    <2>7. Len(requests) + 1 \notin DOMAIN requests
      BY <2>5
    <2>8. CurrentAreOf(longer, owner)
      BY <2>2, <2>5, <2>6 DEF CurrentAreOf
    <2>9. ASSUME PagesRightFor(pages, requests, owner), n = 1 \/ n \in DOMAIN pages
          PROVE  PagesRightFor(written, longer, owner)
      <3>1. /\ DOMAIN pages = 1 .. Len(pages) /\ Len(pages) \in Nat
            /\ DOMAIN written = 1 .. Len(written) /\ Len(written) \in Nat
        BY <2>4, LenProperties
      <3>2. n \in DOMAIN pages => pages[n] = Undefined
        BY <1>2, <3>1 DEF PageAt
      <3>3. \A k \in DOMAIN written : written[k] \in {owner, Undefined, Loading}
        BY <2>4, <2>9 DEF PagesRightFor
      <3>4. Loading # Undefined
        BY DEF Loading, Undefined
      <3>5. \A k \in DOMAIN requests : requests[k].current => PageOf(requests[k]) # n
        BY <2>9, <3>2, <3>4 DEF PagesRightFor
      <3>6. ASSUME NEW k \in DOMAIN longer, longer[k].current
            PROVE  PageOf(longer[k]) \in DOMAIN written /\ written[PageOf(longer[k])] = Loading
        <4>1. CASE k \in DOMAIN requests
          BY <2>4, <2>5, <2>9, <3>5, <3>6, <4>1 DEF PagesRightFor
        <4>2. CASE longer[k] = new
          BY <2>2, <2>4, <4>2
        <4> QED
          BY <2>6, <4>1, <4>2
      <3>7. ASSUME NEW j \in DOMAIN longer, NEW k \in DOMAIN longer, longer[j].current, longer[k].current,
                   PageOf(longer[j]) = PageOf(longer[k])
            PROVE  j = k
        <4>1. CASE j \in DOMAIN requests /\ k \in DOMAIN requests
          BY <2>5, <2>9, <3>7, <4>1 DEF PagesRightFor
        <4>2. CASE j \notin DOMAIN requests /\ k \notin DOMAIN requests
          BY <2>6, <4>2
        <4>3. CASE j \in DOMAIN requests /\ k \notin DOMAIN requests
          BY <2>2, <2>5, <2>6, <3>5, <3>7, <4>3
        <4>4. CASE j \notin DOMAIN requests /\ k \in DOMAIN requests
          BY <2>2, <2>5, <2>6, <3>5, <3>7, <4>4
        <4> QED
          BY <4>1, <4>2, <4>3, <4>4
      <3>8. Len(written) > 1 => written[1] = owner /\ owner \in Owners /\ Len(written) = PageCount[owner]
        <4> SUFFICES ASSUME Len(written) > 1
                     PROVE  written[1] = owner /\ Len(written) = PageCount[owner]
          OBVIOUS
        <4>1. Len(written) = Len(pages) /\ Len(pages) > 1
          <5>1. n = 1 \/ n <= Len(pages)
            BY <2>9, <3>1
          <5>2. n \in Nat /\ Len(written) = IF n > Len(pages) THEN n ELSE Len(pages)
            BY <2>4 DEF MaxPage
          <5> QED
            BY <3>1, <5>1, <5>2, LengthsAgree
        <4>2. pages[1] = owner /\ 1 \in DOMAIN pages /\ Len(pages) = PageCount[owner]
          BY <2>9, <3>1, <4>1 DEF PagesRightFor
        <4>3. n # 1
          BY <3>2, <4>2, OwnersApart
        <4>4. 1 \in DOMAIN written
          BY <2>4, <4>2
        <4> QED
          BY <2>4, <4>1, <4>2, <4>3, <4>4
      <3> QED
        BY <3>3, <3>6, <3>7, <3>8 DEF PagesRightFor
    <2> QED
      BY <2>1, <2>4, <2>5, <2>8, <2>9
  <1> QED
    BY <1>1, <1>2

\* The list is emptied: no request under way is its own.
LEMMA EmptiedList ==
    ASSUME listRequests \in Seq(ListRequest)
    PROVE  /\ Outdated \in Seq(ListRequest) /\ \A k \in DOMAIN Outdated : Outdated[k].current = FALSE
           /\ <<>> \in Seq(PageValues)
           /\ \A owner : CurrentAreOf(Outdated, owner) /\ PagesRightFor(<<>>, Outdated, owner)
  <1>1. DOMAIN Outdated = DOMAIN listRequests
    BY DEF Outdated
  <1>2. \A k \in DOMAIN listRequests : listRequests[k] \in ListRequest
    BY ElementOfSeq, LenProperties
  <1>3. \A k \in DOMAIN listRequests :
           Outdated[k] = [listRequests[k] EXCEPT !.current = FALSE]
    BY DEF Outdated
  <1>4. \A k \in DOMAIN listRequests : Outdated[k] \in ListRequest /\ Outdated[k].current = FALSE
    <2> DEFINE Calls == {PageRequest(o, n) : o \in Owners, n \in 1 .. MaxPage}
    <2>1. ListRequest = [call : Calls, current : BOOLEAN]
      BY DEF ListRequest
    <2> HIDE DEF Calls
    <2>2. \A request \in ListRequest :
             [request EXCEPT !.current = FALSE] \in ListRequest /\ [request EXCEPT !.current = FALSE].current = FALSE
      BY <2>1
    <2> QED
      BY <1>2, <1>3, <2>2
  <1>5. Outdated \in [DOMAIN listRequests -> ListRequest]
    BY <1>4 DEF Outdated
  <1>6. Outdated \in Seq(ListRequest)
    BY <1>5, Mapped
  <1>7. \A owner : CurrentAreOf(Outdated, owner)
    BY <1>1, <1>4 DEF CurrentAreOf
  <1>8. Len(<<>>) = 0 /\ DOMAIN <<>> = {} /\ <<>> \in Seq(PageValues)
    BY EmptySeq
  <1>9. \A owner : PagesRightFor(<<>>, Outdated, owner)
    BY <1>1, <1>4, <1>8 DEF PagesRightFor
  <1> QED
    BY <1>1, <1>4, <1>6, <1>7, <1>8, <1>9

\* What is left when a request has been answered or has failed.
LEMMA ListRequestGone ==
    ASSUME listRequests \in Seq(ListRequest), NEW k \in DOMAIN listRequests,
           CurrentAreOf(listRequests, listOwner)
    PROVE  /\ ListAnswered(k) \in Seq(ListRequest) /\ CurrentAreOf(ListAnswered(k), listOwner)
           /\ \A j \in DOMAIN ListAnswered(k) :
                 \E i \in DOMAIN listRequests \ {k} : ListAnswered(k)[j] = listRequests[i]
           /\ \A pages : PagesRightFor(pages, listRequests, listOwner) =>
                 PagesRightFor(pages, ListAnswered(k), listOwner)
  <1> DEFINE left == ListAnswered(k)
             at == [j \in DOMAIN left |-> IF j < k THEN j ELSE j + 1]
  <1>1. left = RemoveAt(listRequests, k)
    BY DEF ListAnswered, RemoveAt
  <1>2. /\ left \in Seq(ListRequest) /\ DOMAIN left = 1 .. Len(listRequests) - 1
        /\ \A j \in 1 .. Len(listRequests) - 1 :
              left[j] = IF j < k THEN listRequests[j] ELSE listRequests[j + 1]
    BY <1>1, Removed
  <1>3. DOMAIN listRequests = 1 .. Len(listRequests) /\ Len(listRequests) \in Nat
    BY LenProperties
  <1> HIDE DEF left
  <1>4. \A j \in DOMAIN left : at[j] \in DOMAIN listRequests \ {k} /\ left[j] = listRequests[at[j]]
    BY <1>2, <1>3
  <1>5. \A i, j \in DOMAIN left : at[i] = at[j] => i = j
    BY <1>2, <1>3
  <1> HIDE DEF at
  <1>6. CurrentAreOf(left, listOwner)
    BY <1>4 DEF CurrentAreOf
  <1>7. ASSUME NEW pages, PagesRightFor(pages, listRequests, listOwner)
        PROVE  PagesRightFor(pages, left, listOwner)
    BY <1>4, <1>5, <1>7 DEF PagesRightFor
  <1> QED
    BY <1>2, <1>4, <1>6, <1>7 DEF left

----------------------------------------------------------------------------
(* The steps of a list *)

\* The requests of a list are decided by its kind.
LEMMA KindKept ==
    ASSUME listKind' = listKind
    PROVE  ListRequest' = ListRequest
  BY DEF ListRequest, PageRequest

\* An owner that is emitted empties the list, and what was asked for before is outdated.
LEMMA EmitOwnerStep ==
    ASSUME PagedInv, NEW owner \in Owners \cup {NoOwner}, EmitOwner(owner)
    PROVE  PagedInv'
  <1> USE DEF PagedInv
  <1>1. /\ listOwner' = owner /\ listOvertaken' = FALSE /\ listRaised' = FALSE /\ listKind' = listKind
        /\ ListRequest' = ListRequest
    BY KindKept DEF EmitOwner
  <1>2. /\ Outdated \in Seq(ListRequest) /\ <<>> \in Seq(PageValues)
        /\ CurrentAreOf(Outdated, owner) /\ PagesRightFor(<<>>, Outdated, owner)
    BY EmptiedList DEF PagedTypes
  <1>3. /\ listPages' \in Seq(PageValues) /\ listRequests' \in Seq(ListRequest)
        /\ CurrentAreOf(listRequests', owner) /\ PagesRightFor(listPages', listRequests', owner)
    <2>1. CASE listKind = "runs" /\ listSubscribed /\ owner # NoOwner
      <3>1. LoadPage(<<>>, Outdated, owner, 1)
        BY <2>1 DEF EmitOwner, ResetPages
      <3>2. 1 \in 1 .. MaxPage /\ owner \in Owners
        BY <2>1 DEF MaxPage
      <3> QED
        BY <1>2, <3>1, <3>2, PageLoaded
    <2>2. CASE ~(listKind = "runs" /\ listSubscribed /\ owner # NoOwner)
      <3>1. listPages' = <<>> /\ listRequests' = Outdated
        BY <2>2 DEF EmitOwner, ResetPages
      <3> QED
        BY <1>2, <3>1
    <2> QED
      BY <2>1, <2>2
  <1> QED
    BY <1>1, <1>3 DEF PagedTypes, CurrentAreOf, PagesRightFor, PageValues

\* A page is asked for, and nothing else happens to the list.
LEMMA LoadStep ==
    ASSUME PagedInv, NEW n \in 1 .. MaxPage, listOwner # NoOwner, n = 1 \/ n \in DOMAIN listPages,
           LoadPage(listPages, listRequests, listOwner, n),
           UNCHANGED <<listKind, listOwner, listOvertaken, listRaised>>
    PROVE  PagedInv'
  <1>1. listOwner \in Owners /\ ListRequest' = ListRequest
    BY KindKept DEF PagedInv, PagedTypes
  <1>2. /\ listPages' \in Seq(PageValues) /\ listRequests' \in Seq(ListRequest)
        /\ CurrentAreOf(listRequests', listOwner)
        /\ PagesRightFor(listPages, listRequests, listOwner) =>
              PagesRightFor(listPages', listRequests', listOwner)
    BY <1>1, PageLoaded DEF PagedInv, PagedTypes
  <1> QED
    BY <1>1, <1>2 DEF PagedInv, PagedTypes, CurrentAreOf, PagesRightFor, PageValues

\* A page that returns is put at its index, unless its list was emptied since.
LEMMA PageReturnsStep ==
    ASSUME PagedInv, NEW k \in DOMAIN listRequests, PageReturns(k)
    PROVE  PagedInv'
  <1> DEFINE request == listRequests[k]
             n == PageOf(request)
             owner == OwnerOf(request)
             pages == Assigned(listPages, n, owner)
  <1>1. /\ listPages' = Initialized(pages)
        /\ listRaised' = (listRaised \/ pages[1] \in {Undefined, Loading})
        /\ listOvertaken' = (listOvertaken \/ ~request.current)
        /\ listRequests' = ListAnswered(k)
        /\ UNCHANGED <<listKind, listOwner>>
    BY DEF PageReturns
  <1>2. request \in ListRequest
    BY ElementOfSeq, LenProperties DEF PagedInv, PagedTypes
  <1>3. owner \in Owners /\ n \in 1 .. MaxPage /\ request.current \in BOOLEAN
    BY <1>2, RequestTyped
  <1>4. /\ listRequests' \in Seq(ListRequest) /\ ListRequest' = ListRequest
        /\ CurrentAreOf(listRequests', listOwner)
        /\ \A any : PagesRightFor(any, listRequests, listOwner) =>
              PagesRightFor(any, listRequests', listOwner)
    BY <1>1, ListRequestGone, KindKept DEF PagedInv, PagedTypes
  <1>5. Undefined \in PageValues /\ owner \in PageValues
    BY <1>3 DEF PageValues
  <1> HIDE DEF request, n, owner
  <1>6. /\ pages \in Seq(PageValues)
        /\ Len(pages) = IF n > Len(listPages) THEN n ELSE Len(listPages)
        /\ pages[n] = owner /\ n \in DOMAIN pages
        /\ \A i \in DOMAIN listPages : i \in DOMAIN pages
        /\ \A i \in DOMAIN pages : i # n => pages[i] = IF i \in DOMAIN listPages THEN listPages[i] ELSE Undefined
    <2>1. listPages \in Seq(PageValues)
      BY DEF PagedInv, PagedTypes
    <2>2. ASSUME NEW m \in 1 .. MaxPage, NEW value \in PageValues
          PROVE  LET written == Assigned(listPages, m, value) IN
                 /\ written \in Seq(PageValues)
                 /\ Len(written) = IF m > Len(listPages) THEN m ELSE Len(listPages)
                 /\ written[m] = value /\ m \in DOMAIN written
                 /\ \A i \in DOMAIN listPages : i \in DOMAIN written
                 /\ \A i \in DOMAIN written :
                       i # m => written[i] = IF i \in DOMAIN listPages THEN listPages[i] ELSE Undefined
      BY <1>5, <2>1, AssignedPages
    <2> QED
      BY <1>3, <1>5, <2>2
  <1> HIDE DEF pages
  <1>7. /\ DOMAIN pages = 1 .. Len(pages) /\ Len(pages) \in Nat
        /\ DOMAIN listPages = 1 .. Len(listPages) /\ Len(listPages) \in Nat
    BY <1>6, LenProperties DEF PagedInv, PagedTypes
  <1>8. pages[1] \in PageValues
    <2>1. 1 \in DOMAIN pages
      BY <1>3, <1>6, <1>7 DEF MaxPage
    <2> QED
      BY <1>6, <2>1, ElementOfSeq, <1>7
  <1>9. listPages' \in Seq(PageValues)
    <2>1. CASE pages[1] \in {Undefined, Loading}
      BY <1>1, <1>6, <2>1 DEF Initialized
    <2>2. CASE pages[1] \notin {Undefined, Loading}
      <3>1. PageCount[pages[1]] \in Nat
        BY <1>8, <2>2, OwnersApart DEF PageValues
      <3> QED
        BY <1>1, <1>5, <1>6, <2>2, <3>1, InitializedPages
    <2> QED
      BY <2>1, <2>2
  <1>10. ASSUME ~listOvertaken'
         PROVE  PagesRightFor(listPages', listRequests', listOwner) /\ ~listRaised'
    <2>1. ~listOvertaken /\ request.current /\ PagesRightFor(listPages, listRequests, listOwner) /\ ~listRaised
      BY <1>1, <1>3, <1>10 DEF PagedInv, PagedTypes
    <2>2. owner = listOwner
      BY <2>1 DEF PagedInv, CurrentAreOf, owner, request
    <2>3. n \in DOMAIN listPages /\ listPages[n] = Loading
      BY <2>1 DEF PagesRightFor, n, request
    <2>4. Len(pages) = Len(listPages) /\ DOMAIN pages = DOMAIN listPages
      <3>1. n \in Nat /\ n <= Len(listPages) /\ Len(pages) = IF n > Len(listPages) THEN n ELSE Len(listPages)
        BY <1>3, <1>6, <1>7, <2>3 DEF MaxPage
      <3>2. Len(pages) = Len(listPages)
        BY <1>7, <3>1, LengthsAgree
      <3> QED
        BY <1>7, <3>2
    <2>5. pages[1] = listOwner
      <3>1. CASE n = 1
        BY <1>6, <2>2, <3>1
      <3>2. CASE n # 1
        <4>1. Len(listPages) > 1
          BY <1>3, <1>7, <2>3, <3>2 DEF MaxPage
        <4>2. listPages[1] = listOwner /\ 1 \in DOMAIN pages
          BY <1>7, <2>1, <2>4, <4>1 DEF PagesRightFor
        <4> QED
          BY <1>6, <2>4, <3>2, <4>2
      <3> QED
        BY <3>1, <3>2
    <2>6. listOwner \in Owners /\ pages[1] \notin {Undefined, Loading} /\ PageCount[pages[1]] \in Nat
      BY <1>3, <2>2, <2>5, OwnersApart
    <2>7. /\ Len(listPages') = PageCount[listOwner] /\ DOMAIN listPages' = 1 .. PageCount[listOwner]
          /\ \A i \in DOMAIN listPages' : listPages'[i] = IF i \in DOMAIN pages THEN pages[i] ELSE Undefined
      BY <1>1, <1>5, <1>6, <2>5, <2>6, InitializedPages
    <2>8. \A i \in DOMAIN pages : pages[i] \in {listOwner, Undefined, Loading}
      BY <1>6, <2>1, <2>2, <2>4 DEF PagesRightFor
    <2>9. \A i \in DOMAIN listPages' : listPages'[i] \in {listOwner, Undefined, Loading}
      BY <2>7, <2>8
    <2>10. Len(listPages') > 1 => listPages'[1] = listOwner /\ listOwner \in Owners
      <3> SUFFICES ASSUME Len(listPages') > 1
                   PROVE  listPages'[1] = listOwner
        BY <2>6
      <3>1. 1 \in DOMAIN listPages' /\ 1 \in DOMAIN pages
        BY <1>3, <1>6, <1>7, <2>6, <2>7 DEF MaxPage
      <3> QED
        BY <2>5, <2>7, <3>1
    <2>11. ASSUME NEW j \in DOMAIN listRequests', listRequests'[j].current
           PROVE  PageOf(listRequests'[j]) \in DOMAIN listPages' /\ listPages'[PageOf(listRequests'[j])] = Loading
      <3>1. PICK i \in DOMAIN listRequests \ {k} : listRequests'[j] = listRequests[i]
        BY <1>1, ListRequestGone DEF PagedInv, PagedTypes
      <3> DEFINE m == PageOf(listRequests[i])
      <3>2. m # n /\ m \in DOMAIN listPages /\ listPages[m] = Loading
        BY <2>1, <2>11, <3>1 DEF PagesRightFor, n, request
      <3>3. m \in DOMAIN pages /\ pages[m] = Loading
        BY <1>6, <2>4, <3>2
      <3>4. Len(listPages) > 1
        BY <1>7, <2>3, <3>2
      <3>5. m \in DOMAIN listPages'
        BY <1>7, <2>1, <2>7, <3>2, <3>4 DEF PagesRightFor
      <3> QED
        BY <2>7, <3>1, <3>3, <3>5
    <2>12. \A i, j \in DOMAIN listRequests' :
              listRequests'[i].current /\ listRequests'[j].current
                 /\ PageOf(listRequests'[i]) = PageOf(listRequests'[j]) => i = j
      BY <1>4, <2>1 DEF PagesRightFor
    <2> QED
      BY <1>1, <2>1, <2>5, <2>6, <2>7, <2>9, <2>10, <2>11, <2>12 DEF PagesRightFor
  <1>11. listOvertaken' \in BOOLEAN /\ listRaised' \in BOOLEAN /\ listOwner' \in Owners \cup {NoOwner}
    BY <1>1 DEF PagedInv, PagedTypes
  <1>12. PagedTypes'
    BY <1>4, <1>9, <1>11 DEF PagedTypes, PageValues
  <1> QED
    BY <1>1, <1>4, <1>10, <1>12 DEF PagedInv, CurrentAreOf, PagesRightFor

\* A page that fails stays marked as loading.
LEMMA PageFailsStep ==
    ASSUME PagedInv, NEW k \in DOMAIN listRequests, PageFails(k)
    PROVE  PagedInv'
  <1>1. listRequests' = ListAnswered(k) /\ UNCHANGED <<listKind, listOwner, listPages, listOvertaken, listRaised>>
    BY DEF PageFails
  <1>2. /\ listRequests' \in Seq(ListRequest) /\ ListRequest' = ListRequest
        /\ CurrentAreOf(listRequests', listOwner)
        /\ PagesRightFor(listPages, listRequests, listOwner) =>
              PagesRightFor(listPages, listRequests', listOwner)
    BY <1>1, ListRequestGone, KindKept DEF PagedInv, PagedTypes
  <1> QED
    BY <1>1, <1>2 DEF PagedInv, PagedTypes, CurrentAreOf, PagesRightFor, PageValues

\* What only concerns the page leaves the list as it is.
LEMMA ListStays ==
    ASSUME PagedInv, UNCHANGED <<listKind, listOwner, listPages, listRequests, listOvertaken, listRaised>>
    PROVE  PagedInv'
  <1>1. ListRequest' = ListRequest
    BY KindKept
  <1> QED
    BY <1>1 DEF PagedInv, PagedTypes, CurrentAreOf, PagesRightFor, PageValues

\* In every reachable state the requests of the list that is held are about its owner, one
\* for each page that is loading, unless an answer for a list that was emptied has come.
THEOREM PagedInvariant == ListsSpec => []PagedInv
  <1>1. ListsInit => PagedInv
    <2> SUFFICES ASSUME ListsInit
                 PROVE  PagedInv
      OBVIOUS
    <2>1. /\ <<>> \in Seq(PageValues) /\ <<>> \in Seq(ListRequest)
          /\ Len(<<>>) = 0 /\ DOMAIN <<>> = {}
      BY EmptySeq
    <2>2. PagedTypes
      BY <2>1 DEF ListsInit, PagedTypes
    <2>3. CurrentAreOf(<<>>, listOwner) /\ PagesRightFor(<<>>, <<>>, listOwner)
      BY <2>1 DEF CurrentAreOf, PagesRightFor
    <2>4. listPages = <<>> /\ listRequests = <<>> /\ ~listRaised
      BY DEF ListsInit
    <2> QED
      BY <2>2, <2>3, <2>4 DEF PagedInv
  <1>2. ASSUME PagedInv, [ListsNext]_listVars
        PROVE  PagedInv'
    <2>1. CASE UNCHANGED listVars
      BY <1>2, <2>1, ListStays DEF listVars
    <2>2. CASE \E owner \in Owners \cup {NoOwner} : EmitOwner(owner)
      BY <1>2, <2>2, EmitOwnerStep
    <2>3. CASE ShowList
      <3>1. CASE listOwner = NoOwner
        BY <1>2, <2>3, <3>1, ListStays DEF ShowList
      <3>2. CASE listOwner # NoOwner
        <4>1. 1 \in 1 .. MaxPage
          BY DEF MaxPage
        <4> QED
          BY <1>2, <2>3, <3>2, <4>1, LoadStep DEF ShowList
      <3> QED
        BY <3>1, <3>2
    <2>4. CASE HideList
      BY <1>2, <2>4, ListStays DEF HideList
    <2>5. CASE \E n \in 1 .. MaxPage : ObserveVisible(n)
      BY <1>2, <2>5, LoadStep DEF ObserveVisible
    <2>6. CASE \E k \in DOMAIN listRequests : PageReturns(k) \/ PageFails(k)
      BY <1>2, <2>6, PageReturnsStep, PageFailsStep
    <2> QED
      BY <1>2, <2>1, <2>2, <2>3, <2>4, <2>5, <2>6 DEF ListsNext
  <1> QED
    BY <1>1, <1>2, PTL DEF ListsSpec

\* Unless an answer to a request of an emptied list comes, a list holds pages of its
\* owner alone, asks for none twice at a time and has the first page it takes its length
\* from (PipelineRunWrapperService, ProjectAuditLogService).
THEOREM ListsGoWrongWhenOvertaken == ListsSpec => []OnlyOvertakenListsGoWrong
  <1>1. PagedInv => OnlyOvertakenListsGoWrong
    <2> SUFFICES ASSUME PagedInv, ~listOvertaken
                 PROVE  /\ ToSet(listPages) \subseteq {listOwner, Undefined, Loading}
                        /\ \A j, k \in DOMAIN listRequests :
                              listRequests[j].current /\ listRequests[k].current
                                 /\ PageOf(listRequests[j]) = PageOf(listRequests[k]) => j = k
                        /\ ~listRaised
      BY DEF OnlyOvertakenListsGoWrong
    <2>1. PagesRightFor(listPages, listRequests, listOwner) /\ ~listRaised
      BY DEF PagedInv
    <2> QED
      BY <2>1 DEF PagesRightFor, ToSet
  <1> QED
    BY <1>1, PagedInvariant, PTL

----------------------------------------------------------------------------
(* The repositories of an instance *)

RepoRequests ==
    {ListT4cRepositories(x) : x \in Instances}
        \cup {CreateT4cRepository(x, r) : x \in Instances, r \in Repositories}
        \cup {StartT4cRepository(x, r) : x \in Instances, r \in Repositories}
        \cup {StopT4cRepository(x, r) : x \in Instances, r \in Repositories}
        \cup {RecreateT4cRepository(x, r) : x \in Instances, r \in Repositories}
        \cup {DeleteT4cRepository(x, r) : x \in Instances, r \in Repositories}
Answers == UNION {[listed -> Statuses] : listed \in SUBSET Repositories}
RepoSteps == {"sent", "row", "rows", "server", "served", "error"}
RepoCalls ==
    {call \in [request : RepoRequests, instance : Instances, repository : Instances \cup Repositories,
               step : RepoSteps, rows : SUBSET Repositories, server : SUBSET Repositories,
               answer : Answers, newest : BOOLEAN, page : BOOLEAN] :
        /\ IsList(call) \/ call.repository \in Repositories
        /\ call.rows \cup call.server \subseteq RepositoriesOf[call.instance]
        /\ call.newest => IsList(call)
        /\ call.step = "row" => ~IsList(call)}

RepoTypes ==
    /\ reposInstance \in Instances \cup {NoInstance}
    /\ DOMAIN reposHeld \subseteq Repositories
    /\ reposRows \subseteq Repositories /\ reposOnServer \subseteq Repositories
    /\ reposCalls \in Seq(RepoCalls)
    /\ reposOutrun \in BOOLEAN /\ reposFailed \in BOOLEAN /\ reposResynced \in BOOLEAN

\* What is listed of an instance has rows, and is all that has unless rows were inserted.
Follows(listed, instance) ==
    /\ listed \subseteq reposRows \cap RepositoriesOf[instance]
    /\ ~reposResynced => reposRows \cap RepositoriesOf[instance] \subseteq listed

Lists(list, instance) ==
    /\ Follows(DOMAIN list, instance)
    /\ \A repository \in DOMAIN list : list[repository] # "LOADING"

\* The rows that a list has read, and its answer, are those of its instance.
Claim(call) ==
    /\ call.step \in {"rows", "server"} => Follows(call.rows, call.instance)
    /\ call.step = "served" => Lists(call.answer, call.instance)

ChangeUnderWay == \E i \in DOMAIN reposCalls : ~IsList(reposCalls[i])

OneNewest == \A i, j \in DOMAIN reposCalls : reposCalls[i].newest /\ reposCalls[j].newest => i = j

\* A change that is under way will be followed by a read, or by a failure that is noted.
ReposSettle ==
    ~ChangeUnderWay /\ ~reposFailed =>
        /\ \A i \in DOMAIN reposCalls : reposCalls[i].newest => Claim(reposCalls[i])
        /\ \/ reposInstance = NoInstance \/ reposOutrun \/ Lists(reposHeld, reposInstance)
           \/ \E i \in DOMAIN reposCalls : reposCalls[i].newest

RepoInv == RepoTypes /\ OneNewest /\ ReposSettle

\* The fields of a request under way.
LEMMA CallTypes ==
    ASSUME RepoTypes, NEW i \in DOMAIN reposCalls
    PROVE  /\ reposCalls[i] \in RepoCalls
           /\ reposCalls[i].instance \in Instances /\ reposCalls[i].answer \in Answers
           /\ reposCalls[i].newest \in BOOLEAN
           /\ reposCalls[i].newest => IsList(reposCalls[i])
           /\ reposCalls[i].rows \subseteq Repositories /\ reposCalls[i].server \subseteq Repositories
           /\ reposCalls[i].rows \cup reposCalls[i].server \subseteq RepositoriesOf[reposCalls[i].instance]
           /\ DOMAIN reposCalls[i].answer \subseteq Repositories
           /\ ~IsList(reposCalls[i]) => reposCalls[i].repository \in Repositories
  <1>1. reposCalls[i] \in RepoCalls
    BY ElementOfSeq, LenProperties DEF RepoTypes
  <1>2. \A answer \in Answers : DOMAIN answer \subseteq Repositories
    BY DEF Answers
  <1> HIDE DEF Answers, RepoRequests, RepoSteps
  <1> QED
    BY <1>1, <1>2 DEF RepoCalls

\* What the backend and the page make of a request is a request.
LEMMA CallKept ==
    ASSUME NEW call \in RepoCalls
    PROVE  /\ \A step \in RepoSteps \ {"row"}, rows \in SUBSET RepositoriesOf[call.instance],
                 server \in SUBSET RepositoriesOf[call.instance], answer \in Answers :
                 rows \subseteq Repositories /\ server \subseteq Repositories =>
                    [call EXCEPT !.step = step, !.rows = rows, !.server = server, !.answer = answer] \in RepoCalls
           /\ ~IsList(call) => [call EXCEPT !.step = "row"] \in RepoCalls
           /\ [call EXCEPT !.page = FALSE] \in RepoCalls
           /\ [call EXCEPT !.newest = FALSE] \in RepoCalls
  <1> HIDE DEF Answers, RepoRequests
  <1> QED
    BY DEF RepoCalls, IsList, RepoSteps

\* What a request for the list that is sent looks like.
LEMMA ListSent ==
    ASSUME NEW instance \in Instances, NEW newest \in BOOLEAN
    PROVE  LET call == RepoCall(ListT4cRepositories(instance), instance, instance, newest) IN
           call \in RepoCalls /\ call.step = "sent" /\ call.newest = newest
  <1>1. NoRepositories \in Answers
    <2>1. NoRepositories \in [{} -> Statuses]
      BY DEF NoRepositories
    <2> QED
      BY <2>1 DEF Answers
  <1> DEFINE list == ListT4cRepositories(instance)
             call == RepoCall(list, instance, instance, newest)
  <1>2. list \in RepoRequests
    BY DEF RepoRequests
  <1> HIDE DEF Answers, RepoRequests, list
  <1>3. call.step = "sent" /\ call.newest = newest /\ IsList(call) /\ call.rows = {} /\ call.server = {}
    BY DEF RepoCall, IsList, list
  <1>4. call \in RepoCalls
    <2>1. call \in [request : RepoRequests, instance : Instances, repository : Instances \cup Repositories,
                     step : RepoSteps, rows : SUBSET Repositories, server : SUBSET Repositories,
                     answer : Answers, newest : BOOLEAN, page : BOOLEAN]
      BY <1>1, <1>2 DEF RepoCall, RepoSteps
    <2> HIDE DEF call
    <2> QED
      BY <1>3, <2>1 DEF RepoCalls
  <1> QED
    BY <1>3, <1>4 DEF list

\* What a change that is sent looks like.
LEMMA ChangeSentIsNoList ==
    ASSUME NEW request \in RepoRequests, NEW instance \in Instances, NEW repository \in Repositories,
           request # ListT4cRepositories(instance)
    PROVE  LET call == RepoCall(request, instance, repository, FALSE) IN
           call \in RepoCalls /\ ~IsList(call) /\ call.newest = FALSE
  <1>1. NoRepositories \in Answers
    <2>1. NoRepositories \in [{} -> Statuses]
      BY DEF NoRepositories
    <2> QED
      BY <2>1 DEF Answers
  <1> HIDE DEF Answers, RepoRequests
  <1> QED
    BY <1>1 DEF RepoCall, RepoCalls, IsList, RepoSteps

\* A change is not the request for the list.
LEMMA RepoRequestsTell ==
    ASSUME NEW x, NEW y, NEW r
    PROVE  /\ CreateT4cRepository(x, r) # ListT4cRepositories(y)
           /\ StartT4cRepository(x, r) # ListT4cRepositories(y)
           /\ StopT4cRepository(x, r) # ListT4cRepositories(y)
           /\ RecreateT4cRepository(x, r) # ListT4cRepositories(y)
           /\ DeleteT4cRepository(x, r) # ListT4cRepositories(y)
  BY DEF Request, CreateT4cRepository, StartT4cRepository, StopT4cRepository, RecreateT4cRepository,
         DeleteT4cRepository, ListT4cRepositories

\* A step that sends a change: what it will do is still to come.
LEMMA ChangeSent ==
    ASSUME RepoInv, NEW request \in RepoRequests, NEW instance \in Instances, NEW repository \in Repositories,
           SendRepoCall(request, instance, repository), request # ListT4cRepositories(instance),
           DOMAIN reposHeld' = DOMAIN reposHeld
    PROVE  RepoInv'
  <1> DEFINE call == RepoCall(request, instance, repository, FALSE)
  <1>1. call \in RepoCalls /\ ~IsList(call) /\ call.newest = FALSE
    BY ChangeSentIsNoList
  <1>2. /\ reposCalls' = Append(reposCalls, call)
        /\ UNCHANGED <<reposInstance, reposRows, reposOnServer, reposResynced, reposOutrun, reposFailed>>
    BY DEF SendRepoCall, backendOfRepos
  <1> HIDE DEF call
  <1>3. reposCalls' \in Seq(RepoCalls) /\ \E i \in DOMAIN reposCalls' : reposCalls'[i] = call
    <2>1. /\ Append(reposCalls, call) \in Seq(RepoCalls)
          /\ DOMAIN Append(reposCalls, call) = 1 .. Len(reposCalls) + 1 /\ Len(reposCalls) \in Nat
          /\ Append(reposCalls, call)[Len(reposCalls) + 1] = call
      BY <1>1, Appended DEF RepoInv, RepoTypes
    <2>2. Len(reposCalls) + 1 \in 1 .. Len(reposCalls) + 1
      BY <2>1
    <2> QED
      BY <1>2, <2>1, <2>2
  <1>4. ChangeUnderWay'
    BY <1>1, <1>3 DEF ChangeUnderWay, IsList
  <1>5. \A j \in DOMAIN reposCalls' :
           reposCalls'[j] = call \/ (j \in DOMAIN reposCalls /\ reposCalls'[j] = reposCalls[j])
    BY <1>1, <1>2, Appended DEF RepoInv, RepoTypes
  <1>6. OneNewest'
    BY <1>1, <1>5 DEF RepoInv, OneNewest
  <1> QED
    BY <1>2, <1>3, <1>4, <1>6 DEF RepoInv, RepoTypes, ReposSettle

\* The list is read again: the last read that is sent is the newest.
LEMMA RepositoriesLoaded ==
    ASSUME NEW instance \in Instances, NEW calls \in Seq(RepoCalls), NEW times \in Nat \ {0},
           LoadRepositories(instance, calls, times)
    PROVE  /\ reposCalls' \in Seq(RepoCalls)
           /\ reposFailed' = FALSE /\ reposResynced' = FALSE /\ UNCHANGED <<reposRows, reposOnServer>>
           /\ \A i \in DOMAIN reposCalls' : reposCalls'[i].newest => reposCalls'[i].step = "sent"
           /\ \E i \in DOMAIN reposCalls' : reposCalls'[i].newest
           /\ OneNewest'
  <1> DEFINE older == [i \in DOMAIN calls |-> [calls[i] EXCEPT !.newest = FALSE]]
             list == ListT4cRepositories(instance)
             reads == [k \in 1 .. times |-> RepoCall(list, instance, instance, k = times)]
  <1>1. /\ reposCalls' = older \o reads
        /\ reposFailed' = FALSE /\ reposResynced' = FALSE /\ UNCHANGED <<reposRows, reposOnServer>>
    BY DEF LoadRepositories
  <1>2. older \in Seq(RepoCalls) /\ \A i \in DOMAIN older : ~older[i].newest
    <2>1. \A i \in DOMAIN calls : calls[i] \in RepoCalls
      BY ElementOfSeq, LenProperties
    <2>2. \A call \in RepoCalls : /\ [call EXCEPT !.newest = FALSE] \in RepoCalls
                                  /\ [call EXCEPT !.newest = FALSE].newest = FALSE
      <3>1. \A call \in RepoCalls : [call EXCEPT !.newest = FALSE] \in RepoCalls
        BY CallKept
      <3> HIDE DEF RepoRequests, Answers
      <3>2. \A call \in RepoCalls : [call EXCEPT !.newest = FALSE].newest = FALSE
        BY DEF RepoCalls
      <3> QED
        BY <3>1, <3>2
    <2>3. older \in [DOMAIN calls -> RepoCalls]
      BY <2>1, <2>2
    <2>4. older \in Seq(RepoCalls) /\ DOMAIN older = DOMAIN calls
      BY <2>3, Mapped
    <2> QED
      BY <2>1, <2>2, <2>4
  <1>3. /\ reads \in Seq(RepoCalls) /\ DOMAIN reads = 1 .. times
        /\ \A k \in 1 .. times : reads[k].step = "sent" /\ (reads[k].newest => k = times)
        /\ reads[times].newest
    <2>1. list \in RepoRequests
      BY DEF RepoRequests
    <2>2. ASSUME NEW k \in 1 .. times
          PROVE  /\ reads[k] \in RepoCalls /\ reads[k].step = "sent" /\ reads[k].newest = (k = times)
      <3>1. ASSUME NEW newest \in BOOLEAN
            PROVE  LET call == RepoCall(list, instance, instance, newest) IN
                   call \in RepoCalls /\ call.step = "sent" /\ call.newest = newest
        BY ListSent
      <3>2. reads[k] = RepoCall(list, instance, instance, k = times)
        OBVIOUS
      <3>3. (k = times) \in BOOLEAN
        OBVIOUS
      <3> QED
        BY <3>1, <3>2, <3>3
    <2>3. reads \in [1 .. times -> RepoCalls]
      BY <2>2
    <2>4. reads \in Seq(RepoCalls)
      BY <2>3, SeqDef
    <2>5. times \in 1 .. times
      OBVIOUS
    <2> QED
      BY <2>2, <2>4, <2>5
  <1> HIDE DEF older, reads, list
  <1>4. /\ reposCalls' \in Seq(RepoCalls)
        /\ \A j \in DOMAIN reads : \E i \in DOMAIN reposCalls' : reposCalls'[i] = reads[j]
        /\ \A i \in DOMAIN reposCalls' :
              \/ i \in DOMAIN older /\ reposCalls'[i] = older[i]
              \/ \E j \in DOMAIN reads : reposCalls'[i] = reads[j]
    <2>1. older \in Seq(RepoCalls) /\ reads \in Seq(RepoCalls) /\ reposCalls' = older \o reads
      BY <1>1, <1>2, <1>3
    <2>2. reposCalls' \in Seq(RepoCalls)
      BY <2>1, Joined
    <2>3. ASSUME NEW j \in DOMAIN reads
          PROVE  \E i \in DOMAIN reposCalls' : reposCalls'[i] = reads[j]
      <3>1. ASSUME NEW S, NEW s \in Seq(S), NEW t \in Seq(S), NEW k \in DOMAIN t
            PROVE  \E i \in DOMAIN (s \o t) : (s \o t)[i] = t[k]
        BY Joined
      <3>2. \E i \in DOMAIN (older \o reads) : (older \o reads)[i] = reads[j]
        BY <2>1, <3>1
      <3> QED
        BY <2>1, <3>2
    <2>4. \A i \in DOMAIN reposCalls' :
              \/ i \in DOMAIN older /\ reposCalls'[i] = older[i]
              \/ \E j \in DOMAIN reads : reposCalls'[i] = reads[j]
      BY <2>1, Joined
    <2> QED
      BY <2>2, <2>3, <2>4
  <1>5. times \in DOMAIN reads
    BY <1>3
  <1>6. \E i \in DOMAIN reposCalls' : reposCalls'[i].newest
    BY <1>3, <1>4, <1>5
  <1>7. \A i \in DOMAIN reposCalls' : reposCalls'[i].newest => reposCalls'[i].step = "sent"
    BY <1>2, <1>3, <1>4
  <1>8. OneNewest'
    <2>1. /\ Len(older) \in Nat /\ DOMAIN older = 1 .. Len(older) /\ Len(reads) = times
      BY <1>2, <1>3, LenProperties
    <2>2. /\ DOMAIN reposCalls' = 1 .. Len(older) + times
          /\ \A i \in 1 .. Len(older) + times :
                reposCalls'[i] = IF i <= Len(older) THEN older[i] ELSE reads[i - Len(older)]
      <3>1. /\ Len(older \o reads) = Len(older) + Len(reads)
            /\ \A i \in 1 .. Len(older) + Len(reads) :
                  (older \o reads)[i] = IF i <= Len(older) THEN older[i] ELSE reads[i - Len(older)]
        BY <1>2, <1>3, ConcatProperties
      <3>2. DOMAIN reposCalls' = 1 .. Len(reposCalls')
        BY <1>4, LenProperties
      <3> QED
        BY <1>1, <2>1, <3>1, <3>2
    <2>3. ASSUME NEW i \in DOMAIN reposCalls', reposCalls'[i].newest
          PROVE  i = Len(older) + times
      <3>1. i \in 1 .. Len(older) + times
        BY <2>2
      <3>2. CASE i <= Len(older)
        BY <1>2, <2>1, <2>2, <2>3, <3>1, <3>2
      <3>3. CASE ~(i <= Len(older))
        <4>1. i - Len(older) \in 1 .. times
          BY <2>1, <3>1, <3>3
        <4>2. reposCalls'[i] = reads[i - Len(older)]
          BY <2>2, <3>1, <3>3
        <4>3. i - Len(older) = times
          BY <1>3, <2>3, <4>1, <4>2
        <4> QED
          BY <2>1, <3>1, <4>3
      <3> QED
        BY <3>2, <3>3
    <2> QED
      BY <2>3 DEF OneNewest
  <1> QED
    BY <1>1, <1>4, <1>6, <1>7, <1>8

\* After that, whatever is held will be replaced.
LEMMA LoadedSettles ==
    ASSUME RepoInv, NEW instance \in Instances, NEW calls \in Seq(RepoCalls), NEW times \in Nat \ {0},
           LoadRepositories(instance, calls, times), reposInstance' \in Instances \cup {NoInstance},
           UNCHANGED reposOutrun, DOMAIN reposHeld' = DOMAIN reposHeld
    PROVE  RepoInv'
  <1>1. /\ reposCalls' \in Seq(RepoCalls)
        /\ reposFailed' = FALSE /\ reposResynced' = FALSE /\ UNCHANGED <<reposRows, reposOnServer>>
        /\ \A i \in DOMAIN reposCalls' : reposCalls'[i].newest => reposCalls'[i].step = "sent"
        /\ \E i \in DOMAIN reposCalls' : reposCalls'[i].newest
        /\ OneNewest'
    BY RepositoriesLoaded
  <1>2. RepoTypes'
    BY <1>1 DEF RepoInv, RepoTypes
  <1>3. \A i \in DOMAIN reposCalls' : reposCalls'[i].newest => Claim(reposCalls[i])'
    BY <1>1 DEF Claim
  <1>4. ReposSettle'
    BY <1>1, <1>3 DEF ReposSettle
  <1> QED
    BY <1>1, <1>2, <1>4 DEF RepoInv

\* What is under way when a request has been answered.
LEMMA CallTaken ==
    ASSUME RepoInv, NEW i \in DOMAIN reposCalls
    PROVE  /\ RemoveAt(reposCalls, i) \in Seq(RepoCalls)
           /\ \A j \in DOMAIN RemoveAt(reposCalls, i) :
                 \E k \in DOMAIN reposCalls \ {i} : RemoveAt(reposCalls, i)[j] = reposCalls[k]
           /\ \A k \in DOMAIN reposCalls \ {i} :
                 \E j \in DOMAIN RemoveAt(reposCalls, i) : RemoveAt(reposCalls, i)[j] = reposCalls[k]
           /\ reposCalls' = RemoveAt(reposCalls, i) => OneNewest'
  <1>1. reposCalls \in Seq(RepoCalls)
    BY DEF RepoInv, RepoTypes
  <1>2. RemoveAt(reposCalls, i) \in Seq(RepoCalls)
    BY <1>1, Removed
  <1>3. /\ \A j \in DOMAIN RemoveAt(reposCalls, i) :
              \E k \in DOMAIN reposCalls \ {i} : RemoveAt(reposCalls, i)[j] = reposCalls[k]
        /\ \A k \in DOMAIN reposCalls \ {i} :
              \E j \in DOMAIN RemoveAt(reposCalls, i) : RemoveAt(reposCalls, i)[j] = reposCalls[k]
    BY <1>1, RemovedElements
  <1> DEFINE rest == RemoveAt(reposCalls, i)
  <1>4. \A j, k \in DOMAIN rest : j # k =>
           \E a, b \in DOMAIN reposCalls \ {i} : a # b /\ rest[j] = reposCalls[a] /\ rest[k] = reposCalls[b]
    BY <1>1, RemovedApart
  <1> HIDE DEF rest
  <1>5. reposCalls' = rest => OneNewest'
    BY <1>4 DEF RepoInv, OneNewest
  <1> USE DEF rest
  <1> QED
    BY <1>2, <1>3, <1>5

\* A repository is in its instance.
LEMMA InstanceOfRepository ==
    ASSUME NEW repository \in Repositories
    PROVE  InstanceOf(repository) \in Instances /\ repository \in RepositoriesOf[InstanceOf(repository)]
  BY DEF Repositories, InstanceOf

\* The page opens, closes, or reads its list again.
LEMMA ChooseStep ==
    ASSUME RepoInv, NEW instance \in Instances, ChooseInstance(instance)
    PROVE  RepoInv'
  <1>1. reposCalls \in Seq(RepoCalls) /\ 1 \in Nat \ {0}
    BY DEF RepoInv, RepoTypes
  <1>2. LoadRepositories(instance, reposCalls, 1) /\ reposInstance' \in Instances \cup {NoInstance}
    BY DEF ChooseInstance
  <1>3. UNCHANGED reposOutrun /\ DOMAIN reposHeld' = DOMAIN reposHeld
    BY DEF ChooseInstance
  <1> QED
    BY <1>1, <1>2, <1>3, LoadedSettles

\* A refresh sends a read, which is the newest one.
LEMMA RefreshStep ==
    ASSUME RepoInv, RefreshRepositories
    PROVE  RepoInv'
  <1>1. reposCalls \in Seq(RepoCalls) /\ 1 \in Nat \ {0} /\ reposInstance \in Instances
    BY DEF RepoInv, RepoTypes, RefreshRepositories
  <1>2. LoadRepositories(reposInstance, reposCalls, 1) /\ reposInstance' \in Instances \cup {NoInstance}
    BY <1>1 DEF RefreshRepositories
  <1>3. UNCHANGED reposOutrun /\ DOMAIN reposHeld' = DOMAIN reposHeld
    BY DEF RefreshRepositories
  <1> QED
    BY <1>1, <1>2, <1>3, LoadedSettles

\* A page that is left waits for nothing.
LEMMA LeaveStep ==
    ASSUME RepoInv, LeaveInstance
    PROVE  RepoInv'
  <1> DEFINE left == [i \in DOMAIN reposCalls |-> [reposCalls[i] EXCEPT !.page = FALSE]]
  <1>1. /\ reposCalls' = left /\ reposInstance' = NoInstance /\ reposHeld' = NoRepositories
        /\ UNCHANGED <<reposRows, reposOnServer, reposResynced, reposOutrun, reposFailed>>
    BY DEF LeaveInstance, backendOfRepos
  <1>2. \A i \in DOMAIN reposCalls : reposCalls[i] \in RepoCalls
    BY CallTypes DEF RepoInv
  <1>3. \A call \in RepoCalls : [call EXCEPT !.page = FALSE] \in RepoCalls
    BY CallKept
  <1>4. left \in [DOMAIN reposCalls -> RepoCalls]
    BY <1>2, <1>3
  <1>5. reposCalls \in Seq(RepoCalls)
    BY DEF RepoInv, RepoTypes
  <1>6. left \in Seq(RepoCalls) /\ DOMAIN left = DOMAIN reposCalls
    BY <1>4, <1>5, Mapped
  <1>7. \A i \in DOMAIN reposCalls :
           /\ left[i].request = reposCalls[i].request /\ left[i].instance = reposCalls[i].instance
           /\ left[i].step = reposCalls[i].step /\ left[i].answer = reposCalls[i].answer
           /\ left[i].rows = reposCalls[i].rows /\ left[i].newest = reposCalls[i].newest
    <2>1. \A call \in RepoCalls :
             /\ [call EXCEPT !.page = FALSE].request = call.request
             /\ [call EXCEPT !.page = FALSE].instance = call.instance
             /\ [call EXCEPT !.page = FALSE].step = call.step
             /\ [call EXCEPT !.page = FALSE].answer = call.answer
             /\ [call EXCEPT !.page = FALSE].rows = call.rows
             /\ [call EXCEPT !.page = FALSE].newest = call.newest
      <3> HIDE DEF RepoRequests, Answers, RepoSteps
      <3> QED
        BY DEF RepoCalls
    <2> QED
      BY <1>2, <2>1
  <1> HIDE DEF left
  <1>8. RepoTypes'
    <2>1. DOMAIN NoRepositories = {}
      BY DEF NoRepositories
    <2> QED
      BY <1>1, <1>6, <2>1 DEF RepoInv, RepoTypes
  <1>9. OneNewest'
    BY <1>1, <1>6, <1>7 DEF RepoInv, OneNewest
  <1>10. ASSUME ~ChangeUnderWay', ~reposFailed'
         PROVE  \A i \in DOMAIN reposCalls' : reposCalls'[i].newest => Claim(reposCalls[i])'
    <2>1. ~ChangeUnderWay /\ ~reposFailed
      BY <1>1, <1>6, <1>7, <1>10 DEF ChangeUnderWay, IsList
    <2>2. \A i \in DOMAIN reposCalls : reposCalls[i].newest => Claim(reposCalls[i])
      BY <2>1 DEF RepoInv, ReposSettle
    <2> QED
      BY <1>1, <1>6, <1>7, <2>2 DEF Claim, Lists, Follows
  <1>11. ReposSettle'
    BY <1>1, <1>10 DEF ReposSettle
  <1> QED
    BY <1>8, <1>9, <1>11 DEF RepoInv

\* The changes that are asked for.
LEMMA CreateStep ==
    ASSUME RepoInv, NEW repository \in Repositories, CreateRepository(repository)
    PROVE  RepoInv'
  <1> DEFINE request == CreateT4cRepository(reposInstance, repository)
  <1>1. reposInstance \in Instances
    BY DEF RepoInv, RepoTypes, CreateRepository
  <1>2. request \in RepoRequests /\ request # ListT4cRepositories(reposInstance)
    BY <1>1, RepoRequestsTell DEF RepoRequests
  <1>3. SendRepoCall(request, reposInstance, repository)
    BY DEF CreateRepository
  <1>4. UNCHANGED reposHeld
    BY DEF CreateRepository
  <1> HIDE DEF request
  <1> QED
    BY <1>1, <1>2, <1>3, <1>4, ChangeSent

\* Starting, stopping or recreating a repository sends a change.
LEMMA OperateStep ==
    ASSUME RepoInv, NEW repository \in DOMAIN reposHeld, OperateRepository(repository)
    PROVE  RepoInv'
  <1> DEFINE instance == InstanceOf(repository)
             request == Operations(instance, repository)[reposHeld[repository]]
  <1>1. repository \in Repositories
    BY DEF RepoInv, RepoTypes
  <1>2. instance \in Instances
    BY <1>1, InstanceOfRepository
  <1>3. reposHeld[repository] \in {"OFFLINE", "ONLINE", "NOT_FOUND"}
    BY DEF OperateRepository, Operations
  <1>4. SendRepoCall(request, instance, repository)
    BY DEF OperateRepository
  <1>5. DOMAIN reposHeld' = DOMAIN reposHeld
    BY DEF OperateRepository
  <1> HIDE DEF instance
  <1>6. \/ request = StartT4cRepository(instance, repository)
        \/ request = StopT4cRepository(instance, repository)
        \/ request = RecreateT4cRepository(instance, repository)
    BY <1>3 DEF Operations
  <1> HIDE DEF request
  <1>7. request \in RepoRequests /\ request # ListT4cRepositories(instance)
    BY <1>1, <1>2, <1>6, RepoRequestsTell DEF RepoRequests
  <1> QED
    BY <1>1, <1>2, <1>4, <1>5, <1>7, ChangeSent

\* Deleting a repository sends a change.
LEMMA RemoveStep ==
    ASSUME RepoInv, NEW repository \in DOMAIN reposHeld, RemoveRepository(repository)
    PROVE  RepoInv'
  <1> DEFINE instance == InstanceOf(repository)
             request == DeleteT4cRepository(instance, repository)
  <1>1. repository \in Repositories
    BY DEF RepoInv, RepoTypes
  <1>2. instance \in Instances
    BY <1>1, InstanceOfRepository
  <1>3. SendRepoCall(request, instance, repository)
    BY DEF RemoveRepository
  <1>4. UNCHANGED reposHeld
    BY DEF RemoveRepository
  <1> HIDE DEF instance
  <1>5. request \in RepoRequests /\ request # ListT4cRepositories(instance)
    BY <1>1, <1>2, RepoRequestsTell DEF RepoRequests
  <1> HIDE DEF request
  <1> QED
    BY <1>1, <1>2, <1>3, <1>4, <1>5, ChangeSent

\* A request that goes on, while the rows stay: a list reads what there is.
LEMMA CallAdvances ==
    ASSUME RepoInv, NEW i \in DOMAIN reposCalls, NEW new \in RepoCalls, Advance(i, new),
           new.request = reposCalls[i].request, new.instance = reposCalls[i].instance,
           new.newest = reposCalls[i].newest,
           UNCHANGED <<reposInstance, reposHeld, reposOutrun, reposFailed, reposRows, reposResynced>>,
           reposOnServer' \subseteq Repositories,
           new.newest /\ Claim(reposCalls[i]) => Claim(new)
    PROVE  RepoInv'
  <1>1. /\ reposCalls' \in Seq(RepoCalls) /\ DOMAIN reposCalls' = DOMAIN reposCalls
        /\ \A j \in DOMAIN reposCalls : reposCalls'[j] = IF j = i THEN new ELSE reposCalls[j]
    BY ReplacedElement DEF Advance, RepoInv, RepoTypes
  <1>2. RepoTypes'
    BY <1>1 DEF RepoInv, RepoTypes
  <1>3. \A j \in DOMAIN reposCalls : /\ IsList(reposCalls'[j]) <=> IsList(reposCalls[j])
                                     /\ reposCalls'[j].newest <=> reposCalls[j].newest
    BY <1>1 DEF IsList
  <1>4. OneNewest'
    BY <1>1, <1>3 DEF RepoInv, OneNewest
  <1>5. ASSUME ~ChangeUnderWay', ~reposFailed'
        PROVE  /\ \A j \in DOMAIN reposCalls' : reposCalls'[j].newest => Claim(reposCalls[j])'
               /\ \/ reposInstance' = NoInstance \/ reposOutrun' \/ Lists(reposHeld, reposInstance)'
                  \/ \E j \in DOMAIN reposCalls' : reposCalls'[j].newest
    <2>1. ~ChangeUnderWay /\ ~reposFailed
      BY <1>1, <1>3, <1>5 DEF ChangeUnderWay, IsList
    <2>2. /\ \A j \in DOMAIN reposCalls : reposCalls[j].newest => Claim(reposCalls[j])
          /\ \/ reposInstance = NoInstance \/ reposOutrun \/ Lists(reposHeld, reposInstance)
             \/ \E j \in DOMAIN reposCalls : reposCalls[j].newest
      BY <2>1 DEF RepoInv, ReposSettle
    <2>3. \A j \in DOMAIN reposCalls : reposCalls'[j].newest => Claim(reposCalls'[j])
      BY <1>1, <1>3, <2>2
    <2>4. \A j \in DOMAIN reposCalls' : reposCalls'[j].newest => Claim(reposCalls[j])'
      BY <1>1, <2>3 DEF Claim, Lists, Follows
    <2>5. Lists(reposHeld, reposInstance) => Lists(reposHeld, reposInstance)'
      BY DEF Lists, Follows
    <2> QED
      BY <1>1, <1>3, <2>2, <2>4, <2>5
  <1> QED
    BY <1>2, <1>4, <1>5 DEF RepoInv, ReposSettle

\* A change of a row is under way until its answer leads to a read.
LEMMA ChangeRowStep ==
    ASSUME RepoInv, NEW i \in DOMAIN reposCalls, ChangeRow(i)
    PROVE  RepoInv'
  <1> DEFINE call == reposCalls[i]
             new == [call EXCEPT !.step = "row"]
  <1>1. /\ ~IsList(call) /\ Advance(i, new)
        /\ UNCHANGED <<reposInstance, reposHeld, reposOutrun, reposFailed, reposOnServer, reposResynced>>
    BY DEF ChangeRow, pageOfRepos
  <1>2. reposRows' = CASE IsCreation(call) -> reposRows \cup {call.repository}
                       [] IsDeletion(call) -> reposRows \ {call.repository}
                       [] OTHER -> reposRows
    BY DEF ChangeRow
  <1>3. call \in RepoCalls /\ call.repository \in Repositories /\ (call.newest => IsList(call))
    BY <1>1, CallTypes DEF RepoInv
  <1>4. new \in RepoCalls /\ new.request = call.request /\ new.instance = call.instance /\ new.newest = call.newest
    <2>1. new \in RepoCalls
      BY <1>1, <1>3, CallKept
    <2> HIDE DEF RepoRequests, Answers, RepoSteps
    <2> QED
      BY <1>3, <2>1 DEF RepoCalls
  <1> HIDE DEF new, call
  <1>5. reposRows' \subseteq Repositories
    BY <1>2, <1>3 DEF RepoInv, RepoTypes
  <1>6. /\ reposCalls' \in Seq(RepoCalls) /\ DOMAIN reposCalls' = DOMAIN reposCalls
        /\ \A j \in DOMAIN reposCalls : reposCalls'[j] = IF j = i THEN new ELSE reposCalls[j]
    BY <1>1, <1>4, ReplacedElement DEF Advance, RepoInv, RepoTypes
  <1>7. RepoTypes'
    BY <1>1, <1>5, <1>6 DEF RepoInv, RepoTypes
  <1>8. OneNewest'
    BY <1>4, <1>6 DEF RepoInv, OneNewest, call
  <1>9. ChangeUnderWay'
    BY <1>1, <1>4, <1>6 DEF ChangeUnderWay, IsList
  <1> QED
    BY <1>7, <1>8, <1>9 DEF RepoInv, ReposSettle

\* The server is called for a change only.
LEMMA CallServerStep ==
    ASSUME RepoInv, NEW i \in DOMAIN reposCalls, CallServer(i)
    PROVE  RepoInv'
  <1> DEFINE call == reposCalls[i]
             new == [call EXCEPT !.step = "served"]
  <1>1. /\ call.step = "row" /\ Advance(i, new)
        /\ UNCHANGED <<reposInstance, reposHeld, reposOutrun, reposFailed, reposRows, reposResynced>>
    BY DEF CallServer, pageOfRepos
  <1>2. call \in RepoCalls /\ ~IsList(call) /\ call.repository \in Repositories /\ ~call.newest
    <2>1. call \in RepoCalls /\ (~IsList(call) => call.repository \in Repositories) /\ (call.newest => IsList(call))
      BY CallTypes DEF RepoInv
    <2>2. ~IsList(call)
      BY <1>1, <2>1 DEF RepoCalls
    <2> QED
      BY <2>1, <2>2
  <1>3. new \in RepoCalls /\ new.request = call.request /\ new.instance = call.instance /\ new.newest = call.newest
    <2> HIDE DEF RepoRequests, Answers
    <2> QED
      BY <1>2 DEF RepoCalls, RepoSteps, IsList
  <1> HIDE DEF new
  <1>4. reposOnServer' \subseteq Repositories
    BY <1>2 DEF CallServer, RepoInv, RepoTypes
  <1> QED
    BY <1>1, <1>2, <1>3, <1>4, CallAdvances

\* A list reads the rows, and then what the server says of them.
LEMMA ListReadStep ==
    ASSUME RepoInv, NEW i \in DOMAIN reposCalls, ReadRows(i) \/ ServerUnreachable(i) \/ ReadServer(i)
    PROVE  RepoInv'
  <1> DEFINE call == reposCalls[i]
  <1>1. /\ UNCHANGED <<reposInstance, reposHeld, reposOutrun, reposFailed, reposRows, reposResynced>>
        /\ reposOnServer' \subseteq Repositories
    BY DEF ReadRows, ServerUnreachable, ReadServer, pageOfRepos, backendOfRepos, RepoInv, RepoTypes
  <1>2. /\ call \in RepoCalls /\ call.rows \subseteq Repositories
        /\ reposRows \subseteq Repositories /\ reposOnServer \subseteq Repositories
    BY CallTypes DEF RepoInv, RepoTypes
  <1>3. CASE ReadRows(i)
    <2> DEFINE new == [call EXCEPT !.step = "rows", !.rows = reposRows \cap RepositoriesOf[call.instance]]
    <2>1. Advance(i, new)
      BY <1>3 DEF ReadRows
    <2>2. /\ IsList(call) /\ new \in RepoCalls /\ new.request = call.request /\ new.instance = call.instance
          /\ new.newest = call.newest /\ new.step = "rows" /\ new.rows = reposRows \cap RepositoriesOf[call.instance]
      <3>1. IsList(call)
        BY <1>3 DEF ReadRows
      <3> HIDE DEF RepoRequests, Answers
      <3> QED
        BY <1>2, <3>1 DEF RepoCalls, RepoSteps, IsList
    <2> HIDE DEF new
    <2>3. Claim(new)
      BY <2>2 DEF Claim, Follows
    <2> QED
      BY <1>1, <2>1, <2>2, <2>3, CallAdvances
  <1>4. CASE ServerUnreachable(i)
    <2> DEFINE answer == [repository \in call.rows |-> "INSTANCE_UNREACHABLE"]
               new == [call EXCEPT !.step = "served", !.answer = answer]
    <2>1. Advance(i, new) /\ call.step = "rows"
      BY <1>4 DEF ServerUnreachable
    <2>2. answer \in Answers
      <3>1. answer \in [call.rows -> Statuses]
        BY DEF Statuses
      <3> QED
        BY <1>2, <3>1 DEF Answers
    <2>3. DOMAIN answer = call.rows /\ \A repository \in DOMAIN answer : answer[repository] # "LOADING"
      OBVIOUS
    <2> HIDE DEF answer
    <2>4. /\ new \in RepoCalls /\ new.request = call.request /\ new.instance = call.instance
          /\ new.newest = call.newest /\ new.step = "served" /\ new.answer = answer
      <3> HIDE DEF RepoRequests, Answers
      <3> QED
        BY <1>2, <2>2 DEF RepoCalls, RepoSteps, IsList
    <2> HIDE DEF new
    <2>5. Claim(call) => Claim(new)
      BY <2>1, <2>3, <2>4 DEF Claim, Lists
    <2> QED
      BY <1>1, <2>1, <2>4, <2>5, CallAdvances
  <1>5. CASE ReadServer(i)
    <2> DEFINE new == [call EXCEPT !.step = "server", !.server = reposOnServer \cap RepositoriesOf[call.instance]]
    <2>1. Advance(i, new) /\ call.step = "rows"
      BY <1>5 DEF ReadServer
    <2>2. /\ new \in RepoCalls /\ new.request = call.request /\ new.instance = call.instance
          /\ new.newest = call.newest /\ new.step = "server" /\ new.rows = call.rows
      <3> HIDE DEF RepoRequests, Answers
      <3> QED
        BY <1>2 DEF RepoCalls, RepoSteps, IsList
    <2> HIDE DEF new
    <2>3. Claim(call) => Claim(new)
      BY <2>1, <2>2 DEF Claim
    <2> QED
      BY <1>1, <2>1, <2>2, <2>3, CallAdvances
  <1> QED
    BY <1>3, <1>4, <1>5

\* A list inserts rows: the newest one lists them, an older one is recorded.
LEMMA SyncRowsStep ==
    ASSUME RepoInv, NEW i \in DOMAIN reposCalls, SyncRows(i)
    PROVE  RepoInv'
  <1> DEFINE call == reposCalls[i]
             missing == call.server \ call.rows
  <1>1. /\ call.step = "server"
        /\ UNCHANGED <<reposInstance, reposHeld, reposOutrun, reposFailed, reposOnServer>>
    BY DEF SyncRows, pageOfRepos
  <1>2. /\ call \in RepoCalls /\ call.rows \cup call.server \subseteq RepositoriesOf[call.instance]
        /\ call.rows \subseteq Repositories /\ call.server \subseteq Repositories
        /\ call.newest \in BOOLEAN /\ reposRows \subseteq Repositories /\ reposResynced \in BOOLEAN
    BY CallTypes DEF RepoInv, RepoTypes
  <1>3. PICK inserted \in SUBSET (missing \ reposRows) :
           /\ reposRows' = reposRows \cup inserted
           /\ reposResynced' = (reposResynced \/ (inserted # {} /\ ~call.newest /\ ~NewestUnread))
           /\ IF inserted = missing
              THEN \E answer \in StatusesOf(call) : Advance(i, [call EXCEPT !.step = "served", !.answer = answer])
              ELSE Advance(i, [call EXCEPT !.step = "error"])
    BY DEF SyncRows
  <1>4. PICK new \in RepoCalls :
           /\ Advance(i, new)
           /\ new.request = call.request /\ new.instance = call.instance /\ new.newest = call.newest
           /\ \/ new.step = "error"
              \/ /\ new.step = "served" /\ inserted = missing /\ DOMAIN new.answer = call.rows \cup call.server
                 /\ \A repository \in DOMAIN new.answer : new.answer[repository] # "LOADING"
    <2>1. CASE inserted = missing
      <3>1. PICK answer \in StatusesOf(call) : Advance(i, [call EXCEPT !.step = "served", !.answer = answer])
        BY <1>3, <2>1
      <3>2. answer \in [call.rows \cup call.server -> ServerStatuses \cup {"NOT_FOUND"}]
        BY DEF StatusesOf
      <3>3. /\ DOMAIN answer = call.rows \cup call.server
            /\ \A repository \in DOMAIN answer : answer[repository] \in ServerStatuses \cup {"NOT_FOUND"}
        BY <3>2
      <3>4. \A repository \in DOMAIN answer : answer[repository] # "LOADING"
        BY <3>3 DEF ServerStatuses
      <3>5. answer \in Answers
        <4>1. ServerStatuses \cup {"NOT_FOUND"} \subseteq Statuses
          BY DEF Statuses
        <4>2. answer \in [call.rows \cup call.server -> Statuses] /\ call.rows \cup call.server \in SUBSET Repositories
          BY <1>2, <3>2, <4>1
        <4> QED
          BY <4>2 DEF Answers
      <3> DEFINE new == [call EXCEPT !.step = "served", !.answer = answer]
      <3>6. /\ new \in RepoCalls /\ new.request = call.request /\ new.instance = call.instance
            /\ new.newest = call.newest /\ new.step = "served" /\ new.answer = answer
        <4> HIDE DEF RepoRequests, Answers
        <4> QED
          BY <1>2, <3>5 DEF RepoCalls, RepoSteps, IsList
      <3>7. Advance(i, new)
        BY <3>1
      <3> HIDE DEF new, missing, call
      <3> QED
        BY <2>1, <3>3, <3>4, <3>6, <3>7
    <2>2. CASE inserted # missing
      <3> DEFINE new == [call EXCEPT !.step = "error"]
      <3>1. Advance(i, new)
        BY <1>3, <2>2
      <3>2. /\ new \in RepoCalls /\ new.request = call.request /\ new.instance = call.instance
            /\ new.newest = call.newest /\ new.step = "error"
        <4> HIDE DEF RepoRequests, Answers
        <4> QED
          BY <1>2 DEF RepoCalls, RepoSteps, IsList
      <3> HIDE DEF new
      <3> QED
        BY <3>1, <3>2
    <2> QED
      BY <2>1, <2>2
  <1>5. /\ reposCalls' \in Seq(RepoCalls) /\ DOMAIN reposCalls' = DOMAIN reposCalls
        /\ \A j \in DOMAIN reposCalls : reposCalls'[j] = IF j = i THEN new ELSE reposCalls[j]
    BY <1>4, ReplacedElement DEF Advance, RepoInv, RepoTypes
  <1>6. RepoTypes'
    <2>1. reposRows' \subseteq Repositories
      BY <1>2, <1>3
    <2>2. reposResynced' \in BOOLEAN
      BY <1>3
    <2> QED
      BY <1>1, <1>5, <2>1, <2>2 DEF RepoInv, RepoTypes
  <1>7. \A j \in DOMAIN reposCalls : /\ IsList(reposCalls'[j]) <=> IsList(reposCalls[j])
                                     /\ reposCalls'[j].newest <=> reposCalls[j].newest
    BY <1>4, <1>5 DEF IsList
  <1>8. OneNewest'
    BY <1>5, <1>7 DEF RepoInv, OneNewest
  <1>9. SUFFICES ASSUME ~ChangeUnderWay', ~reposFailed'
                 PROVE  /\ \A j \in DOMAIN reposCalls' : reposCalls'[j].newest => Claim(reposCalls[j])'
                        /\ \/ reposInstance' = NoInstance \/ reposOutrun' \/ Lists(reposHeld, reposInstance)'
                           \/ \E j \in DOMAIN reposCalls' : reposCalls'[j].newest
    BY <1>6, <1>8 DEF RepoInv, ReposSettle
  <1>10. /\ \A j \in DOMAIN reposCalls : reposCalls[j].newest => Claim(reposCalls[j])
         /\ \/ reposInstance = NoInstance \/ reposOutrun \/ Lists(reposHeld, reposInstance)
            \/ \E j \in DOMAIN reposCalls : reposCalls[j].newest
    <2>1. ~ChangeUnderWay /\ ~reposFailed
      BY <1>1, <1>5, <1>7, <1>9 DEF ChangeUnderWay, IsList
    <2> QED
      BY <2>1 DEF RepoInv, ReposSettle
  \* The rows that were known stay known, and only what is recorded is new.
  <1>11. ASSUME NEW listed, NEW instance, Follows(listed, instance), reposResynced' \/ inserted = {}
         PROVE  Follows(listed, instance)'
    BY <1>3, <1>11 DEF Follows
  <1>12. ASSUME ~call.newest, ~NewestUnread
         PROVE  reposResynced' \/ inserted = {}
    BY <1>3, <1>12
  <1>13. ASSUME NEW j \in DOMAIN reposCalls', reposCalls'[j].newest
         PROVE  Claim(reposCalls[j])'
    <2>1. CASE j = i /\ new.step = "error"
      BY <1>5, <2>1 DEF Claim
    <2>2. CASE j = i /\ new.step = "served"
      <3>1. Follows(call.rows, call.instance)
        BY <1>1, <1>5, <1>7, <1>10, <1>13, <2>2 DEF Claim
      <3>2. /\ inserted = missing /\ DOMAIN new.answer = call.rows \cup call.server
            /\ \A repository \in DOMAIN new.answer : new.answer[repository] # "LOADING"
        BY <1>4, <2>2
      <3>3. DOMAIN new.answer \subseteq reposRows' \cap RepositoriesOf[call.instance]
        BY <1>2, <1>3, <3>1, <3>2 DEF Follows
      <3>4. ~reposResynced' => reposRows' \cap RepositoriesOf[call.instance] \subseteq DOMAIN new.answer
        BY <1>3, <3>1, <3>2 DEF Follows
      <3> QED
        BY <1>4, <1>5, <2>2, <3>2, <3>3, <3>4 DEF Claim, Lists, Follows
    <2>3. CASE j # i
      <3>1. j \in DOMAIN reposCalls /\ reposCalls[j].newest /\ reposCalls'[j] = reposCalls[j] /\ Claim(reposCalls[j])
        BY <1>5, <1>7, <1>10, <1>13, <2>3
      <3>2. ~call.newest /\ (NewestUnread => reposCalls[j].step = "sent")
        BY <1>5, <2>3, <3>1 DEF RepoInv, OneNewest, NewestUnread
      <3>3. CASE reposCalls[j].step = "sent"
        BY <3>1, <3>3 DEF Claim
      <3>4. CASE ~NewestUnread
        <4>1. reposResynced' \/ inserted = {}
          BY <1>12, <3>2, <3>4
        <4> QED
          BY <1>3, <3>1, <4>1 DEF Claim, Lists, Follows
      <3> QED
        BY <3>2, <3>3, <3>4
    <2> QED
      BY <1>4, <2>1, <2>2, <2>3
  <1>14. CASE \E j \in DOMAIN reposCalls : reposCalls[j].newest
    BY <1>5, <1>7, <1>13, <1>14
  <1>15. CASE ~\E j \in DOMAIN reposCalls : reposCalls[j].newest
    <2>1. reposResynced' \/ inserted = {}
      BY <1>12, <1>15 DEF NewestUnread
    <2>2. Lists(reposHeld, reposInstance) => Lists(reposHeld, reposInstance)'
      BY <1>1, <1>3, <2>1 DEF Lists, Follows
    <2> QED
      BY <1>1, <1>10, <1>13, <1>15, <2>2
  <1> QED
    BY <1>14, <1>15

\* A list replaces the one that is held.
LEMMA ListedStep ==
    ASSUME RepoInv, NEW i \in DOMAIN reposCalls, ReposListed(i)
    PROVE  RepoInv'
  <1> DEFINE rest == RemoveAt(reposCalls, i)
             call == reposCalls[i]
  <1>1. /\ reposCalls' = rest /\ reposHeld' = call.answer
        /\ UNCHANGED <<reposInstance, reposRows, reposOnServer, reposResynced, reposFailed>>
    BY DEF ReposListed, backendOfRepos
  <1>2. /\ rest \in Seq(RepoCalls) /\ OneNewest'
        /\ \A j \in DOMAIN rest : \E k \in DOMAIN reposCalls \ {i} : rest[j] = reposCalls[k]
        /\ \A k \in DOMAIN reposCalls \ {i} : \E j \in DOMAIN rest : rest[j] = reposCalls[k]
    BY <1>1, CallTaken
  <1>3. IsList(call) /\ call.step = "served"
    BY DEF ReposListed
  <1>4. (~call.newest \/ call.instance # reposInstance) => reposOutrun'
    BY DEF ReposListed
  <1>5. call.newest \in BOOLEAN /\ DOMAIN call.answer \subseteq Repositories
    BY CallTypes DEF RepoInv
  <1>6. reposOutrun' \in BOOLEAN
    BY DEF ReposListed
  <1> HIDE DEF rest
  <1>7. RepoTypes'
    BY <1>1, <1>2, <1>5, <1>6 DEF RepoInv, RepoTypes
  <1>8. SUFFICES ASSUME ~ChangeUnderWay', ~reposFailed'
                 PROVE  ReposSettle'
    BY <1>2, <1>7 DEF RepoInv, ReposSettle
  <1>9. ~ChangeUnderWay /\ ~reposFailed
    <2>1. ~reposFailed
      BY <1>1, <1>8
    <2>2. \A k \in DOMAIN reposCalls : IsList(reposCalls[k])
      BY <1>1, <1>2, <1>3, <1>8 DEF ChangeUnderWay, IsList
    <2> QED
      BY <2>1, <2>2 DEF ChangeUnderWay
  <1>10. \A k \in DOMAIN reposCalls : reposCalls[k].newest => Claim(reposCalls[k])
    BY <1>9 DEF RepoInv, ReposSettle
  <1>11. \A j \in DOMAIN reposCalls' : reposCalls'[j].newest => Claim(reposCalls[j])'
    BY <1>1, <1>2, <1>10 DEF Claim, Lists, Follows
  <1>12. reposOutrun' \/ Lists(reposHeld, reposInstance)'
    <2>1. CASE call.newest /\ call.instance = reposInstance
      <3>1. Lists(call.answer, reposInstance)
        BY <1>3, <1>10, <2>1 DEF Claim
      <3> QED
        BY <1>1, <3>1 DEF Lists, Follows
    <2>2. CASE ~(call.newest /\ call.instance = reposInstance)
      BY <1>4, <2>2
    <2> QED
      BY <2>1, <2>2
  <1> QED
    BY <1>11, <1>12 DEF ReposSettle

\* A read that fails is recorded.
LEMMA ListFailedStep ==
    ASSUME RepoInv, NEW i \in DOMAIN reposCalls, ListFailed(i)
    PROVE  RepoInv'
  <1>1. RemoveAt(reposCalls, i) \in Seq(RepoCalls) /\ OneNewest'
    BY CallTaken DEF ListFailed
  <1>2. RepoTypes'
    BY <1>1 DEF RepoInv, RepoTypes, ListFailed, NoRepositories, backendOfRepos
  <1>3. reposFailed'
    BY DEF ListFailed
  <1> QED
    BY <1>1, <1>2, <1>3 DEF RepoInv, ReposSettle

\* A change has ended: its list is read again, or the failure is noted.
LEMMA ChangeEndsStep ==
    ASSUME RepoInv, NEW i \in DOMAIN reposCalls, NEW succeeded \in BOOLEAN, ChangeEnds(i, succeeded)
    PROVE  RepoInv'
  <1> DEFINE call == reposCalls[i]
             rest == RemoveAt(reposCalls, i)
             loads == LoadsAfter(call, succeeded)
  <1>1. rest \in Seq(RepoCalls)
    BY CallTaken
  <1>2. call.instance \in Instances
    BY CallTypes DEF RepoInv
  <1>3. loads \in Nat
    BY DEF LoadsAfter
  <1>4. UNCHANGED <<reposInstance, reposHeld, reposOutrun>>
    BY DEF ChangeEnds
  <1>5. IF loads > 0 THEN LoadRepositories(call.instance, rest, loads)
                     ELSE /\ reposCalls' = rest /\ reposFailed' = (reposFailed \/ ~succeeded)
                          /\ UNCHANGED <<reposRows, reposOnServer, reposResynced>>
    BY DEF ChangeEnds, backendOfRepos
  <1>6. CASE loads > 0
    <2>1. LoadRepositories(call.instance, rest, loads)
      BY <1>5, <1>6
    <2>2. loads \in Nat \ {0}
      BY <1>3, <1>6
    <2>3. /\ reposInstance' \in Instances \cup {NoInstance} /\ UNCHANGED reposOutrun
          /\ DOMAIN reposHeld' = DOMAIN reposHeld
      BY <1>4 DEF RepoInv, RepoTypes
    <2> HIDE DEF call, rest, loads
    <2> QED
      BY <1>1, <1>2, <2>1, <2>2, <2>3, LoadedSettles
  <1>7. CASE ~(loads > 0)
    <2>1. ~succeeded
      BY <1>7 DEF LoadsAfter
    <2>2. reposCalls' = rest /\ reposFailed' = TRUE /\ UNCHANGED <<reposRows, reposOnServer, reposResynced>>
      BY <1>5, <1>7, <2>1
    <2>3. OneNewest'
      BY <2>2, CallTaken
    <2> HIDE DEF rest, loads, call
    <2>4. RepoTypes'
      BY <1>1, <1>4, <2>2 DEF RepoInv, RepoTypes
    <2> QED
      BY <2>2, <2>3, <2>4 DEF RepoInv, ReposSettle
  <1> QED
    BY <1>6, <1>7

\* Nothing the settling of the page depends on is lost: the changes under way, the newest
\* read, the rows an older one inserted and the failures account for every difference
\* between the page and the database.
THEOREM RepositoriesInvariant == ReposSpec => []RepoInv
  <1>1. ReposInit => RepoInv
    <2> SUFFICES ASSUME ReposInit
                 PROVE  RepoInv
      OBVIOUS
    <2>1. RepoTypes
      <3>1. DOMAIN NoRepositories = {}
        BY DEF NoRepositories
      <3>2. reposCalls \in Seq(RepoCalls)
        BY EmptySeq DEF ReposInit
      <3> QED
        BY <3>1, <3>2 DEF ReposInit, RepoTypes
    <2>2. ReposSettle /\ OneNewest
      BY DEF ReposInit, ReposSettle, OneNewest
    <2> QED
      BY <2>1, <2>2 DEF RepoInv
  <1>2. RepoInv /\ [ReposNext]_reposVars => RepoInv'
    <2> SUFFICES ASSUME RepoInv, [ReposNext]_reposVars
                 PROVE  RepoInv'
      OBVIOUS
    <2>1. CASE UNCHANGED reposVars
      BY <2>1 DEF reposVars, pageOfRepos, backendOfRepos, RepoInv, RepoTypes, OneNewest, ReposSettle,
                  ChangeUnderWay, Claim, Lists, Follows
    <2>2. ASSUME NEW instance \in Instances, ChooseInstance(instance)
          PROVE  RepoInv'
      BY <2>2, ChooseStep
    <2>3. CASE LeaveInstance
      BY <2>3, LeaveStep
    <2>4. CASE RefreshRepositories
      BY <2>4, RefreshStep
    <2>5. ASSUME NEW repository \in Repositories, CreateRepository(repository)
          PROVE  RepoInv'
      BY <2>5, CreateStep
    <2>6. ASSUME NEW repository \in DOMAIN reposHeld,
                 OperateRepository(repository) \/ RemoveRepository(repository)
          PROVE  RepoInv'
      BY <2>6, OperateStep, RemoveStep
    <2>7. ASSUME NEW i \in DOMAIN reposCalls,
                 \/ ChangeRow(i) \/ CallServer(i)
                 \/ ReadRows(i) \/ ServerUnreachable(i) \/ ReadServer(i) \/ SyncRows(i)
                 \/ ReposListed(i) \/ ListFailed(i) \/ ChangeEnds(i, TRUE) \/ ChangeEnds(i, FALSE)
          PROVE  RepoInv'
      BY <2>7, ChangeRowStep, CallServerStep, ListReadStep, SyncRowsStep, ListedStep, ListFailedStep, ChangeEndsStep
    <2> QED
      BY <2>1, <2>2, <2>3, <2>4, <2>5, <2>6, <2>7 DEF ReposNext
  <1> QED
    BY <1>1, <1>2, PTL DEF ReposSpec

\* A page of an instance that has all its answers and met no failure lists what the
\* database has, whatever deletions failed halfway and whatever the server says, and all
\* of it unless an older list inserted rows.
THEOREM QuietRepositoriesAreSettled == ReposSpec => []QuietRepositoriesSettle
  <1>1. RepoInv => QuietRepositoriesSettle
    <2> SUFFICES ASSUME RepoInv, reposCalls = <<>>, reposInstance # NoInstance, ~reposOutrun, ~reposFailed
                 PROVE  Lists(reposHeld, reposInstance)
      BY DEF QuietRepositoriesSettle, Lists, Follows
    <2>1. ~ChangeUnderWay /\ ~\E i \in DOMAIN reposCalls : reposCalls[i].newest
      BY DEF ChangeUnderWay
    <2> QED
      BY <2>1 DEF RepoInv, ReposSettle
  <1> QED
    BY <1>1, RepositoriesInvariant, PTL

-----------------------------------------------------------------------------
(* The versions or natures of a tool *)

ElementRecords == [id : Elements, revision : Nat]
ElementRequests(kind) ==
    {Of(kind).default, Of(kind).list}
    \cup UNION {{Of(kind).create[element], Of(kind).update[element], Of(kind).delete[element]} : element \in Elements}

\* A change is of an element, and the answer to it is the element at a revision.
AnswersWith(call, revision) == call.answer = <<[id |-> call.element, revision |-> revision]>>
ElementCalls(kind) ==
    {call \in [request : ElementRequests(kind), element : Elements \cup {Tool}, page : BOOLEAN, served : BOOLEAN,
               answer : Seq(ElementRecords)] :
        /\ call.request.verb # "GET" => call.element \in Elements
        /\ call.served /\ call.request.verb = "POST" => AnswersWith(call, 0)
        /\ call.served /\ call.request.verb = "PUT" => \E revision \in Nat : AnswersWith(call, revision)}

ElementRevisions == [Elements -> Nat \cup {Unborn, Deleted}]
ElementTypes ==
    /\ elementsKind \in {"versions", "natures"}
    /\ elementsOpen \in BOOLEAN /\ elementsLoaded \in BOOLEAN
    /\ elementsDefault \in BOOLEAN /\ elementsSpoiled \in BOOLEAN
    /\ elementsShown \in Seq(ElementRecords)
    /\ elementsData \in ElementRevisions
    /\ elementsCalls \in Seq(ElementCalls(elementsKind))

\* A page that is closed shows nothing and waits for nothing.
ClosedIsEmpty ==
    ~elementsOpen =>
        /\ elementsShown = <<>> /\ ~elementsLoaded
        /\ \A i \in DOMAIN elementsCalls : ~elementsCalls[i].page

\* What pages before this one have changed was changed before this one has opened.
StraysAreServed(calls) ==
    \A i \in DOMAIN calls : ~calls[i].page /\ ~IsElementRead(calls[i]) => calls[i].served

\* Each element is there once.
Once(shown) == \A i, k \in DOMAIN shown : shown[i].id = shown[k].id => i = k
Shows(shown, element) == \E i \in DOMAIN shown : shown[i].id = element

\* The elements as they are now.
ShowsExisting(shown, data) ==
    /\ Once(shown)
    /\ \A i \in DOMAIN shown : data[shown[i].id] = shown[i].revision
    /\ \A element \in Elements : data[element] >= 0 => Shows(shown, element)

\* Before the list has come, the page asks for it once and changes nothing.
AsksForList(call, list) == call.page /\ call.request = list
ListIsExpected(shown, calls, data, list) ==
    /\ shown = <<>>
    /\ \A i \in DOMAIN calls : calls[i].page => IsElementRead(calls[i])
    /\ \E i \in DOMAIN calls : AsksForList(calls[i], list)
    /\ \A i, k \in DOMAIN calls : AsksForList(calls[i], list) /\ AsksForList(calls[k], list) => i = k
    /\ \A i \in DOMAIN calls :
          AsksForList(calls[i], list) /\ calls[i].served => ShowsExisting(calls[i].answer, data)

\* An answer to a change of the page that is on its way.
Comes(call, verb, element) ==
    call.page /\ call.served /\ call.request.verb = verb /\ call.element = element
IsCreated(calls, element) == \E i \in DOMAIN calls : Comes(calls[i], "POST", element)
IsUpdated(calls, element, revision) ==
    \E i \in DOMAIN calls : Comes(calls[i], "PUT", element) /\ AnswersWith(calls[i], revision)
IsDeleted(calls, element) == \E i \in DOMAIN calls : Comes(calls[i], "DELETE", element)

\* An element that is shown is as the backend has it, or will be patched.
WillBeRight(one, calls, data) ==
    \/ data[one.id] = one.revision
    \/ data[one.id] > one.revision /\ IsUpdated(calls, one.id, data[one.id])
    \/ data[one.id] = Deleted /\ IsDeleted(calls, one.id)

\* What a change of the page that is under way says of its element.
ChangeFits(call, shown, data) ==
    /\ call.request.verb \in {"PUT", "DELETE"} => Shows(shown, call.element) \/ data[call.element] = Deleted
    /\ call.served /\ call.request.verb = "POST" => data[call.element] = 0 /\ ~Shows(shown, call.element)
    /\ call.served /\ call.request.verb = "PUT" =>
          data[call.element] = Deleted \/ \E revision \in Nat : revision <= data[call.element] /\ AnswersWith(call, revision)
    /\ call.served /\ call.request.verb = "DELETE" => data[call.element] = Deleted
CallFits(call, shown, data, list) ==
    call.page => call.request # list /\ (~IsElementRead(call) => ChangeFits(call, shown, data))

\* Once the list has come, the answers that are on their way make it right.
CreatedOnce(calls) ==
    \A i, k \in DOMAIN calls :
        Comes(calls[i], "POST", calls[i].element) /\ Comes(calls[k], "POST", calls[i].element) => i = k
ListIsPatched(shown, calls, data, list) ==
    /\ Once(shown)
    /\ \A i \in DOMAIN shown : WillBeRight(shown[i], calls, data)
    /\ \A element \in Elements : data[element] >= 0 => Shows(shown, element) \/ IsCreated(calls, element)
    /\ \A i \in DOMAIN calls : CallFits(calls[i], shown, data, list)
    /\ CreatedOnce(calls)

ElementsAreRight(shown, calls, data, list, loaded) ==
    /\ StraysAreServed(calls)
    /\ ~loaded => ListIsExpected(shown, calls, data, list)
    /\ loaded => ListIsPatched(shown, calls, data, list)

ElementsInv ==
    /\ ElementTypes
    /\ ClosedIsEmpty
    /\ elementsOpen /\ ~elementsSpoiled =>
          ElementsAreRight(elementsShown, elementsCalls, elementsData, Of(elementsKind).list, elementsLoaded)

\* The requests of a page are told apart by their verbs, and the reads by what they
\* are about.
LEMMA ElementRequestsTell ==
    ASSUME NEW kind
    PROVE  /\ Of(kind).default.verb = "GET" /\ Of(kind).list.verb = "GET" /\ Of(kind).default # Of(kind).list
           /\ \A element \in Elements :
                 /\ Of(kind).create[element].verb = "POST" /\ Of(kind).update[element].verb = "PUT"
                 /\ Of(kind).delete[element].verb = "DELETE"
  BY DEF Of, VersionRequests, NatureRequests, GetDefaultToolVersion, GetToolVersions, CreateToolVersion,
         UpdateToolVersion, DeleteToolVersion, GetDefaultToolNature, GetToolNatures, CreateToolNature,
         UpdateToolNature, DeleteToolNature, Request

\* What is known of a request under way.
LEMMA ElementCallFields ==
    ASSUME NEW kind, NEW call \in ElementCalls(kind)
    PROVE  /\ call.request \in ElementRequests(kind) /\ call.request.verb \in {"GET", "POST", "PUT", "DELETE"}
           /\ call.request.verb # "GET" => call.element \in Elements
           /\ call.element \in Elements \cup {Tool}
           /\ call.page \in BOOLEAN /\ call.served \in BOOLEAN /\ call.answer \in Seq(ElementRecords)
           /\ call.served /\ call.request.verb = "POST" => AnswersWith(call, 0)
           /\ call.served /\ call.request.verb = "PUT" => \E revision \in Nat : AnswersWith(call, revision)
  BY ElementRequestsTell DEF ElementCalls, ElementRequests

\* A request that is sent.
LEMMA ElementCallSent ==
    ASSUME NEW kind, NEW request \in ElementRequests(kind), NEW element \in Elements \cup {Tool},
           request.verb # "GET" => element \in Elements
    PROVE  /\ ElementCall(request, element) \in ElementCalls(kind)
           /\ ElementCall(request, element).page /\ ~ElementCall(request, element).served
           /\ ElementCall(request, element).request = request /\ ElementCall(request, element).element = element
  BY EmptySeq DEF ElementCall, ElementCalls

\* A request that is served.
WithAnswer(call, answer) == [call EXCEPT !.served = TRUE, !.answer = answer]

\* Serving a request changes what it answers and nothing of what it asks.
LEMMA ElementCallServed ==
    ASSUME NEW kind, NEW call \in ElementCalls(kind), NEW answer \in Seq(ElementRecords),
           call.request.verb = "POST" => answer = <<[id |-> call.element, revision |-> 0]>>,
           call.request.verb = "PUT" => \E revision \in Nat : answer = <<[id |-> call.element, revision |-> revision]>>
    PROVE  /\ WithAnswer(call, answer) \in ElementCalls(kind)
           /\ WithAnswer(call, answer).request = call.request /\ WithAnswer(call, answer).element = call.element
           /\ WithAnswer(call, answer).page = call.page /\ WithAnswer(call, answer).served
           /\ WithAnswer(call, answer).answer = answer
  BY DEF WithAnswer, ElementCalls, AnswersWith

\* Requests that come and go make no difference to the list, if no answer to a change is
\* lost and what is new fits.
LEMMA OtherCallsAreRight ==
    ASSUME NEW shown, NEW calls, NEW data, NEW list, NEW left,
           ListIsPatched(shown, calls, data, list),
           \A i \in DOMAIN calls : calls[i].page /\ calls[i].served /\ ~IsElementRead(calls[i]) =>
               \E j \in DOMAIN left : left[j] = calls[i],
           \A j \in DOMAIN left : CallFits(left[j], shown, data, list),
           CreatedOnce(left)
    PROVE  ListIsPatched(shown, left, data, list)
  <1>1. ASSUME NEW element, IsCreated(calls, element)
        PROVE  IsCreated(left, element)
    BY <1>1 DEF IsCreated, Comes, IsElementRead
  <1>2. ASSUME NEW element, NEW revision, IsUpdated(calls, element, revision)
        PROVE  IsUpdated(left, element, revision)
    BY <1>2 DEF IsUpdated, Comes, IsElementRead
  <1>3. ASSUME NEW element, IsDeleted(calls, element)
        PROVE  IsDeleted(left, element)
    BY <1>3 DEF IsDeleted, Comes, IsElementRead
  <1>4. \A i \in DOMAIN shown : WillBeRight(shown[i], left, data)
    BY <1>2, <1>3 DEF WillBeRight, ListIsPatched
  <1> QED
    BY <1>1, <1>4 DEF ListIsPatched

\* A request of the page that is sent, and one that changed nothing of the page and is gone.
LEMMA ElementSent ==
    ASSUME NEW shown, NEW kind, NEW calls \in Seq(ElementCalls(kind)), NEW data, NEW list, NEW call \in ElementCalls(kind),
           ListIsPatched(shown, calls, data, list), ~call.served, call.page,
           CallFits(call, shown, data, list)
    PROVE  ListIsPatched(shown, Append(calls, call), data, list)
  <1> DEFINE more == Append(calls, call)
  <1>1. /\ DOMAIN more = 1 .. Len(calls) + 1 /\ DOMAIN calls = 1 .. Len(calls) /\ Len(calls) \in Nat
        /\ \A i \in DOMAIN calls : i \in DOMAIN more /\ more[i] = calls[i]
        /\ more[Len(calls) + 1] = call
        /\ \A i \in DOMAIN more : more[i] = call \/ (i \in DOMAIN calls /\ more[i] = calls[i])
    BY Appended
  <1> HIDE DEF more
  <1>2. \A i \in DOMAIN more : CallFits(more[i], shown, data, list)
    BY <1>1 DEF ListIsPatched
  <1>3. CreatedOnce(more)
    BY <1>1 DEF ListIsPatched, CreatedOnce, Comes
  <1>4. ListIsPatched(shown, more, data, list)
    BY <1>1, <1>2, <1>3, OtherCallsAreRight
  <1> QED
    BY <1>4 DEF more

\* A request that is gone leaves those that are created apart.
LEMMA CreatedStay ==
    ASSUME NEW kind, NEW calls \in Seq(ElementCalls(kind)), NEW k \in DOMAIN calls, CreatedOnce(calls)
    PROVE  CreatedOnce(RemoveAt(calls, k))
  <1> DEFINE left == RemoveAt(calls, k)
  <1> SUFFICES ASSUME NEW i \in DOMAIN left, NEW j \in DOMAIN left, i # j,
                      Comes(left[i], "POST", left[i].element), Comes(left[j], "POST", left[i].element)
               PROVE  FALSE
    BY DEF CreatedOnce
  <1>1. \E a, b \in DOMAIN calls \ {k} : a # b /\ left[i] = calls[a] /\ left[j] = calls[b]
    BY RemovedApart
  <1> HIDE DEF left
  <1> QED
    BY <1>1 DEF CreatedOnce

\* A request that is gone makes no difference to the list, if no change that took effect
\* is lost.
LEMMA ElementLeft ==
    ASSUME NEW shown, NEW kind, NEW calls \in Seq(ElementCalls(kind)), NEW data, NEW list, NEW k \in DOMAIN calls,
           ListIsPatched(shown, calls, data, list),
           ~(calls[k].page /\ calls[k].served /\ ~IsElementRead(calls[k]))
    PROVE  ListIsPatched(shown, RemoveAt(calls, k), data, list)
  <1> DEFINE left == RemoveAt(calls, k)
  <1>1. /\ \A j \in DOMAIN left : \E i \in DOMAIN calls \ {k} : left[j] = calls[i]
        /\ \A i \in DOMAIN calls \ {k} : \E j \in DOMAIN left : left[j] = calls[i]
    BY RemovedElements
  <1>2. CreatedOnce(left)
    BY CreatedStay DEF ListIsPatched
  <1> HIDE DEF left
  <1>3. \A j \in DOMAIN left : CallFits(left[j], shown, data, list)
    BY <1>1 DEF ListIsPatched
  <1>4. ListIsPatched(shown, left, data, list)
    BY <1>1, <1>2, <1>3, OtherCallsAreRight
  <1> QED
    BY <1>4 DEF left

\* A read that is served makes no difference to a list that has come.
LEMMA ReadServed ==
    ASSUME NEW shown, NEW kind, NEW calls \in Seq(ElementCalls(kind)), NEW data, NEW list, NEW k \in DOMAIN calls,
           NEW done \in ElementCalls(kind),
           ListIsPatched(shown, calls, data, list), IsElementRead(calls[k]),
           done.request = calls[k].request, done.page = calls[k].page
    PROVE  ListIsPatched(shown, [calls EXCEPT ![k] = done], data, list)
  <1> DEFINE after == [calls EXCEPT ![k] = done]
  <1>1. DOMAIN after = DOMAIN calls /\ \A j \in DOMAIN calls : after[j] = IF j = k THEN done ELSE calls[j]
    BY ReplacedElement
  <1> HIDE DEF after
  <1>2. IsElementRead(done) /\ CallFits(done, shown, data, list)
    BY DEF IsElementRead, CallFits, ListIsPatched
  <1>3. \A j \in DOMAIN after : CallFits(after[j], shown, data, list)
    BY <1>1, <1>2 DEF ListIsPatched
  <1>4. CreatedOnce(after)
    BY <1>1, <1>2 DEF CreatedOnce, Comes, IsElementRead, ListIsPatched
  <1>5. \A i \in DOMAIN calls : calls[i].page /\ calls[i].served /\ ~IsElementRead(calls[i]) =>
            \E j \in DOMAIN after : after[j] = calls[i]
    BY <1>1
  <1>6. ListIsPatched(shown, after, data, list)
    BY <1>3, <1>4, <1>5, OtherCallsAreRight
  <1> QED
    BY <1>6 DEF after

\* What is known of an element that is shown.
LEMMA ShownFields ==
    ASSUME NEW shown \in Seq(ElementRecords), NEW i \in DOMAIN shown
    PROVE  shown[i] \in ElementRecords /\ shown[i].id \in Elements /\ shown[i].revision \in Nat
  <1>1. shown[i] \in ElementRecords
    BY ElementOfSeq
  <1> QED
    BY <1>1 DEF ElementRecords

\* An element that is created is not shown before the answer has come.
LEMMA CreateServed ==
    ASSUME NEW shown \in Seq(ElementRecords), NEW kind, NEW calls \in Seq(ElementCalls(kind)),
           NEW data \in ElementRevisions, NEW list, NEW k \in DOMAIN calls,
           NEW done \in ElementCalls(kind), NEW element \in Elements,
           ListIsPatched(shown, calls, data, list),
           ~calls[k].served, calls[k].page, calls[k].element = element, calls[k].request.verb = "POST",
           done.request = calls[k].request, done.page = calls[k].page, done.element = element, done.served,
           data[element] = Unborn
    PROVE  ListIsPatched(shown, [calls EXCEPT ![k] = done], [data EXCEPT ![element] = 0], list)
  <1> DEFINE after == [calls EXCEPT ![k] = done]
             now == [data EXCEPT ![element] = 0]
  <1>1. DOMAIN after = DOMAIN calls /\ \A j \in DOMAIN calls : after[j] = IF j = k THEN done ELSE calls[j]
    BY ReplacedElement
  <1>2. now[element] = 0 /\ \A e \in Elements : e # element => now[e] = data[e]
    BY DEF ElementRevisions
  <1>3. \A i \in DOMAIN shown : shown[i] \in ElementRecords /\ shown[i].id \in Elements /\ shown[i].revision \in Nat
    BY ShownFields
  <1>4. \A i \in DOMAIN calls : calls[i] \in ElementCalls(kind)
    BY ElementOfSeq
  <1> HIDE DEF after, now
  <1>5. ~Shows(shown, element)
    <2> SUFFICES ASSUME NEW i \in DOMAIN shown, shown[i].id = element
                 PROVE  FALSE
      BY DEF Shows
    <2>1. WillBeRight(shown[i], calls, data)
      BY DEF ListIsPatched
    <2> QED
      BY <1>3, <2>1 DEF WillBeRight, Unborn, Deleted
  <1>6. \A i \in DOMAIN calls : i # k /\ calls[i].page /\ ~IsElementRead(calls[i]) /\ calls[i].element = element =>
            calls[i].request.verb = "POST" /\ ~calls[i].served
    <2> SUFFICES ASSUME NEW i \in DOMAIN calls, i # k, calls[i].page, ~IsElementRead(calls[i]),
                        calls[i].element = element
                 PROVE  calls[i].request.verb = "POST" /\ ~calls[i].served
      OBVIOUS
    <2>1. ChangeFits(calls[i], shown, data) /\ calls[i].request.verb \in {"POST", "PUT", "DELETE"}
      BY <1>4, ElementCallFields DEF ListIsPatched, CallFits, IsElementRead
    <2>2. data[element] = -1
      BY DEF Unborn
    <2> QED
      BY <1>5, <2>1, <2>2 DEF ChangeFits, Deleted
  <1>7. \A e, revision : IsUpdated(calls, e, revision) => IsUpdated(after, e, revision)
    BY <1>1 DEF IsUpdated, Comes
  <1>8. \A e : IsDeleted(calls, e) => IsDeleted(after, e)
    BY <1>1 DEF IsDeleted, Comes
  <1>9. \A e : IsCreated(calls, e) => IsCreated(after, e)
    BY <1>1 DEF IsCreated, Comes
  <1>10. IsCreated(after, element)
    BY <1>1 DEF IsCreated, Comes
  <1>11. ASSUME NEW i \in DOMAIN shown
         PROVE  WillBeRight(shown[i], after, now)
    <2>1. WillBeRight(shown[i], calls, data) /\ shown[i].id \in Elements /\ shown[i].id # element
      BY <1>3, <1>5 DEF ListIsPatched, Shows
    <2>2. now[shown[i].id] = data[shown[i].id]
      BY <1>2, <2>1
    <2> QED
      BY <1>7, <1>8, <2>1, <2>2 DEF WillBeRight
  <1>12. ASSUME NEW e \in Elements, now[e] >= 0
         PROVE  Shows(shown, e) \/ IsCreated(after, e)
    BY <1>2, <1>9, <1>10, <1>12 DEF ListIsPatched
  <1>13. ASSUME NEW i \in DOMAIN after
         PROVE  CallFits(after[i], shown, now, list)
    <2>1. CASE i = k
      <3>1. ~IsElementRead(calls[k]) /\ calls[k].request # list
        BY DEF IsElementRead, ListIsPatched, CallFits
      <3> QED
        BY <1>1, <1>2, <1>5, <2>1, <3>1 DEF CallFits, ChangeFits, IsElementRead
    <2>2. CASE i # k
      <3>1. after[i] = calls[i] /\ CallFits(calls[i], shown, data, list) /\ i \in DOMAIN calls
        BY <1>1, <2>2 DEF ListIsPatched
      <3>2. CASE IsElementRead(calls[i]) \/ ~calls[i].page
        BY <3>1, <3>2 DEF CallFits
      <3>3. CASE ~IsElementRead(calls[i]) /\ calls[i].page /\ calls[i].element = element
        BY <1>6, <2>2, <3>1, <3>3 DEF CallFits, ChangeFits
      <3>4. CASE ~IsElementRead(calls[i]) /\ calls[i].page /\ calls[i].element # element
        <4>1. calls[i].element \in Elements
          BY <1>4, <3>1, <3>4, ElementCallFields DEF IsElementRead
        <4>2. now[calls[i].element] = data[calls[i].element]
          BY <1>2, <3>4, <4>1
        <4> QED
          BY <3>1, <4>2 DEF CallFits, ChangeFits
      <3> QED
        BY <3>2, <3>3, <3>4
    <2> QED
      BY <2>1, <2>2
  <1>14. CreatedOnce(after)
    <2> SUFFICES ASSUME NEW i \in DOMAIN after, NEW j \in DOMAIN after,
                        Comes(after[i], "POST", after[i].element), Comes(after[j], "POST", after[i].element)
                 PROVE  i = j
      BY DEF CreatedOnce
    <2>1. CASE i # k /\ j # k
      BY <1>1, <2>1 DEF CreatedOnce, ListIsPatched
    <2>2. CASE i = k \/ j = k
      <3>1. after[i].element = element /\ after[j].element = element
        BY <1>1, <2>2 DEF Comes
      <3> QED
        BY <1>1, <1>6, <2>2, <3>1 DEF Comes, IsElementRead
    <2> QED
      BY <2>1, <2>2
  <1>15. ListIsPatched(shown, after, now, list)
    BY <1>11, <1>12, <1>13, <1>14 DEF ListIsPatched
  <1> QED
    BY <1>15 DEF after, now

\* An element that is shown and is changed or deleted: the answer will say so.
LEMMA ChangeServed ==
    ASSUME NEW shown \in Seq(ElementRecords), NEW kind, NEW calls \in Seq(ElementCalls(kind)),
           NEW data \in ElementRevisions, NEW list, NEW k \in DOMAIN calls,
           NEW done \in ElementCalls(kind), NEW element \in Elements, NEW revision,
           ListIsPatched(shown, calls, data, list),
           ~calls[k].served, calls[k].page, calls[k].element = element,
           done.request = calls[k].request, done.page = calls[k].page, done.element = element, done.served,
           data[element] >= 0,
           \/ calls[k].request.verb = "PUT" /\ revision = data[element] + 1 /\ AnswersWith(done, revision)
           \/ calls[k].request.verb = "DELETE" /\ revision = Deleted
    PROVE  ListIsPatched(shown, [calls EXCEPT ![k] = done], [data EXCEPT ![element] = revision], list)
  <1> DEFINE after == [calls EXCEPT ![k] = done]
             now == [data EXCEPT ![element] = revision]
  <1>1. DOMAIN after = DOMAIN calls /\ \A j \in DOMAIN calls : after[j] = IF j = k THEN done ELSE calls[j]
    BY ReplacedElement
  <1>2. now[element] = revision /\ \A e \in Elements : e # element => now[e] = data[e]
    BY DEF ElementRevisions
  <1>3. \A i \in DOMAIN shown : shown[i] \in ElementRecords /\ shown[i].id \in Elements /\ shown[i].revision \in Nat
    BY ShownFields
  <1>4. \A i \in DOMAIN calls : calls[i] \in ElementCalls(kind)
    BY ElementOfSeq
  <1>5. data[element] \in Nat
    BY DEF ElementRevisions, Unborn, Deleted
  <1> HIDE DEF after, now
  <1>6. ~IsElementRead(calls[k]) /\ calls[k].request # list /\ Shows(shown, element)
    BY <1>5 DEF IsElementRead, ListIsPatched, CallFits, ChangeFits, Deleted
  <1>7. \A i \in DOMAIN calls : calls[i].page /\ calls[i].element = element /\ calls[i].served =>
            calls[i].request.verb \notin {"POST", "DELETE"}
    <2> SUFFICES ASSUME NEW i \in DOMAIN calls, calls[i].page, calls[i].element = element, calls[i].served,
                        calls[i].request.verb \in {"POST", "DELETE"}
                 PROVE  FALSE
      OBVIOUS
    <2>1. ChangeFits(calls[i], shown, data)
      BY DEF ListIsPatched, CallFits, IsElementRead
    <2> QED
      BY <1>5, <1>6, <2>1 DEF ChangeFits, Deleted
  <1>8. \A e, r : IsUpdated(calls, e, r) => IsUpdated(after, e, r)
    BY <1>1 DEF IsUpdated, Comes
  <1>9. \A e : IsDeleted(calls, e) => IsDeleted(after, e)
    BY <1>1 DEF IsDeleted, Comes
  <1>10. \A e : IsCreated(calls, e) => IsCreated(after, e)
    BY <1>1 DEF IsCreated, Comes
  <1>11. ASSUME NEW i \in DOMAIN shown
         PROVE  WillBeRight(shown[i], after, now)
    <2>1. WillBeRight(shown[i], calls, data) /\ shown[i].id \in Elements
      BY <1>3 DEF ListIsPatched
    <2>2. CASE shown[i].id # element
      <3>1. now[shown[i].id] = data[shown[i].id]
        BY <1>2, <2>1, <2>2
      <3> QED
        BY <1>8, <1>9, <2>1, <3>1 DEF WillBeRight
    <2>3. CASE shown[i].id = element
      <3>1. data[element] >= shown[i].revision
        BY <1>3, <1>5, <2>1, <2>3 DEF WillBeRight, Deleted
      <3>2. CASE calls[k].request.verb = "PUT"
        <4>1. revision = data[element] + 1 /\ AnswersWith(done, revision)
          BY <3>2
        <4>2. IsUpdated(after, element, revision)
          BY <1>1, <3>2, <4>1 DEF IsUpdated, Comes
        <4>3. revision > shown[i].revision
          BY <1>3, <1>5, <3>1, <4>1
        <4> QED
          BY <1>2, <2>3, <4>2, <4>3 DEF WillBeRight
      <3>3. CASE calls[k].request.verb = "DELETE"
        <4>1. IsDeleted(after, element)
          BY <1>1, <3>3 DEF IsDeleted, Comes
        <4> QED
          BY <1>2, <2>3, <3>3, <4>1 DEF WillBeRight
      <3> QED
        BY <3>2, <3>3
    <2> QED
      BY <2>2, <2>3
  <1>12. ASSUME NEW e \in Elements, now[e] >= 0
         PROVE  Shows(shown, e) \/ IsCreated(after, e)
    BY <1>2, <1>6, <1>10, <1>12 DEF ListIsPatched
  <1>13. ASSUME NEW i \in DOMAIN after
         PROVE  CallFits(after[i], shown, now, list)
    <2>1. CASE i = k
      <3>1. after[i] = done /\ ~IsElementRead(done) /\ done.request # list /\ done.element = element
        BY <1>1, <1>6, <2>1 DEF IsElementRead
      <3>2. CASE calls[k].request.verb = "PUT"
        <4>1. revision \in Nat /\ revision <= now[element] /\ AnswersWith(done, revision)
          BY <1>2, <1>5, <3>2
        <4> QED
          BY <1>6, <3>1, <3>2, <4>1 DEF CallFits, ChangeFits
      <3>3. CASE calls[k].request.verb = "DELETE"
        BY <1>2, <3>1, <3>3 DEF CallFits, ChangeFits
      <3> QED
        BY <3>2, <3>3
    <2>2. CASE i # k
      <3>1. after[i] = calls[i] /\ CallFits(calls[i], shown, data, list) /\ i \in DOMAIN calls
        BY <1>1, <2>2 DEF ListIsPatched
      <3>2. CASE IsElementRead(calls[i]) \/ ~calls[i].page
        BY <3>1, <3>2 DEF CallFits
      <3>3. CASE ~IsElementRead(calls[i]) /\ calls[i].page /\ calls[i].element = element
        <4>1. ChangeFits(calls[i], shown, data) /\ calls[i].request # list
          BY <3>1, <3>3 DEF CallFits
        <4>2. CASE calls[i].served /\ calls[i].request.verb = "PUT"
          <5>1. PICK r \in Nat : r <= data[element] /\ AnswersWith(calls[i], r)
            BY <1>5, <3>3, <4>1, <4>2 DEF ChangeFits, Deleted
          <5>2. now[element] = Deleted \/ r <= now[element]
            BY <1>2, <1>5, <5>1
          <5>3. ChangeFits(calls[i], shown, now)
            BY <1>6, <3>3, <4>2, <5>1, <5>2 DEF ChangeFits
          <5> QED
            BY <3>1, <4>1, <5>3 DEF CallFits
        <4>3. CASE ~(calls[i].served /\ calls[i].request.verb = "PUT")
          <5>1. ~(calls[i].served /\ calls[i].request.verb \in {"POST", "DELETE"})
            BY <1>7, <3>1, <3>3
          <5>2. ChangeFits(calls[i], shown, now)
            BY <1>6, <3>3, <4>3, <5>1 DEF ChangeFits
          <5> QED
            BY <3>1, <4>1, <5>2 DEF CallFits
        <4> QED
          BY <4>2, <4>3
      <3>4. CASE ~IsElementRead(calls[i]) /\ calls[i].page /\ calls[i].element # element
        <4>1. calls[i].element \in Elements
          BY <1>4, <3>1, <3>4, ElementCallFields DEF IsElementRead
        <4>2. now[calls[i].element] = data[calls[i].element]
          BY <1>2, <3>4, <4>1
        <4> QED
          BY <3>1, <4>2 DEF CallFits, ChangeFits
      <3> QED
        BY <3>2, <3>3, <3>4
    <2> QED
      BY <2>1, <2>2
  <1>14. CreatedOnce(after)
    <2>1. after[k].request.verb # "POST"
      BY <1>1
    <2> QED
      BY <1>1, <2>1 DEF CreatedOnce, Comes, ListIsPatched
  <1>15. ListIsPatched(shown, after, now, list)
    BY <1>11, <1>12, <1>13, <1>14 DEF ListIsPatched
  <1> QED
    BY <1>15 DEF after, now

\* The list arrives: it is as it was served, and nothing of the page has changed since.
LEMMA ListArrives ==
    ASSUME NEW shown, NEW kind, NEW calls \in Seq(ElementCalls(kind)), NEW data \in ElementRevisions, NEW k \in DOMAIN calls,
           NEW list, ListIsExpected(shown, calls, data, list), AsksForList(calls[k], list), calls[k].served,
           list.verb = "GET"
    PROVE  ListIsPatched(calls[k].answer, RemoveAt(calls, k), data, list)
  <1> DEFINE left == RemoveAt(calls, k)
             answer == calls[k].answer
  <1>1. \A j \in DOMAIN left : \E i \in DOMAIN calls \ {k} : left[j] = calls[i]
    BY RemovedElements
  <1>2. ShowsExisting(answer, data)
    BY DEF ListIsExpected
  <1> HIDE DEF left, answer
  <1>3. \A i \in DOMAIN left : left[i].page => IsElementRead(left[i]) /\ left[i].request # list
    BY <1>1 DEF ListIsExpected, AsksForList
  <1>4. CreatedOnce(left)
    BY <1>3 DEF CreatedOnce, Comes, IsElementRead
  <1>5. \A i \in DOMAIN left : CallFits(left[i], answer, data, list)
    BY <1>3 DEF CallFits
  <1>6. \A i \in DOMAIN answer : WillBeRight(answer[i], left, data)
    BY <1>2 DEF ShowsExisting, WillBeRight
  <1>7. ListIsPatched(answer, left, data, list)
    BY <1>2, <1>4, <1>5, <1>6 DEF ListIsPatched, ShowsExisting
  <1> QED
    BY <1>7 DEF left, answer

\* What is left of the other answers.
LEMMA OthersCome ==
    ASSUME NEW kind, NEW calls \in Seq(ElementCalls(kind)), NEW k \in DOMAIN calls, NEW element, NEW revision
    PROVE  /\ IsCreated(calls, element) => IsCreated(RemoveAt(calls, k), element) \/ Comes(calls[k], "POST", element)
           /\ IsUpdated(calls, element, revision) =>
                 \/ IsUpdated(RemoveAt(calls, k), element, revision)
                 \/ Comes(calls[k], "PUT", element) /\ AnswersWith(calls[k], revision)
           /\ IsDeleted(calls, element) => IsDeleted(RemoveAt(calls, k), element) \/ Comes(calls[k], "DELETE", element)
  <1> DEFINE left == RemoveAt(calls, k)
  <1>1. \A i \in DOMAIN calls \ {k} : \E j \in DOMAIN left : left[j] = calls[i]
    BY RemovedElements
  <1> HIDE DEF left
  <1>2. IsCreated(calls, element) => IsCreated(left, element) \/ Comes(calls[k], "POST", element)
    BY <1>1 DEF IsCreated
  <1>3. IsUpdated(calls, element, revision) =>
            IsUpdated(left, element, revision) \/ (Comes(calls[k], "PUT", element) /\ AnswersWith(calls[k], revision))
    BY <1>1 DEF IsUpdated
  <1>4. IsDeleted(calls, element) => IsDeleted(left, element) \/ Comes(calls[k], "DELETE", element)
    BY <1>1 DEF IsDeleted
  <1> QED
    BY <1>2, <1>3, <1>4 DEF left

\* An element that was created is pushed.
LEMMA CreatedArrives ==
    ASSUME NEW shown \in Seq(ElementRecords), NEW kind, NEW calls \in Seq(ElementCalls(kind)),
           NEW data \in ElementRevisions, NEW list, NEW k \in DOMAIN calls,
           ListIsPatched(shown, calls, data, list),
           calls[k].page, calls[k].served, calls[k].request.verb = "POST"
    PROVE  ListIsPatched(shown \o calls[k].answer, RemoveAt(calls, k), data, list)
  <1> DEFINE left == RemoveAt(calls, k)
             element == calls[k].element
             new == [id |-> element, revision |-> 0]
             more == Append(shown, new)
  <1>1. /\ \A j \in DOMAIN left : \E i \in DOMAIN calls \ {k} : left[j] = calls[i]
        /\ CreatedOnce(left)
    BY RemovedElements, CreatedStay DEF ListIsPatched
  <1>2. calls[k] \in ElementCalls(kind) /\ \A i \in DOMAIN calls : calls[i] \in ElementCalls(kind)
    BY ElementOfSeq
  <1>3. element \in Elements /\ calls[k].answer = <<new>> /\ new \in ElementRecords
    BY <1>2, ElementCallFields DEF AnswersWith, ElementRecords
  <1>4. shown \o calls[k].answer = more
    BY <1>3, JoinedOne
  <1>5. /\ DOMAIN more = 1 .. Len(shown) + 1 /\ DOMAIN shown = 1 .. Len(shown) /\ Len(shown) \in Nat
        /\ \A i \in DOMAIN shown : i \in DOMAIN more /\ more[i] = shown[i]
        /\ more[Len(shown) + 1] = new
        /\ \A i \in DOMAIN more : more[i] = new \/ (i \in DOMAIN shown /\ more[i] = shown[i])
    BY <1>3, Appended
  <1>6. data[element] = 0 /\ ~Shows(shown, element)
    BY DEF ListIsPatched, CallFits, ChangeFits, IsElementRead
  <1>7. \A e, revision : IsUpdated(calls, e, revision) => IsUpdated(left, e, revision)
    BY OthersCome DEF Comes
  <1>8. \A e : IsDeleted(calls, e) => IsDeleted(left, e)
    BY OthersCome DEF Comes
  <1>9. \A e : e # element /\ IsCreated(calls, e) => IsCreated(left, e)
    BY OthersCome DEF Comes
  <1>10. new.id = element /\ new.revision = 0
    OBVIOUS
  <1> HIDE DEF left, new, more
  <1>11. ASSUME NEW e
         PROVE  Shows(more, e) <=> Shows(shown, e) \/ e = element
    BY <1>5, <1>10 DEF Shows
  <1>12. Once(more)
    BY <1>5, <1>6, <1>10 DEF Once, Shows, ListIsPatched
  <1>13. ASSUME NEW i \in DOMAIN more
         PROVE  WillBeRight(more[i], left, data)
    <2>1. CASE more[i] = new
      BY <1>6, <1>10, <2>1 DEF WillBeRight
    <2>2. CASE i \in DOMAIN shown /\ more[i] = shown[i]
      <3>1. WillBeRight(shown[i], calls, data)
        BY <2>2 DEF ListIsPatched
      <3> QED
        BY <1>7, <1>8, <2>2, <3>1 DEF WillBeRight
    <2> QED
      BY <1>5, <2>1, <2>2
  <1>14. ASSUME NEW e \in Elements, data[e] >= 0
         PROVE  Shows(more, e) \/ IsCreated(left, e)
    BY <1>9, <1>11, <1>14 DEF ListIsPatched
  <1>15. ASSUME NEW j \in DOMAIN left
         PROVE  CallFits(left[j], more, data, list)
    <2>1. PICK i \in DOMAIN calls \ {k} : left[j] = calls[i]
      BY <1>1
    <2>2. CallFits(calls[i], shown, data, list)
      BY DEF ListIsPatched
    <2>3. calls[i].page /\ calls[i].served /\ calls[i].request.verb = "POST" => calls[i].element # element
      BY <2>1 DEF ListIsPatched, CreatedOnce, Comes
    <2> QED
      BY <1>11, <2>1, <2>2, <2>3 DEF CallFits, ChangeFits
  <1>16. ListIsPatched(more, left, data, list)
    BY <1>1, <1>12, <1>13, <1>14, <1>15 DEF ListIsPatched
  <1> QED
    BY <1>4, <1>16 DEF left

\* An element that was changed is replaced, unless the answer is older than what is shown.
LEMMA UpdatedArrives ==
    ASSUME NEW shown \in Seq(ElementRecords), NEW kind, NEW calls \in Seq(ElementCalls(kind)),
           NEW data \in ElementRevisions, NEW list, NEW k \in DOMAIN calls,
           ListIsPatched(shown, calls, data, list),
           calls[k].page, calls[k].served, calls[k].request.verb = "PUT",
           ~Older(shown, calls[k].answer[1])
    PROVE  ListIsPatched(Replaced(shown, calls[k].answer[1]), RemoveAt(calls, k), data, list)
  <1> DEFINE left == RemoveAt(calls, k)
             element == calls[k].element
             after == Replaced(shown, calls[k].answer[1])
  <1>1. /\ \A j \in DOMAIN left : \E i \in DOMAIN calls \ {k} : left[j] = calls[i]
        /\ CreatedOnce(left)
    BY RemovedElements, CreatedStay DEF ListIsPatched
  <1>2. calls[k] \in ElementCalls(kind)
    BY ElementOfSeq
  <1>3. element \in Elements
    BY <1>2, ElementCallFields
  <1>4. data[element] = Deleted \/ \E r \in Nat : r <= data[element] /\ AnswersWith(calls[k], r)
    BY DEF ListIsPatched, CallFits, ChangeFits, IsElementRead
  <1>5. PICK revision \in Nat : AnswersWith(calls[k], revision) /\ (data[element] = Deleted \/ revision <= data[element])
    BY <1>2, <1>4, ElementCallFields
  <1> DEFINE new == [id |-> element, revision |-> revision]
  <1>6. calls[k].answer[1] = new /\ new.id = element /\ new.revision = revision
    BY <1>5 DEF AnswersWith
  <1>7. DOMAIN after = DOMAIN shown /\ \A i \in DOMAIN shown : after[i] = IF shown[i].id = element THEN new ELSE shown[i]
    BY <1>6 DEF Replaced
  <1>8. \A i \in DOMAIN shown : shown[i].id \in Elements /\ shown[i].revision \in Nat
    BY ShownFields
  <1>9. \A e, r : IsUpdated(calls, e, r) /\ (e # element \/ r # revision) => IsUpdated(left, e, r)
    <2>1. \A r : AnswersWith(calls[k], r) => r = revision
      BY <1>5 DEF AnswersWith
    <2> QED
      BY <2>1, OthersCome DEF Comes
  <1>10. \A e : IsDeleted(calls, e) => IsDeleted(left, e)
    BY OthersCome DEF Comes
  <1>11. \A e : IsCreated(calls, e) => IsCreated(left, e)
    BY OthersCome DEF Comes
  <1>12. ~\E i \in DOMAIN shown : shown[i].id = element /\ shown[i].revision > revision
    BY <1>6 DEF Older
  <1>13. data[element] \in Int
    BY <1>3 DEF ElementRevisions, Unborn, Deleted
  <1> HIDE DEF left, new, after
  <1>14. \A i \in DOMAIN shown : after[i].id = shown[i].id
    BY <1>6, <1>7
  <1>15. \A e : Shows(after, e) <=> Shows(shown, e)
    BY <1>7, <1>14 DEF Shows
  <1>16. Once(after)
    BY <1>7, <1>14 DEF Once, ListIsPatched
  <1>17. ASSUME NEW i \in DOMAIN after
         PROVE  WillBeRight(after[i], left, data)
    <2>1. WillBeRight(shown[i], calls, data) /\ i \in DOMAIN shown
      BY <1>7 DEF ListIsPatched
    <2>2. CASE shown[i].id # element
      <3>1. after[i] = shown[i]
        BY <1>7, <2>1, <2>2
      <3>2. IsUpdated(calls, shown[i].id, data[shown[i].id]) => IsUpdated(left, shown[i].id, data[shown[i].id])
        BY <1>9, <2>2
      <3> QED
        BY <1>10, <2>1, <3>1, <3>2 DEF WillBeRight
    <2>3. CASE shown[i].id = element
      <3>1. after[i] = new /\ shown[i].revision \in Nat /\ shown[i].revision <= revision
        BY <1>7, <1>8, <1>12, <2>1, <2>3
      <3>2. CASE data[element] = Deleted
        <4>1. IsDeleted(calls, element)
          BY <2>1, <2>3, <3>1, <3>2 DEF WillBeRight, Deleted
        <4> QED
          BY <1>6, <1>10, <3>1, <3>2, <4>1 DEF WillBeRight
      <3>3. CASE data[element] = revision
        BY <1>6, <3>1, <3>3 DEF WillBeRight
      <3>4. CASE data[element] # Deleted /\ data[element] # revision
        <4>1. data[element] > revision
          BY <1>5, <1>13, <3>4
        <4>2. data[element] # shown[i].revision
          BY <1>13, <3>1, <4>1
        <4>3. IsUpdated(calls, element, data[element])
          BY <2>1, <2>3, <3>4, <4>2 DEF WillBeRight
        <4>4. IsUpdated(left, element, data[element])
          BY <1>9, <3>4, <4>3
        <4> QED
          BY <1>6, <3>1, <4>1, <4>4 DEF WillBeRight
      <3> QED
        BY <3>2, <3>3, <3>4
    <2> QED
      BY <2>2, <2>3
  <1>18. ASSUME NEW e \in Elements, data[e] >= 0
         PROVE  Shows(after, e) \/ IsCreated(left, e)
    BY <1>11, <1>15, <1>18 DEF ListIsPatched
  <1>19. ASSUME NEW j \in DOMAIN left
         PROVE  CallFits(left[j], after, data, list)
    <2>1. PICK i \in DOMAIN calls \ {k} : left[j] = calls[i]
      BY <1>1
    <2>2. CallFits(calls[i], shown, data, list)
      BY DEF ListIsPatched
    <2> QED
      BY <1>15, <2>1, <2>2 DEF CallFits, ChangeFits
  <1>20. ListIsPatched(after, left, data, list)
    BY <1>1, <1>16, <1>17, <1>18, <1>19 DEF ListIsPatched
  <1> QED
    BY <1>20 DEF left, after

\* An element that was deleted is dropped.
LEMMA DeletedArrives ==
    ASSUME NEW shown \in Seq(ElementRecords), NEW kind, NEW calls \in Seq(ElementCalls(kind)),
           NEW data \in ElementRevisions, NEW list, NEW k \in DOMAIN calls,
           ListIsPatched(shown, calls, data, list),
           calls[k].page, calls[k].served, calls[k].request.verb = "DELETE"
    PROVE  ListIsPatched(Without(shown, calls[k].element), RemoveAt(calls, k), data, list)
  <1> DEFINE left == RemoveAt(calls, k)
             element == calls[k].element
             kept == {i \in DOMAIN shown : shown[i].id # element}
             after == Without(shown, element)
  <1>1. /\ \A j \in DOMAIN left : \E i \in DOMAIN calls \ {k} : left[j] = calls[i]
        /\ CreatedOnce(left)
    BY RemovedElements, CreatedStay DEF ListIsPatched
  <1>2. after = Filtered(shown, kept)
    BY DEF Without
  <1>3. kept \in SUBSET DOMAIN shown /\ \A i \in DOMAIN shown : i \in kept <=> shown[i].id # element
    OBVIOUS
  <1> HIDE DEF kept, after, left
  <1>4. /\ \A j \in DOMAIN after : \E i \in kept : PlaceOf(i, kept) = j /\ after[j] = shown[i]
        /\ \A i \in kept : PlaceOf(i, kept) \in DOMAIN after /\ after[PlaceOf(i, kept)] = shown[i]
    BY <1>2, <1>3, FilteredElements
  <1>5. data[element] = Deleted
    BY DEF ListIsPatched, CallFits, ChangeFits, IsElementRead
  <1>6. \A e, r : IsUpdated(calls, e, r) => IsUpdated(left, e, r)
    BY OthersCome DEF Comes, left
  <1>7. \A e : e # element /\ IsDeleted(calls, e) => IsDeleted(left, e)
    BY OthersCome DEF Comes, left
  <1>8. \A e : IsCreated(calls, e) => IsCreated(left, e)
    BY OthersCome DEF Comes, left
  <1>9. \A e : Shows(after, e) => Shows(shown, e)
    BY <1>3, <1>4 DEF Shows
  <1>10. \A e : e # element /\ Shows(shown, e) => Shows(after, e)
    BY <1>3, <1>4 DEF Shows
  <1>11. Once(after)
    BY <1>3, <1>4 DEF Once, ListIsPatched
  <1>12. ASSUME NEW j \in DOMAIN after
         PROVE  WillBeRight(after[j], left, data)
    <2>1. PICK i \in kept : after[j] = shown[i]
      BY <1>4
    <2>2. WillBeRight(shown[i], calls, data) /\ shown[i].id # element
      BY <1>3 DEF ListIsPatched
    <2> QED
      BY <1>6, <1>7, <2>1, <2>2 DEF WillBeRight
  <1>13. ASSUME NEW e \in Elements, data[e] >= 0
         PROVE  Shows(after, e) \/ IsCreated(left, e)
    BY <1>5, <1>8, <1>10, <1>13 DEF ListIsPatched, Deleted
  <1>14. ASSUME NEW j \in DOMAIN left
         PROVE  CallFits(left[j], after, data, list)
    <2>1. PICK i \in DOMAIN calls \ {k} : left[j] = calls[i]
      BY <1>1
    <2>2. CallFits(calls[i], shown, data, list)
      BY DEF ListIsPatched
    <2> QED
      BY <1>5, <1>9, <1>10, <2>1, <2>2 DEF CallFits, ChangeFits
  <1>15. ListIsPatched(after, left, data, list)
    BY <1>1, <1>11, <1>12, <1>13, <1>14 DEF ListIsPatched
  <1> QED
    BY <1>15 DEF left, after

\* The list as the backend serves it.
LEMMA ServedListIsRight ==
    ASSUME ElementTypes, NEW answer, answer = [k \in DOMAIN SetToSeq(Existing) |-> Element(SetToSeq(Existing)[k])]
    PROVE  answer \in Seq(ElementRecords) /\ ShowsExisting(answer, elementsData)
  <1> DEFINE ids == SetToSeq(Existing)
  <1>1. IsFiniteSet(Existing)
    BY ElementsAssumption, FS_Subset DEF Existing
  <1>2. /\ ids \in Seq(Existing)
        /\ \A e \in Existing : \E i \in DOMAIN ids : ids[i] = e
        /\ \A i, j \in DOMAIN ids : ids[i] = ids[j] => i = j
    BY <1>1, SetListed
  <1>3. answer = [k \in DOMAIN ids |-> Element(ids[k])]
    OBVIOUS
  <1> HIDE DEF ids
  <1>4. \A i \in DOMAIN ids : ids[i] \in Existing
    BY <1>2, ElementOfSeq
  <1>5. \A e \in Existing : e \in Elements /\ elementsData[e] \in Nat
    BY DEF Existing, ElementTypes, ElementRevisions, Unborn, Deleted
  <1>6. \A i \in DOMAIN ids : Element(ids[i]) \in ElementRecords
    BY <1>4, <1>5 DEF Element, ElementRecords
  <1>7. answer \in [DOMAIN ids -> ElementRecords] /\ DOMAIN answer = DOMAIN ids
    BY <1>3, <1>6
  <1>8. answer \in Seq(ElementRecords)
    BY <1>2, <1>7, Mapped
  <1>9. \A i \in DOMAIN answer : answer[i].id = ids[i] /\ answer[i].revision = elementsData[answer[i].id]
    BY <1>3 DEF Element
  <1>10. Once(answer)
    BY <1>2, <1>7, <1>9 DEF Once
  <1>11. \A e \in Elements : elementsData[e] >= 0 => Shows(answer, e)
    <2>1. \A e \in Elements : elementsData[e] >= 0 => e \in Existing
      BY DEF Existing
    <2> QED
      BY <1>2, <1>7, <1>9, <2>1 DEF Shows
  <1> QED
    BY <1>8, <1>9, <1>10, <1>11 DEF ShowsExisting

\* Nothing is under way that a page before has sent and that may still take effect.
LEMMA StraysSent ==
    ASSUME NEW kind, NEW calls \in Seq(ElementCalls(kind)), StraysAreServed(calls),
           NEW call \in ElementCalls(kind), call.page
    PROVE  StraysAreServed(Append(calls, call))
  BY Appended DEF StraysAreServed

\* A request that is gone was no stray that may still take effect.
LEMMA StraysLeft ==
    ASSUME NEW kind, NEW calls \in Seq(ElementCalls(kind)), StraysAreServed(calls), NEW k \in DOMAIN calls
    PROVE  StraysAreServed(RemoveAt(calls, k))
  <1>1. \A j \in DOMAIN RemoveAt(calls, k) : \E i \in DOMAIN calls \ {k} : RemoveAt(calls, k)[j] = calls[i]
    BY RemovedElements
  <1> QED
    BY <1>1 DEF StraysAreServed

\* A request that is served is no stray that may still take effect.
LEMMA StraysServed ==
    ASSUME NEW kind, NEW calls \in Seq(ElementCalls(kind)), StraysAreServed(calls), NEW k \in DOMAIN calls,
           NEW done \in ElementCalls(kind), done.served
    PROVE  StraysAreServed([calls EXCEPT ![k] = done])
  <1>1. /\ DOMAIN [calls EXCEPT ![k] = done] = DOMAIN calls
        /\ \A j \in DOMAIN calls : [calls EXCEPT ![k] = done][j] = IF j = k THEN done ELSE calls[j]
    BY ReplacedElement
  <1> QED
    BY <1>1 DEF StraysAreServed

\* A read that is served before the list has come, the list among them.
LEMMA ExpectedServed ==
    ASSUME NEW shown, NEW kind, NEW calls \in Seq(ElementCalls(kind)), NEW data, NEW list, NEW k \in DOMAIN calls,
           NEW done \in ElementCalls(kind),
           ListIsExpected(shown, calls, data, list),
           done.request = calls[k].request, done.page = calls[k].page,
           calls[k].request = list => ShowsExisting(done.answer, data)
    PROVE  ListIsExpected(shown, [calls EXCEPT ![k] = done], data, list)
  <1> DEFINE after == [calls EXCEPT ![k] = done]
  <1>1. DOMAIN after = DOMAIN calls /\ \A j \in DOMAIN calls : after[j] = IF j = k THEN done ELSE calls[j]
    BY ReplacedElement
  <1> HIDE DEF after
  <1>2. \A j \in DOMAIN calls : after[j].request = calls[j].request /\ after[j].page = calls[j].page
    BY <1>1
  <1>3. \A j \in DOMAIN calls : AsksForList(after[j], list) <=> AsksForList(calls[j], list)
    BY <1>2 DEF AsksForList
  <1>4. \A i \in DOMAIN after : AsksForList(after[i], list) /\ after[i].served => ShowsExisting(after[i].answer, data)
    BY <1>1, <1>3 DEF ListIsExpected, AsksForList
  <1>5. \A i \in DOMAIN after : after[i].page => IsElementRead(after[i])
    BY <1>1, <1>2 DEF ListIsExpected, IsElementRead
  <1>6. \E i \in DOMAIN after : AsksForList(after[i], list)
    BY <1>1, <1>3 DEF ListIsExpected
  <1>7. \A i, j \in DOMAIN after : AsksForList(after[i], list) /\ AsksForList(after[j], list) => i = j
    BY <1>1, <1>3 DEF ListIsExpected
  <1>8. ListIsExpected(shown, after, data, list)
    BY <1>4, <1>5, <1>6, <1>7 DEF ListIsExpected
  <1> QED
    BY <1>8 DEF after

\* An answer that is not the list leaves the list expected.
LEMMA ExpectedLeft ==
    ASSUME NEW shown, NEW kind, NEW calls \in Seq(ElementCalls(kind)), NEW data, NEW list, NEW k \in DOMAIN calls,
           ListIsExpected(shown, calls, data, list), ~AsksForList(calls[k], list)
    PROVE  ListIsExpected(shown, RemoveAt(calls, k), data, list)
  <1> DEFINE left == RemoveAt(calls, k)
  <1>1. /\ \A j \in DOMAIN left : \E i \in DOMAIN calls \ {k} : left[j] = calls[i]
        /\ \A i \in DOMAIN calls \ {k} : \E j \in DOMAIN left : left[j] = calls[i]
    BY RemovedElements
  <1>2. ASSUME NEW i \in DOMAIN left, NEW j \in DOMAIN left, i # j
        PROVE  \E a, b \in DOMAIN calls \ {k} : a # b /\ left[i] = calls[a] /\ left[j] = calls[b]
    BY <1>2, RemovedApart
  <1> HIDE DEF left
  <1>3. \A i, j \in DOMAIN left : AsksForList(left[i], list) /\ AsksForList(left[j], list) => i = j
    BY <1>2 DEF ListIsExpected
  <1>4. \E j \in DOMAIN left : AsksForList(left[j], list)
    BY <1>1 DEF ListIsExpected
  <1>5. ListIsExpected(shown, left, data, list)
    BY <1>1, <1>3, <1>4 DEF ListIsExpected
  <1> QED
    BY <1>5 DEF left

\* A request of the page that is sent changes nothing but that it is under way.
LEMMA SendElementStep ==
    ASSUME ElementsInv, NEW request \in ElementRequests(elementsKind), NEW element \in Elements,
           SendElement(request, element),
           ~elementsSpoiled' =>
               /\ elementsLoaded /\ ~elementsSpoiled /\ request # Of(elementsKind).list
               /\ request.verb \in {"POST", "PUT", "DELETE"}
               /\ request.verb # "POST" => Shows(elementsShown, element),
           elementsSpoiled' \in BOOLEAN
    PROVE  ElementsInv'
  <1> DEFINE call == ElementCall(request, element)
             list == Of(elementsKind).list
  <1>1. /\ call \in ElementCalls(elementsKind) /\ call.page /\ ~call.served /\ call.request = request
        /\ call.element = element
    BY ElementCallSent
  <1>2. elementsCalls \in Seq(ElementCalls(elementsKind))
    BY DEF ElementsInv, ElementTypes
  <1>3. elementsCalls' = Append(elementsCalls, call) /\ elementsOpen /\ elementsOpen' = elementsOpen
    BY DEF SendElement
  <1> HIDE DEF call, list
  <1>4. elementsCalls' \in Seq(ElementCalls(elementsKind))
    BY <1>1, <1>2, <1>3, Appended
  <1>5. ElementTypes'
    BY <1>4 DEF SendElement, ElementsInv, ElementTypes
  <1>6. ClosedIsEmpty'
    BY <1>3 DEF ClosedIsEmpty
  <1>7. ASSUME ~elementsSpoiled'
        PROVE  ElementsAreRight(elementsShown, Append(elementsCalls, call), elementsData, list, elementsLoaded)
    <2>1. ElementsAreRight(elementsShown, elementsCalls, elementsData, list, elementsLoaded) /\ elementsLoaded
      BY <1>3, <1>7 DEF ElementsInv, list
    <2>2. CallFits(call, elementsShown, elementsData, list)
      BY <1>1, <1>7 DEF CallFits, ChangeFits, list
    <2>3. ListIsPatched(elementsShown, Append(elementsCalls, call), elementsData, list)
      BY <1>1, <1>2, <2>1, <2>2, ElementSent DEF ElementsAreRight
    <2>4. StraysAreServed(Append(elementsCalls, call))
      BY <1>1, <1>2, <2>1, StraysSent DEF ElementsAreRight
    <2> QED
      BY <2>1, <2>3, <2>4 DEF ElementsAreRight
  <1>8. /\ elementsShown' = elementsShown /\ elementsData' = elementsData /\ elementsKind' = elementsKind
        /\ elementsLoaded' = elementsLoaded
    BY DEF SendElement
  <1> QED
    BY <1>3, <1>5, <1>6, <1>7, <1>8 DEF ElementsInv, list

\* A page that opens expects its list, behind what pages before have left under way.
LEMMA OpenElementsStep ==
    ASSUME ElementsInv, OpenElements
    PROVE  ElementsInv'
  <1> DEFINE list == Of(elementsKind).list
             first == ElementCall(Of(elementsKind).default, Tool)
             second == ElementCall(list, Tool)
             one == Append(elementsCalls, first)
             both == Append(one, second)
  <1>1. /\ list.verb = "GET" /\ Of(elementsKind).default.verb = "GET" /\ Of(elementsKind).default # list
        /\ list \in ElementRequests(elementsKind) /\ Of(elementsKind).default \in ElementRequests(elementsKind)
    BY ElementRequestsTell DEF ElementRequests
  <1>2. /\ first \in ElementCalls(elementsKind) /\ first.page /\ ~first.served /\ first.request = Of(elementsKind).default
        /\ second \in ElementCalls(elementsKind) /\ second.page /\ ~second.served /\ second.request = list
    BY <1>1, ElementCallSent
  <1>3. elementsCalls \in Seq(ElementCalls(elementsKind))
    BY DEF ElementsInv, ElementTypes
  <1>4. elementsCalls' = elementsCalls \o <<first, second>>
    BY DEF OpenElements
  <1> HIDE DEF first, second, list
  <1>5. elementsCalls' = both
    BY <1>2, <1>3, <1>4
  <1>6. /\ one \in Seq(ElementCalls(elementsKind)) /\ DOMAIN elementsCalls = 1 .. Len(elementsCalls)
        /\ Len(elementsCalls) \in Nat /\ Len(one) = Len(elementsCalls) + 1 /\ one[Len(elementsCalls) + 1] = first
        /\ DOMAIN one = 1 .. Len(elementsCalls) + 1
        /\ \A j \in DOMAIN elementsCalls : one[j] = elementsCalls[j]
    BY <1>2, <1>3, Appended
  <1> HIDE DEF one
  <1>7. /\ both \in Seq(ElementCalls(elementsKind)) /\ DOMAIN both = 1 .. Len(one) + 1
        /\ \A j \in DOMAIN one : both[j] = one[j]
        /\ both[Len(one) + 1] = second
    BY <1>2, <1>6, Appended
  <1> HIDE DEF both
  <1>8. ClosedIsEmpty /\ ~elementsOpen
    BY DEF ElementsInv, OpenElements
  <1>9. \A j \in DOMAIN both :
            \/ j \in DOMAIN elementsCalls /\ both[j] = elementsCalls[j] /\ ~both[j].page
            \/ both[j] = first
            \/ both[j] = second /\ j = Len(elementsCalls) + 2
    BY <1>6, <1>7, <1>8 DEF ClosedIsEmpty
  <1>10. ~AsksForList(first, list) /\ AsksForList(second, list) /\ IsElementRead(first) /\ IsElementRead(second)
    BY <1>1, <1>2 DEF AsksForList, IsElementRead
  <1>11. ListIsExpected(elementsShown, both, elementsData, list)
    <2>1. \A j \in DOMAIN both : AsksForList(both[j], list) => both[j] = second /\ j = Len(elementsCalls) + 2
      BY <1>9, <1>10 DEF AsksForList
    <2>2. \E j \in DOMAIN both : AsksForList(both[j], list)
      BY <1>6, <1>7, <1>10
    <2>3. \A j \in DOMAIN both : both[j].page => IsElementRead(both[j])
      BY <1>9, <1>10
    <2>4. \A j \in DOMAIN both : ~(AsksForList(both[j], list) /\ both[j].served)
      BY <1>2, <2>1
    <2> QED
      BY <1>8, <2>1, <2>2, <2>3, <2>4 DEF ListIsExpected, ClosedIsEmpty
  <1>12. ~elementsSpoiled' => StraysAreServed(both)
    BY <1>2, <1>9 DEF OpenElements, StraysAreServed
  <1>13. /\ elementsShown' = elementsShown /\ elementsData' = elementsData /\ elementsKind' = elementsKind
         /\ elementsLoaded' = elementsLoaded /\ elementsDefault' = elementsDefault /\ elementsOpen'
         /\ elementsSpoiled' \in BOOLEAN
    BY DEF OpenElements
  <1>14. ElementTypes'
    BY <1>5, <1>7, <1>13 DEF ElementsInv, ElementTypes
  <1>15. ~elementsLoaded
    BY <1>8 DEF ClosedIsEmpty
  <1>16. ~elementsSpoiled' => ElementsAreRight(elementsShown, both, elementsData, list, elementsLoaded)
    BY <1>11, <1>12, <1>15 DEF ElementsAreRight
  <1> QED
    BY <1>5, <1>13, <1>14, <1>16 DEF ElementsInv, ClosedIsEmpty, list

\* A page that is left waits for nothing.
LEMMA LeaveElementsStep ==
    ASSUME ElementsInv, LeaveElements
    PROVE  ElementsInv'
  <1> DEFINE left == [i \in DOMAIN elementsCalls |-> [elementsCalls[i] EXCEPT !.page = FALSE]]
  <1>1. elementsCalls \in Seq(ElementCalls(elementsKind))
    BY DEF ElementsInv, ElementTypes
  <1>2. \A i \in DOMAIN elementsCalls : elementsCalls[i] \in ElementCalls(elementsKind)
    BY <1>1, ElementOfSeq
  <1>3. \A i \in DOMAIN elementsCalls : [elementsCalls[i] EXCEPT !.page = FALSE] \in ElementCalls(elementsKind)
    BY <1>2 DEF ElementCalls, AnswersWith
  <1>4. \A i \in DOMAIN left : ~left[i].page
    BY <1>2 DEF ElementCalls
  <1>5. left \in [DOMAIN elementsCalls -> ElementCalls(elementsKind)]
    BY <1>3
  <1>6. elementsCalls' = left
    BY DEF LeaveElements
  <1> HIDE DEF left
  <1>7. left \in Seq(ElementCalls(elementsKind))
    BY <1>1, <1>5, Mapped
  <1>8. <<>> \in Seq(ElementRecords)
    BY EmptySeq
  <1>9. ElementTypes'
    BY <1>6, <1>7, <1>8 DEF LeaveElements, ElementsInv, ElementTypes
  <1>10. ClosedIsEmpty' /\ ~elementsOpen'
    BY <1>4, <1>6 DEF LeaveElements, ClosedIsEmpty
  <1> QED
    BY <1>9, <1>10 DEF ElementsInv

\* Creating, changing and deleting an element sends a change that fits the list.
LEMMA SubmitElementStep ==
    ASSUME ElementsInv, NEW element \in Elements, SubmitNewElement(element) \/ SubmitOrRemove(element)
    PROVE  ElementsInv'
  <1> DEFINE create == Of(elementsKind).create[element]
             update == Of(elementsKind).update[element]
             delete == Of(elementsKind).delete[element]
  <1>1. /\ create \in ElementRequests(elementsKind) /\ update \in ElementRequests(elementsKind)
        /\ delete \in ElementRequests(elementsKind)
    BY DEF ElementRequests
  <1>2. /\ create.verb = "POST" /\ update.verb = "PUT" /\ delete.verb = "DELETE"
        /\ Of(elementsKind).list.verb = "GET"
    BY ElementRequestsTell
  <1>3. \/ elementsSpoiled' = (elementsSpoiled \/ ~elementsLoaded) /\ SendElement(create, element)
        \/ /\ Shows(elementsShown, element) /\ elementsSpoiled' = elementsSpoiled
           /\ SendElement(update, element) \/ SendElement(delete, element)
    BY DEF SubmitNewElement, SubmitOrRemove, Shows
  <1> HIDE DEF create, update, delete
  <1>4. elementsSpoiled \in BOOLEAN /\ elementsLoaded \in BOOLEAN
    BY DEF ElementsInv, ElementTypes
  <1>5. CASE elementsSpoiled' = (elementsSpoiled \/ ~elementsLoaded) /\ SendElement(create, element)
    BY <1>1, <1>2, <1>4, <1>5, SendElementStep
  <1>6. CASE /\ Shows(elementsShown, element) /\ elementsSpoiled' = elementsSpoiled
             /\ SendElement(update, element) \/ SendElement(delete, element)
    <2>1. ~elementsSpoiled => elementsLoaded
      <3>1. elementsOpen /\ ~elementsSpoiled /\ ~elementsLoaded => elementsShown = <<>>
        BY DEF ElementsInv, ElementsAreRight, ListIsExpected
      <3>2. elementsShown # <<>> /\ elementsOpen
        BY <1>6 DEF Shows, SendElement
      <3> QED
        BY <1>4, <3>1, <3>2
    <2> QED
      BY <1>1, <1>2, <1>4, <1>6, <2>1, SendElementStep
  <1> QED
    BY <1>3, <1>5, <1>6

\* A request that is served: what it changes is what its answer will tell.
LEMMA ServeElementStep ==
    ASSUME ElementsInv, NEW i \in DOMAIN elementsCalls, ServeElement(i)
    PROVE  ElementsInv'
  <1> DEFINE call == elementsCalls[i]
             element == call.element
             list == Of(elementsKind).list
             verb == call.request.verb
             After(answer) == [elementsCalls EXCEPT ![i] = WithAnswer(call, answer)]
             listed == [k \in DOMAIN SetToSeq(Existing) |-> Element(SetToSeq(Existing)[k])]
             none == <<>>
             created == <<[id |-> element, revision |-> 0]>>
             updated == <<[id |-> element, revision |-> elementsData[element] + 1]>>
  <1>1. elementsCalls \in Seq(ElementCalls(elementsKind)) /\ elementsData \in ElementRevisions /\ elementsShown \in Seq(ElementRecords)
    BY DEF ElementsInv, ElementTypes
  <1>2. call \in ElementCalls(elementsKind)
    BY <1>1, ElementOfSeq
  <1>3. /\ verb \in {"GET", "POST", "PUT", "DELETE"} /\ list.verb = "GET"
        /\ verb # "GET" => element \in Elements
    BY <1>2, ElementCallFields, ElementRequestsTell
  <1>4. [elementsCalls EXCEPT ![i] = [@ EXCEPT !.served = TRUE, !.answer = listed]] = After(listed)
    BY <1>1 DEF WithAnswer
  <1>5. /\ ~call.served
        /\ \/ /\ call.request = list /\ elementsCalls' = After(listed) /\ elementsData' = elementsData
           \/ /\ call.request # list /\ verb = "GET" /\ elementsCalls' = After(none) /\ elementsData' = elementsData
           \/ /\ verb = "POST" /\ elementsData[element] = Unborn
              /\ elementsData' = [elementsData EXCEPT ![element] = 0] /\ elementsCalls' = After(created)
           \/ /\ verb = "PUT" /\ elementsData[element] \in 0 .. MaxRevision - 1
              /\ elementsData' = [elementsData EXCEPT ![element] = elementsData[element] + 1]
              /\ elementsCalls' = After(updated)
           \/ /\ verb = "DELETE" /\ element \in Existing
              /\ elementsData' = [elementsData EXCEPT ![element] = Deleted] /\ elementsCalls' = After(none)
    BY <1>3 DEF ServeElement, IsElementList, IsElementRead, WithAnswer
  <1>6. /\ UNCHANGED <<elementsKind, elementsOpen, elementsLoaded, elementsDefault, elementsShown, elementsSpoiled>>
    BY DEF ServeElement
  \* What every case has to show.
  <1>7. ASSUME NEW answer \in Seq(ElementRecords), NEW data \in ElementRevisions,
               elementsCalls' = After(answer), elementsData' = data,
               verb = "POST" => answer = created,
               verb = "PUT" => \E revision \in Nat : answer = <<[id |-> element, revision |-> revision]>>,
               elementsOpen /\ ~elementsSpoiled /\ elementsLoaded =>
                   ListIsPatched(elementsShown, After(answer), data, list),
               elementsOpen /\ ~elementsSpoiled /\ ~elementsLoaded =>
                   ListIsExpected(elementsShown, After(answer), data, list)
        PROVE  ElementsInv'
    <2>1. WithAnswer(call, answer) \in ElementCalls(elementsKind) /\ WithAnswer(call, answer).page = call.page /\ WithAnswer(call, answer).served
      BY <1>2, <1>7, ElementCallServed
    <2>2. After(answer) \in Seq(ElementCalls(elementsKind)) /\ DOMAIN After(answer) = DOMAIN elementsCalls
          /\ \A j \in DOMAIN elementsCalls : After(answer)[j] = IF j = i THEN WithAnswer(call, answer) ELSE elementsCalls[j]
      BY <1>1, <2>1, ReplacedElement
    <2>3. StraysAreServed(elementsCalls) => StraysAreServed(After(answer))
      BY <1>1, <2>1, StraysServed
    <2> HIDE DEF After
    <2>4. ElementTypes'
      BY <1>6, <1>7, <2>2 DEF ElementsInv, ElementTypes
    <2>5. ClosedIsEmpty'
      BY <1>6, <1>7, <2>1, <2>2 DEF ElementsInv, ClosedIsEmpty
    <2>6. elementsOpen /\ ~elementsSpoiled =>
              ElementsAreRight(elementsShown, After(answer), data, list, elementsLoaded)
      BY <1>7, <2>3 DEF ElementsInv, ElementsAreRight
    <2> QED
      BY <1>6, <1>7, <2>4, <2>5, <2>6 DEF ElementsInv
  <1>8. none \in Seq(ElementRecords) /\ (verb = "POST" => created \in Seq(ElementRecords))
    BY <1>3, EmptySeq DEF ElementRecords
  \* A change that is served is one of the page, and its list has come.
  <1>9. ASSUME elementsOpen, ~elementsSpoiled, verb # "GET"
        PROVE  call.page /\ elementsLoaded /\ ListIsPatched(elementsShown, elementsCalls, elementsData, list)
    <2>1. ElementsAreRight(elementsShown, elementsCalls, elementsData, list, elementsLoaded)
      BY <1>9 DEF ElementsInv
    <2>2. call.page
      BY <1>2, <1>5, <1>9, <2>1, ElementCallFields DEF ElementsAreRight, StraysAreServed, IsElementRead
    <2>3. elementsLoaded
      BY <1>9, <2>1, <2>2 DEF ElementsAreRight, ListIsExpected, IsElementRead
    <2> QED
      BY <2>1, <2>2, <2>3 DEF ElementsAreRight
  \* A read that is served.
  <1>10. ASSUME NEW answer \in Seq(ElementRecords), verb = "GET",
                call.request = list => ShowsExisting(answer, elementsData),
                elementsCalls' = After(answer), elementsData' = elementsData
         PROVE  ElementsInv'
    <2>1. /\ WithAnswer(call, answer) \in ElementCalls(elementsKind) /\ WithAnswer(call, answer).request = call.request
          /\ WithAnswer(call, answer).page = call.page /\ WithAnswer(call, answer).answer = answer
      BY <1>2, <1>10, ElementCallServed
       <2>2. elementsOpen /\ ~elementsSpoiled /\ elementsLoaded =>
              ListIsPatched(elementsShown, After(answer), elementsData, list)
      BY <1>1, <1>10, <2>1, ReadServed DEF ElementsInv, ElementsAreRight, IsElementRead
    <2>3. elementsOpen /\ ~elementsSpoiled /\ ~elementsLoaded =>
              ListIsExpected(elementsShown, After(answer), elementsData, list)
      BY <1>1, <1>10, <2>1, ExpectedServed DEF ElementsInv, ElementsAreRight
    <2> HIDE DEF After
    <2> QED
      BY <1>1, <1>7, <1>10, <2>2, <2>3
  <1>11. CASE call.request = list /\ elementsCalls' = After(listed) /\ elementsData' = elementsData
    <2>1. listed \in Seq(ElementRecords) /\ ShowsExisting(listed, elementsData)
      BY ServedListIsRight DEF ElementsInv
    <2> HIDE DEF listed, After
    <2> QED
      BY <1>3, <1>10, <1>11, <2>1
  <1>12. CASE call.request # list /\ verb = "GET" /\ elementsCalls' = After(none) /\ elementsData' = elementsData
    <2> HIDE DEF none, After
    <2> QED
      BY <1>8, <1>10, <1>12
  <1>13. CASE /\ verb = "POST" /\ elementsData[element] = Unborn
              /\ elementsData' = [elementsData EXCEPT ![element] = 0] /\ elementsCalls' = After(created)
    <2> DEFINE data == [elementsData EXCEPT ![element] = 0]
    <2>1. data \in ElementRevisions
      BY <1>1 DEF ElementRevisions
    <2>2. /\ WithAnswer(call, created) \in ElementCalls(elementsKind) /\ WithAnswer(call, created).request = call.request
          /\ WithAnswer(call, created).page = call.page /\ WithAnswer(call, created).element = element /\ WithAnswer(call, created).served
      BY <1>2, <1>8, <1>13, ElementCallServed
    <2>3. elementsOpen /\ ~elementsSpoiled =>
              elementsLoaded /\ ListIsPatched(elementsShown, After(created), data, list)
      <3> SUFFICES ASSUME elementsOpen, ~elementsSpoiled
                   PROVE  elementsLoaded /\ ListIsPatched(elementsShown, After(created), data, list)
        OBVIOUS
      <3>1. call.page /\ elementsLoaded /\ ListIsPatched(elementsShown, elementsCalls, elementsData, list)
        BY <1>9, <1>13
      <3> HIDE DEF created
      <3> QED
        BY <1>1, <1>3, <1>5, <1>13, <2>2, <3>1, CreateServed
    <2> HIDE DEF data, After, created
    <2>4. elementsData' = data
      BY <1>13 DEF data
    <2> QED
      BY <1>7, <1>8, <1>13, <2>1, <2>3, <2>4
  <1>14. ASSUME NEW answer \in Seq(ElementRecords), NEW revision \in Nat \cup {Deleted},
                elementsData[element] >= 0, verb # "GET",
                \/ verb = "PUT" /\ revision = elementsData[element] + 1 /\ answer = <<[id |-> element, revision |-> revision]>>
                \/ verb = "DELETE" /\ revision = Deleted,
                elementsCalls' = After(answer), elementsData' = [elementsData EXCEPT ![element] = revision]
         PROVE  ElementsInv'
    <2> DEFINE data == [elementsData EXCEPT ![element] = revision]
    <2>1. data \in ElementRevisions
      BY <1>1, <1>14 DEF ElementRevisions
    <2>2. verb = "PUT" => revision \in Nat /\ answer = <<[id |-> element, revision |-> revision]>>
      BY <1>1, <1>3, <1>14 DEF ElementRevisions, Unborn, Deleted
    <2>3. /\ WithAnswer(call, answer) \in ElementCalls(elementsKind) /\ WithAnswer(call, answer).request = call.request
          /\ WithAnswer(call, answer).page = call.page /\ WithAnswer(call, answer).element = element /\ WithAnswer(call, answer).served
          /\ WithAnswer(call, answer).answer = answer
      BY <1>2, <1>14, <2>2, ElementCallServed
    <2>4. elementsOpen /\ ~elementsSpoiled =>
              elementsLoaded /\ ListIsPatched(elementsShown, After(answer), data, list)
      <3> SUFFICES ASSUME elementsOpen, ~elementsSpoiled
                   PROVE  elementsLoaded /\ ListIsPatched(elementsShown, After(answer), data, list)
        OBVIOUS
      <3>1. call.page /\ elementsLoaded /\ ListIsPatched(elementsShown, elementsCalls, elementsData, list)
        BY <1>9, <1>14
      <3>2. verb = "PUT" => AnswersWith(WithAnswer(call, answer), revision)
        BY <2>2, <2>3 DEF AnswersWith
           <3> QED
        BY <1>1, <1>3, <1>5, <1>14, <2>3, <3>1, <3>2, ChangeServed
    <2> HIDE DEF data, After
    <2>5. elementsData' = data
      BY <1>14 DEF data
    <2> QED
      BY <1>7, <1>14, <2>1, <2>2, <2>4, <2>5
  <1>15. CASE /\ verb = "PUT" /\ elementsData[element] \in 0 .. MaxRevision - 1
              /\ elementsData' = [elementsData EXCEPT ![element] = elementsData[element] + 1]
              /\ elementsCalls' = After(updated)
    <2>1. element \in Elements /\ elementsData[element] >= 0 /\ elementsData[element] + 1 \in Nat
      BY <1>3, <1>15, ElementsAssumption
    <2>2. updated \in Seq(ElementRecords)
      BY <2>1 DEF ElementRecords
    <2> HIDE DEF After
    <2> QED
      BY <1>14, <1>15, <2>1, <2>2
  <1>16. CASE /\ verb = "DELETE" /\ element \in Existing
              /\ elementsData' = [elementsData EXCEPT ![element] = Deleted] /\ elementsCalls' = After(none)
    <2>1. elementsData[element] >= 0
      BY <1>16 DEF Existing
    <2> HIDE DEF After, none
    <2> QED
      BY <1>8, <1>14, <1>16, <2>1
  <1> HIDE DEF After, listed, none, created, updated
  <1> QED
    BY <1>5, <1>11, <1>12, <1>13, <1>15, <1>16

\* The list that an answer leaves is a list.
LEMMA AnswerIsShown ==
    ASSUME NEW kind, NEW call \in ElementCalls(kind), call.served, NEW shown \in Seq(ElementRecords)
    PROVE  /\ call.answer \in Seq(ElementRecords)
           /\ call.request.verb = "POST" => shown \o call.answer \in Seq(ElementRecords)
           /\ call.request.verb = "PUT" => Replaced(shown, call.answer[1]) \in Seq(ElementRecords)
           /\ Without(shown, call.element) \in Seq(ElementRecords)
  <1>1. call.answer \in Seq(ElementRecords)
    BY ElementCallFields
  <1>2. shown \o call.answer \in Seq(ElementRecords)
    BY <1>1, Joined
  <1>3. ASSUME call.request.verb = "PUT"
        PROVE  Replaced(shown, call.answer[1]) \in Seq(ElementRecords)
    <2>1. PICK revision \in Nat : AnswersWith(call, revision)
      BY <1>3, ElementCallFields
    <2> DEFINE new == call.answer[1]
    <2>2. call.element \in Elements
      BY <1>3, ElementCallFields
    <2>3. new = [id |-> call.element, revision |-> revision]
      BY <2>1 DEF AnswersWith
    <2>4. new \in ElementRecords
      BY <2>2, <2>3 DEF ElementRecords
    <2> HIDE DEF new
    <2>5. \A k \in DOMAIN shown : shown[k] \in ElementRecords
      BY ElementOfSeq
    <2>6. Replaced(shown, new) \in [DOMAIN shown -> ElementRecords]
      BY <2>4, <2>5 DEF Replaced
    <2>7. Replaced(shown, new) \in Seq(ElementRecords)
      BY <2>6, Mapped
    <2> QED
      BY <2>7 DEF new
  <1>4. Without(shown, call.element) \in Seq(ElementRecords)
    <2> DEFINE kept == {k \in DOMAIN shown : shown[k].id # call.element}
    <2>1. kept \in SUBSET DOMAIN shown
      OBVIOUS
    <2>2. Without(shown, call.element) = Filtered(shown, kept)
      BY DEF Without
    <2> HIDE DEF kept
    <2> QED
      BY <2>1, <2>2, FilteredElements
  <1> QED
    BY <1>1, <1>2, <1>3, <1>4

\* An answer to a request of the page.
LEMMA PageAnsweredStep ==
    ASSUME ElementsInv, NEW i \in DOMAIN elementsCalls, ElementAnswered(i), elementsCalls[i].page
    PROVE  ElementsInv'
  <1> DEFINE call == elementsCalls[i]
             list == Of(elementsKind).list
             verb == call.request.verb
             left == RemoveAt(elementsCalls, i)
  <1>1. elementsCalls \in Seq(ElementCalls(elementsKind)) /\ elementsData \in ElementRevisions /\ elementsShown \in Seq(ElementRecords)
    BY DEF ElementsInv, ElementTypes
  <1>2. call \in ElementCalls(elementsKind)
    BY <1>1, ElementOfSeq
  <1>3. verb \in {"GET", "POST", "PUT", "DELETE"} /\ list.verb = "GET"
    BY <1>2, ElementCallFields, ElementRequestsTell
  <1>4. call.served /\ elementsCalls' = left
    BY DEF ElementAnswered
  <1>5. /\ elementsKind' = elementsKind /\ elementsOpen' = elementsOpen /\ elementsData' = elementsData
        /\ elementsLoaded' = (elementsLoaded \/ call.request = list)
        /\ elementsSpoiled' = (elementsSpoiled \/ (verb = "PUT" /\ Older(elementsShown, call.answer[1])))
        /\ elementsDefault' \in BOOLEAN
    BY DEF ElementAnswered, PatchElements, IsElementList, ElementsInv, ElementTypes
  <1>6. /\ call.request = list => elementsShown' = call.answer
        /\ call.request # list /\ verb = "POST" /\ elementsLoaded => elementsShown' = elementsShown \o call.answer
        /\ call.request # list /\ verb = "PUT" => elementsShown' = Replaced(elementsShown, call.answer[1])
        /\ call.request # list /\ verb = "DELETE" => elementsShown' = Without(elementsShown, call.element)
        /\ call.request # list /\ (verb = "GET" \/ (verb = "POST" /\ ~elementsLoaded)) => elementsShown' = elementsShown
    BY <1>3 DEF ElementAnswered, PatchElements, IsElementList
  <1>7. elementsOpen
    BY DEF ElementsInv, ClosedIsEmpty
  <1>8. left \in Seq(ElementCalls(elementsKind))
    BY <1>1, Removed
  <1>9. elementsShown' \in Seq(ElementRecords)
    BY <1>1, <1>2, <1>3, <1>4, <1>6, AnswerIsShown
  <1>10. elementsLoaded \in BOOLEAN /\ elementsSpoiled \in BOOLEAN
    BY DEF ElementsInv, ElementTypes
  <1> HIDE DEF left, list, call, verb
  <1>11. elementsLoaded' \in BOOLEAN /\ elementsSpoiled' \in BOOLEAN
    BY <1>5, <1>10
  <1>12. ElementTypes'
    BY <1>4, <1>5, <1>8, <1>9, <1>11 DEF ElementsInv, ElementTypes
  <1>13. ClosedIsEmpty'
    BY <1>5, <1>7 DEF ClosedIsEmpty
  <1>14. ASSUME ~elementsSpoiled'
         PROVE  ElementsAreRight(elementsShown', left, elementsData, list, elementsLoaded')
    <2>1. ~elementsSpoiled /\ (verb = "PUT" => ~Older(elementsShown, call.answer[1]))
      BY <1>5, <1>14
    <2>2. ElementsAreRight(elementsShown, elementsCalls, elementsData, list, elementsLoaded)
      BY <1>7, <2>1 DEF ElementsInv, list
    <2>3. StraysAreServed(left)
      BY <1>1, <2>2, StraysLeft DEF ElementsAreRight, left
    <2>4. CASE ~elementsLoaded
      <3>1. ListIsExpected(elementsShown, elementsCalls, elementsData, list) /\ verb = "GET"
        BY <2>2, <2>4 DEF ElementsAreRight, ListIsExpected, IsElementRead, verb, call
      <3>2. CASE call.request = list
        <4>1. ListIsPatched(call.answer, left, elementsData, list)
          BY <1>1, <1>3, <1>4, <3>1, <3>2, ListArrives DEF left, call, AsksForList
        <4> QED
          BY <1>5, <1>6, <2>3, <3>2, <4>1 DEF ElementsAreRight
      <3>3. CASE call.request # list
        <4>1. ListIsExpected(elementsShown, left, elementsData, list)
          BY <1>1, <3>1, <3>3, ExpectedLeft DEF left, call, AsksForList
        <4> QED
          BY <1>5, <1>6, <2>3, <2>4, <3>1, <3>3, <4>1 DEF ElementsAreRight
      <3> QED
        BY <3>2, <3>3
    <2>5. CASE elementsLoaded
      <3>1. ListIsPatched(elementsShown, elementsCalls, elementsData, list)
        BY <2>2, <2>5 DEF ElementsAreRight
      <3>2. call.request # list /\ call.page
        BY <3>1 DEF ListIsPatched, CallFits, call
      <3>3. ListIsPatched(elementsShown', left, elementsData, list)
        <4>1. CASE verb = "GET"
          <5>1. ListIsPatched(elementsShown, left, elementsData, list)
            BY <1>1, <3>1, <4>1, ElementLeft DEF left, call, verb, IsElementRead
          <5> QED
            BY <1>6, <3>2, <4>1, <5>1
        <4>2. CASE verb = "POST"
          <5>1. ListIsPatched(elementsShown \o call.answer, left, elementsData, list)
            BY <1>1, <1>4, <3>1, <3>2, <4>2, CreatedArrives DEF left, call, verb
          <5> QED
            BY <1>6, <2>5, <3>2, <4>2, <5>1
        <4>3. CASE verb = "PUT"
          <5>1. ListIsPatched(Replaced(elementsShown, call.answer[1]), left, elementsData, list)
            BY <1>1, <1>4, <2>1, <3>1, <3>2, <4>3, UpdatedArrives DEF left, call, verb
          <5> QED
            BY <1>6, <3>2, <4>3, <5>1
        <4>4. CASE verb = "DELETE"
          <5>1. ListIsPatched(Without(elementsShown, call.element), left, elementsData, list)
            BY <1>1, <1>4, <3>1, <3>2, <4>4, DeletedArrives DEF left, call, verb
          <5> QED
            BY <1>6, <3>2, <4>4, <5>1
        <4> QED
          BY <1>3, <4>1, <4>2, <4>3, <4>4
      <3> QED
        BY <1>5, <2>3, <2>5, <3>3 DEF ElementsAreRight
    <2> QED
      BY <2>4, <2>5
  <1> QED
    BY <1>4, <1>5, <1>12, <1>13, <1>14 DEF ElementsInv, list

\* A request that is gone and had nothing to say to the page.
LEMMA ElementCallGone ==
    ASSUME ElementsInv, NEW i \in DOMAIN elementsCalls, elementsCalls' = RemoveAt(elementsCalls, i),
           UNCHANGED <<elementsKind, elementsOpen, elementsLoaded, elementsDefault, elementsShown, elementsData>>,
           elementsSpoiled' \in BOOLEAN,
           ~elementsSpoiled' =>
               /\ ~elementsSpoiled
               /\ elementsCalls[i].page =>
                     /\ elementsCalls[i].request # Of(elementsKind).list
                     /\ ~elementsCalls[i].served \/ IsElementRead(elementsCalls[i])
    PROVE  ElementsInv'
  <1> DEFINE left == RemoveAt(elementsCalls, i)
             list == Of(elementsKind).list
  <1>1. elementsCalls \in Seq(ElementCalls(elementsKind))
    BY DEF ElementsInv, ElementTypes
  <1>2. left \in Seq(ElementCalls(elementsKind))
    BY <1>1, Removed
  <1>3. \A j \in DOMAIN left : \E k \in DOMAIN elementsCalls \ {i} : left[j] = elementsCalls[k]
    BY <1>1, RemovedElements
  <1> HIDE DEF left, list
  <1>4. elementsCalls' = left
    BY DEF left
  <1>5. ElementTypes'
    BY <1>2, <1>4 DEF ElementsInv, ElementTypes
  <1>6. ClosedIsEmpty'
    BY <1>3, <1>4 DEF ElementsInv, ClosedIsEmpty
  <1>7. ASSUME elementsOpen, ~elementsSpoiled'
        PROVE  ElementsAreRight(elementsShown, left, elementsData, list, elementsLoaded)
    <2>1. ElementsAreRight(elementsShown, elementsCalls, elementsData, list, elementsLoaded)
      BY <1>7 DEF ElementsInv, list
    <2>2. StraysAreServed(left)
      BY <1>1, <2>1, StraysLeft DEF ElementsAreRight, left
    <2>3. ~AsksForList(elementsCalls[i], list)
      BY <1>7 DEF AsksForList, list
    <2>4. ~elementsLoaded => ListIsExpected(elementsShown, left, elementsData, list)
      BY <1>1, <2>1, <2>3, ExpectedLeft DEF ElementsAreRight, left
    <2>5. elementsLoaded => ListIsPatched(elementsShown, left, elementsData, list)
      BY <1>1, <1>7, <2>1, ElementLeft DEF ElementsAreRight, left
    <2> QED
      BY <2>2, <2>4, <2>5 DEF ElementsAreRight
  <1> QED
    BY <1>4, <1>5, <1>6, <1>7 DEF ElementsInv, list

\* An answer is taken by the page that asked, if it is still there.
LEMMA ElementAnsweredStep ==
    ASSUME ElementsInv, NEW i \in DOMAIN elementsCalls, ElementAnswered(i)
    PROVE  ElementsInv'
  <1>1. CASE elementsCalls[i].page
    BY <1>1, PageAnsweredStep
  <1>2. CASE ~elementsCalls[i].page
    <2>1. elementsSpoiled' = elementsSpoiled /\ elementsSpoiled \in BOOLEAN
      BY <1>2 DEF ElementAnswered, ElementsInv, ElementTypes
    <2>2. /\ elementsCalls' = RemoveAt(elementsCalls, i)
          /\ UNCHANGED <<elementsKind, elementsOpen, elementsLoaded, elementsDefault, elementsShown, elementsData>>
      BY <1>2 DEF ElementAnswered
    <2> QED
      BY <1>2, <2>1, <2>2, ElementCallGone
  <1> QED
    BY <1>1, <1>2

\* A request that fails leaves the list as it is, and spoils it if it mattered.
LEMMA ElementFailedStep ==
    ASSUME ElementsInv, NEW i \in DOMAIN elementsCalls, ElementFailed(i)
    PROVE  ElementsInv'
  <1> DEFINE call == elementsCalls[i]
  <1>1. elementsSpoiled \in BOOLEAN /\ elementsCalls \in Seq(ElementCalls(elementsKind))
    BY DEF ElementsInv, ElementTypes
  <1>2. call \in ElementCalls(elementsKind)
    BY <1>1, ElementOfSeq
  <1>3. call.page \in BOOLEAN /\ call.served \in BOOLEAN
    BY <1>2, ElementCallFields
  <1>4. elementsSpoiled' = (elementsSpoiled \/ (call.page /\ (IsElementList(call) \/ (call.served /\ ~IsElementRead(call)))))
    BY DEF ElementFailed
  <1>5. elementsSpoiled' \in BOOLEAN
    BY <1>1, <1>3, <1>4 DEF IsElementList, IsElementRead
  <1>6. ~elementsSpoiled' =>
            ~elementsSpoiled /\ (call.page => call.request # Of(elementsKind).list /\ (~call.served \/ IsElementRead(call)))
    BY <1>4 DEF IsElementList
  <1>7. /\ elementsCalls' = RemoveAt(elementsCalls, i)
        /\ UNCHANGED <<elementsKind, elementsOpen, elementsLoaded, elementsDefault, elementsShown, elementsData>>
    BY DEF ElementFailed
  <1> QED
    BY <1>5, <1>6, <1>7, ElementCallGone

\* Nothing that a list still needs is lost: while its page is not spoiled, every element
\* that is missing, out of date or gone has an answer on its way.
THEOREM ElementsInvariant == ElementsSpec => []ElementsInv
  <1>1. ElementsInit => ElementsInv
    <2> SUFFICES ASSUME ElementsInit
                 PROVE  ElementsInv
      OBVIOUS
    <2>1. <<>> \in Seq(ElementRecords) /\ <<>> \in Seq(ElementCalls(elementsKind))
      BY EmptySeq
    <2>2. ElementTypes
      <3>1. elementsData \in ElementRevisions
        BY DEF ElementsInit, ElementRevisions, Unborn
      <3> QED
        BY <2>1, <3>1 DEF ElementsInit, ElementTypes
    <2>3. ClosedIsEmpty /\ ~elementsOpen
      BY DEF ElementsInit, ClosedIsEmpty
    <2> QED
      BY <2>2, <2>3 DEF ElementsInv
  <1>2. ElementsInv /\ [ElementsNext]_elementVars => ElementsInv'
    <2> SUFFICES ASSUME ElementsInv, [ElementsNext]_elementVars
                 PROVE  ElementsInv'
      OBVIOUS
    <2>1. CASE UNCHANGED elementVars
      BY <2>1 DEF elementVars, ElementsInv, ElementTypes, ClosedIsEmpty
    <2>2. CASE OpenElements
      BY <2>2, OpenElementsStep
    <2>3. CASE LeaveElements
      BY <2>3, LeaveElementsStep
    <2>4. ASSUME NEW element \in Elements, SubmitNewElement(element) \/ SubmitOrRemove(element)
          PROVE  ElementsInv'
      BY <2>4, SubmitElementStep
    <2>5. ASSUME NEW i \in DOMAIN elementsCalls, ServeElement(i) \/ ElementAnswered(i) \/ ElementFailed(i)
          PROVE  ElementsInv'
      BY <2>5, ServeElementStep, ElementAnsweredStep, ElementFailedStep
    <2> QED
      BY <2>1, <2>2, <2>3, <2>4, <2>5 DEF ElementsNext
  <1> QED
    BY <1>1, <1>2, PTL DEF ElementsSpec

\* A page of a tool that has all its answers and is not spoiled lists each version or
\* nature once and as the backend has it, although it never reads its list again.
THEOREM PatchedListsAreRight == ElementsSpec => []PatchedListIsRight
  <1>1. ElementsInv => PatchedListIsRight
    <2> SUFFICES ASSUME ElementsInv, elementsOpen, ~elementsSpoiled, elementsCalls = <<>>
                 PROVE  /\ {elementsShown[i] : i \in DOMAIN elementsShown} = {Element(element) : element \in Existing}
                        /\ \A i, k \in DOMAIN elementsShown : elementsShown[i].id = elementsShown[k].id => i = k
      BY DEF PatchedListIsRight
    <2> DEFINE list == Of(elementsKind).list
    <2>1. ElementsAreRight(elementsShown, elementsCalls, elementsData, list, elementsLoaded)
      BY DEF ElementsInv
    <2> HIDE DEF list
    <2>2. DOMAIN elementsCalls = {}
      OBVIOUS
    <2>3. elementsLoaded /\ ListIsPatched(elementsShown, elementsCalls, elementsData, list)
      BY <2>1, <2>2 DEF ElementsAreRight, ListIsExpected
    <2>4. Once(elementsShown)
      BY <2>3 DEF ListIsPatched
    <2>5. \A i \in DOMAIN elementsShown : elementsData[elementsShown[i].id] = elementsShown[i].revision
      BY <2>2, <2>3 DEF ListIsPatched, WillBeRight, IsUpdated, IsDeleted
    <2>6. \A element \in Elements : elementsData[element] >= 0 => Shows(elementsShown, element)
      BY <2>2, <2>3 DEF ListIsPatched, IsCreated
    <2>7. elementsShown \in Seq(ElementRecords)
      BY DEF ElementsInv, ElementTypes
    <2>8. ASSUME NEW i \in DOMAIN elementsShown
          PROVE  elementsShown[i].id \in Existing /\ elementsShown[i] = Element(elementsShown[i].id)
      <3>1. elementsShown[i] \in ElementRecords /\ elementsShown[i].id \in Elements /\ elementsShown[i].revision \in Nat
        BY <2>7, ShownFields
      <3>2. elementsShown[i] = [id |-> elementsShown[i].id, revision |-> elementsShown[i].revision]
        BY <3>1 DEF ElementRecords
      <3> QED
        BY <2>5, <3>1, <3>2 DEF Existing, Element
    <2>9. ASSUME NEW element \in Existing
          PROVE  \E i \in DOMAIN elementsShown : elementsShown[i] = Element(element)
      <3>1. PICK i \in DOMAIN elementsShown : elementsShown[i].id = element
        BY <2>6 DEF Existing, Shows
      <3> QED
        BY <2>8, <3>1
    <2>10. {elementsShown[i] : i \in DOMAIN elementsShown} = {Element(element) : element \in Existing}
      BY <2>8, <2>9
    <2> QED
      BY <2>4, <2>10 DEF Once
  <1> QED
    BY <1>1, ElementsInvariant, PTL

=============================================================================
