------------------------------- MODULE SessionList -------------------------------
(***************************************************************************)
(* The user's list of active sessions in the frontend                      *)
(* (sessions/user-sessions-wrapper, active-sessions, delete-session-dialog *)
(* and the service that holds the list).                                   *)
(*                                                                         *)
(* While the page is open the list is asked for again two seconds after    *)
(* each answer (expand and delay).  Every request is made by a             *)
(* subscription to user$ that only an error completes: when user$ emits    *)
(* again, all of them ask again.                                           *)
(***************************************************************************)
EXTENDS Naturals, Sequences, SequencesExt, FiniteSets, Arrays, Api

CONSTANTS
    ListedSessions, \* session ids
    MaxUsers,       \* bound on the emissions of user$
    MaxIdle,        \* idle subscriptions beyond this number are not counted
    MaxAsked        \* bound on the requests for the list under way

ASSUME SessionListAssumption ==
    {MaxUsers, MaxAsked} \subseteq Nat /\ MaxIdle \in Nat \ {0}

VARIABLES
    slUsers,    \* emissions of user$ so far
    slOpen,     \* the page is open
    slRemote,   \* sessions the backend has
    slEver,     \* sessions it has ever had
    slList,     \* _sessions
    slAsked,    \* subscriptions with a request under way, in the order they asked
    slDelayed,  \* answers to the page whose two seconds run
    slIdle,     \* subscriptions without, per sender
    slDialog,   \* the dialog that terminates sessions: where the request of each is
    slBusy,     \* its button is disabled
    slUnwatched \* its requests whose answer nobody awaits any more

slVars == <<slUsers, slOpen, slRemote, slEver, slList, slAsked, slDelayed, slIdle,
            slDialog, slBusy, slUnwatched>>
dialogVars == <<slDialog, slBusy, slUnwatched>>

Me == "me"
\* The page asks again after each answer, loadSessions does not.
Senders == {"page", "loadSessions"}
UndefinedList == [known |-> FALSE, of |-> {}]
ListOf(sessions) == [known |-> TRUE, of |-> sessions]
KnownLists == [known : BOOLEAN, of : SUBSET ListedSessions]
Ask(sender) == [call |-> GetSessionsForUser(Me), sender |-> sender, read |-> UndefinedList]

Steps == {"idle", "asked", "terminated", "refused", "answered"}
NoDialog == [s \in {} |-> "idle"]
Alive == {s \in DOMAIN slDialog : slDialog[s] \in {"asked", "terminated", "refused"}}

SessionListInit ==
    /\ slUsers = 0 /\ slOpen = FALSE
    /\ slRemote \in SUBSET ListedSessions /\ slEver = slRemote
    /\ slList = UndefinedList /\ slAsked = <<>> /\ slDelayed = 0
    /\ slIdle = [sender \in Senders |-> 0]
    /\ slDialog = NoDialog /\ slBusy = FALSE /\ slUnwatched = {}

Busy == Len(slAsked) + slDelayed

OneMoreIdle(sender) ==
    slIdle' = [slIdle EXCEPT ![sender] = IF @ < MaxIdle THEN @ + 1 ELSE @]

\* loadSessionsObservable: a subscription to user$ asks at once when there is a user.
Subscribe(sender) ==
    IF slUsers > 0
    THEN /\ Busy < MaxAsked
         /\ slAsked' = Append(slAsked, Ask(sender)) /\ UNCHANGED slIdle
    ELSE OneMoreIdle(sender) /\ UNCHANGED slAsked

\* user$ emits: every subscription asks, and a request under way is dropped (switchMap).
UserEmits ==
    /\ slUsers < MaxUsers
    /\ slUsers' = slUsers + 1
    /\ Busy + slIdle["page"] + slIdle["loadSessions"] <= MaxAsked
    /\ slAsked' = [k \in DOMAIN slAsked |-> Ask(slAsked[k].sender)]
                     \o [k \in 1 .. slIdle["page"] |-> Ask("page")]
                     \o [k \in 1 .. slIdle["loadSessions"] |-> Ask("loadSessions")]
    /\ slIdle' = [sender \in Senders |-> 0]
    /\ UNCHANGED <<slOpen, slRemote, slEver, slList, slDelayed, dialogVars>>

OpenPage ==
    /\ ~slOpen
    /\ slOpen' = TRUE
    /\ Subscribe("page")
    /\ UNCHANGED <<slUsers, slRemote, slEver, slList, slDelayed, dialogVars>>

\* untilDestroyed ends what the page asked for.
ClosePage ==
    /\ slOpen
    /\ slOpen' = FALSE
    /\ slAsked' = Filtered(slAsked, {k \in DOMAIN slAsked : slAsked[k].sender # "page"})
    /\ slIdle' = [slIdle EXCEPT !["page"] = 0]
    /\ slDelayed' = 0
    /\ UNCHANGED <<slUsers, slRemote, slEver, slList, dialogVars>>

\* The two seconds are over (expand).
DelayEnds ==
    /\ slDelayed > 0
    /\ slDelayed' = slDelayed - 1
    /\ slAsked' = Append(slAsked, Ask("page"))
    /\ UNCHANGED <<slUsers, slOpen, slRemote, slEver, slList, slIdle, dialogVars>>

ListServed(k) ==
    /\ ~slAsked[k].read.known
    /\ slAsked' = [slAsked EXCEPT ![k].read = ListOf(slRemote)]
    /\ UNCHANGED <<slUsers, slOpen, slRemote, slEver, slList, slDelayed, slIdle, dialogVars>>

SlAnswered(k) == slAsked' = RemoveAt(slAsked, k)
\* Mutant: only the first answer to the page is followed by a request.
AsksAgainOnce(k) ==
    slDelayed' = slDelayed + IF slAsked[k].sender = "page" /\ ~slList.known THEN 1 ELSE 0

AsksAgain(k) == slDelayed' = slDelayed + IF slAsked[k].sender = "page" THEN 1 ELSE 0

ListReturns(k) ==
    /\ slAsked[k].read.known
    /\ SlAnswered(k) /\ AsksAgain(k) /\ OneMoreIdle(slAsked[k].sender)
    /\ slList' = slAsked[k].read
    /\ UNCHANGED <<slUsers, slOpen, slRemote, slEver, dialogVars>>

\* Mutant: without catchError the page is not asked again.
FailsForGood(k) ==
    /\ SlAnswered(k) /\ UNCHANGED slDelayed
    /\ slList' = UndefinedList
    /\ UNCHANGED <<slUsers, slOpen, slRemote, slEver, slIdle, dialogVars>>

\* catchError completes the subscription with an undefined list.
ListFails(k) ==
    /\ SlAnswered(k) /\ AsksAgain(k)
    /\ slList' = UndefinedList
    /\ UNCHANGED <<slUsers, slOpen, slRemote, slEver, slIdle, dialogVars>>

----------------------------------------------------------------------------
(* Sessions come and go *)

\* A session was requested with one of the forms, which load the list then.
SessionRequested(s) ==
    /\ slOpen /\ s \notin slEver
    /\ slRemote' = slRemote \cup {s} /\ slEver' = slEver \cup {s}
    /\ Subscribe("loadSessions")
    /\ UNCHANGED <<slUsers, slOpen, slList, slDelayed, dialogVars>>

\* Another window or the job for idle sessions terminates a session.
SessionGoes(s) ==
    /\ s \in slRemote
    /\ slRemote' = slRemote \ {s}
    /\ UNCHANGED <<slUsers, slOpen, slEver, slList, slAsked, slDelayed, slIdle, dialogVars>>

\* A request that the dialog cancelled, or that it left behind, is handled all the same.
UnwatchedServed(s) ==
    /\ TerminateSession(s) \in slUnwatched
    /\ slUnwatched' = slUnwatched \ {TerminateSession(s)}
    /\ slRemote' = slRemote \ {s}
    /\ UNCHANGED <<slUsers, slOpen, slEver, slList, slAsked, slDelayed, slIdle, slDialog, slBusy>>

----------------------------------------------------------------------------
(* DeleteSessionDialogComponent *)

OpenTerminationDialog ==
    /\ slOpen /\ slDialog = NoDialog
    /\ \E S \in (SUBSET slList.of) \ {{}} : slDialog' = [s \in S |-> "idle"]
    /\ UNCHANGED <<slUsers, slOpen, slRemote, slEver, slList, slAsked, slDelayed, slIdle,
                   slBusy, slUnwatched>>

\* Requests the backend has not handled when nobody awaits them any more.
LeaveRequests ==
    slUnwatched' = slUnwatched \cup
        {TerminateSession(t) : t \in {u \in DOMAIN slDialog : slDialog[u] = "asked"}}

\* Every session of the dialog is asked to terminate, those that did so before too.
DeleteAllSessions ==
    /\ slDialog # NoDialog /\ ~slBusy
    /\ slBusy' = TRUE
    /\ slDialog' = [s \in DOMAIN slDialog |-> "asked"]
    /\ UNCHANGED slUnwatched
    /\ UNCHANGED <<slUsers, slOpen, slRemote, slEver, slList, slAsked, slDelayed, slIdle>>

\* The backend knows no session that has terminated.
TerminationServed(s) ==
    /\ s \in DOMAIN slDialog /\ slDialog[s] = "asked"
    /\ slDialog' = [slDialog EXCEPT ![s] = IF s \in slRemote
                                           THEN "terminated" ELSE "refused"]
    /\ slRemote' = slRemote \ {s}
    /\ UNCHANGED <<slUsers, slOpen, slEver, slList, slAsked, slDelayed, slIdle, slBusy, slUnwatched>>

\* Mutant: the dialog closes with the first answer.
FirstDone(s) == slDialog[s] = "terminated"

\* forkJoin: the last answer closes the dialog.
AllDone(s) == slDialog[s] = "terminated" /\ Alive = {s}

\* The session list is loaded once more when the dialog closes.
TerminationReturns(s) ==
    /\ s \in DOMAIN slDialog /\ slDialog[s] = "terminated"
    /\ IF AllDone(s)
       THEN slDialog' = NoDialog /\ slBusy' = FALSE /\ Subscribe("loadSessions")
       ELSE slDialog' = [slDialog EXCEPT ![s] = "answered"]
               /\ UNCHANGED <<slBusy, slAsked, slIdle>>
    /\ UNCHANGED <<slUsers, slOpen, slRemote, slEver, slList, slDelayed, slUnwatched>>

\* The first error cancels the other requests and offers the button again.
TerminationFails(s) ==
    /\ s \in Alive /\ slDialog[s] # "terminated"
    /\ slDialog' = [t \in DOMAIN slDialog |-> "idle"]
    /\ slBusy' = FALSE
    /\ LeaveRequests
    /\ UNCHANGED <<slUsers, slOpen, slRemote, slEver, slList, slAsked, slDelayed, slIdle>>

\* The user dismisses the dialog.
DismissDialog ==
    /\ slDialog # NoDialog
    /\ slDialog' = NoDialog /\ slBusy' = FALSE
    /\ LeaveRequests
    /\ UNCHANGED <<slUsers, slOpen, slRemote, slEver, slList, slAsked, slDelayed, slIdle>>

SessionListNext ==
    \/ UserEmits \/ OpenPage \/ ClosePage \/ DelayEnds
    \/ \E k \in DOMAIN slAsked : ListServed(k) \/ ListReturns(k) \/ ListFails(k)
    \/ OpenTerminationDialog \/ DeleteAllSessions \/ DismissDialog
    \/ \E s \in ListedSessions :
          \/ SessionRequested(s) \/ SessionGoes(s) \/ UnwatchedServed(s)
          \/ TerminationServed(s) \/ TerminationReturns(s) \/ TerminationFails(s)

SessionListSpec == SessionListInit /\ [][SessionListNext]_slVars

\* Each request is answered or fails in the end, and timers run out.
SessionListFairness ==
    /\ WF_slVars(DelayEnds)
    /\ WF_slVars(slAsked # <<>> /\ (ListReturns(1) \/ ListFails(1)))

----------------------------------------------------------------------------
(* Properties *)

SessionListTypeOK ==
    /\ slUsers \in 0 .. MaxUsers /\ slDelayed \in 0 .. MaxAsked
    /\ {slOpen, slBusy} \subseteq BOOLEAN
    /\ slRemote \subseteq slEver /\ slEver \subseteq ListedSessions
    /\ slList \in KnownLists
    /\ slAsked \in Seq([call : {GetSessionsForUser(Me)}, sender : Senders, read : KnownLists])
    /\ slIdle \in [Senders -> 0 .. MaxIdle]
    /\ slDialog \in UNION {[S -> Steps] : S \in SUBSET ListedSessions}
    /\ slUnwatched \subseteq {TerminateSession(s) : s \in ListedSessions}

\* While the page is open there is always a request, a delay or a subscription from
\* which the next refresh follows: no error and no emission of user$ ends the polling.
PollLives ==
    slOpen => \/ slDelayed > 0
              \/ \E r \in ToSet(slAsked) : r.sender = "page"
              \/ slUsers = 0 /\ slIdle["page"] > 0

\* The dialog closes by itself only when every session it names has terminated,
\* whatever was terminated elsewhere, failed and was tried again meanwhile.
ClosedMeansTerminated ==
    [][slBusy /\ slDialog' = NoDialog /\ ~DismissDialog
          => DOMAIN slDialog \cap slRemote' = {}]_slVars

\* A session that has terminated leaves the list of an open page for good: answers
\* read before may still list it, each of them is replaced in the end.
TerminatedLeaves ==
    \A s \in ListedSessions :
        <>[](slOpen /\ s \in slEver \ slRemote) => <>[](s \notin slList.of)

=============================================================================
