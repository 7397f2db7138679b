------------------------------- MODULE PagedLists -------------------------------
(***************************************************************************)
(* Lists the frontend loads page by page as the user scrolls: the runs of  *)
(* a backup pipeline and the events of a project.  Both services are       *)
(* written alike and outlive the page or dialog that shows the list; a     *)
(* list is emptied when its owner, the pipeline or the project, is emitted *)
(* anew, while the requests under way are not cancelled.                   *)
(***************************************************************************)
EXTENDS Naturals, Sequences, SequencesExt, FiniteSets, Api

CONSTANTS
    Owners,         \* pipelines, or projects
    PageCount,      \* PageCount[o]: the pages the backend has of the list of o
    MaxListRequests \* bound on the requests that are sent

NoOwner == "no owner"
Undefined == "undefined"
Loading == "loading"
MaxPage == 2

ASSUME PagedListsAssumption ==
    /\ {NoOwner, Undefined, Loading} \cap Owners = {}
    /\ PageCount \in [Owners -> 0 .. MaxPage]
    /\ MaxListRequests \in Nat

VARIABLES
    listKind,       \* the runs of a pipeline or the events of a project
    listOwner,      \* what pipeline$ or project$ emitted last
    listPages,      \* pages: the owner of the page that is held, or its status
    listRequests,   \* the requests in the order in which they were sent
    listShown,      \* the page or the dialog is open
    listSubscribed, \* a page was opened: its subscription is never given up
    listFailed,     \* pages that failed since the list was emptied
    listOvertaken,  \* since then an answer came to a request sent before
    listRaised      \* since then an answer found no first page

listVars == <<listKind, listOwner, listPages, listRequests, listShown, listSubscribed,
              listFailed, listOvertaken, listRaised>>

PageRequest(owner, page) ==
    IF listKind = "runs" THEN GetPipelineRuns(owner, page) ELSE GetProjectEvents(owner, page)
OwnerOf(request) == request.call.key[1]
PageOf(request) == request.call.key[2]

ListRequest == [call : {PageRequest(o, n) : o \in Owners, n \in 1 .. MaxPage}, current : BOOLEAN]

ListsInit ==
    /\ listKind \in {"runs", "events"}
    /\ listOwner = NoOwner
    /\ listPages = <<>> /\ listRequests = <<>>
    /\ listShown = FALSE /\ listSubscribed = FALSE
    /\ listFailed = {} /\ listOvertaken = FALSE /\ listRaised = FALSE

\* pages[n - 1] = value: an array grows as far as it is written.
Assigned(pages, n, value) ==
    [k \in 1 .. IF n > Len(pages) THEN n ELSE Len(pages) |->
        IF k = n THEN value ELSE IF k <= Len(pages) THEN pages[k] ELSE Undefined]

PageAt(pages, n) == IF n <= Len(pages) THEN pages[n] ELSE Undefined

\* Mutant: only a page that is loaded is skipped.
LoadUnlessLoaded(pages, requests, owner, n) ==
    IF PageAt(pages, n) \notin {Undefined, Loading}
    THEN listPages' = pages /\ listRequests' = requests
    ELSE /\ listPages' = Assigned(pages, n, Loading)
         /\ Len(requests) < MaxListRequests
         /\ listRequests' = Append(requests, [call |-> PageRequest(owner, n), current |-> TRUE])

\* A page that is loaded or under way is skipped.
LoadPage(pages, requests, owner, n) ==
    IF PageAt(pages, n) # Undefined
    THEN listPages' = pages /\ listRequests' = requests
    ELSE /\ listPages' = Assigned(pages, n, Loading)
         /\ Len(requests) < MaxListRequests
         /\ listRequests' = Append(requests, [call |-> PageRequest(owner, n), current |-> TRUE])

\* The requests that are under way belong to the list that was emptied.
Outdated == [k \in DOMAIN listRequests |-> [listRequests[k] EXCEPT !.current = FALSE]]

\* Mutant: the owner changes and the list is kept.
PagesKept == listPages

ResetPages == <<>>

\* pipeline$ or project$ emits.  The first page of a pipeline is asked for at once by
\* whoever subscribed to it.
EmitOwner(owner) ==
    /\ listShown => owner \in {NoOwner, listOwner} \/ listOwner = NoOwner
    /\ listOwner' = owner
    /\ IF listKind = "runs" /\ listSubscribed /\ owner # NoOwner
       THEN LoadPage(ResetPages, Outdated, owner, 1)
       ELSE listPages' = ResetPages /\ listRequests' = Outdated
    /\ listFailed' = {} /\ listOvertaken' = FALSE /\ listRaised' = FALSE
    /\ UNCHANGED <<listKind, listShown, listSubscribed>>

\* The page of the runs opens, or the dialog with the events.
ShowList ==
    /\ ~listShown
    /\ listKind = "events" => listOwner # NoOwner
    /\ listShown' = TRUE /\ listSubscribed' = TRUE
    /\ IF listOwner = NoOwner
       THEN UNCHANGED <<listPages, listRequests>>
       ELSE LoadPage(listPages, listRequests, listOwner, 1)
    /\ UNCHANGED <<listKind, listOwner, listFailed, listOvertaken, listRaised>>

HideList ==
    /\ listShown
    /\ listShown' = FALSE
    /\ UNCHANGED <<listKind, listOwner, listPages, listRequests, listSubscribed,
                   listFailed, listOvertaken, listRaised>>

\* A page other than the first scrolls into view; project$ and model$, when they emit
\* anew, ask for the first page of the runs.
ObserveVisible(n) ==
    /\ listShown /\ listOwner # NoOwner
    /\ IF n = 1 THEN listKind = "runs" ELSE n \in DOMAIN listPages
    /\ LoadPage(listPages, listRequests, listOwner, n)
    /\ UNCHANGED <<listKind, listOwner, listShown, listSubscribed, listFailed,
                   listOvertaken, listRaised>>

\* Mutant: the array is one page too long.
InitializedTooLong(pages) ==
    IF pages[1] \in {Undefined, Loading} THEN pages
    ELSE [k \in 1 .. PageCount[pages[1]] + 1 |-> PageAt(pages, k)]

\* initalizePipelineRunWrapper: the array takes the length the first page names, or the
\* answer raises a TypeError after it was put in place.
Initialized(pages) ==
    IF pages[1] \in {Undefined, Loading} THEN pages
    ELSE [k \in 1 .. PageCount[pages[1]] |-> PageAt(pages, k)]

ListAnswered(k) == SubSeq(listRequests, 1, k - 1) \o SubSeq(listRequests, k + 1, Len(listRequests))

PageReturns(k) ==
    LET request == listRequests[k]
        pages == Assigned(listPages, PageOf(request), OwnerOf(request))
    IN  /\ listPages' = Initialized(pages)
        /\ listRaised' = (listRaised \/ pages[1] \in {Undefined, Loading})
        /\ listOvertaken' = (listOvertaken \/ ~request.current)
        /\ listRequests' = ListAnswered(k)
        /\ UNCHANGED <<listKind, listOwner, listShown, listSubscribed, listFailed>>

\* Nobody handles the error: the page stays marked as loading.
PageFails(k) ==
    /\ listFailed' = IF listRequests[k].current THEN listFailed \cup {PageOf(listRequests[k])}
                     ELSE listFailed
    /\ listRequests' = ListAnswered(k)
    /\ UNCHANGED <<listKind, listOwner, listPages, listShown, listSubscribed,
                   listOvertaken, listRaised>>

ListsNext ==
    \/ \E owner \in Owners \cup {NoOwner} : EmitOwner(owner)
    \/ ShowList \/ HideList
    \/ \E n \in 1 .. MaxPage : ObserveVisible(n)
    \/ \E k \in DOMAIN listRequests : PageReturns(k) \/ PageFails(k)

ListsSpec == ListsInit /\ [][ListsNext]_listVars

----------------------------------------------------------------------------
(* Properties *)

ListsTypeOK ==
    /\ listKind \in {"runs", "events"}
    /\ listOwner \in Owners \cup {NoOwner}
    /\ ToSet(listPages) \subseteq Owners \cup {Undefined, Loading} /\ Len(listPages) <= MaxPage
    /\ ToSet(listRequests) \subseteq ListRequest /\ Len(listRequests) <= MaxListRequests
    /\ listFailed \subseteq 1 .. MaxPage
    /\ {listShown, listSubscribed, listOvertaken, listRaised} \subseteq BOOLEAN

\* However the user scrolls, leaves and comes back, a list holds pages of its owner
\* alone, asks for no page twice at a time and always has the first page to take its
\* length from; only an answer to a request of a list that was emptied since breaks this.
OnlyOvertakenListsGoWrong ==
    ~listOvertaken =>
        /\ ToSet(listPages) \subseteq {listOwner, Undefined, Loading}
        /\ \A j, k \in DOMAIN listRequests :
              listRequests[j].current /\ listRequests[k].current
                 /\ PageOf(listRequests[j]) = PageOf(listRequests[k]) => j = k
        /\ ~listRaised

=============================================================================
