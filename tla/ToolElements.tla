----------------------------- MODULE ToolElements -----------------------------
(***************************************************************************)
(* The versions, or the natures, on the page of a tool:                    *)
(* ToolVersionComponent and ToolNatureComponent.  They read their list     *)
(* once and then patch it with the answer to each change, whatever they    *)
(* have heard in between.                                                  *)
(***************************************************************************)
EXTENDS Integers, Sequences, SequencesExt, FiniteSets, Arrays, Api

CONSTANTS
    Elements,         \* the versions or natures the tool may have
    MaxRevision,      \* bound on the revisions of an element
    MaxElementCalls   \* bound on the requests under way

ASSUME ElementsAssumption == IsFiniteSet(Elements) /\ MaxRevision \in Nat /\ MaxElementCalls \in Nat

VARIABLES
    elementsKind,     \* "versions" or "natures"
    elementsOpen,     \* the page is open
    elementsLoaded,   \* the list is not undefined
    elementsDefault,  \* the editor for a new element shows the default
    elementsShown,    \* toolVersions or toolNatures
    elementsData,     \* the backend: the revision of each element, Unborn or Deleted
    elementsCalls,    \* the requests under way
    elementsSpoiled   \* a change was lost, or what came may be out of date

elementVars == <<elementsKind, elementsOpen, elementsLoaded, elementsDefault, elementsShown,
                 elementsData, elementsCalls, elementsSpoiled>>

Tool == "tool"
Unborn == -1
Deleted == -2

\* The requests of each component.
VersionRequests ==
    [default |-> GetDefaultToolVersion(Tool), list |-> GetToolVersions(Tool),
     create |-> [element \in Elements |-> CreateToolVersion(Tool, element)],
     update |-> [element \in Elements |-> UpdateToolVersion(Tool, element)],
     delete |-> [element \in Elements |-> DeleteToolVersion(Tool, element)]]
NatureRequests ==
    [default |-> GetDefaultToolNature(Tool), list |-> GetToolNatures(Tool),
     create |-> [element \in Elements |-> CreateToolNature(Tool, element)],
     update |-> [element \in Elements |-> UpdateToolNature(Tool, element)],
     delete |-> [element \in Elements |-> DeleteToolNature(Tool, element)]]
Of(kind) == IF kind = "versions" THEN VersionRequests ELSE NatureRequests

\* page: the component that sent it is still there; answer: the list, or the element.
ElementCall(request, element) ==
    [request |-> request, element |-> element, page |-> TRUE, served |-> FALSE, answer |-> <<>>]

IsElementRead(call) == call.request.verb = "GET"
IsElementList(call) == call.request = Of(elementsKind).list
Element(element) == [id |-> element, revision |-> elementsData[element]]
Existing == {element \in Elements : elementsData[element] >= 0}

ElementsInit ==
    /\ elementsKind \in {"versions", "natures"}
    /\ elementsOpen = FALSE /\ elementsLoaded = FALSE /\ elementsDefault = FALSE
    /\ elementsShown = <<>>
    /\ elementsData \in [Elements -> {Unborn, 0}]
    /\ elementsCalls = <<>>
    /\ elementsSpoiled = FALSE

\* A change that the page before has sent may come after this page has read its list.
OpenElements ==
    LET asks == <<ElementCall(Of(elementsKind).default, Tool), ElementCall(Of(elementsKind).list, Tool)>> IN
    /\ ~elementsOpen
    /\ elementsOpen' = TRUE
    /\ Len(elementsCalls) + 2 <= MaxElementCalls
    /\ elementsCalls' = elementsCalls \o asks
    /\ elementsSpoiled' = \E i \in DOMAIN elementsCalls : ~IsElementRead(elementsCalls[i]) /\ ~elementsCalls[i].served
    /\ UNCHANGED <<elementsKind, elementsLoaded, elementsDefault, elementsShown, elementsData>>

LeaveElements ==
    /\ elementsOpen
    /\ elementsOpen' = FALSE /\ elementsLoaded' = FALSE /\ elementsDefault' = FALSE
    /\ elementsShown' = <<>>
    /\ elementsCalls' = [i \in DOMAIN elementsCalls |-> [elementsCalls[i] EXCEPT !.page = FALSE]]
    /\ UNCHANGED <<elementsKind, elementsData, elementsSpoiled>>

SendElement(request, element) ==
    /\ elementsOpen /\ Len(elementsCalls) < MaxElementCalls
    /\ elementsCalls' = Append(elementsCalls, ElementCall(request, element))
    /\ UNCHANGED <<elementsKind, elementsOpen, elementsLoaded, elementsDefault, elementsShown,
                   elementsData>>

\* submittedNewToolVersion: the editor is there before the list is.
SubmitNewElement(element) ==
    /\ elementsDefault
    /\ elementsSpoiled' = (elementsSpoiled \/ ~elementsLoaded)
    /\ SendElement(Of(elementsKind).create[element], element)

\* submittedValue and removeToolVersion, of an element that is shown.
SubmitOrRemove(element) ==
    /\ \E i \in DOMAIN elementsShown : elementsShown[i].id = element
    /\ UNCHANGED elementsSpoiled
    /\ \/ SendElement(Of(elementsKind).update[element], element)
       \/ SendElement(Of(elementsKind).delete[element], element)

----------------------------------------------------------------------------
(* The backend, and the answers *)

ServeElement(i) ==
    LET call == elementsCalls[i]
        e == call.element
        ids == SetToSeq(Existing)
        Answer(a) == elementsCalls' = [elementsCalls EXCEPT ![i] = [@ EXCEPT !.served = TRUE, !.answer = a]]
    IN  /\ ~call.served
        /\ CASE IsElementList(call) ->
                  /\ Answer([k \in DOMAIN ids |-> Element(ids[k])])
                  /\ UNCHANGED elementsData
             [] IsElementRead(call) /\ ~IsElementList(call) -> Answer(<<>>) /\ UNCHANGED elementsData
             [] call.request.verb = "POST" ->
                  /\ elementsData[e] = Unborn
                  /\ elementsData' = [elementsData EXCEPT ![e] = 0]
                  /\ Answer(<<[id |-> e, revision |-> 0]>>)
             [] call.request.verb = "PUT" ->
                  /\ elementsData[e] \in 0 .. MaxRevision - 1
                  /\ elementsData' = [elementsData EXCEPT ![e] = @ + 1]
                  /\ Answer(<<[id |-> e, revision |-> elementsData[e] + 1]>>)
             [] call.request.verb = "DELETE" ->
                  /\ e \in Existing
                  /\ elementsData' = [elementsData EXCEPT ![e] = Deleted]
                  /\ Answer(<<>>)
        /\ UNCHANGED <<elementsKind, elementsOpen, elementsLoaded, elementsDefault, elementsShown, elementsSpoiled>>

\* findIndex, then an assignment at the index; -1 when the element is gone, which adds
\* a property to the array and no element.
Replaced(shown, new) == [i \in DOMAIN shown |-> IF shown[i].id = new.id THEN new ELSE shown[i]]

\* An answer that is older than what is shown.
Older(shown, new) == \E i \in DOMAIN shown : shown[i].id = new.id /\ shown[i].revision > new.revision

\* Mutant: the first of the elements is dropped, not the one that was deleted.
WithoutFirst(shown, element) == IF shown = <<>> THEN shown ELSE Tail(shown)

Without(shown, element) == Filtered(shown, {i \in DOMAIN shown : shown[i].id # element})

\* What an answer does to the list; pushing to a list that is undefined throws.
PatchElements(call) ==
    /\ elementsShown' =
          CASE IsElementList(call) -> call.answer
            [] call.request.verb = "POST" /\ elementsLoaded -> elementsShown \o call.answer
            [] call.request.verb = "PUT" -> Replaced(elementsShown, call.answer[1])
            [] call.request.verb = "DELETE" -> Without(elementsShown, call.element)
            [] OTHER -> elementsShown
    /\ elementsSpoiled' =
          (elementsSpoiled \/ (call.request.verb = "PUT" /\ Older(elementsShown, call.answer[1])))
    /\ elementsLoaded' = (elementsLoaded \/ IsElementList(call))
    /\ elementsDefault' = (elementsDefault \/ (IsElementRead(call) /\ ~IsElementList(call)))

ElementAnswered(i) ==
    LET call == elementsCalls[i] IN
    /\ call.served
    /\ elementsCalls' = RemoveAt(elementsCalls, i)
    /\ IF call.page
       THEN PatchElements(call)
       ELSE UNCHANGED <<elementsLoaded, elementsDefault, elementsShown, elementsSpoiled>>
    /\ UNCHANGED <<elementsKind, elementsOpen, elementsData>>

\* No answer: the list stays as it was, and what took effect is not shown.
ElementFailed(i) ==
    LET call == elementsCalls[i] IN
    /\ elementsCalls' = RemoveAt(elementsCalls, i)
    /\ elementsSpoiled' = (elementsSpoiled \/ (call.page /\ (IsElementList(call) \/ (call.served /\ ~IsElementRead(call)))))
    /\ UNCHANGED <<elementsKind, elementsOpen, elementsLoaded, elementsDefault, elementsShown, elementsData>>

ElementsNext ==
    \/ OpenElements
    \/ LeaveElements
    \/ \E element \in Elements : SubmitNewElement(element) \/ SubmitOrRemove(element)
    \/ \E i \in DOMAIN elementsCalls : ServeElement(i) \/ ElementAnswered(i) \/ ElementFailed(i)

ElementsSpec == ElementsInit /\ [][ElementsNext]_elementVars

----------------------------------------------------------------------------
(* Properties *)

ElementsTypeOK ==
    /\ elementsKind \in {"versions", "natures"}
    /\ {elementsOpen, elementsLoaded, elementsDefault, elementsSpoiled} \subseteq BOOLEAN
    /\ \A i \in DOMAIN elementsShown : elementsShown[i] \in [id : Elements, revision : 0 .. MaxRevision]
    /\ elementsData \in [Elements -> Deleted .. MaxRevision]
    /\ Len(elementsCalls) <= MaxElementCalls

\* When every request of the page has been answered, its list, patched change by change,
\* holds each element of the tool once and as the backend has it, unless a change was
\* lost, an element was created before the list had come or an older answer came last.
PatchedListIsRight ==
    elementsOpen /\ ~elementsSpoiled /\ elementsCalls = <<>> =>
        /\ {elementsShown[i] : i \in DOMAIN elementsShown} = {Element(element) : element \in Existing}
        /\ \A i, k \in DOMAIN elementsShown : elementsShown[i].id = elementsShown[k].id => i = k

=============================================================================
