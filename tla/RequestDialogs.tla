---------------------------- MODULE RequestDialogs ----------------------------
(***************************************************************************)
(* The pages and dialogs that send requests and wait for all of them:      *)
(* requesting a session with a persistent workspace, from the history of   *)
(* requests, read-only or provisioned; sharing one; giving feedback;       *)
(* creating and running a backup pipeline.                                 *)
(*                                                                         *)
(* A request may be refused, and one that took effect may still fail on    *)
(* its way back.  The user may leave while requests are under way.         *)
(***************************************************************************)
EXTENDS Integers, Sequences, FiniteSets, SequencesExt, Api

CONSTANTS
    Items,       \* the tools requested, the users shared with, the pipelines run
    MaxSubmits   \* bound on how often the user submits

ASSUME DialogsAssumption == Items # {} /\ IsFiniteSet(Items) /\ MaxSubmits \in Nat

VARIABLES
    dialogKind,    \* a member of Kinds
    dialogView,    \* "dialog", "left" or, after a success, "result"
    dialogBusy,    \* requestInProgress, loading or submitButton.disabled
    dialogItems,   \* what is to be requested: "out", "pending", "success" or "error"
    dialogAsked,   \* the items of the last submission
    dialogErrors,  \* errorCount of the last submission
    dialogCalls,   \* the requests under way
    dialogDone,    \* the backend: the items whose request took effect
    dialogSubmits  \* how often the user has submitted

requestDialogVars == <<dialogKind, dialogView, dialogBusy, dialogItems, dialogAsked, dialogErrors,
                dialogCalls, dialogDone, dialogSubmits>>

\* ways: "disables" the button while it waits, "leaves" after a success, "batch" sends a
\* request per item and waits for all, "gathers" errors, where others stop at the first.
Kinds == {"persistent", "history", "readonly", "provisioned", "sharing", "feedback", "backup", "trigger"}
WaysOf ==
    [persistent |-> {"disables"}, history |-> {}, readonly |-> {"disables", "leaves"},
     provisioned |-> {"disables", "leaves", "batch"}, sharing |-> {"disables", "leaves", "batch", "gathers"},
     feedback |-> {"disables", "leaves"}, backup |-> {"disables", "leaves"}, trigger |-> {"leaves"}]
Way(way) == way \in WaysOf[dialogKind]

Requested(item) ==
    CASE dialogKind = "sharing" -> ShareSession("session", item)
      [] dialogKind = "feedback" -> SubmitFeedback(item)
      [] dialogKind = "backup" -> CreateBackup(item)
      [] dialogKind = "trigger" -> CreatePipelineRun(item)
      [] OTHER -> RequestSession(item)

\* live: somebody still waits for the answer; result: what the backend made of it.
DialogCall(item) == [request |-> Requested(item), item |-> item, live |-> TRUE, result |-> "none"]

\* raise_if_conflicting_sessions and the check that a session is not shared twice.
Refused(call) == call.item \in dialogDone /\ call.request.about \in {"session", "shared"}

DialogsInit ==
    /\ dialogKind \in Kinds
    /\ dialogView = "dialog" /\ dialogBusy = FALSE
    /\ dialogDone \in SUBSET Items
    /\ dialogItems = [item \in Items |->
          CASE dialogKind = "sharing" -> IF item \in dialogDone THEN "success" ELSE "out"
            [] OTHER -> IF Way("batch") THEN "pending" ELSE "out"]
    /\ dialogAsked = {} /\ dialogErrors = 0 /\ dialogCalls = <<>> /\ dialogSubmits = 0

----------------------------------------------------------------------------
(* The user *)

\* addUser and removeUser, which nothing keeps the user from while a submission is under way.
EditUsers(item) ==
    /\ dialogKind = "sharing" /\ dialogView = "dialog"
    /\ \/ dialogItems[item] = "out" /\ dialogItems' = [dialogItems EXCEPT ![item] = "pending"]
       \/ dialogItems[item] \in {"pending", "error"} /\ dialogItems' = [dialogItems EXCEPT ![item] = "out"]
    /\ UNCHANGED <<dialogKind, dialogView, dialogBusy, dialogAsked, dialogErrors, dialogCalls,
                   dialogDone, dialogSubmits>>

\* A batch sends a request for each item that has not succeeded.
Batch == {item \in Items : dialogItems[item] \in {"pending", "error"}}

SubmitDialog ==
    /\ dialogView = "dialog" /\ ~dialogBusy /\ dialogSubmits < MaxSubmits
    /\ dialogAsked' \in IF Way("batch") THEN {Batch} ELSE {{item} : item \in Items}
    /\ dialogAsked' # {}
    /\ LET asked == SetToSeq(dialogAsked')
       IN  dialogCalls' = dialogCalls \o [i \in DOMAIN asked |-> DialogCall(asked[i])]
    /\ dialogBusy' = Way("disables")
    /\ dialogErrors' = 0
    /\ dialogSubmits' = dialogSubmits + 1
    /\ UNCHANGED <<dialogKind, dialogView, dialogItems, dialogDone>>

\* provisionWorkspace while the page is between two projects: the button is disabled, and
\* there is nothing to wait for.
SubmitWithoutProject ==
    /\ dialogKind = "provisioned" /\ dialogView = "dialog" /\ ~dialogBusy
    /\ dialogSubmits < MaxSubmits
    /\ dialogBusy' = TRUE
    /\ dialogAsked' = {}
    /\ dialogSubmits' = dialogSubmits + 1
    /\ UNCHANGED <<dialogKind, dialogView, dialogItems, dialogErrors, dialogCalls, dialogDone>>

\* The dialog is cancelled or another page opened: the answers still arrive.
LeaveDialog ==
    /\ dialogView = "dialog"
    /\ dialogView' = "left"
    /\ UNCHANGED <<dialogKind, dialogBusy, dialogItems, dialogAsked, dialogErrors, dialogCalls,
                   dialogDone, dialogSubmits>>

----------------------------------------------------------------------------
(* The backend, and the answers *)

ServeDialog(i) ==
    LET call == dialogCalls[i] IN
    /\ call.result = "none"
    /\ \/ /\ ~Refused(call)
          /\ dialogCalls' = [dialogCalls EXCEPT ![i].result = "ok"]
          /\ dialogDone' = dialogDone \cup {call.item}
       \/ /\ dialogCalls' = [dialogCalls EXCEPT ![i].result = "error"]
          /\ UNCHANGED dialogDone
    /\ UNCHANGED <<dialogKind, dialogView, dialogBusy, dialogItems, dialogAsked, dialogErrors, dialogSubmits>>

WaitsFor(calls) == \E k \in DOMAIN calls : calls[k].live

\* updateState, of the user who is listed now under the name that was sent.
Marked(item, state) ==
    IF dialogKind = "sharing" /\ dialogItems[item] # "out"
    THEN [dialogItems EXCEPT ![item] = state]
    ELSE dialogItems

\* Mutant: the first answer of a batch is taken for all.
AllAnswered(rest, succeeded) == succeeded
\* Every request of the batch has been answered.
AllEnded(rest, succeeded) == succeeded /\ (Way("batch") => ~WaitsFor(rest))

\* Mutant: the button stays disabled when a request has failed.
EnabledOnSuccess(rest, errors) == errors = 0 /\ ~WaitsFor(rest)
\* The submission is over, as far as the button is concerned.
Released(rest, errors) == (errors > 0 /\ ~Way("gathers")) \/ ~WaitsFor(rest)

\* What an answer does, when rest are the calls left.
Ends(rest, errors) ==
    /\ dialogErrors' = errors
    /\ dialogBusy' = (dialogBusy /\ ~Released(rest, errors))
    /\ dialogView' = IF Way("leaves") /\ AllEnded(rest, errors = 0) THEN "result" ELSE dialogView

DialogAnswered(i) ==
    LET call == dialogCalls[i]
        rest == RemoveAt(dialogCalls, i)
    IN  /\ call.live /\ call.result = "ok"
        /\ dialogCalls' = rest
        /\ dialogItems' = Marked(call.item, "success")
        /\ Ends(rest, IF Way("batch") THEN dialogErrors ELSE 0)
        /\ UNCHANGED <<dialogKind, dialogAsked, dialogDone, dialogSubmits>>

\* The first error of a batch drops the requests beside it, wherever they are on their
\* way, unless the errors are gathered.
DialogFailed(i) ==
    LET call == dialogCalls[i]
        rest == RemoveAt(dialogCalls, i)
        dropped == [k \in DOMAIN rest |-> [rest[k] EXCEPT !.live = @ /\ ~(Way("batch") /\ ~Way("gathers"))]]
    IN  /\ call.live
        /\ dialogCalls' = dropped
        /\ dialogItems' = Marked(call.item, "error")
        /\ Ends(dropped, IF Way("batch") THEN dialogErrors + 1 ELSE 1)
        /\ UNCHANGED <<dialogKind, dialogAsked, dialogDone, dialogSubmits>>

DialogsNext ==
    \/ \E item \in Items : EditUsers(item)
    \/ SubmitDialog
    \/ SubmitWithoutProject
    \/ LeaveDialog
    \/ \E i \in DOMAIN dialogCalls : ServeDialog(i) \/ DialogAnswered(i) \/ DialogFailed(i)

DialogsSpec == DialogsInit /\ [][DialogsNext]_requestDialogVars

----------------------------------------------------------------------------
(* Properties *)

DialogsTypeOK ==
    /\ dialogKind \in Kinds /\ dialogView \in {"dialog", "left", "result"} /\ dialogBusy \in BOOLEAN
    /\ dialogItems \in [Items -> {"out", "pending", "success", "error"}]
    /\ dialogAsked \subseteq Items /\ dialogDone \subseteq Items
    /\ dialogErrors \in 0 .. Cardinality(Items) /\ dialogSubmits \in 0 .. MaxSubmits
    /\ \A i \in DOMAIN dialogCalls : dialogCalls[i].item \in Items

\* A disabled button waits for an answer: no order of answers, failures and edits of the
\* list of users leaves it disabled with nothing under way - unless nothing was asked
\* for, as the workspace was provisioned while the page did not know its project.
BusyIsWaiting == dialogBusy => WaitsFor(dialogCalls) \/ dialogAsked = {}

\* What is shown as a success is one: a user marked green has access, and the sessions the
\* viewer is sent to exist, all of them.
SuccessIsReal ==
    /\ dialogKind = "sharing" => \A item \in Items : dialogItems[item] = "success" => item \in dialogDone
    /\ dialogView = "result" /\ Way("disables") => dialogAsked \subseteq dialogDone

=============================================================================
