---------------------------- MODULE DialogsProofs ----------------------------
(***************************************************************************)
(* The dialogs that send requests, the dialog that shows the diagrams of a *)
(* model, and the stores behind the pages: for any items, diagrams and     *)
(* ids and any number of requests under way.                               *)
(***************************************************************************)
EXTENDS RequestDialogs, Diagrams, Stores, SequenceLemmas

-----------------------------------------------------------------------------
(* Dialogs that send one request or several *)

\* The requests of a submission, as they may be while they are under way.
DialogRequests ==
    {ShareSession("session", item) : item \in Items} \cup {SubmitFeedback(item) : item \in Items}
       \cup {CreateBackup(item) : item \in Items} \cup {CreatePipelineRun(item) : item \in Items}
       \cup {RequestSession(item) : item \in Items}
DialogCallSet ==
    [request : DialogRequests, item : Items, live : BOOLEAN, result : {"none", "ok", "error"}]

DialogTypes ==
    /\ dialogKind \in Kinds /\ dialogView \in {"dialog", "left", "result"} /\ dialogBusy \in BOOLEAN
    /\ dialogItems \in [Items -> {"out", "pending", "success", "error"}]
    /\ dialogAsked \subseteq Items /\ dialogDone \subseteq Items
    /\ dialogErrors \in Nat /\ dialogSubmits \in Nat
    /\ dialogCalls \in Seq(DialogCallSet)

\* What has been answered with a success took effect.
OkIsDone == \A i \in DOMAIN dialogCalls : dialogCalls[i].result = "ok" => dialogCalls[i].item \in dialogDone

\* Of what the last submission asked for, without an error so far, all has taken effect
\* or is still waited for.
AskedIsAwaited ==
    Way("disables") /\ dialogErrors = 0 =>
        \A item \in dialogAsked :
           item \in dialogDone \/ \E i \in DOMAIN dialogCalls : dialogCalls[i].live /\ dialogCalls[i].item = item

\* A button that is disabled lets no second submission beside the first, and the first
\* error ends a submission whose errors are not gathered.
OneSubmission ==
    Way("disables") =>
        /\ ~dialogBusy => ~WaitsFor(dialogCalls)
        /\ ~Way("gathers") /\ dialogErrors # 0 => ~WaitsFor(dialogCalls)
        /\ ~Way("batch") => \A i, k \in DOMAIN dialogCalls :
                               dialogCalls[i].live /\ dialogCalls[k].live => i = k

DialogsInv ==
    /\ DialogTypes
    /\ OkIsDone
    /\ AskedIsAwaited
    /\ OneSubmission
    /\ BusyIsWaiting
    /\ SuccessIsReal

\* What a dialog does is decided by its kind.
LEMMA WayKept == ASSUME UNCHANGED dialogKind, NEW way PROVE Way(way)' = Way(way)
  BY DEF Way

\* The invariant of the dialogs holds to begin with.
LEMMA DialogsInitial == DialogsInit => DialogsInv
  <1> SUFFICES ASSUME DialogsInit
               PROVE  DialogsInv
    OBVIOUS
  <1>1. DOMAIN dialogCalls = {} /\ dialogCalls \in Seq(DialogCallSet)
    BY DEF DialogsInit
  <1>2. DialogTypes
    BY <1>1 DEF DialogsInit, DialogTypes
  <1>3. dialogKind = "sharing" => \A item \in Items : dialogItems[item] = "success" => item \in dialogDone
    BY DEF DialogsInit
  <1> QED
    BY <1>1, <1>2, <1>3
       DEF DialogsInit, DialogsInv, OkIsDone, AskedIsAwaited, OneSubmission, WaitsFor, BusyIsWaiting, SuccessIsReal

\* Editing the items starts no request.
LEMMA EditStep ==
    ASSUME DialogsInv, NEW item \in Items, EditUsers(item)
    PROVE  DialogsInv'
  <1> USE DEF DialogsInv, EditUsers
  <1>1. DialogTypes'
    BY DEF DialogTypes
  <1>2. \A other \in Items : dialogItems'[other] = "success" => dialogItems[other] = "success"
    BY DEF DialogTypes
  <1>3. OkIsDone' /\ AskedIsAwaited' /\ OneSubmission' /\ BusyIsWaiting'
    BY DEF OkIsDone, AskedIsAwaited, OneSubmission, BusyIsWaiting, WaitsFor, Way
  <1>4. SuccessIsReal'
    BY <1>2 DEF SuccessIsReal, Way
  <1> QED
    BY <1>1, <1>3, <1>4

\* A dialog that is left waits for nothing.
LEMMA LeaveDialogStep ==
    ASSUME DialogsInv, LeaveDialog
    PROVE  DialogsInv'
  BY DEF DialogsInv, LeaveDialog, DialogTypes, OkIsDone, AskedIsAwaited, OneSubmission,
         BusyIsWaiting, SuccessIsReal, WaitsFor, Way

\* What is sent has not been answered and is waited for.
LEMMA SentCall ==
    ASSUME NEW item \in Items
    PROVE  /\ DialogCall(item) \in DialogCallSet
           /\ DialogCall(item).item = item /\ DialogCall(item).live /\ DialogCall(item).result = "none"
  <1>1. Requested(item) \in DialogRequests
    BY DEF Requested, DialogRequests
  <1> QED
    BY <1>1 DEF DialogCall, DialogCallSet

\* A submission that disables the button has requests under way.
LEMMA SubmitStep ==
    ASSUME DialogsInv, SubmitDialog
    PROVE  DialogsInv'
  <1> USE DEF DialogsInv
  <1> DEFINE asked == SetToSeq(dialogAsked')
             sent == [i \in DOMAIN asked |-> DialogCall(asked[i])]
  <1>1. /\ dialogAsked' \subseteq Items /\ dialogAsked' # {} /\ IsFiniteSet(dialogAsked')
        /\ dialogCalls' = dialogCalls \o sent
        /\ dialogErrors' = 0 /\ dialogBusy' = Way("disables") /\ ~dialogBusy
        /\ dialogSubmits' \in Nat
        /\ UNCHANGED <<dialogKind, dialogView, dialogItems, dialogDone>>
        /\ dialogView = "dialog"
    BY FS_Subset, DialogsAssumption DEF SubmitDialog, DialogTypes, Batch
  <1>2. /\ asked \in Seq(dialogAsked') /\ Len(asked) = Cardinality(dialogAsked')
        /\ \A item \in dialogAsked' : \E i \in DOMAIN asked : asked[i] = item
    BY <1>1, SetListed
  <1>3. ~Way("batch") => \E item \in Items : dialogAsked' = {item}
    BY DEF SubmitDialog
  <1>4. ~Way("batch") => Len(asked) = 1
    <2>1. ASSUME NEW item \in Items, dialogAsked' = {item}
          PROVE  Len(asked) = 1
      BY <1>2, <2>1, FS_Singleton
    <2> QED
      BY <1>3, <2>1
  <1>5. \A i \in DOMAIN asked : asked[i] \in dialogAsked' /\ asked[i] \in Items
    BY <1>1, <1>2, ElementOfSeq, LenProperties
  <1> HIDE DEF asked
  <1>6. /\ sent \in [DOMAIN asked -> DialogCallSet] /\ DOMAIN sent = DOMAIN asked
        /\ \A i \in DOMAIN sent : sent[i].live /\ sent[i].result = "none" /\ sent[i].item = asked[i]
    BY <1>5, SentCall
  <1>7. sent \in Seq(DialogCallSet)
    BY <1>2, <1>6, Mapped
  <1> HIDE DEF sent
  <1>8. dialogCalls \in Seq(DialogCallSet)
    BY DEF DialogTypes
  <1>9. /\ dialogCalls' \in Seq(DialogCallSet) /\ Len(dialogCalls') = Len(dialogCalls) + Len(sent)
        /\ \A j \in DOMAIN dialogCalls : j \in DOMAIN dialogCalls' /\ dialogCalls'[j] = dialogCalls[j]
        /\ \A j \in DOMAIN sent : \E i \in DOMAIN dialogCalls' : dialogCalls'[i] = sent[j]
        /\ \A i \in DOMAIN dialogCalls' :
              \/ i \in DOMAIN dialogCalls /\ dialogCalls'[i] = dialogCalls[i]
              \/ \E j \in DOMAIN sent : dialogCalls'[i] = sent[j]
    BY <1>1, <1>7, <1>8, Joined
  <1>10. DialogTypes'
    BY <1>1, <1>9 DEF DialogTypes, Way
  <1>11. OkIsDone'
    BY <1>1, <1>6, <1>9 DEF OkIsDone
  <1>12. \A item \in dialogAsked' : \E i \in DOMAIN dialogCalls' :
            dialogCalls'[i].live /\ dialogCalls'[i].item = item
    <2> SUFFICES ASSUME NEW item \in dialogAsked'
                 PROVE  \E i \in DOMAIN dialogCalls' : dialogCalls'[i].live /\ dialogCalls'[i].item = item
      OBVIOUS
    <2>1. PICK j \in DOMAIN asked : asked[j] = item
      BY <1>2
    <2>2. PICK i \in DOMAIN dialogCalls' : dialogCalls'[i] = sent[j]
      BY <1>6, <1>9
    <2> QED
      BY <1>6, <2>1, <2>2
  <1>13. WaitsFor(dialogCalls)'
    BY <1>1, <1>12 DEF WaitsFor
  <1>14. AskedIsAwaited'
    BY <1>12 DEF AskedIsAwaited
  <1>15. OneSubmission'
    <2> SUFFICES ASSUME Way("disables"), ~Way("batch"), NEW i \in DOMAIN dialogCalls', NEW k \in DOMAIN dialogCalls',
                        dialogCalls'[i].live, dialogCalls'[k].live
                 PROVE  i = k
      BY <1>1, <1>13 DEF OneSubmission, Way
    <2>1. \A j \in DOMAIN dialogCalls : ~dialogCalls[j].live
      BY <1>1 DEF OneSubmission, WaitsFor
    <2>2. Len(sent) = 1 /\ DOMAIN sent = 1 .. 1
      BY <1>2, <1>4, <1>6, <1>7, LenProperties
    <2>3. Len(dialogCalls') = Len(dialogCalls) + 1 /\ Len(dialogCalls) \in Nat
      BY <1>8, <1>9, <2>2, LenProperties
    <2>4. DOMAIN dialogCalls' = 1 .. Len(dialogCalls) + 1 /\ DOMAIN dialogCalls = 1 .. Len(dialogCalls)
      BY <1>8, <1>9, <2>3, LenProperties
    <2>5. i \notin DOMAIN dialogCalls /\ k \notin DOMAIN dialogCalls
      BY <1>9, <2>1
    <2> QED
      BY <2>3, <2>4, <2>5
  <1>16. BusyIsWaiting'
    BY <1>13 DEF BusyIsWaiting
  <1>17. SuccessIsReal'
    BY <1>1 DEF SuccessIsReal, Way
  <1> QED
    BY <1>10, <1>11, <1>14, <1>15, <1>16, <1>17

\* What is asked for without a project is nothing.
LEMMA SubmitWithoutProjectStep ==
    ASSUME DialogsInv, SubmitWithoutProject
    PROVE  DialogsInv'
  <1> USE DEF DialogsInv, SubmitWithoutProject
  <1>1. DialogTypes'
    BY DEF DialogTypes
  <1>2. OkIsDone' /\ AskedIsAwaited' /\ BusyIsWaiting' /\ SuccessIsReal'
    BY DEF OkIsDone, AskedIsAwaited, BusyIsWaiting, SuccessIsReal
  <1>3. OneSubmission'
    BY DEF OneSubmission, WaitsFor, Way
  <1> QED
    BY <1>1, <1>2, <1>3

\* A request that is served took effect.
LEMMA ServeDialogStep ==
    ASSUME DialogsInv, NEW i \in DOMAIN dialogCalls, ServeDialog(i)
    PROVE  DialogsInv'
  <1> USE DEF DialogsInv
  <1> DEFINE call == dialogCalls[i]
  <1>1. PICK result \in {"ok", "error"} :
           /\ dialogCalls' = [dialogCalls EXCEPT ![i].result = result]
           /\ result = "ok" => dialogDone' = dialogDone \cup {call.item}
           /\ result = "error" => dialogDone' = dialogDone
    BY DEF ServeDialog
  <1>2. /\ UNCHANGED <<dialogKind, dialogView, dialogBusy, dialogItems, dialogAsked, dialogErrors, dialogSubmits>>
        /\ dialogCalls \in Seq(DialogCallSet)
    BY DEF ServeDialog, DialogTypes
  <1>3. call \in DialogCallSet
    BY <1>2, ElementOfSeq, LenProperties
  <1> DEFINE served == [call EXCEPT !.result = result]
  <1>4. /\ served \in DialogCallSet
        /\ served.result = result /\ served.live = call.live /\ served.item = call.item
        /\ call.item \in Items
    BY <1>3 DEF DialogCallSet
  <1>5. dialogCalls' = [dialogCalls EXCEPT ![i] = served]
    BY <1>1
  <1> HIDE DEF served, call
  <1>6. /\ dialogCalls' \in Seq(DialogCallSet)
        /\ DOMAIN dialogCalls' = DOMAIN dialogCalls
        /\ \A j \in DOMAIN dialogCalls : dialogCalls'[j] = IF j = i THEN served ELSE dialogCalls[j]
    BY <1>2, <1>4, <1>5, ReplacedElement
  <1>7. \A j \in DOMAIN dialogCalls : dialogCalls'[j].live = dialogCalls[j].live /\ dialogCalls'[j].item = dialogCalls[j].item
    BY <1>4, <1>6 DEF call
  <1>8. dialogDone \subseteq dialogDone' /\ dialogDone' \subseteq Items
    BY <1>1, <1>4 DEF DialogTypes
  <1>9. DialogTypes'
    BY <1>2, <1>6, <1>8 DEF DialogTypes
  <1>10. OkIsDone'
    BY <1>1, <1>4, <1>6, <1>8 DEF OkIsDone
  <1>11. WaitsFor(dialogCalls)' <=> WaitsFor(dialogCalls)
    BY <1>6, <1>7 DEF WaitsFor
  <1>12. AskedIsAwaited' /\ OneSubmission'
    BY <1>2, <1>6, <1>7, <1>8, <1>11 DEF AskedIsAwaited, OneSubmission, Way
  <1>13. BusyIsWaiting' /\ SuccessIsReal'
    BY <1>2, <1>8, <1>11 DEF BusyIsWaiting, SuccessIsReal, Way
  <1> QED
    BY <1>9, <1>10, <1>12, <1>13

\* An answer: one call less, and what that means for the button and the dialog.
LEMMA DialogAnsweredStep ==
    ASSUME DialogsInv, NEW i \in DOMAIN dialogCalls, DialogAnswered(i)
    PROVE  DialogsInv'
  <1> USE DEF DialogsInv
  <1> DEFINE call == dialogCalls[i]
             rest == RemoveAt(dialogCalls, i)
             errors == IF Way("batch") THEN dialogErrors ELSE 0
  <1>1. /\ call.live /\ call.result = "ok" /\ dialogCalls' = rest
        /\ dialogItems' = Marked(call.item, "success")
        /\ Ends(rest, errors)
        /\ UNCHANGED <<dialogKind, dialogAsked, dialogDone, dialogSubmits>>
    BY DEF DialogAnswered
  <1>2. dialogCalls \in Seq(DialogCallSet) /\ call \in DialogCallSet
    BY ElementOfSeq, LenProperties DEF DialogTypes
  <1>3. /\ rest \in Seq(DialogCallSet)
        /\ \A j \in DOMAIN rest : \E k \in DOMAIN dialogCalls \ {i} : rest[j] = dialogCalls[k]
        /\ \A k \in DOMAIN dialogCalls \ {i} : \E j \in DOMAIN rest : rest[j] = dialogCalls[k]
    BY <1>2, Removed, RemovedElements
  <1>4. /\ dialogErrors' = errors /\ errors \in Nat
        /\ dialogBusy' = (dialogBusy /\ ~Released(rest, errors))
        /\ dialogView' = IF Way("leaves") /\ AllEnded(rest, errors = 0) THEN "result" ELSE dialogView
    BY <1>1 DEF Ends, DialogTypes
  <1>5. call.item \in dialogDone /\ call.item \in Items
    BY <1>1, <1>2 DEF OkIsDone, DialogCallSet
  <1>6. WaitsFor(dialogCalls)
    BY <1>1 DEF WaitsFor
  <1>7. /\ \A way : Way(way)' = Way(way)
        /\ dialogKind \in Kinds
    BY <1>1 DEF Way, DialogTypes
  <1>8. Way("gathers") => Way("batch")
    BY <1>7 DEF Way, WaysOf, Kinds
  <1> HIDE DEF call, rest
  <1>9. DialogTypes'
    BY <1>1, <1>3, <1>4, <1>5 DEF DialogTypes, Marked
  <1>10. OkIsDone'
    BY <1>1, <1>3 DEF OkIsDone
  <1>11. Way("disables") => (~Way("gathers") => errors = 0) /\ (errors = 0 => dialogErrors = 0)
    BY <1>6, <1>8 DEF OneSubmission
  <1>12. AskedIsAwaited'
    <2> SUFFICES ASSUME Way("disables"), errors = 0, NEW item \in dialogAsked, item \notin dialogDone
                 PROVE  \E j \in DOMAIN rest : rest[j].live /\ rest[j].item = item
      BY <1>1, <1>4, <1>7 DEF AskedIsAwaited
    <2>1. PICK k \in DOMAIN dialogCalls : dialogCalls[k].live /\ dialogCalls[k].item = item
      BY <1>11 DEF AskedIsAwaited
    <2>2. k # i
      BY <1>5, <2>1 DEF call
    <2> QED
      BY <1>3, <2>1, <2>2
  <1>13. Way("disables") /\ ~Way("batch") => ~WaitsFor(rest)
    BY <1>1, <1>3 DEF OneSubmission, WaitsFor, call
  <1>14. OneSubmission'
    <2> SUFFICES ASSUME Way("disables")
                 PROVE  /\ ~dialogBusy' => ~WaitsFor(rest)
                        /\ ~Way("gathers") /\ errors # 0 => ~WaitsFor(rest)
                        /\ ~Way("batch") => \A j, k \in DOMAIN rest : rest[j].live /\ rest[k].live => j = k
      BY <1>1, <1>4, <1>7 DEF OneSubmission
    <2>1. dialogBusy
      BY <1>6 DEF OneSubmission
    <2>2. ~dialogBusy' => ~WaitsFor(rest)
      <3>1. ~dialogBusy' => Released(rest, errors)
        BY <1>4, <2>1
      <3>2. ~(errors > 0 /\ ~Way("gathers"))
        BY <1>11
      <3> QED
        BY <3>1, <3>2 DEF Released
    <2>3. ~Way("batch") => \A j, k \in DOMAIN rest : rest[j].live /\ rest[k].live => j = k
      BY <1>13 DEF WaitsFor
    <2> QED
      BY <1>11, <2>2, <2>3
  <1>15. BusyIsWaiting'
    BY <1>1, <1>4 DEF BusyIsWaiting, Released
  <1>16. SuccessIsReal'
    <2>1. dialogKind = "sharing" => \A item \in Items : dialogItems'[item] = "success" => item \in dialogDone
      BY <1>1, <1>5 DEF Marked, SuccessIsReal, DialogTypes
    <2>2. ASSUME Way("disables"), dialogView' = "result"
          PROVE  dialogAsked \subseteq dialogDone
      <3>1. CASE dialogView = "result"
        BY <2>2, <3>1 DEF SuccessIsReal
      <3>2. CASE errors = 0 /\ ~WaitsFor(rest)
        BY <1>1, <1>4, <1>7, <1>12, <2>2, <3>2 DEF AskedIsAwaited, WaitsFor
      <3>3. dialogView = "result" \/ (errors = 0 /\ ~WaitsFor(rest))
        BY <1>4, <1>13, <2>2 DEF AllEnded
      <3> QED
        BY <3>1, <3>2, <3>3
    <2> QED
      BY <1>1, <1>7, <2>1, <2>2 DEF SuccessIsReal
  <1> QED
    BY <1>9, <1>10, <1>12, <1>14, <1>15, <1>16

\* An error: one call less, and the calls beside it are dropped unless errors are gathered.
LEMMA DialogFailedStep ==
    ASSUME DialogsInv, NEW i \in DOMAIN dialogCalls, DialogFailed(i)
    PROVE  DialogsInv'
  <1> USE DEF DialogsInv
  <1> DEFINE call == dialogCalls[i]
             rest == RemoveAt(dialogCalls, i)
             drops == Way("batch") /\ ~Way("gathers")
             dropped == [k \in DOMAIN rest |-> [rest[k] EXCEPT !.live = @ /\ ~drops]]
             errors == IF Way("batch") THEN dialogErrors + 1 ELSE 1
  <1>1. /\ call.live /\ dialogCalls' = dropped
        /\ dialogItems' = Marked(call.item, "error")
        /\ Ends(dropped, errors)
        /\ UNCHANGED <<dialogKind, dialogAsked, dialogDone, dialogSubmits>>
    BY DEF DialogFailed
  <1>2. dialogCalls \in Seq(DialogCallSet) /\ call \in DialogCallSet
    BY ElementOfSeq, LenProperties DEF DialogTypes
  <1>3. /\ rest \in Seq(DialogCallSet)
        /\ \A j \in DOMAIN rest : \E k \in DOMAIN dialogCalls \ {i} : rest[j] = dialogCalls[k]
    BY <1>2, Removed, RemovedElements
  <1>4. /\ dialogErrors' = errors /\ errors \in Nat /\ errors > 0
        /\ dialogBusy' = (dialogBusy /\ ~Released(dropped, errors))
        /\ dialogView' = dialogView
    BY <1>1 DEF Ends, DialogTypes, AllEnded
  <1>5. call.item \in Items
    BY <1>2 DEF DialogCallSet
  <1>6. WaitsFor(dialogCalls)
    BY <1>1 DEF WaitsFor
  <1>7. /\ \A way : Way(way)' = Way(way)
        /\ dialogKind \in Kinds
    BY <1>1 DEF Way, DialogTypes
  <1>8. \A k \in DOMAIN rest : rest[k] \in DialogCallSet
    BY <1>3, ElementOfSeq, LenProperties
  <1> HIDE DEF call, rest
  <1>9. /\ dropped \in [DOMAIN rest -> DialogCallSet]
        /\ DOMAIN dropped = DOMAIN rest
        /\ \A k \in DOMAIN rest : /\ dropped[k].item = rest[k].item
                                  /\ dropped[k].result = rest[k].result
                                  /\ dropped[k].live => rest[k].live /\ ~drops
    BY <1>8 DEF DialogCallSet
  <1>10. dropped \in Seq(DialogCallSet)
    BY <1>3, <1>9, Mapped
  <1> HIDE DEF dropped
  <1>11. DialogTypes'
    BY <1>1, <1>4, <1>5, <1>10 DEF DialogTypes, Marked
  <1>12. OkIsDone'
    BY <1>1, <1>3, <1>9 DEF OkIsDone
  <1>13. AskedIsAwaited'
    BY <1>4 DEF AskedIsAwaited
  <1>14. Way("disables") /\ ~Way("gathers") => ~WaitsFor(dropped)
    <2>1. CASE Way("batch")
      BY <1>9, <2>1 DEF WaitsFor
    <2>2. CASE ~Way("batch")
      BY <1>1, <1>3, <1>9, <2>2 DEF OneSubmission, WaitsFor, call
    <2> QED
      BY <2>1, <2>2
  <1>15. OneSubmission'
    <2> SUFFICES ASSUME Way("disables")
                 PROVE  /\ ~dialogBusy' => ~WaitsFor(dropped)
                        /\ ~Way("gathers") => ~WaitsFor(dropped)
                        /\ ~Way("batch") => \A j, k \in DOMAIN dropped : dropped[j].live /\ dropped[k].live => j = k
      BY <1>1, <1>7 DEF OneSubmission
    <2>1. dialogBusy
      BY <1>6 DEF OneSubmission
    <2>2. ~dialogBusy' => ~WaitsFor(dropped)
      <3>1. ~dialogBusy' => Released(dropped, errors)
        BY <1>4, <2>1
      <3> QED
        BY <1>14, <3>1 DEF Released
    <2>3. Way("gathers") => Way("batch")
      BY <1>7 DEF Way, WaysOf, Kinds
    <2> QED
      BY <1>14, <2>2, <2>3 DEF WaitsFor
  <1>16. BusyIsWaiting'
    BY <1>1, <1>4 DEF BusyIsWaiting, Released
  <1>17. SuccessIsReal'
    BY <1>1, <1>4, <1>5, <1>7 DEF Marked, SuccessIsReal, DialogTypes
  <1> QED
    BY <1>11, <1>12, <1>13, <1>15, <1>16, <1>17

\* Every step keeps the invariant of the dialogs.
LEMMA DialogsStep ==
    ASSUME DialogsInv, [DialogsNext]_requestDialogVars
    PROVE  DialogsInv'
  <1>1. CASE UNCHANGED requestDialogVars
    BY <1>1 DEF requestDialogVars, DialogsInv, DialogTypes, OkIsDone, AskedIsAwaited, OneSubmission,
                BusyIsWaiting, SuccessIsReal, WaitsFor, Way
  <1> QED
    BY <1>1, EditStep, SubmitStep, SubmitWithoutProjectStep, LeaveDialogStep, ServeDialogStep, DialogAnsweredStep,
       DialogFailedStep
       DEF DialogsNext

\* No order of requests, answers, failures and edits breaks what the dialogs rely on.
THEOREM DialogsInvariant == DialogsSpec => []DialogsInv
  BY DialogsInitial, DialogsStep, PTL DEF DialogsSpec

\* For any number of items and submissions: a button that is disabled waits for an answer,
\* unless nothing was asked for.
THEOREM DisabledButtonsWait == DialogsSpec => []BusyIsWaiting
  <1>1. DialogsInv => BusyIsWaiting
    BY DEF DialogsInv
  <1> QED
    BY <1>1, DialogsInvariant, PTL

\* For any number of items and submissions: what is shown as a success took effect.
THEOREM ShownSuccessesAreReal == DialogsSpec => []SuccessIsReal
  <1>1. DialogsInv => SuccessIsReal
    BY DEF DialogsInv
  <1> QED
    BY <1>1, DialogsInvariant, PTL

-----------------------------------------------------------------------------
(* The diagrams of a model *)

\* The three requests of the dialog.
DiagramRequests == {GetDiagramMetadata(Model), EmptyCache(Model)} \cup {GetDiagram(Model, uuid) : uuid \in Uuids}
ExportNumbers == 0 .. MaxExports
DiagramCallSet ==
    [request : DiagramRequests, file : Files, job : ExportNumbers, dated : ExportNumbers,
     served : BOOLEAN, answer : Exports \cup {NotRead}]

DiagramTypes ==
    /\ diagramsOpen \in BOOLEAN /\ diagramsLate \in BOOLEAN
    /\ diagramMetadata \in Exports \cup {NotRead}
    /\ diagrams \in [Uuids -> Exports \cup {NotRead, Awaited, Broken}]
    /\ diagramHead \in ExportNumbers /\ diagramJob \in ExportNumbers
    /\ diagramFiles \in [Files -> [dated : ExportNumbers, content : ExportNumbers]]
    /\ diagramCalls \in Seq(DiagramCallSet) /\ Len(diagramCalls) <= MaxDiagramCalls

\* What is cached is not older than its date says.
FilesFollowDates ==
    \A file \in Files :
       diagramFiles[file].dated <= diagramFiles[file].content /\ diagramFiles[file].content <= diagramHead

\* A call to the branch reads no commit of the future, one that names a job no commit.
SoundCall(call) ==
    /\ call.dated <= diagramHead /\ (call.job # NoJob => call.dated = 0)
    /\ IsDiagram(call) => call.file \in Uuids
    /\ call.served /\ ~IsCall(call, ClearCall) => call.answer \in Exports
    /\ call.answer.of = "branch" => call.answer.at <= diagramHead

\* Without a list nothing is shown, and one request at the most brings it.
AwaitsMetadata ==
    /\ diagrams = NoDiagrams /\ Len(diagramCalls) <= 1
    /\ \A i \in DOMAIN diagramCalls : ~IsDiagram(diagramCalls[i])

\* An export that may be shown under the list.
MatchesList(shown) ==
    /\ diagramMetadata.of = "job" /\ shown \in Exports => shown = diagramMetadata
    /\ diagramMetadata.of = "branch" /\ shown.of = "branch" => shown.at >= diagramMetadata.at

\* With a list all calls name its job, or read the branch no earlier than the list did.
FollowingCall(call) ==
    /\ IsDiagram(call) /\ call.job = JobOf(diagramMetadata)
    /\ call.dated # 0 => call.dated >= diagramMetadata.at
    /\ call.served => MatchesList(call.answer)

FollowsMetadata ==
    /\ diagramMetadata.of = "branch" => diagramMetadata.at <= diagramHead
    /\ \A i \in DOMAIN diagramCalls : FollowingCall(diagramCalls[i])
    /\ \A uuid \in Uuids : MatchesList(diagrams[uuid])

DiagramsInv ==
    /\ DiagramTypes
    /\ FilesFollowDates
    /\ \A i \in DOMAIN diagramCalls : SoundCall(diagramCalls[i])
    /\ ~diagramsLate => IF diagramMetadata = NotRead THEN AwaitsMetadata ELSE FollowsMetadata

\* The exports, and what is none.
LEMMA ExportFields ==
    /\ \A n \in ExportNumbers \ {0} : Export("branch", n) \in Exports /\ Export("job", n) \in Exports
    /\ \A source, n : Export(source, n).of = source /\ Export(source, n).at = n
    /\ \A read \in Exports :
          /\ read.of \in {"branch", "job"} /\ read.at \in ExportNumbers \ {0}
          /\ read = Export(read.of, read.at)
    /\ \A none \in {NotRead, Awaited, Broken} : none.of \notin {"branch", "job"} /\ none \notin Exports
    /\ ExportNumbers \subseteq Nat /\ 0 \in ExportNumbers /\ NoJob \in ExportNumbers
  <1>1. ExportNumbers \subseteq Nat /\ 0 \in ExportNumbers /\ NoJob \in ExportNumbers
    BY DiagramsAssumption DEF ExportNumbers, NoJob
  <1>2. ExportNumbers \ {0} = 1 .. MaxExports
    BY DiagramsAssumption DEF ExportNumbers
  <1>3. \A n \in ExportNumbers \ {0} : Export("branch", n) \in Exports /\ Export("job", n) \in Exports
    BY <1>2 DEF Exports
  <1>4. \A source, n : Export(source, n).of = source /\ Export(source, n).at = n
    BY DEF Export
  <1>5. \A read \in Exports : \E source \in {"branch", "job"}, n \in ExportNumbers \ {0} : read = Export(source, n)
    BY <1>2 DEF Exports
  <1>6. \A none \in {NotRead, Awaited, Broken} : none.of \notin {"branch", "job"}
    BY DEF NotRead, Awaited, Broken, Export
  <1>7. \A read \in Exports :
          /\ read.of \in {"branch", "job"} /\ read.at \in ExportNumbers \ {0}
          /\ read = Export(read.of, read.at)
    BY <1>4, <1>5
  <1> QED
    BY <1>1, <1>3, <1>4, <1>6, <1>7

\* The requests tell themselves apart.
LEMMA KindsOfCalls ==
    ASSUME NEW call \in DiagramCallSet
    PROVE  /\ IsDiagram(call) <=> ~IsCall(call, MetadataCall) /\ ~IsCall(call, ClearCall)
           /\ ~(IsCall(call, MetadataCall) /\ IsCall(call, ClearCall))
  BY DEF IsDiagram, IsCall, MetadataCall, ClearCall, DiagramCall, DiagramCallSet, DiagramRequests,
         GetDiagramMetadata, EmptyCache, GetDiagram, Request

\* The requests that the dialog of diagrams sends.
LEMMA NewDiagramCalls ==
    ASSUME DiagramTypes
    PROVE  /\ MetadataCall \in DiagramCallSet /\ IsCall(MetadataCall, MetadataCall) /\ SoundCall(MetadataCall)
           /\ ClearCall \in DiagramCallSet /\ IsCall(ClearCall, ClearCall) /\ SoundCall(ClearCall)
           /\ \A uuid \in Uuids, job \in ExportNumbers :
                 LET call == DiagramCall(GetDiagram(Model, uuid), uuid, job)
                 IN  /\ call \in DiagramCallSet /\ IsDiagram(call) /\ SoundCall(call)
                     /\ call.job = job /\ ~call.served /\ call.dated = 0
  <1>1. NotRead.of # "branch" /\ 0 \in ExportNumbers /\ NoJob \in ExportNumbers /\ 0 <= diagramHead
    BY ExportFields DEF DiagramTypes, ExportNumbers
  <1>2. MetadataCall \in DiagramCallSet /\ IsCall(MetadataCall, MetadataCall) /\ ~IsDiagram(MetadataCall)
    BY <1>1 DEF IsDiagram, IsCall, MetadataCall, DiagramCall, DiagramCallSet, DiagramRequests, GetDiagramMetadata,
                Request, Files
  <1>3. ClearCall \in DiagramCallSet /\ IsCall(ClearCall, ClearCall) /\ ~IsDiagram(ClearCall)
    BY <1>1 DEF IsDiagram, IsCall, ClearCall, DiagramCall, DiagramCallSet, DiagramRequests, EmptyCache,
                Request, Files
  <1>4. SoundCall(MetadataCall) /\ SoundCall(ClearCall)
    BY <1>1, <1>2, <1>3 DEF SoundCall, MetadataCall, ClearCall, DiagramCall
  <1>5. ASSUME NEW uuid \in Uuids, NEW job \in ExportNumbers
        PROVE  LET call == DiagramCall(GetDiagram(Model, uuid), uuid, job)
               IN  /\ call \in DiagramCallSet /\ IsDiagram(call) /\ SoundCall(call)
                   /\ call.job = job /\ ~call.served /\ call.dated = 0
    <2> DEFINE call == DiagramCall(GetDiagram(Model, uuid), uuid, job)
    <2>1. call \in DiagramCallSet /\ IsDiagram(call)
      BY <1>1 DEF IsDiagram, DiagramCall, DiagramCallSet, DiagramRequests, GetDiagram, Request, Files
    <2>2. call.job = job /\ ~call.served /\ call.dated = 0 /\ call.file = uuid /\ call.answer = NotRead
      BY DEF DiagramCall
    <2>3. SoundCall(call)
      BY <1>1, <2>2 DEF SoundCall
    <2> QED
      BY <2>1, <2>2, <2>3
  <1> QED
    BY <1>2, <1>3, <1>4, <1>5

\* A dialog that opens awaits its list.
LEMMA DialogOpensStep ==
    ASSUME DiagramsInv, OpenDiagrams
    PROVE  DiagramsInv'
  <1> USE DEF DiagramsInv, OpenDiagrams, DialogOpens
  <1>1. /\ diagramCalls' \in Seq(DiagramCallSet) /\ Len(diagramCalls') = 1 /\ DOMAIN diagramCalls' = {1}
        /\ diagramCalls'[1] = MetadataCall
    BY NewDiagramCalls
  <1>2. DiagramTypes'
    <2>1. diagrams' \in [Uuids -> Exports \cup {NotRead, Awaited, Broken}]
      BY DEF NoDiagrams
    <2>2. Len(diagramCalls') <= MaxDiagramCalls
      BY <1>1, DiagramsAssumption
    <2> QED
      BY <1>1, <2>1, <2>2 DEF DiagramTypes
  <1>3. \A i \in DOMAIN diagramCalls' : SoundCall(diagramCalls[i])'
    BY <1>1, NewDiagramCalls DEF SoundCall
  <1>4. AwaitsMetadata'
    BY <1>1, NewDiagramCalls, KindsOfCalls DEF AwaitsMetadata
  <1> QED
    BY <1>2, <1>3, <1>4 DEF FilesFollowDates

\* The invariant of the diagrams holds to begin with.
LEMMA DiagramsInitial == DiagramsInit => DiagramsInv
  <1> SUFFICES ASSUME DiagramsInit
               PROVE  DiagramsInv
    OBVIOUS
  <1> USE DEF DiagramsInit
  <1>1. DiagramTypes
    <2>1. NotRead.of # "branch" /\ 0 \in ExportNumbers /\ NoJob \in ExportNumbers
      BY ExportFields
    <2>2. MetadataCall \in DiagramCallSet
      BY <2>1 DEF MetadataCall, DiagramCall, DiagramCallSet, DiagramRequests, Files
    <2>3. diagramCalls \in Seq(DiagramCallSet) /\ Len(diagramCalls) = 1
      BY <2>2
    <2>4. diagramFiles \in [Files -> [dated : ExportNumbers, content : ExportNumbers]]
      BY <2>1 DEF EmptyFiles, NoFile
    <2>5. diagrams \in [Uuids -> Exports \cup {NotRead, Awaited, Broken}]
      BY DEF NoDiagrams
    <2>6. Len(diagramCalls) <= MaxDiagramCalls
      BY <2>3, DiagramsAssumption
    <2> QED
      BY <2>1, <2>3, <2>4, <2>5, <2>6 DEF DiagramTypes
  <1>2. DOMAIN diagramCalls = {1} /\ diagramCalls[1] = MetadataCall /\ Len(diagramCalls) = 1
    OBVIOUS
  <1>3. AwaitsMetadata /\ \A i \in DOMAIN diagramCalls : SoundCall(diagramCalls[i])
    BY <1>1, <1>2, NewDiagramCalls, KindsOfCalls DEF AwaitsMetadata
  <1>4. FilesFollowDates
    BY DEF FilesFollowDates, EmptyFiles, NoFile
  <1> QED
    BY <1>1, <1>3, <1>4 DEF DiagramsInv

\* A new export changes nothing that was read.
LEMMA ExportsStep ==
    ASSUME DiagramsInv, DiagramsCommitted \/ JobEnds
    PROVE  DiagramsInv'
  <1> USE DEF DiagramsInv
  <1>1. /\ diagramHead \in Nat /\ diagramHead' \in Nat /\ diagramHead <= diagramHead'
        /\ diagramHead' \in ExportNumbers /\ diagramJob' \in ExportNumbers
        /\ UNCHANGED <<dialogOfDiagrams, diagramFiles, diagramCalls>>
    BY DiagramsAssumption DEF DiagramTypes, DiagramsCommitted, JobEnds, ExportNumbers
  <1>2. UNCHANGED <<diagramsOpen, diagramMetadata, diagrams, diagramsLate, diagramFiles, diagramCalls>>
    BY <1>1 DEF dialogOfDiagrams
  <1>3. DiagramTypes'
    BY <1>1, <1>2 DEF DiagramTypes
  <1>4. FilesFollowDates'
    <2>1. \A file \in Files : diagramFiles[file].content \in Nat
      BY ExportFields DEF DiagramTypes
    <2> QED
      BY <1>1, <1>2, <2>1 DEF FilesFollowDates
  <1>5. \A i \in DOMAIN diagramCalls' : SoundCall(diagramCalls[i])'
    <2> SUFFICES ASSUME NEW i \in DOMAIN diagramCalls
                 PROVE  SoundCall(diagramCalls[i])'
      BY <1>2
    <2>1. diagramCalls[i] \in DiagramCallSet /\ SoundCall(diagramCalls[i])
      BY ElementOfSeq, LenProperties DEF DiagramTypes
    <2>2. diagramCalls[i].dated \in Nat
      BY <2>1, ExportFields DEF DiagramCallSet
    <2>3. diagramCalls[i].answer.of = "branch" => diagramCalls[i].answer.at \in Nat
      BY <2>1, ExportFields DEF DiagramCallSet
    <2>4. diagramCalls[i].dated <= diagramHead'
      BY <1>1, <2>1, <2>2 DEF SoundCall
    <2>5. diagramCalls[i].answer.of = "branch" => diagramCalls[i].answer.at <= diagramHead'
      BY <1>1, <2>1, <2>3 DEF SoundCall
    <2> QED
      BY <1>2, <2>1, <2>4, <2>5 DEF SoundCall
  <1>6. AwaitsMetadata => AwaitsMetadata'
    BY <1>2 DEF AwaitsMetadata
  <1>7. FollowsMetadata /\ diagramMetadata # NotRead => FollowsMetadata'
    <2>1. diagramMetadata # NotRead => diagramMetadata.at \in Nat
      BY ExportFields DEF DiagramTypes
    <2> QED
      BY <1>1, <1>2, <2>1 DEF FollowsMetadata, FollowingCall, MatchesList
  <1> QED
    BY <1>2, <1>3, <1>4, <1>5, <1>6, <1>7

\* What a request leaves in the cache is of the date that it has read, or later.
LEMMA FileIsRead ==
    ASSUME DiagramsInv, NEW file \in Files, NEW dated \in ExportNumbers \ {0}, dated <= diagramHead
    PROVE  LET read == FileRead(file, dated)
               files == [diagramFiles EXCEPT ![file] = read]
           IN  /\ read.content \in ExportNumbers \ {0} /\ dated <= read.content /\ read.content <= diagramHead
               /\ files \in [Files -> [dated : ExportNumbers, content : ExportNumbers]]
               /\ \A f \in Files : files[f].dated <= files[f].content /\ files[f].content <= diagramHead
  <1> DEFINE read == FileRead(file, dated)
             cached == diagramFiles[file]
  <1>1. /\ cached \in [dated : ExportNumbers, content : ExportNumbers]
        /\ cached.dated <= cached.content /\ cached.content <= diagramHead /\ diagramHead \in ExportNumbers
    BY DEF DiagramsInv, DiagramTypes, FilesFollowDates
  <1>2. read = IF cached.dated = dated THEN cached ELSE [dated |-> dated, content |-> diagramHead]
    BY DEF FileRead, IsCurrent
  <1> HIDE DEF read, cached
  <1>3. /\ read \in [dated : ExportNumbers, content : ExportNumbers] /\ read.dated = dated
        /\ read.dated <= read.content /\ read.content <= diagramHead
    <2>1. CASE cached.dated = dated
      BY <1>1, <1>2, <2>1
    <2>2. CASE cached.dated # dated
      <3>1. read = [dated |-> dated, content |-> diagramHead]
        BY <1>2, <2>2
      <3>2. read.dated = dated /\ read.content = diagramHead /\ diagramHead <= diagramHead
        BY <1>1, <3>1 DEF ExportNumbers
      <3> QED
        BY <1>1, <3>1, <3>2
    <2> QED
      BY <2>1, <2>2
  <1>4. read.content \in ExportNumbers \ {0}
    BY <1>3 DEF ExportNumbers
  <1>5. /\ [diagramFiles EXCEPT ![file] = read] \in [Files -> [dated : ExportNumbers, content : ExportNumbers]]
        /\ \A f \in Files : [diagramFiles EXCEPT ![file] = read][f] = IF f = file THEN read ELSE diagramFiles[f]
    BY <1>3 DEF DiagramsInv, DiagramTypes
  <1> QED
    BY <1>3, <1>4, <1>5 DEF DiagramsInv, FilesFollowDates, read

\* What others leave in the cache is as sound.
LEMMA OthersStep ==
    ASSUME DiagramsInv, NEW file \in Files, OthersRead(file) \/ FileExpires(file)
    PROVE  DiagramsInv'
  <1> USE DEF DiagramsInv
  <1>1. UNCHANGED <<diagramsOpen, diagramMetadata, diagrams, diagramsLate, diagramHead, diagramJob, diagramCalls>>
    BY DEF OthersRead, FileExpires, dialogOfDiagrams
  <1>2. /\ diagramFiles' \in [Files -> [dated : ExportNumbers, content : ExportNumbers]]
        /\ \A f \in Files : diagramFiles'[f].dated <= diagramFiles'[f].content /\ diagramFiles'[f].content <= diagramHead
    <2>1. CASE OthersRead(file)
      <3>1. PICK dated \in 1 .. diagramHead : diagramFiles' = [diagramFiles EXCEPT ![file] = FileRead(file, dated)]
        BY <2>1 DEF OthersRead
      <3>2. dated \in ExportNumbers \ {0} /\ dated <= diagramHead
        BY <3>1, DiagramsAssumption DEF DiagramTypes, ExportNumbers
      <3> QED
        BY <3>1, <3>2, FileIsRead
    <2>2. CASE FileExpires(file)
      <3>1. diagramHead \in Nat /\ NoFile \in [dated : ExportNumbers, content : ExportNumbers]
            /\ NoFile.dated <= NoFile.content /\ NoFile.content <= diagramHead
        BY ExportFields DEF DiagramTypes, NoFile, ExportNumbers
      <3>2. \A f \in Files : diagramFiles'[f] = IF f = file THEN NoFile ELSE diagramFiles[f]
        BY <2>2 DEF FileExpires, DiagramTypes
      <3> QED
        BY <2>2, <3>1, <3>2 DEF FileExpires, DiagramTypes, FilesFollowDates
    <2> QED
      BY <2>1, <2>2
  <1>3. DiagramTypes' /\ FilesFollowDates'
    BY <1>1, <1>2 DEF DiagramTypes, FilesFollowDates
  <1> QED
    BY <1>1, <1>3 DEF SoundCall, AwaitsMetadata, FollowsMetadata, FollowingCall, MatchesList

\* Clearing the cache leaves nothing to be shown, and is recorded if an answer is awaited.
LEMMA ClearCacheStep ==
    ASSUME DiagramsInv, ClearCache
    PROVE  DiagramsInv'
  <1> USE DEF DiagramsInv, ClearCache
  <1>1. diagramCalls \in Seq(DiagramCallSet) /\ diagramCalls' = Append(diagramCalls, ClearCall)
    BY DEF DiagramTypes
  <1>2. /\ diagramCalls' \in Seq(DiagramCallSet) /\ Len(diagramCalls') = Len(diagramCalls) + 1
        /\ \A j \in DOMAIN diagramCalls' :
              diagramCalls'[j] = ClearCall \/ (j \in DOMAIN diagramCalls /\ diagramCalls'[j] = diagramCalls[j])
    BY <1>1, NewDiagramCalls, Appended
  <1>3. Len(diagramCalls') <= MaxDiagramCalls
    BY <1>1, <1>2, LenProperties, DiagramsAssumption
  <1>4. DiagramTypes'
    BY <1>2, <1>3 DEF DiagramTypes, NoDiagrams
  <1>5. FilesFollowDates' /\ \A i \in DOMAIN diagramCalls' : SoundCall(diagramCalls[i])'
    BY <1>2, NewDiagramCalls DEF SoundCall, FilesFollowDates
  <1>6. ASSUME ~diagramsLate'
        PROVE  AwaitsMetadata'
    <2>1. diagramCalls = <<>>
      BY <1>6 DEF DiagramTypes
    <2>2. \A j \in DOMAIN diagramCalls' : diagramCalls'[j] = ClearCall
      BY <1>2, <2>1
    <2>3. Len(diagramCalls') = 1
      BY <1>2, <2>1
    <2> QED
      BY <2>2, <2>3, NewDiagramCalls, KindsOfCalls DEF AwaitsMetadata
  <1> QED
    BY <1>4, <1>5, <1>6

\* A diagram that comes into view is asked for once the list is there.
LEMMA LazyLoadStep ==
    ASSUME DiagramsInv, NEW uuid \in Uuids, LazyLoadDiagram(uuid)
    PROVE  DiagramsInv'
  <1> USE DEF DiagramsInv
  <1> DEFINE call == DiagramCall(GetDiagram(Model, uuid), uuid, JobOf(diagramMetadata))
  <1>1. /\ diagramMetadata # NotRead /\ Len(diagramCalls) < MaxDiagramCalls
        /\ diagrams' = [diagrams EXCEPT ![uuid] = Awaited]
        /\ diagramCalls' = Append(diagramCalls, call)
        /\ UNCHANGED <<diagramsOpen, diagramMetadata, diagramHead, diagramJob, diagramFiles, diagramsLate>>
    BY DEF LazyLoadDiagram
  <1>2. JobOf(diagramMetadata) \in ExportNumbers
    BY <1>1, ExportFields DEF JobOf, DiagramTypes
  <1>3. /\ diagramCalls \in Seq(DiagramCallSet) /\ call \in DiagramCallSet /\ SoundCall(call)
        /\ IsDiagram(call) /\ call.job = JobOf(diagramMetadata) /\ ~call.served /\ call.dated = 0
    BY <1>2, NewDiagramCalls DEF DiagramTypes
  <1> HIDE DEF call
  <1>4. /\ diagramCalls' \in Seq(DiagramCallSet) /\ Len(diagramCalls') = Len(diagramCalls) + 1
        /\ \A j \in DOMAIN diagramCalls' :
              diagramCalls'[j] = call \/ (j \in DOMAIN diagramCalls /\ diagramCalls'[j] = diagramCalls[j])
    BY <1>1, <1>3, Appended
  <1>5. Len(diagramCalls') <= MaxDiagramCalls
    BY <1>1, <1>3, <1>4, LenProperties, DiagramsAssumption
  <1>6. DiagramTypes'
    BY <1>1, <1>4, <1>5 DEF DiagramTypes
  <1>7. FilesFollowDates' /\ \A i \in DOMAIN diagramCalls' : SoundCall(diagramCalls[i])'
    BY <1>1, <1>3, <1>4 DEF SoundCall, FilesFollowDates
  <1>8. FollowsMetadata => FollowsMetadata'
    <2>1. \A other \in Uuids : diagrams'[other] \in {diagrams[other], Awaited}
      BY <1>1 DEF DiagramTypes
    <2>2. MatchesList(Awaited)
      BY ExportFields DEF MatchesList
    <2>3. FollowingCall(call)
      BY <1>3 DEF FollowingCall
    <2> QED
      BY <1>1, <1>4, <2>1, <2>2, <2>3 DEF FollowsMetadata, FollowingCall, MatchesList
  <1> QED
    BY <1>1, <1>6, <1>7, <1>8

\* The backend goes on with a request: it reads a date, or answers.
LEMMA CallProceeds ==
    ASSUME DiagramsInv, NEW i \in DOMAIN diagramCalls, NEW new \in DiagramCallSet,
           new.request = diagramCalls[i].request, diagramCalls' = [diagramCalls EXCEPT ![i] = new],
           UNCHANGED <<diagramsOpen, diagramMetadata, diagrams, diagramHead, diagramJob, diagramsLate>>,
           diagramFiles' \in [Files -> [dated : ExportNumbers, content : ExportNumbers]], FilesFollowDates',
           SoundCall(new),
           diagramMetadata # NotRead /\ FollowsMetadata => FollowingCall(new)
    PROVE  DiagramsInv'
  <1> USE DEF DiagramsInv
  <1>1. diagramCalls \in Seq(DiagramCallSet)
    BY DEF DiagramTypes
  <1>2. /\ diagramCalls' \in Seq(DiagramCallSet)
        /\ DOMAIN diagramCalls' = DOMAIN diagramCalls /\ Len(diagramCalls') = Len(diagramCalls)
        /\ \A j \in DOMAIN diagramCalls : diagramCalls'[j] = IF j = i THEN new ELSE diagramCalls[j]
    BY <1>1, ReplacedElement
  <1>3. DiagramTypes'
    BY <1>2 DEF DiagramTypes
  <1>4. \A j \in DOMAIN diagramCalls' : SoundCall(diagramCalls[j])'
    BY <1>2 DEF SoundCall
  <1>5. AwaitsMetadata => AwaitsMetadata'
    BY <1>2 DEF AwaitsMetadata, IsDiagram
  <1>6. diagramMetadata # NotRead /\ FollowsMetadata => FollowsMetadata'
    BY <1>2 DEF FollowsMetadata, FollowingCall, MatchesList
  <1> QED
    BY <1>3, <1>4, <1>5, <1>6

\* A date that is read is that of the last commit.
LEMMA ReadDateStep ==
    ASSUME DiagramsInv, NEW i \in DOMAIN diagramCalls, ReadDate(i)
    PROVE  DiagramsInv'
  <1> DEFINE call == diagramCalls[i]
             new == [call EXCEPT !.dated = diagramHead]
  <1>1. /\ ~call.served /\ call.job = NoJob /\ diagramHead > 0
        /\ diagramCalls' = [diagramCalls EXCEPT ![i] = new]
        /\ UNCHANGED <<diagramsOpen, diagramMetadata, diagrams, diagramHead, diagramJob, diagramsLate, diagramFiles>>
    BY DEF ReadDate, dialogOfDiagrams
  <1>2. call \in DiagramCallSet /\ SoundCall(call) /\ diagramHead \in ExportNumbers /\ diagramHead <= diagramHead
    BY ElementOfSeq, LenProperties, ExportFields DEF DiagramsInv, DiagramTypes
  <1>3. /\ new \in DiagramCallSet /\ new.request = call.request /\ new.file = call.file /\ new.job = call.job
        /\ new.dated = diagramHead /\ new.served = call.served /\ new.answer = call.answer
    BY <1>2 DEF DiagramCallSet
  <1> HIDE DEF new, call
  <1>4. SoundCall(new)
    BY <1>1, <1>2, <1>3 DEF SoundCall, IsDiagram, IsCall
  <1>5. ASSUME diagramMetadata # NotRead, FollowsMetadata
        PROVE  FollowingCall(new)
    <2>1. FollowingCall(call) /\ JobOf(diagramMetadata) = NoJob
      BY <1>1, <1>5 DEF FollowsMetadata, FollowingCall, call
    <2>2. diagramMetadata.of = "branch" /\ diagramMetadata.at <= diagramHead /\ diagramMetadata.at \in Nat
      BY <1>5, <2>1, ExportFields DEF JobOf, NoJob, FollowsMetadata, DiagramsInv, DiagramTypes
    <2>3. diagramHead >= diagramMetadata.at
      BY <1>2, <2>2 DEF ExportNumbers
    <2> QED
      BY <1>1, <1>3, <2>1, <2>3 DEF FollowingCall, IsDiagram
  <1>6. FilesFollowDates' /\ diagramFiles' \in [Files -> [dated : ExportNumbers, content : ExportNumbers]]
    BY <1>1 DEF DiagramsInv, FilesFollowDates, DiagramTypes
  <1> QED
    BY <1>1, <1>3, <1>4, <1>5, <1>6, CallProceeds DEF call

\* An answer that matches the list.
LEMMA DiagramAnswerStep ==
    ASSUME DiagramsInv, NEW i \in DOMAIN diagramCalls, NEW answer \in Exports \cup {NotRead},
           AnswerCall(i, answer),
           diagramFiles' \in [Files -> [dated : ExportNumbers, content : ExportNumbers]], FilesFollowDates',
           ~IsCall(diagramCalls[i], ClearCall) => answer \in Exports,
           answer.of = "branch" => answer.at <= diagramHead,
           diagramMetadata # NotRead /\ FollowsMetadata => MatchesList(answer)
    PROVE  DiagramsInv'
  <1> DEFINE call == diagramCalls[i]
             new == [call EXCEPT !.served = TRUE, !.answer = answer]
  <1>1. /\ diagramCalls' = [diagramCalls EXCEPT ![i] = new]
        /\ UNCHANGED <<diagramsOpen, diagramMetadata, diagrams, diagramHead, diagramJob, diagramsLate>>
    BY DEF AnswerCall, dialogOfDiagrams
  <1>2. call \in DiagramCallSet /\ SoundCall(call)
    BY ElementOfSeq, LenProperties DEF DiagramsInv, DiagramTypes
  <1>3. /\ new \in DiagramCallSet /\ new.request = call.request /\ new.file = call.file /\ new.job = call.job
        /\ new.dated = call.dated /\ new.served /\ new.answer = answer
    BY <1>2 DEF DiagramCallSet
  <1> HIDE DEF new
  <1>4. SoundCall(new)
    BY <1>2, <1>3 DEF SoundCall, IsDiagram, IsCall
  <1>5. diagramMetadata # NotRead /\ FollowsMetadata => FollowingCall(new)
    BY <1>3 DEF FollowsMetadata, FollowingCall, IsDiagram
  <1> QED
    BY <1>1, <1>3, <1>4, <1>5, CallProceeds

\* A file that is read is no older than the list.
LEMMA ReadFileStep ==
    ASSUME DiagramsInv, NEW i \in DOMAIN diagramCalls, ReadFile(i)
    PROVE  DiagramsInv'
  <1> DEFINE call == diagramCalls[i]
             read == FileRead(call.file, call.dated)
             answer == Export("branch", read.content)
  <1>1. call.dated # 0 /\ diagramFiles' = [diagramFiles EXCEPT ![call.file] = read] /\ AnswerCall(i, answer)
    BY DEF ReadFile
  <1>2. call \in DiagramCallSet /\ SoundCall(call) /\ UNCHANGED diagramHead
    BY <1>1, ElementOfSeq, LenProperties DEF DiagramsInv, DiagramTypes, AnswerCall
  <1>3. call.file \in Files /\ call.dated \in ExportNumbers \ {0} /\ call.dated <= diagramHead /\ call.job = NoJob
    BY <1>1, <1>2 DEF DiagramCallSet, SoundCall
  <1>4. /\ read.content \in ExportNumbers \ {0} /\ call.dated <= read.content /\ read.content <= diagramHead
        /\ diagramFiles' \in [Files -> [dated : ExportNumbers, content : ExportNumbers]]
        /\ \A f \in Files : diagramFiles'[f].dated <= diagramFiles'[f].content /\ diagramFiles'[f].content <= diagramHead
    BY <1>1, <1>3, FileIsRead
  <1> HIDE DEF read
  <1>5. FilesFollowDates'
    BY <1>2, <1>4 DEF FilesFollowDates
  <1>6. answer \in Exports /\ answer.of = "branch" /\ answer.at = read.content
    BY <1>4, ExportFields
  <1> HIDE DEF answer, call
  <1>7. ASSUME diagramMetadata # NotRead, FollowsMetadata
        PROVE  MatchesList(answer)
    <2>1. FollowingCall(call) /\ JobOf(diagramMetadata) = NoJob
      BY <1>3, <1>7 DEF FollowsMetadata, FollowingCall, call
    <2>2. diagramMetadata.of # "job" /\ diagramMetadata.at \in Nat
      BY <1>7, <2>1, ExportFields DEF JobOf, NoJob, DiagramsInv, DiagramTypes
    <2>3. read.content \in Nat /\ call.dated \in Nat /\ call.dated >= diagramMetadata.at
      BY <1>3, <1>4, <2>1, ExportFields DEF FollowingCall
    <2>4. read.content >= diagramMetadata.at
      BY <1>4, <2>2, <2>3
    <2> QED
      BY <1>6, <2>2, <2>4 DEF MatchesList
  <1> QED
    BY <1>1, <1>4, <1>5, <1>6, <1>7, DiagramAnswerStep

\* An artifact is of the job of the list, if the list names one.
LEMMA ReadArtifactStep ==
    ASSUME DiagramsInv, NEW i \in DOMAIN diagramCalls, ReadArtifact(i)
    PROVE  DiagramsInv'
  <1> DEFINE call == diagramCalls[i]
             job == IF call.job = NoJob THEN diagramJob ELSE call.job
             answer == Export("job", job)
  <1>1. job # 0 /\ AnswerCall(i, answer) /\ UNCHANGED <<diagramFiles, diagramHead>>
    BY DEF ReadArtifact, AnswerCall
  <1>2. call \in DiagramCallSet /\ diagramJob \in ExportNumbers
    BY ElementOfSeq, LenProperties DEF DiagramsInv, DiagramTypes
  <1>3. job \in ExportNumbers \ {0}
    BY <1>1, <1>2 DEF DiagramCallSet
  <1>4. answer \in Exports /\ answer.of = "job" /\ answer.at = job
    BY <1>3, ExportFields
  <1>5. ASSUME diagramMetadata # NotRead, FollowsMetadata
        PROVE  MatchesList(answer)
    <2>1. call.job = JobOf(diagramMetadata)
      BY <1>5 DEF FollowsMetadata, FollowingCall
    <2>2. diagramMetadata.of = "job" => diagramMetadata.at \in Nat \ {0} /\ diagramMetadata = Export("job", diagramMetadata.at)
      BY <1>5, ExportFields DEF DiagramsInv, DiagramTypes
    <2>3. diagramMetadata.of = "job" => job = diagramMetadata.at
      BY <2>1, <2>2 DEF JobOf, NoJob
    <2> QED
      BY <1>4, <2>2, <2>3 DEF MatchesList
  <1> HIDE DEF answer, job, call
  <1>6. FilesFollowDates' /\ diagramFiles' \in [Files -> [dated : ExportNumbers, content : ExportNumbers]]
    BY <1>1 DEF DiagramsInv, FilesFollowDates, DiagramTypes
  <1> QED
    BY <1>1, <1>4, <1>5, <1>6, DiagramAnswerStep

\* The cache is cleared.
LEMMA ServeClearStep ==
    ASSUME DiagramsInv, NEW i \in DOMAIN diagramCalls, ServeClear(i)
    PROVE  DiagramsInv'
  <1>1. IsCall(diagramCalls[i], ClearCall) /\ diagramFiles' = EmptyFiles /\ AnswerCall(i, NotRead) /\ UNCHANGED diagramHead
    BY DEF ServeClear, AnswerCall
  <1>2. NoFile.dated <= NoFile.content /\ NoFile.content <= diagramHead
    BY DEF NoFile, DiagramsInv, DiagramTypes, ExportNumbers
  <1>3. FilesFollowDates'
    BY <1>1, <1>2 DEF FilesFollowDates, EmptyFiles
  <1>4. diagramFiles' \in [Files -> [dated : ExportNumbers, content : ExportNumbers]]
    BY <1>1, ExportFields DEF EmptyFiles, NoFile
  <1>5. MatchesList(NotRead) /\ NotRead.of # "branch"
    BY ExportFields DEF MatchesList
  <1> QED
    BY <1>1, <1>3, <1>4, <1>5, DiagramAnswerStep

\* An answer matches the list, unless the cache was cleared before.
LEMMA DiagramAnsweredStep ==
    ASSUME DiagramsInv, NEW i \in DOMAIN diagramCalls, DiagramAnswered(i)
    PROVE  DiagramsInv'
  <1> USE DEF DiagramsInv
  <1> DEFINE call == diagramCalls[i]
             rest == RemoveAt(diagramCalls, i)
  <1>1. /\ call.served
        /\ diagramCalls' = IF IsCall(call, ClearCall) THEN Append(rest, MetadataCall) ELSE rest
        /\ diagramMetadata' = IF IsCall(call, MetadataCall) THEN call.answer ELSE diagramMetadata
        /\ diagrams' = IF IsDiagram(call) THEN [diagrams EXCEPT ![call.file] = call.answer] ELSE diagrams
        /\ UNCHANGED <<diagramsOpen, diagramHead, diagramJob, diagramFiles, diagramsLate>>
    BY DEF DiagramAnswered
  <1>2. diagramCalls \in Seq(DiagramCallSet) /\ call \in DiagramCallSet /\ SoundCall(call)
    BY ElementOfSeq, LenProperties DEF DiagramTypes
  <1>3. /\ rest \in Seq(DiagramCallSet) /\ Len(rest) = Len(diagramCalls) - 1 /\ Len(diagramCalls) \in Nat
        /\ \A j \in DOMAIN rest : \E k \in DOMAIN diagramCalls \ {i} : rest[j] = diagramCalls[k]
    BY <1>2, Removed, RemovedElements, LenProperties
  <1>4. call.answer \in Exports \cup {NotRead} /\ (~IsCall(call, ClearCall) => call.answer \in Exports)
    BY <1>1, <1>2 DEF DiagramCallSet, SoundCall
  <1> HIDE DEF rest
  <1>5. /\ Append(rest, MetadataCall) \in Seq(DiagramCallSet)
        /\ Len(Append(rest, MetadataCall)) = Len(rest) + 1
        /\ \A j \in DOMAIN Append(rest, MetadataCall) :
              \/ Append(rest, MetadataCall)[j] = MetadataCall
              \/ j \in DOMAIN rest /\ Append(rest, MetadataCall)[j] = rest[j]
    BY <1>3, NewDiagramCalls, Appended
  <1>6. /\ diagramCalls' \in Seq(DiagramCallSet)
        /\ \A j \in DOMAIN diagramCalls' :
              diagramCalls'[j] = MetadataCall \/ \E k \in DOMAIN diagramCalls : diagramCalls'[j] = diagramCalls[k]
    BY <1>1, <1>3, <1>5
  <1>7. Len(diagramCalls') <= MaxDiagramCalls
    BY <1>1, <1>3, <1>5, DiagramsAssumption DEF DiagramTypes
  <1>8. DiagramTypes'
    BY <1>1, <1>4, <1>6, <1>7 DEF DiagramTypes
  <1>9. FilesFollowDates' /\ \A j \in DOMAIN diagramCalls' : SoundCall(diagramCalls[j])'
    BY <1>1, <1>6, NewDiagramCalls DEF SoundCall, FilesFollowDates
  <1>10. ASSUME ~diagramsLate, diagramMetadata = NotRead
         PROVE  IF diagramMetadata' = NotRead THEN AwaitsMetadata' ELSE FollowsMetadata'
    <2>1. AwaitsMetadata /\ Len(rest) = 0 /\ rest = <<>> /\ ~IsDiagram(call)
      BY <1>2, <1>3, <1>10, EmptySeq, LenProperties DEF AwaitsMetadata
    <2>2. CASE IsCall(call, MetadataCall)
      <3>1. call.answer \in Exports /\ diagramCalls' = <<>> /\ diagrams' = NoDiagrams /\ diagramMetadata' = call.answer
        BY <1>1, <1>2, <1>4, <2>1, <2>2, KindsOfCalls DEF AwaitsMetadata
      <3>2. DOMAIN diagramCalls' = {} /\ diagramMetadata' # NotRead
        BY <3>1, ExportFields
      <3>3. \A uuid \in Uuids : MatchesList(diagrams[uuid])'
        BY <3>1, ExportFields DEF MatchesList, NoDiagrams
      <3>4. diagramMetadata'.of = "branch" => diagramMetadata'.at <= diagramHead'
        BY <1>1, <1>2, <3>1 DEF SoundCall
      <3> QED
        BY <3>2, <3>3, <3>4 DEF FollowsMetadata
    <2>3. CASE IsCall(call, ClearCall)
      <3>1. diagramCalls' = Append(rest, MetadataCall) /\ diagrams' = NoDiagrams /\ diagramMetadata' = NotRead
        BY <1>1, <1>2, <1>10, <2>1, <2>3, KindsOfCalls DEF AwaitsMetadata
      <3>2. \A j \in DOMAIN diagramCalls' : diagramCalls'[j] = MetadataCall
        BY <1>5, <2>1, <3>1
      <3> QED
        BY <1>5, <2>1, <3>1, <3>2, NewDiagramCalls, KindsOfCalls DEF AwaitsMetadata
    <2> QED
      BY <1>2, <2>1, <2>2, <2>3, KindsOfCalls
  <1>11. ASSUME ~diagramsLate, diagramMetadata # NotRead
         PROVE  FollowsMetadata' /\ diagramMetadata' = diagramMetadata
    <2>1. /\ IsDiagram(call) /\ MatchesList(call.answer) /\ call.file \in Uuids
          /\ diagramMetadata' = diagramMetadata /\ diagramCalls' = rest
          /\ diagrams' = [diagrams EXCEPT ![call.file] = call.answer]
      BY <1>1, <1>2, <1>11, KindsOfCalls DEF FollowsMetadata, FollowingCall, SoundCall
    <2>2. \A uuid \in Uuids : diagrams'[uuid] \in {diagrams[uuid], call.answer}
      BY <2>1 DEF DiagramTypes
    <2> HIDE DEF call
    <2>3. \A uuid \in Uuids : MatchesList(diagrams[uuid])'
      BY <1>11, <2>1, <2>2 DEF FollowsMetadata, MatchesList
    <2>4. \A j \in DOMAIN diagramCalls' : FollowingCall(diagramCalls[j])'
      BY <1>3, <1>11, <2>1 DEF FollowsMetadata, FollowingCall, MatchesList
    <2> QED
      BY <1>1, <1>11, <2>1, <2>3, <2>4 DEF FollowsMetadata
  <1> QED
    BY <1>1, <1>8, <1>9, <1>10, <1>11

\* A failure shows no diagram but a broken one.
LEMMA DiagramFailedStep ==
    ASSUME DiagramsInv, NEW i \in DOMAIN diagramCalls, DiagramFailed(i)
    PROVE  DiagramsInv'
  <1> USE DEF DiagramsInv
  <1> DEFINE call == diagramCalls[i]
             rest == RemoveAt(diagramCalls, i)
  <1>1. /\ diagramCalls' = rest
        /\ diagramsOpen' \in BOOLEAN
        /\ diagrams' = IF IsDiagram(call) THEN [diagrams EXCEPT ![call.file] = Broken] ELSE diagrams
        /\ UNCHANGED <<diagramMetadata, diagramHead, diagramJob, diagramFiles, diagramsLate>>
    BY DEF DiagramFailed
  <1>2. /\ diagramCalls \in Seq(DiagramCallSet)
    BY DEF DiagramTypes
  <1>3. /\ rest \in Seq(DiagramCallSet) /\ Len(rest) = Len(diagramCalls) - 1 /\ Len(diagramCalls) \in Nat
        /\ \A j \in DOMAIN rest : \E k \in DOMAIN diagramCalls \ {i} : rest[j] = diagramCalls[k]
    BY <1>2, Removed, RemovedElements, LenProperties
  <1> HIDE DEF rest
  <1>4. DiagramTypes'
    <2>1. diagrams' \in [Uuids -> Exports \cup {NotRead, Awaited, Broken}]
      BY <1>1 DEF DiagramTypes
    <2>2. Len(rest) <= MaxDiagramCalls
      BY <1>3, DiagramsAssumption DEF DiagramTypes
    <2> QED
      BY <1>1, <1>3, <2>1, <2>2 DEF DiagramTypes
  <1>5. FilesFollowDates' /\ \A j \in DOMAIN diagramCalls' : SoundCall(diagramCalls[j])'
    BY <1>1, <1>3 DEF SoundCall, FilesFollowDates
  <1>6. AwaitsMetadata => AwaitsMetadata'
    BY <1>1, <1>3 DEF AwaitsMetadata, NoDiagrams
  <1>7. \A uuid \in Uuids : diagrams'[uuid] \in {diagrams[uuid], Broken}
    BY <1>1 DEF DiagramTypes
  <1>8. FollowsMetadata => FollowsMetadata'
    <2>1. MatchesList(Broken)
      BY ExportFields DEF MatchesList
    <2> QED
      BY <1>1, <1>3, <1>7, <2>1 DEF FollowsMetadata, FollowingCall, MatchesList
  <1> QED
    BY <1>1, <1>4, <1>5, <1>6, <1>8

\* Every step keeps the invariant of the diagrams.
LEMMA DiagramsStep ==
    ASSUME DiagramsInv, [DiagramsNext]_diagramVars
    PROVE  DiagramsInv'
  <1>1. CASE UNCHANGED diagramVars
    BY <1>1 DEF diagramVars, dialogOfDiagrams, DiagramsInv, DiagramTypes, FilesFollowDates, SoundCall,
                AwaitsMetadata, FollowsMetadata, FollowingCall, MatchesList
  <1> QED
    BY <1>1, ExportsStep, OthersStep, DialogOpensStep, ClearCacheStep, LazyLoadStep, ReadDateStep, ReadFileStep,
       ReadArtifactStep, ServeClearStep, DiagramAnsweredStep, DiagramFailedStep
       DEF DiagramsNext

\* In every reachable state the calls under way name the job of the list or read the
\* branch no earlier than the list did, whatever is cached and whoever else reads, unless
\* the cache was cleared while an answer was awaited.
THEOREM DiagramsInvariant == DiagramsSpec => []DiagramsInv
  BY DiagramsInitial, DiagramsStep, PTL DEF DiagramsSpec

\* For any diagrams, exports and requests under way: the diagrams shown are of the job the
\* list names, or of the branch no older than the list, unless the cache was cleared while
\* an answer was awaited.
THEOREM ShownDiagramsMatchTheList == DiagramsSpec => []DiagramsMatchList
  <1>1. DiagramsInv => DiagramsMatchList
    BY DEF DiagramsInv, FollowsMetadata, MatchesList, DiagramsMatchList
  <1> QED
    BY <1>1, DiagramsInvariant, PTL

-----------------------------------------------------------------------------
(* Stores: the table of what they read and change, then what each page waits for *)

\* A store reads something.
ReadsSomething(store) == store.read # NoPage

\* The changes of a store are other requests than its read.
ChangesAreNoReads(store) ==
    /\ store.read \notin store.reloads /\ store.read \notin store.answers
    /\ store.read \notin store.leaves /\ store.read \notin store.creates

\* What a store does depends on its name, not on what its page is about.
SameWays(store, other) == store.ways = other.ways

\* A store that follows a stream switches to the newest read, and no page is opened by
\* what is created; it is local to its page unless nothing is changed there.
StreamsFollow(store) ==
    "stream" \in store.ways =>
       /\ "switches" \in store.ways /\ store.creates = {}
       /\ "local" \in store.ways \/ store.reloads \cup store.answers \cup store.leaves = {}

\* What every row of the table has in common.
Fits(store, other) ==
    /\ ReadsSomething(store)
    /\ ChangesAreNoReads(store)
    /\ SameWays(store, other)
    /\ StreamsFollow(store)

\* This holds of every row of the table.
LEMMA TableFits ==
    ASSUME NEW id \in Ids, NEW other \in Ids, NEW name \in DOMAIN Stores(id)
    PROVE  Fits(Stores(id)[name], Stores(other)[name])
  <1>1. /\ ReadsSomething(Announcements)
        /\ ReadsSomething(Configuration)
        /\ ReadsSomething(UnifiedConfig)
        /\ ReadsSomething(PureVariants)
        /\ ReadsSomething(Tokens)
        /\ ReadsSomething(Users(id))
        /\ ReadsSomething(UserOfPage(id))
        /\ ReadsSomething(Workspaces(id))
        /\ ReadsSomething(CommonProjects(id))
        /\ ReadsSomething(UserEvents(id))
        /\ ReadsSomething(AllSessions)
        /\ ReadsSomething(Events)
        /\ ReadsSomething(Health(GeneralStatus))
        /\ ReadsSomething(Health(ProjectStatus))
        /\ ReadsSomething(Health(ModelStatus))
        /\ ReadsSomething(GitInstances(id))
        /\ ReadsSomething(GitInstanceOfPage(id))
        /\ ReadsSomething(T4CInstances(id))
        /\ ReadsSomething(T4CInstanceOfPage(id))
        /\ ReadsSomething(LicenseServers(id))
        /\ ReadsSomething(LicenseServerOfPage(id))
        /\ ReadsSomething(Tools(id))
    BY DEF ReadsSomething, NoPage, Store, Glance, Request, AllSessions, Announcements,
           CommonProjects, Configuration, Events, GitInstanceOfPage, GitInstances, Health,
           LicenseServerOfPage, LicenseServers, PureVariants, T4CInstanceOfPage, T4CInstances,
           Tokens, Tools, UnifiedConfig, UserEvents, UserOfPage, Users, Workspaces,
           GeneralStatus, GetAllSessions, GetAllTokensOfUser, GetAnnouncements,
           GetCommonProjects, GetConfiguration, GetEvents, GetGitInstance, GetLicense,
           GetT4cInstance, GetT4cInstances, GetT4cLicenseServer, GetT4cLicenseServers, GetTools,
           GetUnifiedConfig, GetUser, GetUserEvents, GetUsers, GetWorkspacesForUser,
           ListGitInstances, ModelStatus, ProjectStatus
  <1>2. /\ ReadsSomething(ToolOfPage(id))
        /\ ReadsSomething(Projects(id))
        /\ ReadsSomething(ProjectTools(id))
        /\ ReadsSomething(GitModels(id))
        /\ ReadsSomething(GitModelOfPage(id))
        /\ ReadsSomething(T4CModels(id))
        /\ ReadsSomething(T4CModelOfPage(id))
        /\ ReadsSomething(Restrictions(id))
        /\ ReadsSomething(PipelinesOfModel(id))
        /\ ReadsSomething(PipelineOfPage(id))
        /\ ReadsSomething(Diagrams(id))
        /\ ReadsSomething(Provisioning(id))
        /\ ReadsSomething(Badge(id))
        /\ ReadsSomething(Readmes(id))
        /\ ReadsSomething(Revisions(id))
        /\ ReadsSomething(RevisionsOfGitModel(id))
        /\ ReadsSomething(Permissions(GetAvailablePermissions))
        /\ ReadsSomething(Permissions(GetAvailableProjectPermissions))
        /\ ReadsSomething(DefaultTool)
        /\ ReadsSomething(VersionsForAllTools)
        /\ ReadsSomething(OwnUser)
    BY DEF ReadsSomething, NoPage, Store, Glance, Request, Badge, DefaultTool, Diagrams,
           GitModelOfPage, GitModels, OwnUser, Permissions, PipelineOfPage, PipelinesOfModel,
           ProjectTools, Projects, Provisioning, Readmes, Restrictions, Revisions,
           RevisionsOfGitModel, T4CModelOfPage, T4CModels, ToolOfPage, VersionsForAllTools,
           GetAvailablePermissions, GetAvailableProjectPermissions, GetCurrentUser,
           GetDefaultTool, GetDiagramMetadata, GetGitModelById, GetGitModels, GetModelBySlug,
           GetModelComplexityBadge, GetPipeline, GetPipelines, GetProjectTools, GetProjects,
           GetProvisioning, GetReadme, GetRevisions, GetRevisionsWithModelCredentials,
           GetT4cModel, GetToolById, GetVersionsForAllTools, ListT4cModels
  <1>3. /\ ChangesAreNoReads(CommonProjects(id))
        /\ ChangesAreNoReads(UserEvents(id))
        /\ ChangesAreNoReads(AllSessions)
        /\ ChangesAreNoReads(Events)
        /\ ChangesAreNoReads(Health(GeneralStatus))
        /\ ChangesAreNoReads(Health(ProjectStatus))
        /\ ChangesAreNoReads(Health(ModelStatus))
        /\ ChangesAreNoReads(PipelineOfPage(id))
        /\ ChangesAreNoReads(Badge(id))
        /\ ChangesAreNoReads(Readmes(id))
        /\ ChangesAreNoReads(Revisions(id))
        /\ ChangesAreNoReads(RevisionsOfGitModel(id))
        /\ ChangesAreNoReads(Permissions(GetAvailablePermissions))
        /\ ChangesAreNoReads(Permissions(GetAvailableProjectPermissions))
        /\ ChangesAreNoReads(DefaultTool)
        /\ ChangesAreNoReads(VersionsForAllTools)
        /\ ChangesAreNoReads(OwnUser)
    BY DEF ChangesAreNoReads, Store, Glance, AllSessions, Badge, CommonProjects, DefaultTool,
           Events, Health, OwnUser, Permissions, PipelineOfPage, Readmes, Revisions,
           RevisionsOfGitModel, UserEvents, VersionsForAllTools
  <1>4. /\ CreateAnnouncement.verb # "GET"
        /\ CreateBackup(id).verb # "GET"
        /\ CreateGitInstance.verb # "GET"
        /\ CreateGitModel(id).verb # "GET"
        /\ CreateProject("p").verb # "GET"
        /\ CreateT4cInstance.verb # "GET"
        /\ CreateT4cLicenseServer.verb # "GET"
        /\ CreateT4cModel(id).verb # "GET"
        /\ CreateTokenForUser.verb # "GET"
        /\ CreateTool.verb # "GET"
        /\ CreateUser.verb # "GET"
        /\ DeleteAnnouncement.verb # "GET"
        /\ DeleteGitInstance(id).verb # "GET"
        /\ DeleteGitModelById(id).verb # "GET"
        /\ DeleteLicenseKeyFile.verb # "GET"
        /\ DeletePipeline(id).verb # "GET"
        /\ DeleteProject("p").verb # "GET"
        /\ DeleteT4cInstance(id).verb # "GET"
        /\ DeleteT4cLicenseServer(id).verb # "GET"
        /\ DeleteT4cModel(id).verb # "GET"
        /\ DeleteTokenForUser.verb # "GET"
        /\ DeleteTool(id).verb # "GET"
        /\ DeleteToolFromProject(id).verb # "GET"
        /\ DeleteUser(id).verb # "GET"
        /\ DeleteWorkspace(id).verb # "GET"
        /\ EditGitInstance(id).verb # "GET"
        /\ EditT4cInstance(id).verb # "GET"
        /\ EditT4cLicenseServer(id).verb # "GET"
        /\ EmptyCache(id).verb # "GET"
        /\ GetAllTokensOfUser.verb = "GET"
        /\ GetAnnouncements.verb = "GET"
        /\ GetConfiguration.verb = "GET"
        /\ GetDiagramMetadata(id).verb = "GET"
        /\ GetGitInstance(id).verb = "GET"
        /\ GetGitModelById(id).verb = "GET"
        /\ GetGitModels(id).verb = "GET"
        /\ GetLicense.verb = "GET"
        /\ GetModelBySlug("p", id).verb = "GET"
        /\ GetPipelines(id).verb = "GET"
        /\ GetProjectTools(id).verb = "GET"
        /\ GetProjects(id).verb = "GET"
        /\ GetProvisioning(id).verb = "GET"
        /\ GetT4cInstance(id).verb = "GET"
        /\ GetT4cInstances.verb = "GET"
        /\ GetT4cLicenseServer(id).verb = "GET"
        /\ GetT4cLicenseServers.verb = "GET"
        /\ GetT4cModel(id).verb = "GET"
        /\ GetToolById(id).verb = "GET"
        /\ GetTools.verb = "GET"
        /\ GetUnifiedConfig.verb = "GET"
        /\ GetUser(id).verb = "GET"
        /\ GetUsers.verb = "GET"
        /\ GetWorkspacesForUser(id).verb = "GET"
        /\ LinkToolToProject(id).verb # "GET"
        /\ ListGitInstances.verb = "GET"
        /\ ListT4cModels(id).verb = "GET"
        /\ ResetProvisioning(id).verb # "GET"
        /\ SetLicense.verb # "GET"
        /\ UpdateAnnouncement.verb # "GET"
        /\ UpdateConfiguration.verb # "GET"
        /\ UpdateGitModelById(id).verb # "GET"
        /\ UpdateProject("p").verb # "GET"
        /\ UpdateRestrictions(id).verb # "GET"
        /\ UpdateT4cModel(id).verb # "GET"
        /\ UpdateTool(id).verb # "GET"
        /\ UpdateUser(id).verb # "GET"
        /\ UploadLicenseKeyFile.verb # "GET"
    BY DEF Request, CreateAnnouncement, CreateBackup, CreateGitInstance, CreateGitModel,
           CreateProject, CreateT4cInstance, CreateT4cLicenseServer, CreateT4cModel,
           CreateTokenForUser, CreateTool, CreateUser, DeleteAnnouncement, DeleteGitInstance,
           DeleteGitModelById, DeleteLicenseKeyFile, DeletePipeline, DeleteProject,
           DeleteT4cInstance, DeleteT4cLicenseServer, DeleteT4cModel, DeleteTokenForUser,
           DeleteTool, DeleteToolFromProject, DeleteUser, DeleteWorkspace, EditGitInstance,
           EditT4cInstance, EditT4cLicenseServer, EmptyCache, GetAllTokensOfUser,
           GetAnnouncements, GetConfiguration, GetDiagramMetadata, GetGitInstance,
           GetGitModelById, GetGitModels, GetLicense, GetModelBySlug, GetPipelines,
           GetProjectTools, GetProjects, GetProvisioning, GetT4cInstance, GetT4cInstances,
           GetT4cLicenseServer, GetT4cLicenseServers, GetT4cModel, GetToolById, GetTools,
           GetUnifiedConfig, GetUser, GetUsers, GetWorkspacesForUser, LinkToolToProject,
           ListGitInstances, ListT4cModels, ResetProvisioning, SetLicense, UpdateAnnouncement,
           UpdateConfiguration, UpdateGitModelById, UpdateProject, UpdateRestrictions,
           UpdateT4cModel, UpdateTool, UpdateUser, UploadLicenseKeyFile
  <1>5. /\ ChangesAreNoReads(Announcements)
        /\ ChangesAreNoReads(Configuration)
        /\ ChangesAreNoReads(UnifiedConfig)
        /\ ChangesAreNoReads(PureVariants)
        /\ ChangesAreNoReads(Tokens)
        /\ ChangesAreNoReads(Users(id))
        /\ ChangesAreNoReads(UserOfPage(id))
        /\ ChangesAreNoReads(Workspaces(id))
        /\ ChangesAreNoReads(GitInstances(id))
        /\ ChangesAreNoReads(GitInstanceOfPage(id))
        /\ ChangesAreNoReads(T4CInstances(id))
        /\ ChangesAreNoReads(T4CInstanceOfPage(id))
        /\ ChangesAreNoReads(LicenseServers(id))
        /\ ChangesAreNoReads(LicenseServerOfPage(id))
        /\ ChangesAreNoReads(Tools(id))
        /\ ChangesAreNoReads(ToolOfPage(id))
        /\ ChangesAreNoReads(Projects(id))
        /\ ChangesAreNoReads(ProjectTools(id))
        /\ ChangesAreNoReads(GitModels(id))
        /\ ChangesAreNoReads(GitModelOfPage(id))
        /\ ChangesAreNoReads(T4CModels(id))
        /\ ChangesAreNoReads(T4CModelOfPage(id))
        /\ ChangesAreNoReads(Restrictions(id))
        /\ ChangesAreNoReads(PipelinesOfModel(id))
        /\ ChangesAreNoReads(Diagrams(id))
        /\ ChangesAreNoReads(Provisioning(id))
    BY <1>4 DEF ChangesAreNoReads, Store, Announcements, Configuration, Diagrams,
           GitInstanceOfPage, GitInstances, GitModelOfPage, GitModels, LicenseServerOfPage,
           LicenseServers, PipelinesOfModel, ProjectTools, Projects, Provisioning, PureVariants,
           Restrictions, T4CInstanceOfPage, T4CInstances, T4CModelOfPage, T4CModels, Tokens,
           ToolOfPage, Tools, UnifiedConfig, UserOfPage, Users, Workspaces
  <1>6. /\ SameWays(Announcements, Announcements)
        /\ SameWays(Configuration, Configuration)
        /\ SameWays(UnifiedConfig, UnifiedConfig)
        /\ SameWays(PureVariants, PureVariants)
        /\ SameWays(Tokens, Tokens)
        /\ SameWays(Users(id), Users(other))
        /\ SameWays(UserOfPage(id), UserOfPage(other))
        /\ SameWays(Workspaces(id), Workspaces(other))
        /\ SameWays(CommonProjects(id), CommonProjects(other))
        /\ SameWays(UserEvents(id), UserEvents(other))
        /\ SameWays(AllSessions, AllSessions)
        /\ SameWays(Events, Events)
        /\ SameWays(Health(GeneralStatus), Health(GeneralStatus))
        /\ SameWays(Health(ProjectStatus), Health(ProjectStatus))
        /\ SameWays(Health(ModelStatus), Health(ModelStatus))
        /\ SameWays(GitInstances(id), GitInstances(other))
        /\ SameWays(GitInstanceOfPage(id), GitInstanceOfPage(other))
        /\ SameWays(T4CInstances(id), T4CInstances(other))
        /\ SameWays(T4CInstanceOfPage(id), T4CInstanceOfPage(other))
        /\ SameWays(LicenseServers(id), LicenseServers(other))
        /\ SameWays(LicenseServerOfPage(id), LicenseServerOfPage(other))
        /\ SameWays(Tools(id), Tools(other))
    BY DEF SameWays, Store, Glance, AllSessions, Announcements, CommonProjects, Configuration,
           Events, GitInstanceOfPage, GitInstances, Health, LicenseServerOfPage, LicenseServers,
           PureVariants, T4CInstanceOfPage, T4CInstances, Tokens, Tools, UnifiedConfig,
           UserEvents, UserOfPage, Users, Workspaces
  <1>7. /\ SameWays(ToolOfPage(id), ToolOfPage(other))
        /\ SameWays(Projects(id), Projects(other))
        /\ SameWays(ProjectTools(id), ProjectTools(other))
        /\ SameWays(GitModels(id), GitModels(other))
        /\ SameWays(GitModelOfPage(id), GitModelOfPage(other))
        /\ SameWays(T4CModels(id), T4CModels(other))
        /\ SameWays(T4CModelOfPage(id), T4CModelOfPage(other))
        /\ SameWays(Restrictions(id), Restrictions(other))
        /\ SameWays(PipelinesOfModel(id), PipelinesOfModel(other))
        /\ SameWays(PipelineOfPage(id), PipelineOfPage(other))
        /\ SameWays(Diagrams(id), Diagrams(other))
        /\ SameWays(Provisioning(id), Provisioning(other))
        /\ SameWays(Badge(id), Badge(other))
        /\ SameWays(Readmes(id), Readmes(other))
        /\ SameWays(Revisions(id), Revisions(other))
        /\ SameWays(RevisionsOfGitModel(id), RevisionsOfGitModel(other))
        /\ SameWays(Permissions(GetAvailablePermissions), Permissions(GetAvailablePermissions))
        /\ SameWays(Permissions(GetAvailableProjectPermissions), Permissions(GetAvailableProjectPermissions))
        /\ SameWays(DefaultTool, DefaultTool)
        /\ SameWays(VersionsForAllTools, VersionsForAllTools)
        /\ SameWays(OwnUser, OwnUser)
    BY DEF SameWays, Store, Glance, Badge, DefaultTool, Diagrams, GitModelOfPage, GitModels,
           OwnUser, Permissions, PipelineOfPage, PipelinesOfModel, ProjectTools, Projects,
           Provisioning, Readmes, Restrictions, Revisions, RevisionsOfGitModel, T4CModelOfPage,
           T4CModels, ToolOfPage, VersionsForAllTools
  <1>8. /\ StreamsFollow(Announcements)
        /\ StreamsFollow(Configuration)
        /\ StreamsFollow(UnifiedConfig)
        /\ StreamsFollow(PureVariants)
        /\ StreamsFollow(Tokens)
        /\ StreamsFollow(Users(id))
        /\ StreamsFollow(UserOfPage(id))
        /\ StreamsFollow(Workspaces(id))
        /\ StreamsFollow(CommonProjects(id))
        /\ StreamsFollow(UserEvents(id))
        /\ StreamsFollow(AllSessions)
        /\ StreamsFollow(Events)
        /\ StreamsFollow(Health(GeneralStatus))
        /\ StreamsFollow(Health(ProjectStatus))
        /\ StreamsFollow(Health(ModelStatus))
        /\ StreamsFollow(GitInstances(id))
        /\ StreamsFollow(GitInstanceOfPage(id))
        /\ StreamsFollow(T4CInstances(id))
        /\ StreamsFollow(T4CInstanceOfPage(id))
        /\ StreamsFollow(LicenseServers(id))
        /\ StreamsFollow(LicenseServerOfPage(id))
        /\ StreamsFollow(Tools(id))
    BY DEF StreamsFollow, Store, Glance, AllSessions, Announcements, CommonProjects,
           Configuration, Events, GitInstanceOfPage, GitInstances, Health, LicenseServerOfPage,
           LicenseServers, PureVariants, T4CInstanceOfPage, T4CInstances, Tokens, Tools,
           UnifiedConfig, UserEvents, UserOfPage, Users, Workspaces
  <1>9. /\ StreamsFollow(ToolOfPage(id))
        /\ StreamsFollow(Projects(id))
        /\ StreamsFollow(ProjectTools(id))
        /\ StreamsFollow(GitModels(id))
        /\ StreamsFollow(GitModelOfPage(id))
        /\ StreamsFollow(T4CModels(id))
        /\ StreamsFollow(T4CModelOfPage(id))
        /\ StreamsFollow(Restrictions(id))
        /\ StreamsFollow(PipelinesOfModel(id))
        /\ StreamsFollow(PipelineOfPage(id))
        /\ StreamsFollow(Diagrams(id))
        /\ StreamsFollow(Provisioning(id))
        /\ StreamsFollow(Badge(id))
        /\ StreamsFollow(Readmes(id))
        /\ StreamsFollow(Revisions(id))
        /\ StreamsFollow(RevisionsOfGitModel(id))
        /\ StreamsFollow(Permissions(GetAvailablePermissions))
        /\ StreamsFollow(Permissions(GetAvailableProjectPermissions))
        /\ StreamsFollow(DefaultTool)
        /\ StreamsFollow(VersionsForAllTools)
        /\ StreamsFollow(OwnUser)
    BY DEF StreamsFollow, Store, Glance, Badge, DefaultTool, Diagrams, GitModelOfPage,
           GitModels, OwnUser, Permissions, PipelineOfPage, PipelinesOfModel, ProjectTools,
           Projects, Provisioning, Readmes, Restrictions, Revisions, RevisionsOfGitModel,
           T4CModelOfPage, T4CModels, ToolOfPage, VersionsForAllTools
  <1>11. /\ Fits(Announcements, Announcements)
        /\ Fits(Configuration, Configuration)
        /\ Fits(UnifiedConfig, UnifiedConfig)
        /\ Fits(PureVariants, PureVariants)
        /\ Fits(Tokens, Tokens)
        /\ Fits(Users(id), Users(other))
        /\ Fits(UserOfPage(id), UserOfPage(other))
        /\ Fits(Workspaces(id), Workspaces(other))
        /\ Fits(CommonProjects(id), CommonProjects(other))
        /\ Fits(UserEvents(id), UserEvents(other))
        /\ Fits(AllSessions, AllSessions)
        /\ Fits(Events, Events)
        /\ Fits(Health(GeneralStatus), Health(GeneralStatus))
        /\ Fits(Health(ProjectStatus), Health(ProjectStatus))
        /\ Fits(Health(ModelStatus), Health(ModelStatus))
        /\ Fits(GitInstances(id), GitInstances(other))
        /\ Fits(GitInstanceOfPage(id), GitInstanceOfPage(other))
        /\ Fits(T4CInstances(id), T4CInstances(other))
        /\ Fits(T4CInstanceOfPage(id), T4CInstanceOfPage(other))
        /\ Fits(LicenseServers(id), LicenseServers(other))
        /\ Fits(LicenseServerOfPage(id), LicenseServerOfPage(other))
        /\ Fits(Tools(id), Tools(other))
    BY <1>1, <1>2, <1>3, <1>5, <1>6, <1>7, <1>8, <1>9 DEF Fits
  <1>12. /\ Fits(ToolOfPage(id), ToolOfPage(other))
        /\ Fits(Projects(id), Projects(other))
        /\ Fits(ProjectTools(id), ProjectTools(other))
        /\ Fits(GitModels(id), GitModels(other))
        /\ Fits(GitModelOfPage(id), GitModelOfPage(other))
        /\ Fits(T4CModels(id), T4CModels(other))
        /\ Fits(T4CModelOfPage(id), T4CModelOfPage(other))
        /\ Fits(Restrictions(id), Restrictions(other))
        /\ Fits(PipelinesOfModel(id), PipelinesOfModel(other))
        /\ Fits(PipelineOfPage(id), PipelineOfPage(other))
        /\ Fits(Diagrams(id), Diagrams(other))
        /\ Fits(Provisioning(id), Provisioning(other))
        /\ Fits(Badge(id), Badge(other))
        /\ Fits(Readmes(id), Readmes(other))
        /\ Fits(Revisions(id), Revisions(other))
        /\ Fits(RevisionsOfGitModel(id), RevisionsOfGitModel(other))
        /\ Fits(Permissions(GetAvailablePermissions), Permissions(GetAvailablePermissions))
        /\ Fits(Permissions(GetAvailableProjectPermissions), Permissions(GetAvailableProjectPermissions))
        /\ Fits(DefaultTool, DefaultTool)
        /\ Fits(VersionsForAllTools, VersionsForAllTools)
        /\ Fits(OwnUser, OwnUser)
    BY <1>1, <1>2, <1>3, <1>5, <1>6, <1>7, <1>8, <1>9 DEF Fits
  <1> DEFINE first == {"announcements", "configuration", "unifiedConfig", "pureVariants",
                       "tokens", "users", "user", "workspaces", "commonProjects", "userEvents",
                       "allSessions", "events", "generalStatus", "projectStatus", "modelStatus",
                       "gitInstances", "gitInstance", "t4cInstances", "t4cInstance",
                       "licenseServers", "licenseServer", "tools"}
             second == {"tool", "projects", "projectTools", "gitModels", "gitModel",
                        "t4cModels", "t4cModel", "restrictions", "pipelines", "pipeline",
                        "diagrams", "provisioning", "badge", "readmes", "revisions",
                        "privateRevisions", "permissions", "projectPermissions", "defaultTool",
                        "allVersions", "ownUser"}
  <1>13. CASE name \in first
    BY <1>11, <1>13 DEF Stores
  <1>14. CASE name \in second
    BY <1>12, <1>14 DEF Stores
  <1>15. name \in first \cup second
    BY DEF Stores
  <1> QED
    BY <1>13, <1>14, <1>15

\* What a store is, whatever its page is about.
LEMMA StoreFits ==
    ASSUME NEW name \in Names, NEW read \in ReadsOf[name]
    PROVE  LET store == StoreOf[name][read] IN
           /\ store.read = read /\ read # NoPage
           /\ read \notin ChangesOf(name, read)
           /\ "stream" \in Ways[name] =>
                 /\ "switches" \in Ways[name] /\ store.creates = {}
                 /\ "local" \in Ways[name] \/ store.reloads \cup store.answers \cup store.leaves = {}
  <1> DEFINE some == CHOOSE id \in Ids : TRUE
             rows == {Table[id][name] : id \in Ids}
             store == CHOOSE row \in rows : row.read = read
  <1>1. some \in Ids
    BY StoresAssumption
  <1>2. \A id \in Ids : DOMAIN Stores(id) = DOMAIN Stores(some)
    BY DEF Stores
  <1>3. \A id \in Ids : Table[id] = Stores(id)
    BY DEF Table
  <1>4. \A id \in Ids : name \in DOMAIN Stores(id)
    BY <1>1, <1>2, <1>3 DEF Names
  <1>5. ReadsOf[name] = {Table[id][name].read : id \in Ids}
    BY DEF ReadsOf
  <1>6. \E row \in rows : row.read = read
    BY <1>5
  <1>7. store \in rows /\ store.read = read
    BY <1>6
  <1>8. StoreOf[name][read] = store
    <2>1. StoreOf[name] = [r \in ReadsOf[name] |-> CHOOSE row \in rows : row.read = r]
      BY DEF StoreOf
    <2> QED
      BY <2>1
  <1> HIDE DEF store
  <1>9. PICK id \in Ids : store = Stores(id)[name]
    BY <1>3, <1>7
  <1>10. Fits(Stores(id)[name], Stores(some)[name])
    BY <1>1, <1>4, <1>9, TableFits
  <1>11. Ways[name] = Stores(some)[name].ways
    BY <1>1, <1>3 DEF Ways
  <1> HIDE DEF some
  <1>12. /\ read # NoPage
         /\ read \notin store.reloads \cup store.answers \cup store.leaves \cup store.creates
    BY <1>7, <1>9, <1>10 DEF Fits, ReadsSomething, ChangesAreNoReads
  <1>13. Ways[name] = store.ways
    BY <1>9, <1>10, <1>11 DEF Fits, SameWays
  <1>14. StreamsFollow(store)
    BY <1>9, <1>10 DEF Fits
  <1> QED
    BY <1>7, <1>8, <1>12, <1>13, <1>14 DEF StreamsFollow, ChangesOf

\* The requests that may be under way, for a store.
StoreRequests(name) == ReadsOf[name] \cup UNION {ChangesOf(name, read) : read \in ReadsOf[name]}
StoreCallSet(name) ==
    {call \in [request : StoreRequests(name), of : ReadsOf[name], seen : Versions, page : BOOLEAN] :
        IsRead(call) \/ call.request \in ChangesOf(name, call.of)}

\* The reads whose answers the store still takes.
LiveReads(calls) == {i \in DOMAIN calls : calls[i].page /\ IsRead(calls[i])}

\* A request under way has the current version of what a read returns, or will bring it.
Brings(call, read, version) ==
    /\ call.of = read
    /\ IF IsRead(call) THEN call.page /\ call.seen \in {Unserved, version} ELSE call.seen = version
OnItsWay(calls, read, version) == \E i \in DOMAIN calls : Brings(calls[i], read, version)

StoresTypes ==
    /\ storeName \in Names
    /\ storePage \in ReadsOf[storeName] \cup {NoPage}
    /\ storeHeld \in [read : ReadsOf[storeName] \cup {NoPage}, version : Versions]
    /\ storeData \in [ReadsOf[storeName] -> 0 .. MaxChanges]
    /\ storeCalls \in Seq(StoreCallSet(storeName)) /\ Len(storeCalls) <= MaxCalls
    /\ storeNewest \in [ReadsOf[storeName] -> Versions]
    /\ storeStreams \in Nat /\ storeLost \in BOOLEAN

\* No answer is of a version that the backend has not reached, and the value held is
\* of an answer.
VersionsAreOfTheData ==
    /\ \A i \in DOMAIN storeCalls : storeCalls[i].seen <= storeData[storeCalls[i].of]
    /\ \A read \in ReadsOf[storeName] : storeNewest[read] <= storeData[read]
    /\ storeHeld # Undef =>
          storeHeld.read \in ReadsOf[storeName] /\ storeHeld.version \in 0 .. storeNewest[storeHeld.read]

\* Each read whose answer is still taken has a subscription of its own, unless the store
\* does not follow a stream; and a store without a subscription has lost a request.
StreamsAreCounted ==
    /\ storeStreams = 0 => storeLost
    /\ Does("stream") =>
          /\ Cardinality(LiveReads(storeCalls)) <= storeStreams
          /\ Does("local") \/ storeStreams <= 1
          /\ storePage = NoPage => \A i \in DOMAIN storeCalls : storeCalls[i].page => IsRead(storeCalls[i])
    /\ ~Does("stream") => storeStreams = 1

\* The newest version has been answered to the page, or is on its way.
PageIsInformed ==
    storePage # NoPage /\ ~storeLost =>
        /\ \/ OnItsWay(storeCalls, storePage, storeData[storePage])
           \/ storeNewest[storePage] = storeData[storePage]
        /\ storeHeld # Undef \/ LiveReads(storeCalls) # {}

StoresInv ==
    /\ StoresTypes
    /\ VersionsAreOfTheData
    /\ StreamsAreCounted
    /\ PageIsInformed

\* No request is under way and no page is open at first.
LEMMA StoresInitial == StoresInit => StoresInv
  <1> SUFFICES ASSUME StoresInit
               PROVE  StoresInv
    OBVIOUS
  <1> USE DEF StoresInit
  <1>1. storeCalls \in Seq(StoreCallSet(storeName)) /\ Len(storeCalls) = 0 /\ DOMAIN storeCalls = {}
    BY EmptySeq
  <1>2. MaxChanges \in Nat /\ MaxCalls \in Nat
    BY StoresAssumption
  <1>3. StoresTypes
    <2>1. Undef \in [read : ReadsOf[storeName] \cup {NoPage}, version : Versions]
      BY <1>2 DEF Undef, Versions
    <2>2. storeData \in [ReadsOf[storeName] -> 0 .. MaxChanges]
      BY <1>2
    <2>3. storeNewest \in [ReadsOf[storeName] -> Versions]
      BY <1>2 DEF Versions, Undef
    <2>4. storeName \in Names /\ storePage = NoPage /\ storeHeld = Undef
      OBVIOUS
    <2>5. storeStreams \in Nat /\ Len(storeCalls) <= MaxCalls
      BY <1>1, <1>2
    <2>6. storeLost \in BOOLEAN
      OBVIOUS
    <2> HIDE DEF StoresInit
    <2> QED
      BY <1>1, <2>1, <2>2, <2>3, <2>4, <2>5, <2>6 DEF StoresTypes
  <1>4. VersionsAreOfTheData
    BY <1>1 DEF VersionsAreOfTheData, Undef
  <1>5. StreamsAreCounted
    <2>1. LiveReads(storeCalls) = {}
      BY <1>1 DEF LiveReads
    <2>2. Cardinality(LiveReads(storeCalls)) = 0
      BY <2>1, FS_EmptySet
    <2> QED
      BY <1>1, <2>2 DEF StreamsAreCounted
  <1>6. PageIsInformed
    BY DEF PageIsInformed
  <1> QED
    BY <1>3, <1>4, <1>5, <1>6 DEF StoresInv

\* What a store does, and what it may ask, goes by its name, which stays.
LEMMA StoresNamed ==
    ASSUME UNCHANGED storeName
    PROVE  /\ \A way : Does(way)' = Does(way)
           /\ StoreCallSet(storeName)' = StoreCallSet(storeName)
           /\ ReadsOf[storeName]' = ReadsOf[storeName]
  BY DEF Does, StoreCallSet

\* A read that is just sent will bring whatever version is current when it is served.
LEMMA ReadIsACall ==
    ASSUME NEW name, NEW read \in ReadsOf[name]
    PROVE  /\ Sent(read, read) \in StoreCallSet(name)
           /\ IsRead(Sent(read, read)) /\ Sent(read, read).page /\ Sent(read, read).seen = Unserved
           /\ Sent(read, read).of = read
           /\ \A version : Brings(Sent(read, read), read, version)
  BY StoresAssumption DEF Sent, StoreCallSet, StoreRequests, IsRead, Versions, Unserved, Brings

\* A request under way is a read or one of the changes of its store, never both.
LEMMA StoreCallFacts ==
    ASSUME NEW name \in Names, NEW call \in StoreCallSet(name)
    PROVE  /\ call.of \in ReadsOf[name] /\ call.seen \in Versions /\ call.page \in BOOLEAN
           /\ call.request \in StoreRequests(name)
           /\ call.seen \in Int /\ call.seen >= -1
           /\ IsRead(call) \/ call.request \in ChangesOf(name, call.of)
           /\ IsRead(call) => call.request \notin ChangesOf(name, call.of)
  <1>1. call.of \in ReadsOf[name] /\ call.seen \in Versions /\ call.request \in StoreRequests(name)
        /\ (IsRead(call) \/ call.request \in ChangesOf(name, call.of))
    BY DEF StoreCallSet
  <1>2. call.page \in BOOLEAN
    BY DEF StoreCallSet
  <1>3. call.of \notin ChangesOf(name, call.of)
    BY <1>1, StoreFits
  <1> QED
    BY <1>1, <1>2, <1>3, StoresAssumption DEF IsRead, Versions

\* Without one request the others are under way still, and one read less if it was one.
LEMMA OthersLeft ==
    ASSUME NEW name, NEW calls \in Seq(StoreCallSet(name)), NEW k \in DOMAIN calls
    PROVE  LET left == RemoveAt(calls, k) IN
           /\ left \in Seq(StoreCallSet(name)) /\ Len(left) = Len(calls) - 1
           /\ \A j \in DOMAIN left : \E i \in DOMAIN calls \ {k} : left[j] = calls[i]
           /\ \A i \in DOMAIN calls \ {k} : \E j \in DOMAIN left : left[j] = calls[i]
           /\ Cardinality(LiveReads(left)) \in Nat /\ Cardinality(LiveReads(calls)) \in Nat
           /\ Cardinality(LiveReads(left)) <= Cardinality(LiveReads(calls))
           /\ k \in LiveReads(calls) => Cardinality(LiveReads(left)) <= Cardinality(LiveReads(calls)) - 1
  <1> DEFINE left == RemoveAt(calls, k)
             live == LiveReads(left)
             these == LiveReads(calls)
  <1>1. /\ left \in Seq(StoreCallSet(name)) /\ Len(left) = Len(calls) - 1
        /\ DOMAIN left = 1 .. Len(calls) - 1
        /\ \A j \in 1 .. Len(calls) - 1 : left[j] = IF j < k THEN calls[j] ELSE calls[j + 1]
    BY Removed
  <1>2. /\ \A j \in DOMAIN left : \E i \in DOMAIN calls \ {k} : left[j] = calls[i]
        /\ \A i \in DOMAIN calls \ {k} : \E j \in DOMAIN left : left[j] = calls[i]
    BY RemovedElements
  <1>3. DOMAIN calls = 1 .. Len(calls) /\ Len(calls) \in Nat
    BY LenProperties
  <1> HIDE DEF left
  <1>4. live \subseteq DOMAIN left /\ these \subseteq DOMAIN calls
    BY DEF LiveReads
  <1>5. \A j \in live : IF j < k THEN j \in these ELSE j + 1 \in these
    <2> SUFFICES ASSUME NEW j \in live
                 PROVE  IF j < k THEN j \in these ELSE j + 1 \in these
      OBVIOUS
    <2>1. j \in 1 .. Len(calls) - 1 /\ left[j].page /\ IsRead(left[j])
      BY <1>1 DEF LiveReads
    <2>2. j \in DOMAIN calls /\ j + 1 \in DOMAIN calls
      BY <1>3, <2>1
    <2>3. CASE j < k
      <3>1. left[j] = calls[j]
        BY <1>1, <2>1, <2>3
      <3> QED
        BY <2>1, <2>2, <2>3, <3>1 DEF LiveReads
    <2>4. CASE ~(j < k)
      <3>1. left[j] = calls[j + 1]
        BY <1>1, <2>1, <2>4
      <3> QED
        BY <2>1, <2>2, <2>4, <3>1 DEF LiveReads
    <2> QED
      BY <2>3, <2>4
  <1> HIDE DEF live, these
  <1>6. /\ Cardinality(live) \in Nat /\ Cardinality(these) \in Nat
        /\ Cardinality(live) <= Cardinality(these)
        /\ k \in these => Cardinality(live) <= Cardinality(these) - 1
    BY <1>4, <1>5, RemovedCount DEF left
  <1> QED
    BY <1>1, <1>2, <1>6 DEF left, live, these

\* A request is under way.
UnderWay(calls, call) == \E j \in DOMAIN calls : calls[j] = call

\* Requests with as many reads more behind them.
WithReads(calls, read, times) == calls \o [k \in 1 .. times |-> Sent(read, read)]

\* A store that asks has its new reads under way besides.
LEMMA CallsAsked ==
    ASSUME NEW name, NEW calls \in Seq(StoreCallSet(name)), NEW read \in ReadsOf[name], NEW times \in Nat \ {0}
    PROVE  LET asked == WithReads(calls, read, times) IN
           /\ asked \in Seq(StoreCallSet(name)) /\ Len(asked) = Len(calls) + times
           /\ \A j \in DOMAIN asked : asked[j] = Sent(read, read) \/ \E i \in DOMAIN calls : asked[j] = calls[i]
           /\ \A i \in DOMAIN calls : \E j \in DOMAIN asked : asked[j] = calls[i]
           /\ UnderWay(asked, Sent(read, read))
           /\ Cardinality(LiveReads(asked)) \in Nat /\ Cardinality(LiveReads(calls)) \in Nat
           /\ Cardinality(LiveReads(asked)) <= Cardinality(LiveReads(calls)) + times
  <1> DEFINE reads == [k \in 1 .. times |-> Sent(read, read)]
             asked == WithReads(calls, read, times)
             both == LiveReads(asked)
             these == LiveReads(calls)
  <1>1. Sent(read, read) \in StoreCallSet(name)
    BY ReadIsACall
  <1>2. reads \in Seq(StoreCallSet(name)) /\ Len(reads) = times /\ DOMAIN reads = 1 .. times
    <2>1. reads \in [1 .. times -> StoreCallSet(name)]
      BY <1>1
    <2>2. reads \in Seq(StoreCallSet(name))
      BY <2>1, SeqDef
    <2> QED
      BY <2>1, <2>2, LenProperties
  <1>3. \A k \in DOMAIN reads : reads[k] = Sent(read, read)
    OBVIOUS
  <1> HIDE DEF reads
  <1>4. /\ asked \in Seq(StoreCallSet(name)) /\ Len(asked) = Len(calls) + Len(reads)
        /\ \A j \in DOMAIN calls : j \in DOMAIN asked /\ asked[j] = calls[j]
        /\ \A j \in DOMAIN reads : \E i \in DOMAIN asked : asked[i] = reads[j]
        /\ \A i \in DOMAIN asked :
              \/ i \in DOMAIN calls /\ asked[i] = calls[i]
              \/ \E j \in DOMAIN reads : asked[i] = reads[j]
    <2>1. reads \in Seq(StoreCallSet(name))
      BY <1>2
    <2>2. asked = calls \o reads
      BY DEF WithReads, reads
    <2> HIDE DEF asked
    <2> QED
      BY <2>1, <2>2, Joined
  <1> HIDE DEF asked
  <1>5. PICK new \in DOMAIN asked : asked[new] = Sent(read, read)
    <2>1. 1 \in DOMAIN reads
      BY <1>2
    <2> QED
      BY <1>3, <1>4, <2>1
  <1>7. both \subseteq DOMAIN asked /\ these \subseteq DOMAIN calls /\ (\A i \in both : i \in DOMAIN calls => i \in these)
    BY <1>4 DEF LiveReads
  <1>8. \A j \in DOMAIN asked : asked[j] = Sent(read, read) \/ \E i \in DOMAIN calls : asked[j] = calls[i]
    BY <1>3, <1>4
  <1>9. \A i \in DOMAIN calls : \E j \in DOMAIN asked : asked[j] = calls[i]
    BY <1>4
  <1> HIDE DEF both, these, asked, UnderWay
  <1>11. /\ Cardinality(both) \in Nat /\ Cardinality(these) \in Nat
         /\ Cardinality(both) <= Cardinality(these) + Len(reads)
    BY <1>2, <1>7, JoinedCount DEF asked, reads, WithReads
  <1> QED
    BY <1>2, <1>4, <1>5, <1>8, <1>9, <1>11 DEF both, these, asked, UnderWay

\* Where no read is live, none is counted.
LEMMA NoneLive ==
    ASSUME NEW calls, LiveReads(calls) = {}
    PROVE  Cardinality(LiveReads(calls)) = 0
  BY FS_EmptySet

\* Requests without a page are the requests they were, but their answers are not taken.
LEMMA CallsOrphaned ==
    ASSUME NEW calls \in Seq(StoreCallSet(storeName))
    PROVE  /\ Orphans(calls) \in Seq(StoreCallSet(storeName)) /\ Len(Orphans(calls)) = Len(calls)
           /\ DOMAIN Orphans(calls) = DOMAIN calls
           /\ \A i \in DOMAIN calls :
                 Orphans(calls)[i].of = calls[i].of /\ Orphans(calls)[i].seen = calls[i].seen
           /\ Does("local") => \A i \in DOMAIN calls : ~Orphans(calls)[i].page
           /\ ~Does("local") => Orphans(calls) = calls
  <1>1. CASE ~Does("local")
    BY <1>1 DEF Orphans
  <1>2. CASE Does("local")
    <2> DEFINE left == [i \in DOMAIN calls |-> [calls[i] EXCEPT !.page = FALSE]]
    <2>1. Orphans(calls) = left
      BY <1>2 DEF Orphans
    <2>2. ASSUME NEW i \in DOMAIN calls
          PROVE  /\ [calls[i] EXCEPT !.page = FALSE] \in StoreCallSet(storeName)
                 /\ left[i].of = calls[i].of /\ left[i].seen = calls[i].seen /\ ~left[i].page
      <3>1. calls[i] \in StoreCallSet(storeName)
        BY ElementOfSeq, LenProperties
      <3> QED
        BY <3>1 DEF StoreCallSet, IsRead
    <2>3. left \in [DOMAIN calls -> StoreCallSet(storeName)]
      BY <2>2
    <2> HIDE DEF left
    <2>4. left \in Seq(StoreCallSet(storeName)) /\ DOMAIN left = DOMAIN calls
      BY <2>3, Mapped
    <2>5. Len(left) = Len(calls)
      BY <2>4, LenProperties
    <2> QED
      BY <1>2, <2>1, <2>2, <2>4, <2>5
  <1> QED
    BY <1>1, <1>2

\* What switchMap leaves are requests that were under way, and no read among them.
LEMMA CallsKept ==
    ASSUME StoresTypes
    PROVE  /\ Kept \in Seq(StoreCallSet(storeName))
           /\ \A j \in DOMAIN Kept : \E i \in DOMAIN storeCalls : Kept[j] = storeCalls[i]
           /\ Does("switches") => LiveReads(Kept) = {}
           /\ ~Does("switches") => Kept = storeCalls
  <1> DEFINE others == {i \in DOMAIN storeCalls : ~IsRead(storeCalls[i])}
  <1>1. storeCalls \in Seq(StoreCallSet(storeName))
    BY DEF StoresTypes
  <1>2. others \in SUBSET DOMAIN storeCalls /\ \A k \in others : ~IsRead(storeCalls[k])
    OBVIOUS
  <1>3. CASE ~Does("switches")
    BY <1>1, <1>3 DEF Kept
  <1>4. CASE Does("switches")
    <2>1. Kept = Filtered(storeCalls, others)
      BY <1>4 DEF Kept
    <2> HIDE DEF others
    <2>2. /\ Filtered(storeCalls, others) \in Seq(StoreCallSet(storeName))
          /\ \A j \in DOMAIN Filtered(storeCalls, others) :
                \E k \in others : PlaceOf(k, others) = j /\ Filtered(storeCalls, others)[j] = storeCalls[k]
      BY <1>1, <1>2, FilteredElements
    <2>3. \A j \in DOMAIN Kept : \E k \in others : Kept[j] = storeCalls[k]
      BY <2>1, <2>2
    <2>4. LiveReads(Kept) = {}
      BY <1>2, <2>3 DEF LiveReads
    <2> QED
      BY <1>2, <1>4, <2>1, <2>2, <2>3, <2>4
  <1> QED
    BY <1>3, <1>4

\* What the types say of the values that the steps compute with.
LEMMA StoreValues ==
    ASSUME StoresTypes
    PROVE  /\ storeName \in Names /\ storeCalls \in Seq(StoreCallSet(storeName))
           /\ Len(storeCalls) \in Nat /\ DOMAIN storeCalls = 1 .. Len(storeCalls)
           /\ \A i \in DOMAIN storeCalls : storeCalls[i] \in StoreCallSet(storeName)
           /\ \A read \in ReadsOf[storeName] :
                 /\ storeData[read] \in Nat /\ storeData[read] <= MaxChanges
                 /\ storeNewest[read] \in Int /\ storeNewest[read] >= -1 /\ storeNewest[read] <= MaxChanges
           /\ MaxChanges \in Nat /\ MaxCalls \in Nat /\ Unserved = -1
  <1>1. storeCalls \in Seq(StoreCallSet(storeName)) /\ storeName \in Names
    BY DEF StoresTypes
  <1>2. MaxChanges \in Nat /\ MaxCalls \in Nat
    BY StoresAssumption
  <1>3. \A i \in DOMAIN storeCalls : storeCalls[i] \in StoreCallSet(storeName)
    BY <1>1, ElementOfSeq, LenProperties
  <1>4. \A read \in ReadsOf[storeName] :
           /\ storeData[read] \in Nat /\ storeData[read] <= MaxChanges
           /\ storeNewest[read] \in Int /\ storeNewest[read] >= -1 /\ storeNewest[read] <= MaxChanges
    <2> SUFFICES ASSUME NEW read \in ReadsOf[storeName]
                 PROVE  /\ storeData[read] \in Nat /\ storeData[read] <= MaxChanges
                        /\ storeNewest[read] \in Int /\ storeNewest[read] >= -1 /\ storeNewest[read] <= MaxChanges
      OBVIOUS
    <2>1. storeData[read] \in 0 .. MaxChanges /\ storeNewest[read] \in -1 .. MaxChanges
      BY DEF StoresTypes, Versions
    <2> QED
      BY <1>2, <2>1
  <1> QED
    BY <1>1, <1>2, <1>3, <1>4, LenProperties DEF Unserved

\* A call that is gone takes nothing along that the page still needed.
LEMMA AwaitedLeft ==
    ASSUME NEW calls, NEW left, NEW k \in DOMAIN calls, NEW read, NEW version,
           \A i \in DOMAIN calls \ {k} : \E j \in DOMAIN left : left[j] = calls[i]
    PROVE  /\ OnItsWay(calls, read, version) /\ ~Brings(calls[k], read, version) => OnItsWay(left, read, version)
           /\ LiveReads(calls) # {} /\ k \notin LiveReads(calls) => LiveReads(left) # {}
  <1>1. ASSUME NEW i \in DOMAIN calls, Brings(calls[i], read, version), ~Brings(calls[k], read, version)
        PROVE  OnItsWay(left, read, version)
    <2>1. i # k
      BY <1>1
    <2>2. PICK j \in DOMAIN left : left[j] = calls[i]
      BY <2>1
    <2> QED
      BY <1>1, <2>2 DEF OnItsWay
  <1>2. ASSUME NEW i \in LiveReads(calls), k \notin LiveReads(calls)
        PROVE  LiveReads(left) # {}
    <2>1. i \in DOMAIN calls \ {k} /\ calls[i].page /\ IsRead(calls[i])
      BY <1>2 DEF LiveReads
    <2>2. PICK j \in DOMAIN left : left[j] = calls[i]
      BY <2>1
    <2> QED
      BY <2>1, <2>2 DEF LiveReads
  <1> QED
    BY <1>1, <1>2 DEF OnItsWay

\* A request is over and the page still waits for what it needs, or has lost it.
LEMMA CallGone ==
    ASSUME StoresInv, NEW i \in DOMAIN storeCalls, storeCalls' = Others(i),
           UNCHANGED <<storeName, storePage, storeHeld, storeStreams, storeData, storeNewest>>,
           storeLost' \in BOOLEAN, storeLost => storeLost',
           ~storeLost' /\ storePage # NoPage =>
              ~Brings(storeCalls[i], storePage, storeData[storePage]) /\ i \notin LiveReads(storeCalls)
    PROVE  StoresInv'
  <1> USE DEF StoresInv
  <1> DEFINE left == RemoveAt(storeCalls, i)
  <1>1. storeCalls' = left
    BY DEF Others
  <1>2. storeCalls \in Seq(StoreCallSet(storeName)) /\ Len(storeCalls) \in Nat /\ Len(storeCalls) <= MaxCalls /\ MaxCalls \in Nat
    BY StoreValues DEF StoresTypes
  <1>3. /\ left \in Seq(StoreCallSet(storeName)) /\ Len(left) = Len(storeCalls) - 1
        /\ \A j \in DOMAIN left : \E k \in DOMAIN storeCalls \ {i} : left[j] = storeCalls[k]
        /\ \A k \in DOMAIN storeCalls \ {i} : \E j \in DOMAIN left : left[j] = storeCalls[k]
        /\ Cardinality(LiveReads(left)) \in Nat /\ Cardinality(LiveReads(storeCalls)) \in Nat
        /\ Cardinality(LiveReads(left)) <= Cardinality(LiveReads(storeCalls))
    BY <1>2, OthersLeft
  <1> HIDE DEF left
  <1>4. StoresTypes'
    <2>1. Len(left) <= MaxCalls
      BY <1>2, <1>3
    <2> QED
      BY <1>1, <1>3, <2>1, StoresNamed DEF StoresTypes
  <1>5. VersionsAreOfTheData'
    BY <1>1, <1>3, StoresNamed DEF VersionsAreOfTheData
  <1>6. StreamsAreCounted'
    <2>1. Does("stream") => Cardinality(LiveReads(left)) <= storeStreams
      BY <1>3 DEF StreamsAreCounted, StoresTypes
    <2>2. Does("stream") /\ storePage = NoPage => \A j \in DOMAIN left : left[j].page => IsRead(left[j])
      BY <1>3 DEF StreamsAreCounted
    <2> QED
      BY <1>1, <2>1, <2>2, StoresNamed DEF StreamsAreCounted
  <1>7. PageIsInformed'
    <2> SUFFICES ASSUME storePage # NoPage, ~storeLost'
                 PROVE  /\ \/ OnItsWay(left, storePage, storeData[storePage])
                           \/ storeNewest[storePage] = storeData[storePage]
                        /\ storeHeld # Undef \/ LiveReads(left) # {}
      BY <1>1 DEF PageIsInformed
    <2>1. /\ OnItsWay(storeCalls, storePage, storeData[storePage]) \/ storeNewest[storePage] = storeData[storePage]
          /\ storeHeld # Undef \/ LiveReads(storeCalls) # {}
      BY DEF PageIsInformed
    <2> QED
      BY <1>3, <2>1, AwaitedLeft
  <1> QED
    BY <1>4, <1>5, <1>6, <1>7

\* The store asks for what a read returns, with calls under way besides.
LEMMA AskKeeps ==
    ASSUME StoresInv, NEW read \in ReadsOf[storeName], NEW calls \in Seq(StoreCallSet(storeName)),
           NEW times \in Nat \ {0}, AskFor(read, calls, times),
           \A j \in DOMAIN calls : calls[j].seen <= storeData[calls[j].of],
           UNCHANGED <<storeName, storeData, storeNewest>>,
           storePage' \in ReadsOf[storeName] \cup {NoPage}, storeLost' \in BOOLEAN, storeStreams' \in Nat
    PROVE  /\ StoresTypes'
           /\ VersionsAreOfTheData'
           /\ OnItsWay(storeCalls', read, storeData[read]) /\ LiveReads(storeCalls') # {}
           /\ \A i \in DOMAIN calls : \E j \in DOMAIN storeCalls' : storeCalls'[j] = calls[i]
           /\ Cardinality(LiveReads(storeCalls')) \in Nat /\ Cardinality(LiveReads(calls)) \in Nat
           /\ Cardinality(LiveReads(storeCalls')) <= Cardinality(LiveReads(calls)) + times
  <1> USE DEF StoresInv
  <1> DEFINE asked == WithReads(calls, read, times)
  <1>1. /\ Len(calls) + times <= MaxCalls /\ storeCalls' = asked
        /\ storeHeld' = IF Does("clears") THEN Undef ELSE storeHeld
    BY DEF AskFor, WithReads
  <1>2. asked \in Seq(StoreCallSet(storeName)) /\ Len(asked) = Len(calls) + times
    BY CallsAsked
  <1>3. \A j \in DOMAIN asked : asked[j] = Sent(read, read) \/ \E i \in DOMAIN calls : asked[j] = calls[i]
    BY CallsAsked
  <1>4. UnderWay(asked, Sent(read, read))
    BY CallsAsked
  <1>5. OnItsWay(asked, read, storeData[read])
    BY <1>4, ReadIsACall DEF OnItsWay, UnderWay
  <1>6. LiveReads(asked) # {}
    BY <1>4, ReadIsACall DEF LiveReads, UnderWay
  <1>7. \A i \in DOMAIN calls : \E j \in DOMAIN asked : asked[j] = calls[i]
    BY CallsAsked
  <1>8. /\ Cardinality(LiveReads(asked)) \in Nat /\ Cardinality(LiveReads(calls)) \in Nat
        /\ Cardinality(LiveReads(asked)) <= Cardinality(LiveReads(calls)) + times
    BY CallsAsked
  <1> HIDE DEF asked
  <1>9. /\ storeHeld' \in [read : ReadsOf[storeName] \cup {NoPage}, version : Versions]
        /\ storeHeld' # Undef => storeHeld' = storeHeld
    <2>1. Undef \in [read : ReadsOf[storeName] \cup {NoPage}, version : Versions]
      BY StoresAssumption DEF Undef, Versions
    <2> QED
      BY <1>1, <2>1 DEF StoresTypes
  <1>10. StoresTypes'
    BY <1>1, <1>2, <1>9, StoresNamed DEF StoresTypes
  <1>11. VersionsAreOfTheData'
    <2>1. Sent(read, read).of = read /\ Sent(read, read).seen <= storeData[read]
      BY StoreValues, ReadIsACall
    <2>2. \A j \in DOMAIN asked : asked[j].seen <= storeData[asked[j].of]
      BY <1>3, <2>1
    <2> QED
      BY <1>1, <1>9, <2>2, StoresNamed DEF VersionsAreOfTheData
  <1> QED
    BY <1>1, <1>5, <1>6, <1>7, <1>8, <1>10, <1>11

\* A page is opened: the store asks again, by as many subscriptions as there are.
LEMMA OpenStoreKeeps ==
    ASSUME StoresInv, NEW read \in ReadsOf[storeName], OpenStore(read)
    PROVE  StoresInv'
  <1> USE DEF StoresInv
  <1>1. storePage' = read /\ UNCHANGED <<storeName, storeStreams, storeData, storeNewest>>
    BY DEF OpenStore
  <1>2. storeName \in Names /\ storeStreams \in Nat /\ storeLost \in BOOLEAN /\ read # NoPage
    BY StoreFits DEF StoresTypes
  <1>3. CASE ~(storeStreams > 0)
    <2>1. storeLost /\ UNCHANGED <<storeHeld, storeCalls, storeLost>>
      BY <1>2, <1>3 DEF OpenStore, StreamsAreCounted
    <2>2. StoresTypes'
      BY <1>1, <2>1, StoresNamed DEF StoresTypes
    <2>3. VersionsAreOfTheData'
      BY <1>1, <2>1, StoresNamed DEF VersionsAreOfTheData
    <2>4. StreamsAreCounted'
      BY <1>1, <1>2, <2>1, StoresNamed DEF StreamsAreCounted
    <2>5. PageIsInformed'
      BY <2>1 DEF PageIsInformed
    <2> QED
      BY <2>2, <2>3, <2>4, <2>5
  <1>4. CASE storeStreams > 0
    <2>1. AskFor(read, Kept, storeStreams) /\ storeLost' = FALSE
      BY <1>4 DEF OpenStore
    <2>2. /\ Kept \in Seq(StoreCallSet(storeName))
          /\ \A j \in DOMAIN Kept : \E i \in DOMAIN storeCalls : Kept[j] = storeCalls[i]
          /\ Does("switches") => LiveReads(Kept) = {}
      BY CallsKept
    <2>3. storeStreams \in Nat \ {0} /\ storePage' \in ReadsOf[storeName] \cup {NoPage} /\ storeStreams' \in Nat
      BY <1>1, <1>2, <1>4
    <2>8. storeLost' \in BOOLEAN
      BY <2>1
    <2>4. \A j \in DOMAIN Kept : Kept[j].seen <= storeData[Kept[j].of]
      BY <2>2 DEF VersionsAreOfTheData
    <2>5. /\ StoresTypes'
          /\ VersionsAreOfTheData'
          /\ OnItsWay(storeCalls', read, storeData[read]) /\ LiveReads(storeCalls') # {}
          /\ Cardinality(LiveReads(storeCalls')) \in Nat /\ Cardinality(LiveReads(Kept)) \in Nat
          /\ Cardinality(LiveReads(storeCalls')) <= Cardinality(LiveReads(Kept)) + storeStreams
      BY <1>1, <2>1, <2>2, <2>3, <2>4, <2>8, AskKeeps
    <2>6. StreamsAreCounted'
      <3>1. Does("stream") => Does("switches")
        BY <1>2, StoreFits DEF Does
      <3>2. Does("stream") => Cardinality(LiveReads(Kept)) = 0
        BY <2>2, <3>1, NoneLive
      <3>3. Does("stream") => Cardinality(LiveReads(storeCalls')) <= storeStreams
        BY <1>2, <2>5, <3>2
      <3>4. storePage' # NoPage /\ storeStreams' # 0
        BY <1>1, <1>2, <2>3
      <3> QED
        BY <1>1, <3>3, <3>4, StoresNamed DEF StreamsAreCounted
    <2>7. PageIsInformed'
      BY <1>1, <2>5 DEF PageIsInformed
    <2> QED
      BY <2>5, <2>6, <2>7
  <1> QED
    BY <1>3, <1>4

\* A page is left, with calls that are under way still.
LEMMA LeavePageKeeps ==
    ASSUME StoresInv, NEW calls \in Seq(StoreCallSet(storeName)), LeavePage(calls),
           Len(calls) <= MaxCalls,
           \A j \in DOMAIN calls : \E i \in DOMAIN storeCalls : calls[j] = storeCalls[i],
           Cardinality(LiveReads(calls)) \in Nat, Cardinality(LiveReads(storeCalls)) \in Nat,
           Cardinality(LiveReads(calls)) <= Cardinality(LiveReads(storeCalls)),
           UNCHANGED <<storeName, storeData, storeNewest>>, storeLost' \in BOOLEAN
    PROVE  StoresInv'
  <1> USE DEF StoresInv
  <1> DEFINE left == Orphans(calls)
  <1>1. storePage' = NoPage /\ storeStreams' = 1 /\ storeCalls' = left
    BY DEF LeavePage
  <1>2. /\ left \in Seq(StoreCallSet(storeName)) /\ Len(left) = Len(calls) /\ DOMAIN left = DOMAIN calls
        /\ \A i \in DOMAIN calls : left[i].of = calls[i].of /\ left[i].seen = calls[i].seen
        /\ Does("local") => \A i \in DOMAIN calls : ~left[i].page
        /\ ~Does("local") => left = calls
    BY CallsOrphaned
  <1> HIDE DEF left
  <1>3. /\ storeHeld' \in [read : ReadsOf[storeName] \cup {NoPage}, version : Versions]
        /\ storeHeld' # Undef => storeHeld' = storeHeld
    <2>1. Undef \in [read : ReadsOf[storeName] \cup {NoPage}, version : Versions]
      BY StoresAssumption DEF Undef, Versions
    <2> QED
      BY <2>1 DEF StoresTypes, LeavePage
  <1>4. StoresTypes'
    <2>1. storePage' \in ReadsOf[storeName] \cup {NoPage} /\ storeStreams' \in Nat
      BY <1>1
    <2> QED
      BY <1>1, <1>2, <1>3, <2>1, StoresNamed DEF StoresTypes
  <1>5. VersionsAreOfTheData'
    <2>1. \A j \in DOMAIN left : left[j].seen <= storeData[left[j].of]
      BY <1>2 DEF VersionsAreOfTheData
    <2> QED
      BY <1>1, <1>3, <2>1, StoresNamed DEF VersionsAreOfTheData
  <1>6. StreamsAreCounted'
    <2>1. CASE ~Does("stream")
      BY <1>1, <2>1, StoresNamed DEF StreamsAreCounted
    <2>2. CASE Does("stream") /\ Does("local")
      <3>1. LiveReads(left) = {}
        BY <1>2, <2>2 DEF LiveReads
      <3>2. Cardinality(LiveReads(left)) = 0
        BY <3>1, NoneLive
      <3>3. \A j \in DOMAIN left : ~left[j].page
        BY <1>2, <2>2
      <3> QED
        BY <1>1, <2>2, <3>2, <3>3, StoresNamed DEF StreamsAreCounted
    <2>3. CASE Does("stream") /\ ~Does("local")
      <3>1. Cardinality(LiveReads(left)) <= 1
        BY <1>2, <2>3 DEF StreamsAreCounted, StoresTypes
      <3>2. ASSUME NEW j \in DOMAIN left
            PROVE  IsRead(left[j])
        <4>1. left[j] \in StoreCallSet(storeName) /\ storeName \in Names
          BY <1>2, ElementOfSeq, LenProperties DEF StoresTypes
        <4>2. /\ left[j].of \in ReadsOf[storeName]
              /\ IsRead(left[j]) \/ left[j].request \in ChangesOf(storeName, left[j].of)
          BY <4>1, StoreCallFacts
        <4>3. ChangesOf(storeName, left[j].of) = {}
          BY <2>3, <4>1, <4>2, StoreFits DEF ChangesOf, Does
        <4> QED
          BY <4>2, <4>3
      <3> QED
        BY <1>1, <2>3, <3>1, <3>2, StoresNamed DEF StreamsAreCounted
    <2> QED
      BY <2>1, <2>2, <2>3
  <1>7. PageIsInformed'
    BY <1>1 DEF PageIsInformed
  <1> QED
    BY <1>4, <1>5, <1>6, <1>7

\* What is left when a request is over, before the store does anything else.
LEMMA OthersKept ==
    ASSUME StoresInv, NEW i \in DOMAIN storeCalls
    PROVE  /\ Others(i) \in Seq(StoreCallSet(storeName)) /\ Len(Others(i)) = Len(storeCalls) - 1
           /\ Len(Others(i)) <= MaxCalls
           /\ \A j \in DOMAIN Others(i) : \E k \in DOMAIN storeCalls : Others(i)[j] = storeCalls[k]
           /\ \A k \in DOMAIN storeCalls \ {i} : \E j \in DOMAIN Others(i) : Others(i)[j] = storeCalls[k]
           /\ \A j \in DOMAIN Others(i) : Others(i)[j].seen <= storeData[Others(i)[j].of]
           /\ Cardinality(LiveReads(Others(i))) \in Nat /\ Cardinality(LiveReads(storeCalls)) \in Nat
           /\ Cardinality(LiveReads(Others(i))) <= Cardinality(LiveReads(storeCalls))
           /\ i \in LiveReads(storeCalls) =>
                 Cardinality(LiveReads(Others(i))) <= Cardinality(LiveReads(storeCalls)) - 1
  <1> DEFINE left == RemoveAt(storeCalls, i)
  <1>1. storeCalls \in Seq(StoreCallSet(storeName)) /\ Len(storeCalls) \in Nat /\ Len(storeCalls) <= MaxCalls /\ MaxCalls \in Nat
    BY StoreValues DEF StoresInv, StoresTypes
  <1>2. Others(i) = left
    BY DEF Others
  <1>3. /\ left \in Seq(StoreCallSet(storeName)) /\ Len(left) = Len(storeCalls) - 1
        /\ \A j \in DOMAIN left : \E k \in DOMAIN storeCalls \ {i} : left[j] = storeCalls[k]
        /\ \A k \in DOMAIN storeCalls \ {i} : \E j \in DOMAIN left : left[j] = storeCalls[k]
        /\ Cardinality(LiveReads(left)) \in Nat /\ Cardinality(LiveReads(storeCalls)) \in Nat
        /\ Cardinality(LiveReads(left)) <= Cardinality(LiveReads(storeCalls))
        /\ i \in LiveReads(storeCalls) => Cardinality(LiveReads(left)) <= Cardinality(LiveReads(storeCalls)) - 1
    BY <1>1, OthersLeft
  <1> HIDE DEF left
  <1>4. Len(left) <= MaxCalls
    BY <1>1, <1>3
  <1>5. \A j \in DOMAIN left : left[j].seen <= storeData[left[j].of]
    BY <1>3 DEF StoresInv, VersionsAreOfTheData
  <1> QED
    BY <1>2, <1>3, <1>4, <1>5

\* The larger of two versions.
LEMMA LargerVersion ==
    ASSUME NEW a \in Int, NEW b \in Int
    PROVE  Max({a, b}) = IF a >= b THEN a ELSE b
  <1> DEFINE larger == IF a >= b THEN a ELSE b
  <1>1. larger \in {a, b} /\ \A y \in {a, b} : larger >= y
    OBVIOUS
  <1>2. \A x \in {a, b} : (\A y \in {a, b} : x >= y) => x = larger
    OBVIOUS
  <1> QED
    BY <1>1, <1>2 DEF Max

\* An answer that the store takes.
LEMMA HoldKeeps ==
    ASSUME StoresInv, NEW i \in DOMAIN storeCalls, storeCalls[i].seen # Unserved, Hold(storeCalls[i]),
           storeCalls' = Others(i), UNCHANGED <<storeName, storePage, storeStreams, storeData, storeLost>>
    PROVE  StoresInv'
  <1> USE DEF StoresInv
  <1> DEFINE call == storeCalls[i]
             newest == Max({call.seen, storeNewest[call.of]})
  <1>1. /\ call.of \in ReadsOf[storeName] /\ call.seen \in Int /\ call.seen >= -1 /\ call.seen # -1
        /\ call.seen \in Versions /\ call.seen <= storeData[call.of]
        /\ storeNewest[call.of] \in Int /\ storeNewest[call.of] <= storeData[call.of]
        /\ storeNewest[call.of] \in Versions /\ call.of # NoPage
    <2>1. call \in StoreCallSet(storeName) /\ storeName \in Names /\ Unserved = -1
      BY StoreValues
    <2>2. call.of \in ReadsOf[storeName] /\ call.seen \in Versions /\ call.seen \in Int /\ call.seen >= -1
      BY <2>1, StoreCallFacts
    <2>3. call.seen <= storeData[call.of] /\ storeNewest[call.of] <= storeData[call.of]
      BY <2>2 DEF VersionsAreOfTheData
    <2>4. storeNewest[call.of] \in Int
      BY <2>2, StoreValues
    <2>5. storeNewest[call.of] \in Versions
      BY <2>2 DEF StoresTypes
    <2>6. call.of # NoPage
      BY <2>1, <2>2, StoreFits
    <2> QED
      BY <2>1, <2>2, <2>3, <2>4, <2>5, <2>6
  <1>2. newest = IF call.seen >= storeNewest[call.of] THEN call.seen ELSE storeNewest[call.of]
    BY <1>1, LargerVersion
  <1>3. storeHeld' = [read |-> call.of, version |-> call.seen] /\ storeNewest' = [storeNewest EXCEPT ![call.of] = newest]
    BY DEF Hold
  <1> HIDE DEF newest, call
  <1>4. /\ newest \in Versions /\ newest \in Int /\ newest <= storeData[call.of]
        /\ call.seen <= newest /\ storeNewest[call.of] <= newest
    BY <1>1, <1>2
  <1>5. /\ storeNewest' \in [ReadsOf[storeName] -> Versions]
        /\ \A read \in ReadsOf[storeName] :
              storeNewest'[read] = IF read = call.of THEN newest ELSE storeNewest[read]
    BY <1>1, <1>3, <1>4 DEF StoresTypes
  <1>6. /\ Others(i) \in Seq(StoreCallSet(storeName)) /\ Len(Others(i)) <= MaxCalls
        /\ \A j \in DOMAIN Others(i) : \E k \in DOMAIN storeCalls : Others(i)[j] = storeCalls[k]
        /\ \A k \in DOMAIN storeCalls \ {i} : \E j \in DOMAIN Others(i) : Others(i)[j] = storeCalls[k]
        /\ \A j \in DOMAIN Others(i) : Others(i)[j].seen <= storeData[Others(i)[j].of]
        /\ Cardinality(LiveReads(Others(i))) \in Nat /\ Cardinality(LiveReads(storeCalls)) \in Nat
        /\ Cardinality(LiveReads(Others(i))) <= Cardinality(LiveReads(storeCalls))
    BY OthersKept
  <1>7. StoresTypes'
    <2>1. storeHeld' \in [read : ReadsOf[storeName] \cup {NoPage}, version : Versions]
      BY <1>1, <1>3
    <2> QED
      BY <1>5, <1>6, <2>1, StoresNamed DEF StoresTypes
  <1>8. VersionsAreOfTheData'
    <2>1. \A read \in ReadsOf[storeName] : storeNewest'[read] <= storeData[read]
      BY <1>4, <1>5 DEF VersionsAreOfTheData
    <2>2. storeHeld'.read \in ReadsOf[storeName] /\ storeHeld'.version \in 0 .. storeNewest'[storeHeld'.read]
      BY <1>1, <1>3, <1>4, <1>5
    <2> QED
      BY <1>6, <2>1, <2>2, StoresNamed DEF VersionsAreOfTheData
  <1>9. StreamsAreCounted'
    <2>1. Does("stream") => Cardinality(LiveReads(Others(i))) <= storeStreams
      BY <1>6 DEF StreamsAreCounted, StoresTypes
    <2>2. Does("stream") /\ storePage = NoPage => \A j \in DOMAIN Others(i) : Others(i)[j].page => IsRead(Others(i)[j])
      BY <1>6 DEF StreamsAreCounted
    <2> QED
      BY <2>1, <2>2, StoresNamed DEF StreamsAreCounted
  <1>10. PageIsInformed'
    <2> SUFFICES ASSUME storePage # NoPage, ~storeLost
                 PROVE  /\ \/ OnItsWay(Others(i), storePage, storeData[storePage])
                           \/ storeNewest'[storePage] = storeData[storePage]
                        /\ storeHeld' # Undef
      BY DEF PageIsInformed
    <2>1. storePage \in ReadsOf[storeName]
      BY DEF StoresTypes
    <2>2. storeHeld' # Undef
      BY <1>1, <1>3 DEF Undef
    <2>3. CASE OnItsWay(storeCalls, storePage, storeData[storePage]) /\ ~Brings(call, storePage, storeData[storePage])
      BY <1>6, <2>2, <2>3, AwaitedLeft DEF call
    <2>4. CASE Brings(call, storePage, storeData[storePage])
      <3>1. call.of = storePage /\ call.seen = storeData[storePage]
        BY <1>1, <2>4 DEF Brings, Unserved
      <3>2. newest = storeData[storePage]
        BY <1>1, <1>2, <3>1
      <3> QED
        BY <1>5, <2>1, <2>2, <3>1, <3>2
    <2>5. CASE storeNewest[storePage] = storeData[storePage]
      <3>1. storePage = call.of => newest = storeData[storePage]
        BY <1>1, <1>2, <2>5
      <3> QED
        BY <1>5, <2>1, <2>2, <2>5, <3>1
    <2> QED
      BY <2>3, <2>4, <2>5 DEF PageIsInformed
  <1> QED
    BY <1>7, <1>8, <1>9, <1>10

\* A change is sent: it is no read, and no page that follows a stream sends one when it
\* is closed.
LEMMA ChangeDataKeeps ==
    ASSUME StoresInv, NEW read \in ReadsOf[storeName], NEW request \in ChangesOf(storeName, read),
           ChangeData(read, request)
    PROVE  StoresInv'
  <1> USE DEF StoresInv
  <1> DEFINE call == Sent(request, read)
             longer == Append(storeCalls, call)
  <1>1. /\ storeCalls' = longer /\ Len(storeCalls) < MaxCalls
        /\ UNCHANGED <<storeName, storePage, storeHeld, storeStreams, storeData, storeNewest, storeLost>>
    BY DEF ChangeData
  <1>2. storeCalls \in Seq(StoreCallSet(storeName)) /\ storeName \in Names /\ Len(storeCalls) \in Nat /\ MaxCalls \in Nat
    BY StoreValues
  <1>3. /\ call \in StoreCallSet(storeName) /\ ~IsRead(call) /\ call.seen = Unserved /\ call.of = read
    <2>1. request # read
      BY <1>2, StoreFits
    <2>2. request \in StoreRequests(storeName) /\ Unserved \in Versions
      BY StoresAssumption DEF StoreRequests, Versions, Unserved
    <2> QED
      BY <2>1, <2>2 DEF Sent, StoreCallSet, IsRead
  <1> HIDE DEF call
  <1>4. /\ longer \in Seq(StoreCallSet(storeName)) /\ Len(longer) = Len(storeCalls) + 1
        /\ \A j \in DOMAIN storeCalls : j \in DOMAIN longer /\ longer[j] = storeCalls[j]
        /\ \A j \in DOMAIN longer : longer[j] = call \/ (j \in DOMAIN storeCalls /\ longer[j] = storeCalls[j])
    BY <1>2, <1>3, Appended
  <1> HIDE DEF longer
  <1>5. LiveReads(longer) = LiveReads(storeCalls)
    BY <1>3, <1>4 DEF LiveReads
  <1>6. StoresTypes'
    <2>1. Len(longer) <= MaxCalls
      BY <1>1, <1>2, <1>4
    <2> QED
      BY <1>1, <1>4, <2>1, StoresNamed DEF StoresTypes
  <1>7. VersionsAreOfTheData'
    <2>1. call.seen <= storeData[call.of]
      BY <1>3, StoreValues
    <2>2. \A j \in DOMAIN longer : longer[j].seen <= storeData[longer[j].of]
      BY <1>4, <2>1 DEF VersionsAreOfTheData
    <2> QED
      BY <1>1, <2>2, StoresNamed DEF VersionsAreOfTheData
  <1>8. StreamsAreCounted'
    <2>1. Does("stream") => storePage # NoPage
      <3>1. Does("stream") => StoreOf[storeName][read].creates = {}
        BY <1>2, StoreFits DEF Does
      <3>2. read # NoPage
        BY <1>2, StoreFits
      <3> QED
        BY <3>1, <3>2 DEF ChangeData
    <2> QED
      BY <1>1, <1>5, <2>1, StoresNamed DEF StreamsAreCounted
  <1>9. PageIsInformed'
    <2>1. OnItsWay(storeCalls, storePage, storeData[storePage]) => OnItsWay(longer, storePage, storeData[storePage])
      BY <1>4 DEF OnItsWay
    <2> QED
      BY <1>1, <1>5, <2>1 DEF PageIsInformed
  <1> QED
    BY <1>6, <1>7, <1>8, <1>9

\* The backend serves a request: a change makes a newer version, which only reads that
\* come after it see.
LEMMA ServeCallKeeps ==
    ASSUME StoresInv, NEW i \in DOMAIN storeCalls, ServeCall(i)
    PROVE  StoresInv'
  <1> USE DEF StoresInv
  <1> DEFINE call == storeCalls[i]
             version == IF IsRead(call) THEN storeData[call.of] ELSE storeData[call.of] + 1
             answered == [call EXCEPT !.seen = version]
             calls == [storeCalls EXCEPT ![i] = answered]
  <1>1. /\ call.seen = Unserved /\ version <= MaxChanges
        /\ storeData' = [storeData EXCEPT ![call.of] = version]
        /\ UNCHANGED <<storeName, storePage, storeHeld, storeStreams, storeNewest, storeLost>>
    BY DEF ServeCall
  <1>2. storeCalls' = calls
    BY DEF ServeCall
  <1>3. /\ storeCalls \in Seq(StoreCallSet(storeName)) /\ storeName \in Names
        /\ call \in StoreCallSet(storeName) /\ MaxChanges \in Nat
    BY StoreValues
  <1>4. /\ call.of \in ReadsOf[storeName] /\ storeData[call.of] \in Nat /\ version \in Nat /\ version \in Versions
        /\ version >= storeData[call.of]
        /\ ~IsRead(call) \/ version = storeData[call.of]
    <2>1. call.of \in ReadsOf[storeName]
      BY <1>3, StoreCallFacts
    <2>2. storeData[call.of] \in Nat
      BY <2>1, StoreValues
    <2>3. version \in Nat /\ version >= storeData[call.of]
      BY <2>2
    <2>4. version \in Versions
      BY <1>1, <1>3, <2>3 DEF Versions
    <2> QED
      BY <2>1, <2>2, <2>3, <2>4
  <1> HIDE DEF version
  <1>5. /\ answered \in StoreCallSet(storeName) /\ answered.of = call.of /\ answered.seen = version
        /\ answered.page = call.page /\ (IsRead(answered) <=> IsRead(call))
    BY <1>3, <1>4 DEF StoreCallSet, IsRead
  <1> HIDE DEF answered, call
  <1>6. /\ calls \in Seq(StoreCallSet(storeName)) /\ DOMAIN calls = DOMAIN storeCalls /\ Len(calls) = Len(storeCalls)
        /\ \A j \in DOMAIN storeCalls : calls[j] = IF j = i THEN answered ELSE storeCalls[j]
    BY <1>3, <1>5, ReplacedElement
  <1> HIDE DEF calls
  <1>7. /\ storeData' \in [ReadsOf[storeName] -> 0 .. MaxChanges]
        /\ \A read \in ReadsOf[storeName] : storeData'[read] = IF read = call.of THEN version ELSE storeData[read]
    <2>1. version \in 0 .. MaxChanges
      BY <1>1, <1>3, <1>4
    <2> QED
      BY <1>1, <1>4, <2>1 DEF StoresTypes
  <1>8. \A read \in ReadsOf[storeName] : storeData[read] \in Nat /\ storeData'[read] \in Nat /\ storeData[read] <= storeData'[read]
    <2> SUFFICES ASSUME NEW read \in ReadsOf[storeName]
                 PROVE  storeData[read] \in Nat /\ storeData'[read] \in Nat /\ storeData[read] <= storeData'[read]
      OBVIOUS
    <2>1. storeData[read] \in Nat
      BY StoreValues
    <2> QED
      BY <1>4, <1>7, <2>1
  <1>9. LiveReads(calls) = LiveReads(storeCalls)
    BY <1>5, <1>6 DEF LiveReads, call
  <1>10. StoresTypes'
    BY <1>1, <1>2, <1>6, <1>7, StoresNamed DEF StoresTypes
  <1>11. VersionsAreOfTheData'
    <2>1. ASSUME NEW j \in DOMAIN calls
          PROVE  calls[j].seen <= storeData'[calls[j].of]
      <3>1. CASE j = i
        <4>1. storeData'[call.of] = version
          BY <1>4, <1>7
        <4> QED
          BY <1>4, <1>5, <1>6, <3>1, <4>1
      <3>2. CASE j # i
        <4>1. /\ storeCalls[j].seen \in Int /\ storeCalls[j].of \in ReadsOf[storeName]
          BY <1>3, <1>6, StoreValues, StoreCallFacts
        <4>2. storeCalls[j].seen <= storeData[storeCalls[j].of]
          BY <1>6 DEF VersionsAreOfTheData
        <4>3. storeCalls[j].seen <= storeData'[storeCalls[j].of]
          BY <1>8, <4>1, <4>2
        <4> QED
          BY <1>6, <3>2, <4>3
      <3> QED
        BY <3>1, <3>2
    <2>2. \A read \in ReadsOf[storeName] : storeNewest[read] <= storeData'[read]
      <3> SUFFICES ASSUME NEW read \in ReadsOf[storeName]
                   PROVE  storeNewest[read] <= storeData'[read]
        OBVIOUS
      <3>1. storeNewest[read] \in Int /\ storeNewest[read] <= storeData[read]
        BY StoreValues DEF VersionsAreOfTheData
      <3> QED
        BY <1>8, <3>1
    <2> QED
      BY <1>1, <1>2, <2>1, <2>2, StoresNamed DEF VersionsAreOfTheData
  <1>12. StreamsAreCounted'
    <2>1. \A j \in DOMAIN calls : calls[j].page = storeCalls[j].page /\ (IsRead(calls[j]) <=> IsRead(storeCalls[j]))
      BY <1>5, <1>6 DEF call
    <2> QED
      BY <1>1, <1>2, <1>6, <1>9, <2>1, StoresNamed DEF StreamsAreCounted
  <1>13. PageIsInformed'
    <2> SUFFICES ASSUME storePage # NoPage, ~storeLost
                 PROVE  \/ OnItsWay(calls, storePage, storeData'[storePage])
                        \/ storeNewest[storePage] = storeData'[storePage]
      BY <1>1, <1>2, <1>9 DEF PageIsInformed
    <2>1. storePage \in ReadsOf[storeName] /\ i \in DOMAIN calls
      BY <1>6 DEF StoresTypes
    <2>2. CASE call.of = storePage /\ ~IsRead(call)
      <3>1. Brings(calls[i], storePage, storeData'[storePage])
        BY <1>5, <1>6, <1>7, <2>1, <2>2 DEF Brings
      <3> QED
        BY <2>1, <3>1 DEF OnItsWay
    <2>3. CASE call.of # storePage \/ IsRead(call)
      <3>1. storeData'[storePage] = storeData[storePage]
        BY <1>4, <1>7, <2>1, <2>3
      <3>2. ASSUME NEW j \in DOMAIN storeCalls, Brings(storeCalls[j], storePage, storeData[storePage])
            PROVE  OnItsWay(calls, storePage, storeData[storePage])
        <4>1. CASE j # i
          BY <1>6, <3>2, <4>1 DEF OnItsWay
        <4>2. CASE j = i
          <5>1. call.of = storePage /\ IsRead(call) /\ call.page
            BY <2>3, <3>2, <4>2 DEF Brings, call
          <5>2. version = storeData[storePage]
            BY <1>4, <5>1
          <5>3. Brings(answered, storePage, storeData[storePage])
            BY <1>5, <5>1, <5>2 DEF Brings
          <5> QED
            BY <1>6, <2>1, <5>3 DEF OnItsWay
        <4> QED
          BY <4>1, <4>2
      <3>3. \/ OnItsWay(storeCalls, storePage, storeData[storePage])
            \/ storeNewest[storePage] = storeData[storePage]
        BY DEF PageIsInformed
      <3> QED
        BY <3>1, <3>2, <3>3 DEF OnItsWay
    <2> QED
      BY <2>2, <2>3
  <1> QED
    BY <1>10, <1>11, <1>12, <1>13

\* A change that was made is read again.
LEMMA ReloadKeeps ==
    ASSUME StoresInv, NEW i \in DOMAIN storeCalls,
           storeCalls[i].request \in StoreOf[storeName][storeCalls[i].of].reloads, storeCalls[i].page,
           Reload(i), UNCHANGED <<storeName, storeData>>
    PROVE  StoresInv'
  <1> USE DEF StoresInv
  <1> DEFINE call == storeCalls[i]
             read == IF Does("stream") THEN storePage ELSE call.of
  <1>1. /\ AskFor(read, Others(i), 1)
        /\ storeLost' = (storeLost /\ read # storePage)
        /\ UNCHANGED <<storePage, storeNewest>>
    BY DEF Reload
  <1>2. storeStreams' = IF Does("stream") THEN storeStreams + 1 ELSE storeStreams
    BY DEF Reload
  <1>3. /\ storeName \in Names /\ call \in StoreCallSet(storeName) /\ call.of \in ReadsOf[storeName]
        /\ call.request \in ChangesOf(storeName, call.of) /\ ~IsRead(call)
        /\ StoreOf[storeName][call.of].reloads # {}
    <2>1. storeName \in Names /\ call \in StoreCallSet(storeName)
      BY StoreValues
    <2>2. call.of \in ReadsOf[storeName] /\ call.request \in ChangesOf(storeName, call.of)
      BY <2>1, StoreCallFacts DEF ChangesOf
    <2>3. ~IsRead(call)
      BY <2>1, <2>2, StoreCallFacts
    <2> QED
      BY <2>1, <2>2, <2>3
  <1>4. Does("stream") => storePage # NoPage
    BY <1>3 DEF StreamsAreCounted
  <1>5. read \in ReadsOf[storeName]
    BY <1>3, <1>4 DEF StoresTypes
  <1>6. Does("stream") => Does("local")
    BY <1>3, StoreFits DEF Does
  <1> HIDE DEF read, call
  <1>7. storePage' \in ReadsOf[storeName] \cup {NoPage} /\ storeStreams \in Nat /\ storeStreams' \in Nat
    BY <1>1, <1>2 DEF StoresTypes
  <1>8. storeLost' \in BOOLEAN
    BY <1>1
  <1>9. /\ Others(i) \in Seq(StoreCallSet(storeName))
        /\ \A k \in DOMAIN storeCalls \ {i} : \E j \in DOMAIN Others(i) : Others(i)[j] = storeCalls[k]
        /\ \A j \in DOMAIN Others(i) : Others(i)[j].seen <= storeData[Others(i)[j].of]
        /\ Cardinality(LiveReads(Others(i))) \in Nat /\ Cardinality(LiveReads(storeCalls)) \in Nat
        /\ Cardinality(LiveReads(Others(i))) <= Cardinality(LiveReads(storeCalls))
    BY OthersKept
  <1>10. /\ StoresTypes'
         /\ VersionsAreOfTheData'
         /\ OnItsWay(storeCalls', read, storeData[read]) /\ LiveReads(storeCalls') # {}
         /\ \A k \in DOMAIN Others(i) : \E j \in DOMAIN storeCalls' : storeCalls'[j] = Others(i)[k]
         /\ Cardinality(LiveReads(storeCalls')) \in Nat
         /\ Cardinality(LiveReads(storeCalls')) <= Cardinality(LiveReads(Others(i))) + 1
    <2>1. 1 \in Nat \ {0}
      OBVIOUS
    <2> QED
      BY <1>1, <1>5, <1>7, <1>8, <1>9, <2>1, AskKeeps
  <1>11. StreamsAreCounted'
    <2>1. CASE Does("stream")
      <3>1. Cardinality(LiveReads(storeCalls')) <= storeStreams + 1
        BY <1>7, <1>9, <1>10, <2>1 DEF StreamsAreCounted
      <3>2. storeStreams' = storeStreams + 1 /\ storeStreams' # 0
        BY <1>2, <1>7, <2>1
      <3> QED
        BY <1>1, <1>4, <1>6, <2>1, <3>1, <3>2, StoresNamed DEF StreamsAreCounted
    <2>2. CASE ~Does("stream")
      BY <1>1, <1>2, <2>2, StoresNamed DEF StreamsAreCounted
    <2> QED
      BY <2>1, <2>2
  <1>12. PageIsInformed'
    <2>1. CASE read = storePage
      BY <1>1, <1>10, <2>1 DEF PageIsInformed
    <2>2. CASE read # storePage
      <3> SUFFICES ASSUME storePage # NoPage, ~storeLost
                   PROVE  \/ OnItsWay(storeCalls', storePage, storeData[storePage])
                          \/ storeNewest[storePage] = storeData[storePage]
        BY <1>1, <1>10, <2>2 DEF PageIsInformed
      <3>1. ~Brings(call, storePage, storeData[storePage])
        BY <2>2 DEF Brings, read
      <3>2. OnItsWay(storeCalls, storePage, storeData[storePage]) => OnItsWay(Others(i), storePage, storeData[storePage])
        BY <1>9, <3>1, AwaitedLeft DEF call
      <3>3. OnItsWay(Others(i), storePage, storeData[storePage]) => OnItsWay(storeCalls', storePage, storeData[storePage])
        BY <1>10 DEF OnItsWay
      <3> QED
        BY <3>2, <3>3 DEF PageIsInformed
    <2> QED
      BY <2>1, <2>2
  <1> QED
    BY <1>10, <1>11, <1>12

\* A page is opened for what was created, and asks.
LEMMA GoOnKeeps ==
    ASSUME StoresInv, NEW i \in DOMAIN storeCalls,
           storeCalls[i].request \in StoreOf[storeName][storeCalls[i].of].creates,
           GoOn(i), UNCHANGED <<storeName, storeData>>
    PROVE  StoresInv'
  <1> USE DEF StoresInv
  <1> DEFINE read == storeCalls[i].of
             others == Orphans(Others(i))
  <1>1. /\ AskFor(read, others, 1) /\ storePage' = read
        /\ UNCHANGED <<storeStreams, storeNewest>>
    BY DEF GoOn
  <1>2. storeLost' = FALSE
    BY DEF GoOn
  <1>3. storeName \in Names /\ read \in ReadsOf[storeName] /\ read # NoPage
    BY StoreValues, StoreCallFacts, StoreFits
  <1>4. ~Does("stream")
    BY <1>3, StoreFits DEF Does
  <1>5. /\ Others(i) \in Seq(StoreCallSet(storeName))
        /\ \A j \in DOMAIN Others(i) : Others(i)[j].seen <= storeData[Others(i)[j].of]
    BY OthersKept
  <1>6. /\ others \in Seq(StoreCallSet(storeName)) /\ DOMAIN others = DOMAIN Others(i)
        /\ \A j \in DOMAIN Others(i) : others[j].of = Others(i)[j].of /\ others[j].seen = Others(i)[j].seen
    BY <1>5, CallsOrphaned
  <1> HIDE DEF read, others
  <1>7. \A j \in DOMAIN others : others[j].seen <= storeData[others[j].of]
    BY <1>5, <1>6
  <1>8. storePage' \in ReadsOf[storeName] \cup {NoPage} /\ storeStreams' \in Nat
    BY <1>1, <1>3 DEF StoresTypes
  <1>9. storeLost' \in BOOLEAN
    BY <1>2
  <1>10. /\ StoresTypes'
         /\ VersionsAreOfTheData'
         /\ OnItsWay(storeCalls', read, storeData[read]) /\ LiveReads(storeCalls') # {}
    <2>1. 1 \in Nat \ {0}
      OBVIOUS
    <2> QED
      BY <1>1, <1>3, <1>6, <1>7, <1>8, <1>9, <2>1, AskKeeps
  <1>11. StreamsAreCounted'
    BY <1>1, <1>4, StoresNamed DEF StreamsAreCounted
  <1>12. PageIsInformed'
    BY <1>1, <1>10 DEF PageIsInformed
  <1> QED
    BY <1>10, <1>11, <1>12

\* A change never brings what a page waits for before it is served.
LEMMA UnservedBringsNothing ==
    ASSUME StoresInv, NEW i \in DOMAIN storeCalls, ~IsRead(storeCalls[i]), storeCalls[i].seen = Unserved,
           storePage # NoPage
    PROVE  ~Brings(storeCalls[i], storePage, storeData[storePage])
  <1>1. storePage \in ReadsOf[storeName]
    BY DEF StoresInv, StoresTypes
  <1>2. storeData[storePage] \in Nat /\ Unserved = -1
    BY <1>1, StoreValues DEF StoresInv
  <1> QED
    BY <1>2 DEF Brings

\* The answer to a change, whatever the store does with it.
LEMMA ChangeReturnsKeeps ==
    ASSUME StoresInv, NEW i \in DOMAIN storeCalls, ChangeReturns(i)
    PROVE  StoresInv'
  <1> DEFINE call == storeCalls[i]
             store == StoreOf[storeName][call.of]
  <1>1. call.seen # Unserved /\ call.page /\ UNCHANGED <<storeName, storeData>>
    BY DEF ChangeReturns
  <1>2. CASE call.request \in store.reloads /\ Reload(i)
    BY <1>1, <1>2, ReloadKeeps
  <1>3. CASE Hold(call) /\ storeCalls' = Others(i) /\ UNCHANGED <<storePage, storeStreams, storeLost>>
    BY <1>1, <1>3, HoldKeeps
  <1>4. CASE LeavePage(Others(i)) /\ UNCHANGED <<storeNewest, storeLost>>
    <2>1. storeLost' \in BOOLEAN
      BY <1>4 DEF StoresInv, StoresTypes
    <2> QED
      BY <1>1, <1>4, <2>1, OthersKept, LeavePageKeeps
  <1>5. CASE call.request \in store.creates /\ GoOn(i)
    BY <1>1, <1>5, GoOnKeeps
  <1> QED
    BY <1>2, <1>3, <1>4, <1>5 DEF ChangeReturns

\* The answer to a read, taken or not.
LEMMA ReadReturnsKeeps ==
    ASSUME StoresInv, NEW i \in DOMAIN storeCalls, ReadReturns(i)
    PROVE  StoresInv'
  <1>1. /\ storeCalls[i].seen # Unserved /\ IsRead(storeCalls[i]) /\ storeCalls' = Others(i)
        /\ UNCHANGED <<storeName, storePage, storeStreams, storeData, storeLost>>
    BY DEF ReadReturns
  <1>2. CASE storeCalls[i].page
    BY <1>1, <1>2, HoldKeeps DEF ReadReturns
  <1>3. CASE ~storeCalls[i].page
    <2>1. UNCHANGED <<storeHeld, storeNewest>>
      BY <1>3 DEF ReadReturns
    <2>2. ~Brings(storeCalls[i], storePage, storeData[storePage]) /\ i \notin LiveReads(storeCalls)
      BY <1>1, <1>3 DEF Brings, LiveReads
    <2>3. storeLost' \in BOOLEAN /\ (storeLost => storeLost')
      BY <1>1 DEF StoresInv, StoresTypes
    <2> QED
      BY <1>1, <2>1, <2>2, <2>3, CallGone
  <1> QED
    BY <1>2, <1>3

\* The answer to a change whose page is gone.
LEMMA OrphanReturnsKeeps ==
    ASSUME StoresInv, NEW i \in DOMAIN storeCalls, OrphanReturns(i)
    PROVE  StoresInv'
  BY CallGone DEF OrphanReturns

\* A change that fails brought nothing if it was not served, and is lost if it was.
LEMMA ChangeFailsKeeps ==
    ASSUME StoresInv, NEW i \in DOMAIN storeCalls, ChangeFails(i)
    PROVE  StoresInv'
  <1>1. /\ ~IsRead(storeCalls[i]) /\ storeCalls' = Others(i)
        /\ UNCHANGED <<storeName, storePage, storeHeld, storeStreams, storeData, storeNewest>>
    BY DEF ChangeFails
  <1>2. storeLost' = (storeLost \/ storeCalls[i].seen # Unserved)
    BY DEF ChangeFails
  <1>3. storeLost' \in BOOLEAN /\ (storeLost => storeLost')
    BY <1>2
  <1>4. i \notin LiveReads(storeCalls)
    BY <1>1 DEF LiveReads
  <1>5. ~storeLost' /\ storePage # NoPage => ~Brings(storeCalls[i], storePage, storeData[storePage])
    BY <1>1, <1>2, UnservedBringsNothing
  <1> QED
    BY <1>1, <1>3, <1>4, <1>5, CallGone

\* A read that fails is lost, and with it the page or a subscription.
LEMMA ReadFailsKeeps ==
    ASSUME StoresInv, NEW i \in DOMAIN storeCalls, ReadFails(i)
    PROVE  StoresInv'
  <1> USE DEF StoresInv
  <1>1. IsRead(storeCalls[i]) /\ UNCHANGED <<storeName, storeData, storeNewest>>
    BY DEF ReadFails
  <1>2. CASE ~storeCalls[i].page
    <2>1. storeCalls' = Others(i) /\ UNCHANGED <<storePage, storeHeld, storeStreams, storeLost>>
      BY <1>2 DEF ReadFails
    <2>2. ~Brings(storeCalls[i], storePage, storeData[storePage]) /\ i \notin LiveReads(storeCalls)
      BY <1>1, <1>2 DEF Brings, LiveReads
    <2>3. storeLost' \in BOOLEAN /\ (storeLost => storeLost')
      BY <2>1 DEF StoresTypes
    <2> QED
      BY <1>1, <2>1, <2>2, <2>3, CallGone
  <1>3. CASE storeCalls[i].page /\ Does("closes")
    <2>1. storeLost' = TRUE /\ LeavePage(Others(i))
      BY <1>3 DEF ReadFails
    <2>2. storeLost' \in BOOLEAN
      BY <2>1
    <2> QED
      BY <1>1, <2>1, <2>2, OthersKept, LeavePageKeeps
  <1>4. CASE storeCalls[i].page /\ ~Does("closes")
    <2>1. storeLost' = TRUE /\ storeCalls' = Others(i) /\ UNCHANGED storePage
      BY <1>4 DEF ReadFails
    <2>2. storeHeld' = IF Does("forgets") THEN Undef ELSE storeHeld
      BY <1>4 DEF ReadFails
    <2>3. storeStreams' = IF Does("stream") THEN storeStreams - 1 ELSE storeStreams
      BY <1>4 DEF ReadFails
    <2>4. i \in LiveReads(storeCalls)
      BY <1>1, <1>4 DEF LiveReads
    <2>5. /\ Others(i) \in Seq(StoreCallSet(storeName)) /\ Len(Others(i)) <= MaxCalls
          /\ \A j \in DOMAIN Others(i) : \E k \in DOMAIN storeCalls : Others(i)[j] = storeCalls[k]
          /\ \A j \in DOMAIN Others(i) : Others(i)[j].seen <= storeData[Others(i)[j].of]
          /\ Cardinality(LiveReads(Others(i))) \in Nat /\ Cardinality(LiveReads(storeCalls)) \in Nat
          /\ Cardinality(LiveReads(Others(i))) <= Cardinality(LiveReads(storeCalls)) - 1
      BY <2>4, OthersKept
    <2>6. storeStreams \in Nat
      BY DEF StoresTypes
    <2>7. Does("stream") => storeStreams - 1 \in Nat /\ Cardinality(LiveReads(Others(i))) <= storeStreams - 1
      BY <2>5, <2>6 DEF StreamsAreCounted
    <2>8. /\ storeHeld' \in [read : ReadsOf[storeName] \cup {NoPage}, version : Versions]
          /\ storeHeld' # Undef => storeHeld' = storeHeld
      <3>1. Undef \in [read : ReadsOf[storeName] \cup {NoPage}, version : Versions]
        BY StoresAssumption DEF Undef, Versions
      <3> QED
        BY <2>2, <3>1 DEF StoresTypes
    <2>9. StoresTypes'
      <3>1. storeStreams' \in Nat
        BY <2>3, <2>6, <2>7
      <3>2. storeLost' \in BOOLEAN
        BY <2>1
      <3> QED
        BY <1>1, <2>1, <2>5, <2>8, <3>1, <3>2, StoresNamed DEF StoresTypes
    <2>10. VersionsAreOfTheData'
      BY <1>1, <2>1, <2>5, <2>8, StoresNamed DEF VersionsAreOfTheData
    <2>11. StreamsAreCounted'
      <3>1. CASE Does("stream")
        <4>1. storeStreams' = storeStreams - 1 /\ storeStreams' <= storeStreams
          BY <2>3, <2>6, <3>1
        <4>2. Cardinality(LiveReads(storeCalls')) <= storeStreams'
          BY <2>1, <2>7, <3>1, <4>1
        <4>3. Does("local") \/ storeStreams' <= 1
          BY <2>6, <3>1, <4>1 DEF StreamsAreCounted
        <4>4. storePage = NoPage => \A j \in DOMAIN Others(i) : Others(i)[j].page => IsRead(Others(i)[j])
          BY <2>5, <3>1 DEF StreamsAreCounted
        <4> QED
          BY <1>1, <2>1, <3>1, <4>2, <4>3, <4>4, StoresNamed DEF StreamsAreCounted
      <3>2. CASE ~Does("stream")
        BY <1>1, <2>1, <2>3, <3>2, StoresNamed DEF StreamsAreCounted
      <3> QED
        BY <3>1, <3>2
    <2>12. PageIsInformed'
      BY <2>1 DEF PageIsInformed
    <2> QED
      BY <2>9, <2>10, <2>11, <2>12
  <1> QED
    BY <1>2, <1>3, <1>4

\* The page is closed.
LEMMA CloseStoreKeeps ==
    ASSUME StoresInv, CloseStore
    PROVE  StoresInv'
  <1>1. LeavePage(storeCalls) /\ UNCHANGED <<storeName, storeData, storeNewest, storeLost>>
    BY DEF CloseStore
  <1>2. storeCalls \in Seq(StoreCallSet(storeName)) /\ Len(storeCalls) <= MaxCalls
    BY DEF StoresInv, StoresTypes
  <1>3. storeLost' \in BOOLEAN
    BY <1>1 DEF StoresInv, StoresTypes
  <1>4. Cardinality(LiveReads(storeCalls)) \in Nat /\ Cardinality(LiveReads(storeCalls)) <= Cardinality(LiveReads(storeCalls))
    <2>1. LiveReads(storeCalls) \subseteq 1 .. Len(storeCalls) /\ Len(storeCalls) \in Nat
      BY <1>2, LenProperties DEF LiveReads
    <2>2. IsFiniteSet(1 .. Len(storeCalls))
      BY <2>1, FS_Interval
    <2>3. Cardinality(LiveReads(storeCalls)) \in Nat
      BY <2>1, <2>2, FS_Subset, FS_CardinalityType
    <2> QED
      BY <2>3
  <1> QED
    BY <1>1, <1>2, <1>3, <1>4, LeavePageKeeps

\* No step of a store breaks the invariant.
LEMMA StoresStep == StoresInv /\ [StoresNext]_storeVars => StoresInv'
  <1> SUFFICES ASSUME StoresInv, [StoresNext]_storeVars
               PROVE  StoresInv'
    OBVIOUS
  <1>1. CASE CloseStore
    BY <1>1, CloseStoreKeeps
  <1>2. ASSUME NEW read \in ReadsOf[storeName], OpenStore(read)
        PROVE  StoresInv'
    BY <1>2, OpenStoreKeeps
  <1>3. ASSUME NEW read \in ReadsOf[storeName], NEW request \in ChangesOf(storeName, read), ChangeData(read, request)
        PROVE  StoresInv'
    BY <1>3, ChangeDataKeeps
  <1>4. ASSUME NEW i \in DOMAIN storeCalls,
               ServeCall(i) \/ ReadReturns(i) \/ ChangeReturns(i) \/ OrphanReturns(i) \/ ReadFails(i) \/ ChangeFails(i)
        PROVE  StoresInv'
    BY <1>4, ServeCallKeeps, ReadReturnsKeeps, ChangeReturnsKeeps, OrphanReturnsKeeps, ReadFailsKeeps, ChangeFailsKeeps
  <1>5. CASE UNCHANGED storeVars
    BY <1>5, StoresNamed DEF storeVars, StoresInv, StoresTypes, VersionsAreOfTheData, StreamsAreCounted, PageIsInformed
  <1> QED
    BY <1>1, <1>2, <1>3, <1>4, <1>5 DEF StoresNext

\* What a store holds and waits for is true in every reachable state, for any number of
\* things its page is about, requests under way and changes.
THEOREM StoresInvariant == StoresSpec => []StoresInv
  BY StoresInitial, StoresStep, PTL DEF StoresSpec

\* Once nothing is under way, an informed page shows the newest version or was outrun.
LEMMA InformedIsFresh == StoresInv => QuietStoreIsFresh
  <1> SUFFICES ASSUME StoresInv, storeCalls = <<>>, storePage # NoPage, ~storeLost, ~Outrun
               PROVE  storeHeld = [read |-> storePage, version |-> storeData[storePage]]
    BY DEF QuietStoreIsFresh
  <1>1. DOMAIN storeCalls = {}
    OBVIOUS
  <1>2. storeNewest[storePage] = storeData[storePage] /\ storeHeld # Undef
    BY <1>1 DEF StoresInv, PageIsInformed, OnItsWay, LiveReads
  <1>3. storeHeld.read \in ReadsOf[storeName] /\ storeHeld.version \in 0 .. storeNewest[storeHeld.read]
    BY <1>2 DEF StoresInv, VersionsAreOfTheData
  <1>4. storeHeld.read # NoPage
    BY <1>3, StoreFits DEF StoresInv, StoresTypes
  <1>5. storeHeld.read = storePage /\ ~(storeHeld.version < storeNewest[storePage])
    BY <1>4 DEF Outrun
  <1>6. storeNewest[storePage] \in Int
    BY <1>3, <1>5, StoreValues DEF StoresInv
  <1>7. storeHeld.version = storeData[storePage]
    BY <1>2, <1>3, <1>5, <1>6
  <1> QED
    BY <1>5, <1>7 DEF StoresInv, StoresTypes

\* When every request has been answered, a page shows the data as last changed, unless an
\* older answer came last or a request failed: for each of the 43 stores.
THEOREM QuietStoresAreFresh == StoresSpec => []QuietStoreIsFresh
  BY StoresInvariant, InformedIsFresh, PTL

=============================================================================
