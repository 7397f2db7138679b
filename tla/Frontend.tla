------------------------------- MODULE Frontend -------------------------------
(***************************************************************************)
(* The parts of the frontend in one specification.  They share no state:   *)
(* an initial state picks the part that moves, the other ones stay where   *)
(* they start, so that TLC explores their sum and not their product.       *)
(***************************************************************************)
EXTENDS Viewer, Tiling, Login, ProjectPages, PagedLists, RunPage, SessionList,
        Stores, Repositories, ToolElements, RequestDialogs, Diagrams

VARIABLE part \* the part of the frontend that moves

frontendVars == <<part, viewVars, tileVars, loginVars, pageVars, listVars, rpVars,
                  slVars, storeVars, reposVars, elementVars, requestDialogVars,
                  diagramVars>>

Parts ==
    {"viewer", "tiling", "login", "pages", "lists", "run", "sessions", "stores",
     "repositories", "elements", "dialogs", "diagrams"}

FrontendInit ==
    /\ part \in Parts
    /\ ViewerInit /\ (part # "viewer" => viewRemote \in [ViewSessions -> {"pending"}])
    /\ TilingInit /\ (part # "tiling" => innerWidth = Max(InnerWidths))
    /\ LoginInit
    /\ PagesInit
    /\ ListsInit /\ (part # "lists" => listKind = "runs")
    /\ RunPageInit /\ (part # "run" => rpRemote \in [Runs -> {"pending"}])
    /\ SessionListInit /\ (part # "sessions" => slRemote = {})
    /\ StoresInit /\ (part # "stores" => storeName = "tools")
    /\ ReposInit /\ (part # "repositories" => reposRows = {} /\ reposOnServer = {})
    /\ ElementsInit /\ (part # "elements" => elementsKind = "versions" /\ elementsData \in [Elements -> {0}])
    /\ DialogsInit /\ (part # "dialogs" => dialogKind = "backup" /\ dialogDone = {})
    /\ DiagramsInit

\* The other parts stay as they are.
ViewerMoves ==
    /\ part = "viewer" /\ ViewerNext
    /\ UNCHANGED <<part, tileVars, loginVars, pageVars, listVars, rpVars, slVars,
                   storeVars, reposVars, elementVars,
                   requestDialogVars, diagramVars>>

TilingMoves ==
    /\ part = "tiling" /\ TilingNext
    /\ UNCHANGED <<part, viewVars, loginVars, pageVars, listVars, rpVars, slVars,
                   storeVars, reposVars, elementVars,
                   requestDialogVars, diagramVars>>

LoginMoves ==
    /\ part = "login" /\ LoginNext
    /\ UNCHANGED <<part, viewVars, tileVars, pageVars, listVars, rpVars, slVars,
                   storeVars, reposVars, elementVars,
                   requestDialogVars, diagramVars>>

PagesMoves ==
    /\ part = "pages" /\ PagesNext
    /\ UNCHANGED <<part, viewVars, tileVars, loginVars, listVars, rpVars, slVars,
                   storeVars, reposVars, elementVars,
                   requestDialogVars, diagramVars>>

ListsMoves ==
    /\ part = "lists" /\ ListsNext
    /\ UNCHANGED <<part, viewVars, tileVars, loginVars, pageVars, rpVars, slVars,
                   storeVars, reposVars, elementVars,
                   requestDialogVars, diagramVars>>

RunMoves ==
    /\ part = "run" /\ RunPageNext
    /\ UNCHANGED <<part, viewVars, tileVars, loginVars, pageVars, listVars, slVars,
                   storeVars, reposVars, elementVars,
                   requestDialogVars, diagramVars>>

SessionsMoves ==
    /\ part = "sessions" /\ SessionListNext
    /\ UNCHANGED <<part, viewVars, tileVars, loginVars, pageVars, listVars, rpVars,
                   storeVars, reposVars, elementVars,
                   requestDialogVars, diagramVars>>

StoresMoves ==
    /\ part = "stores" /\ StoresNext
    /\ UNCHANGED <<part, viewVars, tileVars, loginVars, pageVars, listVars, rpVars,
                   slVars, reposVars, elementVars, requestDialogVars,
                   diagramVars>>

RepositoriesMoves ==
    /\ part = "repositories" /\ ReposNext
    /\ UNCHANGED <<part, viewVars, tileVars, loginVars, pageVars, listVars, rpVars,
                   slVars, storeVars, elementVars, requestDialogVars,
                   diagramVars>>

ElementsMoves ==
    /\ part = "elements" /\ ElementsNext
    /\ UNCHANGED <<part, viewVars, tileVars, loginVars, pageVars, listVars, rpVars,
                   slVars, storeVars, reposVars, requestDialogVars,
                   diagramVars>>

DialogsMoves ==
    /\ part = "dialogs" /\ DialogsNext
    /\ UNCHANGED <<part, viewVars, tileVars, loginVars, pageVars, listVars, rpVars,
                   slVars, storeVars, reposVars, elementVars,
                   diagramVars>>

DiagramsMoves ==
    /\ part = "diagrams" /\ DiagramsNext
    /\ UNCHANGED <<part, viewVars, tileVars, loginVars, pageVars, listVars, rpVars,
                   slVars, storeVars, reposVars, elementVars,
                   requestDialogVars>>

FrontendNext ==
    \/ ViewerMoves
    \/ TilingMoves
    \/ LoginMoves
    \/ PagesMoves
    \/ ListsMoves
    \/ RunMoves
    \/ SessionsMoves
    \/ StoresMoves
    \/ RepositoriesMoves
    \/ ElementsMoves
    \/ DialogsMoves
    \/ DiagramsMoves

FrontendSpec == FrontendInit /\ [][FrontendNext]_frontendVars

\* The variables of the part that moves have their types.
FrontendTypeOK ==
    /\ part = "viewer" => ViewerTypeOK
    /\ part = "tiling" => TilingTypeOK
    /\ part = "login" => LoginTypeOK
    /\ part = "pages" => PagesTypeOK
    /\ part = "lists" => ListsTypeOK
    /\ part = "run" => RunPageTypeOK
    /\ part = "sessions" => SessionListTypeOK
    /\ part = "stores" => StoresTypeOK
    /\ part = "repositories" => ReposTypeOK
    /\ part = "elements" => ElementsTypeOK
    /\ part = "dialogs" => DialogsTypeOK
    /\ part = "diagrams" => DiagramsTypeOK

=============================================================================
