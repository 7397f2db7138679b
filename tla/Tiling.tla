-------------------------------- MODULE Tiling --------------------------------
(***************************************************************************)
(* The tiling window manager of the session viewer                         *)
(* (sessions/session/tiling-window-manager): the sessions share the width  *)
(* of the window; a border between two of them can be dragged.             *)
(*                                                                         *)
(* A drag holds references to the two tile objects.  Each time the viewer  *)
(* publishes its list, the tiles are replaced by new objects: the drag     *)
(* then moves tiles nobody sees, until the mouse is released.              *)
(***************************************************************************)
EXTENDS Integers, Sequences, SequencesExt, FiniteSets, FiniteSetsExt

CONSTANTS
    TileSessions, \* session ids
    InnerWidths,  \* widths of the browser window
    Distances,    \* how far the mouse moves from where a drag started
    MaxResizes    \* bound on the changes of the window size while a border is held

ASSUME TilingAssumption ==
    /\ IsFiniteSet(TileSessions)
    /\ InnerWidths \subseteq Nat /\ InnerWidths # {}
    /\ Distances \subseteq Nat /\ MaxResizes \in Nat

VARIABLES
    tiles,      \* _tilingSessions
    drag,       \* resizeState
    innerWidth, \* window.innerWidth
    skewed,     \* a drag moved a border by widths of an earlier window size
    resizes     \* changes of the window size during a drag so far

tileVars == <<tiles, drag, innerWidth, skewed, resizes>>

NoDrag == [index |-> -1]
Dragging == drag # NoDrag

Tile == [id : TileSessions, index : Nat, width : Int]
Slots == 0 .. Cardinality(tiles) - 1
TileAt(index) == CHOOSE t \in tiles : t.index = index

\* minimumSessionWidth: 15 percent of the window.
MinimumWidth == (innerWidth * 15) \div 100

TilingInit ==
    /\ tiles = {} /\ drag = NoDrag
    /\ innerWidth \in InnerWidths
    /\ skewed = FALSE /\ resizes = 0

\* Mutant: the widths are not shared out anew after a change of the sessions.
KeptWidths(widths, n) == widths

EqualWidths(widths, n) == [k \in DOMAIN widths |-> innerWidth \div n]

\* The list of the viewer differs: tiles in the order of the list, equal widths.
Rebuild(ids) ==
    LET widths == EqualWidths([k \in DOMAIN ids |-> -1], Len(ids)) IN
    /\ tiles' = {[id |-> ids[k], index |-> k - 1, width |-> widths[k]] : k \in DOMAIN ids}
    /\ skewed' = FALSE

\* sessions$ emits a list.  The tiles are new objects either way.
Publish(ids) ==
    /\ IF ToSet(ids) # {t.id : t \in tiles}
       THEN Rebuild(ids)
       ELSE UNCHANGED <<tiles, skewed>>
    /\ drag' = IF Dragging THEN [drag EXCEPT !.attached = FALSE] ELSE drag
    /\ UNCHANGED <<innerWidth, resizes>>

ListsOfSessions == {ids \in UNION {[1 .. n -> TileSessions] : n \in 1 .. Cardinality(TileSessions)} :
             Cardinality(ToSet(ids)) = Len(ids)}

SessionsEmitted == \E ids \in ListsOfSessions : Publish(ids)

\* disableAllSessions publishes the list, which changes no value of a tile; the drag takes
\* the two tiles after that, so they are the objects on display.
OnMouseDown(index) ==
    /\ ~Dragging /\ index \in Slots /\ index + 1 \in Slots
    /\ drag' = [index |-> index, left |-> TileAt(index), right |-> TileAt(index + 1),
                attached |-> TRUE, resized |-> FALSE]
    /\ UNCHANGED <<tiles, innerWidth, skewed, resizes>>

AdjustWidthsWithMinimum(left, right) ==
    LET sum == drag.left.width + drag.right.width IN
    IF left < MinimumWidth THEN <<MinimumWidth, sum - MinimumWidth>>
    ELSE IF right < MinimumWidth THEN <<sum - MinimumWidth, MinimumWidth>>
    ELSE <<left, right>>

\* Mutant: only the tile left of the border is held above the minimum.
CalculateLeftOnly(delta) ==
    LET left == drag.left.width + delta IN
    <<IF left < MinimumWidth THEN MinimumWidth ELSE left, drag.right.width - delta>>

CalculateNewWidths(delta) ==
    AdjustWidthsWithMinimum(drag.left.width + delta, drag.right.width - delta)

OnMouseMove(delta) ==
    LET new == CalculateNewWidths(delta) IN
    /\ Dragging
    /\ IF drag.attached
       THEN /\ tiles' = {CASE t.id = drag.left.id -> [t EXCEPT !.width = new[1]]
                           [] t.id = drag.right.id -> [t EXCEPT !.width = new[2]]
                           [] OTHER -> t : t \in tiles}
            /\ skewed' = (skewed \/ drag.resized)
       ELSE UNCHANGED <<tiles, skewed>>
    /\ UNCHANGED <<drag, innerWidth, resizes>>

\* enableAllSessions publishes the list; the drag is over.
OnMouseUp ==
    /\ Dragging
    /\ drag' = NoDrag
    /\ UNCHANGED <<tiles, innerWidth, skewed, resizes>>

\* resetWidths; the widths a drag started with are kept.
OnResize(width) ==
    /\ innerWidth' = width
    /\ tiles' = {[t EXCEPT !.width = width \div Cardinality(tiles)] : t \in tiles}
    /\ skewed' = FALSE
    /\ IF Dragging
       THEN /\ resizes < MaxResizes /\ resizes' = resizes + 1
            /\ drag' = [drag EXCEPT !.resized = TRUE]
       ELSE UNCHANGED <<drag, resizes>>

\* onLeftArrowClick; onRightArrowClick is the same swap seen from the other tile.
\* The mouse is not down.
SwapSessions(first, second) ==
    /\ ~Dragging
    /\ second.index = first.index - 1
    /\ tiles' = (tiles \ {first, second}) \cup
          {[first EXCEPT !.index = second.index, !.width = second.width],
           [second EXCEPT !.index = first.index, !.width = first.width]}
    /\ UNCHANGED <<drag, innerWidth, skewed, resizes>>

TilingNext ==
    \/ SessionsEmitted \/ OnMouseUp
    \/ \E index \in Slots : OnMouseDown(index)
    \/ \E d \in Distances : OnMouseMove(d) \/ OnMouseMove(-d)
    \/ \E width \in InnerWidths : OnResize(width)
    \/ \E first, second \in tiles : SwapSessions(first, second)

TilingSpec == TilingInit /\ [][TilingNext]_tileVars

----------------------------------------------------------------------------
(* Properties *)

TilingTypeOK ==
    /\ tiles \subseteq Tile
    /\ Dragging => /\ drag.index \in Nat /\ drag.left \in Tile /\ drag.right \in Tile
                   /\ {drag.attached, drag.resized} \subseteq BOOLEAN
    /\ innerWidth \in InnerWidths /\ skewed \in BOOLEAN /\ resizes \in 0 .. MaxResizes

\* After any swaps and drags, also of tiles replaced since, the tiles take the slots from
\* left to right, one each, and fill the window, none below the minimum width if six or
\* less share it (seven equal widths are below it already) - unless the window was resized
\* while a border was held, which makes the drag restore widths of the old window.
LayoutFillsWindow ==
    tiles # {} =>
        /\ {t.index : t \in tiles} = Slots
        /\ Cardinality({t.id : t \in tiles}) = Cardinality(tiles)
        /\ ~skewed =>
              /\ MapThenSumSet(LAMBDA t : t.width, tiles) =
                    Cardinality(tiles) * (innerWidth \div Cardinality(tiles))
              /\ Cardinality(tiles) <= 6 => \A t \in tiles : t.width >= MinimumWidth

=============================================================================
