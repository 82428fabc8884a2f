---------------------------- MODULE ResizeOutline ----------------------------
(***************************************************************************)
(* What a resize drag of an OGL shape promises its user, with no geometry: *)
(* while the handle is dragged an outline is shown and may change with     *)
(* every mouse event, the shape itself keeps its position and size, and    *)
(* releasing the handle gives the shape exactly the outline last shown.   *)
(* A geometry is a record of a centre and a size; its numbers are the     *)
(* doubles of module Rational.                                             *)
(***************************************************************************)
EXTENDS Rational

VARIABLES
    box,        \* the shape's geometry
    outline,    \* the geometry of the outline last drawn
    dragging    \* whether a handle is being dragged

avars == <<box, outline, dragging>>

Double == Int \X Nat

Geometry == [x : Double, y : Double, w : Double, h : Double]

Init ==
    /\ box \in Geometry
    /\ outline \in Geometry
    /\ dragging = FALSE

\* Pressing a handle draws a first outline.
ShowOutline ==
    /\ ~dragging
    /\ dragging' = TRUE
    /\ outline' \in Geometry
    /\ UNCHANGED box

\* Moving the mouse redraws it.
MoveOutline ==
    /\ dragging
    /\ outline' \in Geometry
    /\ UNCHANGED <<box, dragging>>

\* Releasing the handle gives the shape the outline.
Resize ==
    /\ dragging
    /\ dragging' = FALSE
    /\ box' = outline
    /\ UNCHANGED outline

Next == ShowOutline \/ MoveOutline \/ Resize

Spec == Init /\ [][Next]_avars

=============================================================================
