---------------------------- MODULE MCShapeResize ----------------------------
(* Constants for checking ShapeResize with TLC. *)
EXTENDS ShapeResize

\* A 4 x 2 shape centred on the origin, and a circle of diameter 2.
MCRectSize == <<4, 2>>
MCCircleSize == <<2, 2>>

\* Mouse positions: (2, 1) lies on the right edge and bottom edge of the
\* 4 x 2 shape, so a drag from a left or top handle can end on the
\* stationary edge; (-3, -2) lies beyond its top-left corner; (1, 3) is
\* inside horizontally and below it.
MCMouse == {<<2, 1>>, <<-3, -2>>, <<1, 3>>}

\* (1, 0) is on the right edge of the circle; (3, 1) is off its diagonal.
MCCircleMouse == {<<1, 0>>, <<3, 1>>}

\* The one position off the circle's diagonal: a corner drag there that
\* keeps no aspect ratio gives an ellipse 6 wide and 2 high.
MCOffDiagonalMouse == {<<3, 1>>}

\* The one position beyond the 4 x 2 shape's top-left corner.
MCBeyondCornerMouse == {<<-3, -2>>}

MCBoth == {FALSE, TRUE}
MCNo == {FALSE}
MCYes == {TRUE}

ASSUME Kind = "circle" => InitSize[1] = InitSize[2]
=============================================================================
