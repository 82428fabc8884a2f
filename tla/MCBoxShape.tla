----------------------------- MODULE MCBoxShape -----------------------------
(* Constants for checking BoxShape with TLC. *)
EXTENDS BoxShape

\* A 4 x 2 shape centred on the origin.
MCRectSize == <<4, 2>>

\* Mouse positions as in MCShapeResize: on the right and bottom edges,
\* beyond the top-left corner, and inside horizontally below the shape.
MCMouse == {<<2, 1>>, <<-3, -2>>, <<1, 3>>}

\* A negative radius, which wxWidgets takes as a proportion of the
\* rectangle's smaller side (the radius 0.0 is the constructor's).
MCCornerRadii == {Frac(-1, 4)}

MCBoth == {FALSE, TRUE}
MCNo == {FALSE}
=============================================================================
