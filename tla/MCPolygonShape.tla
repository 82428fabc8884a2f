--------------------------- MODULE MCPolygonShape ---------------------------
(***************************************************************************)
(* Instantiates PolygonShape for TLC.                                      *)
(***************************************************************************)
EXTENDS PolygonHitTest

\* Room for two more vertices than the initial four.
MCAddr == 1..6

\* A 4 x 2 quadrilateral centred on its box: a quarter turn changes its
\* aspect, and deleting the top vertex (0, 1) moves its box's centre.
MCInitPoints == << <<-2, -1>>, <<2, -1>>, <<2, 0>>, <<0, 1>> >>

\* Mouse offsets of length 1 and 2: shrinking by half, keeping the size and
\* growing by two all occur.
MCMouseOffsets == { <<1, 0>>, <<0, 2>> }

\* Rotation about the centre and about an axis off it.
MCRotateCentres == { <<0, 0>>, <<1, 0>> }

\* Half turns keep the polygon's aspect, a quarter turn swaps it; a turn to
\* the current angle (0) is the identity.
MCHalfTurns == {0, 2}
MCQuarterTurns == {1}
MCNoTurn == {0}
MCOrigin == { <<0, 0>> }
MCOffAxis == {<<1, 0>>}

\* A triangle, the smallest polygon the empty one is reached from.
MCTriangle == << <<-2, -1>>, <<2, -1>>, <<0, 1>> >>
MCOneOffset == { <<1, 0>> }

\* Points inside the triangle, on its sides and at a vertex, outside it, and
\* on the rays through its vertices.
MCHitPoints == {<<R(0), R(0)>>, <<R(1), R(0)>>, <<R(0), R(-1)>>,
                <<Frac(1, 2), Frac(-1, 2)>>, <<R(-1), R(1)>>, <<R(2), R(-1)>>}

\* Far ends of lines from the shape: straight below and above its position
\* (the vertical-line case, with and without a vertex there), off every
\* axis, at a vertex of the triangle and on one of its sides.
MCPerimeterTargets == {<<R(0), R(3)>>, <<R(0), R(-3)>>, <<R(3), R(1)>>,
                       <<R(-3), R(-3)>>, <<R(2), R(-1)>>, <<R(1), R(0)>>}

ASSUME \A off \in MCMouseOffsets :
          \E r \in 0..10 : r * r = off[1] * off[1] + off[2] * off[2]

=============================================================================
