------------------------ MODULE MCPolygonPersistence ------------------------
(***************************************************************************)
(* Instantiates PolygonPersistence for TLC.                                *)
(***************************************************************************)
EXTENDS PolygonPersistence

MCAddr == 1..6

\* The quadrilateral of MCPolygonShape; a drag from offset (0, 2) to (1, 0)
\* halves it, giving coordinates of -1/2 and 1/2.
MCInitPoints == << <<-2, -1>>, <<2, -1>>, <<2, 0>>, <<0, 1>> >>
MCMouseOffsets == { <<1, 0>>, <<0, 2>> }

MCOrigin == { <<0, 0>> }
MCRotateCentres == { <<0, 0>>, <<1, 0>> }
MCHalfTurns == {0, 2}
MCNoTurn == {0}

ASSUME \A off \in MCMouseOffsets :
          \E r \in 0..10 : r * r = off[1] * off[1] + off[2] * off[2]

=============================================================================
