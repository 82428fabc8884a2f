------------------------- MODULE PolygonPersistence -------------------------
(***************************************************************************)
(* wxPolygonShape::WriteAttributes and ReadAttributes composed with the    *)
(* polygon's editing and resizing (module PolygonShape).  WriteAttributes  *)
(* stores the position, the working points and the baseline points in a   *)
(* wxExpr clause as doubles; ReadAttributes, called on the shape the       *)
(* diagram loader creates in place of the saved one, reads every           *)
(* coordinate back with wxExpr::IntegerValue.  The attributes of the base  *)
(* class (position, rotation) are written and read by wxShape, which is    *)
(* not under src/; they are carried over unchanged.                        *)
(***************************************************************************)
EXTENDS PolygonShape

VARIABLES
    clause,   \* <<>>, or <<the record the last WriteAttributes wrote>>
    copy      \* <<>>, or <<the polygon the last Copy filled in>>

pvars == <<vars, clause, copy>>

\* wxExpr::IntegerValue of a real: the C conversion (long) value, which
\* truncates toward zero.  A non-finite double converts to the "integer
\* indefinite" value LONG_MIN, shown here at 32 bits.
LONG_MIN == -2147483647 - 1

IntegerValue(r) ==
    CASE ~IsFinite(r) -> LONG_MIN
      [] r[1] >= 0    -> r[1] \div r[2]
      [] OTHER        -> -((-r[1]) \div r[2])

XY(p) == <<p.x, p.y>>

\* WriteAttributes: x, y, then the points and the m_originalPoints lists.
WriteAttributes ==
    /\ Idle /\ ops < MaxOps
    /\ ops' = ops + 1
    /\ clause' = <<[x |-> m_xpos, y |-> m_ypos, rotation |-> m_rotation,
                    points |-> [i \in DOMAIN m_points |-> XY(m_points[i])],
                    originalPoints |-> [i \in DOMAIN m_originalPoints |->
                                          XY(m_originalPoints[i])]]>>
    /\ UNCHANGED <<m_points, m_originalPoints, m_boundWidth, m_boundHeight,
                   m_originalWidth, m_originalHeight, m_xpos, m_ypos,
                   m_rotation, m_selected, m_controlPoints, dragging, crashed,
                   copy>>

\* A list of points as the read loops build it: each coordinate through
\* IntegerValue, then back to double.
ReadPoints(l) == [i \in DOMAIN l |-> [x |-> R(IntegerValue(l[i][1])),
                                      y |-> R(IntegerValue(l[i][2]))]]

\* The scan over the read baseline, seeded with 1000 and -1000.
ReadExtent(S) ==
    RSub(Greatest(S \cup {R(-1000)}), Least(S \cup {R(1000)}))

\* Mutant: the original size is taken from the working points read.
ReadOriginalSizeFromPoints(ps, orig) ==
    <<ReadExtent(Xs(ps)), ReadExtent(Ys(ps))>>

\* m_originalWidth, m_originalHeight as ReadAttributes computes them.
ReadOriginalSize(ps, orig) ==
    <<ReadExtent(Xs(orig)), ReadExtent(Ys(orig))>>

\* ReadAttributes into the freshly created shape that replaces the saved
\* one: the working points get new wxRealPoints, the baseline and its size
\* are read, and CalculateBoundingBox runs.  The new shape is unselected.
ReadAttributes ==
    /\ clause # <<>>
    /\ Idle /\ ops < MaxOps
    /\ ops' = ops + 1
    /\ LET c    == clause[1]
           rp   == ReadPoints(c.points)
           ps   == [i \in DOMAIN rp |-> [addr |-> i, x |-> rp[i].x, y |-> rp[i].y]]
           orig == ReadPoints(c.originalPoints)
           os   == ReadOriginalSize(ps, orig)
           bb   == CalculateBoundingBox(ps)
       IN  /\ m_points' = ps
           /\ m_originalPoints' = orig
           /\ m_originalWidth' = os[1] /\ m_originalHeight' = os[2]
           /\ m_boundWidth' = bb[1] /\ m_boundHeight' = bb[2]
           /\ m_xpos' = c.x /\ m_ypos' = c.y /\ m_rotation' = c.rotation
    /\ m_selected' = FALSE /\ m_controlPoints' = <<>>
    /\ UNCHANGED <<dragging, crashed, clause, copy>>

\* Mutant: the bounding box size is copied into the baseline size.
CopyFieldsSwapped ==
    [points |-> [i \in DOMAIN m_points |-> [x |-> m_points[i].x, y |-> m_points[i].y]],
     originalPoints |-> m_originalPoints,
     boundWidth |-> m_boundWidth, boundHeight |-> m_boundHeight,
     originalWidth |-> m_boundWidth, originalHeight |-> m_boundHeight]

\* The fields Copy gives the copy: new wxRealPoints with the coordinates of
\* the working and the baseline points (ClearPoints first frees the
\* copy's own lists), and the four sizes.
CopyFields ==
    [points |-> [i \in DOMAIN m_points |-> [x |-> m_points[i].x, y |-> m_points[i].y]],
     originalPoints |-> m_originalPoints,
     boundWidth |-> m_boundWidth, boundHeight |-> m_boundHeight,
     originalWidth |-> m_originalWidth, originalHeight |-> m_originalHeight]

\* Copy(copy) into the shape CreateNewCopy makes; the base class's fields
\* are copied by wxShape::Copy, which is not under src/.
Copy ==
    /\ Idle /\ ops < MaxOps
    /\ ops' = ops + 1
    /\ copy' = <<CopyFields>>
    /\ UNCHANGED <<m_points, m_originalPoints, m_boundWidth, m_boundHeight,
                   m_originalWidth, m_originalHeight, m_xpos, m_ypos,
                   m_rotation, m_selected, m_controlPoints, dragging, crashed,
                   clause>>

PNext ==
    \/ Next /\ UNCHANGED <<clause, copy>>
    \/ WriteAttributes
    \/ ReadAttributes
    \/ Copy

PSpec == Init /\ clause = <<>> /\ copy = <<>> /\ [][PNext]_pvars

-----------------------------------------------------------------------------
(* Properties *)

\* The extent of a list of points, with no seed.
Extent(S) == IF S = {} THEN R(0) ELSE RSub(Greatest(S), Least(S))

\* A baseline of finite points has the size of their extent.
BaselineSized(orig, w, h) ==
    /\ orig # <<>>
    /\ \A i \in DOMAIN orig : IsFinite(orig[i].x) /\ IsFinite(orig[i].y)
    => w = Extent(Xs(orig)) /\ h = Extent(Ys(orig))

\* The baseline size SetSize divides by is the size of the baseline points
\* it scales: every operation that replaces m_originalPoints
\* (UpdateOriginalPoints after an edit or a Ctrl-resize, ReadAttributes)
\* recomputes m_originalWidth/m_originalHeight from the same points, and a
\* copy made by Copy has a baseline size that fits its own baseline.  (A
\* baseline of NaNs, which a resize of a flat polygon leaves, has no size
\* to match.)
OriginalSizeMatchesOriginals ==
    /\ BaselineSized(m_originalPoints, m_originalWidth, m_originalHeight)
    /\ \A i \in DOMAIN copy :
          BaselineSized(copy[i].originalPoints, copy[i].originalWidth, copy[i].originalHeight)

\* Saving a polygon and loading it gives back the polygon that was saved:
\* ReadAttributes restores the working and the baseline points that
\* WriteAttributes wrote.
LoadRestoresShape ==
    [][ReadAttributes =>
         /\ [i \in DOMAIN m_points' |-> XY(m_points'[i])] = clause[1].points
         /\ [i \in DOMAIN m_originalPoints' |-> XY(m_originalPoints'[i])]
              = clause[1].originalPoints]_pvars

=============================================================================
