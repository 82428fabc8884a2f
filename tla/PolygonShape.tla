---------------------------- MODULE PolygonShape ----------------------------
(***************************************************************************)
(* wxPolygonShape of src/pgadmin/ogl/basic2.cpp: a polygon whose vertices  *)
(* m_points are kept relative to the shape's centre (m_xpos, m_ypos), a    *)
(* baseline copy m_originalPoints that every resize scales from, the       *)
(* cached bounding box, and, while the shape is selected, one control      *)
(* point ("handle") per vertex through which the user resizes the shape    *)
(* with a begin / drag / end mouse sequence.                               *)
(*                                                                         *)
(* Each wxRealPoint of m_points lives at a heap address (a member of Addr) *)
(* because a control point holds a pointer (m_polygonVertex) to its        *)
(* vertex.  Doubles are exact rationals (module Rational).  Drawing, the   *)
(* device context, region sizes and composite constraints (Recompute) are *)
(* not state this model keeps.                                             *)
(***************************************************************************)
EXTENDS Integers, Sequences, SequencesExt, Rational

CONSTANTS
    Addr,           \* heap addresses (naturals) a wxRealPoint of m_points may get
    InitPoints,     \* the_points handed to Create: a sequence of <<x, y>>
    MouseOffsets,   \* mouse positions during a resize, relative to the centre
    RotateCentres,  \* the (x, y) axes Rotate is called with
    Turns,          \* the angles Rotate is called with, in quarter turns
    MaxOps          \* bound on point edits, rotations and resize drags

VARIABLES
    m_points,         \* <<[addr, x, y]>>: the working vertices
    m_originalPoints, \* <<[x, y]>>: the unscaled baseline
    m_boundWidth, m_boundHeight,
    m_originalWidth, m_originalHeight,
    m_xpos, m_ypos,
    m_rotation,       \* in quarter turns
    m_selected,
    m_controlPoints,  \* <<[vertex, xoffset, yoffset, originalDistance,
                      \*    originalSize, newSize]>>: wxPolygonControlPoints
    dragging,         \* index of the control point whose drag holds the
                      \* mouse capture, 0 when none
    crashed,          \* the process died on a NULL dereference
    ops               \* operations performed, bounded by MaxOps

vars == <<m_points, m_originalPoints, m_boundWidth, m_boundHeight,
          m_originalWidth, m_originalHeight, m_xpos, m_ypos, m_rotation,
          m_selected, m_controlPoints, dragging, crashed, ops>>

-----------------------------------------------------------------------------
(* Bounding box: the scans of CalculateBoundingBox keep the least and the  *)
(* greatest coordinate met, starting from 10000 and -10000; a non-finite   *)
(* coordinate never compares less or greater and is passed over.           *)

Least(S)    == CHOOSE m \in S : \A v \in S : ~RLt(v, m)
Greatest(S) == CHOOSE m \in S : \A v \in S : ~RLt(m, v)
Xs(ps) == {ps[i].x : i \in DOMAIN ps} \ {NonFinite}
Ys(ps) == {ps[i].y : i \in DOMAIN ps} \ {NonFinite}

Left(ps)   == Least(Xs(ps) \cup {R(10000)})
Right(ps)  == Greatest(Xs(ps) \cup {R(-10000)})
Top(ps)    == Least(Ys(ps) \cup {R(10000)})
Bottom(ps) == Greatest(Ys(ps) \cup {R(-10000)})

\* <<m_boundWidth, m_boundHeight>> as CalculateBoundingBox sets them
CalculateBoundingBox(ps) == <<RSub(Right(ps), Left(ps)), RSub(Bottom(ps), Top(ps))>>

\* The centre of the box, which CalculatePolygonCentre moves the shape to.
PolygonCentre(ps) ==
    LET bb == CalculateBoundingBox(ps)
    IN  <<RAdd(Left(ps), RDiv(bb[1], R(2))), RAdd(Top(ps), RDiv(bb[2], R(2)))>>

\* The points after CalculatePolygonCentre shifted them by the centre.
Recentred(ps) ==
    LET c == PolygonCentre(ps)
    IN  [i \in DOMAIN ps |-> [ps[i] EXCEPT !.x = RSub(@, c[1]), !.y = RSub(@, c[2])]]

\* Mutant: the baseline shares the working wxRealPoints instead of copying.
UpdateOriginalPointsAliased(ps) == ps

\* The baseline UpdateOriginalPoints copies from the working points.
UpdateOriginalPoints(ps) == [i \in DOMAIN ps |-> [x |-> ps[i].x, y |-> ps[i].y]]

\* Mutant: the working points, not the baseline, are scaled.
SetSizeFromWorkingPoints(ps, orig, w, h, ow, oh) ==
    [i \in DOMAIN ps |->
        IF i <= Len(orig)
        THEN [ps[i] EXCEPT !.x = RMul(ps[i].x, RAbs(RDiv(w, ow))),
                           !.y = RMul(ps[i].y, RAbs(RDiv(h, oh)))]
        ELSE ps[i]]

\* SetSize: the working points are the original ones scaled by the
\* proportion of the new size to the original size, node by node.
SetSize(ps, orig, w, h, ow, oh) ==
    LET xp == RAbs(RDiv(w, ow))
        yp == RAbs(RDiv(h, oh))
    IN  [i \in DOMAIN ps |->
            IF i <= Len(orig)
            THEN [ps[i] EXCEPT !.x = RMul(orig[i].x, xp), !.y = RMul(orig[i].y, yp)]
            ELSE ps[i]]

-----------------------------------------------------------------------------
(* Control points *)

NewControlPoint(p) ==
    [vertex |-> p.addr, xoffset |-> p.x, yoffset |-> p.y,
     originalDistance |-> R(0), originalSize |-> <<R(0), R(0)>>,
     newSize |-> <<R(0), R(0)>>]

\* One control point per vertex, in vertex order.
MakeControlPoints(ps) == [i \in DOMAIN ps |-> NewControlPoint(ps[i])]

\* Mutant: the control points are left as they were.
ResetControlPointsSkipped(cps, ps) == cps

\* Re-points the control points at the vertices, pairwise while both last.
ResetControlPoints(cps, ps) ==
    [i \in DOMAIN cps |->
        IF i <= Len(ps)
        THEN [cps[i] EXCEPT !.xoffset = ps[i].x, !.yoffset = ps[i].y,
                            !.vertex = ps[i].addr]
        ELSE cps[i]]

\* Mutant: the control points are not rebuilt after an edit.
RebuiltControlPointsKept(ps) == m_controlPoints

\* The control points after an edit of the vertex list: DeleteControlPoints
\* and MakeControlPoints when the shape is selected.
RebuiltControlPoints(ps) == IF m_selected THEN MakeControlPoints(ps) ELSE m_controlPoints

\* The mouse offsets are chosen with integral length, so sqrt is exact.
ISqrt(n) == CHOOSE r \in 0..n : r * r = n
Distance(off) == R(ISqrt(off[1] * off[1] + off[2] * off[2]))

\* wxPolygonControlPoint::CalculateNewSize
CalculateNewSize(dist, cp) ==
    <<RMul(RDiv(dist, cp.originalDistance), cp.originalSize[1]),
      RMul(RDiv(dist, cp.originalDistance), cp.originalSize[2])>>

UsedAddr == {m_points[i].addr : i \in DOMAIN m_points}

-----------------------------------------------------------------------------
(* Operations *)

\* wxPolygonShape() then Create(the_points): the working points are fresh
\* copies (here at addresses 1, 2, ...) and the baseline is the_points.
Init ==
    LET ps == [i \in DOMAIN InitPoints |->
                 [addr |-> i, x |-> R(InitPoints[i][1]), y |-> R(InitPoints[i][2])]]
        bb == CalculateBoundingBox(ps)
    IN  /\ m_points = ps
        /\ m_originalPoints = UpdateOriginalPoints(ps)
        /\ m_boundWidth = bb[1] /\ m_boundHeight = bb[2]
        /\ m_originalWidth = bb[1] /\ m_originalHeight = bb[2]
        /\ m_xpos = R(0) /\ m_ypos = R(0)
        /\ m_rotation = 0
        /\ m_selected = FALSE
        /\ m_controlPoints = <<>>
        /\ dragging = 0
        /\ crashed = FALSE
        /\ ops = 0

\* The guard every operation other than selection shares.
Idle == ~crashed /\ dragging = 0

\* Selecting the shape: MakeControlPoints.
Select ==
    /\ Idle /\ ~m_selected
    /\ m_selected' = TRUE
    /\ m_controlPoints' = MakeControlPoints(m_points)
    /\ UNCHANGED <<m_points, m_originalPoints, m_boundWidth, m_boundHeight,
                   m_originalWidth, m_originalHeight, m_xpos, m_ypos,
                   m_rotation, dragging, crashed, ops>>

\* Deselecting it: DeleteControlPoints.
Deselect ==
    /\ Idle /\ m_selected
    /\ m_selected' = FALSE
    /\ m_controlPoints' = <<>>
    /\ UNCHANGED <<m_points, m_originalPoints, m_boundWidth, m_boundHeight,
                   m_originalWidth, m_originalHeight, m_xpos, m_ypos,
                   m_rotation, dragging, crashed, ops>>

\* The working points become the baseline; the bounding box and the
\* original size are recomputed (UpdateOriginalPoints), and the control
\* points rebuilt.
EditPoints(ps) ==
    LET bb == CalculateBoundingBox(ps)
    IN  /\ m_points' = ps
        /\ m_originalPoints' = UpdateOriginalPoints(ps)
        /\ m_boundWidth' = bb[1] /\ m_boundHeight' = bb[2]
        /\ m_originalWidth' = bb[1] /\ m_originalHeight' = bb[2]
        /\ m_controlPoints' = RebuiltControlPoints(ps)

\* AddPolygonPoint(pos): a vertex half way between vertex pos and the next
\* (the first when there is none) is appended or inserted before the next.
\* On an empty polygon both nodes are NULL and the dereference crashes.
AddPolygonPoint(pos) ==
    /\ Idle /\ ops < MaxOps
    /\ ops' = ops + 1
    /\ \/ /\ m_points = <<>>
          /\ crashed' = TRUE
          /\ UNCHANGED <<m_points, m_originalPoints, m_boundWidth, m_boundHeight,
                         m_originalWidth, m_originalHeight, m_controlPoints>>
       \/ /\ m_points # <<>>
          /\ Addr \ UsedAddr # {}
          /\ LET n      == Len(m_points)
                 first  == IF pos < n THEN m_points[pos + 1] ELSE m_points[1]
                 second == IF pos + 1 < n THEN m_points[pos + 2] ELSE m_points[1]
                 pt     == [addr |-> CHOOSE a \in Addr \ UsedAddr : TRUE,
                            x |-> RAdd(RDiv(RSub(second.x, first.x), R(2)), first.x),
                            y |-> RAdd(RDiv(RSub(second.y, first.y), R(2)), first.y)]
             IN  EditPoints(IF pos >= n - 1 THEN Append(m_points, pt)
                            ELSE InsertAt(m_points, pos + 2, pt))
          /\ UNCHANGED crashed
    /\ UNCHANGED <<m_xpos, m_ypos, m_rotation, m_selected, dragging>>

\* DeletePolygonPoint(pos): the vertex is freed and the baseline reset.
DeletePolygonPoint(pos) ==
    /\ Idle /\ ops < MaxOps
    /\ pos < Len(m_points)
    /\ ops' = ops + 1
    /\ EditPoints(RemoveAt(m_points, pos + 1))
    /\ UNCHANGED <<m_xpos, m_ypos, m_rotation, m_selected, dragging, crashed>>

\* Rotate(x, y, theta) by the quarter turns theta - m_rotation: the working
\* and the original points are rotated, then CalculatePolygonCentre,
\* CalculateBoundingBox and ResetControlPoints.
Sin(k) == <<0, 1, 0, -1>>[k + 1]
Cos(k) == <<1, 0, -1, 0>>[k + 1]

RotatePoint(p, x, y, k) ==
    LET s == R(Sin(k))
        c == R(Cos(k))
        one_c == R(1 - Cos(k))
    IN  [p EXCEPT
           !.x = RAdd(RAdd(RSub(RMul(p.x, c), RMul(p.y, s)), RMul(x, one_c)), RMul(y, s)),
           !.y = RAdd(RAdd(RAdd(RMul(p.x, s), RMul(p.y, c)), RMul(y, one_c)), RMul(x, s))]

Rotate(x, y, theta) ==
    LET k   == (theta - m_rotation) % 4
        ps  == [i \in DOMAIN m_points |-> RotatePoint(m_points[i], R(x), R(y), k)]
        c   == PolygonCentre(ps)
        cps == Recentred(ps)
        bb  == CalculateBoundingBox(cps)
    IN  /\ Idle /\ ops < MaxOps
        /\ ops' = ops + 1
        /\ m_originalPoints' = [i \in DOMAIN m_originalPoints |->
                                  RotatePoint(m_originalPoints[i], R(x), R(y), k)]
        /\ m_rotation' = theta
        /\ m_points' = cps
        /\ m_xpos' = RAdd(m_xpos, c[1]) /\ m_ypos' = RAdd(m_ypos, c[2])
        /\ m_boundWidth' = bb[1] /\ m_boundHeight' = bb[2]
        /\ m_controlPoints' = ResetControlPoints(m_controlPoints, cps)
        /\ UNCHANGED <<m_originalWidth, m_originalHeight, m_selected, dragging, crashed>>

\* wxPolygonShape::OnSizingBeginDragLeft on control point i, the mouse at
\* offset off from the centre: the distance (0.0001 when zero) and the
\* bounding box are remembered on the control point, its new size computed,
\* and the mouse captured.
OnSizingBeginDragLeft(i, off) ==
    LET dist == Distance(off)
        cp   == [m_controlPoints[i] EXCEPT
                   !.originalDistance = IF dist = R(0) THEN Frac(1, 10000) ELSE dist,
                   !.originalSize = <<m_boundWidth, m_boundHeight>>]
    IN  /\ Idle /\ ops < MaxOps
        /\ i \in DOMAIN m_controlPoints
        /\ ops' = ops + 1
        /\ m_controlPoints' = [m_controlPoints EXCEPT
                                 ![i] = [cp EXCEPT !.newSize = CalculateNewSize(dist, cp)]]
        /\ dragging' = i
        /\ UNCHANGED <<m_points, m_originalPoints, m_boundWidth, m_boundHeight,
                       m_originalWidth, m_originalHeight, m_xpos, m_ypos,
                       m_rotation, m_selected, crashed>>

\* wxPolygonShape::OnSizingDragLeft: only the new size changes (the outline
\* is drawn from it).
OnSizingDragLeft(off) ==
    /\ dragging # 0
    /\ m_controlPoints' = [m_controlPoints EXCEPT ![dragging].newSize =
                              CalculateNewSize(Distance(off), m_controlPoints[dragging])]
    /\ UNCHANGED <<m_points, m_originalPoints, m_boundWidth, m_boundHeight,
                   m_originalWidth, m_originalHeight, m_xpos, m_ypos,
                   m_rotation, m_selected, dragging, crashed, ops>>

\* wxPolygonShape::OnSizingEndDragLeft: release the mouse; with CTRL the
\* points become the baseline (CalculateBoundingBox, UpdateOriginalPoints),
\* otherwise SetSize to the new size; then CalculateBoundingBox,
\* CalculatePolygonCentre and ResetControlPoints.  Recompute and
\* Move(GetX(), GetY()) change nothing this model keeps.
OnSizingEndDragLeft(ctrl) ==
    LET ns  == m_controlPoints[dragging].newSize
        ps  == IF ctrl THEN m_points
               ELSE SetSize(m_points, m_originalPoints, ns[1], ns[2],
                            m_originalWidth, m_originalHeight)
        bb  == CalculateBoundingBox(ps)
        c   == PolygonCentre(ps)
        cps == Recentred(ps)
    IN  /\ dragging # 0
        /\ dragging' = 0
        /\ IF ctrl
           THEN /\ m_originalPoints' = UpdateOriginalPoints(ps)
                /\ m_originalWidth' = bb[1] /\ m_originalHeight' = bb[2]
           ELSE UNCHANGED <<m_originalPoints, m_originalWidth, m_originalHeight>>
        /\ m_boundWidth' = bb[1] /\ m_boundHeight' = bb[2]
        /\ m_points' = cps
        /\ m_xpos' = RAdd(m_xpos, c[1]) /\ m_ypos' = RAdd(m_ypos, c[2])
        /\ m_controlPoints' = ResetControlPoints(m_controlPoints, cps)
        /\ UNCHANGED <<m_rotation, m_selected, crashed, ops>>

Next ==
    \/ Select
    \/ Deselect
    \/ \E pos \in 0..Len(m_points) : AddPolygonPoint(pos)
    \/ \E pos \in 0..Len(m_points) : DeletePolygonPoint(pos)
    \/ \E c \in RotateCentres, theta \in Turns : Rotate(c[1], c[2], theta)
    \/ \E i \in DOMAIN m_controlPoints, off \in MouseOffsets : OnSizingBeginDragLeft(i, off)
    \/ \E off \in MouseOffsets : OnSizingDragLeft(off)
    \/ \E ctrl \in BOOLEAN : OnSizingEndDragLeft(ctrl)

Spec == Init /\ [][Next]_vars

-----------------------------------------------------------------------------
(* Properties *)

IsDouble(a) == a \in Int \X Int

TypeOK ==
    /\ m_points \in Seq([addr : Addr, x : Int \X Int, y : Int \X Int])
    /\ m_originalPoints \in Seq([x : Int \X Int, y : Int \X Int])
    /\ \A v \in {m_boundWidth, m_boundHeight, m_originalWidth,
                 m_originalHeight, m_xpos, m_ypos} : IsDouble(v)
    /\ m_rotation \in 0..3
    /\ m_selected \in BOOLEAN
    /\ m_controlPoints \in Seq([vertex : Addr, xoffset : Int \X Int,
                                yoffset : Int \X Int,
                                originalDistance : Int \X Int,
                                originalSize : (Int \X Int) \X (Int \X Int),
                                newSize : (Int \X Int) \X (Int \X Int)])
    /\ dragging \in 0..Len(m_controlPoints)
    /\ crashed \in BOOLEAN
    /\ ops \in 0..MaxOps

\* While the polygon is selected its control points are exactly its
\* vertices, in order: control point i points at the live wxRealPoint of
\* vertex i (not a freed or reused one) and sits at its offset.  This is
\* what AddPolygonPoint, DeletePolygonPoint, Rotate and the end of a resize
\* must each restore through MakeControlPoints or ResetControlPoints; when
\* it is not selected there are none.
ControlPointsTrackVertices ==
    IF m_selected
    THEN /\ Len(m_controlPoints) = Len(m_points)
         /\ \A i \in DOMAIN m_points :
               /\ m_controlPoints[i].vertex = m_points[i].addr
               /\ m_controlPoints[i].xoffset = m_points[i].x
               /\ m_controlPoints[i].yoffset = m_points[i].y
    ELSE m_controlPoints = <<>>

\* The baseline a resize scales from is finite and not flat.
ScalableBaseline ==
    /\ \A i \in DOMAIN m_originalPoints :
          IsFinite(m_originalPoints[i].x) /\ IsFinite(m_originalPoints[i].y)
    /\ \A v \in {m_originalWidth, m_originalHeight} : IsFinite(v) /\ v # R(0)

\* "Calculate what new size would be, at end of resize": a resize drag ended
\* without CTRL leaves the polygon with the bounding box CalculateNewSize
\* computed and the outline showed, whenever the baseline is scalable.
ResizeYieldsNewSize ==
    [][ (OnSizingEndDragLeft(FALSE) /\ ScalableBaseline)
          => LET ns == m_controlPoints[dragging].newSize
             IN  <<m_boundWidth', m_boundHeight'>> = <<RAbs(ns[1]), RAbs(ns[2])>> ]_vars

\* No sequence of calls makes AddPolygonPoint dereference a NULL node.
NoNullDereference == ~crashed


\* The squared distance from the point (ax, ay) of vertex p of a polygon
\* positioned at (px, py).
SqDistFrom(p, px, py, ax, ay) ==
    LET dx == RSub(RAdd(px, p.x), ax)
        dy == RSub(RAdd(py, p.y), ay)
    IN  RAdd(RMul(dx, dx), RMul(dy, dy))

\* "Rotate about the given axis by the given amount" (wxPolygonShape::Rotate):
\* a rotation moves every vertex on the canvas along a circle about the axis
\* (x, y), which the code takes in the polygon's own coordinates; the
\* CalculatePolygonCentre that follows shifts points and position together.
RotateKeepsAxisDistance ==
    [][\A a \in RotateCentres, t \in Turns :
         Rotate(a[1], a[2], t) =>
           LET ax == RAdd(m_xpos, R(a[1]))
               ay == RAdd(m_ypos, R(a[2]))
           IN  \A i \in DOMAIN m_points :
                 SqDistFrom(m_points'[i], m_xpos', m_ypos', ax, ay)
                   = SqDistFrom(m_points[i], m_xpos, m_ypos, ax, ay)]_vars

=============================================================================
