---------------------------- MODULE PolygonHitTest ----------------------------
(***************************************************************************)
(* wxPolygonShape::HitTest and PolylineHitTest (basic2.cpp 182-274): a    *)
(* point is taken to be inside the polygon when each of four rays of      *)
(* length 1000 from it (north, east, south, west) crosses the polygon's   *)
(* outline.  The crossing test is oglCheckLineIntersection, which is      *)
(* declared in ogl/misc.h and defined by the OGL library outside this     *)
(* repository; it is modelled after that definition.  The attachment     *)
(* search after a hit (276-298) needs GetAttachmentPositionEdge of the   *)
(* base class, which is not under src/, and is left out.                  *)
(***************************************************************************)
EXTENDS PolygonShape

CONSTANTS
    HitPoints,          \* the points <<x, y>> (canvas coordinates) HitTest is asked about
    PerimeterTargets    \* the far ends <<x2, y2>> of lines GetPerimeterPoint is asked about

RGe(a, b) == IsFinite(a) /\ IsFinite(b) /\ ~RLt(a, b)

\* |v| < 0.005, the tolerance oglCheckLineIntersection treats as zero.
NearZero(v) == RLt(Frac(-1, 200), v) /\ RLt(v, Frac(1, 200))

\* oglCheckLineIntersection(x1, y1, x2, y2, x3, y3, x4, y4, &ratio1, ...):
\* the fraction of the way along p1-p2 at which it crosses the segment
\* p3-p4, or 1.0 when it does not (parallel lines, a crossing outside the
\* open segment p1-p2, or outside p3-p4 counted from p3 inclusive to p4
\* exclusive).
LineRatio(p1, p2, p3, p4) ==
    LET x1 == p1[1]  y1 == p1[2]  x2 == p2[1]  y2 == p2[2]
        x3 == p3[1]  y3 == p3[2]  x4 == p4[1]  y4 == p4[2]
        den == RSub(RMul(RSub(y4, y3), RSub(x2, x1)), RMul(RSub(y2, y1), RSub(x4, x3)))
        num == RAdd(RMul(RSub(x3, x1), RSub(y4, y3)), RMul(RSub(x4, x3), RSub(y1, y3)))
        lc  == IF NearZero(den) THEN R(-1) ELSE RDiv(num, den)
        k   == IF NearZero(RSub(y4, y3))
               THEN RDiv(RAdd(RSub(x1, x3), RMul(lc, RSub(x2, x1))), RSub(x4, x3))
               ELSE RDiv(RAdd(RSub(y1, y3), RMul(lc, RSub(y2, y1))), RSub(y4, y3))
    IN  IF /\ RLt(lc, R(1)) /\ RLt(R(0), lc)
           /\ RGe(k, R(0)) /\ RLt(k, R(1))
        THEN lc ELSE R(1)

\* Mutant: the implicit closing edge is never tried.
PolylineEdgesOpen(xy) ==
    {<<xy[i - 1], xy[i]>> : i \in 2..Len(xy)}

\* The edges PolylineHitTest tries: each vertex to the next, and the
\* implicit closing edge unless the last vertex equals the first.
PolylineEdges(xy) ==
    LET n == Len(xy) IN
    {<<xy[i - 1], xy[i]>> : i \in 2..n}
      \cup (IF n > 0 /\ xy[1] # xy[n] THEN {<<xy[n], xy[1]>>} ELSE {})

\* PolylineHitTest(n, xvec, yvec, x1, y1, x2, y2): some edge crosses the
\* segment from a to b.  (With no vertices it reads xvec[0] past the end
\* of the array; whatever it reads, it compares it with itself and tries
\* no edge, so the answer is FALSE.)
PolylineHitTest(xy, a, b) ==
    \E e \in PolylineEdges(xy) : LineRatio(a, b, e[1], e[2]) # R(1)

\* The vertices in canvas coordinates, as HitTest copies them.
CanvasPoints ==
    [i \in DOMAIN m_points |-> <<RAdd(m_points[i].x, m_xpos), RAdd(m_points[i].y, m_ypos)>>]

\* The ends of the four rays from (x, y).
RayEnds(p) ==
    {<<p[1], RSub(p[2], R(1000))>>, <<RAdd(p[1], R(1000)), p[2]>>,
     <<p[1], RAdd(p[2], R(1000))>>, <<RSub(p[1], R(1000)), p[2]>>}

\* isContained: HitTest's answer before the attachment search.
HitTest(p) ==
    \A e \in RayEnds(p) : PolylineHitTest(CanvasPoints, p, e)

\* oglFindEndForPolyline(n, xvec, yvec, x1, y1, x2, y2, &x3, &y3), defined by
\* the OGL library: the point of the line a-b at the least ratio
\* oglCheckLineIntersection gives over the edges PolylineHitTest also tries
\* (1.0, the end b, when no edge crosses it).
FindEndForPolyline(xy, a, b) ==
    LET ratios == {LineRatio(a, b, e[1], e[2]) : e \in PolylineEdges(xy)} \cup {R(1)}
        r == CHOOSE q \in ratios : \A s \in ratios : ~RLt(s, q)
    IN  <<RAdd(a[1], RMul(RSub(b[1], a[1]), r)), RAdd(a[2], RMul(RSub(b[2], a[2]), r))>>

\* Mutant: the vertex is taken whichever side of y1 it and y2 lie on.
VerticalVerticesAnySide(a, b) ==
    {i \in DOMAIN m_points : m_points[i].x = R(0) /\ m_points[i].y # R(0)}

\* The heuristic's candidates: the vertices on the vertical through the
\* shape's position, below it when y2 > y1, above it when y2 < y1.
VerticalVertices(a, b) ==
    {i \in DOMAIN m_points :
        /\ m_points[i].x = R(0)
        /\ \/ RLt(a[2], b[2]) /\ RLt(R(0), m_points[i].y)
           \/ RLt(b[2], a[2]) /\ RLt(m_points[i].y, R(0))}

\* GetPerimeterPoint(x1, y1, x2, y2, &x3, &y3), with a = (x1, y1) and
\* b = (x2, y2).  m_attachmentMode is ATTACHMENT_MODE_NONE, wxShape's
\* default, which no code under src/ changes: for a vertical line the first
\* candidate vertex, else oglFindEndForPolyline over the canvas points.
GetPerimeterPoint(a, b) ==
    LET V == VerticalVertices(a, b)
    IN  IF a[1] = b[1] /\ V # {}
        THEN CanvasPoints[CHOOSE i \in V : \A j \in V : i <= j]
        ELSE FindEndForPolyline(CanvasPoints, a, b)

-----------------------------------------------------------------------------
(* Properties *)

Cross(o, a, b) ==
    RSub(RMul(RSub(a[1], o[1]), RSub(b[2], o[2])), RMul(RSub(a[2], o[2]), RSub(b[1], o[1])))

\* The outline's edges, closing edge included, of non-zero length.
Sides(xy) == {e \in PolylineEdges(xy) \cup {<<xy[Len(xy)], xy[1]>>} : e[1] # e[2]}

\* Every vertex lies on one side of (or on) every side's line.
IsConvex(xy) ==
    \/ \A e \in Sides(xy), i \in DOMAIN xy : RGe(Cross(e[1], e[2], xy[i]), R(0))
    \/ \A e \in Sides(xy), i \in DOMAIN xy : RGe(R(0), Cross(e[1], e[2], xy[i]))

\* The polygon is not flat: some vertex is off some side's line.
HasArea(xy) == \E e \in Sides(xy), i \in DOMAIN xy : Cross(e[1], e[2], xy[i]) # R(0)

\* p lies strictly inside the convex polygon xy: strictly on the inner
\* side of every side.
StrictlyInside(xy, p) ==
    \/ \A e \in Sides(xy) : RLt(R(0), Cross(e[1], e[2], p))
    \/ \A e \in Sides(xy) : RLt(Cross(e[1], e[2], p), R(0))

AllFinite(xy) == \A i \in DOMAIN xy : IsFinite(xy[i][1]) /\ IsFinite(xy[i][2])

\* "Obviously we'd need more radiating lines to be sure of correct results
\* for very strange (concave) shapes" (HitTest): on every convex polygon the
\* edits, rotations and resizes reach, the four rays find exactly the points
\* strictly inside it, whether a ray passes through a vertex, runs along a
\* side, or is crossed only by the implicit closing edge.
HitTestFindsInterior ==
    LET xy == CanvasPoints IN
    Len(xy) >= 3 /\ AllFinite(xy) /\ HasArea(xy) /\ IsConvex(xy)
      => \A p \in HitPoints : HitTest(p) <=> StrictlyInside(xy, p)

\* r lies on the segment from p to q.
OnSegment(p, q, r) ==
    /\ Cross(p, q, r) = R(0)
    /\ RGe(r[1], RMin(p[1], q[1])) /\ RGe(RMax(p[1], q[1]), r[1])
    /\ RGe(r[2], RMin(p[2], q[2])) /\ RGe(RMax(p[2], q[2]), r[2])

\* "Assume (x1, y1) is centre of box (most generally, line end at box)"
\* (GetPerimeterPoint): when the shape's position lies inside a convex
\* polygon, the point returned for a line from it to any point not inside
\* the polygon is where that line leaves the polygon: on the line and on
\* the outline, whether found by the vertical-line heuristic or by
\* oglFindEndForPolyline.
PerimeterPointOnOutline ==
    LET xy == CanvasPoints
        c == <<m_xpos, m_ypos>>
    IN  Len(xy) >= 3 /\ AllFinite(xy) /\ HasArea(xy) /\ IsConvex(xy)
          /\ StrictlyInside(xy, c)
        => \A t \in PerimeterTargets :
              ~StrictlyInside(xy, t) =>
                 LET q == GetPerimeterPoint(c, t)
                 IN  /\ OnSegment(c, t, q)
                     /\ \E e \in Sides(xy) : OnSegment(e[1], e[2], q)

=============================================================================
