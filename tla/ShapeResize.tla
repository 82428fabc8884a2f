----------------------------- MODULE ShapeResize -----------------------------
(***************************************************************************)
(* The generic resize drag of the OGL shapes (basic2.cpp): a wxControlPoint *)
(* handle forwards its Begin/Drag/End events to wxShape::OnSizingBegin-    *)
(* DragLeft, OnSizingDragLeft and OnSizingEndDragLeft, which keep the drag *)
(* geometry in the class statics wxControlPoint::sm_controlPointDrag* and  *)
(* end by calling the shape's SetSize (wxRectangleShape, wxTextShape,      *)
(* wxEllipseShape, wxCircleShape) and Move.  One shape is modelled; its    *)
(* kind is a constant.  The eight handles are the directions from the      *)
(* shape's centre that wxShape::MakeControlPoints places them at.          *)
(***************************************************************************)
EXTENDS Integers, Rational

CONSTANTS
    Kind,                 \* "rectangle" (also wxTextShape), "ellipse" or "circle"
    InitSize,             \* <<width, height>> given to the constructor
    Mouse,                \* the mouse positions <<x, y>> a drag event may carry
    CentreResizeChoices,  \* the values wxShape::GetCentreResize() may have
    AspectChoices,        \* ... GetMaintainAspectRatio() (a circle forces TRUE)
    FixedWidthChoices,    \* ... GetFixedWidth()
    FixedHeightChoices,   \* ... GetFixedHeight()
    ShiftChoices,         \* whether KEY_SHIFT is in the keys of an event
    MaxDrags              \* bound on the number of drags begun

VARIABLES
    m_xpos, m_ypos,       \* the shape's centre
    m_width, m_height,    \* its size (GetBoundingBoxMin)
    shape,                \* its resize flags
    sm,                   \* the class statics sm_controlPointDrag*
    drag,                 \* the handle being dragged, or NoDrag
    drags                 \* drags begun so far

vars == <<m_xpos, m_ypos, m_width, m_height, shape, sm, drag, drags>>

NoDrag == [sx |-> 0, sy |-> 0]

\* The handles of wxShape::MakeControlPoints, as directions from the centre.
Handles == {h \in [sx : {-1, 0, 1}, sy : {-1, 0, 1}] : h # NoDrag}

\* CONTROL_POINT_VERTICAL (top and bottom middle), _HORIZONTAL (left and
\* right middle) and _DIAGONAL (corners).
HandleType(h) ==
    IF h.sx = 0 THEN "vertical" ELSE IF h.sy = 0 THEN "horizontal" ELSE "diagonal"

CONTROL_POINT_SIZE == 6

Half(a) == RDiv(a, R(2))

\* wxControlPoint::OnDraw puts the handle at the shape's position plus its
\* offset; the offsets lie CONTROL_POINT_SIZE + 2 outside the bounding box.
PtX(h) == RAdd(m_xpos, RMul(R(h.sx), Half(RAdd(m_width, R(CONTROL_POINT_SIZE + 2)))))
PtY(h) == RAdd(m_ypos, RMul(R(h.sy), Half(RAdd(m_height, R(CONTROL_POINT_SIZE + 2)))))

StaticsInit ==
    [startX |-> R(0), startY |-> R(0), startWidth |-> R(0), startHeight |-> R(0),
     endWidth |-> R(0), endHeight |-> R(0), posX |-> R(0), posY |-> R(0)]

Init ==
    /\ m_xpos = R(0) /\ m_ypos = R(0)
    /\ m_width = R(InitSize[1]) /\ m_height = R(InitSize[2])
    /\ shape \in [centreResize : CentreResizeChoices,
                  maintainAspect : IF Kind = "circle" THEN {TRUE} ELSE AspectChoices,
                  fixedWidth : FixedWidthChoices, fixedHeight : FixedHeightChoices]
    /\ sm = StaticsInit
    /\ drag = NoDrag
    /\ drags = 0


(***************************************************************************)
(* SetSize of each kind.  wxRectangleShape clamps to at least 1.0;         *)
(* wxEllipseShape (and so wxCircleShape) takes the size as given.          *)
(***************************************************************************)
RectangleSetSizeUnclamped(x, y) == <<x, y>>

RectangleSetSize(x, y) == <<RMax(x, R(1)), RMax(y, R(1))>>

EllipseSetSize(x, y) == <<x, y>>

SetSize(x, y) ==
    IF Kind = "rectangle" THEN RectangleSetSize(x, y) ELSE EllipseSetSize(x, y)

(***************************************************************************)
(* The outline computation shared by OnSizingBeginDragLeft and             *)
(* OnSizingDragLeft: from the statics st, the dragged handle h, the mouse  *)
(* (mx, my) and the SHIFT key, the new statics.  `below' is the test the   *)
(* diagonal aspect case makes: pt->GetY() > startY in Begin, GetY() >     *)
(* startY in Drag.  bound_x, bound_y are the current size.                 *)
(***************************************************************************)
CentreOutline(st, h, mx, my, shift) ==
    LET t == HandleType(h)
        asp == shape.maintainAspect
        w0 == RMul(R(2), RAbs(RSub(mx, m_xpos)))
        h0 == RMul(R(2), RAbs(RSub(my, m_ypos)))
        w1 == CASE t = "vertical" /\ asp -> RMul(m_width, RDiv(h0, m_height))
                [] t = "vertical"        -> m_width
                [] OTHER                 -> w0
        h1 == CASE t = "horizontal" /\ asp   -> RMul(m_height, RDiv(w0, m_width))
                [] t = "horizontal"          -> m_height
                [] t = "diagonal" /\ shift   -> RMul(m_height, RDiv(w0, m_width))
                [] OTHER                     -> h0
    IN [st EXCEPT !.endWidth = IF shape.fixedWidth THEN m_width ELSE w1,
                  !.endHeight = IF shape.fixedHeight THEN m_height ELSE h1]

CornerOutline(st, h, mx, my, shift, below) ==
    LET t == HandleType(h)
        asp == shape.maintainAspect
        x1 == RMin(st.startX, mx)
        x2 == RMax(st.startX, mx)
        y1 == RMin(st.startY, my)
        y2 == RMax(st.startY, my)
        newH == RMul(RSub(x2, x1), RDiv(st.startHeight, st.startWidth))
        aspDiag == t = "diagonal" /\ (shift \/ asp)
        newX1 == IF t = "vertical" THEN st.startX ELSE x1
        newX2 == IF t = "vertical" THEN RAdd(st.startX, st.startWidth) ELSE x2
        newY1 == CASE t = "horizontal"        -> st.startY
                   [] aspDiag /\ ~below       -> RSub(y2, newH)
                   [] OTHER                   -> y1
        newY2 == CASE t = "horizontal"        -> RAdd(st.startY, st.startHeight)
                   [] aspDiag /\ below        -> RAdd(y1, newH)
                   [] OTHER                   -> y2
        w0 == RSub(newX2, newX1)
        h0 == RSub(newY2, newY1)
        w1 == IF t = "vertical" /\ asp THEN RMul(m_width, RDiv(h0, m_height)) ELSE w0
        h1 == IF t = "horizontal" /\ asp THEN RMul(m_height, RDiv(w1, m_width)) ELSE h0
    IN [st EXCEPT !.posX = RAdd(newX1, Half(w1)),
                  !.posY = RAdd(newY1, Half(h1)),
                  !.endWidth = IF shape.fixedWidth THEN m_width ELSE w1,
                  !.endHeight = IF shape.fixedHeight THEN m_height ELSE h1]

Outline(st, h, mx, my, shift, below) ==
    IF shape.centreResize THEN CentreOutline(st, h, mx, my, shift)
    ELSE CornerOutline(st, h, mx, my, shift, below)

\* The 'opposite corner' Begin records as the stationary point.
DragStartSameSide(h) ==
    [startX |-> IF h.sx = 0 THEN RSub(m_xpos, Half(m_width)) ELSE RAdd(m_xpos, RMul(R(h.sx), Half(m_width))),
     startY |-> IF h.sy = 0 THEN RSub(m_ypos, Half(m_height)) ELSE RAdd(m_ypos, RMul(R(h.sy), Half(m_height)))]

DragStart(h) ==
    LET sx == IF RLt(PtX(h), m_xpos) THEN RAdd(m_xpos, Half(m_width))
              ELSE RSub(m_xpos, Half(m_width))
        sy == IF RLt(PtY(h), m_ypos) THEN RAdd(m_ypos, Half(m_height))
              ELSE RSub(m_ypos, Half(m_height))
    IN [startX |-> IF HandleType(h) = "vertical" THEN RSub(m_xpos, Half(m_width)) ELSE sx,
        startY |-> IF HandleType(h) = "horizontal" THEN RSub(m_ypos, Half(m_height)) ELSE sy]

(***************************************************************************)
(* The handlers.                                                           *)
(***************************************************************************)
OnSizingBeginDragLeft(h, m, shift) ==
    /\ drag = NoDrag
    /\ drags < MaxDrags
    /\ LET a == DragStart(h)
           st == [sm EXCEPT !.startX = a.startX, !.startY = a.startY,
                            !.startWidth = m_width, !.startHeight = m_height]
       IN sm' = Outline(st, h, R(m[1]), R(m[2]), shift, RLt(st.startY, PtY(h)))
    /\ drag' = h
    /\ drags' = drags + 1
    /\ UNCHANGED <<m_xpos, m_ypos, m_width, m_height, shape>>

OnSizingDragLeft(m, shift) ==
    /\ drag # NoDrag
    /\ sm' = Outline(sm, drag, R(m[1]), R(m[2]), shift, RLt(sm.startY, m_ypos))
    /\ UNCHANGED <<m_xpos, m_ypos, m_width, m_height, shape, drag, drags>>

\* Mutant: End moves the shape back to its old centre, as if every resize
\* were about the centre.
OnSizingEndDragLeftAtCentre ==
    /\ drag # NoDrag
    /\ LET sz == SetSize(sm.endWidth, sm.endHeight)
       IN m_width' = sz[1] /\ m_height' = sz[2]
    /\ UNCHANGED <<m_xpos, m_ypos>>
    /\ drag' = NoDrag
    /\ UNCHANGED <<shape, sm, drags>>

\* Recompute, ResetControlPoints, SetSize, then Move to the outline's
\* centre (or to the unchanged centre when resizing about the centre).
OnSizingEndDragLeft ==
    /\ drag # NoDrag
    /\ LET sz == SetSize(sm.endWidth, sm.endHeight)
       IN m_width' = sz[1] /\ m_height' = sz[2]
    /\ IF shape.centreResize THEN UNCHANGED <<m_xpos, m_ypos>>
       ELSE m_xpos' = sm.posX /\ m_ypos' = sm.posY
    /\ drag' = NoDrag
    /\ UNCHANGED <<shape, sm, drags>>

\* Every drag the bound allows has been made.
DragsSpent ==
    /\ drag = NoDrag /\ drags = MaxDrags
    /\ UNCHANGED vars

Next ==
    \/ \E h \in Handles, m \in Mouse, shift \in ShiftChoices :
            OnSizingBeginDragLeft(h, m, shift)
    \/ \E m \in Mouse, shift \in ShiftChoices : OnSizingDragLeft(m, shift)
    \/ OnSizingEndDragLeft
    \/ DragsSpent

Spec == Init /\ [][Next]_vars

(***************************************************************************)
(* Properties.                                                             *)
(***************************************************************************)
TypeOK ==
    /\ \A v \in {m_xpos, m_ypos, m_width, m_height} : v \in Int \X Nat
    /\ drag \in Handles \cup {NoDrag}
    /\ drags \in 0..MaxDrags

\* The shape's position and size stay finite numbers however it is dragged:
\* no step of OnSizingDragLeft / OnSizingEndDragLeft divides by a zero
\* width or height the shape has been given.
AllSizesFinite ==
    \A v \in {m_xpos, m_ypos, m_width, m_height} : IsFinite(v)

Left == RSub(m_xpos, Half(m_width))
Right == RAdd(m_xpos, Half(m_width))
Top == RSub(m_ypos, Half(m_height))
Bottom == RAdd(m_ypos, Half(m_height))

\* The edge of the shape opposite the handle: its right edge for a handle on
\* the left, else its left edge (top and bottom likewise).
AnchorX(h) == IF h.sx = -1 THEN Right ELSE Left
AnchorY(h) == IF h.sy = -1 THEN Bottom ELSE Top

\* "Choose the 'opposite corner' of the object as the stationary point in
\* case this is non-centring resizing" (OnSizingBeginDragLeft): a drag that
\* does not resize about the centre ends, in OnSizingEndDragLeft, with the
\* edges opposite the dragged handle still edges of the shape.
AnchorStaysFixed ==
    [][drag # NoDrag /\ drag' = NoDrag /\ ~shape.centreResize
        => /\ AnchorX(drag) \in {Left', Right'}
           /\ AnchorY(drag) \in {Top', Bottom'}]_vars

\* wxCircleShape sets SetMaintainAspectRatio(TRUE): a circle stays a circle
\* through every resize drag.
CircleKeepsAspect ==
    Kind = "circle" => m_width = m_height


\* The outline OnSizingBeginDragLeft and OnSizingDragLeft draw
\* (OnDrawOutline): about the shape's centre when resizing about the centre,
\* else about the drag position the statics hold; of the end size.
DrawnOutline ==
    [x |-> IF shape.centreResize THEN m_xpos ELSE sm.posX,
     y |-> IF shape.centreResize THEN m_ypos ELSE sm.posY,
     w |-> sm.endWidth, h |-> sm.endHeight]

Abstract == INSTANCE ResizeOutline WITH
    box <- [x |-> m_xpos, y |-> m_ypos, w |-> m_width, h |-> m_height],
    outline <- DrawnOutline,
    dragging <- drag # NoDrag

\* The resize drag implements ResizeOutline: while a handle is dragged the
\* shape keeps its geometry, and OnSizingEndDragLeft (SetSize, then Move to
\* GetX()/GetY() or to sm_controlPointDragPosX/Y) gives the shape exactly
\* the outline the last Begin or Drag event drew.
ImplementsResizeOutline == Abstract!Spec

=============================================================================
