------------------------------ MODULE BoxShape ------------------------------
(***************************************************************************)
(* wxRectangleShape (and wxTextShape), wxEllipseShape and wxCircleShape   *)
(* beyond the resize drag of module ShapeResize (basic2.cpp 845-1200):     *)
(* the shape's default text region, whose size SetSize keeps equal to the *)
(* shape's (wxShape::SetDefaultRegionSize); SetCornerRadius;                *)
(* WriteAttributes and ReadAttributes, the latter called on the fresh     *)
(* shape the diagram loader creates in place of the saved one; and Copy   *)
(* into the fresh shape CreateNewCopy makes.  The attributes of the base  *)
(* class wxShape (position, regions, resize flags) are written, read and  *)
(* copied by code that is not under src/; position and regions are       *)
(* carried through the file or the copy, the flags are left as they are. *)
(***************************************************************************)
EXTENDS ShapeResize

CONSTANTS
    CornerRadii,      \* the radii SetCornerRadius may be given
    MaxCalls          \* bound on SetCornerRadius, WriteAttributes, ReadAttributes and Copy calls

VARIABLES
    m_cornerRadius,   \* wxRectangleShape::m_cornerRadius (0 for the other kinds)
    regionSize,       \* the size of the shape's one text region
    file,             \* <<>>, or <<the clause the last WriteAttributes wrote>>
    saved,            \* <<>>, or <<the shape as it was when it was written>>
    copy,             \* <<>>, or <<the shape the last Copy filled in>>
    calls             \* calls made

extra == <<m_cornerRadius, regionSize, file, saved, copy, calls>>
bvars == <<vars, extra>>

\* The fields of the shape a save, a load or a copy is about.
Geometry ==
    [x |-> m_xpos, y |-> m_ypos, width |-> m_width, height |-> m_height,
     corner |-> m_cornerRadius, region |-> regionSize]

\* The constructor (wxRectangleShape(w, h), wxEllipseShape(w, h),
\* wxCircleShape(d)): the size, no rounded corners, and SetDefaultRegionSize
\* giving the default region the shape's size.
BInit ==
    /\ Init
    /\ m_cornerRadius = R(0)
    /\ regionSize = <<R(InitSize[1]), R(InitSize[2])>>
    /\ file = <<>> /\ saved = <<>> /\ copy = <<>>
    /\ calls = 0

\* Begin and Drag events leave these fields alone.
BeginDrag(h, m, shift) == OnSizingBeginDragLeft(h, m, shift) /\ UNCHANGED extra
Drag(m, shift) == OnSizingDragLeft(m, shift) /\ UNCHANGED extra

\* Mutant: SetSize without SetDefaultRegionSize.
EndDragKeepingRegion ==
    /\ OnSizingEndDragLeft
    /\ UNCHANGED extra

\* End calls the kind's SetSize, which ends with SetDefaultRegionSize: the
\* region is given GetBoundingBoxMin, the size SetSize has just set.
EndDrag ==
    /\ OnSizingEndDragLeft
    /\ regionSize' = <<m_width', m_height'>>
    /\ UNCHANGED <<m_cornerRadius, file, saved, copy, calls>>

\* A call made from the diagram while no handle is being dragged.
Call ==
    /\ drag = NoDrag
    /\ calls < MaxCalls
    /\ calls' = calls + 1

SetCornerRadius(rad) ==
    /\ Kind = "rectangle"
    /\ Call
    /\ m_cornerRadius' = rad
    /\ UNCHANGED <<vars, regionSize, file, saved, copy>>

\* The clause WriteAttributes fills in: wxShape's attributes (position and
\* the region), x, y, width, height, and for a rectangle "corner" when the
\* radius is not 0.0.  An attribute that is not written is <<>>.
RectangleClausePositiveCorner ==
    [x |-> m_xpos, y |-> m_ypos, width |-> m_width, height |-> m_height,
     region |-> regionSize,
     corner |-> IF RLt(R(0), m_cornerRadius) THEN <<m_cornerRadius>> ELSE <<>>]

RectangleClause ==
    [x |-> m_xpos, y |-> m_ypos, width |-> m_width, height |-> m_height,
     region |-> regionSize,
     corner |-> IF m_cornerRadius # R(0) THEN <<m_cornerRadius>> ELSE <<>>]

EllipseClause ==
    [x |-> m_xpos, y |-> m_ypos, width |-> m_width, height |-> m_height,
     region |-> regionSize, corner |-> <<>>]

WriteAttributes ==
    /\ Call
    /\ file' = <<IF Kind = "rectangle" THEN RectangleClause ELSE EllipseClause>>
    /\ saved' = <<Geometry>>
    /\ UNCHANGED <<vars, m_cornerRadius, regionSize, copy>>

\* ReadAttributes into the fresh shape the loader constructs (radius 0.0):
\* wxShape reads the position and the regions, then width and height are
\* assigned, "corner" only when the clause has it, and, the shape having
\* one region, that region is given the size just read.
ReadAttributes ==
    /\ Call
    /\ file # <<>>
    /\ LET c == file[1] IN
       /\ m_xpos' = c.x /\ m_ypos' = c.y
       /\ m_width' = c.width /\ m_height' = c.height
       /\ m_cornerRadius' = IF c.corner # <<>> THEN c.corner[1] ELSE R(0)
       /\ regionSize' = <<c.width, c.height>>
    /\ UNCHANGED <<shape, sm, drag, drags, file, saved, copy>>

\* Copy into a fresh shape of the same class: wxShape::Copy copies the
\* position and the regions (by the wxShapeRegion copy constructor), then
\* the kind's Copy the size and, for a rectangle, the corner radius.
Copy ==
    /\ Call
    /\ copy' = <<Geometry>>
    /\ UNCHANGED <<vars, m_cornerRadius, regionSize, file, saved>>

\* Every drag and every call the bounds allow has been made.
AllSpent ==
    /\ drag = NoDrag /\ drags = MaxDrags /\ calls = MaxCalls
    /\ UNCHANGED bvars

BNext ==
    \/ \E h \in Handles, m \in Mouse, shift \in ShiftChoices : BeginDrag(h, m, shift)
    \/ \E m \in Mouse, shift \in ShiftChoices : Drag(m, shift)
    \/ EndDrag
    \/ \E rad \in CornerRadii : SetCornerRadius(rad)
    \/ WriteAttributes
    \/ ReadAttributes
    \/ Copy
    \/ AllSpent

BSpec == BInit /\ [][BNext]_bvars

-----------------------------------------------------------------------------
(* Properties *)

\* The region's text is laid out in a box the size of the shape: through
\* every resize drag (SetSize's SetDefaultRegionSize), every load
\* (ReadAttributes' "old file" region resize) and in every copy, the
\* default region has the size of the shape it belongs to.
RegionFitsShape ==
    /\ regionSize = <<m_width, m_height>>
    /\ \A i \in DOMAIN copy : copy[i].region = <<copy[i].width, copy[i].height>>

\* Loading what WriteAttributes wrote gives back the shape that was
\* written: position, size, corner radius (rounded or square, with the
\* "corner" attribute written only when it is not 0.0) and region size.
LoadRestoresBox ==
    [][ReadAttributes => Geometry' = saved[1]]_bvars

=============================================================================
