\* Vertex edits of a triangle down to the empty polygon, with selection and
\* resizes in between.  The crash of AddPolygonPoint on the empty polygon
\* ends the program, so terminal states are expected.
CONSTANTS
    Addr <- MCAddr
    InitPoints <- MCTriangle
    MouseOffsets <- MCOneOffset
    RotateCentres <- MCOrigin
    Turns <- MCNoTurn
    MaxOps = 4
    HitPoints <- MCHitPoints
    PerimeterTargets <- MCPerimeterTargets
SPECIFICATION Spec
INVARIANT HitTestFindsInterior
INVARIANT PerimeterPointOnOutline
CHECK_DEADLOCK FALSE
