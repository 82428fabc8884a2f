\* Point edits of a triangle, enough of them to delete every vertex.
CONSTANTS
    Addr <- MCAddr
    InitPoints <- MCTriangle
    MouseOffsets <- MCOneOffset
    RotateCentres <- MCOrigin
    Turns <- MCNoTurn
    MaxOps = 4
    HitPoints <- MCHitPoints
    PerimeterTargets <- MCPerimeterTargets
SPECIFICATION Spec
INVARIANT NoNullDereference
