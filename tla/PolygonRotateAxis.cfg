\* A quarter turn about an axis off the polygon's origin.
CONSTANTS
    Addr <- MCAddr
    InitPoints <- MCInitPoints
    MouseOffsets <- MCMouseOffsets
    RotateCentres <- MCOffAxis
    Turns <- MCQuarterTurns
    MaxOps = 1
    HitPoints <- MCHitPoints
    PerimeterTargets <- MCPerimeterTargets
SPECIFICATION Spec
PROPERTY RotateKeepsAxisDistance
