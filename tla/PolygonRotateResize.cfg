\* A quarter turn followed by a resize.
CONSTANTS
    Addr <- MCAddr
    InitPoints <- MCInitPoints
    MouseOffsets <- MCMouseOffsets
    RotateCentres <- MCOrigin
    Turns <- MCQuarterTurns
    MaxOps = 2
    HitPoints <- MCHitPoints
    PerimeterTargets <- MCPerimeterTargets
SPECIFICATION Spec
PROPERTY ResizeYieldsNewSize
