\* Edits, half-turn rotations about the centre and off it, resizes, saving
\* and loading of the quadrilateral, in any order.
CONSTANTS
    Addr <- MCAddr
    InitPoints <- MCInitPoints
    MouseOffsets <- MCMouseOffsets
    RotateCentres <- MCRotateCentres
    Turns <- MCHalfTurns
    MaxOps = 3
SPECIFICATION PSpec
INVARIANT TypeOK
INVARIANT ControlPointsTrackVertices
INVARIANT OriginalSizeMatchesOriginals
PROPERTY ResizeYieldsNewSize
