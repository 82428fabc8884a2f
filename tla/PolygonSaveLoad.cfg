\* Vertex edits and resizes that leave fractional coordinates, then a save and a load.
CONSTANTS
    Addr <- MCAddr
    InitPoints <- MCInitPoints
    MouseOffsets <- MCMouseOffsets
    RotateCentres <- MCOrigin
    Turns <- MCNoTurn
    MaxOps = 3
SPECIFICATION PSpec
PROPERTY LoadRestoresShape
