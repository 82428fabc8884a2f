\* A centre-resize drag of a circle's corner handle to a point off its
\* diagonal, without SHIFT.
SPECIFICATION Spec
CONSTANTS
    Kind = "circle"
    InitSize <- MCCircleSize
    Mouse <- MCOffDiagonalMouse
    CentreResizeChoices <- MCYes
    AspectChoices <- MCYes
    FixedWidthChoices <- MCNo
    FixedHeightChoices <- MCNo
    ShiftChoices <- MCNo
    MaxDrags = 1
INVARIANT CircleKeepsAspect
