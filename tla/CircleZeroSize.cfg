SPECIFICATION Spec
CONSTANTS
    Kind = "circle"
    InitSize <- MCCircleSize
    Mouse <- MCCircleMouse
    CentreResizeChoices <- MCNo
    AspectChoices <- MCYes
    FixedWidthChoices <- MCNo
    FixedHeightChoices <- MCNo
    ShiftChoices <- MCNo
    MaxDrags = 2
INVARIANT AllSizesFinite
