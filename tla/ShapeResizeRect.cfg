\* A 4 x 2 rectangle under every combination of resize flags, SHIFT or not,
\* two drags, and three of SetCornerRadius, WriteAttributes, ReadAttributes
\* and Copy.
SPECIFICATION BSpec
CONSTANTS
    Kind = "rectangle"
    InitSize <- MCRectSize
    Mouse <- MCMouse
    CentreResizeChoices <- MCBoth
    AspectChoices <- MCBoth
    FixedWidthChoices <- MCBoth
    FixedHeightChoices <- MCNo
    ShiftChoices <- MCBoth
    MaxDrags = 2
    CornerRadii <- MCCornerRadii
    MaxCalls = 3
INVARIANT AllSizesFinite
INVARIANT RegionFitsShape
PROPERTY LoadRestoresBox
