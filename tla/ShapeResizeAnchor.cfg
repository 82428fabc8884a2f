SPECIFICATION Spec
CONSTANTS
    Kind = "ellipse"
    InitSize <- MCRectSize
    Mouse <- MCMouse
    CentreResizeChoices <- MCBoth
    AspectChoices <- MCNo
    FixedWidthChoices <- MCNo
    FixedHeightChoices <- MCNo
    ShiftChoices <- MCNo
    MaxDrags = 3
PROPERTY ImplementsResizeOutline
PROPERTY AnchorStaysFixed
