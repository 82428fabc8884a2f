\* Non-centring drags of an ellipse's handles to a point beyond its top-left
\* corner with SHIFT held: a diagonal drag with SHIFT keeps the aspect ratio.
SPECIFICATION Spec
CONSTANTS
    Kind = "ellipse"
    InitSize <- MCRectSize
    Mouse <- MCBeyondCornerMouse
    CentreResizeChoices <- MCNo
    AspectChoices <- MCNo
    FixedWidthChoices <- MCNo
    FixedHeightChoices <- MCNo
    ShiftChoices <- MCYes
    MaxDrags = 1
PROPERTY AnchorStaysFixed
