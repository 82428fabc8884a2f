\* Any four calls on two regions: setters, getters and copy construction.
CONSTANTS
    Regions <- MCRegions
    KnownColours <- MCKnownColours
    ColourNames <- MCColourNames
    ColourObjects <- MCColourObjects
    Fonts <- MCFonts
    Pairs <- MCPairs
    FormatModes <- MCFormatModes
    FormattedTexts <- MCFormattedTexts
    LineIds <- MCLineIds
    MaxOps = 4
SPECIFICATION Spec
PROPERTY ImplementsRegionStyle
INVARIANT LinesOwned
