---------------------------- MODULE MCShapeRegion ----------------------------
(* Constants for checking ShapeRegion with TLC. *)
EXTENDS ShapeRegion

\* Two regions, so that one can be copied into the other.
MCRegions == {"r1", "r2"}

\* The database knows black and red; "Mauve" is a name it does not know.
MCKnownColours == {"BLACK", "RED"}

\* Text and pen colour names: a known one, an unknown one, and the two names
\* GetActualPen draws no pen for.
MCColourNames == {"BLACK", "RED", "Mauve", "Invisible", ""}

\* SetColour(const wxColour &) with a valid colour and with wxColour().
MCColourObjects == {"RED", Invalid}

\* One value other than the default for each layout attribute.
MCFonts == {"swiss"}
MCPairs == {<<1, 2>>}
MCFormatModes == {"none"}

\* FormatText lays the text out in two lines; six line addresses are enough
\* for both regions' lines and a copy built before the region it replaces
\* is deleted.
MCFormattedTexts == {<<"a", "b">>}
MCLineIds == 1..6

=============================================================================
