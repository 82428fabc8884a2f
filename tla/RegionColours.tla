---------------------------- MODULE RegionColours ----------------------------
(***************************************************************************)
(* The wxWidgets services wxShapeRegion resolves its colour and pen names *)
(* with, which are not part of this repository: wxTheColourDatabase->Find *)
(* and wxThePenList->FindOrCreatePen.  A colour object is identified with *)
(* the name of the colour it holds; a pen with the name of its colour     *)
(* (every region pen has width 1 and the style wxSOLID, which no code     *)
(* under src/ changes).                                                    *)
(***************************************************************************)
CONSTANTS
    KnownColours    \* the names the colour database knows, "BLACK" among them

\* wxColour() : a colour object that is not IsOk().
Invalid == "invalid colour"

\* A NULL wxPen pointer.
NULL == "no pen"

\* wxTheColourDatabase->Find(name): the colour, or an invalid one.
Find(name) == IF name \in KnownColours THEN name ELSE Invalid

\* The colour a region with text colour `name' and no colour object shows:
\* the database colour, or black (* wxBLACK).
ResolveName(name) == IF Find(name) # Invalid THEN Find(name) ELSE "BLACK"

\* The pen a region with pen colour `name' draws its boundary with: none for
\* an empty name or "Invisible", else the pen FindOrCreatePen gives.
PenFor(name) == IF name \in {"", "Invisible"} THEN NULL ELSE name

=============================================================================
