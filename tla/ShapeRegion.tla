----------------------------- MODULE ShapeRegion -----------------------------
(***************************************************************************)
(* wxShapeRegion (basic2.cpp 1726-1878): the text regions of a shape.     *)
(* Besides its layout attributes a region holds a text colour name with a *)
(* lazily resolved colour object m_actualColourObject, and a pen colour   *)
(* name with a lazily created pen m_actualPenObject.  The setters of the  *)
(* names reset the caches; the getters fill them; the copy constructor    *)
(* copies every field, reading the source's colour through its getter,   *)
(* and copies each of the source's formatted text lines into a new       *)
(* wxShapeTextLine.  The lines live on the heap: ClearText and the        *)
(* destructor delete them, so each must belong to exactly one region.     *)
(* The lines are laid out by wxShape::FormatText, which is not in this    *)
(* repository; the region text and name, which only header code sets,    *)
(* are left out.                                                           *)
(***************************************************************************)
EXTENDS Integers, Sequences, FiniteSets, Functions, RegionColours

CONSTANTS
    Regions,        \* the regions, each last constructed by one constructor
    Fonts,          \* fonts SetFont may be given
    Pairs,          \* <<a, b>> pairs the two-argument setters may be given
    FormatModes,    \* modes SetFormatMode may be given
    ColourNames,    \* names SetColour(const wxString &) and SetPenColour take
    ColourObjects,  \* colour objects SetColour(const wxColour &) takes
    FormattedTexts, \* the sequences of line texts FormatText may lay out
    LineIds,        \* the addresses `new' may return for a wxShapeTextLine
    MaxOps          \* bound on the number of calls

VARIABLES
    region,         \* region[r]: the fields of region r
    ops,            \* calls made
    heap            \* heap[i]: the text of the line at address i, or FreeCell

vars == <<region, ops, heap>>

\* An address no live wxShapeTextLine occupies.
FreeCell == "free"


\* The fields the default constructor gives (g_oglNormalFont,
\* FORMAT_CENTRE_HORIZ | FORMAT_CENTRE_VERT and wxSOLID abstracted).
Default ==
    [attrs |-> [font |-> "normal", minSize |-> <<5, 5>>, size |-> <<0, 0>>,
                position |-> <<0, 0>>, proportions |-> <<-1, -1>>,
                formatMode |-> "centre"],
     textColour |-> "BLACK", actualColour |-> Invalid,
     penColour |-> "BLACK", actualPen |-> NULL, lines |-> <<>>]

Init ==
    /\ region = [r \in Regions |-> Default]
    /\ ops = 0
    /\ heap = [i \in LineIds |-> FreeCell]

\* Every call is one of the MaxOps the model allows.
Replace(r, g, h) ==
    /\ ops < MaxOps
    /\ ops' = ops + 1
    /\ region' = [region EXCEPT ![r] = g]
    /\ heap' = h

Call(r, f(_)) == Replace(r, f(region[r]), heap)

\* ClearText on a region with lines `ls': every line is deleted, and
\* deleting its wxNode detaches the node from m_formattedText.
FreeLines(ls, h) == [i \in LineIds |-> IF i \in Range(ls) THEN FreeCell ELSE h[i]]

\* The destructor: ClearText.
Destroy(g, h) == FreeLines(g.lines, h)

\* `new wxShapeTextLine' for each of the texts ts: as many free addresses.
FreeIds(h) == {i \in LineIds : h[i] = FreeCell}
NewIds(ts, h) == CHOOSE f \in [DOMAIN ts -> FreeIds(h)] : IsInjective(f)
Store(ids, ts, h) ==
    [i \in LineIds |-> LET at == {k \in DOMAIN ids : ids[k] = i}
                       IN  IF at = {} THEN h[i] ELSE ts[CHOOSE k \in at : TRUE]]
HeapRoom(ts, h) == Len(ts) <= Cardinality(FreeIds(h))

\* A new region built by the default constructor in place of region r,
\* which is deleted.
Construct(r) == Replace(r, Default, Destroy(region[r], heap))

ClearText(r) ==
    Replace(r, [region[r] EXCEPT !.lines = <<>>], FreeLines(region[r].lines, heap))

\* wxShape::FormatText: ClearText, then a new line for each text laid out.
FormatText(r, ts) ==
    LET h == FreeLines(region[r].lines, heap)
        ids == NewIds(ts, h)
    IN  /\ HeapRoom(ts, h)
        /\ Replace(r, [region[r] EXCEPT !.lines = ids], Store(ids, ts, h))

SetAttr(g, a, v) == [g EXCEPT !.attrs[a] = v]

SetFont(r, f) == Call(r, LAMBDA g : SetAttr(g, "font", f))
SetMinSize(r, p) == Call(r, LAMBDA g : SetAttr(g, "minSize", p))
SetSize(r, p) == Call(r, LAMBDA g : SetAttr(g, "size", p))
SetPosition(r, p) == Call(r, LAMBDA g : SetAttr(g, "position", p))
SetProportions(r, p) == Call(r, LAMBDA g : SetAttr(g, "proportions", p))
SetFormatMode(r, m) == Call(r, LAMBDA g : SetAttr(g, "formatMode", m))

\* Mutant: the name changes, the resolved colour is kept.
SetColourKeepingCache(r, n) ==
    Call(r, LAMBDA g : [g EXCEPT !.textColour = n])

\* SetColour(const wxString &): the name, and an invalid colour object.
SetColour(r, n) ==
    Call(r, LAMBDA g : [g EXCEPT !.textColour = n, !.actualColour = Invalid])

\* SetColour(const wxColour &): the colour object only.
SetColourObject(r, c) ==
    Call(r, LAMBDA g : [g EXCEPT !.actualColour = c])

\* The colour object after GetActualColourObject: looked up by name when
\* invalid, black when still invalid.
ActualColour(g) ==
    LET c1 == IF g.actualColour = Invalid THEN Find(g.textColour)
              ELSE g.actualColour
    IN  IF c1 = Invalid THEN "BLACK" ELSE c1

GetActualColourObject(r) ==
    Call(r, LAMBDA g : [g EXCEPT !.actualColour = ActualColour(g)])

SetPenColour(r, n) ==
    Call(r, LAMBDA g : [g EXCEPT !.penColour = n, !.actualPen = NULL])

\* The pen after GetActualPen: the cached one, none for an empty or
\* "Invisible" name (nothing is cached), else FindOrCreatePen's.
ActualPen(g) ==
    CASE g.actualPen # NULL                    -> g.actualPen
      [] g.penColour \in {"", "Invisible"}     -> NULL
      [] OTHER                                 -> g.penColour

GetActualPen(r) ==
    Call(r, LAMBDA g : [g EXCEPT !.actualPen = ActualPen(g)])

\* Mutant: the copy takes the source's line pointers.
CopyRegionSharingLines(s, d) ==
    LET src == [region[s] EXCEPT !.actualColour = ActualColour(region[s])]
    IN  /\ s # d
        /\ ops < MaxOps
        /\ ops' = ops + 1
        /\ region' = [region EXCEPT ![s] = src,
                                    ![d] = [src EXCEPT !.actualPen = NULL]]
        /\ heap' = Destroy(region[d], heap)

\* The copy constructor: region d is built as a copy of s, then the region
\* it replaces is deleted.  It reads the colour through s's
\* GetActualColourObject, which fills s's cache; the copy's pen is created
\* afresh; ClearText (on the still empty list) and a new wxShapeTextLine
\* with the x, y and text of each of s's lines, in order.
CopyRegion(s, d) ==
    LET src == [region[s] EXCEPT !.actualColour = ActualColour(region[s])]
        texts == [k \in DOMAIN src.lines |-> heap[src.lines[k]]]
        ids == NewIds(texts, heap)
    IN  /\ s # d
        /\ HeapRoom(texts, heap)
        /\ ops < MaxOps
        /\ ops' = ops + 1
        /\ region' = [region EXCEPT ![s] = src,
                                    ![d] = [src EXCEPT !.actualPen = NULL,
                                                       !.lines = ids]]
        /\ heap' = Destroy(region[d], Store(ids, texts, heap))

\* Every call the bound allows has been made.
CallsSpent ==
    /\ ops = MaxOps
    /\ UNCHANGED vars

Next ==
    \/ \E r \in Regions :
        \/ Construct(r)
        \/ \E f \in Fonts : SetFont(r, f)
        \/ \E p \in Pairs : \/ SetMinSize(r, p) \/ SetSize(r, p)
                            \/ SetPosition(r, p) \/ SetProportions(r, p)
        \/ \E m \in FormatModes : SetFormatMode(r, m)
        \/ \E n \in ColourNames : SetColour(r, n) \/ SetPenColour(r, n)
        \/ \E c \in ColourObjects : SetColourObject(r, c)
        \/ GetActualColourObject(r)
        \/ GetActualPen(r)
        \/ ClearText(r)
        \/ \E ts \in FormattedTexts : FormatText(r, ts)
        \/ \E s \in Regions : CopyRegion(s, r)
    \/ CallsSpent

Spec == Init /\ [][Next]_vars

-----------------------------------------------------------------------------
(* Properties *)

\* A region's style as RegionStyle sees it: the colour and the pen are the
\* ones GetActualColourObject and GetActualPen would return now.
StyleOf(g, h) ==
    [attrs |-> g.attrs, textColour |-> g.textColour, penColour |-> g.penColour,
     colour |-> ActualColour(g), pen |-> ActualPen(g),
     text |-> [k \in DOMAIN g.lines |-> h[g.lines[k]]]]

Abstract == INSTANCE RegionStyle WITH
    Layouts <- [font : Fonts \cup {Default.attrs.font},
                minSize : Pairs \cup {Default.attrs.minSize},
                size : Pairs \cup {Default.attrs.size},
                position : Pairs \cup {Default.attrs.position},
                proportions : Pairs \cup {Default.attrs.proportions},
                formatMode : FormatModes \cup {Default.attrs.formatMode}],
    Texts <- FormattedTexts,
    Fresh <- StyleOf(Default, [i \in LineIds |-> FreeCell]),
    style <- [r \in Regions |-> StyleOf(region[r], heap)]

\* The caches are invisible: every interleaving of setters, getters and
\* copies of two regions implements RegionStyle, so a region always shows
\* the colour its name (or the colour object last set) stands for and
\* draws with the pen of its pen colour, a getter that fills a cache
\* changes neither, and a copy constructed from a region shows what it
\* shows.
ImplementsRegionStyle == Abstract!Spec

\* The formatted text lines are owned: every line a region lists is a live
\* wxShapeTextLine, no line is listed by two regions (or twice), and every
\* live line is listed by some region.  A line listed by two regions would
\* be deleted by the ClearText or destructor of the first and then read by
\* the copy constructor or deleted again through the second; an unlisted
\* one is leaked.
LinesOwned ==
    LET listed == UNION {Range(region[r].lines) : r \in Regions}
    IN  /\ \A r \in Regions : IsInjective(region[r].lines)
        /\ \A r, q \in Regions :
               r # q => Range(region[r].lines) \cap Range(region[q].lines) = {}
        /\ listed = {i \in LineIds : heap[i] # FreeCell}

=============================================================================
