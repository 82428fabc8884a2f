----------------------------- MODULE RegionStyle -----------------------------
(***************************************************************************)
(* What a wxShapeRegion promises its shape, with no caches: each region    *)
(* has its layout attributes, a text colour name and a pen colour name,    *)
(* and shows the colour and draws with the pen those names (or a colour    *)
(* object set directly) stand for, and the text lines it was last laid   *)
(* out in.  Reading the colour or the pen changes nothing; a copy has     *)
(* every attribute, colour, pen and line of its source.                   *)
(***************************************************************************)
EXTENDS RegionColours

CONSTANTS
    Regions,        \* the regions
    Layouts,        \* the records of layout attributes a region may have
    Fresh,          \* the style of a newly constructed region
    ColourNames,    \* the names a text or pen colour may be given
    ColourObjects,  \* the colour objects SetColour(const wxColour &) may be given
    Texts           \* the sequences of lines a region's text may be laid out in

VARIABLE style      \* style[r]: the attributes, names, colour, pen and text of r

Init == style = [r \in Regions |-> Fresh]

\* A layout setter gives the region other layout attributes (any of
\* Layouts; stated of the new attributes rather than by enumerating them).
SetLayout(r) ==
    /\ style' = [style EXCEPT ![r].attrs = style'[r].attrs]
    /\ style'[r].attrs \in Layouts

SetColourName(r, n) ==
    style' = [style EXCEPT ![r].textColour = n, ![r].colour = ResolveName(n)]

SetColourObject(r, c) ==
    style' = [style EXCEPT ![r].colour = IF c # Invalid THEN c
                                         ELSE ResolveName(style[r].textColour)]

SetPenColour(r, n) ==
    style' = [style EXCEPT ![r].penColour = n, ![r].pen = PenFor(n)]

\* The text is laid out again, or cleared.
SetText(r) ==
    \E t \in Texts \cup {<<>>} : style' = [style EXCEPT ![r].text = t]

\* A region constructed afresh has the fresh style.
Create(r) ==
    style' = [style EXCEPT ![r] = Fresh]

Copy(s, d) ==
    /\ s # d
    /\ style' = [style EXCEPT ![d] = style[s]]

Next ==
    \E r, s \in Regions :
        \/ SetLayout(r)
        \/ \E n \in ColourNames : SetColourName(r, n) \/ SetPenColour(r, n)
        \/ \E c \in ColourObjects : SetColourObject(r, c)
        \/ SetText(r)
        \/ Create(r)
        \/ Copy(s, r)

Spec == Init /\ [][Next]_style

=============================================================================
