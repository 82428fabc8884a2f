# TLA+ models of the pgAdmin III OGL shapes

This directory holds TLA+ models of the shape code under `src/pgadmin/ogl/basic2.cpp`.
That code is the Object Graphics Library, which pgAdmin III's diagram views use. The
models are checked with TLC.

## The system

`basic2.cpp` implements these shape classes:

- **wxPolygonShape** (lines 36-839, 1555-1724).
  - State: a linked list `m_points` of heap-allocated `wxRealPoint` vertices, relative to the
    shape's position `(m_xpos, m_ypos)`.
  - A deep copy `m_originalPoints` with its bounding box `m_originalWidth/m_originalHeight`.
    It is the baseline that `SetSize` scales from.
  - The current bounding box `m_boundWidth/m_boundHeight`, the angle `m_rotation`, and the
    selection handles `m_controlPoints`.
  - Operations:
    - `AddPolygonPoint` and `DeletePolygonPoint`;
    - `SetSize`, `UpdateOriginalPoints`, `CalculateBoundingBox` and `CalculatePolygonCentre`;
    - `Rotate`;
    - `MakeControlPoints` and `ResetControlPoints`;
    - the resize drag `OnSizingBeginDragLeft` / `OnSizingDragLeft` / `OnSizingEndDragLeft`.
      It runs on a `wxPolygonControlPoint`, which holds a raw pointer `m_polygonVertex` into
      `m_points`.
- **wxControlPoint and wxShape::OnSizing\*** (1202-1551). This is the generic resize drag of
  every other shape. It keeps its drag geometry in class statics `sm_controlPointDrag*`.
- **wxRectangleShape / wxTextShape** (841-996). `SetSize` enforces a minimum size.
- **wxEllipseShape / wxCircleShape** (998-1200). A circle asks for its aspect ratio to be kept.
- **wxShapeRegion** (1726-1878). Text regions with a lazily cached colour and pen, and a list
  of formatted text lines (`wxShapeTextLine` objects on the heap).
- **hdLineTerminal** (`src/pgadmin/hotdraw/figures/hdLineTerminal.cpp`). Draws a line end and
  returns its "middle" point.

The headers `canvas.h`, `divided.h` and `misc.h` only declare things. Their implementations are
not in the repository.

The shapes interact only through a single-threaded wxWidgets event loop. A drag is one
Begin, then any number of Drag steps, then one End, on one control point of one shape. Between
drags the program may call any public operation: add or delete vertices, rotate, select or
deselect. The hard behaviour is therefore not thread interleaving. It is **sequences of legal
calls** whose state (baselines, centres, handle pointers) one call leaves stale for the next.
There are also **numeric edges**: a division by a zero width, and the ±10000 seeds.

The text regions (`wxShapeRegion`) are plain objects the shapes own. Their only subtlety is the
pair of caches `m_actualColourObject` and `m_actualPenObject`: the getters fill them, and the
setters of the colour and pen names must drop them. The other is ownership of the formatted text
lines: `ClearText` (called by the destructor and by `wxShape::FormatText`) deletes every line in
the list, so the copy constructor must give the copy new lines of its own.

## Modules

| module | models |
|---|---|
| `Rational` | Exact rational numbers standing in for doubles. `NonFinite` stands for inf/NaN: it absorbs every operation, and every comparison with it is false. |
| `PolygonShape` | wxPolygonShape and its control points, with the whole polygon resize drag and `Rotate`. |
| `PolygonPersistence` | Extends `PolygonShape` with `WriteAttributes`/`ReadAttributes` and `Copy`. The variable `clause` holds the last clause written, `copy` the last copy made. |
| `PolygonHitTest` | Extends `PolygonShape` with `HitTest`'s containment test, `PolylineHitTest`, `GetPerimeterPoint`, and the library functions `oglCheckLineIntersection` and `oglFindEndForPolyline`, as operators. |
| `MCPolygonShape`, `MCPolygonPersistence` | Constants for TLC: vertex addresses, the initial polygons, the mouse offsets, the rotation axes and angles, and the points asked about by HitTest. |
| `ShapeResize` | The generic resize drag (`wxShape::OnSizing*`, the statics `sm_controlPointDrag*`), and SetSize of the rectangle, ellipse and circle. |
| `ResizeOutline` | The abstract resize drag, with no geometry: an outline moves while the shape stays, and the end gives the shape the last outline. |
| `MCShapeResize` | Constants for TLC: shape sizes and mouse positions. |
| `BoxShape` | Extends `ShapeResize` with the rest of the rectangle, ellipse and circle: the size of the default text region, `SetCornerRadius`, `WriteAttributes`/`ReadAttributes` and `Copy`. |
| `MCBoxShape` | Constants for TLC: the rectangle, its mouse positions and a negative corner radius. |
| `ShapeRegion` | wxShapeRegion: both constructors, the destructor, `ClearText`, every setter under `src/`, the caching getters `GetActualColourObject` and `GetActualPen`, and the heap of text lines. |
| `RegionStyle` | The abstract region, with no caches and no heap: its colour and pen are what its names stand for, its text the lines it was last laid out in. |
| `RegionColours` | The colour database and pen list of wxWidgets that the region uses. They are outside the repository. |
| `MCShapeRegion` | Constants for TLC: two regions, colour names known, unknown and invisible, a two-line text and six line addresses. |

### PolygonShape: how it corresponds to the code

- **`m_points`** is a sequence of records `[addr, x, y]`. `addr` is the heap address of the
  `wxRealPoint`. A new vertex gets an address not currently in use (`UsedAddr`), so the address of
  a deleted vertex may be reused. This is the stale-pointer hazard of `m_polygonVertex`.
- **`m_controlPoints`** is a sequence of
  `[vertex, xoffset, yoffset, originalDistance, originalSize, newSize]`.
- **`dragging`** is the index of the control point under drag, or 0.
- **`crashed`** records a NULL dereference, and **`ops`** counts the bounded operations.
- **Actions.** Each action is a whole handler, including every state-changing call it makes:
  - `AddPolygonPoint(pos)` and `DeletePolygonPoint(pos)` include `UpdateOriginalPoints` and the
    control point rebuild.
  - `Rotate(x, y, theta)` includes `CalculatePolygonCentre`, `CalculateBoundingBox` and
    `ResetControlPoints`.
  - `OnSizingBeginDragLeft(i, offset)`, `OnSizingDragLeft(offset)` and
    `OnSizingEndDragLeft(ctrl)` cover the two End branches: Ctrl pressed (the drag becomes the
    new baseline) and plain (SetSize from the baseline).
  - `Select` (`MakeControlPoints`) and `Deselect`.
  - `Idle` models the mouse capture done at the end of Begin.
- **Doubles** are exact rationals. Rounding is not modelled.
- **Angles** are multiples of a quarter turn (`Turns`), with exact sine and cosine.
- **Mouse positions** are the shape's centre plus an offset from `MouseOffsets`. The offsets
  have integral length, so `sqrt` is exact.

### PolygonPersistence

- `WriteAttributes` stores the position, the rotation, the working points and the baseline
  points as doubles in `clause`.
- `ReadAttributes` loads the clause into the shape the diagram loader creates in place of the
  saved one. That shape is unselected and has no handles.
  - Every coordinate goes through `IntegerValue`: the C conversion to `long`, which truncates
    toward zero. A non-finite value becomes `LONG_MIN`.
  - The baseline size is computed by the scan seeded with ±1000 (`ReadExtent`).
  - `CalculateBoundingBox` runs at the end.
- The base class writes and reads the position and rotation. That code is not under `src/`, so
  they are carried over unchanged.
- `Copy` (`CopyFields`) fills in the shape `CreateNewCopy` makes. The copy gets new points with
  the coordinates of the working and baseline points, and the four sizes. The copy never changes
  afterwards, so `copy` holds its fields as values.

### PolygonHitTest

- `HitTest(p)` is HitTest's `isContained`. Each of the four rays of length 1000 from `p` must
  be crossed by the outline (`PolylineHitTest`).
- `PolylineEdges` lists the edges from each vertex to the next. It adds the implicit closing
  edge when the last vertex differs from the first.
- `LineRatio` is `oglCheckLineIntersection`, which is declared in `misc.h` and defined by the OGL
  library. It finds a crossing strictly inside the ray and in `[0, 1)` of the edge. Lines within
  0.005 of parallel are treated as parallel.
- `GetPerimeterPoint(a, b)` first tries the heuristic for a vertical line (`a` and `b` have the
  same x). It takes the first vertex whose relative x is exactly 0, on the side of `a` that `b`
  is on (`VerticalVertices`). Otherwise it calls `oglFindEndForPolyline`
  (`FindEndForPolyline`): the point of the line at the least crossing ratio over the same edges
  `PolylineHitTest` tries. That function is in the OGL library, not in the repository. It is
  modelled after its definition there. The attachment mode is `wxShape`'s default, NONE.
- The attachment search after a hit is not modelled. It uses `GetAttachmentPositionEdge` of
  `wxShape`, which is not under `src/`.

### ShapeResize: how it corresponds to the code

- **Variables.**
  - One shape, with `Kind` "rectangle" (which also covers wxTextShape), "ellipse" or "circle".
  - Its centre `m_xpos, m_ypos` and size `m_width, m_height`.
  - Its flags `shape`: centre resize, maintain aspect, fixed width, fixed height. `Init` chooses
    them from constant sets. A circle forces maintain aspect to TRUE, as its constructor does.
  - The eight statics `sm` (`sm_controlPointDragStartX` ... `sm_controlPointDragPosY`).
  - The handle under drag, `drag`.
- **Handles** are the eight directions `[sx, sy]` at which `wxShape::MakeControlPoints` places
  them. Their type is vertical, horizontal or diagonal. Their position (`PtX`, `PtY`) is the
  shape's centre plus half the size plus the control point margin, as `wxControlPoint::OnDraw`
  sets it.
- **Actions.**
  - `OnSizingBeginDragLeft(h, m, shift)` chooses the stationary corner (`DragStart`), records the
    start size, then computes the outline.
  - `OnSizingDragLeft(m, shift)` recomputes the outline.
  - `Outline` is `CentreOutline` or `CornerOutline`. It is the code the two handlers duplicate,
    with the one difference between the copies as the parameter `below`.
  - `OnSizingEndDragLeft` calls the kind's `SetSize` on the outline size, then moves the shape to
    the outline's centre (or keeps it, for a centre resize).
  - `DragsSpent` is the stuttering end once `MaxDrags` drags have been made.
- **Refinement.** `ShapeResize` implements `ResizeOutline` under this mapping:
  - `box` is the shape's centre and size;
  - `outline` is `DrawnOutline`, the rectangle `OnDrawOutline` is called with (lines 1328 and
    1379): centred on the shape for a centre resize, otherwise on `sm_controlPointDragPosX/Y`,
    with the end size;
  - `dragging` is `drag # NoDrag`.

### BoxShape

- `regionSize` is the size of the shape's one text region (`wxShapeRegion::SetSize`).
  - The constructor gives it the shape's size.
  - `EndDrag` is `OnSizingEndDragLeft` with the `SetDefaultRegionSize` that ends each kind's
    `SetSize`. That call gives the region `GetBoundingBoxMin`, the size just set.
- `SetCornerRadius(rad)` applies to the rectangle only.
- `WriteAttributes` writes the clause of the kind.
  - `RectangleClause` has x, y, width and height. It has "corner" only when the radius is not
    0.0.
  - `EllipseClause` has no corner.
  - The base class writes the position and the regions.
  - `saved` records the shape as it was written.
- `ReadAttributes` reads the clause into the fresh shape the loader constructs, whose radius is
  0.0.
  - Width and height are assigned, and "corner" only if the clause has it.
  - The shape has one region, so that region is given the size just read.
- `Copy` records the fields `wxShape::Copy` and the kind's `Copy` give the fresh copy.
- Every call happens between drags and counts toward `MaxCalls`. `AllSpent` stutters once both
  bounds are used.

### ShapeRegion: how it corresponds to the code

- `region[r]` holds the fields of region `r`:
  - the layout attributes;
  - `textColour` and its cache `actualColour`, a colour name or `Invalid` (`wxColour()`);
  - `penColour` and its cache `actualPen`, a pen or `NULL`.
  - `lines`, the addresses of its `wxShapeTextLine` objects, in list order.
- `heap[i]` is the text of the line at address `i` of `LineIds`, or `FreeCell`. A new line takes
  a free address (`NewIds`); an action that needs more addresses than are free is disabled.
- Colours and pens are identified with their colour names.
- Each setter and getter is an action, and so are `ClearText`, the default constructor
  (`Construct`) and the copy constructor (`CopyRegion`). A constructed region takes the place of
  region `r`, which is deleted: its destructor's `ClearText` frees its lines (`Destroy`). The copy
  is built before the region it replaces is deleted. Every action counts toward `MaxOps`, and
  `CallsSpent` stutters at the bound.
- `FormatText` stands for `wxShape::FormatText`, which is not in the repository: it calls
  `ClearText` and appends a new line for each line of text laid out.
- **Refinement.** `ShapeRegion` implements `RegionStyle`. Each region maps to its attributes and
  names, with colour and pen as the getters would return them now, and its text as the texts of
  the lines it lists (`StyleOf`).

## Runs

The table lists each run's MC module, cfg and result.

| run | MC module, cfg | result | shows |
|---|---|---|---|
| polygon_main | MCPolygonPersistence, PolygonMain.cfg | pass | A quadrilateral with half-turn rotations about the centre and off it, add/delete, select/deselect, both End branches, save, load and copy, MaxOps 3. Handles stay on live vertices, rebuilt on every edit while selected even when an address is reused, and reset after every rotation and End (`ControlPointsTrackVertices`). The baseline size SetSize divides by is the size of the baseline, in the shape and in a copy (`OriginalSizeMatchesOriginals`). A plain resize gives the size it computed (`ResizeYieldsNewSize`). |
| polygon_edits | MCPolygonShape, PolygonEdits.cfg | pass | A triangle under add/delete and resizes, MaxOps 4, reaching the empty polygon and the crash. On every convex polygon reached, HitTest finds exactly the points strictly inside it (`HitTestFindsInterior`). Whenever the shape's position is inside such a polygon, GetPerimeterPoint returns the point where a line from that position leaves the outline. The vertical-line heuristic is part of this, on the triangle and on the quadrilaterals made from it (`PerimeterPointOnOutline`). |
| polygon_rotate_resize | MCPolygonShape, PolygonRotateResize.cfg | violation | A quarter turn, then a resize with no mouse movement, turns a 2×4 polygon into 1×8 (`ResizeYieldsNewSize`). |
| polygon_rotate_axis | MCPolygonShape, PolygonRotateAxis.cfg | violation | A quarter turn about (1, 0) takes vertex (-2, -1) to (2, -1), not to (2, -3) (`RotateKeepsAxisDistance`). |
| polygon_empty | MCPolygonShape, PolygonEmpty.cfg | violation | Three deletes, then AddPolygonPoint dereferences NULL (`NoNullDereference`). |
| polygon_save_load | MCPolygonPersistence, PolygonSaveLoad.cfg | violation | AddPolygonPoint inserts the vertex (2, -1/2). After a save and a load it is (2, 0) (`LoadRestoresShape`). |
| rect_resize | MCBoxShape, ShapeResizeRect.cfg | pass | A 4×2 rectangle under every combination of centre resize, aspect and fixed width, with and without SHIFT. Two drags and three calls of SetCornerRadius, WriteAttributes, ReadAttributes and Copy. Position and size stay finite (`AllSizesFinite`), because the 1.0 minimum of SetSize keeps later divisions away from zero. The default region always has the shape's size, in the copy too (`RegionFitsShape`). A load gives back the shape that was written, including a negative (proportional) corner radius (`LoadRestoresBox`). |
| ellipse_anchor | MCShapeResize, ShapeResizeAnchor.cfg | pass | A 4×2 ellipse, plain and centre-resize drags of every handle, three drags. The drag implements `ResizeOutline` (`ImplementsResizeOutline`). A non-centring drag keeps the edges opposite the handle (`AnchorStaysFixed`). |
| aspect_anchor | MCShapeResize, AspectAnchor.cfg | violation | A SHIFT drag of the bottom-left handle of the 4×2 ellipse to (-3, -2) gives it the box from y = -2 to 1/2, so its top-right corner (2, -1) moves (`AnchorStaysFixed`). The mouse is fixed to (-3, -2) and SHIFT is always held, so TLC's shortest trace is this drag. |
| circle_centre_resize | MCShapeResize, CircleCentreResize.cfg | violation | With centre resize, dragging the top-left handle of the 2×2 circle to (3, 1) without SHIFT gives a 6×2 ellipse (`CircleKeepsAspect`). The mouse is fixed to (3, 1), so TLC's shortest trace is this drag. |
| circle_zero_size | MCShapeResize, CircleZeroSize.cfg | violation | A corner drag ending on the stationary x gives the circle size 0. The next drag computes 0/0 (`AllSizesFinite`). |
| region_caches | MCShapeRegion, ShapeRegion.cfg | pass | Any four calls on two regions implement `RegionStyle` (`ImplementsRegionStyle`): no cached colour or pen is ever stale, and a copy shows what its source shows, text included. Every live text line belongs to exactly one region, once, so no `ClearText` or destructor frees a line another region still lists, and none leaks (`LinesOwned`). |

**Bounds.**
- Four vertices and three operations are enough for each of these:
  - a delete followed by a resize;
  - a rotation followed by a resize;
  - an add while selected, followed by a drag;
  - an edit or a resize, then a save and a load.
- Three vertices and four operations reach the empty polygon, and every triangle and
  quadrilateral an edit makes of the triangle. With its one mouse offset, a resize there only
  re-centres the polygon; the resizes that change the size are in polygon_main.
- The offsets `<<1,0>>` and `<<0,2>>` make a drag both shrink and grow the shape.
- The points asked about by HitTest cover these cases for the triangle and the polygons made
  from it: inside; on a side; at a vertex; outside; on a ray through a vertex.
- The far ends given to GetPerimeterPoint cover these cases: straight above and below the
  position, with and without a vertex on that vertical; off every axis; at a vertex; on a side.
- rect_resize fixes "fixed height" to false, to stay within the time budget. Fixed width
  exercises the same code with the roles swapped. A negative corner radius is the one case in
  which "written when not 0.0" and "written when positive" differ.
- ShapeResize mouse points are chosen so that drags shrink, grow, cross the shape and end
  exactly on the stationary edge. The last of these is the zero-size case.
- Four region calls are enough for these sequences:
  - a getter fills a cache, a setter changes the name, and the getter runs again;
  - a copy is made and then read;
  - a region is laid out, copied, and then cleared or replaced.
  Six line addresses hold both regions' two lines and the two lines of a copy built before the
  region it replaces is deleted, so no copy is disabled for want of memory.
  The colour names include a known name, an unknown name (black is the fallback), and the two
  names for which GetActualPen returns no pen.
- Select and deselect are not counted as operations, so the budget never deadlocks the
  polygon model. `DragsSpent` and `CallsSpent` are the stuttering ends of the other two.
- The only terminal state is the crash. The run that reaches it sets `CHECK_DEADLOCK FALSE`.
- The project keeps at most twelve runs. Two violations met while modelling are not kept as
  runs, and are listed as hazards instead:
  - DeletePolygonPoint does not recentre, so the next resize moves the shape (`:396`);
  - a fixed-width rectangle slides during a corner drag (`:1368`).
  The division by a zero original width (`:308`) is conceded by the comment above SetSize and
  is not kept as a run either.

**Fairness.** None. The program reacts to user events, and nothing in it must eventually
happen. Every property is a safety property or a refinement of a safety specification.

**Mutants.** Each property of a passing run is broken by a plausible bug in a mapped definition:
- `UpdateOriginalPointsAliased` shares the vertex objects instead of copying them;
- `ResetControlPointsSkipped` omits the reset after a rotation;
- `SetSizeFromWorkingPoints` scales the current points instead of the baseline;
- `ReadOriginalSizeFromPoints` takes the loaded size from the working points;
- `PolylineEdgesOpen` never tries the closing edge;
- `RectangleSetSizeUnclamped` drops the 1.0 minimum of the rectangle;
- `DragStartSameSide` takes the stationary corner on the handle's own side;
- `OnSizingEndDragLeftAtCentre` leaves the shape at its old centre;
- `SetColourKeepingCache` changes the colour name but keeps the resolved colour;
- `CopyFieldsSwapped` gives the polygon copy the bounding box size as its baseline size;
- `VerticalVerticesAnySide` takes a vertex on the vertical whichever side the line goes;
- `EndDragKeepingRegion` omits SetDefaultRegionSize from SetSize;
- `RectangleClausePositiveCorner` writes "corner" only for a positive radius;
- `CopyRegionSharingLines` gives the region copy the source's line pointers instead of new lines.

## Findings

1. **Rotate leaves the size baseline stale** (`basic2.cpp:834`). `m_originalPoints` is rotated,
   but `m_originalWidth/m_originalHeight` are not. So the first resize after a quarter turn
   distorts the polygon.
2. **Rotate about an axis off the centre also translates** (`:809`). The new y has `+ x sin`
   where a rotation about (x, y) needs `- x sin`.
3. **Deleting every vertex** (`:388`). A later AddPolygonPoint dereferences NULL (`:364`).
4. **Saving and loading truncates coordinates** (`:637`). ReadAttributes reads every double back
   through `IntegerValue`, so a midpoint vertex moves.
5. **Circles lose their aspect under centre resize** (`:1316`). The diagonal case tests only
   SHIFT, not `GetMaintainAspectRatio()`.
6. **Zero-size ellipses and circles** (`:1351`). Nothing stops a drag from giving size 0. The
   next drag then divides by the zero start width.
7. **Aspect-keeping drags move the stationary corner** (`:1351`). The kept edge is chosen by the
   side the shape lies on, not the side the mouse is on.

## Not modelled

- Drawing (`OnDraw`, `OnDrawOutline`, `OnDrawContents`) only issues DC calls.
- `GetPerimeterPoint` of the rectangle, ellipse and circle only calls `oglFindEndForBox`,
  `oglDrawArcToEllipse` or `oglFindEndForCircle`. None of them is in the repository, and the
  methods have no logic of their own to check. (The polygon's has, and is modelled.)
- The attachments (`GetNumberOfAttachments`, `GetAttachmentPosition`, `AttachmentIsValid`) read
  `m_attachmentPoints` and the attachment mode of `wxShape`, which no code under `src/` sets.
- The ellipse's `GetAttachmentPosition` ends in `oglDrawArcToEllipse` or in `wxShape`'s.
  The attachment index hazard needs `wxLineShape`, which is not under `src/`.
- The polygon's text region. Its size goes stale after AddPolygonPoint, DeletePolygonPoint or
  Rotate, because only SetSize and Create call SetDefaultRegionSize (hazard `:381`). A quarter
  turn of a 2×4 polygon leaves a 2×4 region in a 4×2 box. Every run slot is taken, so this is
  recorded as a hazard and not as a violation run.
- The persistence and copy of the ellipse and circle are modelled in `BoxShape` but checked
  only for the rectangle kind, because the ellipse runs check the refinement, which has no
  load.
- `hdLineTerminal::draw` draws a line end and returns `copyA + |copyA - copyB|` as "middle".
  This is B when A < B and the reflection 2A - B otherwise, not the midpoint. Nothing in the
  repository calls it or says what "middle" should be, so there is no property to check.
- The canvas and divided-shape headers and `misc.h` have no implementation in the repository.
- Rounding of doubles, and angles that are not quarter turns.
- The 0.0001 zero-distance case at `:1663`, the ±10000 seeds at `:119`, the ±1000 seeds at
  `:676`, and the 1000-long rays at `:228`. They need numbers beyond TLC's 32-bit integers.
