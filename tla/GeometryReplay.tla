--------------------------- MODULE GeometryReplay ---------------------------
(***************************************************************************)
(* A photograph under geometry operations applied one after another. The   *)
(* stack is replayed from the left, so the geometry after an operation is  *)
(* the fold's step from the geometry before it.                            *)
(*                                                                         *)
(* The fold promises that an operation acts on what the user sees: the     *)
(* properties compare what the renderer shows before and after it.         *)
(***************************************************************************)
EXTENDS Geometry

CONSTANTS
  Width, Height,   \* of the photograph
  Angles,          \* the angles a slider may stop at
  Sizes,           \* the sizes <<w, h>> a resize may ask for
  Spans(_),        \* the <<start, length>> a crop may choose along n pixels
  MaxOperations    \* bound on the length of the stack

ASSUME PhotoAssumption == Width \in Nat \ {0} /\ Height \in Nat \ {0}
ASSUME AngleAssumption == \A a \in Angles : IsAngle(a) /\ WithinLimit(a)
ASSUME SizeAssumption == \A z \in Sizes : z[1] \in Nat \ {0} /\ z[2] \in Nat \ {0}
ASSUME LengthAssumption == MaxOperations \in Nat

VARIABLES
  geometry,     \* the fold of the operations so far
  length,       \* how many there are
  kept,         \* history: the part of the photograph the crops have kept
  turnedCrop    \* history: some crop was made at an angle

vars == <<geometry, length, kept, turnedCrop>>

Init ==
  /\ geometry = Whole(Width, Height)
  /\ length = 0
  /\ kept = Rect(0, 0, Width, Height)
  /\ turnedCrop = FALSE

\* The engine refuses an operation that would leave nothing to render.
Apply(candidate) ==
  /\ length < MaxOperations
  /\ ~IsEmpty(candidate.frame)
  /\ geometry' = candidate
  /\ length' = length + 1

Rotate(quarters) ==
  /\ Apply(Rotated(geometry, quarters))
  /\ UNCHANGED <<kept, turnedCrop>>

Flip(mirror) ==
  /\ Apply(Reorient(geometry, mirror))
  /\ UNCHANGED <<kept, turnedCrop>>

Straighten(angle) ==
  /\ Apply(Straightened(geometry, angle))
  /\ UNCHANGED <<kept, turnedCrop>>

Resize(w, h) ==
  /\ Apply(Resized(geometry, w, h))
  /\ UNCHANGED <<kept, turnedCrop>>

Crop(rect) ==
  /\ Apply(Cropped(geometry, rect))
  /\ kept' = geometry'.frame
  /\ turnedCrop' = (turnedCrop \/ geometry.angle # Upright)

\* The crop overlay keeps its rectangle inside the picture (clampRect).
Within(spans, n) ==
  {p \in spans : p[1] \in 0 .. n /\ p[2] \in 1 .. n /\ p[1] + p[2] <= n}

CropChoices ==
  {Rect(h[1], v[1], h[2], v[2]) :
     h \in Within(Spans(OutputWidth(geometry)), OutputWidth(geometry)),
     v \in Within(Spans(OutputHeight(geometry)), OutputHeight(geometry))}

Next ==
  \/ \E q \in 1 .. 3 : Rotate(q)
  \/ \E m \in {FlipHorizontal, FlipVertical} : Flip(m)
  \/ \E a \in Angles : Straighten(a)
  \/ \E z \in Sizes : Resize(z[1], z[2])
  \/ \E r \in CropChoices : Crop(r)

Spec == Init /\ [][Next]_vars

-----------------------------------------------------------------------------

RectType == [x : Int, y : Int, w : Nat \ {0}, h : Nat \ {0}]

GeometryType ==
  [frame : RectType, base : RectType, orientation : Orientations,
   angle : Angles \cup {Upright}, tw : Nat, th : Nat]

\* The frame and its base always keep a pixel, and a resize is of both axes.
TypeOK ==
  /\ geometry \in GeometryType
  /\ geometry.tw = 0 <=> geometry.th = 0
  /\ length \in 0 .. MaxOperations
  /\ kept \in RectType
  /\ turnedCrop \in BOOLEAN

\* A quarter turn shows every point it showed, a quarter turn further on: no
\* crop, angle, resize or mirror made before it changes what it turns.
\* (operation.cpp: kRotate, and Compose)
TurnsWhatIsShown ==
  Rotate(1) =>
    \A px \in 0 .. OutputWidth(geometry) : \A py \in 0 .. OutputHeight(geometry) :
      SamePoint(At(geometry', OutputHeight(geometry) - py, px), At(geometry, px, py))

\* A flip mirrors what is shown and nothing else. (operation.cpp: kFlip*)
MirrorsWhatIsShown ==
  /\ Flip(FlipHorizontal) =>
       \A px \in 0 .. OutputWidth(geometry) : \A py \in 0 .. OutputHeight(geometry) :
         SamePoint(At(geometry', OutputWidth(geometry) - px, py), At(geometry, px, py))
  /\ Flip(FlipVertical) =>
       \A px \in 0 .. OutputWidth(geometry) : \A py \in 0 .. OutputHeight(geometry) :
         SamePoint(At(geometry', px, OutputHeight(geometry) - py), At(geometry, px, py))

\* In an enlarged picture the choice may be less than half a pixel of the
\* photograph, which the crop keeps whole.
HalfAPixel(r) ==
  /\ 2 * r.w * NaturalWidth(geometry) >= OutputWidth(geometry)
  /\ 2 * r.h * NaturalHeight(geometry) >= OutputHeight(geometry)

\* Where corner <<i, j>> of a chosen rectangle is shown before the crop, and
\* where the same corner of the cropped picture is shown after it.
KeptCorner(r, i, j) ==
  Near(At(geometry', i * OutputWidth(geometry'), j * OutputHeight(geometry')),
       At(geometry, r.x + i * r.w, r.y + j * r.h), IF HalfAPixel(r) THEN 1 ELSE 2)

\* operation.h:58 calls a crop's rectangle "the kept region, in the
\* coordinates the preceding operations produce": what was inside the
\* rectangle on screen is what is left, to the pixel the code rounds to.
\* (TLC refutes it for a photograph that is straightened.)
CropKeepsTheChoice ==
  [][\A r \in CropChoices :
       Crop(r) => \A i \in {0, 1}, j \in {0, 1} : KeptCorner(r, i, j)]_vars

\* The same for a photograph that is not straightened.
KeepsTheChoice ==
  \A r \in CropChoices :
    Crop(r) /\ geometry.angle = Upright =>
      \A i \in {0, 1}, j \in {0, 1} : KeptCorner(r, i, j)

\* A crop does not change how big a pixel is: the ratio of output to natural
\* pixels moves by no more than the rounding to whole pixels.
KeepsTheScale ==
  \A r \in CropChoices :
    Crop(r) /\ geometry.tw > 0 =>
      /\ Abs(geometry'.tw * NaturalWidth(geometry) - NaturalWidth(geometry') * geometry.tw)
           <= NaturalWidth(geometry)
      /\ Abs(geometry'.th * NaturalHeight(geometry) - NaturalHeight(geometry') * geometry.th)
           <= NaturalHeight(geometry)

\* The angle is absolute: however many frames a dragged slider sent, the stop it
\* ends on gives the geometry it would have given alone.
AngleIsAbsolute ==
  \A a \in Angles :
    Straighten(a) => \A b \in Angles :
      Straightened(geometry', b) = Straightened(geometry, b)

\* The frame before any resize, which is what is read from the photograph.
Frame(g) == [g EXCEPT !.tw = 0, !.th = 0]

FrameInside(g, region, n) ==
  \A p \in Corners(Frame(g)) : Inside(At(Frame(g), p[1], p[2]), region, n)

\* A straightened photograph has no empty corner and shows nothing a crop
\* removed: as long as no crop was made at an angle, the frame stays inside
\* what the crops kept, but for the pixel that centring it in whole pixels may
\* cost, and an upright frame to the pixel.
FrameInsideKept ==
  ~turnedCrop => FrameInside(geometry, kept, IF geometry.angle = Upright THEN 0 ELSE 1)

\* A positive angle turns the photograph clockwise, the way the rotate-right
\* button does (operation.h:53-54), whatever crops, turns and resizes came
\* before: what is shown to the right of the centre afterwards was above it.
\* A mirrored photograph turns the other way, and is left out.
TurnsClockwise ==
  \A a \in Angles :
    (/\ Straighten(a)
     /\ geometry.angle = Upright /\ a.s > 0
     /\ ~Mirrored(geometry.orientation)) =>
      LET w == OutputWidth(geometry')
          h == OutputHeight(geometry')
          right == At(geometry', w, h)
          left  == At(geometry', 0, h)
          \* the on-screen direction of the photograph's own axes, before
          ox == At(geometry, 0, 0)
          oy == At(geometry, 0, OutputHeight(geometry))
          \* downwards component of left-to-right on the turned picture
          down == (right.x - left.x) * (oy.x - ox.x) + (right.y - left.y) * (oy.y - ox.y)
      IN  down < 0

\* Every turn, mirror, crop and angle does to the picture on screen what it says,
\* whatever turns, mirrors, resizes, angles and crops came before it.
EditsDoWhatTheySay ==
  [][/\ TurnsWhatIsShown /\ MirrorsWhatIsShown /\ AngleIsAbsolute
     /\ KeepsTheChoice /\ KeepsTheScale /\ TurnsClockwise]_vars

=============================================================================
