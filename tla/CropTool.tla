-------------------------------- MODULE CropTool --------------------------------
(***************************************************************************)
(* The crop tool: the frame over the canvas (CropOverlay.tsx, with the     *)
(* arithmetic of lib/viewport.ts), the ratios of CropPanel.tsx, and the    *)
(* store's methods that open it and turn it into an edit, whose shape      *)
(* Geometry folds.                                                         *)
(*                                                                         *)
(* The pointer is where toDocument puts it: in document pixels, and often  *)
(* outside the document, because the handle has captured it.  What a drag  *)
(* measures against is what was on screen when it began.                   *)
(*                                                                         *)
(* Abstracted: pan and zoom, and the round trip of an edit (EditorStore).  *)
(***************************************************************************)
EXTENDS Geometry, SequencesExt

CONSTANTS
  PhotoWidth, PhotoHeight,  \* the photograph
  MinSize,        \* MIN_SIZE
  Ratios,         \* those CropPanel offers, landscape, as [n, d]
  Points,         \* bound: where the pointer may be
  MaxShapes,      \* bound: edits of the shape
  MaxGrips        \* bound: gestures on the frame

ASSUME CropAssumption ==
  /\ PhotoWidth \in Nat \ {0} /\ PhotoHeight \in Nat \ {0} /\ MinSize \in Nat \ {0}
  /\ \A r \in Ratios : r.n \in Nat /\ r.d \in Nat /\ r.n >= r.d /\ r.d > 0 /\ r.n <= 2 * r.d
  /\ Points \subseteq [x : Int, y : Int]

VARIABLES
  shapes,      \* the operations on the shape, in the stack
  cropRect,    \* the frame, NoFrame while the tool is closed
  cropAspect,  \* the ratio it is locked to
  grip,        \* the gesture under way
  outdated,    \* history: the photograph changed shape under the frame
  grips        \* gestures so far

cropVars == <<shapes, cropRect, cropAspect, grip, outdated, grips>>

NoFrame == Nothing
Free == [n |-> 0, d |-> 0]
NoGrip == [part |-> "none"]
Origin == [x |-> 0, y |-> 0]

Handles == {"nw", "n", "ne", "e", "se", "s", "sw", "w"}
MovesLeft == {"nw", "sw", "w"}
MovesRight == {"ne", "e", "se"}
MovesTop == {"nw", "n", "ne"}
MovesBottom == {"se", "s", "sw"}

\* renderedSize
Rendered(g) == Rect(0, 0, OutputWidth(g), OutputHeight(g))
Bounds(ops) == Rendered(FoldGeometry(ops, PhotoWidth, PhotoHeight))

-----------------------------------------------------------------------------
(* lib/viewport.ts. An exact rectangle is one of integers over r.q.        *)

Exact(r) == [x |-> r.x, y |-> r.y, w |-> r.w, h |-> r.h, q |-> 1]

\* Math.round: halves go up.
RoundUp(p, q) == (2 * p + q) \div (2 * q)

\* Broken variant: the size is not held to the document's.
ClampRectAnySize(r, bounds) ==
  LET w == Most(1, RoundUp(r.w, r.q))
      h == Most(1, RoundUp(r.h, r.q))
  IN  Rect(Least(Most(0, RoundUp(r.x, r.q)), bounds.w - w),
           Least(Most(0, RoundUp(r.y, r.q)), bounds.h - h), w, h)

\* Inside the document, keeping its size where it can.
ClampRect(r, bounds) ==
  LET w == Least(Most(1, RoundUp(r.w, r.q)), bounds.w)
      h == Least(Most(1, RoundUp(r.h, r.q)), bounds.h)
  IN  Rect(Least(Most(0, RoundUp(r.x, r.q)), bounds.w - w),
           Least(Most(0, RoundUp(r.y, r.q)), bounds.h - h), w, h)

\* Broken variant: grown to the larger of the two candidates.
ApplyAspectGrown(r, aspect, anchorX, anchorY) ==
  LET q == aspect.n * aspect.d
      wide == r.w * aspect.d >= r.h * aspect.n
      w == IF wide THEN r.w * q ELSE r.h * aspect.n * aspect.n
      h == IF wide THEN r.w * aspect.d * aspect.d ELSE r.h * q
  IN  [x |-> IF anchorX = r.x THEN r.x * q ELSE (r.x + r.w) * q - w,
       y |-> IF anchorY = r.y THEN r.y * q ELSE (r.y + r.h) * q - h, w |-> w, h |-> h, q |-> q]

\* The largest rectangle of that ratio inside the one given, from the corner
\* that stays.
ApplyAspect(r, aspect, anchorX, anchorY) ==
  LET q == aspect.n * aspect.d
      flat == r.w * aspect.d <= r.h * aspect.n
      w == IF flat THEN r.w * q ELSE r.h * aspect.n * aspect.n
      h == IF flat THEN r.w * aspect.d * aspect.d ELSE r.h * q
  IN  [x |-> IF anchorX = r.x THEN r.x * q ELSE (r.x + r.w) * q - w,
       y |-> IF anchorY = r.y THEN r.y * q ELSE (r.y + r.h) * q - h, w |-> w, h |-> h, q |-> q]

-----------------------------------------------------------------------------
(* CropOverlay.tsx                                                         *)

\* The edges the handle moves go to the pointer, no nearer the edge opposite
\* than the smallest crop.
Pulled(r, handle, p) ==
  LET left   == IF handle \in MovesLeft THEN Least(p.x, r.x + r.w - MinSize) ELSE r.x
      right  == IF handle \in MovesRight THEN Most(p.x, r.x + MinSize) ELSE r.x + r.w
      top    == IF handle \in MovesTop THEN Least(p.y, r.y + r.h - MinSize) ELSE r.y
      bottom == IF handle \in MovesBottom THEN Most(p.y, r.y + MinSize) ELSE r.y + r.h
  IN  Rect(left, top, right - left, bottom - top)

\* resize: under a ratio the corner opposite the handle is the anchor.
Resizing(g, p) ==
  LET r == Pulled(g.start, g.part, p)
  IN  IF g.aspect = Free THEN Exact(r)
      ELSE ApplyAspect(r, g.aspect, IF g.part \in MovesLeft THEN -1 ELSE r.x,
                                    IF g.part \in MovesTop THEN -1 ELSE r.y)

Dragged(g, p) ==
  IF g.part = "body"
  THEN Exact([g.start EXCEPT !.x = @ + p.x - g.at.x, !.y = @ + p.y - g.at.y])
  ELSE Resizing(g, p)

CropInit ==
  /\ shapes = <<>> /\ cropRect = NoFrame /\ cropAspect = Free /\ grip = NoGrip
  /\ outdated = FALSE /\ grips = 0

Cropping == cropRect # NoFrame

BeginCrop ==
  /\ ~Cropping
  /\ cropRect' = Bounds(shapes) /\ cropAspect' = Free /\ outdated' = FALSE
  /\ UNCHANGED <<shapes, grip, grips>>

\* startGesture keeps what was on screen. Only a drag of the whole frame asks
\* where it began.
Grab ==
  /\ Cropping /\ grip = NoGrip /\ grips < MaxGrips
  /\ \E part \in Handles \cup {"body"} : \E at \in IF part = "body" THEN Points ELSE {Origin} :
       grip' = [part |-> part, at |-> at, start |-> cropRect,
                aspect |-> cropAspect, bounds |-> Bounds(shapes)]
  /\ grips' = grips + 1
  /\ UNCHANGED <<shapes, cropRect, cropAspect, outdated>>

Drag ==
  /\ grip # NoGrip
  /\ \E p \in Points : cropRect' = ClampRect(Dragged(grip, p), grip.bounds)
  /\ UNCHANGED <<shapes, cropAspect, grip, outdated, grips>>

Drop ==
  /\ grip # NoGrip /\ grip' = NoGrip
  /\ UNCHANGED <<shapes, cropRect, cropAspect, outdated, grips>>

\* The ratio turns to the shape the frame already has.
Turned(ratio) == IF cropRect.w >= cropRect.h THEN ratio ELSE [n |-> ratio.d, d |-> ratio.n]

ChooseRatio ==
  /\ Cropping /\ grip = NoGrip
  /\ \E ratio \in Ratios :
       /\ cropAspect' = Turned(ratio)
       /\ cropRect' = ClampRect(ApplyAspect(cropRect, Turned(ratio), cropRect.x, cropRect.y),
                                Bounds(shapes))
  /\ UNCHANGED <<shapes, grip, outdated, grips>>

ChooseFree ==
  /\ Cropping /\ grip = NoGrip /\ cropAspect' = Free
  /\ UNCHANGED <<shapes, cropRect, grip, outdated, grips>>

Closed ==
  /\ cropRect' = NoFrame /\ cropAspect' = Free /\ grip' = NoGrip /\ outdated' = FALSE

CancelCrop ==
  /\ Cropping /\ Closed
  /\ UNCHANGED <<shapes, grips>>

\* The engine refuses an edit that would leave nothing to render.
Empties(ops) == IsEmpty(FoldGeometry(ops, PhotoWidth, PhotoHeight).frame)

\* A crop that changes nothing is not worth an edit.
ConfirmCrop ==
  /\ Cropping /\ Closed
  /\ \E framed \in {Append(shapes, [kind |-> "crop", rect |-> cropRect])} :
       IF cropRect = Bounds(shapes) \/ Empties(framed) THEN UNCHANGED shapes
       ELSE Len(shapes) < MaxShapes /\ shapes' = framed
  /\ UNCHANGED grips

\* The keyboard turns and undoes while the frame is open.
RotateShape ==
  /\ Len(shapes) < MaxShapes
  /\ shapes' = Append(shapes, [kind |-> "rotate", quarters |-> 1])
  /\ outdated' = Cropping
  /\ UNCHANGED <<cropRect, cropAspect, grip, grips>>

UndoShape ==
  /\ shapes # <<>> /\ shapes' = Front(shapes)
  /\ outdated' = Cropping
  /\ UNCHANGED <<cropRect, cropAspect, grip, grips>>

CropNext ==
  \/ BeginCrop
  \/ Grab
  \/ Drag
  \/ Drop
  \/ ChooseRatio
  \/ ChooseFree
  \/ CancelCrop
  \/ ConfirmCrop
  \/ RotateShape
  \/ UndoShape

-----------------------------------------------------------------------------
InFrame(r, bounds) == r.x >= 0 /\ r.y >= 0 /\ r.x + r.w <= bounds.w /\ r.y + r.h <= bounds.h

\* A handle of a frame that is no smaller than the smallest crop is pulled to a
\* place on the photograph.
PulledTo(p) ==
  /\ grip # NoGrip /\ grip.part \in Handles /\ ~outdated
  /\ grip.start.w >= MinSize /\ grip.start.h >= MinSize
  /\ p.x \in 0 .. grip.bounds.w /\ p.y \in 0 .. grip.bounds.h
  /\ cropRect' = ClampRect(Dragged(grip, p), grip.bounds)

\* The tool's state has its shape, and the frame is a rectangle with pixels in it.
CropTypeOK ==
  /\ cropRect \in [x : Int, y : Int, w : Nat, h : Nat]
  /\ Cropping => ~IsEmpty(cropRect)
  /\ cropAspect = Free \/ cropAspect \in Ratios \cup {[n |-> r.d, d |-> r.n] : r \in Ratios}
  /\ grip # NoGrip => Cropping
  /\ Len(shapes) <= MaxShapes /\ outdated \in BOOLEAN /\ grips \in 0 .. MaxGrips

\* The frame lies inside the photograph it is drawn over, whatever the handles
\* were dragged to and whatever ratio was chosen (clampRect), as long as the
\* photograph keeps its shape under it.
FrameInsidePicture == Cropping /\ ~outdated => InFrame(cropRect, Bounds(shapes))

\* "The corner opposite the one being dragged stays where it is"
\* (CropOverlay.tsx): a handle pulled to a place on the photograph leaves the
\* edges it does not hold where they were when the drag began, to the pixel that
\* rounding both ends costs, under a ratio too.
OppositeCornerStays ==
  \A p \in Points : PulledTo(p) =>
       LET start == grip.start
       IN  /\ grip.part \notin MovesLeft => cropRect'.x = start.x
           /\ grip.part \notin MovesTop => cropRect'.y = start.y
           /\ grip.part \in MovesLeft =>
                Abs((cropRect'.x + cropRect'.w) - (start.x + start.w)) <= 1
           /\ grip.part \in MovesTop =>
                Abs((cropRect'.y + cropRect'.h) - (start.y + start.h)) <= 1

Chosen == grip = NoGrip /\ ~outdated /\ cropAspect' # Free /\ cropRect' # NoFrame

\* A locked ratio is honoured, to the rounding of its sides, by every pull to a
\* place on the photograph and by choosing it (applyAspect takes the smaller
\* candidate so that the clamp to the photograph has nothing to undo).
LockedRatioHonoured ==
  (/\ cropRect' # cropRect /\ cropAspect' # Free
   /\ Chosen \/ \E p \in Points : PulledTo(p))
  => 2 * Abs(cropRect'.w * cropAspect'.d - cropRect'.h * cropAspect'.n)
       <= cropAspect'.n + cropAspect'.d

\* What is confirmed is what was framed: the photograph comes out at the size of
\* the frame, and a frame of the whole of it leaves no edit behind.
FramedIsKept ==
  Cropping /\ cropRect' = NoFrame /\ shapes' # shapes /\ ~outdated =>
    LET size == Bounds(shapes')
    IN  <<size.w, size.h>> = <<cropRect.w, cropRect.h>> /\ size # Bounds(shapes)

\* The frame does what the hand says: the corner opposite the handle stays, a
\* ratio holds, and what is confirmed is what was framed (CropOverlay.tsx,
\* applyAspect, confirmCrop).
FrameObeysTheHand == [][OppositeCornerStays /\ LockedRatioHonoured /\ FramedIsKept]_cropVars
=============================================================================
