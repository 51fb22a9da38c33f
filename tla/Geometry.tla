------------------------------ MODULE Geometry ------------------------------
(***************************************************************************)
(* The shape an edit stack gives a photograph: rotations, flips, crops,    *)
(* resizes and one straightening angle fold into a frame over the original *)
(* (operation.cpp, orientation.cpp, rect.cpp), and the renderer reads the  *)
(* photograph through that frame (render.cpp, resample.cpp).               *)
(*                                                                         *)
(* Angles are exact: a record [s, c, d] of integers stands for the angle   *)
(* whose sine is s/d and cosine is c/d, so the arithmetic the code does in *)
(* double precision is done here in integers, and every rounding that is   *)
(* left is one the code makes.                                             *)
(***************************************************************************)
EXTENDS Integers, Sequences

Upright == [s |-> 0, c |-> 1, d |-> 1]

IsAngle(a) ==
  /\ a.s \in Int /\ a.c \in Int /\ a.d \in Int /\ a.d > 0
  /\ a.s * a.s + a.c * a.c = a.d * a.d

\* kMaxStraightenDegrees is 45: an angle arrives here already clamped to it.
WithinLimit(a) == -a.c <= a.s /\ a.s <= a.c

Least(a, b) == IF a <= b THEN a ELSE b
Most(a, b) == IF a >= b THEN a ELSE b
Abs(n) == IF n < 0 THEN -n ELSE n

\* std::lround(p / q) for q > 0: halves go away from zero.
Round(p, q) ==
  IF p >= 0 THEN (2 * p + q) \div (2 * q) ELSE -((q - 2 * p) \div (2 * q))

-----------------------------------------------------------------------------
(* Rectangles, half open on the right and at the bottom.                   *)

Rect(x, y, w, h) == [x |-> x, y |-> y, w |-> w, h |-> h]

Nothing == Rect(0, 0, 0, 0)

IsEmpty(r) == r.w <= 0 \/ r.h <= 0

Intersect(a, b) ==
  LET left   == Most(a.x, b.x)
      top    == Most(a.y, b.y)
      right  == Least(a.x + a.w, b.x + b.w)
      bottom == Least(a.y + a.h, b.y + b.h)
  IN  IF right <= left \/ bottom <= top
      THEN Nothing
      ELSE Rect(left, top, right - left, bottom - top)

-----------------------------------------------------------------------------
(* The eight orientations, by their EXIF numbers.                          *)

Orientations == 1 .. 8
TopLeft == 1
FlipHorizontal == 2
FlipVertical == 4

SwapsAxes(o) == o \in {5, 6, 7, 8}

\* An orientation as a mirror followed by clockwise quarter turns.
Quarters(o) == <<0, 0, 2, 2, 3, 1, 1, 3>>[o]

Mirrored(o) == o \in {2, 4, 5, 7}

\* (the turns never fall below -3)
FromSymmetry(quarters, mirrored) ==
  IF mirrored THEN <<2, 7, 4, 5>>[((quarters + 4) % 4) + 1]
              ELSE <<1, 6, 3, 8>>[((quarters + 4) % 4) + 1]

RotateQuarters(q) == FromSymmetry(q, FALSE)

\* Broken variant: the turns add up even when the second transform mirrors.
ComposeNoConjugation(second, first) ==
  FromSymmetry(Quarters(second) + Quarters(first), Mirrored(first) # Mirrored(second))

Compose(second, first) ==
  FromSymmetry(IF Mirrored(second) THEN Quarters(second) - Quarters(first)
                                   ELSE Quarters(second) + Quarters(first),
               Mirrored(first) # Mirrored(second))

InverseOf(o) ==
  IF Mirrored(o) THEN FromSymmetry(Quarters(o), TRUE)
                 ELSE FromSymmetry(-Quarters(o), FALSE)

\* Where pixel (x, y) of a w by h picture lands.
MapPoint(o, w, h, x, y) ==
  << <<x, y>>,
     <<w - 1 - x, y>>,
     <<w - 1 - x, h - 1 - y>>,
     <<x, h - 1 - y>>,
     <<y, x>>,
     <<h - 1 - y, x>>,
     <<h - 1 - y, w - 1 - x>>,
     <<y, w - 1 - x>> >>[o]

\* Broken variant: the rectangle is carried forward instead of back.
MapRectForward(r, o, w, h) ==
  LET a == MapPoint(o, w, h, r.x, r.y)
      b == MapPoint(o, w, h, r.x + r.w - 1, r.y + r.h - 1)
  IN  Rect(Least(a[1], b[1]), Least(a[2], b[2]), Abs(b[1] - a[1]) + 1, Abs(b[2] - a[2]) + 1)

\* A rectangle of the oriented picture, in the w by h picture it was made from.
MapRectBack(r, o, w, h) ==
  LET ow == IF SwapsAxes(o) THEN h ELSE w
      oh == IF SwapsAxes(o) THEN w ELSE h
      a  == MapPoint(InverseOf(o), ow, oh, r.x, r.y)
      b  == MapPoint(InverseOf(o), ow, oh, r.x + r.w - 1, r.y + r.h - 1)
  IN  Rect(Least(a[1], b[1]), Least(a[2], b[2]), Abs(b[1] - a[1]) + 1, Abs(b[2] - a[2]) + 1)

-----------------------------------------------------------------------------
(* The fold. A geometry is                                                 *)
(*   [frame, base, orientation, angle, tw, th]                             *)
(* the code's source_rect, unrotated_rect, orientation, angle and          *)
(* target_width/height (0: no resize).                                     *)

Whole(w, h) ==
  [frame |-> Rect(0, 0, w, h), base |-> Rect(0, 0, w, h),
   orientation |-> TopLeft, angle |-> Upright, tw |-> 0, th |-> 0]

NaturalWidth(g) == IF SwapsAxes(g.orientation) THEN g.frame.h ELSE g.frame.w
NaturalHeight(g) == IF SwapsAxes(g.orientation) THEN g.frame.w ELSE g.frame.h
OutputWidth(g) == IF g.tw > 0 THEN g.tw ELSE NaturalWidth(g)
OutputHeight(g) == IF g.th > 0 THEN g.th ELSE NaturalHeight(g)

\* The largest frame of the same shape that fits in the region once turned:
\* its scale is p/q, the smaller of width/across and height/down.
InscribedFrame(region, a) ==
  IF a.s = 0 THEN region
  ELSE LET across == region.w * a.c + region.h * Abs(a.s)
           down   == region.w * Abs(a.s) + region.h * a.c
           p == IF region.w * down <= region.h * across THEN region.w ELSE region.h
           q == IF region.w * down <= region.h * across THEN across ELSE down
           w == Most(1, (region.w * p * a.d) \div q)
           h == Most(1, (region.h * p * a.d) \div q)
       IN  Rect(region.x + (region.w - w) \div 2, region.y + (region.h - h) \div 2, w, h)

Reorient(g, o) == [g EXCEPT !.orientation = Compose(o, @)]

\* Broken variant: a quarter turn forgets that a resized size turns with it.
RotatedKeepsTarget(g, quarters) == Reorient(g, RotateQuarters(quarters))

Rotated(g, quarters) ==
  LET turned == Reorient(g, RotateQuarters(quarters))
  IN  IF quarters % 2 = 0 THEN turned ELSE [turned EXCEPT !.tw = g.th, !.th = g.tw]

\* Broken variant: trims the frame that is already trimmed.
StraightenedAgain(g, a) == [g EXCEPT !.angle = a, !.frame = InscribedFrame(@, a)]

\* Broken variant: turns the photograph the other way.
StraightenedBackwards(g, a) ==
  [g EXCEPT !.angle = [a EXCEPT !.s = -a.s], !.frame = InscribedFrame(g.base, a)]

Straightened(g, a) == [g EXCEPT !.angle = a, !.frame = InscribedFrame(g.base, a)]

Resized(g, w, h) == [g EXCEPT !.tw = Most(1, w), !.th = Most(1, h)]

\* The chosen rectangle, scaled from output to natural pixels.
InNatural(g, r) ==
  LET nw == NaturalWidth(g)
      nh == NaturalHeight(g)
  IN  Rect(IF g.tw > 0 THEN Round(r.x * nw, g.tw) ELSE r.x,
           IF g.th > 0 THEN Round(r.y * nh, g.th) ELSE r.y,
           Most(1, IF g.tw > 0 THEN Round(r.w * nw, g.tw) ELSE r.w),
           Most(1, IF g.th > 0 THEN Round(r.h * nh, g.th) ELSE r.h))

\* The frame a crop leaves: at an angle only its centre moves, by the offset
\* from the old centre turned by the angle.
CroppedFrame(g, r) ==
  LET in == MapRectBack(InNatural(g, r), g.orientation, g.frame.w, g.frame.h)
      a  == g.angle
      dx == 2 * in.x + in.w - g.frame.w
      dy == 2 * in.y + in.h - g.frame.h
  IN  IF a.s = 0
      THEN Intersect(Rect(in.x + g.frame.x, in.y + g.frame.y, in.w, in.h), g.frame)
      ELSE Rect(Round((2 * g.frame.x + g.frame.w - in.w) * a.d + dx * a.c - dy * a.s, 2 * a.d),
                Round((2 * g.frame.y + g.frame.h - in.h) * a.d + dx * a.s + dy * a.c, 2 * a.d),
                in.w, in.h)

\* Broken variant: a straighten after the crop trims from the whole photograph.
CroppedKeepsBase(g, r) ==
  LET kept == [g EXCEPT !.frame = CroppedFrame(g, r)]
  IN  IF g.tw > 0
      THEN [kept EXCEPT !.tw = Most(1, Round(NaturalWidth(kept) * g.tw, NaturalWidth(g))),
                        !.th = Most(1, Round(NaturalHeight(kept) * g.th, NaturalHeight(g)))]
      ELSE kept

\* Broken variant: the crop is stretched back to the size asked for before it.
CroppedKeepsTarget(g, r) ==
  [g EXCEPT !.frame = CroppedFrame(g, r), !.base = CroppedFrame(g, r)]

Cropped(g, r) ==
  LET kept == [g EXCEPT !.frame = CroppedFrame(g, r), !.base = CroppedFrame(g, r)]
  IN  IF g.tw > 0
      THEN [kept EXCEPT !.tw = Most(1, Round(NaturalWidth(kept) * g.tw, NaturalWidth(g))),
                        !.th = Most(1, Round(NaturalHeight(kept) * g.th, NaturalHeight(g)))]
      ELSE kept

\* One operation of the stack. Every other kind leaves the shape alone.
Shaped(g, op) ==
  CASE op.kind = "rotate"         -> Rotated(g, op.quarters)
    [] op.kind = "straighten"     -> Straightened(g, op.angle)
    [] op.kind = "flipHorizontal" -> Reorient(g, FlipHorizontal)
    [] op.kind = "flipVertical"   -> Reorient(g, FlipVertical)
    [] op.kind = "resize"         -> Resized(g, op.w, op.h)
    [] op.kind = "crop"           -> Cropped(g, op.rect)
    [] OTHER                      -> g

\* The geometry after each prefix; that of the whole stack is the last. (TLC
\* evaluates an argument of a parameter once, and one of an operator at each use.)
FoldGeometry(operations, w, h) ==
  LET Replay(Step(_, _)) ==
        LET after[n \in 0 .. Len(operations)] ==
              IF n = 0 THEN Whole(w, h) ELSE Step(after[n - 1], operations[n])
        IN  after[Len(operations)]
  IN  Replay(Shaped)

-----------------------------------------------------------------------------
(* What the renderer shows at a point of the output, as a point of the     *)
(* photograph: [x, y, den] stands for (x/den, y/den). Points lie on pixel  *)
(* corners, so the mirror of x in a picture w wide is w - x.               *)

\* StraightenTo, and the crop and resample after it: where point q of the
\* rw by rh raster reads when the frame is f and the angle a. The offset from
\* the centre is scaled back by the width's ratio on both axes, and turned by
\* the negated angle.
Sampled(f, a, q, rw, rh) ==
  LET dx == 2 * q[1] - rw
      dy == 2 * q[2] - rh
  IN  IF a.s = 0
      THEN [x |-> (f.x * rw + q[1] * f.w) * rh, y |-> (f.y * rh + q[2] * f.h) * rw,
            den |-> rw * rh]
      ELSE [x |-> (2 * f.x + f.w) * a.d * rw + (dx * a.c + dy * a.s) * f.w,
            y |-> (2 * f.y + f.h) * a.d * rw + (dy * a.c - dx * a.s) * f.w,
            den |-> 2 * a.d * rw]

\* The raster is what the orientation is applied to last.
RasterWidth(g) == IF SwapsAxes(g.orientation) THEN OutputHeight(g) ELSE OutputWidth(g)
RasterHeight(g) == IF SwapsAxes(g.orientation) THEN OutputWidth(g) ELSE OutputHeight(g)

At(g, px, py) ==
  Sampled(g.frame, g.angle,
          MapPoint(InverseOf(g.orientation), OutputWidth(g) + 1, OutputHeight(g) + 1, px, py),
          RasterWidth(g), RasterHeight(g))

SamePoint(p, q) == p.x * q.den = q.x * p.den /\ p.y * q.den = q.y * p.den

\* Within n pixels of the photograph on each axis.
Near(p, q, n) ==
  /\ Abs(p.x * q.den - q.x * p.den) <= n * p.den * q.den
  /\ Abs(p.y * q.den - q.y * p.den) <= n * p.den * q.den

\* Within n pixels of a rectangle of the photograph.
Inside(p, r, n) ==
  /\ (r.x - n) * p.den <= p.x /\ p.x <= (r.x + r.w + n) * p.den
  /\ (r.y - n) * p.den <= p.y /\ p.y <= (r.y + r.h + n) * p.den

Corners(g) == {<<x, y>> : x \in {0, OutputWidth(g)}, y \in {0, OutputHeight(g)}}

=============================================================================
