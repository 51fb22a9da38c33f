--------------------------- MODULE GeometryProofs ---------------------------
(***************************************************************************)
(* What the runs of GeometryReplay show on a small photograph, proved for  *)
(* every size, angle, crop and length of stack; and, with the shape of the *)
(* photograph as their ground, what the run of Tools shows of the frame,   *)
(* the brush and the panels.                                               *)
(***************************************************************************)
EXTENDS GeometryReplay, Tools, SequenceTheorems, WellFoundedInduction, TLAPS

-----------------------------------------------------------------------------
(* The group of the eight orientations, as tables.                         *)

LEMMA InverseTable ==
  ASSUME NEW o \in Orientations
  PROVE  InverseOf(o) = <<1, 2, 3, 4, 5, 8, 7, 6>>[o]
<1>1. CASE o = 1 BY <1>1 DEF InverseOf, Mirrored, Quarters, FromSymmetry
<1>2. CASE o = 2 BY <1>2 DEF InverseOf, Mirrored, Quarters, FromSymmetry
<1>3. CASE o = 3 BY <1>3 DEF InverseOf, Mirrored, Quarters, FromSymmetry
<1>4. CASE o = 4 BY <1>4 DEF InverseOf, Mirrored, Quarters, FromSymmetry
<1>5. CASE o = 5 BY <1>5 DEF InverseOf, Mirrored, Quarters, FromSymmetry
<1>6. CASE o = 6 BY <1>6 DEF InverseOf, Mirrored, Quarters, FromSymmetry
<1>7. CASE o = 7 BY <1>7 DEF InverseOf, Mirrored, Quarters, FromSymmetry
<1>8. CASE o = 8 BY <1>8 DEF InverseOf, Mirrored, Quarters, FromSymmetry
<1> QED
  BY <1>1, <1>2, <1>3, <1>4, <1>5, <1>6, <1>7, <1>8 DEF Orientations

LEMMA TurnTable ==
  ASSUME NEW o \in Orientations
  PROVE  Compose(RotateQuarters(1), o) = <<6, 7, 8, 5, 2, 3, 4, 1>>[o]
<1>0. RotateQuarters(1) = 6
  BY DEF RotateQuarters, FromSymmetry
<1>1. CASE o = 1 BY <1>0, <1>1 DEF Compose, Mirrored, Quarters, FromSymmetry
<1>2. CASE o = 2 BY <1>0, <1>2 DEF Compose, Mirrored, Quarters, FromSymmetry
<1>3. CASE o = 3 BY <1>0, <1>3 DEF Compose, Mirrored, Quarters, FromSymmetry
<1>4. CASE o = 4 BY <1>0, <1>4 DEF Compose, Mirrored, Quarters, FromSymmetry
<1>5. CASE o = 5 BY <1>0, <1>5 DEF Compose, Mirrored, Quarters, FromSymmetry
<1>6. CASE o = 6
  <2>1. Quarters(6) + Quarters(6) = 2
    BY DEF Quarters
  <2>2. Compose(6, 6) = <<1, 6, 3, 8>>[((2 + 4) % 4) + 1]
    BY <2>1 DEF Compose, Mirrored, FromSymmetry
  <2>3. ((2 + 4) % 4) + 1 = 3
    OBVIOUS
  <2> QED
    BY <1>0, <1>6, <2>2, <2>3
<1>7. CASE o = 7
  <2>1. Quarters(6) + Quarters(7) = 2
    BY DEF Quarters
  <2>2. Compose(6, 7) = <<2, 7, 4, 5>>[((2 + 4) % 4) + 1]
    BY <2>1 DEF Compose, Mirrored, FromSymmetry
  <2>3. ((2 + 4) % 4) + 1 = 3
    OBVIOUS
  <2> QED
    BY <1>0, <1>7, <2>2, <2>3
<1>8. CASE o = 8 BY <1>0, <1>8 DEF Compose, Mirrored, Quarters, FromSymmetry
<1> QED
  BY <1>1, <1>2, <1>3, <1>4, <1>5, <1>6, <1>7, <1>8 DEF Orientations

LEMMA FlipTables ==
  ASSUME NEW o \in Orientations
  PROVE  /\ Compose(FlipHorizontal, o) = <<2, 1, 4, 3, 6, 5, 8, 7>>[o]
         /\ Compose(FlipVertical, o) = <<4, 3, 2, 1, 8, 7, 6, 5>>[o]
<1>0. FlipHorizontal = 2 /\ FlipVertical = 4
  BY DEF FlipHorizontal, FlipVertical
<1>1. CASE o = 1 BY <1>0, <1>1 DEF Compose, Mirrored, Quarters, FromSymmetry
<1>2. CASE o = 2 BY <1>0, <1>2 DEF Compose, Mirrored, Quarters, FromSymmetry
<1>3. CASE o = 3 BY <1>0, <1>3 DEF Compose, Mirrored, Quarters, FromSymmetry
<1>4. CASE o = 4 BY <1>0, <1>4 DEF Compose, Mirrored, Quarters, FromSymmetry
<1>5. CASE o = 5 BY <1>0, <1>5 DEF Compose, Mirrored, Quarters, FromSymmetry
<1>6. CASE o = 6 BY <1>0, <1>6 DEF Compose, Mirrored, Quarters, FromSymmetry
<1>7. CASE o = 7 BY <1>0, <1>7 DEF Compose, Mirrored, Quarters, FromSymmetry
<1>8. CASE o = 8 BY <1>0, <1>8 DEF Compose, Mirrored, Quarters, FromSymmetry
<1> QED
  BY <1>1, <1>2, <1>3, <1>4, <1>5, <1>6, <1>7, <1>8 DEF Orientations

-----------------------------------------------------------------------------
(* Where the renderer reads, before and after an orientation is composed.  *)

\* What a quarter turn, or a flip, does to the point read for a point shown.
LEMMA ReadBack ==
  ASSUME NEW o \in Orientations, NEW w \in Int, NEW h \in Int,
         NEW x \in Int, NEW y \in Int
  PROVE  /\ MapPoint(InverseOf(Compose(RotateQuarters(1), o)), h + 1, w + 1, h - y, x)
              = MapPoint(InverseOf(o), w + 1, h + 1, x, y)
         /\ MapPoint(InverseOf(Compose(FlipHorizontal, o)), w + 1, h + 1, w - x, y)
              = MapPoint(InverseOf(o), w + 1, h + 1, x, y)
         /\ MapPoint(InverseOf(Compose(FlipVertical, o)), w + 1, h + 1, x, h - y)
              = MapPoint(InverseOf(o), w + 1, h + 1, x, y)
<1>i. /\ InverseOf(1) = 1 /\ InverseOf(2) = 2 /\ InverseOf(3) = 3 /\ InverseOf(4) = 4
      /\ InverseOf(5) = 5 /\ InverseOf(6) = 8 /\ InverseOf(7) = 7 /\ InverseOf(8) = 6
  BY InverseTable DEF Orientations
<1>t. /\ MapPoint(8, h + 1, w + 1, h - y, x) = MapPoint(1, w + 1, h + 1, x, y)
      /\ MapPoint(7, h + 1, w + 1, h - y, x) = MapPoint(2, w + 1, h + 1, x, y)
      /\ MapPoint(6, h + 1, w + 1, h - y, x) = MapPoint(3, w + 1, h + 1, x, y)
      /\ MapPoint(5, h + 1, w + 1, h - y, x) = MapPoint(4, w + 1, h + 1, x, y)
      /\ MapPoint(2, h + 1, w + 1, h - y, x) = MapPoint(5, w + 1, h + 1, x, y)
      /\ MapPoint(3, h + 1, w + 1, h - y, x) = MapPoint(8, w + 1, h + 1, x, y)
      /\ MapPoint(4, h + 1, w + 1, h - y, x) = MapPoint(7, w + 1, h + 1, x, y)
      /\ MapPoint(1, h + 1, w + 1, h - y, x) = MapPoint(6, w + 1, h + 1, x, y)
  <2>1. h - y \in Int /\ h - (h - y) = y
    OBVIOUS
  <2>2. MapPoint(8, h + 1, w + 1, h - y, x) = MapPoint(1, w + 1, h + 1, x, y)
    BY <2>1 DEF MapPoint
  <2>3. MapPoint(7, h + 1, w + 1, h - y, x) = MapPoint(2, w + 1, h + 1, x, y)
    BY <2>1 DEF MapPoint
  <2>4. MapPoint(6, h + 1, w + 1, h - y, x) = MapPoint(3, w + 1, h + 1, x, y)
    BY <2>1 DEF MapPoint
  <2>5. MapPoint(5, h + 1, w + 1, h - y, x) = MapPoint(4, w + 1, h + 1, x, y)
    BY <2>1 DEF MapPoint
  <2>6. MapPoint(2, h + 1, w + 1, h - y, x) = MapPoint(5, w + 1, h + 1, x, y)
    BY <2>1 DEF MapPoint
  <2>7. MapPoint(3, h + 1, w + 1, h - y, x) = MapPoint(8, w + 1, h + 1, x, y)
    BY <2>1 DEF MapPoint
  <2>8. MapPoint(4, h + 1, w + 1, h - y, x) = MapPoint(7, w + 1, h + 1, x, y)
    BY <2>1 DEF MapPoint
  <2>9. MapPoint(1, h + 1, w + 1, h - y, x) = MapPoint(6, w + 1, h + 1, x, y)
    BY <2>1 DEF MapPoint
  <2> QED
    BY <2>2, <2>3, <2>4, <2>5, <2>6, <2>7, <2>8, <2>9
<1>f. /\ MapPoint(2, w + 1, h + 1, w - x, y) = MapPoint(1, w + 1, h + 1, x, y)
      /\ MapPoint(1, w + 1, h + 1, w - x, y) = MapPoint(2, w + 1, h + 1, x, y)
      /\ MapPoint(4, w + 1, h + 1, w - x, y) = MapPoint(3, w + 1, h + 1, x, y)
      /\ MapPoint(3, w + 1, h + 1, w - x, y) = MapPoint(4, w + 1, h + 1, x, y)
      /\ MapPoint(8, w + 1, h + 1, w - x, y) = MapPoint(5, w + 1, h + 1, x, y)
      /\ MapPoint(5, w + 1, h + 1, w - x, y) = MapPoint(8, w + 1, h + 1, x, y)
      /\ MapPoint(6, w + 1, h + 1, w - x, y) = MapPoint(7, w + 1, h + 1, x, y)
      /\ MapPoint(7, w + 1, h + 1, w - x, y) = MapPoint(6, w + 1, h + 1, x, y)
  <2>1. w - x \in Int /\ w - (w - x) = x
    OBVIOUS
  <2>2. MapPoint(2, w + 1, h + 1, w - x, y) = MapPoint(1, w + 1, h + 1, x, y)
    BY <2>1 DEF MapPoint
  <2>3. MapPoint(1, w + 1, h + 1, w - x, y) = MapPoint(2, w + 1, h + 1, x, y)
    BY <2>1 DEF MapPoint
  <2>4. MapPoint(4, w + 1, h + 1, w - x, y) = MapPoint(3, w + 1, h + 1, x, y)
    BY <2>1 DEF MapPoint
  <2>5. MapPoint(3, w + 1, h + 1, w - x, y) = MapPoint(4, w + 1, h + 1, x, y)
    BY <2>1 DEF MapPoint
  <2>6. MapPoint(8, w + 1, h + 1, w - x, y) = MapPoint(5, w + 1, h + 1, x, y)
    BY <2>1 DEF MapPoint
  <2>7. MapPoint(5, w + 1, h + 1, w - x, y) = MapPoint(8, w + 1, h + 1, x, y)
    BY <2>1 DEF MapPoint
  <2>8. MapPoint(6, w + 1, h + 1, w - x, y) = MapPoint(7, w + 1, h + 1, x, y)
    BY <2>1 DEF MapPoint
  <2>9. MapPoint(7, w + 1, h + 1, w - x, y) = MapPoint(6, w + 1, h + 1, x, y)
    BY <2>1 DEF MapPoint
  <2> QED
    BY <2>2, <2>3, <2>4, <2>5, <2>6, <2>7, <2>8, <2>9
<1>g. /\ MapPoint(4, w + 1, h + 1, x, h - y) = MapPoint(1, w + 1, h + 1, x, y)
      /\ MapPoint(3, w + 1, h + 1, x, h - y) = MapPoint(2, w + 1, h + 1, x, y)
      /\ MapPoint(2, w + 1, h + 1, x, h - y) = MapPoint(3, w + 1, h + 1, x, y)
      /\ MapPoint(1, w + 1, h + 1, x, h - y) = MapPoint(4, w + 1, h + 1, x, y)
      /\ MapPoint(6, w + 1, h + 1, x, h - y) = MapPoint(5, w + 1, h + 1, x, y)
      /\ MapPoint(7, w + 1, h + 1, x, h - y) = MapPoint(8, w + 1, h + 1, x, y)
      /\ MapPoint(8, w + 1, h + 1, x, h - y) = MapPoint(7, w + 1, h + 1, x, y)
      /\ MapPoint(5, w + 1, h + 1, x, h - y) = MapPoint(6, w + 1, h + 1, x, y)
  <2>1. h - y \in Int /\ h - (h - y) = y
    OBVIOUS
  <2>2. MapPoint(4, w + 1, h + 1, x, h - y) = MapPoint(1, w + 1, h + 1, x, y)
    BY <2>1 DEF MapPoint
  <2>3. MapPoint(3, w + 1, h + 1, x, h - y) = MapPoint(2, w + 1, h + 1, x, y)
    BY <2>1 DEF MapPoint
  <2>4. MapPoint(2, w + 1, h + 1, x, h - y) = MapPoint(3, w + 1, h + 1, x, y)
    BY <2>1 DEF MapPoint
  <2>5. MapPoint(1, w + 1, h + 1, x, h - y) = MapPoint(4, w + 1, h + 1, x, y)
    BY <2>1 DEF MapPoint
  <2>6. MapPoint(6, w + 1, h + 1, x, h - y) = MapPoint(5, w + 1, h + 1, x, y)
    BY <2>1 DEF MapPoint
  <2>7. MapPoint(7, w + 1, h + 1, x, h - y) = MapPoint(8, w + 1, h + 1, x, y)
    BY <2>1 DEF MapPoint
  <2>8. MapPoint(8, w + 1, h + 1, x, h - y) = MapPoint(7, w + 1, h + 1, x, y)
    BY <2>1 DEF MapPoint
  <2>9. MapPoint(5, w + 1, h + 1, x, h - y) = MapPoint(6, w + 1, h + 1, x, y)
    BY <2>1 DEF MapPoint
  <2> QED
    BY <2>2, <2>3, <2>4, <2>5, <2>6, <2>7, <2>8, <2>9
<1>1. CASE o = 1
  <2>1. /\ Compose(RotateQuarters(1), o) = 6
        /\ Compose(FlipHorizontal, o) = 2
        /\ Compose(FlipVertical, o) = 4
    BY <1>1, TurnTable, FlipTables
  <2> QED
    BY <1>1, <1>i, <1>t, <1>f, <1>g, <2>1
<1>2. CASE o = 2
  <2>1. /\ Compose(RotateQuarters(1), o) = 7
        /\ Compose(FlipHorizontal, o) = 1
        /\ Compose(FlipVertical, o) = 3
    BY <1>2, TurnTable, FlipTables
  <2> QED
    BY <1>2, <1>i, <1>t, <1>f, <1>g, <2>1
<1>3. CASE o = 3
  <2>1. /\ Compose(RotateQuarters(1), o) = 8
        /\ Compose(FlipHorizontal, o) = 4
        /\ Compose(FlipVertical, o) = 2
    BY <1>3, TurnTable, FlipTables
  <2> QED
    BY <1>3, <1>i, <1>t, <1>f, <1>g, <2>1
<1>4. CASE o = 4
  <2>1. /\ Compose(RotateQuarters(1), o) = 5
        /\ Compose(FlipHorizontal, o) = 3
        /\ Compose(FlipVertical, o) = 1
    BY <1>4, TurnTable, FlipTables
  <2> QED
    BY <1>4, <1>i, <1>t, <1>f, <1>g, <2>1
<1>5. CASE o = 5
  <2>1. /\ Compose(RotateQuarters(1), o) = 2
        /\ Compose(FlipHorizontal, o) = 6
        /\ Compose(FlipVertical, o) = 8
    BY <1>5, TurnTable, FlipTables
  <2> QED
    BY <1>5, <1>i, <1>t, <1>f, <1>g, <2>1
<1>6. CASE o = 6
  <2>1. /\ Compose(RotateQuarters(1), o) = 3
        /\ Compose(FlipHorizontal, o) = 5
        /\ Compose(FlipVertical, o) = 7
    BY <1>6, TurnTable, FlipTables
  <2> QED
    BY <1>6, <1>i, <1>t, <1>f, <1>g, <2>1
<1>7. CASE o = 7
  <2>1. /\ Compose(RotateQuarters(1), o) = 4
        /\ Compose(FlipHorizontal, o) = 8
        /\ Compose(FlipVertical, o) = 6
    BY <1>7, TurnTable, FlipTables
  <2> QED
    BY <1>7, <1>i, <1>t, <1>f, <1>g, <2>1
<1>8. CASE o = 8
  <2>1. /\ Compose(RotateQuarters(1), o) = 1
        /\ Compose(FlipHorizontal, o) = 7
        /\ Compose(FlipVertical, o) = 5
    BY <1>8, TurnTable, FlipTables
  <2> QED
    BY <1>8, <1>i, <1>t, <1>f, <1>g, <2>1
<1> QED
  BY <1>1, <1>2, <1>3, <1>4, <1>5, <1>6, <1>7, <1>8 DEF Orientations

-----------------------------------------------------------------------------
(* Types.                                                                  *)

LEMMA ComposeType ==
  ASSUME NEW a \in Orientations, NEW b \in {2, 3, 4, 6, 8}
  PROVE  Compose(b, a) \in Orientations
  BY DEF Compose, Mirrored, Quarters, FromSymmetry, Orientations

LEMMA InverseType ==
  ASSUME NEW o \in Orientations
  PROVE  InverseOf(o) \in Orientations
  BY InverseTable DEF Orientations

LEMMA RotateType ==
  ASSUME NEW q \in 1 .. 3
  PROVE  RotateQuarters(q) \in {3, 6, 8}
<1>1. CASE q = 1 BY <1>1 DEF RotateQuarters, FromSymmetry
<1>2. CASE q = 2 BY <1>2 DEF RotateQuarters, FromSymmetry
<1>3. CASE q = 3 BY <1>3 DEF RotateQuarters, FromSymmetry
<1> QED
  BY <1>1, <1>2, <1>3

LEMMA RoundType ==
  ASSUME NEW p \in Int, NEW q \in Int, q > 0
  PROVE  Round(p, q) \in Int
<1>1. 2 * q \in Int /\ 2 * q > 0 /\ 2 * p + q \in Int /\ q - 2 * p \in Int
  OBVIOUS
<1> QED
  BY <1>1 DEF Round

LEMMA MapType ==
  ASSUME NEW o \in Orientations, NEW w \in Int, NEW h \in Int, NEW x \in Int, NEW y \in Int
  PROVE  MapPoint(o, w, h, x, y)[1] \in Int /\ MapPoint(o, w, h, x, y)[2] \in Int
<1>1. CASE o = 1 BY <1>1 DEF MapPoint
<1>2. CASE o = 2 BY <1>2 DEF MapPoint
<1>3. CASE o = 3 BY <1>3 DEF MapPoint
<1>4. CASE o = 4 BY <1>4 DEF MapPoint
<1>5. CASE o = 5 BY <1>5 DEF MapPoint
<1>6. CASE o = 6 BY <1>6 DEF MapPoint
<1>7. CASE o = 7 BY <1>7 DEF MapPoint
<1>8. CASE o = 8 BY <1>8 DEF MapPoint
<1> QED
  BY <1>1, <1>2, <1>3, <1>4, <1>5, <1>6, <1>7, <1>8 DEF Orientations

LEMMA MapRectType ==
  ASSUME NEW r \in RectType, NEW o \in Orientations,
         NEW w \in Nat \ {0}, NEW h \in Nat \ {0}
  PROVE  MapRectBack(r, o, w, h) \in RectType
<1> DEFINE ow == IF SwapsAxes(o) THEN h ELSE w
           oh == IF SwapsAxes(o) THEN w ELSE h
           a  == MapPoint(InverseOf(o), ow, oh, r.x, r.y)
           b  == MapPoint(InverseOf(o), ow, oh, r.x + r.w - 1, r.y + r.h - 1)
<1>1. ow \in Int /\ oh \in Int
  OBVIOUS
<1>2. /\ r.x \in Int /\ r.y \in Int
      /\ r.x + r.w - 1 \in Int /\ r.y + r.h - 1 \in Int
  BY DEF RectType
<1> HIDE DEF ow, oh
<1>3. a[1] \in Int /\ a[2] \in Int /\ b[1] \in Int /\ b[2] \in Int
  BY <1>1, <1>2, InverseType, MapType
<1>4. MapRectBack(r, o, w, h)
        = Rect(Least(a[1], b[1]), Least(a[2], b[2]), Abs(b[1] - a[1]) + 1, Abs(b[2] - a[2]) + 1)
  BY DEF MapRectBack, ow, oh
<1> HIDE DEF a, b
<1> QED
  BY <1>3, <1>4 DEF Rect, RectType, Least, Abs

LEMMA AngleType ==
  ASSUME NEW a \in Angles \cup {Upright}
  PROVE  /\ a.s \in Int /\ a.c \in Int /\ a.d \in Int
         /\ a.d > 0 /\ a.c > 0
<1>1. CASE a = Upright
  BY <1>1 DEF Upright
<1>2. CASE a \in Angles
  <2>1. IsAngle(a) /\ WithinLimit(a)
    BY <1>2, AngleAssumption
  <2>2. a.s \in Int /\ a.c \in Int /\ a.d \in Int /\ a.d > 0
    BY <2>1 DEF IsAngle
  <2>3. a.c >= 0
    BY <2>1, <2>2 DEF WithinLimit
  <2>4. a.c # 0
    <3>1. SUFFICES ASSUME a.c = 0 PROVE FALSE
      OBVIOUS
    <3>2. a.s = 0
      BY <2>1, <2>2, <3>1 DEF WithinLimit
    <3>3. a.s * a.s + a.c * a.c = 0
      BY <3>1, <3>2
    <3>4. a.d * a.d > 0
      BY <2>2
    <3> QED
      BY <2>1, <3>3, <3>4 DEF IsAngle
  <2> QED
    BY <2>2, <2>3, <2>4
<1> QED
  BY <1>1, <1>2

LEMMA DivType ==
  ASSUME NEW n \in Int, NEW q \in Int, q > 0
  PROVE  n \div q \in Int
  OBVIOUS

LEMMA InscribedType ==
  ASSUME NEW r \in RectType, NEW a \in Angles \cup {Upright}
  PROVE  InscribedFrame(r, a) \in RectType
<1>1. CASE a.s = 0
  BY <1>1 DEF InscribedFrame
<1>2. CASE a.s # 0
  <2> DEFINE across == r.w * a.c + r.h * Abs(a.s)
             down == r.w * Abs(a.s) + r.h * a.c
             wide == r.w * down <= r.h * across
             p == IF r.w * down <= r.h * across THEN r.w ELSE r.h
             q == IF r.w * down <= r.h * across THEN across ELSE down
             w == Most(1, (r.w * p * a.d) \div q)
             h == Most(1, (r.h * p * a.d) \div q)
  <2>1. /\ r.x \in Int /\ r.y \in Int /\ r.w \in Int /\ r.h \in Int
        /\ r.w > 0 /\ r.h > 0
    BY DEF RectType
  <2>2. /\ a.s \in Int /\ a.c \in Int /\ a.d \in Int
        /\ a.c > 0 /\ a.d > 0
    BY AngleType
  <2>3. Abs(a.s) \in Int /\ Abs(a.s) > 0
    BY <1>2, <2>2 DEF Abs
  <2>4. /\ r.w * a.c \in Int /\ r.w * a.c > 0
        /\ r.h * a.c \in Int /\ r.h * a.c > 0
        /\ r.w * Abs(a.s) \in Int /\ r.w * Abs(a.s) > 0
        /\ r.h * Abs(a.s) \in Int /\ r.h * Abs(a.s) > 0
    BY <2>1, <2>2, <2>3
  <2>5. across \in Int /\ across > 0 /\ down \in Int /\ down > 0
    BY <2>4
  <2> HIDE DEF across, down
  <2>6. p \in Int /\ q \in Int /\ q > 0
    BY <2>1, <2>5
  <2> HIDE DEF p, q
  <2>7. r.w * p * a.d \in Int /\ r.h * p * a.d \in Int
    BY <2>1, <2>2, <2>6
  <2>8. (r.w * p * a.d) \div q \in Int /\ (r.h * p * a.d) \div q \in Int
    BY <2>6, <2>7, DivType
  <2>9. w \in Nat \ {0} /\ h \in Nat \ {0}
    BY <2>8 DEF Most
  <2>10. InscribedFrame(r, a) = Rect(r.x + (r.w - w) \div 2, r.y + (r.h - h) \div 2, w, h)
    BY <1>2 DEF InscribedFrame, across, down, p, q
  <2> HIDE DEF w, h
  <2>11. r.x + (r.w - w) \div 2 \in Int /\ r.y + (r.h - h) \div 2 \in Int
    BY <2>1, <2>9
  <2> QED
    BY <2>9, <2>10, <2>11 DEF Rect, RectType
<1> QED
  BY <1>1, <1>2

LEMMA SizeType ==
  ASSUME NEW g \in GeometryType, g.tw = 0 <=> g.th = 0
  PROVE  /\ NaturalWidth(g) \in Nat \ {0} /\ NaturalHeight(g) \in Nat \ {0}
         /\ OutputWidth(g) \in Nat \ {0} /\ OutputHeight(g) \in Nat \ {0}
<1>1. /\ g.frame.w \in Nat \ {0} /\ g.frame.h \in Nat \ {0}
      /\ g.tw \in Nat /\ g.th \in Nat
  BY DEF GeometryType, RectType
<1> QED
  BY <1>1 DEF NaturalWidth, NaturalHeight, OutputWidth, OutputHeight

LEMMA InNaturalType ==
  ASSUME NEW g \in GeometryType, g.tw = 0 <=> g.th = 0, NEW r \in RectType
  PROVE  InNatural(g, r) \in RectType
<1> DEFINE nw == NaturalWidth(g)
           nh == NaturalHeight(g)
<1>1. nw \in Int /\ nh \in Int
  BY SizeType
<1>2. g.tw \in Nat /\ g.th \in Nat
  BY DEF GeometryType
<1>3. r.x \in Int /\ r.y \in Int /\ r.w \in Int /\ r.h \in Int
  BY DEF RectType
<1> HIDE DEF nw, nh
<1>4. r.x * nw \in Int /\ r.w * nw \in Int /\ r.y * nh \in Int /\ r.h * nh \in Int
  BY <1>1, <1>3
<1>5. /\ g.tw > 0 => Round(r.x * nw, g.tw) \in Int /\ Round(r.w * nw, g.tw) \in Int
      /\ g.th > 0 => Round(r.y * nh, g.th) \in Int /\ Round(r.h * nh, g.th) \in Int
  <2> DEFINE x == r.x * nw  y == r.y * nh  w == r.w * nw  h == r.h * nh
  <2>1. x \in Int /\ y \in Int /\ w \in Int /\ h \in Int
    BY <1>4
  <2> HIDE DEF x, y, w, h
  <2>2. g.tw > 0 => Round(x, g.tw) \in Int /\ Round(w, g.tw) \in Int
    BY <1>2, <2>1, RoundType
  <2>3. g.th > 0 => Round(y, g.th) \in Int /\ Round(h, g.th) \in Int
    BY <1>2, <2>1, RoundType
  <2> QED BY <2>2, <2>3 DEF x, y, w, h
<1>6. InNatural(g, r) = Rect(IF g.tw > 0 THEN Round(r.x * nw, g.tw) ELSE r.x,
                             IF g.th > 0 THEN Round(r.y * nh, g.th) ELSE r.y,
                             Most(1, IF g.tw > 0 THEN Round(r.w * nw, g.tw) ELSE r.w),
                             Most(1, IF g.th > 0 THEN Round(r.h * nh, g.th) ELSE r.h))
  BY DEF InNatural, nw, nh
<1> QED
  BY <1>3, <1>5, <1>6 DEF Rect, RectType, Most

LEMMA CroppedFrameType ==
  ASSUME NEW g \in GeometryType, g.tw = 0 <=> g.th = 0, NEW r \in RectType
  PROVE  CroppedFrame(g, r) \in [x : Int, y : Int, w : Int, h : Int]
<1> DEFINE in == MapRectBack(InNatural(g, r), g.orientation, g.frame.w, g.frame.h)
           a  == g.angle
           dx == 2 * in.x + in.w - g.frame.w
           dy == 2 * in.y + in.h - g.frame.h
           fx == (2 * g.frame.x + g.frame.w - in.w) * a.d + dx * a.c - dy * a.s
           fy == (2 * g.frame.y + g.frame.h - in.h) * a.d + dx * a.s + dy * a.c
<1>1. /\ g.frame \in RectType
      /\ g.orientation \in Orientations
      /\ a \in Angles \cup {Upright}
  BY DEF GeometryType
<1>2. /\ g.frame.x \in Int /\ g.frame.y \in Int
      /\ g.frame.w \in Nat \ {0} /\ g.frame.h \in Nat \ {0}
  BY <1>1 DEF RectType
<1>3. in \in RectType
  BY <1>1, <1>2, InNaturalType, MapRectType
<1> HIDE DEF in
<1>4. in.x \in Int /\ in.y \in Int /\ in.w \in Int /\ in.h \in Int
  BY <1>3 DEF RectType
<1>5. a.s \in Int /\ a.c \in Int /\ a.d \in Int /\ a.d > 0
  BY <1>1, AngleType
<1>6. CroppedFrame(g, r) =
        IF a.s = 0
        THEN Intersect(Rect(in.x + g.frame.x, in.y + g.frame.y, in.w, in.h), g.frame)
        ELSE Rect(Round(fx, 2 * a.d), Round(fy, 2 * a.d), in.w, in.h)
  BY DEF CroppedFrame, in
<1> HIDE DEF a
<1>7. CASE a.s = 0
  BY <1>2, <1>4, <1>6, <1>7 DEF Intersect, Rect, Nothing, Most, Least
<1>8. CASE a.s # 0
  <2>1. dx \in Int /\ dy \in Int
    BY <1>2, <1>4
  <2>2. /\ 2 * g.frame.x + g.frame.w - in.w \in Int
        /\ 2 * g.frame.y + g.frame.h - in.h \in Int
    BY <1>2, <1>4
  <2> HIDE DEF dx, dy
  <2>3. /\ (2 * g.frame.x + g.frame.w - in.w) * a.d \in Int
        /\ (2 * g.frame.y + g.frame.h - in.h) * a.d \in Int
        /\ dx * a.c \in Int /\ dy * a.s \in Int /\ dx * a.s \in Int /\ dy * a.c \in Int
    BY <1>5, <2>1, <2>2
  <2>4. fx \in Int /\ fy \in Int /\ 2 * a.d \in Int /\ 2 * a.d > 0
    BY <1>5, <2>3
  <2> HIDE DEF fx, fy
  <2>5. Round(fx, 2 * a.d) \in Int /\ Round(fy, 2 * a.d) \in Int
    BY <2>4, RoundType
  <2> QED
    BY <1>4, <1>6, <1>8, <2>5 DEF Rect
<1> QED
  BY <1>7, <1>8

\* Every operation the engine accepts leaves a geometry that can be rendered.
LEMMA ReorientType ==
  ASSUME NEW g \in GeometryType, g.tw = 0 <=> g.th = 0, NEW b \in {2, 3, 4, 6, 8}
  PROVE  /\ Reorient(g, b) \in GeometryType
         /\ Reorient(g, b).tw = 0 <=> Reorient(g, b).th = 0
<1>1. g.orientation \in Orientations
  BY DEF GeometryType
<1>2. Compose(b, g.orientation) \in Orientations
  BY <1>1, ComposeType
<1> QED
  BY <1>2 DEF Reorient, GeometryType

LEMMA RotatedType ==
  ASSUME NEW g \in GeometryType, g.tw = 0 <=> g.th = 0, NEW q \in 1 .. 3
  PROVE  /\ Rotated(g, q) \in GeometryType
         /\ Rotated(g, q).tw = 0 <=> Rotated(g, q).th = 0
<1> DEFINE turned == Reorient(g, RotateQuarters(q))
<1>1. /\ turned \in GeometryType
      /\ turned.tw = 0 <=> turned.th = 0
  BY RotateType, ReorientType
<1>2. Rotated(g, q) = IF q % 2 = 0 THEN turned ELSE [turned EXCEPT !.tw = g.th, !.th = g.tw]
  BY DEF Rotated
<1> HIDE DEF turned
<1> QED
  BY <1>1, <1>2 DEF GeometryType

LEMMA StraightenedType ==
  ASSUME NEW g \in GeometryType, g.tw = 0 <=> g.th = 0, NEW a \in Angles
  PROVE  /\ Straightened(g, a) \in GeometryType
         /\ Straightened(g, a).tw = 0 <=> Straightened(g, a).th = 0
<1>1. InscribedFrame(g.base, a) \in RectType
  BY InscribedType DEF GeometryType
<1> QED
  BY <1>1 DEF Straightened, GeometryType

LEMMA ResizedType ==
  ASSUME NEW g \in GeometryType, NEW w \in Nat \ {0}, NEW h \in Nat \ {0}
  PROVE  /\ Resized(g, w, h) \in GeometryType
         /\ Resized(g, w, h).tw = 0 <=> Resized(g, w, h).th = 0
<1>1. Most(1, w) \in Nat \ {0} /\ Most(1, h) \in Nat \ {0}
  BY DEF Most
<1> QED
  BY <1>1 DEF Resized, GeometryType

LEMMA CroppedType ==
  ASSUME NEW g \in GeometryType, g.tw = 0 <=> g.th = 0, NEW r \in RectType,
         ~IsEmpty(Cropped(g, r).frame)
  PROVE  /\ Cropped(g, r) \in GeometryType
         /\ Cropped(g, r).tw = 0 <=> Cropped(g, r).th = 0
         /\ Cropped(g, r).frame \in RectType
<1> DEFINE f == CroppedFrame(g, r)
           kpt == [g EXCEPT !.frame = f, !.base = f]
           tw == Most(1, Round(NaturalWidth(kpt) * g.tw, NaturalWidth(g)))
           th == Most(1, Round(NaturalHeight(kpt) * g.th, NaturalHeight(g)))
<1>1. Cropped(g, r) = IF g.tw > 0 THEN [kpt EXCEPT !.tw = tw, !.th = th] ELSE kpt
  BY DEF Cropped
<1>2. Cropped(g, r).frame = f
  BY <1>1 DEF GeometryType
<1>3. f \in RectType
  BY <1>2, CroppedFrameType DEF IsEmpty, RectType
<1>4. kpt \in GeometryType /\ (kpt.tw = 0 <=> kpt.th = 0)
  BY <1>3 DEF GeometryType
<1>5. /\ NaturalWidth(kpt) \in Nat \ {0} /\ NaturalHeight(kpt) \in Nat \ {0}
      /\ NaturalWidth(g) \in Nat \ {0} /\ NaturalHeight(g) \in Nat \ {0}
  BY <1>4, SizeType
<1>6. g.tw \in Nat /\ g.th \in Nat
  BY DEF GeometryType
<1>7. /\ NaturalWidth(kpt) * g.tw \in Int /\ NaturalHeight(kpt) * g.th \in Int
  BY <1>5, <1>6
<1>8. /\ Round(NaturalWidth(kpt) * g.tw, NaturalWidth(g)) \in Int
      /\ Round(NaturalHeight(kpt) * g.th, NaturalHeight(g)) \in Int
  BY <1>5, <1>7, RoundType
<1>9. tw \in Nat \ {0} /\ th \in Nat \ {0}
  BY <1>8 DEF Most
<1> HIDE DEF tw, th, kpt, f
<1> QED
  BY <1>1, <1>2, <1>3, <1>4, <1>9 DEF GeometryType

-----------------------------------------------------------------------------
(* The theorems.                                                           *)

LEMMA TypedFields ==
  ASSUME TypeOK
  PROVE  geometry \in GeometryType /\ (geometry.tw = 0 <=> geometry.th = 0)
  BY DEF TypeOK

LEMMA InitType == Init => TypeOK
<1> SUFFICES ASSUME Init PROVE TypeOK
  OBVIOUS
<1>1. Rect(0, 0, Width, Height) \in RectType
  BY PhotoAssumption DEF Rect, RectType
<1>2. Whole(Width, Height) \in GeometryType
  BY <1>1 DEF Whole, GeometryType, TopLeft, Orientations
<1>3. Whole(Width, Height).tw = 0 /\ Whole(Width, Height).th = 0
  BY DEF Whole
<1>4. 0 \in 0 .. MaxOperations
  BY LengthAssumption
<1>5. /\ geometry = Whole(Width, Height) /\ length = 0
      /\ kept = Rect(0, 0, Width, Height) /\ turnedCrop = FALSE
  BY DEF Init
<1>6. geometry \in GeometryType /\ (geometry.tw = 0 <=> geometry.th = 0)
  BY <1>2, <1>3, <1>5
<1> QED
  BY <1>1, <1>4, <1>5, <1>6 DEF TypeOK

LEMMA ApplyType ==
  ASSUME TypeOK, NEW g \in GeometryType, g.tw = 0 <=> g.th = 0, Apply(g),
         kept' \in RectType, turnedCrop' \in BOOLEAN
  PROVE  TypeOK'
<1>1. length' \in 0 .. MaxOperations
  BY LengthAssumption DEF TypeOK, Apply
<1> QED
  BY <1>1 DEF TypeOK, Apply

LEMMA ChoiceType ==
  ASSUME NEW r \in CropChoices
  PROVE  r \in RectType
<1> DEFINE hs == Within(Spans(OutputWidth(geometry)), OutputWidth(geometry))
           vs == Within(Spans(OutputHeight(geometry)), OutputHeight(geometry))
<1>1. PICK h \in hs, v \in vs : r = Rect(h[1], v[1], h[2], v[2])
  BY DEF CropChoices
<1>2. h[1] \in Nat /\ h[2] \in Nat \ {0} /\ v[1] \in Nat /\ v[2] \in Nat \ {0}
  BY DEF Within
<1> QED
  BY <1>1, <1>2 DEF Rect, RectType

LEMMA StepType == TypeOK /\ [Next]_vars => TypeOK'
<1> SUFFICES ASSUME TypeOK, [Next]_vars PROVE TypeOK'
  OBVIOUS
<1>0. /\ geometry \in GeometryType
      /\ geometry.tw = 0 <=> geometry.th = 0
      /\ kept \in RectType /\ turnedCrop \in BOOLEAN
  BY DEF TypeOK
<1>1. CASE \E q \in 1 .. 3 : Rotate(q)
  <2> PICK q \in 1 .. 3 : Rotate(q)
    BY <1>1
  <2> QED
    BY <1>0, RotatedType, ApplyType DEF Rotate
<1>2. CASE \E m \in {FlipHorizontal, FlipVertical} : Flip(m)
  <2> PICK m \in {FlipHorizontal, FlipVertical} : Flip(m)
    BY <1>2
  <2>1. m \in {2, 3, 4, 6, 8}
    BY DEF FlipHorizontal, FlipVertical
  <2> QED
    BY <1>0, <2>1, ReorientType, ApplyType DEF Flip
<1>3. CASE \E a \in Angles : Straighten(a)
  <2> PICK a \in Angles : Straighten(a)
    BY <1>3
  <2> QED
    BY <1>0, StraightenedType, ApplyType DEF Straighten
<1>4. CASE \E z \in Sizes : Resize(z[1], z[2])
  <2> PICK z \in Sizes : Resize(z[1], z[2])
    BY <1>4
  <2>1. z[1] \in Nat \ {0} /\ z[2] \in Nat \ {0}
    BY SizeAssumption
  <2> QED
    BY <1>0, <2>1, ResizedType, ApplyType DEF Resize
<1>5. CASE \E r \in CropChoices : Crop(r)
  <2> PICK r \in CropChoices : Crop(r)
    BY <1>5
  <2>1. r \in RectType
    BY ChoiceType
  <2>2. ~IsEmpty(Cropped(geometry, r).frame)
    BY DEF Crop, Apply
  <2>3. /\ Cropped(geometry, r) \in GeometryType
        /\ Cropped(geometry, r).tw = 0 <=> Cropped(geometry, r).th = 0
        /\ Cropped(geometry, r).frame \in RectType
    BY <1>0, <2>1, <2>2, CroppedType
  <2>4. kept' \in RectType
    BY <2>3 DEF Crop, Apply
  <2>5. turnedCrop' \in BOOLEAN
    BY <1>0 DEF Crop
  <2> QED
    BY <2>3, <2>4, <2>5, ApplyType DEF Crop
<1>6. CASE UNCHANGED vars
  BY <1>6 DEF vars, TypeOK
<1> QED
  BY <1>1, <1>2, <1>3, <1>4, <1>5, <1>6 DEF Next

\* Every accepted stack leaves at least a pixel to read and to write, at any
\* order of turns, mirrors, angles, crops and resizes: no division of the fold
\* or the renderer is by zero. (FoldGeometry)
THEOREM TypeCorrect == Spec => []TypeOK
<1>1. Init => TypeOK
  BY InitType
<1>2. TypeOK /\ [Next]_vars => TypeOK'
  BY StepType
<1> QED
  BY <1>1, <1>2, PTL DEF Spec

\* A quarter turn of any stack shows every point it showed, a quarter turn
\* further on. (kRotate)
THEOREM TurnsAreTrue == Spec => [][TurnsWhatIsShown]_vars
<1> DEFINE quarterTurns ==
      \A px \in 0 .. OutputWidth(geometry) : \A py \in 0 .. OutputHeight(geometry) :
        Rotate(1) => SamePoint(At(geometry', OutputHeight(geometry) - py, px),
                               At(geometry, px, py))
<1>1. TypeOK => quarterTurns
  <2> SUFFICES ASSUME TypeOK,
                      NEW px \in 0 .. OutputWidth(geometry),
                      NEW py \in 0 .. OutputHeight(geometry),
                      Rotate(1)
               PROVE  SamePoint(At(geometry', OutputHeight(geometry) - py, px),
                                At(geometry, px, py))
    OBVIOUS
  <2> DEFINE o == geometry.orientation
             w == OutputWidth(geometry)
             h == OutputHeight(geometry)
  <2>1. /\ geometry \in GeometryType
        /\ geometry.tw = 0 <=> geometry.th = 0
    BY DEF TypeOK
  <2>2. o \in Orientations /\ w \in Int /\ h \in Int /\ px \in Int /\ py \in Int
    BY <2>1, SizeType DEF GeometryType
  <2>3. geometry' = Rotated(geometry, 1)
    BY DEF Rotate, Apply
  <2>4. /\ geometry'.orientation = Compose(RotateQuarters(1), o)
        /\ geometry'.frame = geometry.frame /\ geometry'.angle = geometry.angle
        /\ geometry'.tw = geometry.th /\ geometry'.th = geometry.tw
    BY <2>1, <2>3 DEF Rotated, Reorient, GeometryType
  <2>5. SwapsAxes(geometry'.orientation) <=> ~SwapsAxes(o)
    BY <2>2, <2>4, TurnTable DEF SwapsAxes, Orientations
  <2>6. OutputWidth(geometry') = h /\ OutputHeight(geometry') = w
    BY <2>1, <2>4, <2>5 DEF OutputWidth, OutputHeight, NaturalWidth, NaturalHeight, GeometryType
  <2>7. /\ RasterWidth(geometry') = RasterWidth(geometry)
        /\ RasterHeight(geometry') = RasterHeight(geometry)
    BY <2>5, <2>6 DEF RasterWidth, RasterHeight
  <2>8. MapPoint(InverseOf(geometry'.orientation), OutputWidth(geometry') + 1,
                 OutputHeight(geometry') + 1, h - py, px)
          = MapPoint(InverseOf(o), w + 1, h + 1, px, py)
    <3> HIDE DEF o, w, h
    <3>1. MapPoint(InverseOf(Compose(RotateQuarters(1), o)), h + 1, w + 1, h - py, px)
            = MapPoint(InverseOf(o), w + 1, h + 1, px, py)
      BY ONLY <2>2, ReadBack
    <3> QED
      BY <2>4, <2>6, <3>1 DEF o, w, h
  <2>9. At(geometry', h - py, px) = At(geometry, px, py)
    BY <2>4, <2>7, <2>8 DEF At
  <2> QED
    BY <2>9 DEF SamePoint
<1>2. quarterTurns => TurnsWhatIsShown
  BY DEF TurnsWhatIsShown
<1> HIDE DEF quarterTurns
<1>3. TypeOK /\ [Next]_vars => [TurnsWhatIsShown]_vars
  BY <1>1, <1>2
<1> QED
  BY <1>3, TypeCorrect, PTL DEF Spec

\* A flip of any stack mirrors what it showed and nothing else. (kFlip*)
THEOREM FlipsAreTrue == Spec => [][MirrorsWhatIsShown]_vars
<1> DEFINE mirrors ==
      \A px \in 0 .. OutputWidth(geometry) : \A py \in 0 .. OutputHeight(geometry) :
        /\ Flip(FlipHorizontal) => SamePoint(At(geometry', OutputWidth(geometry) - px, py),
                                             At(geometry, px, py))
        /\ Flip(FlipVertical) => SamePoint(At(geometry', px, OutputHeight(geometry) - py),
                                           At(geometry, px, py))
<1>1. ASSUME TypeOK, NEW m \in {FlipHorizontal, FlipVertical}, Flip(m)
      PROVE  /\ geometry'.orientation = Compose(m, geometry.orientation)
             /\ geometry'.frame = geometry.frame /\ geometry'.angle = geometry.angle
             /\ OutputWidth(geometry') = OutputWidth(geometry)
             /\ OutputHeight(geometry') = OutputHeight(geometry)
             /\ RasterWidth(geometry') = RasterWidth(geometry)
             /\ RasterHeight(geometry') = RasterHeight(geometry)
  <2>1. geometry \in GeometryType /\ geometry.orientation \in Orientations
    BY <1>1 DEF TypeOK, GeometryType
  <2>2. geometry' = Reorient(geometry, m)
    BY <1>1 DEF Flip, Apply
  <2>3. /\ geometry'.orientation = Compose(m, geometry.orientation)
        /\ geometry'.frame = geometry.frame /\ geometry'.angle = geometry.angle
        /\ geometry'.tw = geometry.tw /\ geometry'.th = geometry.th
    BY <2>1, <2>2 DEF Reorient, GeometryType
  <2>4. SwapsAxes(geometry'.orientation) <=> SwapsAxes(geometry.orientation)
    BY <1>1, <2>1, <2>3, FlipTables DEF SwapsAxes, Orientations
  <2>5. /\ OutputWidth(geometry') = OutputWidth(geometry)
        /\ OutputHeight(geometry') = OutputHeight(geometry)
    BY <2>3, <2>4 DEF OutputWidth, OutputHeight, NaturalWidth, NaturalHeight
  <2> QED
    BY <2>3, <2>4, <2>5 DEF RasterWidth, RasterHeight
<1>2. TypeOK => mirrors
  <2> SUFFICES ASSUME TypeOK,
                      NEW px \in 0 .. OutputWidth(geometry),
                      NEW py \in 0 .. OutputHeight(geometry)
               PROVE  /\ Flip(FlipHorizontal) =>
                           SamePoint(At(geometry', OutputWidth(geometry) - px, py),
                                     At(geometry, px, py))
                      /\ Flip(FlipVertical) =>
                           SamePoint(At(geometry', px, OutputHeight(geometry) - py),
                                     At(geometry, px, py))
    OBVIOUS
  <2> DEFINE o == geometry.orientation
             w == OutputWidth(geometry)
             h == OutputHeight(geometry)
  <2>1. o \in Orientations /\ w \in Int /\ h \in Int /\ px \in Int /\ py \in Int
    BY SizeType DEF TypeOK, GeometryType
  <2>2. /\ MapPoint(InverseOf(Compose(FlipHorizontal, o)), w + 1, h + 1, w - px, py)
             = MapPoint(InverseOf(o), w + 1, h + 1, px, py)
        /\ MapPoint(InverseOf(Compose(FlipVertical, o)), w + 1, h + 1, px, h - py)
             = MapPoint(InverseOf(o), w + 1, h + 1, px, py)
    <3> HIDE DEF o, w, h
    <3> QED
      BY ONLY <2>1, ReadBack
  <2>3. ASSUME Flip(FlipHorizontal)
        PROVE  At(geometry', w - px, py) = At(geometry, px, py)
    BY <1>1, <2>2, <2>3 DEF At
  <2>4. ASSUME Flip(FlipVertical)
        PROVE  At(geometry', px, h - py) = At(geometry, px, py)
    BY <1>1, <2>2, <2>4 DEF At
  <2> QED
    BY <2>3, <2>4 DEF SamePoint
<1>3. mirrors => MirrorsWhatIsShown
  BY DEF MirrorsWhatIsShown
<1> HIDE DEF mirrors
<1>4. TypeOK /\ [Next]_vars => [MirrorsWhatIsShown]_vars
  BY <1>2, <1>3
<1> QED
  BY <1>4, TypeCorrect, PTL DEF Spec

\* The stop a slider ends on decides the geometry, whatever it sent on the
\* way. (kStraighten)
THEOREM AngleForgets == Spec => [][AngleIsAbsolute]_vars
<1>1. ASSUME TypeOK, NEW a \in Angles, NEW b \in Angles, Straighten(a)
      PROVE  Straightened(geometry', b) = Straightened(geometry, b)
  <2>1. geometry \in GeometryType /\ geometry' = Straightened(geometry, a)
    BY <1>1 DEF TypeOK, Straighten, Apply
  <2>2. Straightened(geometry, a).base = geometry.base
    BY <2>1 DEF Straightened, GeometryType
  <2> QED
    BY <2>1, <2>2 DEF Straightened, GeometryType
<1>2. TypeOK /\ [Next]_vars => [AngleIsAbsolute]_vars
  BY <1>1 DEF AngleIsAbsolute
<1> QED
  BY <1>2, TypeCorrect, PTL DEF Spec

\* Rounding to a whole number, and never to zero, moves a positive quotient by at
\* most one.
LEMMA RoundedIsNear ==
  ASSUME NEW p \in Nat \ {0}, NEW q \in Nat \ {0}
  PROVE  Abs(Most(1, Round(p, q)) * q - p) <= q
<1> DEFINE k == (2 * p + q) \div (2 * q)
<1>1. k \in Int /\ 2 * q * k <= 2 * p + q /\ 2 * p + q < 2 * q * (k + 1)
  <2> DEFINE a == 2 * p + q  b == 2 * q
  <2>1. a \in Nat /\ b \in Nat /\ b > 0
    OBVIOUS
  <2> HIDE DEF a, b
  <2>2. a \div b \in Int /\ b * (a \div b) <= a /\ a < b * (a \div b + 1)
    BY <2>1, Z3
  <2> QED BY <2>2 DEF a, b
<1>2. Round(p, q) = k
  BY DEF Round
<1> HIDE DEF k
<1> DEFINE m == q * k
<1>3. 2 * q * k = 2 * m /\ 2 * q * (k + 1) = 2 * m + 2 * q /\ k * q = m /\ m \in Int
  BY <1>1
<1> HIDE DEF m
<1>4. 2 * m <= 2 * p + q /\ 2 * p < 2 * m + q
  BY <1>1, <1>3
<1>5. CASE k >= 1
  <2>1. Most(1, Round(p, q)) * q = m
    BY <1>1, <1>2, <1>3, <1>5 DEF Most
  <2> QED BY <1>3, <1>4, <2>1 DEF Abs
<1>6. CASE k < 1
  <2>1. Most(1, Round(p, q)) * q = q
    BY <1>1, <1>2, <1>6 DEF Most
  <2>2. m <= 0
    <3>1. k <= 0
      BY <1>1, <1>6
    <3> QED BY <1>1, <3>1 DEF m
  <2>3. 2 * p < q
    BY <1>3, <1>4, <2>2
  <2> QED BY <2>1, <2>3 DEF Abs
<1> QED BY <1>1, <1>5, <1>6

\* A crop after a resize keeps how big a pixel is on screen, to the rounding to
\* whole pixels, through any turns and angles in between. (kCrop)
THEOREM CropKeepsTheScale == Spec => [][KeepsTheScale]_vars
<1>1. ASSUME TypeOK, NEW r \in CropChoices, Crop(r), geometry.tw > 0
      PROVE  /\ Abs(geometry'.tw * NaturalWidth(geometry) - NaturalWidth(geometry') * geometry.tw)
                  <= NaturalWidth(geometry)
             /\ Abs(geometry'.th * NaturalHeight(geometry) - NaturalHeight(geometry') * geometry.th)
                  <= NaturalHeight(geometry)
  <2> DEFINE g == geometry
             f == CroppedFrame(g, r)
             kpt == [g EXCEPT !.frame = f, !.base = f]
             nw == NaturalWidth(kpt)  ow == NaturalWidth(g)
             nh == NaturalHeight(kpt)  oh == NaturalHeight(g)
             tw == Most(1, Round(nw * g.tw, ow))
             th == Most(1, Round(nh * g.th, oh))
  <2>1. g \in GeometryType /\ (g.tw = 0 <=> g.th = 0) /\ g.tw > 0 /\ g.tw \in Nat /\ g.th \in Nat
    BY <1>1 DEF TypeOK, GeometryType
  <2>2. geometry' = Cropped(g, r) /\ ~IsEmpty(Cropped(g, r).frame)
    BY <1>1 DEF Crop, Apply
  <2>3. geometry' = [kpt EXCEPT !.tw = tw, !.th = th]
    BY <2>1, <2>2 DEF Cropped
  <2>4. r \in RectType
    BY <1>1, ChoiceType
  <2>5. f \in RectType
    <3>1. Cropped(g, r).frame = f
      BY <2>1, <2>2, <2>3 DEF GeometryType
    <3> QED BY <2>1, <2>2, <2>4, <3>1, CroppedType
  <2>6. kpt \in GeometryType /\ (kpt.tw = 0 <=> kpt.th = 0)
    <3> HIDE DEF f
    <3> QED BY <2>1, <2>5 DEF GeometryType
  <2>7. /\ nw \in Nat \ {0} /\ ow \in Nat \ {0} /\ nh \in Nat \ {0} /\ oh \in Nat \ {0}
    BY <2>1, <2>6, SizeType
  <2>8. geometry'.tw = tw /\ geometry'.th = th
    <3> HIDE DEF kpt, tw, th
    <3> QED BY <2>3, <2>6 DEF GeometryType
  <2>9. NaturalWidth(geometry') = nw /\ NaturalHeight(geometry') = nh
    <3> HIDE DEF kpt, tw, th
    <3>1. geometry'.orientation = kpt.orientation /\ geometry'.frame = kpt.frame
      BY <2>3, <2>6 DEF GeometryType
    <3> QED BY <3>1 DEF NaturalWidth, NaturalHeight
  <2> DEFINE p == nw * g.tw  q == nh * g.th
  <2>10. p \in Nat \ {0} /\ q \in Nat \ {0}
    <3> HIDE DEF nw, nh, g
    <3>1. g.tw \in Nat \ {0} /\ g.th \in Nat \ {0}
      BY <2>1
    <3> QED BY <2>7, <3>1
  <2> HIDE DEF nw, nh, ow, oh, kpt, f, g
  <2>11. Abs(Most(1, Round(p, ow)) * ow - p) <= ow /\ Abs(Most(1, Round(q, oh)) * oh - q) <= oh
    <3> HIDE DEF p, q
    <3> QED BY <2>7, <2>10, RoundedIsNear
  <2> QED BY <2>8, <2>9, <2>11 DEF g, ow, oh
<1>2. TypeOK /\ [Next]_vars => [KeepsTheScale]_vars
  BY <1>1 DEF KeepsTheScale
<1> QED
  BY <1>2, TypeCorrect, PTL DEF Spec

-----------------------------------------------------------------------------
(* The frame inside what the crops kept.                                   *)

\* Until a crop is made at an angle, the base is what the crops kept, and the
\* frame is inscribed in it.
FrameIsInscribed ==
  ~turnedCrop =>
    /\ geometry.base = kept
    /\ geometry.frame = InscribedFrame(kept, geometry.angle)

LEMMA InitInscribed == Init => FrameIsInscribed
BY DEF Init, FrameIsInscribed, Whole, Rect, Upright, InscribedFrame

LEMMA StepInscribed == TypeOK /\ FrameIsInscribed /\ [Next]_vars => FrameIsInscribed'
<1> SUFFICES ASSUME TypeOK, FrameIsInscribed, [Next]_vars PROVE FrameIsInscribed'
  OBVIOUS
<1>g. geometry \in GeometryType
  BY DEF TypeOK
<1>1. CASE \E q \in 1 .. 3 : Rotate(q)
  <2>1. PICK q \in 1 .. 3 : Rotate(q)
    BY <1>1
  <2>2. geometry' = Rotated(geometry, q) /\ UNCHANGED <<kept, turnedCrop>>
    BY <2>1 DEF Rotate, Apply
  <2>3. /\ Rotated(geometry, q).base = geometry.base
        /\ Rotated(geometry, q).frame = geometry.frame
        /\ Rotated(geometry, q).angle = geometry.angle
    BY <1>g DEF Rotated, Reorient, GeometryType
  <2> QED BY <2>2, <2>3 DEF FrameIsInscribed
<1>2. CASE \E m \in {FlipHorizontal, FlipVertical} : Flip(m)
  <2>1. PICK m \in {FlipHorizontal, FlipVertical} : Flip(m)
    BY <1>2
  <2>2. geometry' = Reorient(geometry, m) /\ UNCHANGED <<kept, turnedCrop>>
    BY <2>1 DEF Flip, Apply
  <2>3. /\ Reorient(geometry, m).base = geometry.base
        /\ Reorient(geometry, m).frame = geometry.frame
        /\ Reorient(geometry, m).angle = geometry.angle
    BY <1>g DEF Reorient, GeometryType
  <2> QED BY <2>2, <2>3 DEF FrameIsInscribed
<1>3. CASE \E a \in Angles : Straighten(a)
  <2>1. PICK a \in Angles : Straighten(a)
    BY <1>3
  <2>2. geometry' = Straightened(geometry, a) /\ UNCHANGED <<kept, turnedCrop>>
    BY <2>1 DEF Straighten, Apply
  <2>3. /\ Straightened(geometry, a).base = geometry.base
        /\ Straightened(geometry, a).frame = InscribedFrame(geometry.base, a)
        /\ Straightened(geometry, a).angle = a
    BY <1>g DEF Straightened, GeometryType
  <2> QED BY <2>2, <2>3 DEF FrameIsInscribed
<1>4. CASE \E z \in Sizes : Resize(z[1], z[2])
  <2>1. PICK z \in Sizes : Resize(z[1], z[2])
    BY <1>4
  <2>2. geometry' = Resized(geometry, z[1], z[2]) /\ UNCHANGED <<kept, turnedCrop>>
    BY <2>1 DEF Resize, Apply
  <2>3. /\ Resized(geometry, z[1], z[2]).base = geometry.base
        /\ Resized(geometry, z[1], z[2]).frame = geometry.frame
        /\ Resized(geometry, z[1], z[2]).angle = geometry.angle
    BY <1>g DEF Resized, GeometryType
  <2> QED BY <2>2, <2>3 DEF FrameIsInscribed
<1>5. CASE \E r \in CropChoices : Crop(r)
  <2>1. PICK r \in CropChoices : Crop(r)
    BY <1>5
  <2>2. /\ geometry' = Cropped(geometry, r) /\ kept' = geometry'.frame
        /\ turnedCrop' = (turnedCrop \/ geometry.angle # Upright)
    BY <2>1 DEF Crop, Apply
  <2>3. /\ Cropped(geometry, r).base = Cropped(geometry, r).frame
        /\ Cropped(geometry, r).angle = geometry.angle
    BY <1>g DEF Cropped, GeometryType
  <2>4. \A region : InscribedFrame(region, Upright) = region
    BY DEF InscribedFrame, Upright
  <2> QED BY <2>2, <2>3, <2>4 DEF FrameIsInscribed
<1>6. CASE UNCHANGED vars
  BY <1>6 DEF vars, FrameIsInscribed
<1> QED BY <1>1, <1>2, <1>3, <1>4, <1>5, <1>6 DEF Next

\* Point <<x, y>> of a w by h output is read at a corner of the raster.
ReadsCorner(o, w, h, x, y) ==
  LET q == MapPoint(InverseOf(o), w + 1, h + 1, x, y)
  IN  IF SwapsAxes(o) THEN q[1] \in {0, h} /\ q[2] \in {0, w}
                      ELSE q[1] \in {0, w} /\ q[2] \in {0, h}

\* The corners of the output read the corners of the raster.
LEMMA CornersRead ==
  ASSUME NEW o \in Orientations, NEW w \in Nat, NEW h \in Nat, NEW x \in {0, w}, NEW y \in {0, h}
  PROVE  ReadsCorner(o, w, h, x, y)
<1>i. /\ InverseOf(1) = 1 /\ InverseOf(2) = 2 /\ InverseOf(3) = 3 /\ InverseOf(4) = 4
      /\ InverseOf(5) = 5 /\ InverseOf(6) = 8 /\ InverseOf(7) = 7 /\ InverseOf(8) = 6
  BY InverseTable DEF Orientations
<1>1. CASE o = 1 BY <1>1, <1>i DEF ReadsCorner, MapPoint, SwapsAxes
<1>2. CASE o = 2 BY <1>2, <1>i DEF ReadsCorner, MapPoint, SwapsAxes
<1>3. CASE o = 3 BY <1>3, <1>i DEF ReadsCorner, MapPoint, SwapsAxes
<1>4. CASE o = 4 BY <1>4, <1>i DEF ReadsCorner, MapPoint, SwapsAxes
<1>5. CASE o = 5 BY <1>5, <1>i DEF ReadsCorner, MapPoint, SwapsAxes
<1>6. CASE o = 6 BY <1>6, <1>i DEF ReadsCorner, MapPoint, SwapsAxes
<1>7. CASE o = 7 BY <1>7, <1>i DEF ReadsCorner, MapPoint, SwapsAxes
<1>8. CASE o = 8 BY <1>8, <1>i DEF ReadsCorner, MapPoint, SwapsAxes
<1> QED BY <1>1, <1>2, <1>3, <1>4, <1>5, <1>6, <1>7, <1>8 DEF Orientations

LEMMA FloorBound ==
  ASSUME NEW n \in Nat, NEW q \in Nat \ {0}
  PROVE  n \div q \in Nat /\ (n \div q) * q <= n
<1>1. n \div q \in Int /\ q * (n \div q) <= n /\ n < q * (n \div q + 1)
  BY Z3
<1> DEFINE k == n \div q
<1>2. k \in Int /\ q * k <= n /\ n < q * (k + 1)
  BY <1>1
<1> HIDE DEF k
<1>3. k >= 0
  <2> SUFFICES ASSUME k < 0 PROVE FALSE
    BY <1>2
  <2>1. k + 1 <= 0
    BY <1>2
  <2>2. q * (k + 1) <= 0
    BY <1>2, <2>1
  <2> QED BY <1>2, <2>2
<1>4. k * q <= n
  BY <1>2
<1> QED BY <1>2, <1>3, <1>4 DEF k

\* An extent that two rounded down sides stay within, when they are the sides
\* wide and high scaled by p over q, whose scale fits wide by c and high by s in
\* room; a side that would vanish keeps a pixel.
LEMMA TurnedFits ==
  ASSUME NEW wide \in Nat \ {0}, NEW high \in Nat \ {0}, NEW room \in Nat \ {0},
         NEW p \in Nat \ {0}, NEW q \in Nat \ {0},
         NEW c \in Nat, NEW s \in Nat, NEW d \in Nat \ {0}, c <= d, s <= d,
         p * (wide * c + high * s) <= room * q
  PROVE  Most(1, (wide * p * d) \div q) * c + Most(1, (high * p * d) \div q) * s
           <= d * (room + 1)
<1> DEFINE a == wide * p * d  b == high * p * d
           m == a \div q  n == b \div q
<1>1. a \in Nat /\ b \in Nat
  <2>1. wide * p \in Nat /\ high * p \in Nat
    OBVIOUS
  <2> QED BY <2>1
<1>2. m \in Nat /\ n \in Nat /\ m * q <= a /\ n * q <= b
  <2> HIDE DEF a, b
  <2> QED BY <1>1, FloorBound
<1>3. a * c + b * s = d * (p * (wide * c + high * s))
  <2>1. a * c = d * (p * (wide * c))
    OBVIOUS
  <2>2. b * s = d * (p * (high * s))
    OBVIOUS
  <2> DEFINE u == wide * c  v == high * s
  <2>3. u \in Nat /\ v \in Nat
    OBVIOUS
  <2> HIDE DEF a, b, u, v
  <2>4. d * (p * u) + d * (p * v) = d * (p * (u + v))
    BY <2>3
  <2> QED BY <2>1, <2>2, <2>4 DEF u, v
<1>4. (m * c + n * s) * q <= (d * room) * q
  <2> HIDE DEF m, n, a, b
  <2>1. (m * c + n * s) * q = (m * q) * c + (n * q) * s
    BY <1>2
  <2>2. (m * q) * c <= a * c /\ (n * q) * s <= b * s
    <3> DEFINE x == m * q  y == n * q
    <3>1. x \in Nat /\ y \in Nat /\ x <= a /\ y <= b
      BY <1>2
    <3> HIDE DEF x, y
    <3>2. x * c <= a * c /\ y * s <= b * s
      BY <1>1, <3>1
    <3> QED BY <3>2 DEF x, y
  <2> DEFINE t == p * (wide * c + high * s)
  <2>3. t \in Nat /\ t <= room * q
    <3>1. wide * c + high * s \in Nat
      OBVIOUS
    <3> QED BY <3>1
  <2> HIDE DEF t
  <2>4. d * t <= d * (room * q)
    <3> DEFINE z == room * q
    <3>1. z \in Nat /\ t <= z
      BY <2>3
    <3> HIDE DEF z
    <3>2. d * t <= d * z
      BY <2>3, <3>1
    <3> QED BY <3>2 DEF z
  <2>5. d * (room * q) = (d * room) * q
    OBVIOUS
  <2>6. a * c + b * s = d * t
    BY <1>3 DEF t
  <2> DEFINE e1 == (m * q) * c  e2 == (n * q) * s  e3 == a * c  e4 == b * s
             e5 == d * t  e6 == (d * room) * q
  <2>7. /\ e1 \in Int /\ e2 \in Int /\ e3 \in Int /\ e4 \in Int /\ e5 \in Int /\ e6 \in Int
    BY <1>1, <1>2, <2>3
  <2>8. e1 <= e3 /\ e2 <= e4 /\ e3 + e4 = e5 /\ e5 <= e6
    BY <2>2, <2>4, <2>5, <2>6
  <2> HIDE DEF e1, e2, e3, e4, e5, e6
  <2>9. e1 + e2 <= e6
    BY <2>7, <2>8
  <2> QED BY <2>1, <2>9 DEF e1, e2, e6
<1> HIDE DEF m, n
<1>5. m * c + n * s <= d * room
  <2> DEFINE x == m * c + n * s  y == d * room
  <2>1. x \in Nat /\ y \in Nat /\ x * q <= y * q
    BY <1>2, <1>4
  <2> HIDE DEF x, y
  <2>2. x <= y
    BY <2>1
  <2> QED BY <2>2 DEF x, y
<1> DEFINE e == m * c  f == n * s  g == d * room
<1>6. e \in Nat /\ f \in Nat /\ g \in Nat /\ e + f <= g /\ d <= g
  BY <1>2, <1>5
<1>7. d * (room + 1) = g + d
  OBVIOUS
<1>8. /\ Most(1, m) * c = IF m = 0 THEN c ELSE e
      /\ Most(1, n) * s = IF n = 0 THEN s ELSE f
  BY <1>2 DEF Most
<1> HIDE DEF e, f, g
<1>9. Most(1, m) * c + Most(1, n) * s <= d * (room + 1)
  BY <1>6, <1>7, <1>8
<1> QED BY <1>9 DEF m, n

\* The turned frame spans no more than the region and a pixel, on both axes.
LEMMA InscribedSpans ==
  ASSUME NEW r \in RectType, NEW a \in Angles \cup {Upright}, a.s # 0
  PROVE  LET f == InscribedFrame(r, a)
         IN  /\ f.w * a.c + f.h * Abs(a.s) <= a.d * (r.w + 1)
             /\ f.h * a.c + f.w * Abs(a.s) <= a.d * (r.h + 1)
             /\ f.x = r.x + (r.w - f.w) \div 2 /\ f.y = r.y + (r.h - f.h) \div 2
<1> DEFINE c == a.c  s == Abs(a.s)  d == a.d
           across == r.w * a.c + r.h * Abs(a.s)
           down == r.w * Abs(a.s) + r.h * a.c
           p == IF r.w * down <= r.h * across THEN r.w ELSE r.h
           q == IF r.w * down <= r.h * across THEN across ELSE down
           w == Most(1, (r.w * p * a.d) \div q)
           h == Most(1, (r.h * p * a.d) \div q)
<1>1. r.x \in Int /\ r.y \in Int /\ r.w \in Nat \ {0} /\ r.h \in Nat \ {0}
  BY DEF RectType
<1>2. a.s \in Int /\ a.c \in Int /\ a.d \in Int /\ a.d > 0 /\ a.c > 0
  BY AngleType
<1>3. c \in Nat \ {0} /\ s \in Nat \ {0} /\ d \in Nat \ {0}
  BY <1>2 DEF Abs
<1>4. c <= d /\ s <= d
  <2>1. s * s + c * c = d * d
    <3>1. a.s * a.s + a.c * a.c = a.d * a.d
      BY AngleAssumption DEF IsAngle, Upright
    <3>2. s * s = a.s * a.s
      BY <1>2 DEF Abs
    <3> QED BY <3>1, <3>2
  <2> HIDE DEF c, s, d
  <2>2. s * s <= d * d /\ c * c <= d * d
    <3>1. s * s \in Nat /\ c * c \in Nat
      BY <1>3
    <3> QED BY <1>3, <2>1, <3>1
  <2>3. ASSUME NEW x \in Nat, x * x <= d * d PROVE x <= d
    <3> SUFFICES ASSUME x > d PROVE FALSE
      BY <1>3
    <3>1. x * x > d * d
      BY <1>3
    <3> QED BY <1>3, <2>3, <3>1
  <2> QED BY <1>3, <2>2, <2>3
<1>5. across \in Nat \ {0} /\ down \in Nat \ {0}
  <2>1. r.w * c \in Nat \ {0} /\ r.h * s \in Nat /\ r.w * s \in Nat \ {0} /\ r.h * c \in Nat
    BY <1>1, <1>3
  <2> QED BY <2>1
<1>6. across = r.w * c + r.h * s /\ down = r.h * c + r.w * s
  <2>1. r.w * c \in Nat /\ r.h * s \in Nat /\ r.w * s \in Nat /\ r.h * c \in Nat
    BY <1>1, <1>3
  <2> QED BY <2>1
<1> HIDE DEF across, down
<1>7. p \in Nat \ {0} /\ q \in Nat \ {0} /\ p * across <= r.w * q /\ p * down <= r.h * q
  <2>1. r.w * down \in Nat /\ r.h * across \in Nat /\ r.h * down \in Nat /\ r.w * across \in Nat
    BY <1>1, <1>5
  <2>2. CASE r.w * down <= r.h * across
    BY <1>1, <1>5, <2>1, <2>2
  <2>3. CASE ~ (r.w * down <= r.h * across)
    BY <1>1, <1>5, <2>1, <2>3
  <2> QED BY <2>2, <2>3
<1>8. InscribedFrame(r, a) = Rect(r.x + (r.w - w) \div 2, r.y + (r.h - h) \div 2, w, h)
  BY DEF InscribedFrame, across, down, p, q
<1> HIDE DEF p, q
<1>9. w * c + h * s <= d * (r.w + 1)
  <2>1. p * (r.w * c + r.h * s) <= r.w * q
    BY <1>6, <1>7
  <2> HIDE DEF c, s
  <2> QED BY <1>1, <1>3, <1>4, <1>7, <2>1, TurnedFits
<1>10. h * c + w * s <= d * (r.h + 1)
  <2>1. p * (r.h * c + r.w * s) <= r.h * q
    BY <1>6, <1>7
  <2> HIDE DEF c, s
  <2> QED BY <1>1, <1>3, <1>4, <1>7, <2>1, TurnedFits
<1> HIDE DEF w, h
<1> QED BY <1>8, <1>9, <1>10 DEF Rect

\* A w by h frame turned spans no more than n across, and the offset <<u, v>> of a
\* corner from its centre, turned one way or the other, is within n of it.
SpansTurned(w, h, c, s, n) == w * c + h * Abs(s) <= n
TurnsWithin(u, v, c, s, n) ==
  /\ -n <= u * c + v * s /\ u * c + v * s <= n
  /\ -n <= u * c - v * s /\ u * c - v * s <= n

LEMMA TurnedCorner ==
  ASSUME NEW w \in Nat, NEW h \in Nat, NEW c \in Nat, NEW s \in Int, NEW n \in Int,
         NEW u \in Int, NEW v \in Int, u = w \/ u = -w, v = h \/ v = -h,
         SpansTurned(w, h, c, s, n)
  PROVE  TurnsWithin(u, v, c, s, n)
<1>1. w * c \in Nat /\ h * Abs(s) \in Nat
  BY DEF Abs
<1>2. (u * c = w * c \/ u * c = -(w * c)) /\ u * c \in Int
  OBVIOUS
<1>3. (v * s = h * Abs(s) \/ v * s = -(h * Abs(s))) /\ v * s \in Int
  BY DEF Abs
<1> DEFINE i == w * c  j == h * Abs(s)  k == u * c  l == v * s
<1>0. i + j <= n
  BY DEF SpansTurned
<1>4. i \in Nat /\ j \in Nat /\ k \in Int /\ l \in Int /\ k \in {i, -i} /\ l \in {j, -j} /\ i + j <= n
  BY <1>0, <1>1, <1>2, <1>3
<1> HIDE DEF i, j, k, l
<1>5. -n <= k + l /\ k + l <= n /\ -n <= k - l /\ k - l <= n
  BY <1>4
<1> QED BY <1>5 DEF k, l, TurnsWithin

\* One axis of a turned reading: a frame centred in the region, and an offset
\* that spans no more than the region and a pixel, read within a pixel of it.
LEMMA AxisInside ==
  ASSUME NEW start \in Int, NEW room \in Nat, NEW x \in Int, NEW w \in Nat \ {0},
         NEW n \in Nat \ {0}, NEW d \in Nat \ {0}, NEW e \in Int,
         x = start + (room - w) \div 2,
         -(d * (room + 1)) <= e, e <= d * (room + 1)
  PROVE  /\ (start - 1) * (2 * d * n) <= (2 * x + w) * d * n + e * n
         /\ (2 * x + w) * d * n + e * n <= (start + room + 1) * (2 * d * n)
<1> DEFINE k == (room - w) \div 2
           m == 2 * x + w
           low == 2 * (start - 1)  high == 2 * (start + room + 1)
<1>1. k \in Int /\ 2 * k <= room - w /\ room - w <= 2 * k + 1
  OBVIOUS
<1>2. /\ m \in Int /\ low \in Int /\ high \in Int
      /\ low + room + 1 <= m /\ m + room + 1 <= high
  <2> HIDE DEF k
  <2>1. x = start + k
    BY DEF k
  <2> QED BY <1>1, <2>1
<1> HIDE DEF k, m, low, high
<1> DEFINE t == room + 1
<1>3. d * low + d * t <= d * m /\ d * m + d * t <= d * high
  <2>1. t \in Nat /\ low + t <= m /\ m + t <= high
    BY <1>2
  <2> HIDE DEF t
  <2>2. d * (low + t) <= d * m /\ d * (m + t) <= d * high
    <3> DEFINE i == low + t  j == m + t
    <3>1. i \in Int /\ j \in Int /\ i <= m /\ j <= high
      BY <1>2, <2>1
    <3> HIDE DEF i, j
    <3>2. d * i <= d * m /\ d * j <= d * high
      BY <1>2, <3>1
    <3> QED BY <3>2 DEF i, j
  <2>3. d * (low + t) = d * low + d * t /\ d * (m + t) = d * m + d * t
    BY <1>2, <2>1
  <2> QED BY <2>2, <2>3
<1> DEFINE y == d * m + e
<1>4. y \in Int /\ d * low <= y /\ y <= d * high
  <2> DEFINE i == d * low  j == d * m  l == d * high  z == d * t
  <2>1. i \in Int /\ j \in Int /\ l \in Int /\ z \in Nat
    BY <1>2
  <2>2. i + z <= j /\ j + z <= l /\ -z <= e /\ e <= z
    BY <1>3
  <2> HIDE DEF i, j, l, z
  <2>3. i <= j + e /\ j + e <= l
    BY <2>1, <2>2
  <2> QED BY <2>1, <2>3 DEF i, j, l
<1>5. (d * low) * n <= y * n /\ y * n <= (d * high) * n
  <2> DEFINE i == d * low  l == d * high
  <2>1. i \in Int /\ l \in Int /\ i <= y /\ y <= l
    BY <1>2, <1>4
  <2> HIDE DEF i, l, y
  <2>2. i * n <= y * n /\ y * n <= l * n
    BY <1>4, <2>1
  <2> QED BY <2>2 DEF i, l
<1>6. y * n = m * d * n + e * n
  BY <1>2
<1>7. (d * low) * n = (start - 1) * (2 * d * n)
  <2> DEFINE i == start - 1
  <2>1. i \in Int /\ low = 2 * i
    BY DEF low
  <2> HIDE DEF i
  <2>2. (d * (2 * i)) * n = i * (2 * d * n)
    BY <2>1
  <2> QED BY <2>1, <2>2 DEF i
<1>8. (d * high) * n = (start + room + 1) * (2 * d * n)
  <2> DEFINE i == start + room + 1
  <2>1. i \in Int /\ high = 2 * i
    BY DEF high
  <2> HIDE DEF i
  <2>2. (d * (2 * i)) * n = i * (2 * d * n)
    BY <2>1
  <2> QED BY <2>1, <2>2 DEF i
<1> QED BY <1>5, <1>6, <1>7, <1>8 DEF m

\* A turned frame reads its region, but for the pixel of the centring.
LEMMA TurnedInside ==
  ASSUME NEW r \in RectType, NEW a \in Angles \cup {Upright}, a.s # 0,
         NEW f \in RectType, f = InscribedFrame(r, a),
         NEW q, q[1] \in {0, f.w}, q[2] \in {0, f.h}
  PROVE  Inside(Sampled(f, a, q, f.w, f.h), r, 1)
<1> DEFINE dx == 2 * q[1] - f.w  dy == 2 * q[2] - f.h
<1>1. /\ r.x \in Int /\ r.y \in Int /\ r.w \in Nat \ {0} /\ r.h \in Nat \ {0}
      /\ f.x \in Int /\ f.y \in Int /\ f.w \in Nat \ {0} /\ f.h \in Nat \ {0}
  BY DEF RectType
<1>2. a.s \in Int /\ a.c \in Nat /\ a.d \in Nat \ {0}
  BY AngleType
<1>3. (dx = f.w \/ dx = -f.w) /\ (dy = f.h \/ dy = -f.h)
  BY <1>1
<1>4. /\ f.w * a.c + f.h * Abs(a.s) <= a.d * (r.w + 1)
      /\ f.h * a.c + f.w * Abs(a.s) <= a.d * (r.h + 1)
      /\ f.x = r.x + (r.w - f.w) \div 2 /\ f.y = r.y + (r.h - f.h) \div 2
  BY InscribedSpans
<1>5. Sampled(f, a, q, f.w, f.h) =
        [x |-> (2 * f.x + f.w) * a.d * f.w + (dx * a.c + dy * a.s) * f.w,
         y |-> (2 * f.y + f.h) * a.d * f.w + (dy * a.c - dx * a.s) * f.w,
         den |-> 2 * a.d * f.w]
  BY DEF Sampled
<1> HIDE DEF dx, dy
<1> DEFINE ex == dx * a.c + dy * a.s  ey == dy * a.c - dx * a.s
           nx == a.d * (r.w + 1)  ny == a.d * (r.h + 1)
<1>6. /\ dx \in Int /\ dy \in Int /\ ex \in Int /\ ey \in Int
      /\ nx \in Int /\ ny \in Int
  <2>1. dx \in Int /\ dy \in Int
    BY <1>1, <1>3
  <2> QED BY <1>1, <1>2, <2>1
<1>7. -nx <= ex /\ ex <= nx
  <2> HIDE DEF nx
  <2>1. f.w \in Nat /\ f.h \in Nat /\ SpansTurned(f.w, f.h, a.c, a.s, nx)
    BY <1>1, <1>4 DEF nx, SpansTurned
  <2>2. TurnsWithin(dx, dy, a.c, a.s, nx)
    BY <1>2, <1>3, <1>6, <2>1, TurnedCorner
  <2> QED BY <2>2 DEF TurnsWithin
<1>8. -ny <= ey /\ ey <= ny
  <2> HIDE DEF ny
  <2>1. f.w \in Nat /\ f.h \in Nat /\ SpansTurned(f.h, f.w, a.c, a.s, ny)
    BY <1>1, <1>4 DEF ny, SpansTurned
  <2>2. TurnsWithin(dy, dx, a.c, a.s, ny)
    BY <1>2, <1>3, <1>6, <2>1, TurnedCorner
  <2> QED BY <2>2 DEF TurnsWithin
<1> HIDE DEF ex, ey
<1>9. /\ (r.x - 1) * (2 * a.d * f.w) <= (2 * f.x + f.w) * a.d * f.w + ex * f.w
      /\ (2 * f.x + f.w) * a.d * f.w + ex * f.w <= (r.x + r.w + 1) * (2 * a.d * f.w)
  BY <1>1, <1>2, <1>4, <1>6, <1>7, AxisInside
<1>10. /\ (r.y - 1) * (2 * a.d * f.w) <= (2 * f.y + f.h) * a.d * f.w + ey * f.w
       /\ (2 * f.y + f.h) * a.d * f.w + ey * f.w <= (r.y + r.h + 1) * (2 * a.d * f.w)
  BY <1>1, <1>2, <1>4, <1>6, <1>8, AxisInside
<1> QED BY <1>5, <1>9, <1>10 DEF Inside, ex, ey

\* An upright frame reads itself, to the pixel.
LEMMA UprightInside ==
  ASSUME NEW a, a.s = 0, NEW f \in RectType,
         NEW q, q[1] \in {0, f.w}, q[2] \in {0, f.h}, NEW n \in {0, 1}
  PROVE  Inside(Sampled(f, a, q, f.w, f.h), f, n)
<1> DEFINE den == f.w * f.h
<1>1. f.x \in Int /\ f.y \in Int /\ f.w \in Nat \ {0} /\ f.h \in Nat \ {0}
  BY DEF RectType
<1>2. q[1] \in Nat /\ q[1] <= f.w /\ q[2] \in Nat /\ q[2] <= f.h
  BY <1>1
<1>3. Sampled(f, a, q, f.w, f.h) =
        [x |-> (f.x * f.w + q[1] * f.w) * f.h, y |-> (f.y * f.h + q[2] * f.h) * f.w, den |-> den]
  BY DEF Sampled
<1>4. den \in Nat
  BY <1>1
<1>5. (f.x * f.w + q[1] * f.w) * f.h = (f.x + q[1]) * den
  BY <1>1, <1>2
<1>6. (f.y * f.h + q[2] * f.h) * f.w = (f.y + q[2]) * den
  BY <1>1, <1>2
<1> HIDE DEF den
<1>7. ASSUME NEW i \in Int, NEW j \in Int, i <= j PROVE i * den <= j * den
  BY <1>4, <1>7
<1>8. (f.x - n) * den <= (f.x + q[1]) * den /\ (f.x + q[1]) * den <= (f.x + f.w + n) * den
  <2>1. /\ f.x - n \in Int /\ f.x + q[1] \in Int /\ f.x + f.w + n \in Int
        /\ f.x - n <= f.x + q[1] /\ f.x + q[1] <= f.x + f.w + n
    BY <1>1, <1>2
  <2> QED BY <1>7, <2>1
<1>9. (f.y - n) * den <= (f.y + q[2]) * den /\ (f.y + q[2]) * den <= (f.y + f.h + n) * den
  <2>1. /\ f.y - n \in Int /\ f.y + q[2] \in Int /\ f.y + f.h + n \in Int
        /\ f.y - n <= f.y + q[2] /\ f.y + q[2] <= f.y + f.h + n
    BY <1>1, <1>2
  <2> QED BY <1>7, <2>1
<1> QED BY <1>3, <1>5, <1>6, <1>8, <1>9 DEF Inside

LEMMA InscribedInside == TypeOK /\ FrameIsInscribed => FrameInsideKept
<1> SUFFICES ASSUME TypeOK, FrameIsInscribed, ~turnedCrop
             PROVE  FrameInside(geometry, kept, IF geometry.angle = Upright THEN 0 ELSE 1)
  BY DEF FrameInsideKept
<1> DEFINE g == Frame(geometry)  f == geometry.frame  a == geometry.angle
           o == geometry.orientation
           n == IF a = Upright THEN 0 ELSE 1
<1>1. f \in RectType /\ kept \in RectType /\ a \in Angles \cup {Upright} /\ o \in Orientations
  BY DEF TypeOK, GeometryType
<1>2. f = InscribedFrame(kept, a)
  BY DEF FrameIsInscribed
<1>3. g.frame = f /\ g.angle = a /\ g.orientation = o /\ g.tw = 0 /\ g.th = 0
  BY DEF TypeOK, GeometryType, Frame
<1>4. /\ OutputWidth(g) = (IF SwapsAxes(o) THEN f.h ELSE f.w)
      /\ OutputHeight(g) = (IF SwapsAxes(o) THEN f.w ELSE f.h)
      /\ RasterWidth(g) = f.w /\ RasterHeight(g) = f.h
  BY <1>3 DEF OutputWidth, OutputHeight, NaturalWidth, NaturalHeight, RasterWidth, RasterHeight
<1> SUFFICES ASSUME NEW x \in {0, OutputWidth(g)}, NEW y \in {0, OutputHeight(g)}
             PROVE  Inside(At(g, x, y), kept, n)
  BY DEF FrameInside, Corners
<1> DEFINE w == OutputWidth(g)  h == OutputHeight(g)
           q == MapPoint(InverseOf(o), w + 1, h + 1, x, y)
<1>5. At(g, x, y) = Sampled(f, a, q, f.w, f.h)
  BY <1>3, <1>4 DEF At
<1>6. q[1] \in {0, f.w} /\ q[2] \in {0, f.h}
  <2>1. w \in Nat /\ h \in Nat
    BY <1>1, <1>4 DEF RectType
  <2>2. IF SwapsAxes(o) THEN q[1] \in {0, h} /\ q[2] \in {0, w}
                        ELSE q[1] \in {0, w} /\ q[2] \in {0, h}
    <3>1. x \in {0, w} /\ y \in {0, h}
      OBVIOUS
    <3> HIDE DEF w, h, o
    <3>2. ReadsCorner(o, w, h, x, y)
      BY <1>1, <2>1, <3>1, CornersRead
    <3> QED BY <3>2 DEF ReadsCorner
  <2> HIDE DEF q
  <2> QED BY <1>4, <2>2
<1> HIDE DEF g, f, a, o, w, h, q
<1>7. CASE a.s # 0
  <2>1. n = 1
    BY <1>7 DEF Upright
  <2>2. Inside(Sampled(f, a, q, f.w, f.h), kept, 1)
    BY <1>1, <1>2, <1>6, <1>7, TurnedInside
  <2> QED BY <1>5, <2>1, <2>2
<1>8. CASE a.s = 0
  <2>1. f = kept
    BY <1>2, <1>8 DEF InscribedFrame
  <2>2. n \in {0, 1}
    OBVIOUS
  <2> HIDE DEF n
  <2>3. Inside(Sampled(f, a, q, f.w, f.h), f, n)
    BY <1>1, <1>6, <1>8, <2>2, UprightInside
  <2> QED BY <1>5, <2>1, <2>3
<1> QED BY <1>7, <1>8

\* A straightened photograph shows nothing a crop removed and no empty corner:
\* every frame any edits leave lies inside what the crops kept, but for the
\* pixel of the centring. (kStraighten, inscribed_rect)
THEOREM FrameStaysInside == Spec => []FrameInsideKept
<1>1. Init => TypeOK /\ FrameIsInscribed
  BY InitType, InitInscribed
<1>2. TypeOK /\ FrameIsInscribed /\ [Next]_vars => (TypeOK /\ FrameIsInscribed)'
  BY StepType, StepInscribed
<1>3. TypeOK /\ FrameIsInscribed => FrameInsideKept
  BY InscribedInside
<1> QED
  BY <1>1, <1>2, <1>3, PTL DEF Spec

-----------------------------------------------------------------------------
(* An upright crop keeps what was chosen.                                  *)

\* Rounding moves a quotient by at most a half.
LEMMA RoundHalf ==
  ASSUME NEW p \in Nat, NEW q \in Nat \ {0}
  PROVE  /\ Round(p, q) \in Nat
         /\ 2 * (Round(p, q) * q) <= 2 * p + q /\ 2 * p < 2 * (Round(p, q) * q) + q
<1> DEFINE k == (2 * p + q) \div (2 * q)
<1>1. k \in Int /\ (2 * q) * k <= 2 * p + q /\ 2 * p + q < (2 * q) * (k + 1)
  <2> DEFINE a == 2 * p + q  b == 2 * q
  <2>1. a \in Nat /\ b \in Nat /\ b > 0
    OBVIOUS
  <2> HIDE DEF a, b
  <2>2. a \div b \in Int /\ b * (a \div b) <= a /\ a < b * (a \div b + 1)
    BY <2>1, Z3
  <2> QED BY <2>2 DEF a, b
<1>2. Round(p, q) = k
  BY DEF Round
<1> HIDE DEF k
<1> DEFINE m == k * q
<1>3. (2 * q) * k = 2 * m /\ (2 * q) * (k + 1) = 2 * m + 2 * q /\ m \in Int
  BY <1>1
<1>4. k >= 0
  <2> SUFFICES ASSUME k <= -1 PROVE FALSE
    BY <1>1
  <2>1. m <= -q
    BY <1>1
  <2> HIDE DEF m
  <2> QED BY <1>1, <1>3, <2>1
<1> HIDE DEF m
<1>5. 2 * m <= 2 * p + q /\ 2 * p < 2 * m + q
  BY <1>1, <1>3
<1> QED BY <1>1, <1>2, <1>4, <1>5 DEF m

\* A choice <<p, l>> out of t shown pixels, and what it is of the extent of n
\* natural pixels: each end within m natural pixels of where it is shown.
Follows(n, t, p, l, P, L, m) ==
  /\ P \in Nat /\ L \in Nat \ {0}
  /\ Abs(P * t - p * n) <= m * t
  /\ Abs((P + L) * t - (p + l) * n) <= m * t

\* A choice of half a natural pixel or more, or two pixels to be within.
WideEnough(n, t, l, m) == m \in {1, 2} /\ (2 * l * n >= t \/ m = 2)

RoundedFollows(n, t, p, l, m) ==
  Follows(n, t, p, l, Round(p * n, t), Most(1, Round(l * n, t)), m)

LEMMA ChoiceFollows ==
  ASSUME NEW n \in Nat \ {0}, NEW t \in Nat \ {0}, NEW p \in Nat, NEW l \in Nat \ {0},
         NEW m, WideEnough(n, t, l, m)
  PROVE  RoundedFollows(n, t, p, l, m)
<1> USE DEF WideEnough, RoundedFollows
<1> DEFINE a == p * n  b == l * n
           P == Round(a, t)  K == Round(b, t)  L == Most(1, K)
           x == P * t  y == K * t  z == L * t
<1>1. a \in Nat /\ b \in Nat /\ (2 * b >= t \/ m = 2) /\ (p + l) * n = a + b
  OBVIOUS
<1> HIDE DEF a, b
<1>2. P \in Nat /\ 2 * x <= 2 * a + t /\ 2 * a < 2 * x + t
  BY <1>1, RoundHalf
<1>3. K \in Nat /\ 2 * y <= 2 * b + t /\ 2 * b < 2 * y + t
  BY <1>1, RoundHalf
<1> HIDE DEF P, K
<1>4. x \in Nat /\ y \in Nat
  BY <1>2, <1>3
<1>5. L \in Nat \ {0} /\ (z = y \/ (z = t /\ y = 0))
  <2>1. CASE K >= 1
    BY <1>3, <2>1 DEF Most
  <2>2. CASE K = 0
    BY <2>2 DEF Most
  <2> QED BY <1>3, <2>1, <2>2
<1> HIDE DEF L
<1>6. (P + L) * t = x + z /\ z \in Nat
  BY <1>2, <1>5
<1> HIDE DEF x, y, z
<1>7. Abs(x - a) <= m * t
  BY <1>1, <1>2, <1>4 DEF Abs
<1>8. Abs((x + z) - (a + b)) <= m * t
  BY <1>1, <1>2, <1>3, <1>4, <1>5, <1>6 DEF Abs
<1> QED BY <1>1, <1>2, <1>5, <1>6, <1>7, <1>8 DEF Follows, a, b, P, K, L, x

\* End k of what is left along an axis, and where end k of the choice is shown.
EndLeft(flip, x, L, n, k) ==
  IF flip = 1 THEN (IF k = 0 THEN Least(x + L, n) ELSE Most(x, 0))
              ELSE (IF k = 0 THEN Most(x, 0) ELSE Least(x + L, n))
EndShown(flip, t, p, l, k) == IF flip = 1 THEN t - (p + k * l) ELSE p + k * l

\* The part of a frame n long that a crop leaves: from Most(x, 0) to
\* Least(x + L, n), where a mirrored axis counts the choice from the other end.
Leaves(flip, n, t, p, l, P, L, m, x, k) ==
  /\ n \in Nat \ {0} /\ t \in Nat \ {0} /\ p \in Nat /\ l \in Nat \ {0} /\ p + l <= t
  /\ P \in Int /\ L \in Int /\ m \in {1, 2} /\ Follows(n, t, p, l, P, L, m)
  /\ flip \in {0, 1} /\ x = (IF flip = 1 THEN n - P - L ELSE P)
  /\ Most(x, 0) < Least(x + L, n)
  /\ k \in {0, 1}

\* End k of it is where end k of the choice was shown.
LEMMA EndsFollow ==
  ASSUME NEW n, NEW t, NEW p, NEW l, NEW P, NEW L, NEW m, NEW flip, NEW x, NEW k,
         Leaves(flip, n, t, p, l, P, L, m, x, k)
  PROVE  Abs(EndLeft(flip, x, L, n, k) * t - EndShown(flip, t, p, l, k) * n) <= m * t
<1> SUFFICES
      ASSUME n \in Nat \ {0}, t \in Nat \ {0}, p \in Nat, l \in Nat \ {0}, p + l <= t,
             P \in Int, L \in Int, m \in {1, 2}, Follows(n, t, p, l, P, L, m),
             flip \in {0, 1}, x = (IF flip = 1 THEN n - P - L ELSE P), x \in Int,
             Most(x, 0) < Least(x + L, n), k \in {0, 1}
      PROVE  Abs(EndLeft(flip, x, L, n, k) * t - EndShown(flip, t, p, l, k) * n) <= m * t
  BY DEF Leaves
<1> DEFINE lo == P  hi == Least(P + L, n)
           a == P * t  b == (P + L) * t  c == p * n  d == (p + l) * n  e == n * t
<1> USE DEF EndLeft, EndShown
<1>1. /\ P \in Nat /\ L \in Nat \ {0} /\ Abs(a - c) <= m * t /\ Abs(b - d) <= m * t
      /\ a \in Int /\ b \in Int /\ c \in Int /\ d \in Int /\ e \in Int
  BY DEF Follows
<1>2. d <= e
  <2> DEFINE z == p + l
  <2>1. z \in Nat /\ z <= t
    OBVIOUS
  <2> HIDE DEF z
  <2>2. z * n <= n * t
    BY <2>1
  <2> QED BY <2>2 DEF z
<1>3. Abs(hi * t - d) <= m * t
  <2>1. CASE P + L <= n
    BY <1>1, <2>1 DEF Least
  <2>2. CASE ~ (P + L <= n)
    <3>1. hi = n
      BY <2>2 DEF Least
    <3>2. e <= b
      <4> DEFINE z == P + L
      <4>1. z \in Nat /\ n <= z
        BY <1>1, <2>2
      <4> HIDE DEF z
      <4>2. n * t <= z * t
        BY <4>1
      <4> QED BY <4>2 DEF z
    <3>3. hi * t = e
      BY <3>1
    <3> HIDE DEF b, d, e, hi
    <3> QED BY <1>1, <1>2, <3>2, <3>3 DEF Abs
  <2> QED BY <2>1, <2>2
<1>4. hi \in Int
  BY <1>1 DEF Least
<1>5. CASE flip = 0
  <2>1. Most(x, 0) = lo /\ Least(x + L, n) = hi
    BY <1>1, <1>5 DEF Most, Least
  <2>2. CASE k = 0
    <3>1. p + k * l = p
      BY <2>2
    <3> QED BY <1>1, <1>5, <2>1, <2>2, <3>1
  <2>3. CASE k = 1
    <3>1. p + k * l = p + l
      BY <2>3
    <3> HIDE DEF hi
    <3> QED BY <1>3, <1>5, <2>1, <2>3, <3>1
  <2> QED BY <2>2, <2>3
<1>6. CASE flip = 1
  <2>1. Most(x, 0) = n - hi /\ Least(x + L, n) = n - lo
    BY <1>1, <1>6 DEF Most, Least
  <2>2. CASE k = 0
    <3>1. p + k * l = p
      BY <2>2
    <3>2. (n - lo) * t = e - a /\ (t - p) * n = e - c
      BY <1>1
    <3>3. Abs((e - a) - (e - c)) <= m * t
      <4> HIDE DEF a, c, e
      <4> QED BY <1>1 DEF Abs
    <3> HIDE DEF a, c, e
    <3> QED BY <1>6, <2>1, <2>2, <3>1, <3>2, <3>3
  <2>3. CASE k = 1
    <3>1. p + k * l = p + l
      BY <2>3
    <3> DEFINE u == hi * t
    <3>2. (n - hi) * t = e - u /\ (t - (p + l)) * n = e - d /\ u \in Int
      <4> HIDE DEF hi
      <4> QED BY <1>4
    <3>3. Abs((e - u) - (e - d)) <= m * t
      <4> HIDE DEF d, e, u
      <4> QED BY <1>1, <1>3, <3>2 DEF Abs, u
    <3>4. (IF flip = 1 THEN t - (p + k * l) ELSE p + k * l) = t - (p + l)
      BY <1>6, <3>1
    <3> HIDE DEF d, e, u, hi
    <3> QED BY <1>6, <2>1, <2>3, <3>2, <3>3, <3>4
  <2> QED BY <2>2, <2>3
<1> QED BY <1>5, <1>6

\* What lies along the raster's x axis of a pair on screen, and along its y axis;
\* and which of its axes an orientation mirrors.
AlongX(o, h, v) == IF SwapsAxes(o) THEN v ELSE h
AlongY(o, h, v) == IF SwapsAxes(o) THEN h ELSE v
MirrorX(o) == IF o \in {2, 3, 7, 8} THEN 1 ELSE 0
MirrorY(o) == IF o \in {3, 4, 6, 7} THEN 1 ELSE 0

\* Point <<x, y>> of the w by h output, in the raster.
ReadAt(o, w, h, x, y) == MapPoint(InverseOf(o), w + 1, h + 1, x, y)

LEMMA PointRead ==
  ASSUME NEW o \in Orientations, NEW w \in Int, NEW h \in Int, NEW x \in Int, NEW y \in Int
  PROVE  /\ ReadAt(o, w, h, x, y)[1] =
              IF MirrorX(o) = 1 THEN AlongX(o, w, h) - AlongX(o, x, y) ELSE AlongX(o, x, y)
         /\ ReadAt(o, w, h, x, y)[2] =
              IF MirrorY(o) = 1 THEN AlongY(o, w, h) - AlongY(o, x, y) ELSE AlongY(o, x, y)
<1>i. /\ InverseOf(1) = 1 /\ InverseOf(2) = 2 /\ InverseOf(3) = 3 /\ InverseOf(4) = 4
      /\ InverseOf(5) = 5 /\ InverseOf(6) = 8 /\ InverseOf(7) = 7 /\ InverseOf(8) = 6
  BY InverseTable DEF Orientations
<1> USE DEF ReadAt, MapPoint, AlongX, AlongY, MirrorX, MirrorY, SwapsAxes
<1>1. CASE o = 1 BY <1>1, <1>i
<1>2. CASE o = 2 BY <1>2, <1>i
<1>3. CASE o = 3 BY <1>3, <1>i
<1>4. CASE o = 4 BY <1>4, <1>i
<1>5. CASE o = 5 BY <1>5, <1>i
<1>6. CASE o = 6 BY <1>6, <1>i
<1>7. CASE o = 7 BY <1>7, <1>i
<1>8. CASE o = 8 BY <1>8, <1>i
<1> QED BY <1>1, <1>2, <1>3, <1>4, <1>5, <1>6, <1>7, <1>8 DEF Orientations

\* A rectangle of the screen, in the w by h raster.
LEMMA RectRead ==
  ASSUME NEW o \in Orientations, NEW w \in Int, NEW h \in Int, NEW r \in RectType
  PROVE  MapRectBack(r, o, w, h) =
           Rect(IF MirrorX(o) = 1 THEN w - AlongX(o, r.x, r.y) - AlongX(o, r.w, r.h)
                                   ELSE AlongX(o, r.x, r.y),
                IF MirrorY(o) = 1 THEN h - AlongY(o, r.x, r.y) - AlongY(o, r.w, r.h)
                                   ELSE AlongY(o, r.x, r.y),
                AlongX(o, r.w, r.h), AlongY(o, r.w, r.h))
<1> DEFINE ow == IF SwapsAxes(o) THEN h ELSE w
           oh == IF SwapsAxes(o) THEN w ELSE h
           x == AlongX(o, r.x, r.y)  y == AlongY(o, r.x, r.y)
           l == AlongX(o, r.w, r.h)  m == AlongY(o, r.w, r.h)
           a == ReadAt(o, ow - 1, oh - 1, r.x, r.y)
           b == ReadAt(o, ow - 1, oh - 1, r.x + r.w - 1, r.y + r.h - 1)
<1>1. r.x \in Int /\ r.y \in Int /\ r.w \in Nat \ {0} /\ r.h \in Nat \ {0}
  BY DEF RectType
<1>2. /\ ow - 1 \in Int /\ oh - 1 \in Int
      /\ (ow - 1) + 1 = ow /\ (oh - 1) + 1 = oh
      /\ r.x + r.w - 1 \in Int /\ r.y + r.h - 1 \in Int
  BY <1>1
<1>3. MapRectBack(r, o, w, h) =
        Rect(Least(a[1], b[1]), Least(a[2], b[2]), Abs(b[1] - a[1]) + 1, Abs(b[2] - a[2]) + 1)
  BY <1>2 DEF MapRectBack, ReadAt
<1>4. /\ AlongX(o, ow - 1, oh - 1) = w - 1 /\ AlongY(o, ow - 1, oh - 1) = h - 1
      /\ AlongX(o, r.x + r.w - 1, r.y + r.h - 1) = x + l - 1
      /\ AlongY(o, r.x + r.w - 1, r.y + r.h - 1) = y + m - 1
      /\ x \in Int /\ y \in Int /\ l \in Nat \ {0} /\ m \in Nat \ {0}
  BY <1>1 DEF AlongX, AlongY
<1> HIDE DEF ow, oh, x, y, l, m
<1>5. /\ a[1] = (IF MirrorX(o) = 1 THEN w - 1 - x ELSE x)
      /\ a[2] = (IF MirrorY(o) = 1 THEN h - 1 - y ELSE y)
  BY <1>1, <1>2, <1>4, PointRead DEF x, y
<1>6. /\ b[1] = (IF MirrorX(o) = 1 THEN w - 1 - (x + l - 1) ELSE x + l - 1)
      /\ b[2] = (IF MirrorY(o) = 1 THEN h - 1 - (y + m - 1) ELSE y + m - 1)
  BY <1>2, <1>4, PointRead
<1> HIDE DEF a, b
<1>7. /\ Least(a[1], b[1]) = (IF MirrorX(o) = 1 THEN w - x - l ELSE x)
      /\ Abs(b[1] - a[1]) + 1 = l
  BY <1>4, <1>5, <1>6 DEF Least, Abs
<1>8. /\ Least(a[2], b[2]) = (IF MirrorY(o) = 1 THEN h - y - m ELSE y)
      /\ Abs(b[2] - a[2]) + 1 = m
  BY <1>4, <1>5, <1>6 DEF Least, Abs
<1> QED BY <1>3, <1>7, <1>8 DEF x, y, l, m

\* One axis of two upright readings, over their common denominator: f and n are
\* the frame's start and length before, F and N after; t and u, T and U the raster's
\* two lengths.
ReadNear(f, n, t, u, q, F, N, T, U, Q, m) ==
  Abs(((F * T + Q * N) * U) * (t * u) - ((f * t + q * n) * u) * (T * U))
    <= m * (T * U) * (t * u)

\* The same, where Q is an end, over the raster before.
EndNear(f, n, t, u, q, F, N, T, U, Q, m) ==
  /\ f \in Int /\ n \in Nat \ {0} /\ t \in Nat \ {0} /\ u \in Nat \ {0} /\ q \in Int
  /\ F \in Int /\ N \in Nat \ {0} /\ T \in Nat \ {0} /\ U \in Nat \ {0}
  /\ Q \in {0, T} /\ m \in Nat
  /\ Abs((F - f + (IF Q = 0 THEN 0 ELSE N)) * t - q * n) <= m * t

LEMMA ReadingsNear ==
  ASSUME NEW f, NEW n, NEW t, NEW u, NEW q, NEW F, NEW N, NEW T, NEW U, NEW Q, NEW m,
         EndNear(f, n, t, u, q, F, N, T, U, Q, m)
  PROVE  ReadNear(f, n, t, u, q, F, N, T, U, Q, m)
<1> DEFINE X == F - f + (IF Q = 0 THEN 0 ELSE N)
<1> SUFFICES
      ASSUME f \in Int, n \in Nat \ {0}, t \in Nat \ {0}, u \in Nat \ {0}, q \in Int,
             F \in Int, N \in Nat \ {0}, T \in Nat \ {0}, U \in Nat \ {0},
             Q \in {0, T}, m \in Nat, Abs(X * t - q * n) <= m * t
      PROVE  ReadNear(f, n, t, u, q, F, N, T, U, Q, m)
  BY DEF EndNear
<1>0. X \in Int /\ Abs(X * t - q * n) <= m * t /\ (Q = 0 \/ Q = T)
      /\ X + f = F + (IF Q = 0 THEN 0 ELSE N)
  OBVIOUS
<1> HIDE DEF X
<1> DEFINE M == (T * U) * u  z == X * t - q * n  Y == X + f
<1>1. M \in Nat /\ z \in Int /\ Y \in Int
  <2>1. T * U \in Nat
    OBVIOUS
  <2> QED BY <1>0, <2>1
<1>2. F * T + Q * N = Y * T
  BY <1>0
<1>3. (Y * T) * U = Y * (T * U)
  BY <1>1
<1> DEFINE W == T * U
<1>4. W \in Nat
  OBVIOUS
<1>5. (Y * W) * (t * u) - ((f * t + q * n) * u) * W = (W * u) * z
  <2>1. Y * t = X * t + f * t
    BY <1>0
  <2> DEFINE a == X * t  b == f * t  c == q * n
  <2>2. a \in Int /\ b \in Int /\ c \in Int
    BY <1>0
  <2>3. (Y * W) * (t * u) = (W * u) * (Y * t)
    <3> HIDE DEF Y, W
    <3> QED BY <1>1, <1>4
  <2>4. ((f * t + q * n) * u) * W = (W * u) * (b + c)
    <3> DEFINE e == b + c
    <3>1. e \in Int
      BY <2>2
    <3> HIDE DEF W
    <3>2. (e * u) * W = (W * u) * e
      <4> HIDE DEF e
      <4> QED BY <1>4, <3>1
    <3> QED BY <3>2
  <2>5. (W * u) * (a + b) - (W * u) * (b + c) = (W * u) * (a - c)
    <3> HIDE DEF a, b, c
    <3> DEFINE V == W * u
    <3>1. V \in Nat
      BY <1>1
    <3> HIDE DEF V
    <3>2. V * (a + b) - V * (b + c) = V * (a - c)
      BY <2>2, <3>1
    <3> QED BY <3>2 DEF V
  <2> QED BY <2>1, <2>3, <2>4, <2>5
<1>6. Abs(M * z) <= M * (m * t)
  <2> DEFINE k == m * t
  <2>1. k \in Nat /\ -k <= z /\ z <= k
    <3>1. k \in Nat /\ Abs(z) <= k
      BY <1>0
    <3> HIDE DEF k, z
    <3> QED BY <1>1, <3>1 DEF Abs
  <2> HIDE DEF k, z, M
  <2>2. -(M * k) <= M * z /\ M * z <= M * k /\ M * z \in Int /\ M * k \in Int
    BY <1>1, <2>1
  <2> DEFINE a == M * z  b == M * k
  <2>3. a \in Int /\ b \in Int /\ -b <= a /\ a <= b
    BY <2>2
  <2> HIDE DEF a, b
  <2>4. Abs(a) <= b
    BY <2>3 DEF Abs
  <2> QED BY <2>4 DEF a, b, k
<1>7. M * (m * t) = m * W * (t * u)
  <2> HIDE DEF W
  <2> QED BY <1>4 DEF M, W
<1> QED BY <1>2, <1>3, <1>5, <1>6, <1>7 DEF ReadNear

\* One axis of an upright crop, before and after.
AxisCrop(f, n, t, u, p, l, P, L, m, flip, x, F, N, T, U, k, Q) ==
  /\ f \in Int /\ n \in Nat \ {0} /\ t \in Nat \ {0} /\ u \in Nat \ {0}
  /\ p \in Nat /\ l \in Nat \ {0} /\ p + l <= t
  /\ P \in Int /\ L \in Int /\ m \in {1, 2} /\ Follows(n, t, p, l, P, L, m)
  /\ flip \in {0, 1} /\ x = (IF flip = 1 THEN n - P - L ELSE P)
  /\ F \in Int /\ N \in Nat \ {0} /\ T \in Nat \ {0} /\ U \in Nat \ {0}
  /\ F = f + Most(x, 0) /\ N = Least(x + L, n) - Most(x, 0)
  /\ k \in {0, 1} /\ Q = (IF flip = 1 THEN T - k * T ELSE k * T)

LEMMA AxisKept ==
  ASSUME NEW f, NEW n, NEW t, NEW u, NEW p, NEW l, NEW P, NEW L, NEW m, NEW flip, NEW x,
         NEW F, NEW N, NEW T, NEW U, NEW k, NEW Q,
         AxisCrop(f, n, t, u, p, l, P, L, m, flip, x, F, N, T, U, k, Q)
  PROVE  ReadNear(f, n, t, u, EndShown(flip, t, p, l, k), F, N, T, U, Q, m)
<1> SUFFICES
      ASSUME f \in Int, n \in Nat \ {0}, t \in Nat \ {0}, u \in Nat \ {0},
             p \in Nat, l \in Nat \ {0}, p + l <= t,
             P \in Int, L \in Int, m \in {1, 2}, Follows(n, t, p, l, P, L, m),
             flip \in {0, 1}, x \in Int, x = (IF flip = 1 THEN n - P - L ELSE P),
             F \in Int, N \in Nat \ {0}, T \in Nat \ {0}, U \in Nat \ {0},
             F = f + Most(x, 0), N = Least(x + L, n) - Most(x, 0),
             k \in {0, 1}, Q = (IF flip = 1 THEN T - k * T ELSE k * T)
      PROVE  ReadNear(f, n, t, u, EndShown(flip, t, p, l, k), F, N, T, U, Q, m)
  BY DEF AxisCrop
<1> DEFINE a == Most(x, 0)  b == Least(x + L, n)
           X == EndLeft(flip, x, L, n, k)
           q == EndShown(flip, t, p, l, k)
<1>1. a \in Int /\ b \in Int /\ a < b /\ F = f + a /\ N = b - a
  <2>1. a \in Int /\ b \in Int
    BY DEF Most, Least
  <2> QED BY <2>1
<1>2. Abs(X * t - q * n) <= m * t
  <2>1. Most(x, 0) < Least(x + L, n)
    BY <1>1
  <2>2. Leaves(flip, n, t, p, l, P, L, m, x, k)
    BY <2>1 DEF Leaves
  <2> QED BY <2>2, EndsFollow
<1>3. X = (IF flip = 1 THEN (IF k = 0 THEN b ELSE a) ELSE (IF k = 0 THEN a ELSE b))
  BY DEF EndLeft
<1>4. q \in Int
  BY DEF EndShown
<1> HIDE DEF a, b, X, q
<1>5. Q \in {0, T} /\ X = F - f + (IF Q = 0 THEN 0 ELSE N)
  <2>1. CASE k = 0
    BY <1>1, <1>3, <2>1
  <2>2. CASE k = 1
    <3>1. k * T = T
      BY <2>2
    <3>2. Q = (IF flip = 1 THEN 0 ELSE T)
      BY <3>1
    <3>3. X = (IF flip = 1 THEN a ELSE b)
      BY <1>3, <2>2
    <3>4. CASE flip = 1
      BY <1>1, <3>2, <3>3, <3>4
    <3>5. CASE flip = 0
      BY <1>1, <3>2, <3>3, <3>5
    <3> QED BY <3>4, <3>5
  <2> QED BY <2>1, <2>2
<1>6. EndNear(f, n, t, u, q, F, N, T, U, Q, m)
  <2>1. m \in Nat
    OBVIOUS
  <2> QED BY <1>2, <1>4, <1>5, <2>1 DEF EndNear
<1>7. ReadNear(f, n, t, u, q, F, N, T, U, Q, m)
  BY <1>6, ReadingsNear
<1> QED BY <1>7 DEF q

\* What an upright crop leaves of the frame.
LEMMA ClippedTo ==
  ASSUME NEW in \in RectType, NEW f \in RectType,
         NEW c, c = Intersect(Rect(in.x + f.x, in.y + f.y, in.w, in.h), f), ~IsEmpty(c)
  PROVE  /\ c.x = f.x + Most(in.x, 0) /\ c.w = Least(in.x + in.w, f.w) - Most(in.x, 0)
         /\ c.y = f.y + Most(in.y, 0) /\ c.h = Least(in.y + in.h, f.h) - Most(in.y, 0)
<1>1. /\ in.x \in Int /\ in.y \in Int /\ in.w \in Nat /\ in.h \in Nat
      /\ f.x \in Int /\ f.y \in Int /\ f.w \in Nat /\ f.h \in Nat
  BY DEF RectType
<1> DEFINE left == Most(in.x + f.x, f.x)  top == Most(in.y + f.y, f.y)
           right == Least(in.x + f.x + in.w, f.x + f.w)
           bottom == Least(in.y + f.y + in.h, f.y + f.h)
<1>2. /\ left = f.x + Most(in.x, 0) /\ top = f.y + Most(in.y, 0)
      /\ right = f.x + Least(in.x + in.w, f.w) /\ bottom = f.y + Least(in.y + in.h, f.h)
      /\ left \in Int /\ top \in Int /\ right \in Int /\ bottom \in Int
      /\ Most(in.x, 0) \in Int /\ Most(in.y, 0) \in Int
      /\ Least(in.x + in.w, f.w) \in Int /\ Least(in.y + in.h, f.h) \in Int
  BY <1>1 DEF Most, Least
<1>3. c = (IF right <= left \/ bottom <= top THEN Nothing
           ELSE Rect(left, top, right - left, bottom - top))
  BY DEF Intersect, Rect
<1>4. c # Nothing
  BY DEF IsEmpty, Nothing, Rect
<1> HIDE DEF left, top, right, bottom
<1>5. c = Rect(left, top, right - left, bottom - top)
  BY <1>3, <1>4
<1>6. c.x = left /\ c.y = top /\ c.w = right - left /\ c.h = bottom - top
  BY <1>5 DEF Rect
<1> QED BY <1>1, <1>2, <1>6

LEMMA ChoiceFits ==
  ASSUME NEW r \in CropChoices
  PROVE  /\ r.x \in Nat /\ r.y \in Nat /\ r.w \in Nat \ {0} /\ r.h \in Nat \ {0}
         /\ r.x + r.w <= OutputWidth(geometry) /\ r.y + r.h <= OutputHeight(geometry)
<1> DEFINE hs == Within(Spans(OutputWidth(geometry)), OutputWidth(geometry))
           vs == Within(Spans(OutputHeight(geometry)), OutputHeight(geometry))
<1>1. PICK h \in hs, v \in vs : r = Rect(h[1], v[1], h[2], v[2])
  BY DEF CropChoices
<1>2. /\ h[1] \in Nat /\ h[2] \in Nat \ {0} /\ v[1] \in Nat /\ v[2] \in Nat \ {0}
      /\ h[1] + h[2] <= OutputWidth(geometry) /\ v[1] + v[2] <= OutputHeight(geometry)
  BY DEF Within
<1> QED
  BY <1>1, <1>2 DEF Rect

\* The choice, in natural pixels.
LEMMA NaturalFollows ==
  ASSUME NEW g \in GeometryType, g.tw = 0 <=> g.th = 0, NEW r,
         r.x \in Nat, r.y \in Nat, r.w \in Nat \ {0}, r.h \in Nat \ {0}, NEW m \in {1, 2},
         \/ m = 2
         \/ /\ 2 * r.w * NaturalWidth(g) >= OutputWidth(g)
            /\ 2 * r.h * NaturalHeight(g) >= OutputHeight(g)
  PROVE  /\ Follows(NaturalWidth(g), OutputWidth(g), r.x, r.w, InNatural(g, r).x, InNatural(g, r).w, m)
         /\ Follows(NaturalHeight(g), OutputHeight(g), r.y, r.h, InNatural(g, r).y, InNatural(g, r).h, m)
<1> DEFINE nw == NaturalWidth(g)  nh == NaturalHeight(g)
           W == OutputWidth(g)  H == OutputHeight(g)
<1>1. nw \in Nat \ {0} /\ nh \in Nat \ {0} /\ W \in Nat \ {0} /\ H \in Nat \ {0}
  BY SizeType
<1>2. ASSUME NEW n \in Nat \ {0}, NEW p \in Nat, NEW l \in Nat \ {0}
      PROVE  Follows(n, n, p, l, p, Most(1, l), m)
  <2>1. Most(1, l) = l
    BY DEF Most
  <2>2. p * n - p * n = 0 /\ (p + l) * n - (p + l) * n = 0 /\ m * n >= 0
    OBVIOUS
  <2> QED BY <2>1, <2>2 DEF Follows, Abs
<1>3. g.tw \in Nat /\ g.th \in Nat
  BY DEF GeometryType
<1>4. CASE g.tw = 0
  <2>1. W = nw /\ H = nh
    BY <1>4 DEF OutputWidth, OutputHeight
  <2>2. /\ InNatural(g, r).x = r.x /\ InNatural(g, r).w = Most(1, r.w)
        /\ InNatural(g, r).y = r.y /\ InNatural(g, r).h = Most(1, r.h)
    BY <1>4 DEF InNatural, Rect
  <2> HIDE DEF nw, nh, W, H
  <2> QED BY <1>1, <1>2, <2>1, <2>2 DEF nw, nh, W, H
<1>5. CASE g.tw # 0
  <2>1. g.tw > 0 /\ g.th > 0 /\ W = g.tw /\ H = g.th
    BY <1>3, <1>5 DEF OutputWidth, OutputHeight
  <2>2. /\ InNatural(g, r).x = Round(r.x * nw, W) /\ InNatural(g, r).w = Most(1, Round(r.w * nw, W))
        /\ InNatural(g, r).y = Round(r.y * nh, H) /\ InNatural(g, r).h = Most(1, Round(r.h * nh, H))
    BY <2>1 DEF InNatural, Rect
  <2>3. (2 * r.w * nw >= W \/ m = 2) /\ (2 * r.h * nh >= H \/ m = 2)
    OBVIOUS
  <2> HIDE DEF nw, nh, W, H
  <2>4. WideEnough(nw, W, r.w, m) /\ WideEnough(nh, H, r.h, m)
    BY <2>3 DEF WideEnough
  <2>5. RoundedFollows(nw, W, r.x, r.w, m) /\ RoundedFollows(nh, H, r.y, r.h, m)
    BY <1>1, <2>4, ChoiceFollows
  <2> QED BY <2>2, <2>5 DEF nw, nh, W, H, RoundedFollows
<1> QED BY <1>4, <1>5

LEMMA ChoiceIsKept ==
  ASSUME TypeOK, TypeOK', NEW r \in CropChoices, Crop(r), geometry.angle = Upright,
         NEW i \in {0, 1}, NEW j \in {0, 1}
  PROVE  KeptCorner(r, i, j)
<1> DEFINE g == geometry  f == g.frame  o == g.orientation
           n == InNatural(g, r)  in == MapRectBack(n, o, f.w, f.h)
           W == OutputWidth(g)  H == OutputHeight(g)
           m == IF HalfAPixel(r) THEN 1 ELSE 2
           z == geometry'  F == z.frame  V == OutputWidth(geometry')  K == OutputHeight(geometry')
           px == AlongX(o, r.x, r.y)  lx == AlongX(o, r.w, r.h)
           Px == AlongX(o, n.x, n.y)  Lx == AlongX(o, n.w, n.h)
           py == AlongY(o, r.x, r.y)  ly == AlongY(o, r.w, r.h)
           Py == AlongY(o, n.x, n.y)  Ly == AlongY(o, n.w, n.h)
           t == AlongX(o, W, H)  u == AlongY(o, W, H)
           T == AlongX(o, V, K)  U == AlongY(o, V, K)
           kx == AlongX(o, i, j)  ky == AlongY(o, i, j)
           Qx == IF MirrorX(o) = 1 THEN T - kx * T ELSE kx * T
           Qy == IF MirrorY(o) = 1 THEN U - ky * U ELSE ky * U
<1>1. g \in GeometryType /\ (g.tw = 0 <=> g.th = 0) /\ z \in GeometryType /\ (z.tw = 0 <=> z.th = 0)
  BY DEF TypeOK
<1>2. f \in RectType /\ o \in Orientations /\ F \in RectType
  BY <1>1 DEF GeometryType
<1>3. /\ r.x \in Nat /\ r.y \in Nat /\ r.w \in Nat \ {0} /\ r.h \in Nat \ {0}
      /\ r.x + r.w <= W /\ r.y + r.h <= H
  BY ChoiceFits
<1>4. W \in Nat \ {0} /\ H \in Nat \ {0} /\ V \in Nat \ {0} /\ K \in Nat \ {0}
  BY <1>1, SizeType
<1>5. n \in RectType /\ in \in RectType
  <2>1. r \in RectType
    BY ChoiceType
  <2>2. n \in RectType
    BY <1>1, <2>1, InNaturalType
  <2> HIDE DEF n
  <2>3. f.w \in Nat \ {0} /\ f.h \in Nat \ {0}
    BY <1>2 DEF RectType
  <2> QED BY <1>2, <2>2, <2>3, MapRectType
<1>6. /\ geometry' = Cropped(g, r) /\ ~IsEmpty(Cropped(g, r).frame)
  BY DEF Crop, Apply
<1>7. /\ F = CroppedFrame(g, r) /\ z.angle = g.angle /\ z.orientation = o /\ ~IsEmpty(F)
  <2>1. /\ Cropped(g, r).frame = CroppedFrame(g, r) /\ Cropped(g, r).angle = g.angle
        /\ Cropped(g, r).orientation = g.orientation
    <3> HIDE DEF f, o
    <3> QED BY <1>1 DEF Cropped, GeometryType
  <2> QED BY <1>6, <2>1
<1>8. F = Intersect(Rect(in.x + f.x, in.y + f.y, in.w, in.h), f)
  <2>1. g.angle.s = 0
    BY DEF Upright
  <2> QED BY <1>7, <2>1 DEF CroppedFrame
<1>9. /\ F.x = f.x + Most(in.x, 0) /\ F.w = Least(in.x + in.w, f.w) - Most(in.x, 0)
      /\ F.y = f.y + Most(in.y, 0) /\ F.h = Least(in.y + in.h, f.h) - Most(in.y, 0)
  <2> HIDE DEF in, f, F
  <2> QED BY <1>2, <1>5, <1>7, <1>8, ClippedTo
<1>10. /\ in.x = (IF MirrorX(o) = 1 THEN f.w - Px - Lx ELSE Px) /\ in.w = Lx
       /\ in.y = (IF MirrorY(o) = 1 THEN f.h - Py - Ly ELSE Py) /\ in.h = Ly
  <2>1. f.w \in Int /\ f.h \in Int
    BY <1>2 DEF RectType
  <2>2. in = Rect(IF MirrorX(o) = 1 THEN f.w - Px - Lx ELSE Px,
                  IF MirrorY(o) = 1 THEN f.h - Py - Ly ELSE Py, Lx, Ly)
    <3> HIDE DEF n, o, f
    <3> QED BY <1>2, <1>5, <2>1, RectRead
  <2> HIDE DEF in, Px, Lx, Py, Ly
  <2> QED BY <2>2 DEF Rect
<1>11. m \in {1, 2} /\ Follows(f.w, t, px, lx, Px, Lx, m) /\ Follows(f.h, u, py, ly, Py, Ly, m)
  <2>1. /\ m \in {1, 2}
        /\ \/ m = 2
           \/ /\ 2 * r.w * NaturalWidth(g) >= OutputWidth(g)
              /\ 2 * r.h * NaturalHeight(g) >= OutputHeight(g)
    BY DEF HalfAPixel
  <2>2. /\ Follows(NaturalWidth(g), W, r.x, r.w, n.x, n.w, m)
        /\ Follows(NaturalHeight(g), H, r.y, r.h, n.y, n.h, m)
    <3> HIDE DEF m
    <3> QED BY <1>1, <1>3, <2>1, NaturalFollows
  <2>3. /\ NaturalWidth(g) = IF SwapsAxes(o) THEN f.h ELSE f.w
        /\ NaturalHeight(g) = IF SwapsAxes(o) THEN f.w ELSE f.h
    BY DEF NaturalWidth, NaturalHeight
  <2> HIDE DEF n, m, W, H, f, o
  <2>4. CASE SwapsAxes(o)
    BY <2>1, <2>2, <2>3, <2>4 DEF AlongX, AlongY
  <2>5. CASE ~SwapsAxes(o)
    BY <2>1, <2>2, <2>3, <2>5 DEF AlongX, AlongY
  <2> QED BY <2>4, <2>5
<1>12. /\ MirrorX(o) \in {0, 1} /\ MirrorY(o) \in {0, 1} /\ kx \in {0, 1} /\ ky \in {0, 1}
       /\ t \in Nat \ {0} /\ u \in Nat \ {0} /\ T \in Nat \ {0} /\ U \in Nat \ {0}
       /\ px \in Nat /\ py \in Nat /\ lx \in Nat \ {0} /\ ly \in Nat \ {0}
       /\ px + lx <= t /\ py + ly <= u
       /\ Px \in Int /\ Py \in Int /\ Lx \in Int /\ Ly \in Int
  <2>1. n.x \in Int /\ n.y \in Int /\ n.w \in Int /\ n.h \in Int
    <3> HIDE DEF n
    <3> QED BY <1>5 DEF RectType
  <2> HIDE DEF n, W, H, V, K, o
  <2> QED BY <1>3, <1>4, <2>1 DEF AlongX, AlongY, MirrorX, MirrorY
<1>13. /\ f.x \in Int /\ f.y \in Int /\ f.w \in Nat \ {0} /\ f.h \in Nat \ {0}
       /\ F.x \in Int /\ F.y \in Int /\ F.w \in Nat \ {0} /\ F.h \in Nat \ {0}
  <2> HIDE DEF f, F
  <2> QED BY <1>2 DEF RectType
<1> DEFINE ex == EndShown(MirrorX(o), t, px, lx, kx)  ey == EndShown(MirrorY(o), u, py, ly, ky)
<1>14. ReadNear(f.x, f.w, t, u, ex, F.x, F.w, T, U, Qx, m)
  <2> HIDE DEF f, F, o, t, u, T, U, px, lx, Px, Lx, kx, m, in
  <2>1. AxisCrop(f.x, f.w, t, u, px, lx, Px, Lx, m, MirrorX(o), in.x, F.x, F.w, T, U, kx, Qx)
    BY <1>9, <1>10, <1>11, <1>12, <1>13 DEF AxisCrop
  <2> QED BY <2>1, AxisKept
<1>15. ReadNear(f.y, f.h, u, t, ey, F.y, F.h, U, T, Qy, m)
  <2> HIDE DEF f, F, o, t, u, T, U, py, ly, Py, Ly, ky, m, in
  <2>1. AxisCrop(f.y, f.h, u, t, py, ly, Py, Ly, m, MirrorY(o), in.y, F.y, F.h, U, T, ky, Qy)
    BY <1>9, <1>10, <1>11, <1>12, <1>13 DEF AxisCrop
  <2> QED BY <2>1, AxisKept
<1> DEFINE a == At(geometry', i * V, j * K)
           b == At(g, r.x + i * r.w, r.y + j * r.h)
<1>16. /\ a.x = (F.x * T + Qx * F.w) * U /\ a.y = (F.y * U + Qy * F.h) * T /\ a.den = T * U
  <2> DEFINE q == ReadAt(o, V, K, i * V, j * K)
  <2>1. a = Sampled(F, Upright, q, RasterWidth(z), RasterHeight(z))
    BY <1>7 DEF At, ReadAt
  <2>2. RasterWidth(z) = T /\ RasterHeight(z) = U
    BY <1>7 DEF RasterWidth, RasterHeight, AlongX, AlongY
  <2>3. q[1] = Qx /\ q[2] = Qy
    <3>1. /\ AlongX(o, i * V, j * K) = kx * T /\ AlongY(o, i * V, j * K) = ky * U
      BY DEF AlongX, AlongY
    <3>2. i * V \in Int /\ j * K \in Int /\ V \in Int /\ K \in Int
      <4> HIDE DEF V, K
      <4> QED BY <1>4
    <3> HIDE DEF V, K, o, T, U, kx, ky
    <3> QED BY <1>2, <3>1, <3>2, PointRead DEF T, U
  <2> HIDE DEF q, F, z, T, U, Qx, Qy, a
  <2> QED BY <2>1, <2>2, <2>3 DEF Sampled, Upright
<1>17. /\ b.x = (f.x * t + ex * f.w) * u /\ b.y = (f.y * u + ey * f.h) * t /\ b.den = t * u
  <2> DEFINE q == ReadAt(o, W, H, r.x + i * r.w, r.y + j * r.h)
  <2>1. b = Sampled(f, Upright, q, RasterWidth(g), RasterHeight(g))
    BY DEF At, ReadAt
  <2>2. RasterWidth(g) = t /\ RasterHeight(g) = u
    BY DEF RasterWidth, RasterHeight, AlongX, AlongY
  <2>3. q[1] = ex /\ q[2] = ey
    <3>1. /\ AlongX(o, r.x + i * r.w, r.y + j * r.h) = px + kx * lx
          /\ AlongY(o, r.x + i * r.w, r.y + j * r.h) = py + ky * ly
      BY DEF AlongX, AlongY
    <3>2. r.x + i * r.w \in Int /\ r.y + j * r.h \in Int /\ W \in Int /\ H \in Int
      <4> HIDE DEF W, H
      <4> QED BY <1>3, <1>4
    <3> HIDE DEF W, H, o, t, u, px, py, lx, ly, kx, ky
    <3> QED BY <1>2, <3>1, <3>2, PointRead DEF t, u, EndShown
  <2> HIDE DEF q, f, t, u, ex, ey, b
  <2> QED BY <2>1, <2>2, <2>3 DEF Sampled, Upright
<1>18. Near(a, b, m)
  <2> HIDE DEF a, b, m, f, F, t, u, T, U, ex, ey, Qx, Qy
  <2>1. /\ Abs(a.x * b.den - b.x * a.den) <= m * a.den * b.den
    BY <1>14, <1>16, <1>17 DEF ReadNear
  <2>2. T * U = U * T /\ t * u = u * t
    BY <1>12
  <2>3. Abs(a.y * b.den - b.y * a.den) <= m * a.den * b.den
    BY <1>15, <1>16, <1>17, <2>2 DEF ReadNear
  <2> QED BY <2>1, <2>3 DEF Near
<1> QED BY <1>18 DEF KeptCorner

\* A crop of a photograph that is not straightened leaves what was chosen on screen,
\* to the pixel of the photograph, through any turns, mirrors, resizes and crops
\* before it; of a choice thinner than half such a pixel, to two. (kCrop)
THEOREM CropIsTheChoice == Spec => [][KeepsTheChoice]_vars
<1>1. TypeOK /\ [Next]_vars => [KeepsTheChoice]_vars
  <2> SUFFICES ASSUME TypeOK, [Next]_vars PROVE KeepsTheChoice
    OBVIOUS
  <2>1. TypeOK'
    BY StepType
  <2>2. ASSUME NEW r \in CropChoices, Crop(r), geometry.angle = Upright,
               NEW i \in {0, 1}, NEW j \in {0, 1}
        PROVE  KeptCorner(r, i, j)
    BY <2>1, <2>2, ChoiceIsKept
  <2> QED BY <2>2 DEF KeepsTheChoice
<1> QED
  BY <1>1, TypeCorrect, PTL DEF Spec

-----------------------------------------------------------------------------
(* The way an angle turns the photograph.                                  *)

\* A product of positive numbers, negated.
LEMMA Downwards ==
  ASSUME NEW a \in Nat \ {0}, NEW b \in Nat \ {0}, NEW c \in Nat \ {0}, NEW d \in Nat \ {0},
         NEW e \in Nat \ {0}, NEW f \in Nat \ {0}
  PROVE  a * b * c * (d * e * f) \in Nat \ {0}
<1>1. a * b \in Nat \ {0} /\ d * e \in Nat \ {0}
  OBVIOUS
<1>2. a * b * c \in Nat \ {0} /\ d * e * f \in Nat \ {0}
  BY <1>1
<1> QED BY <1>2

\* What Sampled is given.
Samples(f, a, p, q, t, u) ==
  /\ f.x \in Int /\ f.y \in Int /\ f.w \in Nat \ {0} /\ f.h \in Nat \ {0}
  /\ a.s \in Int /\ a.c \in Int /\ a.d \in Int /\ t \in Int /\ u \in Int
  /\ p[1] \in Int /\ p[2] \in Int /\ q[1] \in Int /\ q[2] \in Int

\* The way across the turned picture, and the way down the upright one, as
\* Sampled gives them for the raster's points p and q.
LEMMA AcrossTurned ==
  ASSUME NEW f, NEW a, NEW p, NEW q, NEW t, NEW u, Samples(f, a, p, q, t, u), a.s # 0
  PROVE  /\ Sampled(f, a, p, t, u).x - Sampled(f, a, q, t, u).x
              = (2 * (p[1] - q[1]) * a.c + 2 * (p[2] - q[2]) * a.s) * f.w
         /\ Sampled(f, a, p, t, u).y - Sampled(f, a, q, t, u).y
              = (2 * (p[2] - q[2]) * a.c - 2 * (p[1] - q[1]) * a.s) * f.w
<1>0. /\ f.x \in Int /\ f.y \in Int /\ f.w \in Nat \ {0} /\ f.h \in Nat \ {0}
      /\ a.s \in Int /\ a.c \in Int /\ a.d \in Int /\ t \in Int /\ u \in Int
      /\ p[1] \in Int /\ p[2] \in Int /\ q[1] \in Int /\ q[2] \in Int
  BY DEF Samples
<1> DEFINE p1 == 2 * p[1] - t  p2 == 2 * p[2] - u  q1 == 2 * q[1] - t  q2 == 2 * q[2] - u
           x == (2 * f.x + f.w) * a.d * t  y == (2 * f.y + f.h) * a.d * t
<1>1. /\ Sampled(f, a, p, t, u).x = x + (p1 * a.c + p2 * a.s) * f.w
      /\ Sampled(f, a, p, t, u).y = y + (p2 * a.c - p1 * a.s) * f.w
      /\ Sampled(f, a, q, t, u).x = x + (q1 * a.c + q2 * a.s) * f.w
      /\ Sampled(f, a, q, t, u).y = y + (q2 * a.c - q1 * a.s) * f.w
  BY DEF Sampled
<1>2. x \in Int /\ y \in Int /\ p1 \in Int /\ p2 \in Int /\ q1 \in Int /\ q2 \in Int
  BY <1>0, Z3
<1>3. p1 - q1 = 2 * (p[1] - q[1]) /\ p2 - q2 = 2 * (p[2] - q[2])
  BY <1>0
<1> HIDE DEF x, y, p1, p2, q1, q2
<1> DEFINE w == f.w  c == a.c  s == a.s
<1>4. w \in Int /\ c \in Int /\ s \in Int
  BY <1>0
<1> HIDE DEF w, c, s
<1>5. (x + (p1 * c + p2 * s) * w) - (x + (q1 * c + q2 * s) * w)
        = ((p1 - q1) * c + (p2 - q2) * s) * w
  BY <1>2, <1>4
<1>6. (y + (p2 * c - p1 * s) * w) - (y + (q2 * c - q1 * s) * w)
        = ((p2 - q2) * c - (p1 - q1) * s) * w
  BY <1>2, <1>4
<1> QED BY <1>1, <1>3, <1>5, <1>6 DEF w, c, s

LEMMA DownUpright ==
  ASSUME NEW f, NEW p, NEW q, NEW t, NEW u, Samples(f, Upright, p, q, t, u)
  PROVE  /\ Sampled(f, Upright, p, t, u).x - Sampled(f, Upright, q, t, u).x
              = (p[1] - q[1]) * f.w * u
         /\ Sampled(f, Upright, p, t, u).y - Sampled(f, Upright, q, t, u).y
              = (p[2] - q[2]) * f.h * t
<1>0. /\ f.x \in Int /\ f.y \in Int /\ f.w \in Nat \ {0} /\ f.h \in Nat \ {0}
      /\ t \in Int /\ u \in Int
      /\ p[1] \in Int /\ p[2] \in Int /\ q[1] \in Int /\ q[2] \in Int
  BY DEF Samples
<1>1. /\ Sampled(f, Upright, p, t, u).x = (f.x * t + p[1] * f.w) * u
      /\ Sampled(f, Upright, p, t, u).y = (f.y * u + p[2] * f.h) * t
      /\ Sampled(f, Upright, q, t, u).x = (f.x * t + q[1] * f.w) * u
      /\ Sampled(f, Upright, q, t, u).y = (f.y * u + q[2] * f.h) * t
  BY DEF Sampled, Upright
<1>2. ASSUME NEW x \in Int, NEW m \in Int, NEW n \in Int, NEW w \in Int, NEW z \in Int
      PROVE  (x + m * w) * z - (x + n * w) * z = (m - n) * w * z
  OBVIOUS
<1>3. f.x * t \in Int /\ f.y * u \in Int
  BY <1>0
<1> QED BY <1>0, <1>1, <1>2, <1>3

\* The product of the two ways is below zero, for the four orientations that do
\* not mirror: in each, the way across runs along one axis of the raster and the
\* way down along the other.
LEMMA TurnedDown ==
  ASSUME TypeOK, TypeOK', NEW a \in Angles, Straighten(a), geometry.angle = Upright, a.s > 0,
         ~Mirrored(geometry.orientation)
  PROVE  LET w == OutputWidth(geometry')
             h == OutputHeight(geometry')
             right == At(geometry', w, h)
             left  == At(geometry', 0, h)
             ox == At(geometry, 0, 0)
             oy == At(geometry, 0, OutputHeight(geometry))
         IN  (right.x - left.x) * (oy.x - ox.x) + (right.y - left.y) * (oy.y - ox.y) < 0
<1> DEFINE g == geometry  f == g.frame  o == g.orientation
           z == geometry'  F == z.frame
           V == OutputWidth(geometry')  K == OutputHeight(geometry')
           W == OutputWidth(geometry)  H == OutputHeight(geometry)
           t == AlongX(o, W, H)  u == AlongY(o, W, H)
           T == AlongX(o, V, K)  U == AlongY(o, V, K)
           right == At(geometry', V, K)  left == At(geometry', 0, K)
           ox == At(geometry, 0, 0)  oy == At(geometry, 0, H)
           p == ReadAt(o, V, K, V, K)  q == ReadAt(o, V, K, 0, K)
           j == ReadAt(o, W, H, 0, 0)  k == ReadAt(o, W, H, 0, H)
<1>1. g \in GeometryType /\ (g.tw = 0 <=> g.th = 0) /\ z \in GeometryType /\ (z.tw = 0 <=> z.th = 0)
  BY DEF TypeOK
<1>2. f \in RectType /\ o \in Orientations /\ F \in RectType
  BY <1>1 DEF GeometryType
<1>3. W \in Nat \ {0} /\ H \in Nat \ {0} /\ V \in Nat \ {0} /\ K \in Nat \ {0}
  BY <1>1, SizeType
<1>4. /\ f.x \in Int /\ f.y \in Int /\ f.w \in Nat \ {0} /\ f.h \in Nat \ {0}
      /\ F.x \in Int /\ F.y \in Int /\ F.w \in Nat \ {0} /\ F.h \in Nat \ {0}
  <2> HIDE DEF f, F
  <2> QED BY <1>2 DEF RectType
<1>5. a.s \in Nat \ {0} /\ a.c \in Nat \ {0} /\ a.d \in Nat \ {0}
  BY AngleType
<1>6. z.angle = a /\ z.orientation = o
  <2>1. z = Straightened(g, a)
    BY DEF Straighten, Apply
  <2> HIDE DEF z, o
  <2> QED BY <1>1, <2>1 DEF Straightened, GeometryType, o
<1>7. /\ RasterWidth(z) = T /\ RasterHeight(z) = U
      /\ RasterWidth(g) = t /\ RasterHeight(g) = u
  BY <1>6 DEF RasterWidth, RasterHeight, AlongX, AlongY
<1>8. /\ right = Sampled(F, a, p, T, U) /\ left = Sampled(F, a, q, T, U)
      /\ ox = Sampled(f, Upright, j, t, u) /\ oy = Sampled(f, Upright, k, t, u)
  <2> HIDE DEF T, U, t, u
  <2> QED BY <1>6, <1>7 DEF At, ReadAt
<1>9. o \in {1, 3, 6, 8}
  <2> HIDE DEF o
  <2>1. ~Mirrored(o)
    BY DEF o
  <2> QED BY <1>2, <2>1 DEF Mirrored, Orientations
<1>10. /\ p[1] = (IF MirrorX(o) = 1 THEN T - AlongX(o, V, K) ELSE AlongX(o, V, K))
       /\ p[2] = (IF MirrorY(o) = 1 THEN U - AlongY(o, V, K) ELSE AlongY(o, V, K))
       /\ q[1] = (IF MirrorX(o) = 1 THEN T - AlongX(o, 0, K) ELSE AlongX(o, 0, K))
       /\ q[2] = (IF MirrorY(o) = 1 THEN U - AlongY(o, 0, K) ELSE AlongY(o, 0, K))
  <2>1. 0 \in Int /\ V \in Int /\ K \in Int
    BY <1>3
  <2> HIDE DEF V, K, o
  <2>2. /\ p[1] = (IF MirrorX(o) = 1 THEN T - AlongX(o, V, K) ELSE AlongX(o, V, K))
        /\ p[2] = (IF MirrorY(o) = 1 THEN U - AlongY(o, V, K) ELSE AlongY(o, V, K))
    <3>1. ASSUME NEW x \in Int, NEW y \in Int
          PROVE  /\ ReadAt(o, V, K, x, y)[1] =
                      IF MirrorX(o) = 1 THEN T - AlongX(o, x, y) ELSE AlongX(o, x, y)
                 /\ ReadAt(o, V, K, x, y)[2] =
                      IF MirrorY(o) = 1 THEN U - AlongY(o, x, y) ELSE AlongY(o, x, y)
      BY <1>2, <2>1, PointRead
    <3> HIDE DEF T, U
    <3> QED BY <2>1, <3>1
  <2>3. /\ q[1] = (IF MirrorX(o) = 1 THEN T - AlongX(o, 0, K) ELSE AlongX(o, 0, K))
        /\ q[2] = (IF MirrorY(o) = 1 THEN U - AlongY(o, 0, K) ELSE AlongY(o, 0, K))
    BY <1>2, <2>1, PointRead
  <2> QED BY <2>2, <2>3
<1>11. /\ j[1] = (IF MirrorX(o) = 1 THEN t - AlongX(o, 0, 0) ELSE AlongX(o, 0, 0))
       /\ j[2] = (IF MirrorY(o) = 1 THEN u - AlongY(o, 0, 0) ELSE AlongY(o, 0, 0))
       /\ k[1] = (IF MirrorX(o) = 1 THEN t - AlongX(o, 0, H) ELSE AlongX(o, 0, H))
       /\ k[2] = (IF MirrorY(o) = 1 THEN u - AlongY(o, 0, H) ELSE AlongY(o, 0, H))
  <2> HIDE DEF W, H, o
  <2> QED BY <1>2, <1>3, PointRead
<1>12. T \in Nat \ {0} /\ U \in Nat \ {0} /\ t \in Nat \ {0} /\ u \in Nat \ {0}
  <2> HIDE DEF V, K, W, H
  <2> QED BY <1>3 DEF AlongX, AlongY
\* the way across on the turned raster, and the way down on the upright one
<1>13. /\ p[1] \in Int /\ p[2] \in Int /\ q[1] \in Int /\ q[2] \in Int
       /\ j[1] \in Int /\ j[2] \in Int /\ k[1] \in Int /\ k[2] \in Int
       /\ \/ p[1] - q[1] = T /\ p[2] - q[2] = 0 /\ k[1] - j[1] = 0 /\ k[2] - j[2] = u
          \/ p[1] - q[1] = -T /\ p[2] - q[2] = 0 /\ k[1] - j[1] = 0 /\ k[2] - j[2] = -u
          \/ p[1] - q[1] = 0 /\ p[2] - q[2] = -U /\ k[1] - j[1] = t /\ k[2] - j[2] = 0
          \/ p[1] - q[1] = 0 /\ p[2] - q[2] = U /\ k[1] - j[1] = -t /\ k[2] - j[2] = 0
  <2> HIDE DEF p, q, j, k, V, K, W, H, o
  <2>1. CASE o = 1
    BY <1>3, <1>10, <1>11, <2>1 DEF AlongX, AlongY, MirrorX, MirrorY, SwapsAxes
  <2>2. CASE o = 3
    BY <1>3, <1>10, <1>11, <2>2 DEF AlongX, AlongY, MirrorX, MirrorY, SwapsAxes
  <2>3. CASE o = 6
    BY <1>3, <1>10, <1>11, <2>3 DEF AlongX, AlongY, MirrorX, MirrorY, SwapsAxes
  <2>4. CASE o = 8
    BY <1>3, <1>10, <1>11, <2>4 DEF AlongX, AlongY, MirrorX, MirrorY, SwapsAxes
  <2> QED BY <1>9, <2>1, <2>2, <2>3, <2>4
<1> DEFINE A == p[1] - q[1]  B == p[2] - q[2]  C == k[1] - j[1]  D == k[2] - j[2]
           c == a.c  s == a.s
<1>14. /\ right.x - left.x = (2 * A * c + 2 * B * s) * F.w
       /\ right.y - left.y = (2 * B * c - 2 * A * s) * F.w
  <2> HIDE DEF F, p, q, T, U, right, left
  <2>1. Samples(F, a, p, q, T, U) /\ a.s # 0
    BY <1>4, <1>5, <1>12, <1>13 DEF Samples
  <2> QED BY <1>8, <2>1, AcrossTurned
<1>15. oy.x - ox.x = C * f.w * u /\ oy.y - ox.y = D * f.h * t
  <2> HIDE DEF f, j, k, t, u, ox, oy
  <2>1. Samples(f, Upright, k, j, t, u)
    BY <1>4, <1>12, <1>13 DEF Samples, Upright
  <2> QED BY <1>8, <2>1, DownUpright
<1>16. /\ A \in Int /\ B \in Int /\ C \in Int /\ D \in Int /\ c \in Int /\ s \in Nat \ {0}
       /\ \/ A = T /\ B = 0 /\ C = 0 /\ D = u
          \/ A = -T /\ B = 0 /\ C = 0 /\ D = -u
          \/ A = 0 /\ B = -U /\ C = t /\ D = 0
          \/ A = 0 /\ B = U /\ C = -t /\ D = 0
  BY <1>5, <1>13
<1> DEFINE l == F.w  m == f.w  n == f.h
<1> HIDE DEF A, B, C, D, c, s, T, U, t, u, l, m, n, right, left, ox, oy
<1>17. (2 * A * c + 2 * B * s) * l * (C * m * u) + (2 * B * c - 2 * A * s) * l * (D * n * t) < 0
  <2>1. l \in Nat \ {0} /\ m \in Nat \ {0} /\ n \in Nat \ {0}
    BY <1>4 DEF l, m, n
  <2>2. CASE A = T /\ B = 0 /\ C = 0 /\ D = u
    <3>1. /\ (2 * A * c + 2 * B * s) * l * (C * m * u) = 0
          /\ (2 * B * c - 2 * A * s) * l * (D * n * t) = -((2 * T) * s * l * (u * n * t))
      BY <1>12, <1>16, <2>1, <2>2
    <3>2. (2 * T) * s * l * (u * n * t) \in Nat \ {0}
      BY <1>12, <1>16, <2>1, Downwards
    <3> QED BY <3>1, <3>2
  <2>3. CASE A = -T /\ B = 0 /\ C = 0 /\ D = -u
    <3>1. /\ (2 * A * c + 2 * B * s) * l * (C * m * u) = 0
          /\ (2 * B * c - 2 * A * s) * l * (D * n * t) = -((2 * T) * s * l * (u * n * t))
      BY <1>12, <1>16, <2>1, <2>3
    <3>2. (2 * T) * s * l * (u * n * t) \in Nat \ {0}
      BY <1>12, <1>16, <2>1, Downwards
    <3> QED BY <3>1, <3>2
  <2>4. CASE A = 0 /\ B = -U /\ C = t /\ D = 0
    <3>1. /\ (2 * A * c + 2 * B * s) * l * (C * m * u) = -((2 * U) * s * l * (t * m * u))
          /\ (2 * B * c - 2 * A * s) * l * (D * n * t) = 0
      BY <1>12, <1>16, <2>1, <2>4
    <3>2. (2 * U) * s * l * (t * m * u) \in Nat \ {0}
      BY <1>12, <1>16, <2>1, Downwards
    <3> QED BY <3>1, <3>2
  <2>5. CASE A = 0 /\ B = U /\ C = -t /\ D = 0
    <3>1. /\ (2 * A * c + 2 * B * s) * l * (C * m * u) = -((2 * U) * s * l * (t * m * u))
          /\ (2 * B * c - 2 * A * s) * l * (D * n * t) = 0
      BY <1>12, <1>16, <2>1, <2>5
    <3>2. (2 * U) * s * l * (t * m * u) \in Nat \ {0}
      BY <1>12, <1>16, <2>1, Downwards
    <3> QED BY <3>1, <3>2
  <2> QED BY <1>16, <2>2, <2>3, <2>4, <2>5
<1>18. (right.x - left.x) * (oy.x - ox.x) + (right.y - left.y) * (oy.y - ox.y) < 0
  BY <1>14, <1>15, <1>17 DEF l, m, n
<1> QED BY <1>18 DEF right, left, ox, oy

\* A positive angle turns the photograph clockwise, whatever was done to it before,
\* unless it is mirrored. (kStraighten)
THEOREM AngleTurnsClockwise == Spec => [][TurnsClockwise]_vars
<1>1. TypeOK /\ [Next]_vars => [TurnsClockwise]_vars
  <2> SUFFICES ASSUME TypeOK, [Next]_vars PROVE TurnsClockwise
    OBVIOUS
  <2>1. TypeOK'
    BY StepType
  <2> SUFFICES ASSUME NEW a \in Angles, Straighten(a), geometry.angle = Upright, a.s > 0,
                      ~Mirrored(geometry.orientation)
               PROVE  LET w == OutputWidth(geometry')
                          h == OutputHeight(geometry')
                          right == At(geometry', w, h)
                          left  == At(geometry', 0, h)
                          ox == At(geometry, 0, 0)
                          oy == At(geometry, 0, OutputHeight(geometry))
                      IN  (right.x - left.x) * (oy.x - ox.x)
                            + (right.y - left.y) * (oy.y - ox.y) < 0
    BY DEF TurnsClockwise
  <2> QED BY <2>1, TurnedDown
<1> QED
  BY <1>1, TypeCorrect, PTL DEF Spec

\* Every turn, mirror, crop and angle does to the picture on screen what it says,
\* after any stack of operations, on any photograph. (EditGeometry, and the renderer)
THEOREM EditsAreTrue == Spec => EditsDoWhatTheySay
BY TurnsAreTrue, FlipsAreTrue, AngleForgets, CropIsTheChoice, CropKeepsTheScale,
   AngleTurnsClockwise, PTL DEF EditsDoWhatTheySay

-----------------------------------------------------------------------------
(* The panels beside the photograph.                                       *)

\* The size fields: what is asked for is a size, and a draft that stays when its
\* field is left waits for an answer that will change the document's size.
Sides == 1 .. MAX_SIDE
Wish == [op : {"resize", "other"}, width : Sides, height : Sides]
Draft == [width : Nat \cup {NotANumber}, height : Nat \cup {NotANumber}, on : BOOLEAN]
ChangesTheSize(a) == a.width # size.width \/ a.height # size.height
NewSize(s) == \E i \in 1 .. Len(s) : ChangesTheSize(s[i])
DraftIsOwed == focus = "none" /\ draft.on /\ ~resizeFailed => NewSize(asks)
FieldsInv ==
  /\ ResizeTypeOK /\ asks \in Seq(Wish) /\ draft \in Draft
  /\ DraftIsOwed

\* One more edit on its way is the last of them, and the others stay.
LEMMA OneMore ==
  ASSUME NEW S, NEW s \in Seq(S), NEW e \in S
  PROVE  /\ Append(s, e) \in Seq(S) /\ Len(Append(s, e)) = Len(s) + 1
         /\ \A i \in 1 .. Len(s) : Append(s, e)[i] = s[i]
         /\ Append(s, e)[Len(s) + 1] = e
         /\ Append(s, e) # <<>> /\ Last(Append(s, e)) = e
<1>1. /\ Append(s, e) \in Seq(S) /\ Len(Append(s, e)) = Len(s) + 1
      /\ \A i \in 1 .. Len(s) : Append(s, e)[i] = s[i]
      /\ Append(s, e)[Len(s) + 1] = e
  BY AppendProperties
<1>2. Append(s, e) # <<>>
  BY <1>1
<1> QED
  BY <1>1, <1>2 DEF Last

\* The oldest answered, each of the others is one place further on.
LEMMA OneLess ==
  ASSUME NEW S, NEW s \in Seq(S), s # <<>>
  PROVE  /\ Tail(s) \in Seq(S) /\ Len(Tail(s)) = Len(s) - 1 /\ Len(s) \in Nat \ {0}
         /\ Head(s) \in S /\ Head(s) = s[1]
         /\ \A i \in 1 .. Len(s) - 1 : Tail(s)[i] = s[i + 1]
         /\ Len(s) > 1 => Tail(s) # <<>> /\ Last(Tail(s)) = Last(s)
         /\ Len(s) = 1 => Tail(s) = <<>> /\ Last(s) = Head(s)
<1>1. /\ Tail(s) \in Seq(S) /\ Len(Tail(s)) = Len(s) - 1 /\ Len(s) \in Nat \ {0}
      /\ Head(s) \in S /\ Head(s) = s[1]
      /\ \A i \in 1 .. Len(s) - 1 : Tail(s)[i] = s[i + 1]
  BY HeadTailProperties
<1>2. Len(s) > 1 => Tail(s) # <<>> /\ Last(Tail(s)) = Last(s)
  BY <1>1 DEF Last
<1>3. Len(s) = 1 => Tail(s) = <<>> /\ Last(s) = Head(s)
  <2>1. Tail(s) = <<>> <=> Len(Tail(s)) = 0
    BY <1>1, EmptySeq
  <2> QED
    BY <1>1, <2>1 DEF Last
<1> QED
  BY <1>1, <1>2, <1>3

LEMMA ClampIsASide == \A n \in Int : Clamp(n) \in Sides
BY ResizeAssumption DEF Clamp, Sides

LEMMA ScaledIsASide ==
  ASSUME NEW n \in Nat, NEW a \in Sides, NEW b \in Sides
  PROVE  Scaled(n, a, b) \in Sides
<1>1. (2 * n * a + b) \div (2 * b) \in Int
  <2> DEFINE p == 2 * n * a + b
             q == 2 * b
  <2>1. p \in Int /\ q \in Int /\ q > 0
    BY ResizeAssumption DEF Sides
  <2> HIDE DEF p, q
  <2>2. p \div q \in Int
    BY <2>1
  <2> QED
    BY <2>2 DEF p, q
<1> QED
  BY <1>1, ClampIsASide DEF Scaled

LEMMA ResizeInitInv == ResizeInit => FieldsInv
<1> SUFFICES ASSUME ResizeInit PROVE FieldsInv
  OBVIOUS
<1>1. size \in [width : Sides, height : Sides]
  BY ResizeAssumption DEF ResizeInit, Sides
<1> QED
  BY <1>1, EmptySeq DEF ResizeInit, FieldsInv, ResizeTypeOK, DraftIsOwed, NoDraft, Draft, Sides

LEMMA ResizeStepInv == FieldsInv /\ [ResizeNext]_resizeVars => FieldsInv'
<1> SUFFICES ASSUME FieldsInv, [ResizeNext]_resizeVars PROVE FieldsInv'
  OBVIOUS
<1> USE DEF FieldsInv, ResizeTypeOK, DraftIsOwed
<1>0. /\ Sides \subseteq Nat \ {0} /\ 1 .. MAX_SIDE = Sides
      /\ size = [width |-> size.width, height |-> size.height]
      /\ size.width \in Sides /\ size.height \in Sides
  BY ResizeAssumption DEF Sides
<1>1. ASSUME NEW axis \in {"width", "height"}, Focus(axis) PROVE FieldsInv'
  BY <1>1 DEF Focus
<1>2. ASSUME NEW text \in Typed, Type(text) PROVE FieldsInv'
  <2>1. text \in Nat \cup {NotANumber}
    BY ResizeAssumption
  <2>2. Shown \in Draft
    BY <1>0 DEF Shown, Draft
  <2>3. draft' \in Draft
    <3>1. CASE focus = "width"
      <4>1. [Shown EXCEPT !.width = text] \in Draft
        BY <2>1, <2>2 DEF Draft
      <4>2. text # NotANumber => Scaled(text, size.height, size.width) \in Nat
        BY <2>1, <1>0, ScaledIsASide
      <4>3. text # NotANumber => [[Shown EXCEPT !.width = text] EXCEPT
                !.height = Scaled(text, size.height, size.width)] \in Draft
        BY <4>1, <4>2 DEF Draft
      <4> QED
        BY <1>2, <3>1, <4>1, <4>3 DEF Type, Other
    <3>2. CASE focus = "height"
      <4>1. [Shown EXCEPT !.height = text] \in Draft
        BY <2>1, <2>2 DEF Draft
      <4>2. text # NotANumber => Scaled(text, size.width, size.height) \in Nat
        BY <2>1, <1>0, ScaledIsASide
      <4>3. text # NotANumber => [[Shown EXCEPT !.height = text] EXCEPT
                !.width = Scaled(text, size.width, size.height)] \in Draft
        BY <4>1, <4>2 DEF Draft
      <4> QED
        BY <1>2, <3>2, <4>1, <4>3 DEF Type, Other
    <3> QED
      BY <1>2, <3>1, <3>2 DEF Type
  <2> QED
    BY <1>2, <2>3 DEF Type
<1>3. CASE CommitDraft
  <2>1. CASE draft' = NoDraft /\ UNCHANGED asks
    BY <1>3, <2>1 DEF CommitDraft, NoDraft, Draft
  <2>2. CASE /\ NotANumber \notin {draft.width, draft.height}
             /\ ~(Clamp(draft.width) = size.width /\ Clamp(draft.height) = size.height)
             /\ Ask(Clamp(draft.width), Clamp(draft.height)) /\ UNCHANGED draft
    <3> DEFINE wish == [op |-> "resize", width |-> Clamp(draft.width), height |-> Clamp(draft.height)]
    <3>1. draft.width \in Nat /\ draft.height \in Nat
      BY <2>2 DEF Draft
    <3>2. wish \in Wish /\ ChangesTheSize(wish)
      BY <2>2, <3>1, ClampIsASide DEF Wish, ChangesTheSize
    <3>3. asks' = Append(asks, wish)
      BY <2>2 DEF Ask
    <3> HIDE DEF wish
    <3>4. asks' \in Seq(Wish) /\ Len(asks') \in Nat /\ Len(asks') = Len(asks) + 1
          /\ asks'[Len(asks')] = wish
      BY <3>2, <3>3, OneMore
    <3>5. size' = size /\ NewSize(asks)'
      BY <1>3, <3>2, <3>4 DEF CommitDraft, NewSize, ChangesTheSize
    <3> QED
      BY <1>3, <2>2, <3>4, <3>5 DEF CommitDraft
  <2> QED
    BY <1>3, <2>1, <2>2 DEF CommitDraft
<1>4. CASE Escape
  BY <1>4 DEF Escape, NoDraft, Draft
<1>5. CASE Lock
  <2>1. locked' \in BOOLEAN
    BY <1>5 DEF Lock
  <2>2. UNCHANGED <<size, draft, focus, asks, resizeFailed>>
    BY <1>5 DEF Lock
  <2> QED
    BY <2>1, <2>2 DEF NewSize, ChangesTheSize
<1>6. ASSUME NEW wish \in Wish, asks' = Append(asks, wish),
             UNCHANGED <<size, locked, draft, focus, resizeFailed>>
      PROVE  FieldsInv'
  <2>1. /\ asks' \in Seq(Wish) /\ Len(asks') = Len(asks) + 1 /\ Len(asks) \in Nat
        /\ \A i \in 1 .. Len(asks) : asks'[i] = asks[i]
    BY <1>6, OneMore
  <2>2. NewSize(asks) => NewSize(asks)'
    BY <1>6, <2>1 DEF NewSize, ChangesTheSize
  <2> QED
    BY <1>6, <2>1, <2>2
<1>7. CASE EditElsewhere
  <2>1. PICK s \in Originals : asks' = Append(asks, [op |-> "other", width |-> s.width, height |-> s.height])
    BY <1>7 DEF EditElsewhere
  <2>2. [op |-> "other", width |-> s.width, height |-> s.height] \in Wish
    BY ResizeAssumption DEF Wish, Sides
  <2> QED
    BY <1>6, <1>7, <2>1, <2>2 DEF EditElsewhere
<1>8. ASSUME NEW factor \in FACTORS, ScaleBy(factor) PROVE FieldsInv'
  <2>1. size.width * factor \in Int /\ size.height * factor \in Int
    BY <1>0, ResizeAssumption
  <2>2. [op |-> "resize", width |-> Clamp(size.width * factor),
         height |-> Clamp(size.height * factor)] \in Wish
    BY <2>1, ClampIsASide DEF Wish
  <2> QED
    BY <1>6, <1>8, <2>2 DEF ScaleBy, Ask
<1>9. CASE ResizeAnswer
  <2>1. /\ asks # <<>> /\ asks' = Tail(asks)
        /\ asks' \in Seq(Wish) /\ Len(asks') = Len(asks) - 1 /\ Len(asks) \in Nat \ {0}
        /\ Head(asks) \in Wish /\ Head(asks) = asks[1]
        /\ \A i \in 1 .. Len(asks) - 1 : asks'[i] = asks[i + 1]
    BY <1>9, OneLess DEF ResizeAnswer
  <2>2. CASE resizeFailed' = TRUE /\ UNCHANGED <<size, draft>>
    BY <1>9, <2>1, <2>2 DEF ResizeAnswer
  <2>3. CASE Adopted([width |-> Head(asks).width, height |-> Head(asks).height]) /\ UNCHANGED resizeFailed
    <3>1. size' = [width |-> Head(asks).width, height |-> Head(asks).height]
      BY <2>3 DEF Adopted
    <3>2. size' \in [width : Sides, height : Sides]
      BY <2>1, <3>1 DEF Wish
    <3>3. CASE size' = size /\ draft' = draft
      <4>1. ~ChangesTheSize(asks[1])
        BY <2>1, <3>1, <3>3 DEF ChangesTheSize
      <4>2. NewSize(asks) => NewSize(asks)'
        <5> SUFFICES ASSUME NEW i \in 1 .. Len(asks), ChangesTheSize(asks[i]) PROVE NewSize(asks)'
          BY DEF NewSize
        <5>1. i # 1
          BY <4>1
        <5>2. i - 1 \in 1 .. Len(asks') /\ asks'[i - 1] = asks[i]
          BY <2>1, <5>1
        <5> QED
          BY <3>3, <5>2 DEF NewSize, ChangesTheSize
      <4> QED
        BY <1>9, <2>1, <2>3, <3>3, <4>2 DEF ResizeAnswer
    <3>4. CASE draft' = NoDraft
      BY <1>0, <1>9, <2>1, <2>3, <3>2, <3>4 DEF ResizeAnswer, NoDraft, Draft
    <3> QED
      BY <2>3, <3>1, <3>3, <3>4 DEF Adopted
  <2> QED
    BY <1>9, <2>2, <2>3 DEF ResizeAnswer
<1>10. CASE UNCHANGED resizeVars
  BY <1>10 DEF resizeVars, NewSize, ChangesTheSize
<1> QED
  BY <1>1, <1>2, <1>3, <1>4, <1>5, <1>7, <1>8, <1>9, <1>10 DEF ResizeNext

\* With nothing on its way nothing is owed.
LEMMA FieldsKept == FieldsInv => FieldsComeBack /\ AsksAreLegal
<1> SUFFICES ASSUME FieldsInv PROVE FieldsComeBack /\ AsksAreLegal
  OBVIOUS
<1>1. FieldsComeBack
  <2>1. asks = <<>> => ~NewSize(asks)
    BY EmptySeq DEF NewSize
  <2> QED
    BY <2>1 DEF FieldsInv, DraftIsOwed, FieldsComeBack
<1>2. AsksAreLegal
  <2> SUFFICES ASSUME NEW i \in 1 .. Len(asks) PROVE {asks[i].width, asks[i].height} \subseteq 1 .. MAX_SIDE
    BY DEF AsksAreLegal
  <2>1. asks[i] \in Wish
    BY ElementOfSeq DEF FieldsInv
  <2> QED
    BY <2>1 DEF Wish, Sides
<1> QED
  BY <1>1, <1>2

-----------------------------------------------------------------------------
\* The white balance: with nothing crowded, what the knobs show is what they were
\* last set to, and so is what was last sent, but for a reset on its way, which
\* was sent over the document.
Sending == [custom : BOOLEAN, knobs : [Knobs -> Values], reset : BOOLEAN]
Told == (IF awaited = <<>> THEN balance ELSE Last(awaited)).knobs
KnobsFollow ==
  /\ moved => hand # "none"
  /\ ~crowded =>
       /\ hand # "none" => ~Resetting
       /\ ~moved => meant = Told
       /\ ~Resetting => KnobsShown = meant
       /\ Len(awaited) = 1 /\ awaited[1].reset => KnobsShown = balance.knobs
RawInv == RawTypeOK /\ KnobsFollow

LEMMA RawInitInv == RawInit => RawInv
<1> SUFFICES ASSUME RawInit PROVE RawInv
  OBVIOUS
<1>1. Off \in [Knobs -> Values]
  BY RawAssumption DEF Off
<1>2. Len(awaited) = 0 /\ awaited \in Seq(Sending)
  BY EmptySeq DEF RawInit
<1> QED
  BY <1>1, <1>2 DEF RawInit, RawInv, RawTypeOK, KnobsFollow, Told, Resetting, KnobsShown, Sending

\* The edit that is sent when the hand lets go, or for a reset.
LEMMA SendStep ==
  ASSUME RawInv, NEW custom \in BOOLEAN, NEW knobs \in [Knobs -> Values], NEW reset \in BOOLEAN,
         Send(custom, knobs, reset), UNCHANGED <<balance, copy>>
  PROVE  /\ awaited' \in Seq(Sending) /\ Told' = knobs /\ KnobsShown' = KnobsShown
         /\ Resetting' <=> Resetting \/ reset
         /\ Len(awaited') = 1 => awaited = <<>> /\ awaited'[1].reset = reset
<1> DEFINE e == [custom |-> custom, knobs |-> knobs, reset |-> reset]
<1>1. e \in Sending /\ awaited \in Seq(Sending) /\ awaited' = Append(awaited, e)
      /\ e.reset = reset /\ e.knobs = knobs
  BY DEF Sending, RawInv, RawTypeOK, Send
<1> HIDE DEF e
<1>2. /\ awaited' \in Seq(Sending) /\ Len(awaited') = Len(awaited) + 1 /\ Len(awaited) \in Nat
      /\ \A i \in 1 .. Len(awaited) : awaited'[i] = awaited[i]
      /\ awaited'[Len(awaited) + 1] = e
      /\ awaited' # <<>> /\ Last(awaited') = e
  BY <1>1, OneMore
<1>3. Told' = knobs /\ KnobsShown' = KnobsShown
  BY <1>1, <1>2 DEF Told, KnobsShown
<1>4. Resetting' <=> Resetting \/ reset
  <2>1. Resetting' => Resetting \/ reset
    BY <1>1, <1>2 DEF Resetting
  <2>2. reset => Resetting'
    <3>1. Len(awaited) + 1 \in 1 .. Len(awaited') /\ awaited'[Len(awaited) + 1].reset = reset
      BY <1>1, <1>2
    <3> QED
      BY <3>1 DEF Resetting
  <2>3. Resetting => Resetting'
    BY <1>1, <1>2 DEF Resetting
  <2> QED
    BY <2>1, <2>2, <2>3
<1>5. Len(awaited') = 1 => awaited = <<>> /\ awaited'[1].reset = reset
  <2>1. awaited = <<>> <=> Len(awaited) = 0
    BY <1>1, EmptySeq
  <2> QED
    BY <1>1, <1>2, <2>1
<1> QED
  BY <1>2, <1>3, <1>4, <1>5

LEMMA RawStepInv == RawInv /\ [RawNext]_rawVars => RawInv'
<1> SUFFICES ASSUME RawInv, [RawNext]_rawVars PROVE RawInv'
  OBVIOUS
<1>0. /\ RawTypeOK /\ KnobsFollow /\ awaited \in Seq(Sending)
      /\ KnobsShown \in [Knobs -> Values] /\ Off \in [Knobs -> Values]
      /\ (hand \in Knobs <=> hand # "none")
  BY RawAssumption DEF RawInv, RawTypeOK, KnobsShown, Off, Knobs, Sending
<1>00. awaited = <<>> => ~Resetting /\ Len(awaited) = 0
  BY <1>0, EmptySeq DEF Resetting
<1>1. ASSUME NEW k \in Knobs, Hold(k) PROVE RawInv'
  <2>1. UNCHANGED <<balance, copy, moved, awaited, meant>> /\ hand' = k /\ k # "none"
        /\ crowded' = (crowded \/ Resetting) /\ hand = "none"
    BY <1>1 DEF Hold, Knobs
  <2>2. RawTypeOK'
    BY <1>0, <2>1 DEF RawTypeOK
  <2>3. KnobsFollow'
    BY <1>0, <2>1 DEF KnobsFollow, Resetting, Told, KnobsShown
  <2> QED
    BY <2>2, <2>3 DEF RawInv
<1>2. ASSUME NEW value \in Values, MoveKnob(value) PROVE RawInv'
  <2>1. /\ hand \in Knobs /\ hand # "none" /\ copy' = [KnobsShown EXCEPT ![hand] = value]
        /\ moved' = TRUE /\ meant' = [meant EXCEPT ![hand] = value]
        /\ UNCHANGED <<balance, hand, awaited, crowded>>
    BY <1>0, <1>2 DEF MoveKnob, DragKnob
  <2>2. copy' \in [Knobs -> Values] /\ meant' \in [Knobs -> Values]
    BY <1>0, <2>1 DEF RawTypeOK
  <2>3. KnobsShown' = copy'
    BY <2>2, RawAssumption DEF KnobsShown
  <2>4. RawTypeOK'
    BY <1>0, <2>1, <2>2 DEF RawTypeOK
  <2>5. KnobsFollow'
    <3>1. Resetting' <=> Resetting
      BY <2>1 DEF Resetting
    <3>2. ~crowded => ~Resetting /\ KnobsShown = meant
      BY <1>0, <2>1 DEF KnobsFollow
    <3>3. ~crowded => ~(Len(awaited) = 1 /\ awaited[1].reset)
      BY <3>2 DEF Resetting
    <3> QED
      BY <2>1, <2>3, <3>1, <3>2, <3>3 DEF KnobsFollow
  <2> QED
    BY <2>4, <2>5 DEF RawInv
<1>3. CASE LetGo
  <2>1. /\ hand # "none" /\ hand' = "none" /\ moved' = FALSE
        /\ UNCHANGED <<balance, copy, meant, crowded>>
    BY <1>3 DEF LetGo
  <2>2. CASE moved
    <3>1. Send(TRUE, KnobsShown, FALSE)
      BY <1>3, <2>2 DEF LetGo
    <3>2. /\ awaited' \in Seq(Sending) /\ Told' = KnobsShown /\ KnobsShown' = KnobsShown
          /\ (Resetting' <=> Resetting)
          /\ Len(awaited') = 1 => ~awaited'[1].reset
      BY <1>0, <2>1, <3>1, SendStep
    <3>3. RawTypeOK'
      BY <1>0, <2>1, <3>2 DEF RawTypeOK, Sending
    <3>4. KnobsFollow'
      BY <1>0, <2>1, <3>2 DEF KnobsFollow
    <3> QED
      BY <3>3, <3>4 DEF RawInv
  <2>3. CASE ~moved
    <3>1. awaited' = awaited
      BY <1>3, <2>3 DEF LetGo
    <3>2. RawTypeOK'
      BY <1>0, <2>1, <3>1 DEF RawTypeOK
    <3>3. KnobsFollow'
      BY <1>0, <2>1, <2>3, <3>1 DEF KnobsFollow, Resetting, Told, KnobsShown
    <3> QED
      BY <3>2, <3>3 DEF RawInv
  <2> QED
    BY <1>0, <2>2, <2>3 DEF RawTypeOK
<1>4. ASSUME NEW k \in Knobs, ResetKnob(k) PROVE RawInv'
  <2> DEFINE knobs == [KnobsShown EXCEPT ![k] = AsShot]
  <2>1. /\ hand = "none" /\ Send(TRUE, knobs, TRUE)
        /\ meant' = [meant EXCEPT ![k] = AsShot] /\ crowded' = (crowded \/ Resetting)
        /\ UNCHANGED <<balance, copy, hand, moved>>
    BY <1>4 DEF ResetKnob
  <2>2. knobs \in [Knobs -> Values] /\ meant' \in [Knobs -> Values]
        /\ (KnobsShown = meant => knobs = meant')
    BY <1>0, <2>1, RawAssumption DEF RawTypeOK
  <2> HIDE DEF knobs
  <2>3. /\ awaited' \in Seq(Sending) /\ Told' = knobs /\ KnobsShown' = KnobsShown
        /\ Resetting'
        /\ Len(awaited') = 1 => awaited = <<>>
    BY <1>0, <2>1, <2>2, SendStep
  <2>4. RawTypeOK'
    BY <1>0, <2>1, <2>2, <2>3 DEF RawTypeOK, Sending
  <2>5. ~moved
    BY <1>0, <2>1 DEF KnobsFollow
  <2>6. ~crowded' => KnobsShown = meant /\ meant = Told
    BY <1>0, <2>1, <2>5 DEF KnobsFollow
  <2>7. ~crowded' /\ Len(awaited') = 1 => KnobsShown' = balance'.knobs
    BY <2>1, <2>3, <2>6 DEF Told
  <2>8. KnobsFollow'
    BY <2>1, <2>2, <2>3, <2>5, <2>6, <2>7 DEF KnobsFollow
  <2> QED
    BY <2>4, <2>8 DEF RawInv
<1>5. CASE ResetRaw
  <2>1. /\ hand = "none" /\ Send(FALSE, Off, TRUE) /\ meant' = Off
        /\ UNCHANGED <<balance, copy, hand, moved, crowded>>
    BY <1>5 DEF ResetRaw
  <2>2. /\ awaited' \in Seq(Sending) /\ Told' = Off /\ KnobsShown' = KnobsShown
        /\ Resetting'
        /\ Len(awaited') = 1 => awaited = <<>>
    BY <1>0, <2>1, SendStep
  <2>3. RawTypeOK'
    BY <1>0, <2>1, <2>2 DEF RawTypeOK, Sending
  <2>4. ~moved
    BY <1>0, <2>1 DEF KnobsFollow
  <2>5. ~crowded /\ awaited = <<>> => KnobsShown = balance.knobs
    BY <1>0, <1>00, <2>4 DEF KnobsFollow, Told
  <2>6. KnobsFollow'
    BY <2>1, <2>2, <2>4, <2>5 DEF KnobsFollow
  <2> QED
    BY <2>3, <2>6 DEF RawInv
<1>6. CASE RawAnswer
  <2>1. /\ awaited # <<>> /\ awaited' = Tail(awaited)
        /\ UNCHANGED <<hand, moved, meant>>
    BY <1>6 DEF RawAnswer
  <2>2. /\ awaited' \in Seq(Sending) /\ Len(awaited) \in Nat \ {0}
        /\ Head(awaited) \in Sending /\ Head(awaited) = awaited[1]
        /\ Len(awaited) = 1 => awaited' = <<>> /\ Last(awaited) = Head(awaited)
    BY <1>0, <2>1, OneLess
  <2>3. CASE UNCHANGED <<balance, copy>> /\ crowded' = TRUE
    BY <1>0, <2>1, <2>2, <2>3 DEF RawInv, RawTypeOK, KnobsFollow, Sending
  <2>4. CASE /\ balance' = [custom |-> Head(awaited).custom, knobs |-> Head(awaited).knobs]
             /\ copy' = IF balance' = balance THEN copy ELSE NoCopy
             /\ crowded' = (crowded \/ hand # "none" \/ Len(awaited) > 1)
    <3>1. RawTypeOK'
      BY <1>0, <2>1, <2>2, <2>4 DEF RawTypeOK, Sending
    <3>2. KnobsFollow'
      <4>1. CASE crowded'
        BY <1>0, <2>1, <4>1 DEF KnobsFollow
      <4>2. CASE ~crowded'
        <5>0. ~crowded /\ hand = "none" /\ ~(Len(awaited) > 1)
          BY <2>4, <4>2, Zenon
        <5>1. ~crowded /\ hand = "none" /\ Len(awaited) = 1
          <6> DEFINE n == Len(awaited)
          <6>1. n \in Nat \ {0} /\ ~(n > 1)
            BY <2>2, <5>0
          <6> HIDE DEF n
          <6>2. n = 1
            BY <6>1
          <6> QED
            BY <5>0, <6>2 DEF n
        <5>2. ~moved
          BY <1>0, <5>1 DEF KnobsFollow
        <5>3. awaited' = <<>> /\ meant = Head(awaited).knobs
          BY <1>0, <2>1, <2>2, <5>1, <5>2 DEF KnobsFollow, Told
        <5>4. ~Resetting' /\ Len(awaited') = 0
          BY <2>2, <5>3, EmptySeq DEF Resetting
        <5>5. balance'.knobs = meant
          BY <2>4, <5>3
        <5>6. Resetting => awaited[1].reset
          BY <5>1 DEF Resetting
        <5>7. KnobsShown = meant \/ KnobsShown = balance.knobs
          BY <1>0, <5>1, <5>6 DEF KnobsFollow
        <5>8. KnobsShown' = meant
          BY <2>4, <5>5, <5>7 DEF KnobsShown
        <5> QED
          BY <2>1, <5>1, <5>2, <5>3, <5>4, <5>5, <5>8 DEF KnobsFollow, Told
      <4> QED
        BY <4>1, <4>2
    <3> QED
      BY <3>1, <3>2 DEF RawInv
  <2> QED
    BY <1>6, <2>3, <2>4 DEF RawAnswer
<1>7. CASE UNCHANGED rawVars
  BY <1>0, <1>7 DEF rawVars, RawInv, RawTypeOK, KnobsFollow, Resetting, Told, KnobsShown
<1> QED
  BY <1>1, <1>2, <1>3, <1>4, <1>5, <1>6, <1>7 DEF RawNext

LEMMA KnobsKept == RawInv => KnobsKeepTheirWord
BY DEF RawInv, KnobsFollow, KnobsKeepTheirWord, Told

-----------------------------------------------------------------------------
\* The layer: the masks on their way have levels that do not meet, a fill on its
\* way that is an image has one, and the colour and the blur last picked are in
\* every fill on its way, and in the layer when none is.
Fills == {"transparent", "color", "blur", "image"}
SoundMasks == {m \in Masks : m.low < m.high}
MaskCalls == [op : {"mask"}, mask : SoundMasks]
FillCalls == [op : {"fill"}, fill : Fills, colour : Colours, blur : Blurs]
TurnCalls == [op : {"turn"}, of : Shapes]
PatchCalls == [op : {"patch"}]
Calls == MaskCalls \cup FillCalls \cup TurnCalls \cup PatchCalls

HasItsImage(c) == c.op = "fill" /\ c.fill = "image" => layer.patch
SaysWhatWasPicked(c) == c.op = "fill" => c.colour = picked.colour /\ c.blur = picked.blur
LayerSaysIt == layer.colour = picked.colour /\ layer.blur = picked.blur

ImagesAreThere ==
  ~editFailed =>
    /\ \A i \in 1 .. Len(calls) : HasItsImage(calls[i])
    /\ layer.fill = "image" => layer.patch
PicksAreSent ==
  ~hasty /\ ~editFailed =>
    /\ \A i \in 1 .. Len(calls) : SaysWhatWasPicked(calls[i])
    /\ ~Filling => LayerSaysIt
LayerInv ==
  /\ LayerTypeOK /\ calls \in Seq(Calls) /\ layer.mask \in SoundMasks
  /\ ImagesAreThere /\ PicksAreSent

LEMMA CallKinds ==
  ASSUME NEW c \in Calls
  PROVE  /\ c.op \in {"mask", "fill", "turn", "patch"}
         /\ c.op = "mask" => c \in MaskCalls
         /\ c.op = "fill" => c \in FillCalls
         /\ c.op = "turn" => c \in TurnCalls
         /\ c.op = "patch" => c \in PatchCalls
BY DEF Calls, MaskCalls, FillCalls, TurnCalls, PatchCalls

LEMMA LayerInitInv == LayerInit => LayerInv
<1> SUFFICES ASSUME LayerInit PROVE LayerInv
  OBVIOUS
<1>1. NO_MASK \in SoundMasks /\ NO_MASK \in Masks
  BY LayerAssumption DEF NO_MASK, SoundMasks, Masks
<1>2. LayerTypeOK /\ layer.mask \in SoundMasks
  BY <1>1, LayerAssumption DEF LayerInit, LayerTypeOK
<1>3. Len(calls) = 0 /\ calls \in Seq(Calls)
  BY EmptySeq DEF LayerInit
<1>4. ImagesAreThere /\ PicksAreSent
  BY <1>3 DEF LayerInit, ImagesAreThere, PicksAreSent, LayerSaysIt
<1> QED
  BY <1>2, <1>3, <1>4 DEF LayerInv

\* What is sent and is not a fill.
LEMMA SentStep ==
  ASSUME LayerInv, NEW call \in Calls, call.op # "fill", Sent(call),
         UNCHANGED <<layer, picked, editFailed, hasty>>
  PROVE  calls' \in Seq(Calls) /\ ImagesAreThere' /\ PicksAreSent'
<1>1. calls \in Seq(Calls) /\ calls' = Append(calls, call)
  BY DEF LayerInv, Sent
<1>2. /\ calls' \in Seq(Calls) /\ Len(calls') = Len(calls) + 1 /\ Len(calls) \in Nat
      /\ \A i \in 1 .. Len(calls) : calls'[i] = calls[i]
      /\ calls'[Len(calls) + 1] = call
  BY <1>1, OneMore
<1>3. \A i \in 1 .. Len(calls') : (i \in 1 .. Len(calls) /\ calls'[i] = calls[i]) \/ calls'[i] = call
  BY <1>2
<1>4. ImagesAreThere'
  BY <1>3 DEF LayerInv, ImagesAreThere, HasItsImage
<1>5. Filling => Filling'
  BY <1>2 DEF Filling
<1>6. PicksAreSent'
  BY <1>3, <1>5 DEF LayerInv, PicksAreSent, SaysWhatWasPicked, LayerSaysIt
<1> QED
  BY <1>2, <1>4, <1>6

\* A fill that is sent with what was picked.
LEMMA FillStep ==
  ASSUME LayerInv, NEW fill \in Fills, NEW colour \in Colours, NEW blur \in Blurs,
         Fill(fill, colour, blur), UNCHANGED <<layer, editFailed>>,
         fill = "image" /\ ~editFailed => layer.patch,
         LayerSaysIt => colour = picked'.colour /\ blur = picked'.blur
  PROVE  calls' \in Seq(Calls) /\ hasty' \in BOOLEAN /\ ImagesAreThere' /\ PicksAreSent'
<1> DEFINE call == [op |-> "fill", fill |-> fill, colour |-> colour, blur |-> blur]
<1>1. /\ calls \in Seq(Calls) /\ calls' = Append(calls, call) /\ call \in Calls
      /\ call.op = "fill" /\ call.fill = fill /\ call.colour = colour /\ call.blur = blur
  BY DEF LayerInv, Fill, Sent, Calls, FillCalls
<1> HIDE DEF call
<1>2. /\ calls' \in Seq(Calls) /\ Len(calls') = Len(calls) + 1 /\ Len(calls) \in Nat
      /\ \A i \in 1 .. Len(calls) : calls'[i] = calls[i]
      /\ calls'[Len(calls) + 1] = call
  BY <1>1, OneMore
<1>3. \A i \in 1 .. Len(calls') : (i \in 1 .. Len(calls) /\ calls'[i] = calls[i]) \/ calls'[i] = call
  BY <1>2
<1>4. ImagesAreThere'
  BY <1>1, <1>3 DEF LayerInv, ImagesAreThere, HasItsImage
<1>5. hasty' \in BOOLEAN /\ (~hasty' => ~hasty /\ ~Filling)
  BY DEF Fill, LayerInv, LayerTypeOK
<1>6. Filling'
  <2>1. Len(calls) + 1 \in 1 .. Len(calls') /\ calls'[Len(calls) + 1].op = "fill"
    BY <1>1, <1>2
  <2> QED
    BY <2>1 DEF Filling
<1>7. ~hasty' /\ ~editFailed' => \A i \in 1 .. Len(calls') : SaysWhatWasPicked(calls[i])'
  <2> SUFFICES ASSUME ~hasty', ~editFailed', NEW i \in 1 .. Len(calls')
               PROVE  SaysWhatWasPicked(calls[i])'
    OBVIOUS
  <2>1. ~hasty /\ ~Filling /\ LayerSaysIt
    BY <1>5 DEF LayerInv, PicksAreSent
  <2>2. CASE calls'[i] = call
    BY <1>1, <2>1, <2>2 DEF SaysWhatWasPicked
  <2>3. CASE i \in 1 .. Len(calls) /\ calls'[i] = calls[i]
    BY <2>1, <2>3 DEF Filling, SaysWhatWasPicked
  <2> QED
    BY <1>3, <2>2, <2>3
<1>8. PicksAreSent'
  BY <1>6, <1>7 DEF PicksAreSent
<1> QED
  BY <1>2, <1>4, <1>5, <1>8

LEMMA LayerStepInv == LayerInv /\ [LayerNext]_layerVars => LayerInv'
<1> SUFFICES ASSUME LayerInv, [LayerNext]_layerVars PROVE LayerInv'
  OBVIOUS
<1>0. /\ LayerTypeOK /\ calls \in Seq(Calls) /\ layer.mask \in SoundMasks
      /\ Full \in Nat /\ Full > 2 /\ layer.mask \in Masks
      /\ layer.fill \in Fills /\ layer.colour \in Colours /\ layer.blur \in Blurs
  BY LayerAssumption DEF LayerInv, LayerTypeOK, Fills
<1>1. ASSUME NEW call \in Calls, call.op # "fill", Sent(call),
             UNCHANGED <<layer, shape, picked, hasty, editFailed>>,
             backdrop' \in {"none", "dialog", "placing"}, subject' \in Shapes \cup {0}
      PROVE  LayerInv'
  <2>1. calls' \in Seq(Calls) /\ ImagesAreThere' /\ PicksAreSent'
    BY <1>1, SentStep
  <2> QED
    BY <1>0, <1>1, <2>1 DEF LayerInv, LayerTypeOK
<1>2. ASSUME UNCHANGED <<layer, calls, picked, hasty, editFailed>>, UNCHANGED shape,
             backdrop' \in {"none", "dialog", "placing"}, subject' \in Shapes \cup {0}
      PROVE  LayerInv'
  <2>1. ImagesAreThere' /\ PicksAreSent'
    BY <1>2 DEF LayerInv, ImagesAreThere, PicksAreSent, HasItsImage, SaysWhatWasPicked,
                LayerSaysIt, Filling
  <2> QED
    BY <1>0, <1>2, <2>1 DEF LayerInv, LayerTypeOK
<1>3. ASSUME NEW mask \in SoundMasks, UpdateMask(mask) PROVE LayerInv'
  <2>1. [op |-> "mask", mask |-> mask] \in Calls
    BY DEF Calls, MaskCalls
  <2> QED
    BY <1>0, <1>1, <1>3, <2>1 DEF UpdateMask, LayerTypeOK
<1>4. CASE ChooseMask
  <2>1. PICK k \in {"none", "linear", "radial"} : UpdateMask([NO_MASK EXCEPT !.kind = k])
    BY <1>4 DEF ChooseMask
  <2>2. [NO_MASK EXCEPT !.kind = k] \in SoundMasks
    BY <1>0 DEF NO_MASK, SoundMasks, Masks
  <2> QED
    BY <1>3, <2>1, <2>2
<1>5. CASE Levels
  <2>1. PICK n \in 0 .. Full : Lower(n) \/ Raise(n)
    BY <1>5 DEF Levels
  <2> DEFINE m == layer.mask
  <2>2. m \in Masks /\ m.low < m.high
    BY <1>0 DEF SoundMasks
  <2>3. [m EXCEPT !.low = IF n < m.high THEN n ELSE m.high - 1] \in SoundMasks
    BY <1>0, <2>2 DEF SoundMasks, Masks
  <2>4. [m EXCEPT !.high = IF n > m.low THEN n ELSE m.low + 1] \in SoundMasks
    BY <1>0, <2>2 DEF SoundMasks, Masks
  <2> QED
    BY <1>3, <2>1, <2>3, <2>4 DEF Lower, Raise
<1>6. CASE Segment
  BY <1>0, <1>2, <1>6 DEF Segment, LayerTypeOK
<1>7. CASE SegmentDone
  <2>1. CASE UNCHANGED calls
    BY <1>0, <1>2, <1>7, <2>1 DEF SegmentDone, LayerTypeOK
  <2>2. CASE Sent([op |-> "mask", mask |-> [kind |-> "raster", low |-> Segmented.low,
                                            high |-> Segmented.high, of |-> subject]])
    <3>1. [kind |-> "raster", low |-> Segmented.low, high |-> Segmented.high, of |-> subject]
             \in SoundMasks
      BY <1>0, LayerAssumption DEF SoundMasks, Masks, LayerTypeOK
    <3>2. [op |-> "mask", mask |-> [kind |-> "raster", low |-> Segmented.low,
                                    high |-> Segmented.high, of |-> subject]] \in Calls
      BY <3>1 DEF Calls, MaskCalls
    <3> QED
      BY <1>0, <1>1, <1>7, <2>2, <3>2 DEF SegmentDone, LayerTypeOK
  <2> QED
    BY <1>7, <2>1, <2>2 DEF SegmentDone
<1>8. ASSUME NEW fill \in Fills, NEW colour \in Colours, NEW blur \in Blurs,
             Fill(fill, colour, blur), UNCHANGED <<layer, shape, backdrop, subject, editFailed>>,
             fill = "image" => layer.patch \/ editFailed,
             picked' \in [colour : Colours, blur : Blurs],
             LayerSaysIt => colour = picked'.colour /\ blur = picked'.blur
      PROVE  LayerInv'
  <2>1. calls' \in Seq(Calls) /\ hasty' \in BOOLEAN /\ ImagesAreThere' /\ PicksAreSent'
    BY <1>8, FillStep
  <2> QED
    BY <1>0, <1>8, <2>1 DEF LayerInv, LayerTypeOK
<1>9. ASSUME NEW f \in Fills, ChooseFill(f) PROVE LayerInv'
  <2>1. CASE f = "image" /\ ~layer.patch
    BY <1>0, <1>2, <1>9, <2>1 DEF ChooseFill, LayerTypeOK
  <2>2. CASE ~(f = "image" /\ ~layer.patch)
    <3>1. /\ Fill(f, layer.colour, layer.blur)
          /\ UNCHANGED <<layer, shape, backdrop, subject, picked, editFailed>>
      BY <1>9, <2>2 DEF ChooseFill
    <3>2. picked' \in [colour : Colours, blur : Blurs]
      BY <1>0, <3>1 DEF LayerTypeOK
    <3> QED
      BY <1>0, <1>8, <2>2, <3>1, <3>2 DEF LayerSaysIt
  <2> QED
    BY <2>1, <2>2
<1>10. ASSUME NEW c \in Colours, PickColour(c) PROVE LayerInv'
  <2>1. picked' \in [colour : Colours, blur : Blurs] /\ picked'.colour = c /\ picked'.blur = picked.blur
    BY <1>0, <1>10 DEF PickColour, LayerTypeOK
  <2> QED
    BY <1>0, <1>8, <1>10, <2>1 DEF PickColour, LayerSaysIt, Fills
<1>11. ASSUME NEW b \in Blurs, PickBlur(b) PROVE LayerInv'
  <2>1. picked' \in [colour : Colours, blur : Blurs] /\ picked'.blur = b /\ picked'.colour = picked.colour
    BY <1>0, <1>11 DEF PickBlur, LayerTypeOK
  <2> QED
    BY <1>0, <1>8, <1>11, <2>1 DEF PickBlur, LayerSaysIt, Fills
<1>12. CASE ReplaceBackdrop
  BY <1>0, <1>2, <1>12 DEF ReplaceBackdrop, LayerTypeOK
<1>13. CASE BackdropChosen
  <2>1. CASE backdrop' = "none" /\ UNCHANGED calls
    BY <1>0, <1>2, <1>13, <2>1 DEF BackdropChosen, LayerTypeOK
  <2>2. CASE backdrop' = "placing" /\ Sent([op |-> "patch"])
    <3>1. [op |-> "patch"] \in Calls
      BY DEF Calls, PatchCalls
    <3> QED
      BY <1>0, <1>1, <1>13, <2>2, <3>1 DEF BackdropChosen, LayerTypeOK
  <2> QED
    BY <1>13, <2>1, <2>2 DEF BackdropChosen
<1>14. CASE TurnElsewhere
  <2>1. PICK s \in Shapes \ {shape} : Sent([op |-> "turn", of |-> s])
    BY <1>14 DEF TurnElsewhere
  <2>2. [op |-> "turn", of |-> s] \in Calls
    BY DEF Calls, TurnCalls
  <2> QED
    BY <1>0, <1>1, <1>14, <2>1, <2>2 DEF TurnElsewhere, LayerTypeOK
<1>15. CASE LayerAnswer
  <2> DEFINE call == Head(calls)
             backdropFill == [op |-> "fill", fill |-> "image", colour |-> DefaultColour,
                              blur |-> DefaultBlur]
  <2>1. /\ calls # <<>> /\ UNCHANGED <<subject, picked>>
        /\ calls' = IF call.op # "patch" THEN Tail(calls) ELSE Append(Tail(calls), backdropFill)
        /\ backdrop' = IF call.op = "patch" THEN "none" ELSE backdrop
    BY <1>15 DEF LayerAnswer
  <2>2. /\ Tail(calls) \in Seq(Calls) /\ Len(Tail(calls)) = Len(calls) - 1
        /\ Len(calls) \in Nat \ {0} /\ call \in Calls /\ call = calls[1]
        /\ \A i \in 1 .. Len(calls) - 1 : Tail(calls)[i] = calls[i + 1]
    BY <1>0, <2>1, OneLess
  <2>3. backdropFill \in Calls
    BY LayerAssumption DEF Calls, FillCalls, Fills
  <2> HIDE DEF call, backdropFill
  <2>4. /\ Append(Tail(calls), backdropFill) \in Seq(Calls)
        /\ Len(Append(Tail(calls), backdropFill)) = Len(calls)
        /\ \A i \in 1 .. Len(calls) - 1 : Append(Tail(calls), backdropFill)[i] = calls[i + 1]
        /\ Append(Tail(calls), backdropFill)[Len(calls)] = backdropFill
    <3>1. /\ Append(Tail(calls), backdropFill) \in Seq(Calls)
          /\ Len(Append(Tail(calls), backdropFill)) = Len(Tail(calls)) + 1
          /\ \A i \in 1 .. Len(Tail(calls)) : Append(Tail(calls), backdropFill)[i] = Tail(calls)[i]
          /\ Append(Tail(calls), backdropFill)[Len(Tail(calls)) + 1] = backdropFill
      BY <2>2, <2>3, OneMore
    <3> QED
      BY <2>2, <3>1
  <2>5. calls' \in Seq(Calls) /\ backdrop' \in {"none", "dialog", "placing"}
    BY <1>0, <2>1, <2>2, <2>4 DEF LayerTypeOK
  <2>6. \A i \in 1 .. Len(calls') :
          \/ i + 1 \in 1 .. Len(calls) /\ calls'[i] = calls[i + 1]
          \/ call.op = "patch" /\ calls'[i] = backdropFill
    <3>1. CASE call.op # "patch"
      BY <2>1, <2>2, <3>1
    <3>2. CASE call.op = "patch"
      <4> DEFINE n == Len(calls)
                 after == Append(Tail(calls), backdropFill)
      <4>1. calls' = after /\ n \in Nat \ {0}
        BY <2>1, <2>2, <3>2
      <4>2. /\ Len(after) = n /\ after[n] = backdropFill
            /\ \A i \in 1 .. n - 1 : after[i] = calls[i + 1]
        BY <2>4
      <4> HIDE DEF n, after
      <4>3. \A i \in 1 .. n : (i + 1 \in 1 .. n /\ after[i] = calls[i + 1]) \/ after[i] = backdropFill
        BY <4>1, <4>2
      <4> QED
        BY <3>2, <4>1, <4>2, <4>3 DEF n
    <3> QED
      BY <3>1, <3>2
  <2>7. CASE editFailed' = TRUE /\ UNCHANGED <<layer, shape, hasty>>
    BY <1>0, <2>1, <2>5, <2>7 DEF LayerInv, LayerTypeOK, ImagesAreThere, PicksAreSent
  <2>8. CASE /\ shape' = IF call.op = "turn" THEN call.of ELSE shape
             /\ layer' = CASE call.op = "mask"  -> [layer EXCEPT !.mask = call.mask]
                           [] call.op = "fill"  -> [layer EXCEPT !.fill = call.fill,
                                                      !.colour = call.colour, !.blur = call.blur]
                           [] call.op = "patch" -> [layer EXCEPT !.patch = TRUE]
                           [] call.op = "turn"  -> layer
             /\ hasty' = (hasty \/ call.op = "patch") /\ UNCHANGED editFailed
    <3>1. /\ call.op \in {"mask", "fill", "turn", "patch"}
          /\ call.op = "mask" => call.mask \in SoundMasks
          /\ call.op = "fill" => call.fill \in Fills /\ call.colour \in Colours /\ call.blur \in Blurs
          /\ call.op = "turn" => call.of \in Shapes
      BY <2>2, CallKinds DEF MaskCalls, FillCalls, TurnCalls
    <3> DEFINE Layer == [mask : SoundMasks, fill : Fills, colour : Colours, blur : Blurs, patch : BOOLEAN]
    <3>2. layer \in Layer
      BY <1>0 DEF LayerTypeOK, Fills
    <3>3. /\ layer' \in Layer /\ (layer.patch => layer'.patch)
          /\ call.op = "patch" => layer'.patch
          /\ layer'.fill = layer.fill \/ (call.op = "fill" /\ layer'.fill = call.fill)
          /\ IF call.op = "fill" THEN layer'.colour = call.colour /\ layer'.blur = call.blur
             ELSE layer'.colour = layer.colour /\ layer'.blur = layer.blur
      <4>1. CASE call.op = "mask"
        <5>1. layer' = [layer EXCEPT !.mask = call.mask]
          BY <2>8, <4>1
        <5> QED
          BY <3>1, <3>2, <4>1, <5>1
      <4>2. CASE call.op = "fill"
        <5>1. layer' = [layer EXCEPT !.fill = call.fill, !.colour = call.colour, !.blur = call.blur]
          BY <2>8, <4>2
        <5> QED
          BY <3>1, <3>2, <4>2, <5>1
      <4>3. CASE call.op = "patch"
        <5>1. layer' = [layer EXCEPT !.patch = TRUE]
          BY <2>8, <4>3
        <5> QED
          BY <3>1, <3>2, <4>3, <5>1
      <4>4. CASE call.op = "turn"
        <5>1. layer' = layer
          BY <2>8, <4>4
        <5> QED
          BY <3>2, <4>4, <5>1
      <4> QED
        BY <3>1, <4>1, <4>2, <4>3, <4>4
    <3>4. LayerTypeOK' /\ layer'.mask \in SoundMasks
      <4>1. layer' \in [mask : Masks, fill : Fills, colour : Colours, blur : Blurs, patch : BOOLEAN]
        BY <3>3 DEF SoundMasks
      <4>2. shape' \in Shapes
        BY <1>0, <2>8, <3>1 DEF LayerTypeOK
      <4>3. hasty' \in BOOLEAN /\ editFailed' \in BOOLEAN
        BY <1>0, <2>8 DEF LayerTypeOK
      <4> QED
        BY <1>0, <2>1, <2>5, <3>3, <4>1, <4>2, <4>3 DEF LayerTypeOK, Fills
    <3>5. ImagesAreThere'
      <4> SUFFICES ASSUME ~editFailed PROVE /\ \A i \in 1 .. Len(calls') : HasItsImage(calls[i])'
                                            /\ layer'.fill = "image" => layer'.patch
        BY <2>8 DEF ImagesAreThere
      <4>1. /\ \A i \in 1 .. Len(calls) : HasItsImage(calls[i])
            /\ layer.fill = "image" => layer.patch
        BY DEF LayerInv, ImagesAreThere
      <4>2. HasItsImage(call)
        BY <2>2, <4>1
      <4>3. layer'.fill = "image" => layer'.patch
        BY <3>3, <4>1, <4>2 DEF HasItsImage
      <4>4. ASSUME NEW i \in 1 .. Len(calls') PROVE HasItsImage(calls[i])'
        <5>1. CASE i + 1 \in 1 .. Len(calls) /\ calls'[i] = calls[i + 1]
          <6>1. HasItsImage(calls[i + 1])
            BY <4>1, <5>1
          <6> QED
            BY <3>3, <5>1, <6>1 DEF HasItsImage
        <5>2. CASE call.op = "patch"
          BY <3>3, <5>2 DEF HasItsImage
        <5> QED
          BY <2>6, <5>1, <5>2
      <4> QED
        BY <4>3, <4>4
    <3>6. PicksAreSent'
      <4> SUFFICES ASSUME ~hasty, call.op # "patch", ~editFailed
                   PROVE  /\ \A i \in 1 .. Len(calls') : SaysWhatWasPicked(calls[i])'
                          /\ ~Filling' => LayerSaysIt'
        BY <2>8 DEF PicksAreSent
      <4>1. /\ \A i \in 1 .. Len(calls) : SaysWhatWasPicked(calls[i])
            /\ ~Filling => LayerSaysIt
        BY DEF LayerInv, PicksAreSent
      <4>2. ASSUME NEW i \in 1 .. Len(calls') PROVE SaysWhatWasPicked(calls[i])'
        <5>1. i + 1 \in 1 .. Len(calls) /\ calls'[i] = calls[i + 1]
          BY <2>6
        <5>2. SaysWhatWasPicked(calls[i + 1])
          BY <4>1, <5>1
        <5> QED
          BY <2>1, <5>1, <5>2 DEF SaysWhatWasPicked
      <4>3. CASE call.op = "fill"
        <5>1. SaysWhatWasPicked(call)
          BY <2>2, <4>1
        <5> QED
          BY <2>1, <3>3, <4>2, <4>3, <5>1 DEF SaysWhatWasPicked, LayerSaysIt
      <4>4. CASE call.op # "fill"
        <5>1. Filling => Filling'
          <6> SUFFICES ASSUME NEW i \in 1 .. Len(calls), calls[i].op = "fill" PROVE Filling'
            BY DEF Filling
          <6>1. i # 1
            BY <2>2, <4>4
          <6>2. i - 1 \in 1 .. Len(calls) - 1 /\ calls[(i - 1) + 1] = calls[i]
            BY <2>2, <6>1
          <6>3. calls' = Tail(calls)
            BY <2>1
          <6>4. i - 1 \in 1 .. Len(calls') /\ calls'[i - 1] = calls[i]
            BY <2>2, <6>2, <6>3
          <6> QED
            BY <6>4 DEF Filling
        <5> QED
          BY <2>1, <3>3, <4>1, <4>2, <4>4, <5>1 DEF LayerSaysIt
      <4> QED
        BY <4>3, <4>4
    <3> QED
      BY <2>5, <3>4, <3>5, <3>6 DEF LayerInv
  <2> QED
    BY <1>15, <2>7, <2>8 DEF LayerAnswer, call
<1>16. CASE UNCHANGED layerVars
  BY <1>0, <1>2, <1>16 DEF layerVars, LayerTypeOK
<1> QED
  BY <1>4, <1>5, <1>6, <1>7, <1>9, <1>10, <1>11, <1>12, <1>13, <1>14, <1>15, <1>16
  DEF LayerNext, Fills

\* With nothing on its way the layer says what was picked.
LEMMA LayerKept == LayerInv => PicksAreKept /\ LayerMakesSense
<1> SUFFICES ASSUME LayerInv PROVE PicksAreKept /\ LayerMakesSense
  OBVIOUS
<1>1. calls = <<>> => ~Filling
  BY EmptySeq DEF Filling
<1>2. PicksAreKept
  BY <1>1 DEF LayerInv, PicksAreSent, LayerSaysIt, PicksAreKept
<1>3. LayerMakesSense
  BY DEF LayerInv, SoundMasks, ImagesAreThere, LayerMakesSense
<1> QED
  BY <1>2, <1>3

-----------------------------------------------------------------------------
\* The export dialog: with the dialog open the box is ticked only where sixteen bits
\* can be written, and every request says what its box showed.
WorthIt(r) == r.sixteenBit = r.shown /\ (r.sixteenBit => r.format \in DEEP /\ r.of > 8)
BoxIsTrue == exporting /\ sixteenBit => CanGoDeep(format, depth)
Request == [format : FORMATS, sixteenBit : BOOLEAN, of : Depths, shown : BOOLEAN]
ExportInv ==
  /\ ExportTypeOK /\ BoxIsTrue
  /\ underWay \in Seq({r \in Request : WorthIt(r)})
  /\ choosing # NoRequest => choosing \in Request /\ WorthIt(choosing)

LEMMA ExportInitInv == ExportInit => ExportInv
BY EmptySeq DEF ExportInit, ExportInv, ExportTypeOK, BoxIsTrue, FORMATS

\* One of them taken out, the others are still requests of their kind.
LEMMA TakenOut ==
  ASSUME NEW S, NEW s \in Seq(S), NEW i \in 1 .. Len(s)
  PROVE  RemoveAt(s, i) \in Seq(S)
<1>1. SubSeq(s, 1, i - 1) \in Seq(S)
  BY SubSeqProperties
<1>2. SubSeq(s, i + 1, Len(s)) \in Seq(S)
  BY SubSeqProperties
<1>3. SubSeq(s, 1, i - 1) \o SubSeq(s, i + 1, Len(s)) \in Seq(S)
  BY <1>1, <1>2, ConcatProperties
<1> QED
  BY <1>3 DEF RemoveAt

LEMMA ExportStepInv == ExportInv /\ [ExportNext]_exportVars => ExportInv'
<1> SUFFICES ASSUME ExportInv, [ExportNext]_exportVars PROVE ExportInv'
  OBVIOUS
<1> DEFINE Fair == {r \in Request : WorthIt(r)}
<1>0. ExportTypeOK /\ BoxIsTrue /\ underWay \in Seq(Fair)
      /\ (choosing # NoRequest => choosing \in Fair)
  BY DEF ExportInv
<1>1. ASSUME ExportTypeOK', BoxIsTrue', UNCHANGED <<underWay, choosing>> PROVE ExportInv'
  BY <1>0, <1>1 DEF ExportInv
<1>2. CASE OpenExport
  BY <1>0, <1>1, <1>2 DEF OpenExport, ExportTypeOK, BoxIsTrue, FORMATS
<1>3. CASE CloseExport
  BY <1>0, <1>1, <1>3 DEF CloseExport, ExportTypeOK, BoxIsTrue
<1>4. ASSUME NEW f \in FORMATS, ChooseFormat(f) PROVE ExportInv'
  BY <1>0, <1>1, <1>4 DEF ChooseFormat, DepthFollows, ExportTypeOK, BoxIsTrue, CanGoDeep
<1>5. CASE TickDepth
  BY <1>0, <1>1, <1>5 DEF TickDepth, ExportTypeOK, BoxIsTrue
<1>6. CASE RunExport
  <2> DEFINE r == [format |-> format, sixteenBit |-> sixteenBit, of |-> depth,
                   shown |-> sixteenBit /\ CanGoDeep(format, depth)]
  <2>1. exporting /\ choosing' = r /\ UNCHANGED <<depth, exporting, format, sixteenBit, busy, underWay>>
    BY <1>6 DEF RunExport
  <2>2. sixteenBit => CanGoDeep(format, depth)
    BY <1>0, <2>1 DEF BoxIsTrue
  <2>3. (sixteenBit /\ CanGoDeep(format, depth)) = sixteenBit
    BY <1>0, <2>2 DEF ExportTypeOK
  <2>4. r \in Request /\ WorthIt(r)
    BY <1>0, <2>2, <2>3 DEF ExportTypeOK, Request, WorthIt, CanGoDeep
  <2> QED
    BY <1>0, <2>1, <2>4 DEF ExportInv, ExportTypeOK, BoxIsTrue
<1>7. CASE Destination
  <2>1. choosing \in Fair /\ choosing' = NoRequest /\ UNCHANGED <<depth, format, sixteenBit>>
    BY <1>0, <1>7 DEF Destination, Unblocked
  <2>2. CASE underWay' = Append(underWay, choosing) /\ busy' = "exporting" /\ UNCHANGED exporting
    <3>1. underWay' \in Seq(Fair)
      BY <1>0, <2>1, <2>2, OneMore
    <3> QED
      BY <1>0, <2>1, <2>2, <3>1 DEF ExportInv, ExportTypeOK, BoxIsTrue
  <2>3. CASE exporting' = FALSE /\ UNCHANGED <<underWay, busy>>
    BY <1>0, <2>1, <2>3 DEF ExportInv, ExportTypeOK, BoxIsTrue
  <2> QED
    BY <1>7, <2>2, <2>3 DEF Destination
<1>8. CASE ExportAnswer
  <2>1. PICK i \in DOMAIN underWay : underWay' = RemoveAt(underWay, i)
    BY <1>8 DEF ExportAnswer
  <2>2. DOMAIN underWay = 1 .. Len(underWay)
    BY <1>0, LenProperties
  <2>3. underWay' \in Seq(Fair)
    BY <1>0, <2>1, <2>2, TakenOut
  <2> QED
    BY <1>0, <1>8, <2>3 DEF ExportAnswer, ExportInv, ExportTypeOK, BoxIsTrue
<1>9. ASSUME NEW d \in Depths, OpenOver(d) PROVE ExportInv'
  <2>1. sixteenBit' \in BOOLEAN /\ (sixteenBit' => exporting /\ CanGoDeep(format, d))
    BY <1>0, <1>9 DEF OpenOver, ExportTypeOK, CanGoDeep
  <2> QED
    BY <1>0, <1>1, <1>9, <2>1 DEF OpenOver, ExportTypeOK, BoxIsTrue
<1>10. CASE BusyWithOther
  BY <1>0, <1>1, <1>10 DEF BusyWithOther, ExportTypeOK, BoxIsTrue
<1>11. CASE UNCHANGED exportVars
  BY <1>0, <1>1, <1>11 DEF exportVars, ExportTypeOK, BoxIsTrue
<1> QED
  BY <1>2, <1>3, <1>4, <1>5, <1>6, <1>7, <1>8, <1>9, <1>10, <1>11 DEF ExportNext

LEMMA ExportKept == ExportInv => DepthIsWorthIt
<1> SUFFICES ASSUME ExportInv, NEW r \in Asked PROVE WorthIt(r)
  BY DEF DepthIsWorthIt, WorthIt
<1>1. CASE r \in ToSet(underWay)
  BY <1>1, ElementOfSeq, LenProperties DEF ToSet, ExportInv
<1>2. CASE r = choosing /\ choosing # NoRequest
  BY <1>2 DEF ExportInv
<1> QED
  BY <1>1, <1>2 DEF Asked

-----------------------------------------------------------------------------
\* Each panel keeps its own: a step is of one of them, and the others stand still.
PanelsInv == FieldsInv /\ RawInv /\ LayerInv /\ ExportInv

LEMMA PanelsInit == ToolsInit => PanelsInv
BY ResizeInitInv, RawInitInv, LayerInitInv, ExportInitInv DEF ToolsInit, PanelsInv

LEMMA PanelsStep == PanelsInv /\ [ToolsNext]_toolsVars => PanelsInv'
<1> SUFFICES ASSUME PanelsInv, [ToolsNext]_toolsVars PROVE PanelsInv'
  OBVIOUS
<1>1. /\ [ResizeNext]_resizeVars /\ [RawNext]_rawVars
      /\ [LayerNext]_layerVars /\ [ExportNext]_exportVars
  BY DEF ToolsNext, toolsVars, CurveStep, CropStep, BrushStep, ResizeStep, RawStep, LayerStep,
         ShelfStep, EnhanceStep, ExportStep, RowsStep
<1> QED
  BY <1>1, ResizeStepInv, RawStepInv, LayerStepInv, ExportStepInv DEF PanelsInv

\* The size fields come back to the document's size, a knob that was not touched is
\* not turned, a colour and a blur are there again with their fill, and sixteen bits
\* are written when the box said so, in every behaviour of the panels.
\* (ResizePanel.tsx, RawPanel.tsx, MattePanel.tsx, ExportDialog.tsx)
THEOREM ControlsAreTrue == ToolsSpec => []ControlsKeepTheirWord
<1>1. PanelsInv => ControlsKeepTheirWord
  BY FieldsKept, KnobsKept, LayerKept, ExportKept DEF PanelsInv, ControlsKeepTheirWord
<1> QED
  BY PanelsInit, PanelsStep, <1>1, PTL DEF ToolsSpec

-----------------------------------------------------------------------------
(* The fold of the brush's stack, defined on prefixes: one edit more is     *)
(* one step more.                                                          *)

\* A set of natural numbers with a member has a least one.
Smaller == {p \in Nat \X Nat : p[1] < p[2]}

LEMMA HasLeast ==
  ASSUME NEW T \in SUBSET Nat, T # {} PROVE \E x \in T : \A y \in T : x <= y
<1>1. IsWellFoundedOn(Smaller, Nat)
  BY NatLessThanWellFounded DEF OpToRel, Smaller
<1>2. PICK x \in T : \A y \in T : ~ (<<y, x>> \in Smaller)
  BY <1>1, WFMin
<1>3. ASSUME NEW y \in T PROVE x <= y
  <2>1. x \in Nat /\ y \in Nat
    OBVIOUS
  <2>2. ~ (y < x)
    BY <1>2, <2>1 DEF Smaller
  <2> QED BY <2>1, <2>2
<1> QED BY <1>3

\* f is the record of the fold over the first m edits of s.
IsViewing(f, s, m) ==
  f = [n \in 0 .. m |-> IF n = 0 THEN Untouched ELSE Edited(f[n - 1], s[n])]

Viewing(s) == CHOOSE f : IsViewing(f, s, Len(s))

LEMMA ViewingFolds ==
  ASSUME NEW s PROVE Folded(s) = Viewing(s)[Len(s)]
BY Zenon DEF Folded, Viewing, IsViewing

\* Every stack can be folded.
LEMMA ViewingExists ==
  ASSUME NEW s, NEW m \in Nat
  PROVE  \E f : IsViewing(f, s, m)
<1> DEFINE T == {n \in Nat : ~ \E f : IsViewing(f, s, n)}
<1> SUFFICES ASSUME T # {} PROVE FALSE
  OBVIOUS
<1>1. PICK x \in T : \A y \in T : x <= y
  BY HasLeast
<1>2. x # 0
  <2>1. IsViewing([n \in 0 .. 0 |-> Untouched], s, 0)
    BY DEF IsViewing
  <2> QED BY <2>1
<1>3. PICK f : IsViewing(f, s, x - 1)
  <2>1. x - 1 \in Nat /\ x - 1 \notin T
    BY <1>1, <1>2
  <2> QED BY <2>1
<1> DEFINE step(n) == IF n = 0 THEN Untouched ELSE Edited(f[n - 1], s[n])
           g == [n \in 0 .. x |-> step(n)]
<1>4. \A n \in 0 .. (x - 1) : f[n] = step(n)
  BY <1>3, Zenon DEF IsViewing
<1>5. \A n \in 0 .. x : n # 0 => g[n - 1] = f[n - 1]
  <2> SUFFICES ASSUME NEW n \in 0 .. x, n # 0 PROVE g[n - 1] = f[n - 1]
    OBVIOUS
  <2>1. n - 1 \in 0 .. x /\ n - 1 \in 0 .. (x - 1)
    BY <1>2
  <2> HIDE DEF step
  <2> QED BY <2>1, <1>4
<1>6. \A n \in 0 .. x :
        step(n) = (IF n = 0 THEN Untouched ELSE Edited(g[n - 1], s[n]))
  BY <1>5, Zenon
<1>7. IsViewing(g, s, x)
  <2> HIDE DEF step
  <2>1. g = [n \in 0 .. x |-> IF n = 0 THEN Untouched ELSE Edited(g[n - 1], s[n])]
    BY <1>6, Zenon
  <2> HIDE DEF g
  <2> QED BY <2>1, Zenon DEF IsViewing
<1> QED BY <1>7, <1>1

LEMMA ViewingStep ==
  ASSUME NEW f, NEW s, NEW m \in Nat, IsViewing(f, s, m)
  PROVE  /\ f[0] = Untouched
         /\ \A n \in 1 .. m : f[n] = Edited(f[n - 1], s[n])
<1>1. f[0] = Untouched
  <2>1. 0 \in 0 .. m
    OBVIOUS
  <2> QED BY <2>1, Zenon DEF IsViewing
<1>2. ASSUME NEW n \in 1 .. m PROVE f[n] = Edited(f[n - 1], s[n])
  <2>1. n \in 0 .. m /\ n # 0
    OBVIOUS
  <2> QED BY <2>1, Zenon DEF IsViewing
<1> QED BY <1>1, <1>2

\* Two folds agree as far as the edits do.
SameEdits(s, t, m) == \A i \in 1 .. m : s[i] = t[i]

LEMMA ViewingsAgree ==
  ASSUME NEW s, NEW t, NEW m \in Nat, NEW k \in Nat, NEW f, NEW g,
         IsViewing(f, s, m), IsViewing(g, t, k), m <= k,
         SameEdits(s, t, m)
  PROVE  f[m] = g[m]
<1> DEFINE T == {n \in 0 .. m : f[n] # g[n]}
<1> SUFFICES ASSUME T # {} PROVE FALSE
  <2>1. m \in 0 .. m
    OBVIOUS
  <2> QED BY <2>1
<1>1. PICK x \in T : \A y \in T : x <= y
  <2>1. T \in SUBSET Nat
    OBVIOUS
  <2> HIDE DEF T
  <2> QED BY <2>1, HasLeast
<1>2. x \in 0 .. m /\ x \in 0 .. k /\ f[x] # g[x]
  BY <1>1
<1>3. /\ f[0] = g[0]
      /\ \A n \in 1 .. m : f[n] = Edited(f[n - 1], s[n])
      /\ \A n \in 1 .. k : g[n] = Edited(g[n - 1], t[n])
  BY ViewingStep
<1>4. x # 0
  BY <1>2, <1>3, Zenon
<1>5. x - 1 \in 0 .. m /\ x \in 1 .. m /\ x \in 1 .. k /\ ~ (x <= x - 1)
  BY <1>2, <1>4
<1>6. x - 1 \notin T
  BY <1>5, <1>1
<1>7. f[x - 1] = g[x - 1] /\ s[x] = t[x]
  BY <1>5, <1>6 DEF SameEdits
<1> QED BY <1>2, <1>3, <1>5, <1>7, Zenon

LEMMA ViewingsFold ==
  ASSUME NEW s, Len(s) \in Nat
  PROVE  IsViewing(Viewing(s), s, Len(s))
BY ViewingExists, Zenon DEF Viewing

\* One edit more is one step more.
LEMMA FoldedByOneMore ==
  ASSUME NEW s, NEW t, NEW m \in Nat,
         Len(s) = m, Len(t) = m + 1, \A i \in 1 .. m : t[i] = s[i]
  PROVE  Folded(t) = Edited(Folded(s), t[m + 1])
<1>1. IsViewing(Viewing(s), s, m) /\ IsViewing(Viewing(t), t, m + 1)
  BY ViewingsFold
<1>2. Viewing(s)[m] = Viewing(t)[m]
  <2> DEFINE f == Viewing(s)  g == Viewing(t)  k == m + 1
  <2>1. k \in Nat /\ m <= k /\ IsViewing(f, s, m) /\ IsViewing(g, t, k)
    BY <1>1
  <2>2. SameEdits(s, t, m)
    BY DEF SameEdits
  <2> HIDE DEF f, g, k
  <2>3. f[m] = g[m]
    BY <2>1, <2>2, ViewingsAgree
  <2> QED BY <2>3 DEF f, g
<1>3. m + 1 \in 1 .. (m + 1) /\ m + 1 - 1 = m
  OBVIOUS
<1>4. \A n \in 1 .. (m + 1) : Viewing(t)[n] = Edited(Viewing(t)[n - 1], t[n])
  BY <1>1, ViewingStep
<1>5. Viewing(t)[m + 1] = Edited(Viewing(t)[m + 1 - 1], t[m + 1])
  BY <1>3, <1>4
<1> QED BY <1>2, <1>3, <1>5, ViewingFolds

LEMMA FoldedByNone ==
  ASSUME NEW s, Len(s) = 0
  PROVE  Folded(s) = Untouched
<1>1. IsViewing(Viewing(s), s, 0)
  BY ViewingsFold
<1>2. Viewing(s)[0] = Untouched
  BY <1>1, ViewingStep
<1> QED BY <1>2, ViewingFolds

-----------------------------------------------------------------------------
(* What a stack of edits leaves is a view, of a raster that some edit of    *)
(* it gave the layer, with the size recorded there.                        *)

Views == [orientation : Orientations, raster : Nat, across : BOOLEAN]
MaskEdits == [kind : {"mask"}, raster : Nat \ {0}, across : BOOLEAN]
TurnEdits == [kind : {"turn"}, by : Orientations]
Edits == MaskEdits \cup TurnEdits

\* A is the size each raster was recorded with, R the rasters given to the layer.
EditKnown(A, R, e) == e.kind = "mask" => e.raster \in R /\ e.across = A[e.raster]
ViewKnown(A, R, v) == v.raster = NoRaster \/ (v.raster \in R /\ v.across = A[v.raster])

LEMMA AnyCompose ==
  ASSUME NEW a \in Orientations, NEW b \in Orientations
  PROVE  Compose(b, a) \in Orientations
BY DEF Compose, Mirrored, Quarters, FromSymmetry, Orientations

LEMMA EditedView ==
  ASSUME NEW v \in Views, NEW e \in Edits
  PROVE  /\ Edited(v, e) \in Views
         /\ e.kind = "mask" => /\ Edited(v, e).raster = e.raster /\ Edited(v, e).across = e.across
                               /\ Edited(v, e).orientation = v.orientation
         /\ e.kind # "mask" => Edited(v, e).raster = v.raster /\ Edited(v, e).across = v.across
<1>1. CASE e \in TurnEdits
  <2>1. e.kind = "turn" /\ e.by \in Orientations
    BY <1>1 DEF TurnEdits
  <2>2. Compose(e.by, v.orientation) \in Orientations
    BY <2>1, AnyCompose DEF Views
  <2>3. Edited(v, e) = [v EXCEPT !.orientation = Compose(e.by, v.orientation)]
    BY <2>1 DEF Edited
  <2> QED
    BY <2>1, <2>2, <2>3 DEF Views
<1>2. CASE e \in MaskEdits
  <2>1. e.kind = "mask" /\ e.raster \in Nat /\ e.across \in BOOLEAN
    BY <1>2 DEF MaskEdits
  <2>2. Edited(v, e) = [v EXCEPT !.raster = e.raster, !.across = e.across]
    BY <2>1 DEF Edited
  <2> QED
    BY <2>1, <2>2 DEF Views
<1> QED
  BY <1>1, <1>2 DEF Edits

LEMMA FoldedKnown ==
  ASSUME NEW s \in Seq(Edits), NEW A, NEW R, \A i \in 1 .. Len(s) : EditKnown(A, R, s[i])
  PROVE  Folded(s) \in Views /\ ViewKnown(A, R, Folded(s))
<1> DEFINE f == Viewing(s)
           m == Len(s)
           Fine(n) == f[n] \in Views /\ ViewKnown(A, R, f[n])
           T == {n \in 0 .. m : ~ Fine(n)}
<1>1. m \in Nat /\ \A n \in 1 .. m : s[n] \in Edits
  BY LenProperties, ElementOfSeq
<1>2. f[0] = Untouched /\ \A n \in 1 .. m : f[n] = Edited(f[n - 1], s[n])
  BY <1>1, ViewingsFold, ViewingStep
<1>3. T = {}
  <2> SUFFICES ASSUME T # {} PROVE FALSE
    OBVIOUS
  <2>1. T \in SUBSET Nat
    BY <1>1
  <2> HIDE DEF f, m
  <2>2. PICK x \in T : \A y \in T : x <= y
    BY <2>1, HasLeast
  <2>3. x # 0
    <3>1. Untouched \in Views /\ ViewKnown(A, R, Untouched)
      BY DEF Untouched, Views, Orientations, TopLeft, NoRaster, ViewKnown
    <3> QED
      BY <1>2, <2>2, <3>1
  <2>4. x \in 1 .. m /\ x - 1 \in 0 .. m /\ ~ (x <= x - 1)
    BY <1>1, <2>2, <2>3
  <2>5. Fine(x - 1)
    BY <2>2, <2>4
  <2>6. s[x] \in Edits /\ EditKnown(A, R, s[x]) /\ f[x] = Edited(f[x - 1], s[x])
    BY <1>1, <1>2, <2>4 DEF m
  <2>7. Fine(x)
    <3> DEFINE v == f[x - 1]
               e == s[x]
    <3>1. v \in Views /\ ViewKnown(A, R, v) /\ e \in Edits /\ EditKnown(A, R, e)
      BY <2>5, <2>6
    <3>2. f[x] = Edited(v, e)
      BY <2>6
    <3> HIDE DEF v, e
    <3>3. Edited(v, e) \in Views
      BY <3>1, EditedView
    <3>4. CASE e.kind = "mask"
      <4>1. Edited(v, e).raster = e.raster /\ Edited(v, e).across = e.across
        BY <3>1, <3>4, EditedView
      <4> QED
        BY <3>1, <3>2, <3>3, <3>4, <4>1 DEF EditKnown, ViewKnown
    <3>5. CASE e.kind # "mask"
      <4>1. Edited(v, e).raster = v.raster /\ Edited(v, e).across = v.across
        BY <3>1, <3>5, EditedView
      <4> QED
        BY <3>1, <3>2, <3>3, <4>1 DEF ViewKnown
    <3> QED
      BY <3>4, <3>5
  <2> QED
    BY <2>2, <2>7
<1>4. Fine(m)
  <2>1. m \in 0 .. m
    BY <1>1
  <2> QED
    BY <1>3, <2>1
<1> QED
  BY <1>4, ViewingFolds

-----------------------------------------------------------------------------
(* The answers on their way to the store.                                  *)

StoredReplies == [kind : {"stored"}, raster : Nat \ {0}]
HistoryReplies == [kind : {"history"}, view : Views]
FetchedReplies == [kind : {"fetched"}, canvas : Nat, cover : SUBSET Places]
Replies == StoredReplies \cup HistoryReplies \cup FetchedReplies

LEMMA ReplyKinds ==
  ASSUME NEW r \in Replies
  PROVE  /\ r.kind \in {"stored", "history", "fetched"}
         /\ r.kind = "stored" => r.raster \in Nat \ {0}
         /\ r.kind = "history" => r.view \in Views
         /\ r.kind = "fetched" => r.canvas \in Nat /\ r.cover \subseteq Places
BY DEF Replies, StoredReplies, HistoryReplies, FetchedReplies

\* The history the store will have adopted when all of them have come.
NoHistory(q) == \A i \in 1 .. Len(q) : q[i].kind # "history"
LastHistory(q, i) ==
  /\ i \in 1 .. Len(q) /\ q[i].kind = "history"
  /\ \A j \in i + 1 .. Len(q) : q[j].kind # "history"
SaysLast(q, v, w) ==
  /\ NoHistory(q) => v = w
  /\ \A i \in 1 .. Len(q) : LastHistory(q, i) => q[i].view = w

\* A history that joins them is the last one.
LEMMA HistoryJoins ==
  ASSUME NEW q \in Seq(Replies), NEW e \in Replies, e.kind = "history", NEW v
  PROVE  SaysLast(Append(q, e), v, e.view)
<1> DEFINE p == Append(q, e)
           n == Len(q)
<1>1. n \in Nat /\ Len(p) = n + 1 /\ p[n + 1] = e
  BY OneMore
<1> HIDE DEF p, n
<1>2. ~NoHistory(p)
  <2>1. n + 1 \in 1 .. Len(p) /\ p[n + 1].kind = "history"
    BY <1>1
  <2> QED
    BY <2>1 DEF NoHistory
<1>3. ASSUME NEW i \in 1 .. Len(p), LastHistory(p, i) PROVE p[i] = e
  <2>1. i = n + 1 \/ n + 1 \in i + 1 .. Len(p)
    BY <1>1
  <2>2. i = n + 1
    BY <1>1, <1>3, <2>1 DEF LastHistory
  <2> QED
    BY <1>1, <2>2
<1> QED
  BY <1>2, <1>3 DEF SaysLast, p

\* Another answer that joins them changes nothing of that.
LEMMA OtherJoins ==
  ASSUME NEW q \in Seq(Replies), NEW e \in Replies, e.kind # "history", NEW v, NEW w,
         SaysLast(q, v, w)
  PROVE  SaysLast(Append(q, e), v, w)
<1> DEFINE p == Append(q, e)
           n == Len(q)
<1>1. n \in Nat /\ Len(p) = n + 1 /\ p[n + 1] = e /\ \A i \in 1 .. n : p[i] = q[i]
  BY OneMore
<1> HIDE DEF p
<1>2. NoHistory(p) => NoHistory(q)
  BY <1>1 DEF NoHistory
<1>3. ASSUME NEW i \in 1 .. Len(p), LastHistory(p, i) PROVE p[i].view = w
  <2>1. i \in 1 .. n /\ p[i] = q[i]
    <3>1. i \in 1 .. n \/ i = n + 1
      BY <1>1
    <3> QED
      BY <1>1, <1>3, <3>1 DEF LastHistory
  <2>2. LastHistory(q, i)
    <3>1. \A j \in i + 1 .. n : j \in i + 1 .. Len(p) /\ q[j] = p[j]
      BY <1>1, <2>1
    <3> QED
      BY <1>3, <2>1, <3>1 DEF LastHistory
  <2> QED
    BY <2>1, <2>2 DEF SaysLast
<1> QED
  BY <1>2, <1>3 DEF SaysLast, p

\* The oldest leaves, adopted if it is a history.
LEMMA OldestLeaves ==
  ASSUME NEW q \in Seq(Replies), q # <<>>, NEW v, NEW w, SaysLast(q, v, w)
  PROVE  SaysLast(Tail(q), IF Head(q).kind = "history" THEN Head(q).view ELSE v, w)
<1> DEFINE p == Tail(q)
           n == Len(q)
           u == IF Head(q).kind = "history" THEN Head(q).view ELSE v
<1>1. /\ n \in Nat \ {0} /\ Len(p) = n - 1 /\ Head(q) = q[1]
      /\ \A i \in 1 .. n - 1 : p[i] = q[i + 1]
  BY OneLess
<1> HIDE DEF p, n
<1>2. \A j \in 2 .. n : j - 1 \in 1 .. n - 1 /\ p[j - 1] = q[j]
  BY <1>1
<1>3. ASSUME NoHistory(p) PROVE u = w
  <2>1. \A j \in 2 .. n : q[j].kind # "history"
    BY <1>1, <1>2, <1>3 DEF NoHistory
  <2>2. CASE Head(q).kind = "history"
    <3>1. LastHistory(q, 1)
      BY <1>1, <2>1, <2>2 DEF LastHistory, n
    <3> QED
      BY <1>1, <2>2, <3>1 DEF SaysLast, n
  <2>3. CASE Head(q).kind # "history"
    <3>1. \A j \in 1 .. n : j = 1 \/ j \in 2 .. n
      BY <1>1
    <3>2. NoHistory(q)
      BY <1>1, <2>1, <2>3, <3>1 DEF NoHistory, n
    <3> QED
      BY <2>3, <3>2 DEF SaysLast
  <2> QED
    BY <2>2, <2>3
<1>4. ASSUME NEW i \in 1 .. Len(p), LastHistory(p, i) PROVE p[i].view = w
  <2>1. i + 1 \in 1 .. n /\ p[i] = q[i + 1] /\ p[i].kind = "history"
    BY <1>1, <1>4 DEF LastHistory
  <2>2. LastHistory(q, i + 1)
    <3>1. \A j \in (i + 1) + 1 .. n : j \in 2 .. n /\ j - 1 \in i + 1 .. Len(p)
      BY <1>1
    <3>2. \A j \in (i + 1) + 1 .. n : q[j].kind # "history"
      BY <1>2, <1>4, <3>1 DEF LastHistory
    <3> QED
      BY <2>1, <3>2 DEF LastHistory, n
  <2> QED
    BY <2>1, <2>2 DEF SaysLast, n
<1> HIDE DEF u
<1>5. SaysLast(p, u, w)
  BY <1>3, <1>4 DEF SaysLast
<1> QED
  BY <1>5 DEF p, u

\* The answers on their way, in whatever order.
On(q) == {q[i] : i \in 1 .. Len(q)}

LEMMA Joined ==
  ASSUME NEW S, NEW q \in Seq(S), NEW e \in S
  PROVE  On(Append(q, e)) = On(q) \cup {e} /\ On(q) \subseteq S
<1> DEFINE p == Append(q, e)
           n == Len(q)
<1>1. n \in Nat /\ Len(p) = n + 1 /\ p[n + 1] = e /\ \A i \in 1 .. n : p[i] = q[i] /\ q[i] \in S
  BY OneMore, ElementOfSeq
<1> HIDE DEF p, n
<1>2. \A i \in 1 .. Len(p) : (i \in 1 .. n /\ p[i] = q[i]) \/ p[i] = e
  BY <1>1
<1>3. n + 1 \in 1 .. Len(p) /\ \A i \in 1 .. n : i \in 1 .. Len(p)
  BY <1>1
<1>4. On(p) = {p[i] : i \in 1 .. Len(p)} /\ On(q) = {q[i] : i \in 1 .. n}
  BY DEF On, n
<1>5. On(p) \subseteq On(q) \cup {e}
  BY <1>2, <1>4
<1>6. On(q) \cup {e} \subseteq On(p)
  BY <1>1, <1>3, <1>4
<1>7. On(q) \subseteq S
  BY <1>1, <1>4
<1> QED
  BY <1>5, <1>6, <1>7 DEF p

LEMMA Left ==
  ASSUME NEW S, NEW q \in Seq(S), q # <<>>
  PROVE  On(q) = On(Tail(q)) \cup {Head(q)}
<1> DEFINE p == Tail(q)
           n == Len(q)
<1>1. /\ n \in Nat \ {0} /\ Len(p) = n - 1 /\ Head(q) = q[1]
      /\ \A i \in 1 .. n - 1 : p[i] = q[i + 1]
  BY OneLess
<1> HIDE DEF p, n
<1>2. \A i \in 1 .. n : i = 1 \/ (i - 1 \in 1 .. n - 1 /\ p[i - 1] = q[i])
  BY <1>1
<1>3. \A i \in 1 .. Len(p) : i + 1 \in 1 .. n /\ p[i] = q[i + 1]
  BY <1>1
<1>4. On(p) = {p[i] : i \in 1 .. Len(p)} /\ On(q) = {q[i] : i \in 1 .. n} /\ 1 \in 1 .. n
  BY <1>1 DEF On, n
<1>5. On(p) \cup {Head(q)} \subseteq On(q)
  BY <1>1, <1>3, <1>4
<1>6. On(q) \subseteq On(p) \cup {Head(q)}
  <2> SUFFICES ASSUME NEW i \in 1 .. n PROVE q[i] \in On(p) \cup {Head(q)}
    BY <1>4
  <2>1. i # 1 => i - 1 \in 1 .. Len(p) /\ p[i - 1] = q[i]
    BY <1>1, <1>2
  <2> QED
    BY <1>1, <1>4, <2>1
<1> QED
  BY <1>5, <1>6 DEF p

LEMMA NoneOn == ASSUME NEW S, NEW q \in Seq(S) PROVE q = <<>> <=> On(q) = {}
<1>1. q = <<>> <=> Len(q) = 0
  BY EmptySeq
<1>2. Len(q) \in Nat
  BY LenProperties
<1>3. Len(q) # 0 => q[1] \in On(q)
  BY <1>2 DEF On
<1>4. Len(q) = 0 => On(q) = {}
  BY DEF On
<1> QED
  BY <1>1, <1>3, <1>4

\* A raster is stored once, under the number it got.
StoredOnce(q, n) ==
  \A i \in 1 .. Len(q) : q[i].kind = "stored" =>
    /\ q[i].raster \in 1 .. n
    /\ \A j \in 1 .. Len(q) : q[j].kind = "stored" /\ q[j].raster = q[i].raster => i = j

LEMMA OnceJoined ==
  ASSUME NEW q \in Seq(Replies), NEW e \in Replies, NEW n \in Nat, NEW k \in Nat, n <= k,
         StoredOnce(q, n), e.kind = "stored" => e.raster \in n + 1 .. k
  PROVE  StoredOnce(Append(q, e), k)
<1> DEFINE p == Append(q, e)
           m == Len(q)
<1>1. m \in Nat /\ Len(p) = m + 1 /\ p[m + 1] = e /\ \A i \in 1 .. m : p[i] = q[i]
  BY OneMore
<1>2. \A i \in 1 .. m : q[i].kind = "stored" => q[i].raster \in 1 .. n
  BY DEF StoredOnce
<1>3. \A i \in 1 .. m, j \in 1 .. m :
        q[i].kind = "stored" /\ q[j].kind = "stored" /\ q[j].raster = q[i].raster => i = j
  BY DEF StoredOnce
<1> HIDE DEF p, m
<1>4. \A i \in 1 .. Len(p) : (i \in 1 .. m /\ p[i] = q[i]) \/ (i = m + 1 /\ p[i] = e)
  BY <1>1
<1>5. ASSUME NEW i \in 1 .. Len(p), p[i].kind = "stored" PROVE p[i].raster \in 1 .. k
  BY <1>2, <1>4, <1>5
<1>6. ASSUME NEW i \in 1 .. Len(p), NEW j \in 1 .. Len(p), p[i].kind = "stored", p[j].kind = "stored",
             p[j].raster = p[i].raster
      PROVE  i = j
  <2>1. CASE i \in 1 .. m /\ p[i] = q[i] /\ j \in 1 .. m /\ p[j] = q[j]
    BY <1>3, <1>6, <2>1
  <2>2. CASE i \in 1 .. m /\ p[i] = q[i] /\ p[j] = e
    BY <1>2, <1>6, <2>2
  <2>3. CASE p[i] = e /\ j \in 1 .. m /\ p[j] = q[j]
    BY <1>2, <1>6, <2>3
  <2> QED
    BY <1>4, <2>1, <2>2, <2>3
<1> QED
  BY <1>5, <1>6 DEF StoredOnce, p

LEMMA OnceLeft ==
  ASSUME NEW q \in Seq(Replies), q # <<>>, NEW n \in Nat, StoredOnce(q, n)
  PROVE  /\ StoredOnce(Tail(q), n)
         /\ Head(q).kind = "stored" =>
              /\ Head(q).raster \in 1 .. n
              /\ \A r \in On(Tail(q)) : r.kind = "stored" => r.raster # Head(q).raster
<1> DEFINE p == Tail(q)
           m == Len(q)
<1>1. /\ m \in Nat \ {0} /\ Len(p) = m - 1 /\ Head(q) = q[1]
      /\ \A i \in 1 .. m - 1 : p[i] = q[i + 1]
  BY OneLess
<1>2. \A i \in 1 .. m : q[i].kind = "stored" => q[i].raster \in 1 .. n
  BY DEF StoredOnce
<1>3. \A i \in 1 .. m, j \in 1 .. m :
        q[i].kind = "stored" /\ q[j].kind = "stored" /\ q[j].raster = q[i].raster => i = j
  BY DEF StoredOnce
<1> HIDE DEF p, m
<1>4. \A i \in 1 .. Len(p) : i + 1 \in 1 .. m /\ p[i] = q[i + 1]
  BY <1>1
<1>5. StoredOnce(p, n)
  <2>1. ASSUME NEW i \in 1 .. Len(p), p[i].kind = "stored" PROVE p[i].raster \in 1 .. n
    BY <1>2, <1>4, <2>1
  <2>2. ASSUME NEW i \in 1 .. Len(p), NEW j \in 1 .. Len(p), p[i].kind = "stored",
               p[j].kind = "stored", p[j].raster = p[i].raster
        PROVE  i = j
    <3>1. i + 1 = j + 1
      BY <1>3, <1>4, <2>2
    <3> QED
      BY <1>1, <3>1
  <2> QED
    BY <2>1, <2>2 DEF StoredOnce
<1>6. ASSUME Head(q).kind = "stored"
      PROVE  /\ Head(q).raster \in 1 .. n
             /\ \A r \in On(p) : r.kind = "stored" => r.raster # Head(q).raster
  <2>1. 1 \in 1 .. m
    BY <1>1
  <2>2. ASSUME NEW i \in 1 .. Len(p), p[i].kind = "stored" PROVE p[i].raster # Head(q).raster
    <3>1. i + 1 # 1
      BY <1>1
    <3> QED
      BY <1>1, <1>3, <1>4, <1>6, <2>1, <2>2, <3>1
  <2> QED
    BY <1>1, <1>2, <1>6, <2>1, <2>2 DEF On
<1> QED
  BY <1>5, <1>6 DEF p

-----------------------------------------------------------------------------
(* The invariant.                                                          *)

\* The rasters that were given to the layer: those whose answer has been taken.
Used(q, n) == {r \in 1 .. n : \A s \in On(q) : s.kind = "stored" => s.raster # r}
UsedRasters == Used(replies, Len(rasters))

ReplyKnown(A, R, r) == r.kind = "history" => ViewKnown(A, R, r.view)
Consistent(A, R) ==
  /\ \A i \in 1 .. Len(edits) : EditKnown(A, R, edits[i])
  /\ ViewKnown(A, R, view)
  /\ \A r \in On(replies) : ReplyKnown(A, R, r)

\* A raster has one size, wherever it is used: the natural size of the history the
\* store had when it was stored.
OneSize == \E A \in [Nat -> BOOLEAN] : Consistent(A, UsedRasters)

\* What is fetched for the canvas on screen is the mask of the view on screen.
FetchIsRight(r) ==
  r.kind = "fetched" => r.canvas <= buffer.canvas /\ (r.canvas = buffer.canvas => r.cover = Covered(view))
FetchesAreRight == \A r \in On(replies) : FetchIsRight(r)

\* The buffer is the mask, or will be when its raster comes, unless something is on
\* its way that makes a new canvas.
Renews(r) == r.kind = "stored" \/ (r.kind = "history" /\ Key(r.view) # Key(view))
Seeds(r) == r.kind = "fetched" /\ r.canvas = buffer.canvas
Coming == painting > 0 \/ \E r \in On(replies) : Renews(r)
Seeded ==
  \/ buffer.cover = Covered(view)
  \/ buffer.cover \subseteq Covered(view) /\ \E r \in On(replies) : Seeds(r)

\* Between hurries: a stroke goes over a buffer that is what the user wants, alone,
\* and is the raster that is stored.
NoneStored == \A r \in On(replies) : r.kind # "stored"
PaintAdds ==
  ~disrupted =>
    /\ painting > 0 => replies = <<>> /\ buffer.cover = wanted
    /\ painting = 0 /\ NoneStored => Covered(Folded(edits)) = wanted
    /\ ~NoneStored => painting = 0 /\ Len(replies) = 1 /\ rasters[Head(replies).raster] = wanted

BrushShape ==
  /\ rasters \in Seq(SUBSET Places) /\ edits \in Seq(Edits) /\ view \in Views
  /\ buffer \in [canvas : Nat, cover : SUBSET Places] /\ painting \in Nat
  /\ replies \in Seq(Replies) /\ wanted \subseteq Places /\ disrupted \in BOOLEAN

\* The newest stack is the last that is on its way, or that has come: what came is the
\* view, unless that answer failed.
Said(v) == (unheard \/ v = view) /\ SaysLast(replies, v, Folded(edits))
UpToDate == \E v : Said(v)
FailuresDisrupt == unheard \/ apart => disrupted
BrushInv ==
  /\ BrushShape
  /\ UpToDate
  /\ OneSize
  /\ StoredOnce(replies, Len(rasters))
  /\ FetchesAreRight
  /\ apart \/ Coming \/ Seeded
  /\ FailuresDisrupt
  /\ PaintAdds

LEMMA BrushInitInv == BrushInit => BrushInv
<1> SUFFICES ASSUME BrushInit PROVE BrushInv
  OBVIOUS
<1>1. /\ edits = <<>> /\ rasters = <<>> /\ replies = <<>> /\ view = Untouched
      /\ buffer = [canvas |-> 1, cover |-> {}] /\ painting = 0 /\ wanted = {} /\ disrupted = FALSE
      /\ unheard = FALSE /\ apart = FALSE
  BY DEF BrushInit
<1>2. Len(edits) = 0 /\ Len(replies) = 0 /\ On(replies) = {}
  BY <1>1 DEF On
<1>3. Untouched \in Views /\ Covered(Untouched) = {} /\ Untouched.raster = NoRaster
  BY DEF Untouched, Views, Orientations, TopLeft, NoRaster, Covered, Fits
<1>4. Folded(edits) = Untouched
  BY <1>2, FoldedByNone
<1>5. BrushShape
  BY <1>1, <1>3, EmptySeq DEF BrushShape
<1>6. UpToDate
  <2>1. Said(Untouched)
    BY <1>1, <1>2, <1>4 DEF Said, SaysLast
  <2> QED
    BY <2>1 DEF UpToDate
<1>7. OneSize
  <2>1. [r \in Nat |-> FALSE] \in [Nat -> BOOLEAN]
    OBVIOUS
  <2>2. \A A : Consistent(A, UsedRasters)
    BY <1>1, <1>2, <1>3 DEF Consistent, ViewKnown
  <2> QED
    BY <2>1, <2>2 DEF OneSize
<1>8. StoredOnce(replies, Len(rasters))
  BY <1>2 DEF StoredOnce
<1>9. FetchesAreRight /\ Seeded /\ PaintAdds /\ FailuresDisrupt
  BY <1>1, <1>2, <1>3, <1>4 DEF FetchesAreRight, Seeded, PaintAdds, NoneStored, FailuresDisrupt
<1> QED
  BY <1>5, <1>6, <1>7, <1>8, <1>9 DEF BrushInv

\* What an edit or a view is known by stays known as more rasters are.
LEMMA KnownGrows ==
  ASSUME NEW A, NEW B, NEW R, NEW S, R \subseteq S, \A r \in R : A[r] = B[r]
  PROVE  /\ \A e : EditKnown(A, R, e) => EditKnown(B, S, e)
         /\ \A v : ViewKnown(A, R, v) => ViewKnown(B, S, v)
         /\ \A r : ReplyKnown(A, R, r) => ReplyKnown(B, S, r)
BY DEF EditKnown, ViewKnown, ReplyKnown

\* The mask of a view is places, and stays as more rasters are stored.
LEMMA CoveredPlaces ==
  ASSUME BrushShape, NEW A, NEW v \in Views, ViewKnown(A, UsedRasters, v)
  PROVE  Covered(v) \subseteq Places /\ (v.raster # NoRaster => v.raster \in 1 .. Len(rasters))
<1>1. v.raster # NoRaster => v.raster \in 1 .. Len(rasters)
  BY DEF ViewKnown, UsedRasters, Used
<1>2. \A r \in 1 .. Len(rasters) : rasters[r] \subseteq Places
  BY ElementOfSeq DEF BrushShape
<1> QED
  BY <1>1, <1>2 DEF Covered, Fits

LEMMA SameKey ==
  ASSUME NEW v \in Views, NEW w \in Views, NEW A, NEW R, ViewKnown(A, R, v), ViewKnown(A, R, w),
         Key(v) = Key(w)
  PROVE  Covered(v) = Covered(w)
<1>1. SwapsAxes(v.orientation) = SwapsAxes(w.orientation) /\ v.raster = w.raster
  BY DEF Key
<1> QED
  BY <1>1 DEF Covered, Fits, ViewKnown

\* Nothing of the stack and the answers changes under the hand.
LEMMA HandStands ==
  ASSUME BrushInv, UNCHANGED <<edits, rasters, view, replies, unheard>>, buffer'.canvas = buffer.canvas
  PROVE  UpToDate' /\ OneSize' /\ StoredOnce(replies, Len(rasters))' /\ FetchesAreRight'
         /\ (NoneStored' <=> NoneStored) /\ On(replies)' = On(replies)
<1>1. On(replies)' = On(replies) /\ UsedRasters' = UsedRasters
  BY DEF On, UsedRasters, Used
<1>2. UpToDate'
  <2>1. PICK v : Said(v)
    BY DEF BrushInv, UpToDate
  <2>2. Said(v)'
    BY <2>1 DEF Said
  <2> QED
    BY <2>2 DEF UpToDate
<1>3. OneSize'
  BY <1>1 DEF BrushInv, OneSize, Consistent
<1>4. StoredOnce(replies, Len(rasters))'
  BY DEF BrushInv, StoredOnce
<1>5. FetchesAreRight'
  BY <1>1 DEF BrushInv, FetchesAreRight, FetchIsRight, Covered, Fits
<1>6. NoneStored' <=> NoneStored
  BY <1>1 DEF NoneStored
<1> QED
  BY <1>1, <1>2, <1>3, <1>4, <1>5, <1>6

\* At rest the buffer is the mask of the stack.
LEMMA RestIsTheMask ==
  ASSUME BrushInv, replies = <<>>, painting = 0
  PROVE  /\ unheard \/ view = Folded(edits)
         /\ apart \/ buffer.cover = Covered(view)
         /\ NoneStored
<1>1. On(replies) = {} /\ Len(replies) = 0
  BY NoneOn, EmptySeq DEF BrushInv, BrushShape
<1>2. unheard \/ view = Folded(edits)
  BY <1>1 DEF BrushInv, UpToDate, Said, SaysLast, NoHistory
<1>3. apart \/ buffer.cover = Covered(view)
  BY <1>1 DEF BrushInv, Coming, Seeded
<1> QED
  BY <1>1, <1>2, <1>3 DEF NoneStored

LEMMA PressStep == BrushInv /\ PressBrush => BrushInv'
<1> SUFFICES ASSUME BrushInv, PressBrush PROVE BrushInv'
  OBVIOUS
<1>1. PICK p \in Places :
        /\ buffer' = [buffer EXCEPT !.cover = Dabbed(@, p, erasing')]
        /\ wanted' = Dabbed(wanted, p, erasing')
  BY DEF PressBrush
<1>2. /\ painting = 0 /\ painting' = MaxDabs /\ MaxDabs \in Nat \ {0}
      /\ disrupted' = (disrupted \/ replies # <<>>)
      /\ UNCHANGED <<edits, rasters, view, replies, unheard, apart>>
  BY BrushAssumption DEF PressBrush, failures
<1>3. BrushShape /\ PaintAdds
  BY DEF BrushInv
<1>4. /\ buffer' \in [canvas : Nat, cover : SUBSET Places] /\ buffer'.canvas = buffer.canvas
      /\ buffer'.cover = Dabbed(buffer.cover, p, erasing') /\ wanted' \subseteq Places
  BY <1>1, <1>3 DEF BrushShape, Dabbed
<1>5. BrushShape'
  BY <1>2, <1>3, <1>4 DEF BrushShape
<1>6. Coming'
  BY <1>2 DEF Coming
<1>7. PaintAdds'
  <2> SUFFICES ASSUME ~disrupted' PROVE PaintAdds'
    BY DEF PaintAdds
  <2>1. ~disrupted /\ replies = <<>>
    BY <1>2
  <2>2. view = Folded(edits) /\ buffer.cover = Covered(view) /\ NoneStored
    BY <1>2, <2>1, RestIsTheMask DEF BrushInv, FailuresDisrupt
  <2>3. buffer.cover = wanted
    BY <1>2, <1>3, <2>1, <2>2 DEF PaintAdds
  <2>4. buffer'.cover = wanted' /\ replies' = <<>>
    BY <1>1, <1>2, <1>4, <2>1, <2>3
  <2>5. NoneStored'
    BY <1>2, <1>4, <2>2, HandStands
  <2> QED
    BY <1>2, <2>4, <2>5 DEF PaintAdds
<1>8. FailuresDisrupt'
  BY <1>2 DEF BrushInv, FailuresDisrupt
<1> QED
  BY <1>2, <1>4, <1>5, <1>6, <1>7, <1>8, HandStands DEF BrushInv

LEMMA PaintStep == BrushInv /\ PaintOn => BrushInv'
<1> SUFFICES ASSUME BrushInv, PaintOn PROVE BrushInv'
  OBVIOUS
<1>1. PICK p \in Places :
        /\ buffer' = [buffer EXCEPT !.cover = Dabbed(@, p, erasing)]
        /\ wanted' = Dabbed(wanted, p, erasing)
  BY DEF PaintOn
<1>2. /\ painting > 1 /\ painting' = painting - 1 /\ disrupted' = disrupted
      /\ UNCHANGED <<edits, rasters, view, replies, unheard, apart>>
  BY DEF PaintOn, failures
<1>3. BrushShape /\ PaintAdds
  BY DEF BrushInv
<1>4. /\ buffer' \in [canvas : Nat, cover : SUBSET Places] /\ buffer'.canvas = buffer.canvas
      /\ buffer'.cover = Dabbed(buffer.cover, p, erasing) /\ wanted' \subseteq Places
  BY <1>1, <1>3 DEF BrushShape, Dabbed
<1>5. painting \in Nat /\ painting' \in Nat /\ painting' > 0 /\ painting > 0 /\ painting' # 0
  BY <1>2, <1>3 DEF BrushShape
<1>6. BrushShape'
  BY <1>2, <1>3, <1>4, <1>5 DEF BrushShape
<1>7. Coming'
  BY <1>5 DEF Coming
<1>8. PaintAdds'
  <2> SUFFICES ASSUME ~disrupted' PROVE PaintAdds'
    BY DEF PaintAdds
  <2>1. replies = <<>> /\ buffer.cover = wanted
    BY <1>2, <1>3, <1>5 DEF PaintAdds
  <2>2. On(replies) = {}
    BY <1>3, <2>1, NoneOn DEF BrushShape
  <2>3. NoneStored'
    BY <1>2, <1>4, <2>2, HandStands DEF NoneStored
  <2> QED
    BY <1>1, <1>2, <1>4, <1>5, <2>1, <2>3 DEF PaintAdds
<1>9. FailuresDisrupt'
  BY <1>2 DEF BrushInv, FailuresDisrupt
<1> QED
  BY <1>2, <1>4, <1>6, <1>7, <1>8, <1>9, HandStands DEF BrushInv

LEMMA LiftStep == BrushInv /\ LiftBrush => BrushInv'
<1> SUFFICES ASSUME BrushInv, LiftBrush PROVE BrushInv'
  OBVIOUS
<1> DEFINE n == Len(rasters)
           e == [kind |-> "stored", raster |-> n + 1]
<1>1. BrushShape /\ PaintAdds /\ UpToDate /\ OneSize /\ StoredOnce(replies, n) /\ FetchesAreRight
  BY DEF BrushInv
<1>2. /\ painting > 0 /\ painting' = 0
      /\ rasters' = Append(rasters, buffer.cover)
      /\ UNCHANGED <<edits, view, buffer, wanted, disrupted, unheard, apart>>
  BY DEF LiftBrush, failures
<1>3. /\ rasters' \in Seq(SUBSET Places) /\ Len(rasters') = n + 1 /\ n \in Nat
      /\ \A i \in 1 .. n : rasters'[i] = rasters[i]
      /\ rasters'[n + 1] = buffer.cover
  <2>1. rasters \in Seq(SUBSET Places) /\ buffer.cover \in SUBSET Places
    BY <1>1 DEF BrushShape
  <2> QED
    BY <1>2, <2>1, OneMore
<1>4. replies' = Append(replies, e) /\ e \in Replies /\ e.kind = "stored" /\ e.raster = n + 1
  BY <1>3 DEF LiftBrush, Replies, StoredReplies
<1> HIDE DEF n, e
<1>5. /\ replies' \in Seq(Replies) /\ On(replies') = On(replies) \cup {e}
      /\ On(replies) \subseteq Replies
  BY <1>1, <1>4, OneMore, Joined DEF BrushShape
<1>6. BrushShape'
  BY <1>1, <1>2, <1>3, <1>5 DEF BrushShape
<1>7. UpToDate'
  <2>1. PICK v : Said(v)
    BY <1>1 DEF UpToDate
  <2>2. SaysLast(Append(replies, e), v, Folded(edits))
    BY <1>1, <1>4, <2>1, OtherJoins DEF BrushShape, Said
  <2>3. Said(v)'
    BY <1>2, <1>4, <2>1, <2>2 DEF Said
  <2> QED
    BY <2>3 DEF UpToDate
<1>8. UsedRasters' = UsedRasters
  <2>1. \A r \in 1 .. n + 1 : r \in 1 .. n \/ r = n + 1
    BY <1>3
  <2>2. \A r \in 1 .. n : r \in 1 .. n + 1 /\ r # n + 1
    BY <1>3
  <2>3. UsedRasters' = Used(replies', n + 1) /\ UsedRasters = Used(replies, n)
    BY <1>3 DEF UsedRasters, n
  <2>4. ASSUME NEW r \in Used(replies', n + 1) PROVE r \in Used(replies, n)
    <3>1. r # n + 1
      BY <1>4, <1>5 DEF Used
    <3> QED
      BY <1>5, <2>1, <3>1 DEF Used
  <2>5. ASSUME NEW r \in Used(replies, n) PROVE r \in Used(replies', n + 1)
    BY <1>4, <1>5, <2>2 DEF Used
  <2> QED
    BY <2>3, <2>4, <2>5
<1>9. PICK A \in [Nat -> BOOLEAN] : Consistent(A, UsedRasters)
  BY <1>1 DEF OneSize
<1>10. OneSize'
  <2>1. Consistent(A, UsedRasters)'
    BY <1>2, <1>4, <1>5, <1>8, <1>9 DEF Consistent, ReplyKnown
  <2> QED
    BY <2>1 DEF OneSize
<1>11. StoredOnce(replies, Len(rasters))'
  <2>1. n + 1 \in Nat /\ n <= n + 1 /\ n + 1 \in n + 1 .. n + 1
    BY <1>3
  <2>2. StoredOnce(Append(replies, e), n + 1)
    <3> DEFINE k == n + 1
    <3>1. k \in Nat /\ n <= k /\ e.raster \in n + 1 .. k /\ replies \in Seq(Replies)
      BY <1>1, <1>4, <2>1 DEF BrushShape
    <3> HIDE DEF k
    <3>2. StoredOnce(Append(replies, e), k)
      BY <1>1, <1>3, <1>4, <3>1, OnceJoined
    <3> QED
      BY <3>2 DEF k
  <2> QED
    BY <1>3, <1>4, <2>2
<1>12. Covered(view)' = Covered(view)
  <2>1. view.raster # NoRaster => view.raster \in 1 .. n
    BY <1>1, <1>9, CoveredPlaces DEF Consistent, BrushShape, n
  <2> QED
    BY <1>2, <1>3, <2>1 DEF Covered, Fits
<1>13. FetchesAreRight'
  BY <1>1, <1>2, <1>4, <1>5, <1>12 DEF FetchesAreRight, FetchIsRight
<1>14. Coming'
  BY <1>4, <1>5 DEF Coming, Renews
<1>15. PaintAdds'
  <2> SUFFICES ASSUME ~disrupted' PROVE PaintAdds'
    BY DEF PaintAdds
  <2>1. replies = <<>> /\ buffer.cover = wanted
    BY <1>1, <1>2 DEF PaintAdds
  <2>2. Len(replies') = 1 /\ Head(replies') = e
    <3>1. Len(replies) = 0
      BY <1>1, <2>1, EmptySeq DEF BrushShape
    <3>2. Len(replies') = Len(replies) + 1 /\ replies'[Len(replies) + 1] = e /\ replies' # <<>>
      BY <1>1, <1>4, OneMore DEF BrushShape
    <3>3. Head(replies') = replies'[1]
      BY <1>5, <3>2, OneLess
    <3> QED
      BY <3>1, <3>2, <3>3
  <2>3. ~NoneStored'
    BY <1>4, <1>5 DEF NoneStored
  <2>4. rasters'[Head(replies').raster] = wanted'
    BY <1>2, <1>3, <1>4, <2>1, <2>2
  <2>5. ~(painting' > 0)
    BY <1>2
  <2> QED
    BY <1>2, <2>2, <2>3, <2>4, <2>5 DEF PaintAdds
<1>16. FailuresDisrupt'
  BY <1>2 DEF BrushInv, FailuresDisrupt
<1> QED
  BY <1>6, <1>7, <1>10, <1>11, <1>13, <1>14, <1>15, <1>16 DEF BrushInv

\* A stack whose masks are all known is adopted as soon as its history comes.
LEMMA ReshapedStep ==
  ASSUME BrushInv, NEW stack \in Seq(Edits), Reshaped(stack),
         \A A, R : (\A i \in 1 .. Len(edits) : EditKnown(A, R, edits[i])) =>
                   (\A i \in 1 .. Len(stack) : EditKnown(A, R, stack[i]))
  PROVE  BrushInv'
<1> DEFINE F == Folded(stack)
           e == [kind |-> "history", view |-> F]
<1>1. BrushShape /\ PaintAdds /\ UpToDate /\ OneSize /\ StoredOnce(replies, Len(rasters))
      /\ FetchesAreRight /\ (apart \/ Coming \/ Seeded)
  BY DEF BrushInv
<1>2. /\ edits' = stack /\ replies' = Append(replies, e) /\ wanted' = Covered(F)
      /\ disrupted' = (disrupted \/ replies # <<>> \/ painting > 0)
      /\ UNCHANGED <<rasters, view, buffer, painting, unheard, apart>>
  BY DEF Reshaped, failures
<1>3. PICK A \in [Nat -> BOOLEAN] : Consistent(A, UsedRasters)
  BY <1>1 DEF OneSize
<1>4. \A i \in 1 .. Len(stack) : EditKnown(A, UsedRasters, stack[i])
  BY <1>3 DEF Consistent
<1>5. F \in Views /\ ViewKnown(A, UsedRasters, F)
  BY <1>4, FoldedKnown
<1>6. e \in Replies /\ e.kind = "history" /\ e.view = F
  BY <1>5 DEF Replies, HistoryReplies
<1>7. Covered(F) \subseteq Places
  BY <1>1, <1>3, <1>5, CoveredPlaces
<1> HIDE DEF F, e
<1>8. /\ replies' \in Seq(Replies) /\ On(replies') = On(replies) \cup {e}
      /\ On(replies) \subseteq Replies
  BY <1>1, <1>2, <1>6, OneMore, Joined DEF BrushShape
<1>9. BrushShape'
  BY <1>1, <1>2, <1>7, <1>8 DEF BrushShape
<1>10. UpToDate'
  <2>1. SaysLast(Append(replies, e), view, F)
    BY <1>1, <1>6, HistoryJoins DEF BrushShape
  <2>2. Said(view)'
    BY <1>2, <2>1 DEF Said, F
  <2> QED
    BY <2>2 DEF UpToDate
<1>11. UsedRasters' = UsedRasters
  BY <1>2, <1>6, <1>8 DEF UsedRasters, Used
<1>12. OneSize'
  <2>1. Consistent(A, UsedRasters)'
    BY <1>2, <1>3, <1>4, <1>5, <1>6, <1>8, <1>11 DEF Consistent, ReplyKnown
  <2> QED
    BY <2>1 DEF OneSize
<1>13. StoredOnce(replies, Len(rasters))'
  <2> DEFINE n == Len(rasters)
  <2>1. n \in Nat /\ n <= n /\ replies \in Seq(Replies) /\ StoredOnce(replies, n)
    BY <1>1, LenProperties DEF BrushShape
  <2> HIDE DEF n
  <2>2. StoredOnce(Append(replies, e), n)
    BY <1>6, <2>1, OnceJoined
  <2> QED
    BY <1>2, <2>2 DEF n
<1>14. Covered(view)' = Covered(view)
  BY <1>2 DEF Covered, Fits
<1>15. FetchesAreRight'
  BY <1>1, <1>2, <1>6, <1>8, <1>14 DEF FetchesAreRight, FetchIsRight
<1>16. apart' \/ Coming' \/ Seeded'
  <2>1. Coming => Coming'
    BY <1>2, <1>8 DEF Coming, Renews, Key
  <2>2. Seeded => Seeded'
    BY <1>2, <1>8, <1>14 DEF Seeded, Seeds
  <2> QED
    BY <1>1, <1>2, <2>1, <2>2
<1>17. PaintAdds'
  <2> SUFFICES ASSUME ~disrupted' PROVE PaintAdds'
    BY DEF PaintAdds
  <2>1. replies = <<>> /\ ~(painting > 0)
    BY <1>2
  <2>2. On(replies) = {}
    BY <1>1, <2>1, NoneOn DEF BrushShape
  <2>3. NoneStored'
    BY <1>6, <1>8, <2>2 DEF NoneStored
  <2>4. Covered(Folded(edits))' = wanted'
    BY <1>2 DEF Covered, Fits, F
  <2> QED
    BY <1>2, <2>1, <2>3, <2>4 DEF PaintAdds
<1>18. FailuresDisrupt'
  BY <1>2 DEF BrushInv, FailuresDisrupt
<1> QED
  BY <1>9, <1>10, <1>12, <1>13, <1>15, <1>16, <1>17, <1>18 DEF BrushInv

LEMMA TurnStep == BrushInv /\ TurnPhoto => BrushInv'
<1> SUFFICES ASSUME BrushInv, TurnPhoto PROVE BrushInv'
  OBVIOUS
<1>1. PICK o \in Turns : Reshaped(Append(edits, [kind |-> "turn", by |-> o]))
  BY DEF TurnPhoto
<1> DEFINE e == [kind |-> "turn", by |-> o]
<1>2. e \in Edits /\ e.kind = "turn" /\ edits \in Seq(Edits)
  BY BrushAssumption DEF Edits, TurnEdits, BrushInv, BrushShape
<1> HIDE DEF e
<1>3. /\ Append(edits, e) \in Seq(Edits)
      /\ Len(Append(edits, e)) = Len(edits) + 1 /\ Len(edits) \in Nat
      /\ \A i \in 1 .. Len(edits) : Append(edits, e)[i] = edits[i]
      /\ Append(edits, e)[Len(edits) + 1] = e
  BY <1>2, OneMore, LenProperties
<1>4. \A i \in 1 .. Len(Append(edits, e)) :
        (i \in 1 .. Len(edits) /\ Append(edits, e)[i] = edits[i]) \/ Append(edits, e)[i] = e
  BY <1>3
<1>5. \A A, R : (\A i \in 1 .. Len(edits) : EditKnown(A, R, edits[i])) =>
                (\A i \in 1 .. Len(Append(edits, e)) : EditKnown(A, R, Append(edits, e)[i]))
  BY <1>2, <1>4 DEF EditKnown
<1> QED
  BY <1>1, <1>3, <1>5, ReshapedStep DEF e

LEMMA UndoStep == BrushInv /\ UndoEdit => BrushInv'
<1> SUFFICES ASSUME BrushInv, UndoEdit PROVE BrushInv'
  OBVIOUS
<1>1. edits # <<>> /\ Reshaped(Front(edits)) /\ edits \in Seq(Edits)
  BY DEF UndoEdit, BrushInv, BrushShape
<1>2. Len(edits) \in Nat \ {0}
  BY <1>1, OneLess
<1>3. /\ Front(edits) \in Seq(Edits) /\ Len(Front(edits)) = Len(edits) - 1
      /\ \A i \in 1 .. Len(edits) - 1 : Front(edits)[i] = edits[i]
  <2> DEFINE n == Len(edits) - 1
  <2>1. n \in Nat /\ n <= Len(edits) /\ n \in 0 .. Len(edits) /\ \A i \in 1 .. n : i \in 1 .. Len(edits)
    BY <1>2
  <2>2. /\ SubSeq(edits, 1, n) \in Seq(Edits) /\ Len(SubSeq(edits, 1, n)) = n
        /\ \A i \in 1 .. n : SubSeq(edits, 1, n)[i] = edits[i]
    <3>1. \A i \in 1 .. n : edits[i] \in Edits
      BY <1>1, <2>1, ElementOfSeq
    <3> HIDE DEF n
    <3> QED
      BY <1>1, <2>1, <3>1
  <2>3. Front(edits) = SubSeq(edits, 1, n)
    BY DEF Front
  <2> QED
    BY <2>2, <2>3
<1>4. \A i \in 1 .. Len(Front(edits)) : i \in 1 .. Len(edits) /\ Front(edits)[i] = edits[i]
  BY <1>2, <1>3
<1> QED
  BY <1>1, <1>3, <1>4, ReshapedStep

\* The raster is given to the layer, and the history that says so is on its way.
LEMMA StoredStep == BrushInv /\ MaskStored => BrushInv'
<1> SUFFICES ASSUME BrushInv, MaskStored PROVE BrushInv'
  OBVIOUS
<1> DEFINE n == Len(rasters)
           r == Head(replies).raster
           over == SwapsAxes(view.orientation)
           m == [kind |-> "mask", raster |-> r, across |-> over]
           rest == Tail(replies)
           F == Folded(edits)
           G == Folded(edits')
           h == [kind |-> "history", view |-> G]
<1>1. BrushShape /\ PaintAdds /\ UpToDate /\ OneSize /\ StoredOnce(replies, n) /\ FetchesAreRight
  BY DEF BrushInv
<1>2. /\ replies # <<>> /\ Head(replies).kind = "stored"
      /\ edits' = Append(edits, m) /\ replies' = Append(rest, h)
      /\ UNCHANGED <<rasters, view, buffer, painting, wanted, disrupted, unheard, apart>>
  BY DEF MaskStored, failures
<1>3. PICK A \in [Nat -> BOOLEAN] : Consistent(A, UsedRasters)
  BY <1>1 DEF OneSize
<1>4. n \in Nat /\ replies \in Seq(Replies) /\ edits \in Seq(Edits) /\ view \in Views
  BY <1>1, LenProperties DEF BrushShape
<1>5. /\ StoredOnce(rest, n) /\ r \in 1 .. n
      /\ \A s \in On(rest) : s.kind = "stored" => s.raster # r
  BY <1>1, <1>2, <1>4, OnceLeft
<1>6. /\ rest \in Seq(Replies) /\ On(replies) = On(rest) \cup {Head(replies)}
      /\ Head(replies) \in On(replies) /\ On(rest) \subseteq On(replies)
  BY <1>2, <1>4, OneLess, Left
<1>7. over \in BOOLEAN /\ r \in Nat \ {0}
  BY <1>4, <1>5 DEF SwapsAxes
<1>8. m \in Edits /\ m.kind = "mask" /\ m.raster = r /\ m.across = over
  BY <1>7 DEF Edits, MaskEdits
<1> HIDE DEF m, n
<1>9. /\ edits' \in Seq(Edits) /\ Len(edits') = Len(edits) + 1 /\ Len(edits) \in Nat
      /\ \A i \in 1 .. Len(edits) : edits'[i] = edits[i]
      /\ edits'[Len(edits) + 1] = m
  BY <1>2, <1>4, <1>8, OneMore
<1>10. r \notin UsedRasters
  BY <1>2, <1>6 DEF UsedRasters, Used
<1>11. PICK B \in [Nat -> BOOLEAN] : B[r] = over /\ \A x \in UsedRasters : A[x] = B[x]
  <2> DEFINE C == [A EXCEPT ![r] = over]
  <2>1. \A x \in UsedRasters : x \in Nat /\ x # r
    BY <1>10 DEF UsedRasters, Used
  <2>2. C \in [Nat -> BOOLEAN] /\ C[r] = over /\ \A x \in UsedRasters : A[x] = C[x]
    BY <1>7, <2>1
  <2> QED
    BY <2>2
<1> HIDE DEF G, h, F, rest, r, over
<1>12. UsedRasters \subseteq UsedRasters \cup {r}
  OBVIOUS
<1>13. /\ \A e : EditKnown(A, UsedRasters, e) => EditKnown(B, UsedRasters \cup {r}, e)
       /\ \A v : ViewKnown(A, UsedRasters, v) => ViewKnown(B, UsedRasters \cup {r}, v)
       /\ \A s : ReplyKnown(A, UsedRasters, s) => ReplyKnown(B, UsedRasters \cup {r}, s)
  BY <1>11, KnownGrows
<1>14. \A i \in 1 .. Len(edits') : EditKnown(B, UsedRasters \cup {r}, edits'[i])
  <2>1. EditKnown(B, UsedRasters \cup {r}, m)
    BY <1>8, <1>11 DEF EditKnown
  <2>2. \A i \in 1 .. Len(edits) : EditKnown(A, UsedRasters, edits[i])
    BY <1>3 DEF Consistent
  <2>3. \A i \in 1 .. Len(edits') : i \in 1 .. Len(edits) \/ i = Len(edits) + 1
    BY <1>9
  <2> QED
    BY <1>9, <1>13, <2>1, <2>2, <2>3
<1>15. G \in Views /\ ViewKnown(B, UsedRasters \cup {r}, G)
  BY <1>9, <1>14, FoldedKnown DEF G
<1>16. F \in Views /\ G.raster = r /\ G.across = over /\ G.orientation = F.orientation
  <2>1. F \in Views
    BY <1>3, <1>4, FoldedKnown DEF Consistent, F
  <2>2. G = Edited(F, m)
    <3> DEFINE k == Len(edits)
    <3>1. k \in Nat /\ Len(edits) = k /\ Len(edits') = k + 1 /\ edits'[k + 1] = m
          /\ \A i \in 1 .. k : edits'[i] = edits[i]
      BY <1>9
    <3> HIDE DEF k
    <3> QED
      BY <3>1, FoldedByOneMore DEF F, G
  <2> QED
    BY <1>8, <2>1, <2>2, EditedView
<1>17. h \in Replies /\ h.kind = "history" /\ h.view = G
  BY <1>15 DEF Replies, HistoryReplies, h
<1>18. /\ replies' \in Seq(Replies) /\ On(replies') = On(rest) \cup {h}
       /\ On(rest) \subseteq Replies
  BY <1>2, <1>6, <1>17, OneMore, Joined
<1>19. BrushShape'
  BY <1>1, <1>2, <1>9, <1>18 DEF BrushShape
<1>20. UpToDate'
  <2>1. SaysLast(Append(rest, h), view, G)
    BY <1>6, <1>17, HistoryJoins
  <2>2. Said(view)'
    BY <1>2, <2>1 DEF Said, G
  <2> QED
    BY <2>2 DEF UpToDate
<1>21. UsedRasters' = UsedRasters \cup {r}
  <2>1. \A s \in On(replies) : s.kind = "stored" => s \in On(rest) \/ s = Head(replies)
    BY <1>6
  <2>2. Head(replies).kind = "stored" /\ Head(replies).raster = r
    BY <1>2 DEF r
  <2>3. UsedRasters' = Used(replies', n) /\ UsedRasters = Used(replies, n)
    BY <1>2 DEF UsedRasters, n
  <2>4. Used(replies, n) \cup {r} \subseteq Used(replies', n)
    BY <1>5, <1>6, <1>17, <1>18 DEF Used
  <2>5. Used(replies', n) \subseteq Used(replies, n) \cup {r}
    BY <1>6, <1>18, <2>2 DEF Used
  <2> QED
    BY <2>3, <2>4, <2>5
<1>22. OneSize'
  <2>1. ViewKnown(B, UsedRasters', view')
    BY <1>2, <1>3, <1>13, <1>21 DEF Consistent
  <2>2. \A s \in On(replies') : ReplyKnown(B, UsedRasters', s)
    <3>1. \A s \in On(rest) : ReplyKnown(A, UsedRasters, s)
      BY <1>3, <1>6 DEF Consistent
    <3>2. ReplyKnown(B, UsedRasters', h)
      BY <1>15, <1>17, <1>21 DEF ReplyKnown
    <3> QED
      BY <1>13, <1>18, <1>21, <3>1, <3>2
  <2>3. \A i \in 1 .. Len(edits') : EditKnown(B, UsedRasters', edits'[i])
    BY <1>14, <1>21
  <2>4. Consistent(B, UsedRasters)'
    BY <2>1, <2>2, <2>3 DEF Consistent
  <2> QED
    BY <1>11, <2>4 DEF OneSize
<1>23. StoredOnce(replies, Len(rasters))'
  <2>1. n <= n
    BY <1>4
  <2>2. StoredOnce(Append(rest, h), n)
    BY <1>4, <1>5, <1>6, <1>17, <2>1, OnceJoined
  <2> QED
    BY <1>2, <2>2 DEF n
<1>24. Covered(view)' = Covered(view)
  BY <1>2 DEF Covered, Fits
<1>25. FetchesAreRight'
  BY <1>1, <1>2, <1>6, <1>17, <1>18, <1>24 DEF FetchesAreRight, FetchIsRight
<1>26. Coming'
  <2>1. view.raster # r
    BY <1>3, <1>7, <1>10 DEF Consistent, ViewKnown, NoRaster
  <2>2. Key(G) # Key(view)
    BY <1>16, <2>1 DEF Key
  <2>3. h \in On(replies') /\ Key(h.view) # Key(view')
    BY <1>2, <1>17, <1>18, <2>2
  <2> QED
    BY <1>17, <2>3 DEF Coming, Renews, Key
<1>27. PaintAdds'
  <2> SUFFICES ASSUME ~disrupted' PROVE PaintAdds'
    BY DEF PaintAdds
  <2>1. ~NoneStored
    BY <1>2, <1>6 DEF NoneStored
  <2>2. painting = 0 /\ Len(replies) = 1 /\ rasters[r] = wanted
    BY <1>1, <1>2, <2>1 DEF PaintAdds, r
  <2>3. Len(rest) = 0
    BY <1>2, <1>4, <2>2, OneLess DEF rest
  <2>4. On(rest) = {}
    BY <2>3 DEF On
  <2>5. NoHistory(replies)
    <3>1. \A i \in 1 .. Len(replies) : replies[i] = Head(replies)
      BY <1>2, <1>4, <2>2, OneLess
    <3> QED
      BY <1>2, <3>1 DEF NoHistory
  <2>6. view = F
    BY <1>1, <1>2, <2>5 DEF BrushInv, UpToDate, Said, SaysLast, FailuresDisrupt, F
  <2>7. Fits(G) /\ G.raster = r
    BY <1>7, <1>16, <2>6 DEF Fits, NoRaster, over
  <2>8. Covered(Folded(edits))' = wanted'
    BY <1>2, <2>2, <2>7 DEF Covered, Fits, G
  <2>9. NoneStored'
    BY <1>17, <1>18, <2>4 DEF NoneStored
  <2> QED
    BY <1>2, <2>2, <2>8, <2>9 DEF PaintAdds
<1>28. FailuresDisrupt'
  BY <1>2 DEF BrushInv, FailuresDisrupt
<1> QED
  BY <1>19, <1>20, <1>22, <1>23, <1>25, <1>26, <1>27, <1>28 DEF BrushInv

\* Whatever leaves that is not a stored raster changes nothing of what is known.
LEMMA OldestKept ==
  ASSUME BrushInv, replies # <<>>, Head(replies).kind # "stored"
  PROVE  /\ Tail(replies) \in Seq(Replies) /\ Head(replies) \in Replies
         /\ On(replies) = On(Tail(replies)) \cup {Head(replies)}
         /\ StoredOnce(Tail(replies), Len(rasters))
         /\ Used(Tail(replies), Len(rasters)) = UsedRasters
         /\ ~disrupted => painting = 0 /\ NoneStored /\ Covered(Folded(edits)) = wanted
<1>1. BrushShape /\ PaintAdds /\ StoredOnce(replies, Len(rasters))
  BY DEF BrushInv
<1>2. replies \in Seq(Replies) /\ Len(rasters) \in Nat /\ painting \in Nat
  BY <1>1, LenProperties DEF BrushShape
<1>3. /\ Tail(replies) \in Seq(Replies) /\ Len(Tail(replies)) = Len(replies) - 1
      /\ Head(replies) \in Replies
      /\ On(replies) = On(Tail(replies)) \cup {Head(replies)}
  <2>1. On(replies) \subseteq Replies
    <3>1. \A i \in 1 .. Len(replies) : replies[i] \in Replies
      BY <1>2, ElementOfSeq
    <3> QED
      BY <3>1 DEF On
  <2> QED
    BY <1>2, <2>1, OneLess, Left
<1>4. StoredOnce(Tail(replies), Len(rasters))
  BY <1>1, <1>2, OnceLeft
<1>5. Used(Tail(replies), Len(rasters)) = UsedRasters
  BY <1>3 DEF UsedRasters, Used
<1>6. ASSUME ~disrupted PROVE painting = 0 /\ NoneStored /\ Covered(Folded(edits)) = wanted
  <2>1. painting = 0
    BY <1>1, <1>2, <1>6 DEF PaintAdds
  <2>2. ASSUME ~NoneStored PROVE FALSE
    <3>1. Len(replies) = 1
      BY <1>1, <1>6, <2>2 DEF PaintAdds
    <3>2. On(Tail(replies)) = {}
      BY <1>3, <3>1 DEF On
    <3> QED
      BY <1>3, <2>2, <3>2 DEF NoneStored
  <2> QED
    BY <1>1, <1>6, <2>1, <2>2 DEF PaintAdds
<1> QED
  BY <1>3, <1>4, <1>5, <1>6

\* The canvas stays, or a new one is made and its raster asked for.
LEMMA AdoptStep == BrushInv /\ Adopt => BrushInv'
<1> SUFFICES ASSUME BrushInv, Adopt PROVE BrushInv'
  OBVIOUS
<1> DEFINE rest == Tail(replies)
           h == Head(replies)
           n == Len(rasters)
<1>1. BrushShape /\ UpToDate /\ OneSize /\ FetchesAreRight /\ (apart \/ Coming \/ Seeded)
  BY DEF BrushInv
<1>2. /\ replies # <<>> /\ h.kind = "history" /\ view' = h.view
      /\ unheard' = FALSE /\ apart' = (apart /\ buffer' = buffer)
      /\ UNCHANGED <<edits, rasters, painting, wanted, disrupted>>
  BY DEF Adopt
<1>3. PICK A \in [Nat -> BOOLEAN] : Consistent(A, UsedRasters)
  BY <1>1 DEF OneSize
<1>4. /\ rest \in Seq(Replies) /\ h \in Replies /\ On(replies) = On(rest) \cup {h}
      /\ StoredOnce(rest, n) /\ Used(rest, n) = UsedRasters
      /\ ~disrupted => painting = 0 /\ NoneStored /\ Covered(Folded(edits)) = wanted
  BY <1>2, OldestKept
<1>5. view' \in Views /\ view \in Views /\ ViewKnown(A, UsedRasters, view') /\ ViewKnown(A, UsedRasters, view)
  BY <1>1, <1>2, <1>3, <1>4, ReplyKinds DEF Consistent, ReplyKnown, BrushShape
<1>6. SaysLast(rest, view', Folded(edits))
  <2>1. PICK v : Said(v)
    BY <1>1 DEF UpToDate
  <2>2. SaysLast(replies, v, Folded(edits)) /\ replies \in Seq(Replies)
    BY <1>1, <2>1 DEF Said, BrushShape
  <2>3. SaysLast(rest, IF h.kind = "history" THEN h.view ELSE v, Folded(edits))
    BY <1>2, <2>2, OldestLeaves
  <2> QED
    BY <1>2, <2>3
<1>7. Covered(view)' = Covered(view')
  BY <1>2 DEF Covered, Fits
<1>8. /\ buffer \in [canvas : Nat, cover : SUBSET Places]
      /\ n \in Nat /\ Covered(view') \subseteq Places
  BY <1>1, <1>5, CoveredPlaces, LenProperties DEF BrushShape
<1>9. FailuresDisrupt'
  BY <1>2 DEF BrushInv, FailuresDisrupt
<1>10. CASE Key(view') = Key(view)
  <2>1. buffer' = buffer /\ replies' = rest
    BY <1>10 DEF Adopt
  <2>2. Covered(view') = Covered(view)
    BY <1>5, <1>10, SameKey
  <2> HIDE DEF rest, h, n
  <2>3. BrushShape'
    BY <1>1, <1>2, <1>4, <1>5, <2>1 DEF BrushShape
  <2>4. UpToDate'
    <3>1. Said(view)'
      BY <1>2, <1>6, <2>1 DEF Said
    <3> QED
      BY <3>1 DEF UpToDate
  <2>5. UsedRasters' = UsedRasters
    BY <1>2, <1>4, <2>1 DEF UsedRasters, n
  <2>6. OneSize'
    <3>1. Consistent(A, UsedRasters)'
      BY <1>2, <1>3, <1>4, <1>5, <2>1, <2>5 DEF Consistent, ReplyKnown
    <3> QED
      BY <3>1 DEF OneSize
  <2>7. StoredOnce(replies, Len(rasters))'
    BY <1>2, <1>4, <2>1 DEF n
  <2>8. FetchesAreRight'
    BY <1>1, <1>4, <1>7, <2>1, <2>2 DEF FetchesAreRight, FetchIsRight
  <2>9. apart' \/ Coming' \/ Seeded'
    <3>1. ~Renews(h)
      BY <1>2, <1>10 DEF Renews
    <3>2. \A s : Renews(s) => Renews(s)'
      BY <1>10 DEF Renews, Key
    <3>3. Coming => Coming'
      BY <1>2, <1>4, <2>1, <3>1, <3>2 DEF Coming
    <3>4. Seeded => Seeded'
      BY <1>2, <1>4, <1>7, <2>1, <2>2 DEF Seeded, Seeds
    <3> QED
      BY <1>1, <1>2, <2>1, <3>3, <3>4
  <2>10. PaintAdds'
    <3> SUFFICES ASSUME ~disrupted' PROVE PaintAdds'
      BY DEF PaintAdds
    <3>1. painting' = 0 /\ ~(painting' > 0)
      BY <1>2, <1>4
    <3>2. NoneStored'
      BY <1>2, <1>4, <2>1 DEF NoneStored
    <3>3. Covered(Folded(edits))' = wanted'
      BY <1>2, <1>4 DEF Covered, Fits
    <3> QED
      BY <3>1, <3>2, <3>3 DEF PaintAdds
  <2> QED
    BY <1>9, <2>3, <2>4, <2>6, <2>7, <2>8, <2>9, <2>10 DEF BrushInv
<1>11. CASE Key(view') # Key(view)
  <2> DEFINE c == buffer.canvas + 1
             f == [kind |-> "fetched", canvas |-> c, cover |-> Covered(view')]
  <2>1. /\ buffer' = [canvas |-> c, cover |-> {}]
        /\ replies' = IF Fits(view') THEN Append(rest, f) ELSE rest
    BY <1>11 DEF Adopt
  <2>2. c \in Nat /\ buffer.canvas \in Nat /\ c > buffer.canvas
        /\ buffer'.canvas = c /\ buffer'.cover = {}
        /\ buffer' \in [canvas : Nat, cover : SUBSET Places]
    BY <1>8, <2>1
  <2>3. f \in Replies /\ f.kind = "fetched" /\ f.canvas = c /\ f.cover = Covered(view')
    BY <1>8, <2>2 DEF Replies, FetchedReplies
  <2> HIDE DEF rest, h, n, f, c
  <2>4. /\ replies' \in Seq(Replies) /\ On(replies') \subseteq On(rest) \cup {f}
        /\ SaysLast(replies', view', Folded(edits))
        /\ StoredOnce(replies', n) /\ Used(replies', n) = UsedRasters
        /\ Seeded'
    <3>1. CASE Fits(view')
      <4>1. replies' = Append(rest, f)
        BY <2>1, <3>1
      <4>2. replies' \in Seq(Replies) /\ On(replies') = On(rest) \cup {f} /\ On(rest) \subseteq Replies
        BY <1>4, <2>3, <4>1, OneMore, Joined
      <4>3. SaysLast(Append(rest, f), view', Folded(edits))
        <5> DEFINE v == view'
                   w == Folded(edits)
        <5>1. SaysLast(rest, v, w) /\ f.kind # "history"
          BY <1>6, <2>3
        <5> HIDE DEF v, w
        <5>2. SaysLast(Append(rest, f), v, w)
          BY <1>4, <2>3, <5>1, OtherJoins
        <5> QED
          BY <5>2 DEF v, w
      <4>4. StoredOnce(Append(rest, f), n)
        <5>1. n <= n
          BY <1>8
        <5> QED
          BY <1>4, <1>8, <2>3, <5>1, OnceJoined
      <4>5. Used(replies', n) = UsedRasters
        BY <1>4, <2>3, <4>2 DEF Used
      <4>6. Seeded'
        BY <2>2, <2>3, <4>2 DEF Seeded, Seeds
      <4> QED
        BY <4>1, <4>2, <4>3, <4>4, <4>5, <4>6
    <3>2. CASE ~Fits(view')
      <4>1. replies' = rest
        BY <2>1, <3>2
      <4>2. Covered(view') = {}
        BY <3>2 DEF Covered
      <4>3. Seeded'
        BY <1>7, <2>2, <4>2 DEF Seeded
      <4> QED
        BY <1>4, <1>6, <4>1, <4>3
    <3> QED
      BY <3>1, <3>2
  <2>5. BrushShape'
    BY <1>1, <1>2, <1>5, <2>2, <2>4 DEF BrushShape
  <2>6. UpToDate'
    <3>1. Said(view)'
      BY <1>2, <2>4 DEF Said
    <3> QED
      BY <3>1 DEF UpToDate
  <2>7. OneSize'
    <3>1. UsedRasters' = UsedRasters
      BY <1>2, <2>4 DEF UsedRasters, n
    <3>2. Consistent(A, UsedRasters)'
      BY <1>2, <1>3, <1>4, <1>5, <2>3, <2>4, <3>1 DEF Consistent, ReplyKnown
    <3> QED
      BY <3>2 DEF OneSize
  <2>8. StoredOnce(replies, Len(rasters))'
    BY <1>2, <2>4 DEF n
  <2>9. FetchesAreRight'
    <3>1. ASSUME NEW s \in On(rest), s.kind = "fetched" PROVE s.canvas <= c /\ s.canvas # c
      <4>1. s \in On(replies) /\ s \in Replies
        BY <1>4, Joined, <2>3
      <4>2. s.canvas \in Nat /\ s.canvas <= buffer.canvas
        BY <1>1, <3>1, <4>1, ReplyKinds DEF FetchesAreRight, FetchIsRight
      <4> QED
        BY <2>2, <4>2
    <3>2. c <= c
      BY <2>2
    <3> QED
      BY <1>7, <2>2, <2>3, <2>4, <3>1, <3>2 DEF FetchesAreRight, FetchIsRight
  <2>10. PaintAdds'
    <3> SUFFICES ASSUME ~disrupted' PROVE PaintAdds'
      BY DEF PaintAdds
    <3>1. painting' = 0 /\ ~(painting' > 0)
      BY <1>2, <1>4
    <3>2. NoneStored'
      BY <1>2, <1>4, <2>3, <2>4 DEF NoneStored
    <3>3. Covered(Folded(edits))' = wanted'
      BY <1>2, <1>4 DEF Covered, Fits
    <3> QED
      BY <3>1, <3>2, <3>3 DEF PaintAdds
  <2> QED
    BY <1>9, <2>4, <2>5, <2>6, <2>7, <2>8, <2>9, <2>10 DEF BrushInv
<1> QED
  BY <1>10, <1>11

\* The raster is drawn over the canvas it was fetched for, and dropped otherwise.
LEMMA SeedStep == BrushInv /\ Seed => BrushInv'
<1> SUFFICES ASSUME BrushInv, Seed PROVE BrushInv'
  OBVIOUS
<1> DEFINE rest == Tail(replies)
           f == Head(replies)
           n == Len(rasters)
<1>1. BrushShape /\ UpToDate /\ OneSize /\ FetchesAreRight /\ (apart \/ Coming \/ Seeded)
  BY DEF BrushInv
<1>2. /\ replies # <<>> /\ f.kind = "fetched" /\ replies' = rest
      /\ buffer' = IF f.canvas = buffer.canvas
                   THEN [buffer EXCEPT !.cover = @ \cup f.cover] ELSE buffer
      /\ UNCHANGED <<edits, rasters, view, painting, wanted, disrupted, unheard, apart>>
  BY DEF Seed, failures
<1>3. PICK A \in [Nat -> BOOLEAN] : Consistent(A, UsedRasters)
  BY <1>1 DEF OneSize
<1>4. /\ rest \in Seq(Replies) /\ f \in Replies /\ On(replies) = On(rest) \cup {f}
      /\ StoredOnce(rest, n) /\ Used(rest, n) = UsedRasters
      /\ ~disrupted => painting = 0 /\ NoneStored /\ Covered(Folded(edits)) = wanted
  BY <1>2, OldestKept
<1>5. PICK v : (unheard \/ v = view) /\ SaysLast(rest, v, Folded(edits))
  <2>1. PICK v : Said(v)
    BY <1>1 DEF UpToDate
  <2>2. SaysLast(replies, v, Folded(edits)) /\ replies \in Seq(Replies)
    BY <1>1, <2>1 DEF Said, BrushShape
  <2>3. SaysLast(rest, IF f.kind = "history" THEN f.view ELSE v, Folded(edits))
    BY <1>2, <2>2, OldestLeaves
  <2> QED
    BY <1>2, <2>1, <2>3 DEF Said
<1>6. Covered(view)' = Covered(view)
  BY <1>2 DEF Covered, Fits
<1> HIDE DEF rest, f, n
<1>7. /\ buffer' \in [canvas : Nat, cover : SUBSET Places] /\ buffer'.canvas = buffer.canvas
      /\ buffer'.cover = IF f.canvas = buffer.canvas THEN buffer.cover \cup f.cover ELSE buffer.cover
  <2>1. buffer \in [canvas : Nat, cover : SUBSET Places] /\ f.cover \subseteq Places
    BY <1>1, <1>2, <1>4, ReplyKinds DEF BrushShape
  <2> QED
    BY <1>2, <2>1
<1>8. BrushShape'
  BY <1>1, <1>2, <1>4, <1>7 DEF BrushShape
<1>9. UpToDate'
  <2>1. Said(v)'
    BY <1>2, <1>5 DEF Said
  <2> QED
    BY <2>1 DEF UpToDate
<1>10. OneSize'
  <2>1. UsedRasters' = UsedRasters
    BY <1>2, <1>4 DEF UsedRasters, n
  <2>2. Consistent(A, UsedRasters)'
    BY <1>2, <1>3, <1>4, <2>1 DEF Consistent, ReplyKnown
  <2> QED
    BY <2>2 DEF OneSize
<1>11. StoredOnce(replies, Len(rasters))'
  BY <1>2, <1>4 DEF n
<1>12. FetchesAreRight'
  BY <1>1, <1>2, <1>4, <1>6, <1>7 DEF FetchesAreRight, FetchIsRight
<1>13. apart' \/ Coming' \/ Seeded'
  <2>1. Coming => Coming'
    BY <1>2, <1>4 DEF Coming, Renews, Key
  <2>2. ASSUME Seeded PROVE Seeded'
    <3>1. CASE f.canvas = buffer.canvas
      <4>1. f.cover = Covered(view)
        BY <1>1, <1>2, <1>4, <3>1 DEF FetchesAreRight, FetchIsRight
      <4>2. buffer'.cover = Covered(view)
        BY <1>7, <2>2, <3>1, <4>1 DEF Seeded
      <4> QED
        BY <1>6, <4>2 DEF Seeded
    <3>2. CASE f.canvas # buffer.canvas
      BY <1>2, <1>4, <1>6, <1>7, <2>2, <3>2 DEF Seeded, Seeds
    <3> QED
      BY <3>1, <3>2
  <2> QED
    BY <1>1, <1>2, <2>1, <2>2
<1>14. PaintAdds'
  <2> SUFFICES ASSUME ~disrupted' PROVE PaintAdds'
    BY DEF PaintAdds
  <2>1. painting' = 0 /\ ~(painting' > 0)
    BY <1>2, <1>4
  <2>2. NoneStored'
    BY <1>2, <1>4 DEF NoneStored
  <2>3. Covered(Folded(edits))' = wanted'
    BY <1>2, <1>4 DEF Covered, Fits
  <2> QED
    BY <2>1, <2>2, <2>3 DEF PaintAdds
<1>15. FailuresDisrupt'
  BY <1>2 DEF BrushInv, FailuresDisrupt
<1> QED
  BY <1>8, <1>9, <1>10, <1>11, <1>12, <1>13, <1>14, <1>15 DEF BrushInv

\* A request that fails takes its answer off the queue and changes nothing else.
LEMMA FailingStep == BrushInv /\ (StoreFailed \/ EditFailed \/ FetchFailed) => BrushInv'
<1> SUFFICES ASSUME BrushInv, StoreFailed \/ EditFailed \/ FetchFailed PROVE BrushInv'
  OBVIOUS
<1> DEFINE rest == Tail(replies)
           h == Head(replies)
           n == Len(rasters)
<1>1. BrushShape /\ UpToDate /\ OneSize /\ FetchesAreRight /\ StoredOnce(replies, n)
  BY DEF BrushInv
<1>2. /\ replies # <<>> /\ replies' = rest /\ disrupted' = TRUE /\ apart' = TRUE
      /\ UNCHANGED <<edits, rasters, view, buffer, painting, wanted>>
      /\ unheard \/ h.kind = "history" => unheard'
  BY DEF StoreFailed, EditFailed, FetchFailed, Failing
<1>3. /\ replies \in Seq(Replies) /\ n \in Nat
      /\ rest \in Seq(Replies) /\ On(replies) = On(rest) \cup {h}
      /\ StoredOnce(rest, n)
  BY <1>1, <1>2, LenProperties, OneLess, Left, OnceLeft DEF BrushShape
<1> HIDE DEF rest, h, n
<1>4. BrushShape'
  BY <1>1, <1>2, <1>3 DEF BrushShape
<1>5. UpToDate'
  <2>1. PICK v : Said(v)
    BY <1>1 DEF UpToDate
  <2>2. PICK w : w = IF h.kind = "history" THEN h.view ELSE v
    OBVIOUS
  <2>3. SaysLast(replies, v, Folded(edits))
    BY <2>1 DEF Said
  <2>4. SaysLast(rest, w, Folded(edits))
    BY <1>2, <1>3, <2>3, <2>2, OldestLeaves DEF rest, h
  <2>5. unheard' \/ w = view
    BY <1>2, <2>1, <2>2 DEF Said
  <2>6. Said(w)'
    BY <1>2, <2>4, <2>5 DEF Said
  <2> QED
    BY <2>6 DEF UpToDate
<1>6. OneSize'
  <2>1. PICK A \in [Nat -> BOOLEAN] : Consistent(A, UsedRasters)
    BY <1>1 DEF OneSize
  <2>2. UsedRasters \subseteq UsedRasters'
    BY <1>2, <1>3 DEF UsedRasters, Used
  <2>3. Consistent(A, UsedRasters)'
    BY <1>2, <1>3, <2>1, <2>2, KnownGrows DEF Consistent, ReplyKnown
  <2> QED
    BY <2>1, <2>3 DEF OneSize
<1>7. StoredOnce(replies, Len(rasters))'
  BY <1>2, <1>3 DEF n
<1>8. FetchesAreRight'
  <2>1. Covered(view)' = Covered(view)
    BY <1>2 DEF Covered, Fits
  <2> QED
    BY <1>1, <1>2, <1>3, <2>1 DEF FetchesAreRight, FetchIsRight
<1>9. apart' /\ FailuresDisrupt' /\ PaintAdds'
  BY <1>2 DEF FailuresDisrupt, PaintAdds
<1> QED
  BY <1>4, <1>5, <1>6, <1>7, <1>8, <1>9 DEF BrushInv

LEMMA BrushStepInv == BrushInv /\ [BrushNext]_brushVars => BrushInv'
<1> SUFFICES ASSUME BrushInv, [BrushNext]_brushVars PROVE BrushInv'
  OBVIOUS
<1>1. CASE UNCHANGED brushVars
  <2>1. /\ UNCHANGED <<edits, rasters, view, replies, unheard, apart>>
        /\ buffer' = buffer /\ painting' = painting /\ wanted' = wanted /\ disrupted' = disrupted
    BY <1>1 DEF brushVars, failures
  <2>2. BrushShape'
    BY <2>1 DEF BrushInv, BrushShape
  <2>3. Covered(view)' = Covered(view) /\ Covered(Folded(edits))' = Covered(Folded(edits))
    BY <2>1 DEF Covered, Fits
  <2>4. UpToDate' /\ OneSize' /\ StoredOnce(replies, Len(rasters))' /\ FetchesAreRight'
        /\ (NoneStored' <=> NoneStored) /\ On(replies)' = On(replies)
    BY <2>1, HandStands
  <2>5. apart' \/ Coming' \/ Seeded'
    BY <2>1, <2>3, <2>4 DEF BrushInv, Coming, Renews, Key, Seeded, Seeds
  <2>6. PaintAdds'
    BY <2>1, <2>3, <2>4 DEF BrushInv, PaintAdds
  <2>7. FailuresDisrupt'
    BY <2>1 DEF BrushInv, FailuresDisrupt
  <2> QED
    BY <2>2, <2>4, <2>5, <2>6, <2>7 DEF BrushInv
<1> QED
  BY <1>1, PressStep, PaintStep, LiftStep, TurnStep, UndoStep, StoredStep, AdoptStep, SeedStep,
     FailingStep
  DEF BrushNext

LEMMA BrushKept == BrushInv => PaintIsKept
<1> SUFFICES ASSUME BrushInv PROVE PaintIsKept
  OBVIOUS
<1>1. StrokesAreKept
  BY RestIsTheMask DEF StrokesAreKept, AtRest, BrushInv, PaintAdds
<1>2. OverlayIsTheMask
  BY RestIsTheMask DEF OverlayIsTheMask, AtRest
<1> QED
  BY <1>1, <1>2 DEF PaintIsKept

\* Until a request fails, what is painted, each gesture waiting for the one before, is
\* in the mask, through every canvas that is thrown away and seeded again; and once
\* everything that was asked has been answered, in the order it was asked, the overlay
\* shows the mask, but for an edit whose answer failed and a canvas during which a
\* request failed (BrushOverlay.tsx, applyPaintedMask, adoptHistory).
THEOREM PaintIsTrue == ToolsSpec => []PaintIsKept
<1>1. ToolsInit => BrushInv
  BY BrushInitInv DEF ToolsInit
<1>2. BrushInv /\ [ToolsNext]_toolsVars => BrushInv'
  <2>1. [ToolsNext]_toolsVars => [BrushNext]_brushVars
    BY DEF ToolsNext, toolsVars, CurveStep, CropStep, BrushStep, ResizeStep, RawStep, LayerStep,
           ShelfStep, EnhanceStep, ExportStep, RowsStep
  <2> QED
    BY <2>1, BrushStepInv
<1> QED
  BY <1>1, <1>2, BrushKept, PTL DEF ToolsSpec

-----------------------------------------------------------------------------
(* The crop's frame. Rounding, and one side of a rectangle at a time.       *)

LEMMA HalfUp ==
  ASSUME NEW p \in Int, NEW q \in Nat \ {0}
  PROVE  /\ RoundUp(p, q) \in Int
         /\ 2 * (q * RoundUp(p, q)) <= 2 * p + q
         /\ 2 * p + q < 2 * (q * RoundUp(p, q)) + 2 * q
<1> DEFINE a == 2 * p + q
           b == 2 * q
           k == a \div b
<1>1. a \in Int /\ b \in Nat /\ b > 0
  OBVIOUS
<1>2. k \in Int /\ b * k <= a /\ a < b * (k + 1)
  <2> HIDE DEF a, b
  <2> QED
    BY <1>1, Z3
<1>3. RoundUp(p, q) = k
  BY DEF RoundUp
<1> HIDE DEF k
<1>4. b * k = 2 * (q * k) /\ b * (k + 1) = 2 * (q * k) + 2 * q
  BY <1>2
<1> QED
  BY <1>2, <1>3, <1>4 DEF a

\* Rounding stays on its side of a whole number.
LEMMA RoundBelow ==
  ASSUME NEW p \in Int, NEW q \in Nat \ {0}, NEW w \in Int, p <= w * q
  PROVE  RoundUp(p, q) <= w
<1> DEFINE k == RoundUp(p, q)
<1>1. k \in Int /\ 2 * (q * k) <= 2 * p + q
  BY HalfUp
<1> HIDE DEF k
<1> SUFFICES ASSUME k >= w + 1 PROVE FALSE
  BY <1>1 DEF k
<1>2. q * k >= q * (w + 1)
  BY <1>1
<1>3. q * (w + 1) = w * q + q /\ w * q \in Int /\ q * k \in Int
  BY <1>1
<1> QED
  BY <1>1, <1>2, <1>3

LEMMA RoundAbove ==
  ASSUME NEW p \in Int, NEW q \in Nat \ {0}, NEW w \in Int, p >= w * q
  PROVE  RoundUp(p, q) >= w
<1> DEFINE k == RoundUp(p, q)
<1>1. k \in Int /\ 2 * p + q < 2 * (q * k) + 2 * q
  BY HalfUp
<1> HIDE DEF k
<1> SUFFICES ASSUME k <= w - 1 PROVE FALSE
  BY <1>1 DEF k
<1>2. q * k <= q * (w - 1)
  BY <1>1
<1>3. q * (w - 1) = w * q - q /\ w * q \in Int /\ q * k \in Int
  BY <1>1
<1> QED
  BY <1>1, <1>2, <1>3

LEMMA RoundWhole ==
  ASSUME NEW q \in Nat \ {0}, NEW w \in Int
  PROVE  RoundUp(w * q, q) = w
<1>1. w * q \in Int /\ RoundUp(w * q, q) \in Int
  <2>1. w * q \in Int
    OBVIOUS
  <2> QED
    BY <2>1, HalfUp
<1>2. RoundUp(w * q, q) <= w
  BY <1>1, RoundBelow
<1>3. RoundUp(w * q, q) >= w
  BY <1>1, RoundAbove
<1> QED
  BY <1>1, <1>2, <1>3

\* One side of clampRect: its length and where it begins, along b pixels.
SideOf(w, q, b) == Least(Most(1, RoundUp(w, q)), b)
PlaceOf(x, q, b, w) == Least(Most(0, RoundUp(x, q)), b - w)

LEMMA ClampIsSides ==
  ASSUME NEW r, NEW b
  PROVE  ClampRect(r, b) = Rect(PlaceOf(r.x, r.q, b.w, SideOf(r.w, r.q, b.w)),
                                PlaceOf(r.y, r.q, b.h, SideOf(r.h, r.q, b.h)),
                                SideOf(r.w, r.q, b.w), SideOf(r.h, r.q, b.h))
BY DEF ClampRect, SideOf, PlaceOf

\* Whatever it is asked for, it lies along them.
LEMMA SideInside ==
  ASSUME NEW x \in Int, NEW w \in Int, NEW q \in Nat \ {0}, NEW b \in Nat \ {0}
  PROVE  /\ SideOf(w, q, b) \in 1 .. b
         /\ PlaceOf(x, q, b, SideOf(w, q, b)) \in Nat
         /\ PlaceOf(x, q, b, SideOf(w, q, b)) + SideOf(w, q, b) <= b
<1> DEFINE s == SideOf(w, q, b)
<1>1. RoundUp(x, q) \in Int /\ RoundUp(w, q) \in Int
  BY HalfUp
<1>2. s \in 1 .. b
  BY <1>1 DEF SideOf, Least, Most
<1> HIDE DEF s
<1>3. PlaceOf(x, q, b, s) \in Nat /\ PlaceOf(x, q, b, s) + s <= b
  BY <1>1, <1>2 DEF PlaceOf, Least, Most
<1> QED
  BY <1>2, <1>3 DEF s

\* A side that is no longer than one that lies along them keeps its length, to the
\* rounding, and the end it is anchored at.
SideFits(x, w, q, b, t) ==
  /\ x \in Nat /\ w \in Nat \ {0} /\ q \in Nat \ {0} /\ b \in Nat \ {0} /\ t \in Int
  /\ x + w <= b /\ t > 0 /\ t <= w * q

LEMMA SideShrinks ==
  ASSUME NEW x, NEW w, NEW q, NEW b, NEW t, SideFits(x, w, q, b, t)
  PROVE  /\ SideOf(t, q, b) = Most(1, RoundUp(t, q))
         /\ SideOf(t, q, b) \in 1 .. w
         /\ RoundUp(t, q) \in Nat
<1>0. /\ x \in Nat /\ w \in Nat \ {0} /\ q \in Nat \ {0} /\ b \in Nat \ {0} /\ t \in Int
      /\ x + w <= b /\ t > 0 /\ t <= w * q
  BY DEF SideFits
<1> DEFINE k == RoundUp(t, q)
<1>1. k \in Int /\ k <= w
  BY <1>0, HalfUp, RoundBelow
<1>2. k >= 0
  <2>1. 0 * q = 0
    BY <1>0
  <2>2. t >= 0 * q
    BY <1>0, <2>1
  <2> QED
    BY <1>0, <2>2, RoundAbove
<1> HIDE DEF k
<1>3. SideOf(t, q, b) = Least(Most(1, k), b)
  BY DEF SideOf, k
<1>4. Most(1, k) \in 1 .. w /\ Most(1, k) <= b
  BY <1>0, <1>1, <1>2 DEF Most
<1>5. Least(Most(1, k), b) = Most(1, k)
  BY <1>0, <1>4 DEF Least
<1> QED
  BY <1>1, <1>2, <1>3, <1>4, <1>5 DEF k

LEMMA SideFromLow ==
  ASSUME NEW x, NEW w, NEW q, NEW b, NEW t, SideFits(x, w, q, b, t)
  PROVE  PlaceOf(x * q, q, b, SideOf(t, q, b)) = x
<1>0. /\ x \in Nat /\ w \in Nat \ {0} /\ q \in Nat \ {0} /\ b \in Nat \ {0} /\ t \in Int
      /\ x + w <= b /\ t > 0 /\ t <= w * q
  BY DEF SideFits
<1> DEFINE s == SideOf(t, q, b)
<1>1. s \in 1 .. w
  BY SideShrinks
<1>2. RoundUp(x * q, q) = x
  BY <1>0, RoundWhole
<1> HIDE DEF s
<1>3. PlaceOf(x * q, q, b, s) = x
  BY <1>0, <1>1, <1>2 DEF PlaceOf, Least, Most
<1> QED
  BY <1>3 DEF s

LEMMA SideFromHigh ==
  ASSUME NEW x, NEW w, NEW q, NEW b, NEW t, SideFits(x, w, q, b, t)
  PROVE  LET s == SideOf(t, q, b)
         IN  Abs((PlaceOf((x + w) * q - t, q, b, s) + s) - (x + w)) <= 1
<1>0. /\ x \in Nat /\ w \in Nat \ {0} /\ q \in Nat \ {0} /\ b \in Nat \ {0} /\ t \in Int
      /\ x + w <= b /\ t > 0 /\ t <= w * q
  BY DEF SideFits
<1> DEFINE s == SideOf(t, q, b)
           k == RoundUp(t, q)
           e == x + w
           p == e * q - t
           j == RoundUp(p, q)
<1>1. s = Most(1, k) /\ s \in 1 .. w /\ k \in Nat
  BY SideShrinks
<1>2. e \in Nat /\ p \in Int /\ p <= e * q /\ p >= x * q /\ e * q \in Int
  <2>1. e * q = x * q + w * q /\ x * q \in Int /\ w * q \in Int
    BY <1>0
  <2> QED
    BY <1>0, <2>1
<1>3. j \in Int /\ j <= e /\ j >= x
  <2> HIDE DEF p, e
  <2>1. e \in Int /\ x \in Int /\ q \in Nat \ {0}
    BY <1>0, <1>2
  <2>2. j \in Int
    BY <1>2, <2>1, HalfUp
  <2>3. j <= e
    BY <1>2, <2>1, RoundBelow
  <2>4. j >= x
    BY <1>2, <2>1, RoundAbove
  <2> QED
    BY <2>2, <2>3, <2>4
<1>4. k + j >= e
  <2>1. 2 * t + q < 2 * (q * k) + 2 * q
    BY <1>0, HalfUp
  <2>2. 2 * p + q < 2 * (q * j) + 2 * q
    <3> HIDE DEF p
    <3> QED
      BY <1>0, <1>2, HalfUp
  <2> SUFFICES ASSUME k + j <= e - 1 PROVE FALSE
    BY <1>1, <1>2, <1>3
  <2> HIDE DEF k, j, e
  <2>3. q * (k + j) <= q * (e - 1)
    BY <1>0, <1>1, <1>2, <1>3
  <2>4. q * (k + j) = q * k + q * j /\ q * (e - 1) = e * q - q
        /\ q * k \in Int /\ q * j \in Int
    BY <1>0, <1>1, <1>2, <1>3
  <2> QED
    BY <1>0, <1>2, <2>1, <2>2, <2>3, <2>4
<1>5. k + j <= e + 1
  <2>1. 2 * (q * k) <= 2 * t + q
    BY <1>0, HalfUp
  <2>2. 2 * (q * j) <= 2 * p + q
    <3> HIDE DEF p
    <3> QED
      BY <1>0, <1>2, HalfUp
  <2> SUFFICES ASSUME k + j >= e + 2 PROVE FALSE
    BY <1>1, <1>2, <1>3
  <2> HIDE DEF k, j, e
  <2>3. q * (k + j) >= q * (e + 2)
    BY <1>0, <1>1, <1>2, <1>3
  <2>4. q * (k + j) = q * k + q * j /\ q * (e + 2) = e * q + 2 * q
        /\ q * k \in Int /\ q * j \in Int
    BY <1>0, <1>1, <1>2, <1>3
  <2> QED
    BY <1>0, <1>2, <2>1, <2>2, <2>3, <2>4
<1> DEFINE place == PlaceOf(p, q, b, s)
<1>6. place = Least(j, b - s)
  BY <1>0, <1>3 DEF PlaceOf, Most
<1> HIDE DEF s, k, j, p
<1>7. j + s = e \/ j + s = e + 1
  BY <1>1, <1>2, <1>3, <1>4, <1>5 DEF Most
<1>8. place + s = e \/ place + s = e + 1
  <2> HIDE DEF e
  <2>1. e <= b /\ e \in Int /\ b \in Int /\ s \in Int
    BY <1>0, <1>1 DEF e
  <2>2. CASE j <= b - s
    BY <1>6, <1>7, <2>2 DEF Least
  <2>3. CASE ~(j <= b - s)
    <3>1. place = b - s
      BY <1>6, <2>3 DEF Least
    <3> QED
      BY <1>3, <1>7, <2>1, <2>3, <3>1
  <2> QED
    BY <2>2, <2>3
<1> HIDE DEF place
<1>9. Abs((place + s) - e) <= 1
  BY <1>2, <1>8 DEF Abs
<1> QED
  BY <1>9 DEF place, s, p, e

-----------------------------------------------------------------------------
(* A locked ratio.                                                         *)

\* The ratios offered are no wider than 16:9, and no taller.
IsRatio(a) == a.n \in Nat \ {0} /\ a.d \in Nat \ {0} /\ a.n <= 3 * a.d /\ a.d <= 3 * a.n

LEMMA Cancel ==
  ASSUME NEW d \in Nat \ {0}, NEW x \in Int, NEW y \in Int
  PROVE  (d * x <= d * y => x <= y) /\ (d * x < d * y => x < y)
<1>1. ASSUME x > y PROVE d * x > d * y
  <2>1. x >= y + 1 /\ d * x >= d * (y + 1)
    BY <1>1
  <2>2. d * (y + 1) = d * y + d /\ d * x \in Int /\ d * y \in Int
    OBVIOUS
  <2> QED
    BY <2>1, <2>2
<1>2. d * x \in Int /\ d * y \in Int
  OBVIOUS
<1>3. x = y => d * x = d * y
  OBVIOUS
<1> QED
  BY <1>1, <1>2, <1>3

\* The side that is rounded is off the ratio by half a pixel, or by what keeping a
\* pixel costs.
LEMMA RatioRounded ==
  ASSUME NEW a \in Nat \ {0}, NEW n \in Nat \ {0}, NEW d \in Nat \ {0}, n <= 3 * d
  PROVE  2 * Abs(a * d - Most(1, RoundUp(a * d * d, n * d)) * n) <= n + d
<1> DEFINE u == a * d
           p == a * d * d
           q == n * d
           k == RoundUp(p, q)
           v == n * k
<1>1. u \in Nat \ {0} /\ u >= d /\ p = d * u /\ p \in Int /\ q \in Nat \ {0} /\ q = d * n
  <2>1. u \in Nat /\ u >= d
    BY Z3
  <2>2. q \in Nat /\ q >= d
    BY Z3
  <2> QED
    BY <2>1, <2>2
<1>2. k \in Int /\ 2 * (q * k) <= 2 * p + q /\ 2 * p + q < 2 * (q * k) + 2 * q
  <2> HIDE DEF p, q
  <2> QED
    BY <1>1, HalfUp
<1> HIDE DEF k
<1>3. v \in Int /\ q * k = d * v
  BY <1>1, <1>2
<1> HIDE DEF u, p, q, v
<1>4. /\ 2 * (q * k) = d * (2 * v) /\ 2 * p + q = d * (2 * u + n)
      /\ 2 * (q * k) + 2 * q = d * (2 * v + 2 * n)
  BY <1>1, <1>3
<1>5. 2 * v <= 2 * u + n /\ 2 * u + n < 2 * v + 2 * n
  <2> DEFINE x == 2 * v
             y == 2 * u + n
             z == 2 * v + 2 * n
  <2>1. x \in Int /\ y \in Int /\ z \in Int /\ d * x <= d * y /\ d * y < d * z
    BY <1>1, <1>2, <1>3, <1>4
  <2> HIDE DEF x, y, z
  <2>2. x <= y /\ y < z
    BY <2>1, Cancel
  <2> QED
    BY <2>2 DEF x, y, z
<1>6. CASE k >= 1
  <2>1. Most(1, k) * n = v
    BY <1>2, <1>3, <1>6 DEF Most, v
  <2>2. 2 * Abs(u - v) <= n
    BY <1>1, <1>3, <1>5 DEF Abs
  <2> QED
    BY <1>1, <2>1, <2>2, <1>3 DEF u, p, q, k, Abs
<1>7. CASE k <= 0
  <2>1. Most(1, k) * n = n
    BY <1>2, <1>7 DEF Most
  <2>2. v <= 0
    BY <1>2, <1>7 DEF v
  <2>3. 2 * u < n
    BY <1>1, <1>3, <1>5, <2>2
  <2>4. 2 * Abs(u - n) <= n + d
    BY <1>1, <2>3 DEF Abs
  <2> QED
    BY <2>1, <2>4 DEF u, p, q, k
<1> QED
  BY <1>2, <1>6, <1>7

FrameRect == [x : Nat, y : Nat, w : Nat \ {0}, h : Nat \ {0}]

\* The two candidates of applyAspect, in units of the denominators of the ratio.
LEMMA AspectSizes ==
  ASSUME NEW r \in FrameRect, NEW a, IsRatio(a), NEW i, NEW j
  PROVE  LET e == ApplyAspect(r, a, i, j)
         IN  /\ e.q \in Nat \ {0} /\ e.q = a.n * a.d
             /\ e.w \in Int /\ e.w > 0 /\ e.w <= r.w * e.q
             /\ e.h \in Int /\ e.h > 0 /\ e.h <= r.h * e.q
             /\ \/ e.w = r.w * e.q /\ e.h = r.w * a.d * a.d
                \/ e.w = r.h * a.n * a.n /\ e.h = r.h * e.q
             /\ e.x = IF i = r.x THEN r.x * e.q ELSE (r.x + r.w) * e.q - e.w
             /\ e.y = IF j = r.y THEN r.y * e.q ELSE (r.y + r.h) * e.q - e.h
<1> DEFINE n == a.n
           d == a.d
           q == n * d
           w == r.w
           h == r.h
           e == ApplyAspect(r, a, i, j)
           flat == w * d <= h * n
           ew == IF flat THEN w * q ELSE h * n * n
           eh == IF flat THEN w * d * d ELSE h * q
<1>1. /\ n \in Nat \ {0} /\ d \in Nat \ {0} /\ w \in Nat \ {0} /\ h \in Nat \ {0}
  BY DEF IsRatio, FrameRect
<1>2. /\ e.q = q /\ e.w = ew /\ e.h = eh
      /\ e.x = IF i = r.x THEN r.x * q ELSE (r.x + w) * q - ew
      /\ e.y = IF j = r.y THEN r.y * q ELSE (r.y + h) * q - eh
  BY DEF ApplyAspect
<1> HIDE DEF n, d, w, h, e
<1>3. q \in Nat \ {0} /\ w * q \in Nat \ {0} /\ h * q \in Nat \ {0}
  <2>1. q \in Nat \ {0}
    BY <1>1, Z3
  <2> HIDE DEF q
  <2> QED
    BY <1>1, <2>1, Z3
<1>4. w * d \in Nat \ {0} /\ h * n \in Nat \ {0} /\ w * d * d \in Nat \ {0} /\ h * n * n \in Nat \ {0}
  <2>1. w * d \in Nat \ {0} /\ h * n \in Nat \ {0}
    BY <1>1, Z3
  <2> DEFINE x == w * d
             y == h * n
  <2>2. x \in Nat \ {0} /\ y \in Nat \ {0}
    BY <2>1
  <2> HIDE DEF x, y
  <2>3. x * d \in Nat \ {0} /\ y * n \in Nat \ {0}
    BY <1>1, <2>2, Z3
  <2> QED
    BY <2>1, <2>3 DEF x, y
<1>5. flat => w * d * d <= h * q
  <2> DEFINE x == w * d
             y == h * n
  <2>1. x \in Int /\ y \in Int
    BY <1>4
  <2>2. y * d = h * q
    BY <1>1
  <2> HIDE DEF x, y
  <2>3. x <= y => x * d <= y * d
    BY <1>1, <2>1
  <2> QED
    BY <2>2, <2>3 DEF x, y
<1>6. ~flat => h * n * n <= w * q
  <2> DEFINE x == w * d
             y == h * n
  <2>1. x \in Int /\ y \in Int
    BY <1>4
  <2>2. x * n = w * q
    BY <1>1
  <2> HIDE DEF x, y
  <2>3. y <= x => y * n <= x * n
    BY <1>1, <2>1
  <2> QED
    BY <2>1, <2>2, <2>3 DEF x, y
<1> HIDE DEF q
<1>7. /\ ew \in Int /\ ew > 0 /\ ew <= w * q
      /\ eh \in Int /\ eh > 0 /\ eh <= h * q
      /\ (ew = w * q /\ eh = w * d * d) \/ (ew = h * n * n /\ eh = h * q)
  <2>1. CASE flat
    BY <1>3, <1>4, <1>5, <2>1
  <2>2. CASE ~flat
    BY <1>3, <1>4, <1>6, <2>2
  <2> QED
    BY <2>1, <2>2
<1> HIDE DEF ew, eh
<1> QED
  BY <1>2, <1>3, <1>7 DEF n, d, w, h, e, q

\* A frame inside the photograph that is brought to a ratio stays inside itself,
\* keeps the corner it is anchored at, and has the ratio, to the rounding.
LEMMA AspectKept ==
  ASSUME NEW r \in FrameRect, NEW b, b.w \in Nat \ {0}, b.h \in Nat \ {0}, InFrame(r, b),
         NEW a, IsRatio(a), NEW i, NEW j
  PROVE  LET c == ClampRect(ApplyAspect(r, a, i, j), b)
         IN  /\ IF i = r.x THEN c.x = r.x ELSE Abs((c.x + c.w) - (r.x + r.w)) <= 1
             /\ IF j = r.y THEN c.y = r.y ELSE Abs((c.y + c.h) - (r.y + r.h)) <= 1
             /\ 2 * Abs(c.w * a.d - c.h * a.n) <= a.n + a.d
<1> DEFINE e == ApplyAspect(r, a, i, j)
           c == ClampRect(e, b)
<1>1. /\ e.q \in Nat \ {0} /\ e.q = a.n * a.d
      /\ e.w \in Int /\ e.w > 0 /\ e.w <= r.w * e.q
      /\ e.h \in Int /\ e.h > 0 /\ e.h <= r.h * e.q
      /\ \/ e.w = r.w * e.q /\ e.h = r.w * a.d * a.d
         \/ e.w = r.h * a.n * a.n /\ e.h = r.h * e.q
      /\ e.x = IF i = r.x THEN r.x * e.q ELSE (r.x + r.w) * e.q - e.w
      /\ e.y = IF j = r.y THEN r.y * e.q ELSE (r.y + r.h) * e.q - e.h
  BY AspectSizes
<1> HIDE DEF e
<1>2. /\ c.x = PlaceOf(e.x, e.q, b.w, SideOf(e.w, e.q, b.w))
      /\ c.y = PlaceOf(e.y, e.q, b.h, SideOf(e.h, e.q, b.h))
      /\ c.w = SideOf(e.w, e.q, b.w) /\ c.h = SideOf(e.h, e.q, b.h)
  BY ClampIsSides DEF Rect
<1> HIDE DEF c
<1>3. SideFits(r.x, r.w, e.q, b.w, e.w) /\ SideFits(r.y, r.h, e.q, b.h, e.h)
  BY <1>1 DEF SideFits, FrameRect, InFrame
<1>4. IF i = r.x THEN c.x = r.x ELSE Abs((c.x + c.w) - (r.x + r.w)) <= 1
  <2>1. CASE i = r.x
    BY <1>1, <1>2, <1>3, <2>1, SideFromLow
  <2>2. CASE i # r.x
    BY <1>1, <1>2, <1>3, <2>2, SideFromHigh
  <2> QED
    BY <2>1, <2>2
<1>5. IF j = r.y THEN c.y = r.y ELSE Abs((c.y + c.h) - (r.y + r.h)) <= 1
  <2>1. CASE j = r.y
    BY <1>1, <1>2, <1>3, <2>1, SideFromLow
  <2>2. CASE j # r.y
    BY <1>1, <1>2, <1>3, <2>2, SideFromHigh
  <2> QED
    BY <2>1, <2>2
<1>6. c.w = Most(1, RoundUp(e.w, e.q)) /\ c.h = Most(1, RoundUp(e.h, e.q))
  BY <1>2, <1>3, SideShrinks
<1>7. 2 * Abs(c.w * a.d - c.h * a.n) <= a.n + a.d
  <2> DEFINE n == a.n
             d == a.d
             q == e.q
             w == r.w
             h == r.h
  <2>1. /\ n \in Nat \ {0} /\ d \in Nat \ {0} /\ w \in Nat \ {0} /\ h \in Nat \ {0}
        /\ n <= 3 * d /\ d <= 3 * n /\ q = n * d /\ q = d * n /\ q \in Nat \ {0}
    BY <1>1 DEF IsRatio, FrameRect
  <2> HIDE DEF n, d, q, w, h
  <2>2. CASE e.w = w * q /\ e.h = w * d * d
    <3>1. c.w = w
      <4>1. RoundUp(w * q, q) = w
        BY <2>1, RoundWhole
      <4>2. c.w = Most(1, w)
        BY <1>6, <2>2, <4>1 DEF q
      <4> QED
        BY <2>1, <4>2 DEF Most
    <3>2. c.h = Most(1, RoundUp(w * d * d, n * d))
      BY <1>6, <2>1, <2>2 DEF q
    <3>3. 2 * Abs(w * d - c.h * n) <= n + d
      BY <2>1, <3>2, RatioRounded
    <3> QED
      BY <3>1, <3>3 DEF n, d
  <2>3. CASE e.w = h * n * n /\ e.h = h * q
    <3>1. c.h = h
      <4>1. RoundUp(h * q, q) = h
        BY <2>1, RoundWhole
      <4>2. c.h = Most(1, h)
        BY <1>6, <2>3, <4>1 DEF q
      <4> QED
        BY <2>1, <4>2 DEF Most
    <3>2. c.w = Most(1, RoundUp(h * n * n, d * n))
      BY <1>6, <2>1, <2>3 DEF q
    <3>3. 2 * Abs(h * n - c.w * d) <= d + n
      BY <2>1, <3>2, RatioRounded
    <3>4. c.w \in Int
      <4>1. SideOf(e.w, e.q, b.w) \in 1 .. r.w
        BY <1>3, SideShrinks
      <4> QED
        BY <1>2, <4>1
    <3>5. Abs(h * n - c.w * d) = Abs(c.w * d - h * n)
      <4> DEFINE x == h * n
                 y == c.w * d
      <4>1. x \in Int /\ y \in Int
        BY <2>1, <3>4
      <4> HIDE DEF x, y
      <4>2. Abs(x - y) = Abs(y - x)
        BY <4>1 DEF Abs
      <4> QED
        BY <4>2 DEF x, y
    <3> QED
      BY <2>1, <3>1, <3>3, <3>5 DEF n, d
  <2> QED
    BY <1>1, <2>2, <2>3 DEF n, d, q, w, h
<1> QED
  BY <1>4, <1>5, <1>7 DEF c, e

-----------------------------------------------------------------------------
(* The fold of the operations on the shape, prefix by prefix.              *)

IsShaping(f, s, m) ==
  f = [n \in 0 .. m |-> IF n = 0 THEN Whole(PhotoWidth, PhotoHeight) ELSE Shaped(f[n - 1], s[n])]

Shaping(s) == CHOOSE f : IsShaping(f, s, Len(s))

LEMMA ShapingFolds ==
  ASSUME NEW s PROVE FoldGeometry(s, PhotoWidth, PhotoHeight) = Shaping(s)[Len(s)]
BY Zenon DEF FoldGeometry, Shaping, IsShaping

LEMMA ShapingExists ==
  ASSUME NEW s, NEW m \in Nat
  PROVE  \E f : IsShaping(f, s, m)
<1> DEFINE T == {n \in Nat : ~ \E f : IsShaping(f, s, n)}
<1> SUFFICES ASSUME T # {} PROVE FALSE
  OBVIOUS
<1>1. PICK x \in T : \A y \in T : x <= y
  BY HasLeast
<1>2. x # 0
  <2>1. IsShaping([n \in 0 .. 0 |-> Whole(PhotoWidth, PhotoHeight)], s, 0)
    BY DEF IsShaping
  <2> QED BY <2>1
<1>3. PICK f : IsShaping(f, s, x - 1)
  <2>1. x - 1 \in Nat /\ x - 1 \notin T
    BY <1>1, <1>2
  <2> QED BY <2>1
<1> DEFINE step(n) == IF n = 0 THEN Whole(PhotoWidth, PhotoHeight) ELSE Shaped(f[n - 1], s[n])
           g == [n \in 0 .. x |-> step(n)]
<1>4. \A n \in 0 .. (x - 1) : f[n] = step(n)
  BY <1>3, Zenon DEF IsShaping
<1>5. \A n \in 0 .. x : n # 0 => g[n - 1] = f[n - 1]
  <2> SUFFICES ASSUME NEW n \in 0 .. x, n # 0 PROVE g[n - 1] = f[n - 1]
    OBVIOUS
  <2>1. n - 1 \in 0 .. x /\ n - 1 \in 0 .. (x - 1)
    BY <1>2
  <2> HIDE DEF step
  <2> QED BY <2>1, <1>4
<1>6. \A n \in 0 .. x :
        step(n) = (IF n = 0 THEN Whole(PhotoWidth, PhotoHeight) ELSE Shaped(g[n - 1], s[n]))
  BY <1>5, Zenon
<1>7. IsShaping(g, s, x)
  <2> HIDE DEF step
  <2>1. g = [n \in 0 .. x |-> IF n = 0 THEN Whole(PhotoWidth, PhotoHeight)
                              ELSE Shaped(g[n - 1], s[n])]
    BY <1>6, Zenon
  <2> HIDE DEF g
  <2> QED BY <2>1, Zenon DEF IsShaping
<1> QED BY <1>7, <1>1

LEMMA ShapingStep ==
  ASSUME NEW s, Len(s) \in Nat
  PROVE  /\ Shaping(s)[0] = Whole(PhotoWidth, PhotoHeight)
         /\ \A n \in 1 .. Len(s) : Shaping(s)[n] = Shaped(Shaping(s)[n - 1], s[n])
<1> DEFINE f == Shaping(s)
           m == Len(s)
<1>1. IsShaping(f, s, m)
  BY ShapingExists, Zenon DEF Shaping
<1> HIDE DEF f
<1>2. f[0] = Whole(PhotoWidth, PhotoHeight)
  <2>1. 0 \in 0 .. m
    OBVIOUS
  <2> QED BY <1>1, <2>1, Zenon DEF IsShaping
<1>3. ASSUME NEW n \in 1 .. m PROVE f[n] = Shaped(f[n - 1], s[n])
  <2>1. n \in 0 .. m /\ n # 0
    OBVIOUS
  <2> QED BY <1>1, <2>1, Zenon DEF IsShaping
<1> QED BY <1>2, <1>3 DEF f

\* Two folds agree as far as the operations do.
LEMMA ShapingsAgree ==
  ASSUME NEW s, NEW t, Len(s) \in Nat, Len(t) \in Nat, NEW m \in Nat,
         m <= Len(s), m <= Len(t), SameEdits(s, t, m)
  PROVE  Shaping(s)[m] = Shaping(t)[m]
<1> DEFINE f == Shaping(s)
           g == Shaping(t)
           T == {n \in 0 .. m : f[n] # g[n]}
<1>1. /\ f[0] = g[0]
      /\ \A n \in 1 .. Len(s) : f[n] = Shaped(f[n - 1], s[n])
      /\ \A n \in 1 .. Len(t) : g[n] = Shaped(g[n - 1], t[n])
  BY ShapingStep
<1> HIDE DEF f, g
<1> SUFFICES ASSUME T # {} PROVE FALSE
  <2>1. m \in 0 .. m
    OBVIOUS
  <2> QED BY <2>1 DEF f, g
<1>2. PICK x \in T : \A y \in T : x <= y
  <2>1. T \in SUBSET Nat
    OBVIOUS
  <2> HIDE DEF T
  <2> QED BY <2>1, HasLeast
<1>3. x \in 0 .. m /\ f[x] # g[x]
  BY <1>2
<1>4. x # 0
  BY <1>1, <1>3
<1>5. x - 1 \in 0 .. m /\ x \in 1 .. m /\ x \in 1 .. Len(s) /\ x \in 1 .. Len(t) /\ ~ (x <= x - 1)
  BY <1>3, <1>4
<1>6. x - 1 \notin T
  BY <1>5, <1>2
<1>7. f[x - 1] = g[x - 1] /\ s[x] = t[x]
  BY <1>5, <1>6 DEF SameEdits
<1> QED BY <1>1, <1>3, <1>5, <1>7, Zenon

-----------------------------------------------------------------------------
(* Turns and crops leave a photograph that is upright and has a pixel.     *)

PlainView ==
  [frame : RectType, base : RectType, orientation : Orientations, angle : {Upright},
   tw : {0}, th : {0}]

LEMMA PlainWhole == Whole(PhotoWidth, PhotoHeight) \in PlainView
BY CropAssumption DEF Whole, PlainView, Rect, RectType, Orientations, TopLeft

LEMMA PlainTurned ==
  ASSUME NEW g \in PlainView, NEW op, op.kind = "rotate", op.quarters = 1
  PROVE  Shaped(g, op) \in PlainView
<1>1. Shaped(g, op) = Rotated(g, 1)
  BY DEF Shaped
<1>2. RotateQuarters(1) \in {3, 6, 8} /\ g.orientation \in Orientations
  BY RotateType DEF PlainView
<1>3. Compose(RotateQuarters(1), g.orientation) \in Orientations
  BY <1>2, ComposeType
<1> DEFINE turned == [g EXCEPT !.orientation = Compose(RotateQuarters(1), g.orientation)]
<1>4. turned \in PlainView
  BY <1>3 DEF PlainView
<1>5. Rotated(g, 1) = [turned EXCEPT !.tw = g.th, !.th = g.tw]
  BY DEF Rotated, Reorient
<1> HIDE DEF turned
<1> QED
  BY <1>1, <1>4, <1>5 DEF PlainView

\* The kept rectangle of such a view.
KeptRect(g, r) ==
  LET in == MapRectBack(r, g.orientation, g.frame.w, g.frame.h)
  IN  Intersect(Rect(in.x + g.frame.x, in.y + g.frame.y, in.w, in.h), g.frame)

LEMMA PlainFrame ==
  ASSUME NEW g \in PlainView, NEW r \in RectType, NEW op, op.kind = "crop", op.rect = r
  PROVE  Shaped(g, op) = [g EXCEPT !.frame = KeptRect(g, r), !.base = KeptRect(g, r)]
<1>1. /\ g.tw = 0 /\ g.th = 0 /\ g.angle.s = 0
      /\ r.w \in Nat \ {0} /\ r.h \in Nat \ {0} /\ r.x \in Int /\ r.y \in Int
      /\ r = Rect(r.x, r.y, r.w, r.h)
  BY DEF PlainView, RectType, Upright, Rect
<1>2. InNatural(g, r) = r
  <2>1. Most(1, r.w) = r.w /\ Most(1, r.h) = r.h
    BY <1>1 DEF Most
  <2>2. InNatural(g, r) = Rect(r.x, r.y, Most(1, r.w), Most(1, r.h))
    BY <1>1 DEF InNatural
  <2> QED
    BY <1>1, <2>1, <2>2
<1>3. CroppedFrame(g, r) = KeptRect(g, r)
  BY <1>1, <1>2 DEF CroppedFrame, KeptRect
<1>4. Shaped(g, op) = Cropped(g, r)
  BY DEF Shaped
<1> QED
  BY <1>1, <1>3, <1>4 DEF Cropped

LEMMA PlainCropped ==
  ASSUME NEW g \in PlainView, NEW r \in RectType, NEW op, op.kind = "crop", op.rect = r,
         ~IsEmpty(Shaped(g, op).frame)
  PROVE  Shaped(g, op) \in PlainView
<1> DEFINE k == KeptRect(g, r)
           in == MapRectBack(r, g.orientation, g.frame.w, g.frame.h)
<1>1. Shaped(g, op) = [g EXCEPT !.frame = k, !.base = k]
  BY PlainFrame
<1>2. g.frame \in RectType /\ g.orientation \in Orientations
  BY DEF PlainView
<1>3. in \in RectType
  BY <1>2, MapRectType DEF RectType
<1> HIDE DEF in
<1>4. k \in [x : Int, y : Int, w : Int, h : Int]
  <2>1. k = Intersect(Rect(in.x + g.frame.x, in.y + g.frame.y, in.w, in.h), g.frame)
    BY DEF KeptRect, in
  <2> QED
    BY <1>2, <1>3, <2>1 DEF Intersect, Rect, Nothing, Most, Least, RectType
<1> HIDE DEF k
<1>5. Shaped(g, op).frame = k
  BY <1>1 DEF PlainView
<1>6. k \in RectType
  BY <1>4, <1>5 DEF IsEmpty, RectType
<1> QED
  BY <1>1, <1>6 DEF PlainView

LEMMA PlainSize ==
  ASSUME NEW g \in PlainView
  PROVE  /\ OutputWidth(g) = AlongX(g.orientation, g.frame.w, g.frame.h)
         /\ OutputHeight(g) = AlongY(g.orientation, g.frame.w, g.frame.h)
         /\ OutputWidth(g) \in Nat \ {0} /\ OutputHeight(g) \in Nat \ {0}
<1>1. g.tw = 0 /\ g.th = 0 /\ g.frame.w \in Nat \ {0} /\ g.frame.h \in Nat \ {0}
  BY DEF PlainView, RectType
<1> QED
  BY <1>1 DEF OutputWidth, OutputHeight, NaturalWidth, NaturalHeight, AlongX, AlongY

\* A crop inside the picture is the picture that is left.
LEMMA CropIsTheSize ==
  ASSUME NEW g \in PlainView, NEW r \in FrameRect, InFrame(r, Rendered(g)),
         NEW op, op.kind = "crop", op.rect = r
  PROVE  /\ ~IsEmpty(Shaped(g, op).frame)
         /\ OutputWidth(Shaped(g, op)) = r.w /\ OutputHeight(Shaped(g, op)) = r.h
<1> DEFINE o == g.orientation
           f == g.frame
           k == KeptRect(g, r)
           in == MapRectBack(r, o, f.w, f.h)
           x == AlongX(o, r.x, r.y)
           y == AlongY(o, r.x, r.y)
           l == AlongX(o, r.w, r.h)
           m == AlongY(o, r.w, r.h)
<1>1. /\ f \in RectType /\ o \in Orientations /\ r \in RectType
      /\ f.x \in Int /\ f.y \in Int /\ f.w \in Nat \ {0} /\ f.h \in Nat \ {0}
  BY DEF PlainView, RectType, FrameRect
<1>2. /\ r.x \in Nat /\ r.y \in Nat /\ r.w \in Nat \ {0} /\ r.h \in Nat \ {0}
      /\ r.x + r.w <= OutputWidth(g) /\ r.y + r.h <= OutputHeight(g)
  BY DEF FrameRect, InFrame, Rendered, Rect
<1>3. /\ x \in Nat /\ y \in Nat /\ l \in Nat \ {0} /\ m \in Nat \ {0}
      /\ x + l <= f.w /\ y + m <= f.h
  BY <1>1, <1>2, PlainSize DEF AlongX, AlongY
<1>4. /\ in.x = (IF MirrorX(o) = 1 THEN f.w - x - l ELSE x) /\ in.w = l
      /\ in.y = (IF MirrorY(o) = 1 THEN f.h - y - m ELSE y) /\ in.h = m
  BY <1>1, RectRead DEF Rect
<1>5. k = Intersect(Rect(in.x + f.x, in.y + f.y, in.w, in.h), f)
  BY DEF KeptRect
<1>6. Shaped(g, op) = [g EXCEPT !.frame = k, !.base = k]
  BY <1>1, PlainFrame
<1>7. AlongX(o, l, m) = r.w /\ AlongY(o, l, m) = r.h
  BY DEF AlongX, AlongY
<1> HIDE DEF x, y, l, m, in, k
<1>8. in.x \in Nat /\ in.y \in Nat /\ in.x + l <= f.w /\ in.y + m <= f.h
  BY <1>1, <1>3, <1>4
<1>9. k.w = l /\ k.h = m
  BY <1>1, <1>3, <1>4, <1>5, <1>8 DEF Intersect, Rect, Most, Least
<1> DEFINE c == Shaped(g, op)
<1>10. c.frame = k /\ c.orientation = o /\ c.tw = 0 /\ c.th = 0
  BY <1>6 DEF PlainView
<1> HIDE DEF c, o
<1>11. ~IsEmpty(c.frame)
  BY <1>3, <1>9, <1>10 DEF IsEmpty
<1>12. OutputWidth(c) = AlongX(o, l, m) /\ OutputHeight(c) = AlongY(o, l, m)
  BY <1>9, <1>10 DEF OutputWidth, OutputHeight, NaturalWidth, NaturalHeight, AlongX, AlongY
<1> QED
  BY <1>7, <1>11, <1>12 DEF c

-----------------------------------------------------------------------------
(* The frame's invariant.                                                  *)

PageRect == [x : {0}, y : {0}, w : Nat \ {0}, h : Nat \ {0}]
Place == [x : Int, y : Int]

\* Every prefix of the stack has a pixel, for the engine refuses what empties it.
ShapeOps == [kind : {"rotate"}, quarters : {1}] \cup [kind : {"crop"}, rect : FrameRect]
AllPlain(s) == s \in Seq(ShapeOps) /\ \A n \in 0 .. Len(s) : Shaping(s)[n] \in PlainView

View(s) == FoldGeometry(s, PhotoWidth, PhotoHeight)

LEMMA PageOf ==
  ASSUME NEW s, AllPlain(s)
  PROVE  View(s) \in PlainView /\ Bounds(s) = Rendered(View(s)) /\ Bounds(s) \in PageRect
<1>1. Len(s) \in Nat /\ Len(s) \in 0 .. Len(s)
  BY LenProperties DEF AllPlain
<1>2. View(s) \in PlainView
  BY <1>1, ShapingFolds DEF AllPlain, View
<1>3. Bounds(s) = Rendered(View(s))
  BY DEF Bounds, View
<1> QED
  BY <1>2, <1>3, PlainSize DEF Rendered, Rect, PageRect

\* One operation more.
LEMMA PlainGrows ==
  ASSUME NEW s, AllPlain(s), NEW op \in ShapeOps
  PROVE  /\ View(Append(s, op)) = Shaped(View(s), op)
         /\ View(Append(s, op)) \in PlainView => AllPlain(Append(s, op))
<1> DEFINE t == Append(s, op)
           m == Len(s)
<1>1. /\ s \in Seq(ShapeOps) /\ m \in Nat /\ Len(t) = m + 1 /\ t[m + 1] = op
      /\ \A i \in 1 .. m : t[i] = s[i]
      /\ t \in Seq(ShapeOps)
  BY OneMore DEF AllPlain
<1> HIDE DEF t
<1>2. \A n \in 0 .. m : Shaping(s)[n] = Shaping(t)[n]
  <2> SUFFICES ASSUME NEW n \in 0 .. m PROVE Shaping(s)[n] = Shaping(t)[n]
    OBVIOUS
  <2>1. n \in Nat /\ n <= Len(s) /\ n <= Len(t) /\ Len(s) \in Nat /\ Len(t) \in Nat
    BY <1>1
  <2>2. SameEdits(s, t, n)
    BY <1>1, <2>1 DEF SameEdits
  <2> QED
    BY <2>1, <2>2, ShapingsAgree
<1>3. Shaping(t)[m + 1] = Shaped(Shaping(t)[m], op)
  <2>1. m + 1 \in 1 .. Len(t) /\ m + 1 - 1 = m /\ Len(t) \in Nat
    BY <1>1
  <2>2. Shaping(t)[m + 1] = Shaped(Shaping(t)[m + 1 - 1], t[m + 1])
    BY <2>1, ShapingStep
  <2> QED
    BY <1>1, <2>1, <2>2
<1>4. View(t) = Shaping(t)[m + 1] /\ View(s) = Shaping(s)[m]
  BY <1>1, ShapingFolds DEF View
<1>5. View(t) = Shaped(View(s), op)
  <2>1. m \in 0 .. m
    BY <1>1
  <2> QED
    BY <1>2, <1>3, <1>4, <2>1
<1>6. ASSUME View(t) \in PlainView PROVE AllPlain(t)
  <2>1. \A n \in 0 .. Len(t) : n \in 0 .. m \/ n = m + 1
    BY <1>1
  <2>2. \A n \in 0 .. m : Shaping(t)[n] \in PlainView
    BY <1>2 DEF AllPlain
  <2> QED
    BY <1>1, <1>4, <1>6, <2>1, <2>2 DEF AllPlain
<1> QED
  BY <1>5, <1>6 DEF t

\* One less, as an undo leaves it.
LEMMA PlainShrinks ==
  ASSUME NEW s, AllPlain(s), s # <<>>
  PROVE  AllPlain(Front(s))
<1> DEFINE n == Len(s) - 1
           t == Front(s)
<1>1. s \in Seq(ShapeOps) /\ Len(s) \in Nat \ {0}
  BY OneLess DEF AllPlain
<1>2. n \in Nat /\ n <= Len(s) /\ \A i \in 1 .. n : i \in 1 .. Len(s)
  BY <1>1
<1>3. t \in Seq(ShapeOps) /\ Len(t) = n /\ \A i \in 1 .. n : t[i] = s[i]
  <2>1. /\ SubSeq(s, 1, n) \in Seq(ShapeOps) /\ Len(SubSeq(s, 1, n)) = n
        /\ \A i \in 1 .. n : SubSeq(s, 1, n)[i] = s[i]
    <3>1. \A i \in 1 .. n : s[i] \in ShapeOps
      BY <1>1, <1>2, ElementOfSeq
    <3> HIDE DEF n
    <3> QED
      BY <1>1, <1>2, <3>1
  <2>2. t = SubSeq(s, 1, n)
    BY DEF Front
  <2> QED
    BY <2>1, <2>2
<1> HIDE DEF t
<1>4. ASSUME NEW k \in 0 .. Len(t) PROVE Shaping(t)[k] \in PlainView
  <2>1. /\ k \in Nat /\ k <= Len(s) /\ k <= Len(t) /\ Len(s) \in Nat /\ Len(t) \in Nat
        /\ k \in 0 .. Len(s)
    BY <1>1, <1>2, <1>3
  <2>2. SameEdits(s, t, k)
    BY <1>3, <2>1 DEF SameEdits
  <2>3. Shaping(s)[k] = Shaping(t)[k]
    BY <2>1, <2>2, ShapingsAgree
  <2> QED
    BY <2>1, <2>3 DEF AllPlain
<1> QED
  BY <1>3, <1>4 DEF AllPlain, t

\* The ratio in force and the gesture under way.
AspectOK(a) == a = Free \/ IsRatio(a)
IsGrip(h) ==
  /\ h.part \in Handles \cup {"body"} /\ h.at \in Place /\ h.start \in FrameRect
  /\ h.bounds \in PageRect /\ AspectOK(h.aspect)

\* What the hand holds was taken from the photograph on screen.
GripIsTrue ==
  /\ IsGrip(grip) /\ grip.aspect = cropAspect
  /\ ~outdated => grip.bounds = Bounds(shapes) /\ InFrame(grip.start, grip.bounds)

CropInv ==
  /\ AllPlain(shapes)
  /\ AspectOK(cropAspect)
  /\ Cropping => cropRect \in FrameRect
  /\ FrameInsidePicture
  /\ ~Cropping => grip = NoGrip /\ ~outdated
  /\ grip # NoGrip => GripIsTrue

LEMMA FrameIsThere == ASSUME NEW r \in FrameRect PROVE r # NoFrame
BY DEF FrameRect, NoFrame, Nothing, Rect

\* clampRect leaves a frame inside the photograph, whatever it is given.
Numbers(e) == e.x \in Int /\ e.y \in Int /\ e.w \in Int /\ e.h \in Int /\ e.q \in Nat \ {0}

LEMMA ClampInside ==
  ASSUME NEW e, Numbers(e), NEW b \in PageRect
  PROVE  ClampRect(e, b) \in FrameRect /\ InFrame(ClampRect(e, b), b)
<1> DEFINE w == SideOf(e.w, e.q, b.w)
           h == SideOf(e.h, e.q, b.h)
           x == PlaceOf(e.x, e.q, b.w, w)
           y == PlaceOf(e.y, e.q, b.h, h)
<1>1. /\ e.x \in Int /\ e.y \in Int /\ e.w \in Int /\ e.h \in Int /\ e.q \in Nat \ {0}
      /\ b.w \in Nat \ {0} /\ b.h \in Nat \ {0}
  BY DEF Numbers, PageRect
<1>2. w \in 1 .. b.w /\ x \in Nat /\ x + w <= b.w
  BY <1>1, SideInside
<1>3. h \in 1 .. b.h /\ y \in Nat /\ y + h <= b.h
  BY <1>1, SideInside
<1>4. ClampRect(e, b) = Rect(x, y, w, h)
  BY ClampIsSides
<1> HIDE DEF w, h, x, y
<1> QED
  BY <1>1, <1>2, <1>3, <1>4 DEF FrameRect, InFrame, Rect

AnyRect == [x : Int, y : Int, w : Int, h : Int]

LEMMA AspectNumbers ==
  ASSUME NEW r \in AnyRect, NEW a, IsRatio(a), NEW i, NEW j
  PROVE  Numbers(ApplyAspect(r, a, i, j))
<1> DEFINE n == a.n
           d == a.d
           q == n * d
           w == r.w
           h == r.h
           x == r.x
           y == r.y
           flat == w * d <= h * n
           ew == IF flat THEN w * q ELSE h * n * n
           eh == IF flat THEN w * d * d ELSE h * q
           e == ApplyAspect(r, a, i, j)
<1>1. /\ n \in Nat \ {0} /\ d \in Nat \ {0}
      /\ w \in Int /\ h \in Int /\ x \in Int /\ y \in Int
  BY DEF IsRatio, AnyRect
<1>2. /\ e.q = q /\ e.w = ew /\ e.h = eh
      /\ e.x = IF i = x THEN x * q ELSE (x + w) * q - ew
      /\ e.y = IF j = y THEN y * q ELSE (y + h) * q - eh
  BY DEF ApplyAspect
<1> HIDE DEF n, d, w, h, x, y, e
<1>3. q \in Nat \ {0}
  BY <1>1, Z3
<1>4. /\ w * q \in Int /\ h * q \in Int /\ h * n * n \in Int /\ w * d * d \in Int
      /\ x * q \in Int /\ y * q \in Int /\ (x + w) * q \in Int /\ (y + h) * q \in Int
  BY <1>1
<1> HIDE DEF q
<1>5. ew \in Int /\ eh \in Int
  BY <1>4
<1> HIDE DEF ew, eh
<1> QED
  BY <1>2, <1>3, <1>4, <1>5 DEF Numbers, e

LEMMA DraggedNumbers ==
  ASSUME NEW h, IsGrip(h), NEW p \in Place
  PROVE  Numbers(Dragged(h, p))
<1>1. /\ h.start.x \in Int /\ h.start.y \in Int /\ h.start.w \in Int /\ h.start.h \in Int
      /\ p.x \in Int /\ p.y \in Int /\ h.at.x \in Int /\ h.at.y \in Int /\ MinSize \in Int
  BY CropAssumption DEF IsGrip, FrameRect, Place
<1>2. CASE h.part = "body"
  <2> DEFINE r == [h.start EXCEPT !.x = @ + p.x - h.at.x, !.y = @ + p.y - h.at.y]
  <2>1. h.start \in FrameRect
    BY DEF IsGrip
  <2>2. /\ r.x = h.start.x + p.x - h.at.x /\ r.y = h.start.y + p.y - h.at.y
        /\ r.w = h.start.w /\ r.h = h.start.h
    BY <2>1 DEF FrameRect
  <2>3. Dragged(h, p) = Exact(r)
    BY <1>2 DEF Dragged
  <2> HIDE DEF r
  <2> QED
    BY <1>1, <2>2, <2>3 DEF Exact, Numbers
<1>3. CASE h.part # "body"
  <2> DEFINE r == Pulled(h.start, h.part, p)
             i == IF h.part \in MovesLeft THEN -1 ELSE r.x
             j == IF h.part \in MovesTop THEN -1 ELSE r.y
  <2>1. r \in AnyRect
    BY <1>1 DEF Pulled, AnyRect, Rect, Least, Most
  <2>2. Dragged(h, p) = IF h.aspect = Free THEN Exact(r) ELSE ApplyAspect(r, h.aspect, i, j)
    BY <1>3 DEF Dragged, Resizing
  <2> HIDE DEF r, i, j
  <2>3. Numbers(Exact(r))
    BY <2>1 DEF Exact, Numbers, AnyRect
  <2>4. h.aspect # Free => Numbers(ApplyAspect(r, h.aspect, i, j))
    BY <2>1, AspectNumbers DEF IsGrip, AspectOK
  <2> QED
    BY <2>2, <2>3, <2>4
<1> QED
  BY <1>2, <1>3

-----------------------------------------------------------------------------
(* The frame, one action at a time.                                        *)

LEMMA CropInitInv == CropInit => CropInv
<1> SUFFICES ASSUME CropInit PROVE CropInv
  OBVIOUS
<1>1. /\ shapes = <<>> /\ cropRect = NoFrame /\ cropAspect = Free /\ grip = NoGrip
      /\ outdated = FALSE
  BY DEF CropInit
<1>2. AllPlain(<<>>)
  <2> DEFINE s == <<>>
  <2>1. s \in Seq(ShapeOps) /\ Len(s) = 0 /\ Len(s) \in Nat
    OBVIOUS
  <2> HIDE DEF s
  <2>2. Shaping(s)[0] = Whole(PhotoWidth, PhotoHeight)
    BY <2>1, ShapingStep
  <2>3. \A n \in 0 .. Len(s) : Shaping(s)[n] \in PlainView
    BY <2>1, <2>2, PlainWhole
  <2>4. AllPlain(s)
    BY <2>1, <2>3 DEF AllPlain
  <2> QED
    BY <2>4 DEF s
<1> QED
  BY <1>1, <1>2 DEF CropInv, AspectOK, Cropping, FrameInsidePicture

\* What a step that leaves the stack alone has to show.
LEMMA StackStands ==
  ASSUME CropInv, UNCHANGED shapes
  PROVE  AllPlain(shapes)' /\ Bounds(shapes)' = Bounds(shapes) /\ Bounds(shapes) \in PageRect
BY PageOf DEF CropInv, AllPlain, Bounds

LEMMA BeginStep == CropInv /\ BeginCrop => CropInv'
<1> SUFFICES ASSUME CropInv, BeginCrop PROVE CropInv'
  OBVIOUS
<1>1. /\ cropRect' = Bounds(shapes) /\ cropAspect' = Free /\ outdated' = FALSE
      /\ UNCHANGED <<shapes, grip>> /\ grip = NoGrip
  BY DEF BeginCrop, CropInv
<1>2. AllPlain(shapes)' /\ Bounds(shapes)' = Bounds(shapes) /\ Bounds(shapes) \in PageRect
  BY <1>1, StackStands
<1>3. cropRect' \in FrameRect /\ InFrame(cropRect, Bounds(shapes))'
  BY <1>1, <1>2 DEF PageRect, FrameRect, InFrame
<1>4. cropRect' # NoFrame
  BY <1>3, FrameIsThere
<1> QED
  BY <1>1, <1>2, <1>3, <1>4 DEF CropInv, AspectOK, Cropping, FrameInsidePicture

LEMMA GrabStep == CropInv /\ Grab => CropInv'
<1> SUFFICES ASSUME CropInv, Grab PROVE CropInv'
  OBVIOUS
<1>1. Cropping /\ grip = NoGrip /\ UNCHANGED <<shapes, cropRect, cropAspect, outdated>>
  BY DEF Grab
<1>2. PICK part \in Handles \cup {"body"}, at \in Place :
        grip' = [part |-> part, at |-> at, start |-> cropRect,
                 aspect |-> cropAspect, bounds |-> Bounds(shapes)]
  <2>1. Points \subseteq Place /\ Origin \in Place
    BY CropAssumption DEF Place, Origin
  <2> QED
    BY <2>1 DEF Grab
<1>3. AllPlain(shapes)' /\ Bounds(shapes)' = Bounds(shapes) /\ Bounds(shapes) \in PageRect
  BY <1>1, StackStands
<1>4. cropRect \in FrameRect /\ AspectOK(cropAspect)
  BY <1>1 DEF CropInv
<1>5. IsGrip(grip)' /\ grip'.aspect = cropAspect
  BY <1>2, <1>3, <1>4 DEF IsGrip, AspectOK
<1>6. ~outdated => grip'.bounds = Bounds(shapes) /\ InFrame(grip'.start, grip'.bounds)
  BY <1>1, <1>2 DEF CropInv, FrameInsidePicture
<1>7. GripIsTrue'
  BY <1>1, <1>3, <1>5, <1>6 DEF GripIsTrue, InFrame
<1> QED
  BY <1>1, <1>3, <1>7 DEF CropInv, AspectOK, Cropping, FrameInsidePicture, InFrame

LEMMA DragStep == CropInv /\ Drag => CropInv'
<1> SUFFICES ASSUME CropInv, Drag PROVE CropInv'
  OBVIOUS
<1>1. grip # NoGrip /\ UNCHANGED <<shapes, cropAspect, grip, outdated>>
  BY DEF Drag
<1>2. PICK p \in Place : cropRect' = ClampRect(Dragged(grip, p), grip.bounds)
  <2>1. Points \subseteq Place
    BY CropAssumption DEF Place
  <2> QED
    BY <2>1 DEF Drag
<1>3. AllPlain(shapes)' /\ Bounds(shapes)' = Bounds(shapes) /\ Bounds(shapes) \in PageRect
  BY <1>1, StackStands
<1>4. GripIsTrue /\ Cropping
  BY <1>1 DEF CropInv
<1>5. Numbers(Dragged(grip, p)) /\ grip.bounds \in PageRect
  BY <1>4, DraggedNumbers DEF GripIsTrue, IsGrip
<1>6. cropRect' \in FrameRect /\ InFrame(cropRect', grip.bounds)
  BY <1>2, <1>5, ClampInside
<1>7. cropRect' # NoFrame
  BY <1>6, FrameIsThere
<1>8. GripIsTrue'
  BY <1>1, <1>3, <1>4 DEF GripIsTrue, IsGrip, InFrame, AspectOK
<1>9. FrameInsidePicture'
  BY <1>1, <1>3, <1>4, <1>6 DEF FrameInsidePicture, GripIsTrue, InFrame
<1> QED
  BY <1>1, <1>3, <1>4, <1>6, <1>7, <1>8, <1>9 DEF CropInv, AspectOK, Cropping

LEMMA DropStep == CropInv /\ (Drop \/ ChooseFree) => CropInv'
<1> SUFFICES ASSUME CropInv, Drop \/ ChooseFree PROVE CropInv'
  OBVIOUS
<1>1. /\ UNCHANGED <<shapes, cropRect, outdated>> /\ grip' = NoGrip
      /\ cropAspect' \in {cropAspect, Free}
  BY DEF Drop, ChooseFree
<1>2. AllPlain(shapes)' /\ Bounds(shapes)' = Bounds(shapes)
  BY <1>1, StackStands
<1> QED
  BY <1>1, <1>2 DEF CropInv, AspectOK, Cropping, FrameInsidePicture, InFrame

LEMMA RatiosTurn ==
  ASSUME NEW ratio \in Ratios PROVE IsRatio(Turned(ratio)) /\ Turned(ratio) # Free
BY CropAssumption DEF Turned, IsRatio, Free

LEMMA ChooseStep == CropInv /\ ChooseRatio => CropInv'
<1> SUFFICES ASSUME CropInv, ChooseRatio PROVE CropInv'
  OBVIOUS
<1>1. Cropping /\ grip = NoGrip /\ UNCHANGED <<shapes, grip, outdated>>
  BY DEF ChooseRatio
<1>2. PICK ratio \in Ratios :
        /\ cropAspect' = Turned(ratio)
        /\ cropRect' = ClampRect(ApplyAspect(cropRect, Turned(ratio), cropRect.x, cropRect.y),
                                 Bounds(shapes))
  BY DEF ChooseRatio
<1>3. AllPlain(shapes)' /\ Bounds(shapes)' = Bounds(shapes) /\ Bounds(shapes) \in PageRect
  BY <1>1, StackStands
<1>4. IsRatio(Turned(ratio)) /\ cropRect \in AnyRect
  BY <1>1, RatiosTurn DEF CropInv, AnyRect, FrameRect
<1>5. Numbers(ApplyAspect(cropRect, Turned(ratio), cropRect.x, cropRect.y))
  BY <1>4, AspectNumbers
<1>6. cropRect' \in FrameRect /\ InFrame(cropRect', Bounds(shapes))
  BY <1>2, <1>3, <1>5, ClampInside
<1>7. cropRect' # NoFrame
  BY <1>6, FrameIsThere
<1>8. AspectOK(cropAspect)'
  BY <1>2, <1>4 DEF AspectOK
<1>9. FrameInsidePicture'
  BY <1>3, <1>6 DEF FrameInsidePicture, InFrame
<1> QED
  BY <1>1, <1>3, <1>6, <1>7, <1>8, <1>9 DEF CropInv, Cropping

\* What closes the frame leaves only the stack to be looked at.
LEMMA ClosedStep ==
  ASSUME CropInv, Closed, AllPlain(shapes)' PROVE CropInv'
BY DEF Closed, CropInv, AspectOK, Cropping, FrameInsidePicture

LEMMA CancelStep == CropInv /\ CancelCrop => CropInv'
<1> SUFFICES ASSUME CropInv, CancelCrop PROVE CropInv'
  OBVIOUS
<1>1. Closed /\ AllPlain(shapes)'
  BY StackStands DEF CancelCrop
<1> QED
  BY <1>1, ClosedStep

\* What a confirmed frame leaves is not empty.
LEMMA Framed ==
  ASSUME NEW s, AllPlain(s), NEW r \in FrameRect, NEW op,
         op = [kind |-> "crop", rect |-> r], ~Empties(Append(s, op))
  PROVE  AllPlain(Append(s, op))
<1>1. op \in ShapeOps /\ r \in RectType /\ op.kind = "crop" /\ op.rect = r
  BY DEF ShapeOps, FrameRect, RectType
<1>2. View(s) \in PlainView
  BY PageOf
<1>3. View(Append(s, op)) = Shaped(View(s), op)
  BY <1>1, PlainGrows
<1>4. ~IsEmpty(Shaped(View(s), op).frame)
  BY <1>3 DEF Empties, View
<1>5. Shaped(View(s), op) \in PlainView
  BY <1>1, <1>2, <1>4, PlainCropped
<1> QED
  BY <1>1, <1>3, <1>5, PlainGrows

LEMMA ConfirmStep == CropInv /\ ConfirmCrop => CropInv'
<1> SUFFICES ASSUME CropInv, ConfirmCrop PROVE CropInv'
  OBVIOUS
<1> DEFINE op == [kind |-> "crop", rect |-> cropRect]
<1>1. Cropping /\ Closed /\ AllPlain(shapes) /\ cropRect \in FrameRect
  BY DEF ConfirmCrop, CropInv
<1>2. shapes' = shapes \/ (shapes' = Append(shapes, op) /\ ~Empties(Append(shapes, op)))
  BY DEF ConfirmCrop
<1>3. AllPlain(shapes')
  BY <1>1, <1>2, Framed
<1> HIDE DEF op
<1> QED
  BY <1>1, <1>3, ClosedStep DEF AllPlain

LEMMA RotateStep == CropInv /\ RotateShape => CropInv'
<1> SUFFICES ASSUME CropInv, RotateShape PROVE CropInv'
  OBVIOUS
<1> DEFINE op == [kind |-> "rotate", quarters |-> 1]
<1>1. /\ shapes' = Append(shapes, op) /\ outdated' = Cropping
      /\ UNCHANGED <<cropRect, cropAspect, grip>> /\ AllPlain(shapes)
  BY DEF RotateShape, CropInv
<1>2. op \in ShapeOps /\ op.kind = "rotate" /\ op.quarters = 1
  BY DEF ShapeOps
<1> HIDE DEF op
<1>3. View(shapes) \in PlainView
  BY <1>1, PageOf
<1>4. Shaped(View(shapes), op) \in PlainView
  BY <1>2, <1>3, PlainTurned
<1>5. AllPlain(shapes')
  BY <1>1, <1>2, <1>4, PlainGrows
<1> QED
  BY <1>1, <1>5
  DEF CropInv, AllPlain, AspectOK, Cropping, FrameInsidePicture, GripIsTrue, IsGrip

LEMMA UndoShapeStep == CropInv /\ UndoShape => CropInv'
<1> SUFFICES ASSUME CropInv, UndoShape PROVE CropInv'
  OBVIOUS
<1>1. /\ shapes' = Front(shapes) /\ outdated' = Cropping /\ shapes # <<>>
      /\ UNCHANGED <<cropRect, cropAspect, grip>> /\ AllPlain(shapes)
  BY DEF UndoShape, CropInv
<1>2. AllPlain(shapes')
  BY <1>1, PlainShrinks
<1> QED
  BY <1>1, <1>2
  DEF CropInv, AllPlain, AspectOK, Cropping, FrameInsidePicture, GripIsTrue, IsGrip

LEMMA CropStepInv == CropInv /\ [CropNext]_cropVars => CropInv'
<1>1. CropInv /\ UNCHANGED cropVars => CropInv'
  <2> SUFFICES ASSUME CropInv, UNCHANGED cropVars PROVE CropInv'
    OBVIOUS
  <2>1. UNCHANGED <<shapes, cropRect, cropAspect, grip, outdated>>
    BY DEF cropVars
  <2>2. AllPlain(shapes)' /\ Bounds(shapes)' = Bounds(shapes)
    BY <2>1, StackStands
  <2> QED
    BY <2>1, <2>2
    DEF CropInv, AspectOK, Cropping, FrameInsidePicture, InFrame, GripIsTrue, IsGrip
<1> QED
  BY <1>1, BeginStep, GrabStep, DragStep, DropStep, ChooseStep, CancelStep, ConfirmStep,
     RotateStep, UndoShapeStep DEF CropNext

-----------------------------------------------------------------------------
(* The frame does what the hand says.                                      *)

\* A frame pulled by a handle keeps the edges the handle does not hold.
PulledFrom(r, s, part) ==
  /\ IF part \in MovesLeft THEN r.x + r.w = s.x + s.w ELSE r.x = s.x
  /\ IF part \in MovesTop THEN r.y + r.h = s.y + s.h ELSE r.y = s.y

LEMMA PulledInside ==
  ASSUME NEW s \in FrameRect, NEW b \in PageRect, InFrame(s, b), s.w >= MinSize, s.h >= MinSize,
         NEW p, p.x \in 0 .. b.w, p.y \in 0 .. b.h, NEW part \in Handles
  PROVE  LET r == Pulled(s, part, p)
         IN  r \in FrameRect /\ InFrame(r, b) /\ PulledFrom(r, s, part)
<1> DEFINE left   == IF part \in MovesLeft THEN Least(p.x, s.x + s.w - MinSize) ELSE s.x
           right  == IF part \in MovesRight THEN Most(p.x, s.x + MinSize) ELSE s.x + s.w
           top    == IF part \in MovesTop THEN Least(p.y, s.y + s.h - MinSize) ELSE s.y
           bottom == IF part \in MovesBottom THEN Most(p.y, s.y + MinSize) ELSE s.y + s.h
<1>1. /\ s.x \in Nat /\ s.y \in Nat /\ s.w \in Nat /\ s.h \in Nat /\ b.w \in Nat /\ b.h \in Nat
      /\ s.x + s.w <= b.w /\ s.y + s.h <= b.h /\ MinSize \in Nat \ {0}
      /\ p.x \in Nat /\ p.x <= b.w /\ p.y \in Nat /\ p.y <= b.h
  BY CropAssumption DEF FrameRect, PageRect, InFrame
<1>2. ~(part \in MovesLeft /\ part \in MovesRight) /\ ~(part \in MovesTop /\ part \in MovesBottom)
  BY DEF Handles, MovesLeft, MovesRight, MovesTop, MovesBottom
<1>3. /\ left \in Nat /\ right \in Nat /\ left < right /\ right <= b.w
      /\ IF part \in MovesLeft THEN right = s.x + s.w ELSE left = s.x
  BY <1>1, <1>2 DEF Least, Most
<1>4. /\ top \in Nat /\ bottom \in Nat /\ top < bottom /\ bottom <= b.h
      /\ IF part \in MovesTop THEN bottom = s.y + s.h ELSE top = s.y
  BY <1>1, <1>2 DEF Least, Most
<1>5. Pulled(s, part, p) = Rect(left, top, right - left, bottom - top)
  BY DEF Pulled
<1> HIDE DEF left, right, top, bottom
<1>6. /\ left + (right - left) = right /\ right - left \in Nat \ {0}
      /\ top + (bottom - top) = bottom /\ bottom - top \in Nat \ {0}
  BY <1>3, <1>4
<1> QED
  BY <1>1, <1>3, <1>4, <1>5, <1>6 DEF FrameRect, InFrame, PulledFrom, Rect

\* An exact frame inside the page is not moved by the clamp.
LEMMA ExactStays ==
  ASSUME NEW r \in FrameRect, NEW b \in PageRect, InFrame(r, b)
  PROVE  ClampRect(Exact(r), b) = r
<1> DEFINE e == Exact(r)
<1>1. e.x = r.x /\ e.y = r.y /\ e.w = r.w /\ e.h = r.h /\ e.q = 1
  BY DEF Exact
<1>2. /\ r.x \in Nat /\ r.y \in Nat /\ r.w \in Nat \ {0} /\ r.h \in Nat \ {0}
      /\ b.w \in Nat /\ b.h \in Nat /\ r.x + r.w <= b.w /\ r.y + r.h <= b.h
      /\ r = Rect(r.x, r.y, r.w, r.h)
  BY DEF FrameRect, PageRect, InFrame, Rect
<1>3. \A n \in Int : RoundUp(n, 1) = n
  BY RoundWhole
<1> HIDE DEF e
<1>4. SideOf(r.w, 1, b.w) = r.w /\ SideOf(r.h, 1, b.h) = r.h
  BY <1>2, <1>3 DEF SideOf, Least, Most
<1>5. PlaceOf(r.x, 1, b.w, r.w) = r.x /\ PlaceOf(r.y, 1, b.h, r.h) = r.y
  BY <1>2, <1>3 DEF PlaceOf, Least, Most
<1>6. ClampRect(e, b) = Rect(r.x, r.y, r.w, r.h)
  BY <1>1, <1>4, <1>5, ClampIsSides
<1> QED
  BY <1>2, <1>6 DEF e

\* What a pull leaves: the edges that stay, and the ratio.
Obeys(c, h) ==
  /\ h.part \notin MovesLeft => c.x = h.start.x
  /\ h.part \notin MovesTop => c.y = h.start.y
  /\ h.part \in MovesLeft => Abs((c.x + c.w) - (h.start.x + h.start.w)) <= 1
  /\ h.part \in MovesTop => Abs((c.y + c.h) - (h.start.y + h.start.h)) <= 1
  /\ h.aspect # Free => 2 * Abs(c.w * h.aspect.d - c.h * h.aspect.n) <= h.aspect.n + h.aspect.d

LEMMA PullObeys ==
  ASSUME CropInv, NEW p, PulledTo(p)
  PROVE  Obeys(cropRect', grip)
<1> DEFINE s == grip.start
           b == grip.bounds
           part == grip.part
           a == grip.aspect
           r == Pulled(s, part, p)
           c == ClampRect(Dragged(grip, p), b)
           i == IF part \in MovesLeft THEN -1 ELSE r.x
           j == IF part \in MovesTop THEN -1 ELSE r.y
<1>1. /\ s \in FrameRect /\ b \in PageRect /\ InFrame(s, b) /\ part \in Handles
      /\ s.w >= MinSize /\ s.h >= MinSize /\ p.x \in 0 .. b.w /\ p.y \in 0 .. b.h
      /\ AspectOK(a) /\ cropRect' = c
  BY DEF CropInv, GripIsTrue, IsGrip, PulledTo
<1>2. r \in FrameRect /\ InFrame(r, b) /\ PulledFrom(r, s, part)
  <2> HIDE DEF s, b, part
  <2> QED
    BY <1>1, PulledInside
<1>3. Dragged(grip, p) = IF a = Free THEN Exact(r) ELSE ApplyAspect(r, a, i, j)
  BY <1>1 DEF Dragged, Resizing, Handles
<1>4. /\ s.x \in Nat /\ s.y \in Nat /\ s.w \in Nat /\ s.h \in Nat
      /\ r.x \in Nat /\ r.y \in Nat /\ r.w \in Nat /\ r.h \in Nat
      /\ b.w \in Nat \ {0} /\ b.h \in Nat \ {0}
  <2> HIDE DEF s, b, part, r
  <2> QED
    BY <1>1, <1>2 DEF FrameRect, PageRect
<1> HIDE DEF r, s, b, part, a
<1>5. CASE a = Free
  <2>1. c = r
    BY <1>1, <1>2, <1>3, <1>5, ExactStays
  <2> HIDE DEF c
  <2>2. /\ part \notin MovesLeft => c.x = s.x
        /\ part \notin MovesTop => c.y = s.y
        /\ part \in MovesLeft => Abs((c.x + c.w) - (s.x + s.w)) <= 1
        /\ part \in MovesTop => Abs((c.y + c.h) - (s.y + s.h)) <= 1
    BY <1>2, <1>4, <2>1 DEF PulledFrom, Abs
  <2> QED
    BY <1>1, <1>5, <2>2 DEF Obeys, s, b, part, a
<1>6. CASE a # Free
  <2>1. IsRatio(a) /\ c = ClampRect(ApplyAspect(r, a, i, j), b)
    BY <1>1, <1>3, <1>6 DEF AspectOK
  <2> HIDE DEF c
  <2>2. i = (IF part \in MovesLeft THEN -1 ELSE r.x) /\ j = (IF part \in MovesTop THEN -1 ELSE r.y)
    OBVIOUS
  <2> HIDE DEF i, j
  <2>3. /\ IF i = r.x THEN c.x = r.x ELSE Abs((c.x + c.w) - (r.x + r.w)) <= 1
        /\ IF j = r.y THEN c.y = r.y ELSE Abs((c.y + c.h) - (r.y + r.h)) <= 1
        /\ 2 * Abs(c.w * a.d - c.h * a.n) <= a.n + a.d
    BY <1>2, <1>4, <2>1, AspectKept
  <2>4. /\ part \notin MovesLeft => c.x = s.x
        /\ part \in MovesLeft => Abs((c.x + c.w) - (s.x + s.w)) <= 1
    BY <1>2, <1>4, <2>2, <2>3 DEF PulledFrom
  <2>5. /\ part \notin MovesTop => c.y = s.y
        /\ part \in MovesTop => Abs((c.y + c.h) - (s.y + s.h)) <= 1
    BY <1>2, <1>4, <2>2, <2>3 DEF PulledFrom
  <2> QED
    BY <1>1, <2>3, <2>4, <2>5 DEF Obeys, s, b, part, a
<1> QED
  BY <1>5, <1>6

LEMMA CornerStays == ASSUME CropInv PROVE OppositeCornerStays
<1> SUFFICES ASSUME NEW p \in Points, PulledTo(p) PROVE Obeys(cropRect', grip)
  BY DEF OppositeCornerStays, Obeys
<1> QED
  BY PullObeys

\* Only the steps that close the frame forget the ratio of a gesture.
LEMMA RatioStays ==
  ASSUME CropInv, [CropNext]_cropVars, grip # NoGrip, cropAspect' # Free
  PROVE  cropAspect' = grip.aspect
<1>1. grip.aspect = cropAspect
  BY DEF CropInv, GripIsTrue
<1>2. cropAspect' = cropAspect
  BY DEF CropNext, CropInv, cropVars, BeginCrop, Grab, Drag, Drop, ChooseRatio, ChooseFree, CancelCrop, ConfirmCrop,
         Closed, RotateShape, UndoShape
<1> QED
  BY <1>1, <1>2

\* Choosing a ratio is the only step that leaves another frame and a ratio behind.
LEMMA OnlyTheChoice ==
  ASSUME CropInv, [CropNext]_cropVars, grip = NoGrip, cropRect' # cropRect, cropAspect' # Free
  PROVE  ChooseRatio
BY DEF CropNext, cropVars, BeginCrop, Grab, Drag, Drop, ChooseFree, CancelCrop, ConfirmCrop,
       Closed, RotateShape, UndoShape

LEMMA RatioHonoured == ASSUME CropInv, [CropNext]_cropVars PROVE LockedRatioHonoured
<1> SUFFICES ASSUME cropRect' # cropRect, cropAspect' # Free,
                    Chosen \/ \E p \in Points : PulledTo(p)
             PROVE  2 * Abs(cropRect'.w * cropAspect'.d - cropRect'.h * cropAspect'.n)
                      <= cropAspect'.n + cropAspect'.d
  BY DEF LockedRatioHonoured
<1>1. CASE \E p \in Points : PulledTo(p)
  <2>1. PICK p \in Points : PulledTo(p)
    BY <1>1
  <2>2. Obeys(cropRect', grip) /\ grip # NoGrip
    BY <2>1, PullObeys DEF PulledTo
  <2>3. cropAspect' = grip.aspect
    BY <2>2, RatioStays
  <2> QED
    BY <2>2, <2>3 DEF Obeys
<1>2. CASE Chosen
  <2>1. ChooseRatio /\ ~outdated
    BY <1>2, OnlyTheChoice DEF Chosen
  <2>2. PICK ratio \in Ratios :
          /\ cropAspect' = Turned(ratio)
          /\ cropRect' = ClampRect(ApplyAspect(cropRect, Turned(ratio), cropRect.x, cropRect.y),
                                   Bounds(shapes))
    BY <2>1 DEF ChooseRatio
  <2> DEFINE a == Turned(ratio)
             b == Bounds(shapes)
  <2>3. IsRatio(a)
    BY RatiosTurn
  <2>4. b \in PageRect /\ cropRect \in FrameRect /\ InFrame(cropRect, b)
    BY <2>1, PageOf DEF CropInv, ChooseRatio, FrameInsidePicture
  <2>5. b.w \in Nat \ {0} /\ b.h \in Nat \ {0}
    BY <2>4 DEF PageRect
  <2>6. cropAspect' = a /\ cropRect' = ClampRect(ApplyAspect(cropRect, a, cropRect.x, cropRect.y), b)
    BY <2>2
  <2> HIDE DEF a, b
  <2> QED
    BY <2>3, <2>4, <2>5, <2>6, AspectKept
<1> QED
  BY <1>1, <1>2

\* Only a confirmation closes the frame and changes the stack.
LEMMA OnlyTheConfirmed ==
  ASSUME CropInv, [CropNext]_cropVars, Cropping, cropRect' = NoFrame, shapes' # shapes
  PROVE  ConfirmCrop
<1>1. ~BeginCrop /\ ~Grab /\ ~Drag /\ ~Drop /\ ~ChooseRatio /\ ~ChooseFree /\ ~CancelCrop
      /\ ~UNCHANGED cropVars
  BY DEF BeginCrop, Grab, Drag, Drop, ChooseRatio, ChooseFree, CancelCrop, cropVars
<1>2. ~RotateShape /\ ~UndoShape
  BY DEF RotateShape, UndoShape, Cropping
<1> QED
  BY <1>1, <1>2 DEF CropNext

LEMMA FramedIsTrue == ASSUME CropInv, [CropNext]_cropVars PROVE FramedIsKept
<1> SUFFICES ASSUME Cropping, cropRect' = NoFrame, shapes' # shapes, ~outdated
             PROVE  LET left == Bounds(shapes')
                    IN  /\ <<left.w, left.h>> = <<cropRect.w, cropRect.h>>
                        /\ left # Bounds(shapes)
  BY DEF FramedIsKept
<1> DEFINE op == [kind |-> "crop", rect |-> cropRect]
           g == View(shapes)
           c == View(shapes')
           left == Bounds(shapes')
<1>1. ConfirmCrop
  BY OnlyTheConfirmed
<1>2. shapes' = Append(shapes, op) /\ cropRect # Bounds(shapes)
  BY <1>1 DEF ConfirmCrop
<1>3. /\ AllPlain(shapes) /\ cropRect \in FrameRect /\ InFrame(cropRect, Bounds(shapes))
  BY DEF CropInv, FrameInsidePicture
<1>4. op \in ShapeOps /\ op.kind = "crop" /\ op.rect = cropRect
  BY <1>3 DEF ShapeOps
<1> HIDE DEF op
<1>5. g \in PlainView /\ Bounds(shapes) = Rendered(g) /\ Bounds(shapes) \in PageRect
  BY <1>3, PageOf
<1>6. c = Shaped(g, op)
  BY <1>2, <1>3, <1>4, PlainGrows
<1>7. OutputWidth(c) = cropRect.w /\ OutputHeight(c) = cropRect.h
  BY <1>3, <1>4, <1>5, <1>6, CropIsTheSize
<1>8. left = Rect(0, 0, cropRect.w, cropRect.h)
  BY <1>7 DEF Bounds, Rendered, View
<1>9. left # Bounds(shapes)
  <2> SUFFICES ASSUME left = Bounds(shapes) PROVE FALSE
    OBVIOUS
  <2> DEFINE b == Bounds(shapes)
  <2>1. b = Rect(0, 0, cropRect.w, cropRect.h) /\ InFrame(cropRect, b) /\ b # cropRect
    BY <1>2, <1>3, <1>8
  <2> HIDE DEF b
  <2>2. b.w = cropRect.w /\ b.h = cropRect.h
    BY <2>1 DEF Rect
  <2>3. cropRect.x = 0 /\ cropRect.y = 0
    BY <1>3, <2>1, <2>2 DEF InFrame, FrameRect
  <2>4. cropRect = Rect(0, 0, cropRect.w, cropRect.h)
    BY <1>3, <2>3 DEF FrameRect, Rect
  <2> QED
    BY <2>1, <2>4
<1> QED
  BY <1>8, <1>9 DEF Rect

\* The corner opposite the handle stays where it was, a locked ratio holds to the
\* rounding of its sides, and the photograph comes out of a confirmed crop at the
\* size of its frame, whatever the ratios, the turns and the drags before it.
\* (CropOverlay.tsx, applyAspect, clampRect, confirmCrop)
THEOREM FrameIsTheHands == ToolsSpec => FrameObeysTheHand
<1>1. ToolsInit => CropInv
  BY CropInitInv DEF ToolsInit
<1>2. [ToolsNext]_toolsVars => [CropNext]_cropVars
  BY DEF ToolsNext, toolsVars, CurveStep, CropStep, BrushStep, ResizeStep, RawStep, LayerStep,
         ShelfStep, EnhanceStep, ExportStep, RowsStep
<1>3. CropInv /\ [ToolsNext]_toolsVars => CropInv'
  BY <1>2, CropStepInv
<1>4. CropInv /\ [ToolsNext]_toolsVars
        => [OppositeCornerStays /\ LockedRatioHonoured /\ FramedIsKept]_cropVars
  BY <1>2, CornerStays, RatioHonoured, FramedIsTrue
<1> QED
  BY <1>1, <1>3, <1>4, PTL DEF ToolsSpec, FrameObeysTheHand

\* The frame lies inside the photograph, no size is asked for that the engine
\* would change, and a fill has its image, whatever is dragged, typed or picked.
\* (clampRect, ResizePanel.tsx, MattePanel.tsx)
THEOREM ToolsMakeSense == ToolsSpec => [](FrameInsidePicture /\ AsksAreLegal /\ LayerMakesSense)
<1> DEFINE Inv == CropInv /\ PanelsInv
<1>1. ToolsInit => Inv
  BY CropInitInv, PanelsInit DEF ToolsInit
<1>2. Inv /\ [ToolsNext]_toolsVars => Inv'
  <2>1. [ToolsNext]_toolsVars => [CropNext]_cropVars
    BY DEF ToolsNext, toolsVars, CurveStep, CropStep, BrushStep, ResizeStep, RawStep, LayerStep,
           ShelfStep, EnhanceStep, ExportStep, RowsStep
  <2> QED
    BY <2>1, CropStepInv, PanelsStep
<1>3. Inv => FrameInsidePicture /\ AsksAreLegal /\ LayerMakesSense
  BY FieldsKept, LayerKept DEF CropInv, PanelsInv
<1> HIDE DEF Inv
<1> QED
  BY <1>1, <1>2, <1>3, PTL DEF ToolsSpec

=============================================================================
