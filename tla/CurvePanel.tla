------------------------------- MODULE CurvePanel -------------------------------
(***************************************************************************)
(* The point curve of the adjustments panel: what lib/curves.ts does to a  *)
(* list of points, and the pointer gestures of CurvePanel.tsx that call    *)
(* it, over the stack of edits they leave behind.                          *)
(*                                                                         *)
(* The unit square is a grid of Side steps; no two points may be nearer    *)
(* than Spacing, and a press within a squared distance of Reach takes a    *)
(* point instead of making one.  One channel stands for the four.          *)
(*                                                                         *)
(* A move is shown at once, as pendingAdjustments, and asked of the engine, *)
(* which changes its stack in the order it is asked.  Any answer, of this   *)
(* edit or of one before it, of an undo or a redo, takes the pending move   *)
(* off and shows the stack as it was then (adoptHistory).                  *)
(*                                                                         *)
(* Abstracted: the spline between the points, and requests that fail: the  *)
(* engine refuses no curve of a layer that is there.                       *)
(***************************************************************************)
EXTENDS Integers, Sequences, SequencesExt

CONSTANTS
  Side,       \* steps of the grid
  Spacing,    \* MIN_CURVE_SPACING
  MaxPoints,  \* MAX_CURVE_POINTS
  Reach,      \* REACH, squared
  Heights,    \* bound: tones a pointer may be at
  MaxPresses, \* bound: gestures
  MaxReturning \* bound: answers on their way

ASSUME CurveAssumption ==
  /\ Side \in Nat /\ Spacing \in 1 .. Side /\ Heights \subseteq 0 .. Side
  /\ MaxPoints \in Nat /\ MaxPoints > 2

VARIABLES
  steps,    \* the curve of each edit of the engine's stack
  cursor,   \* how many of them are done
  confirmed, \* the curve of the history the store has adopted
  pending,  \* pendingAdjustments: the curve shown instead, in a tuple, or <<>>
  returning, \* answers on their way, as the curve each was made with
  held,     \* held.current: the point under the hand, counted from 1
  dragged,  \* dragged.current
  pointer,  \* where the pointer was last seen
  clicked,  \* it took a point there and has not moved
  mine,     \* history: the edit this gesture made, 0 for none
  meddled,  \* history: an undo or a redo was asked for during this gesture
  taken,    \* history: the curve this gesture began with
  late,     \* history: answers on their way since before this gesture
  crossed,  \* history: one of those came during this gesture
  presses   \* gestures so far

storeOfCurve == <<confirmed, pending, returning>>
gestureVars == <<mine, meddled, taken, late, crossed>>
curveVars == <<steps, cursor, storeOfCurve, held, dragged, pointer, clicked, gestureVars, presses>>

Empty == 0     \* nothing in the hand
Nowhere == -1  \* nearestPoint found none

Black == [x |-> 0, y |-> 0]
White == [x |-> Side, y |-> Side]
Positions == [x : 0 .. Side, y : Heights]

-----------------------------------------------------------------------------
(* lib/curves.ts                                                           *)

Gap(a, b) == IF a < b THEN b - a ELSE a - b

Clip(n, lower, upper) == Min({Max({n, lower}), upper})

Clamped(curve) ==
  [i \in DOMAIN curve |-> [x |-> Clip(curve[i].x, 0, Side), y |-> curve[i].y]]

\* Array.prototype.sort is stable.
Order(curve) ==
  SetToSortSeq(DOMAIN curve, LAMBDA i, j :
    curve[i].x < curve[j].x \/ (curve[i].x = curve[j].x /\ i < j))

InOrderOf(curve, order) == [i \in DOMAIN curve |-> curve[order[i]]]

ByTone(curve) == InOrderOf(curve, Order(curve))

Thinned(curve) ==
  FoldLeft(LAMBDA kept, p :
             IF Len(kept) = MaxPoints - 2 \/ (kept # <<>> /\ p.x - Last(kept).x < Spacing)
             THEN kept ELSE Append(kept, p),
           <<>>, curve)

WithEnds(curve) ==
  IF curve = <<>> THEN curve
  ELSE (IF Head(curve).x > 0 THEN <<Black>> ELSE <<>>)
       \o curve
       \o (IF Last(curve).x < Side THEN <<White>> ELSE <<>>)

\* Inside the square, by tone, thinned. Two of the points are held back for the
\* ends, which are counted all the same.
Sanitise(curve) == WithEnds(Thinned(ByTone(Clamped(curve))))

IsIdentity(curve) == \A i \in DOMAIN curve : curve[i].x = curve[i].y

(* The operations on a curve in order; addPoint and the others order it first. *)

\* The first point of that tone is replaced; a curve that has them all takes no
\* more.
Placed(clean, p) ==
  LET existing == {i \in DOMAIN clean : Gap(clean[i].x, p.x) < Spacing}
  IN  IF existing # {} THEN [clean EXCEPT ![Min(existing)] = p]
      ELSE IF Len(clean) >= MaxPoints THEN clean
      ELSE Sanitise(Append(clean, p))

AddPoint(curve, p) == Placed(Sanitise(curve), p)

\* Broken variant: nothing stops a point at its neighbours.
ShiftedThrough(clean, i, p) ==
  IF i \notin DOMAIN clean THEN clean
  ELSE [clean EXCEPT ![i] = [x |-> IF i = 1 THEN 0 ELSE IF i = Len(clean) THEN Side ELSE p.x,
                             y |-> p.y]]

\* Not through its neighbours. The ends stay on their own edge, unless their
\* neighbour is nearer to it than the spacing: then they are put past it.
Shifted(clean, i, p) ==
  LET lower  == IF i = 1 THEN 0 ELSE clean[i - 1].x + Spacing
      upper  == IF i = Len(clean) THEN Side ELSE clean[i + 1].x - Spacing
      pinned == IF i = 1 THEN 0 ELSE IF i = Len(clean) THEN Side ELSE p.x
  IN  IF i \notin DOMAIN clean THEN clean
      ELSE [clean EXCEPT ![i] = [x |-> Clip(pinned, lower, Max({lower, upper})), y |-> p.y]]

MovePoint(curve, i, p) == Shifted(Sanitise(curve), i, p)

Without(clean, i) ==
  IF i <= 1 \/ i >= Len(clean) THEN clean
  ELSE IF IsIdentity(RemoveAt(clean, i)) THEN <<>> ELSE RemoveAt(clean, i)

RemovePoint(curve, i) == Without(Sanitise(curve), i)

\* The last of the nearest, if it is near enough.
Nearest(clean, p) ==
  LET Apart(i) == (clean[i].x - p.x) * (clean[i].x - p.x) + (clean[i].y - p.y) * (clean[i].y - p.y)
      near  == {i \in DOMAIN clean : Apart(i) <= Reach}
  IN  IF near = {} THEN Nowhere
      ELSE Max({i \in near : \A j \in near : Apart(i) <= Apart(j)})

NearestPoint(curve, p) == Nearest(Sanitise(curve), p)

-----------------------------------------------------------------------------
(* CurvePanel.tsx                                                          *)

CurveAt(stack, n) == IF n = 0 THEN <<>> ELSE stack[n]
Curve == CurveAt(steps, cursor)

\* currentAdjustments.
CurveShown == IF pending = <<>> THEN confirmed ELSE Head(pending)

\* An untouched curve is shown as the two points it would have.
ShapeOf(curve) == IF curve = <<>> THEN <<Black, White>> ELSE curve
Shape == ShapeOf(CurveShown)

CurveInit ==
  /\ steps = <<>> /\ cursor = 0
  /\ confirmed = <<>> /\ pending = <<>> /\ returning = <<>>
  /\ held = Empty /\ dragged = FALSE /\ pointer = Black /\ clicked = FALSE
  /\ mine = 0 /\ meddled = FALSE /\ taken = <<>> /\ late = 0 /\ crossed = FALSE
  /\ presses = 0

\* The engine is asked for a stack and a place in it, and answers with its curve.
Ordered(stack, n) ==
  /\ Len(returning) < MaxReturning
  /\ steps' = stack /\ cursor' = n
  /\ returning' = Append(returning, CurveAt(stack, n))

\* setCurve and commitAdjustments up to its await, and the engine, which puts the
\* curve in order on the way in: an edit that continues a gesture replaces the one
\* before it.
Commit(next, continuing) ==
  LET kept == IF continuing /\ cursor > 0 THEN cursor - 1 ELSE cursor
  IN  /\ Ordered(Append(SubSeq(steps, 1, kept), Sanitise(next)), kept + 1)
      /\ pending' = <<next>> /\ confirmed' = confirmed

\* adoptHistory, of whichever answer is next.
CurveAnswered ==
  /\ returning # <<>>
  /\ confirmed' = Head(returning) /\ returning' = Tail(returning)
  /\ pending' = <<>>
  /\ crossed' = (crossed \/ late > 0) /\ late' = Max({late - 1, 0})
  /\ UNCHANGED <<steps, cursor, held, dragged, pointer, clicked, mine, meddled, taken, presses>>

PressOnPoint ==
  /\ held = Empty /\ presses < MaxPresses
  /\ \E at \in Positions :
       /\ NearestPoint(Shape, at) # Nowhere
       /\ held' = NearestPoint(Shape, at) /\ pointer' = at
  /\ clicked' = TRUE /\ presses' = presses + 1
  /\ taken' = Shape /\ late' = Len(returning)
  /\ UNCHANGED <<steps, cursor, storeOfCurve, dragged, mine, meddled, crossed>>

PressOnNothing ==
  /\ held = Empty /\ presses < MaxPresses
  /\ \E at \in Positions : \E next \in {AddPoint(Shape, at)} :
       /\ NearestPoint(Shape, at) = Nowhere
       /\ held' = NearestPoint(next, at) /\ pointer' = at
       /\ Commit(next, FALSE)
       /\ taken' = next
  /\ dragged' = TRUE /\ clicked' = FALSE /\ presses' = presses + 1
  /\ mine' = cursor' /\ late' = Len(returning)
  /\ UNCHANGED <<meddled, crossed>>

\* The first change of a drag opens an edit and every one after replaces it. The
\* point is the one of that number on the curve shown by then.
Move ==
  /\ held # Empty
  /\ \E at \in Positions :
       /\ at # pointer /\ pointer' = at
       /\ Commit(MovePoint(Shape, held, at), dragged)
  /\ dragged' = TRUE /\ clicked' = FALSE
  /\ mine' = cursor'
  /\ UNCHANGED <<held, meddled, taken, late, crossed, presses>>

HandOff ==
  /\ held # Empty /\ held' = Empty
  /\ mine' = 0 /\ meddled' = FALSE /\ taken' = <<>> /\ late' = 0 /\ crossed' = FALSE
  /\ UNCHANGED <<steps, cursor, storeOfCurve, pointer, clicked, presses>>

\* Broken variant: the next drag still counts as this one.
ReleaseStillDragged == HandOff /\ UNCHANGED dragged

Release == HandOff /\ dragged' = FALSE

\* onDoubleClick, where a point was taken and let go.
DoubleClick ==
  /\ held = Empty /\ clicked
  /\ LET found == NearestPoint(Shape, pointer)
     IN  found # Nowhere /\ Commit(RemovePoint(Shape, found), FALSE)
  /\ clicked' = FALSE
  /\ UNCHANGED <<held, dragged, pointer, gestureVars, presses>>

\* "zerar", shown on a curve that is bent.
ResetCurve ==
  /\ held = Empty /\ ~IsIdentity(CurveShown) /\ presses < MaxPresses
  /\ Commit(<<>>, FALSE)
  /\ clicked' = FALSE /\ presses' = presses + 1
  /\ UNCHANGED <<held, dragged, pointer, gestureVars>>

\* The keyboard undoes and redoes, a point in the hand or not, and is answered
\* where there is nothing to undo or redo as well.
UndoCurve ==
  /\ Ordered(steps, Max({cursor - 1, 0}))
  /\ meddled' = (held # Empty)
  /\ UNCHANGED <<confirmed, pending, held, dragged, pointer, clicked, mine, taken, late, crossed,
                 presses>>

RedoCurve ==
  /\ Ordered(steps, Min({cursor + 1, Len(steps)}))
  /\ meddled' = (held # Empty)
  /\ UNCHANGED <<confirmed, pending, held, dragged, pointer, clicked, mine, taken, late, crossed,
                 presses>>

CurveNext ==
  \/ CurveAnswered
  \/ PressOnPoint
  \/ PressOnNothing
  \/ Move
  \/ Release
  \/ DoubleClick
  \/ ResetCurve
  \/ UndoCurve
  \/ RedoCurve

-----------------------------------------------------------------------------
\* Points are in the square, and the stack is where its cursor says.
CurveTypeOK ==
  /\ \A i \in DOMAIN steps : steps[i] \in Seq([x : 0 .. Side, y : 0 .. Side])
  /\ cursor \in 0 .. Len(steps) /\ held \in Nowhere .. MaxPoints
  /\ dragged \in BOOLEAN /\ clicked \in BOOLEAN /\ meddled \in BOOLEAN
  /\ crossed \in BOOLEAN /\ late \in 0 .. Len(returning) /\ Len(returning) <= MaxReturning
  /\ pointer \in Positions \cup {Black} /\ mine \in 0 .. Len(steps) /\ presses \in 0 .. MaxPresses

\* Every curve in the stack can be drawn: no curve at all, or one from the left
\* edge to the right one whose tones increase (sanitise), so that no two points
\* stand at one tone and the panel and the engine sample the same function.
CurveIsAFunction ==
  \A i \in DOMAIN steps :
    LET c == steps[i]
    IN  c # <<>> => /\ Head(c).x = 0 /\ Last(c).x = Side
                    /\ \A j \in 1 .. Len(c) - 1 : c[j].x < c[j + 1].x

\* Sanitise leaves the curve alone, and a point more than its ends need fits: every
\* point has its distance, and none is what sanitise gives up.
HasRoom(curve) ==
  /\ Sanitise(curve) = curve /\ Len(curve) <= MaxPoints - 2
  /\ \A i \in 1 .. Len(curve) - 1 : curve[i + 1].x - curve[i].x >= Spacing

OnlyTheHeldMoved(curve) ==
  /\ Len(curve) = Len(taken) /\ held \in DOMAIN curve
  /\ \A i \in DOMAIN curve \ {held} : curve[i] = taken[i]

\* A drag moves the point it took and no other, in the stack and on the panel,
\* although it knows the point by its number on a curve that every answer replaces
\* (onPointerDown keeps the number, onPointerMove uses it frames later on what
\* currentAdjustments shows by then): its own answers, which bring back earlier
\* frames, do no harm, and in the stack the point is where the pointer is or as
\* near to it as its neighbours allow.  An undo or a redo during the drag, or an
\* answer to something asked before it, can put another curve under the number:
\* those are left out.
TheHandHoldsWhatItTook ==
  held > 0 /\ ~meddled /\ ~crossed /\ HasRoom(taken) =>
    /\ OnlyTheHeldMoved(Shape)
    /\ dragged =>
         /\ OnlyTheHeldMoved(Curve) /\ Curve[held].y = pointer.y
         /\ \/ Gap(Curve[held].x, pointer.x) <= Spacing \/ held \in {1, Len(Curve)}
            \/ Curve[held].x \in {Curve[held - 1].x + Spacing, Curve[held + 1].x - Spacing}

\* One gesture is one edit: what an earlier gesture left in the stack is never
\* rewritten by a drag (dragged.current says whether a move continues), unless
\* an undo in the middle took the gesture's own edit from under it.
FinishedStepsStand ==
  \A i \in 1 .. Min({cursor, Len(steps')}) : steps'[i] # steps[i] => i = mine \/ meddled

\* Placing a point on a curve with room takes nothing else away: every other
\* point that is not of its tone stays (addPoint sorts, thins and cuts).
PlacingKeepsTheOthers ==
  presses' > presses /\ held' # Empty /\ steps' # steps
    /\ HasRoom(Shape) /\ Len(Shape) < MaxPoints - 2 =>
      \A i \in DOMAIN Shape :
        Gap(Shape[i].x, pointer'.x) >= Spacing => Shape[i] \in Range(Curve')

\* The stack is what the gestures say: one edit each, and a point placed without
\* losing another (CurvePanel.tsx, addPoint).
GesturesAddUp == [][FinishedStepsStand /\ PlacingKeepsTheOthers]_curveVars
=============================================================================
