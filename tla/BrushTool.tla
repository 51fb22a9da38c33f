-------------------------------- MODULE BrushTool --------------------------------
(***************************************************************************)
(* The mask brush: the buffer BrushOverlay.tsx paints into, its way to the *)
(* engine and back into the layer's mask (applyPaintedMask, setLayerMask), *)
(* and the masks of a document whose shape changes under them.             *)
(*                                                                         *)
(* A stroke is painted into the buffer and sent when the hand comes off.   *)
(* The engine stores it as a new raster, the layer is given it, and when   *)
(* the store adopts that history the buffer is thrown away and seeded from *)
(* the raster.  The engine answers in the order it is asked, and any of     *)
(* these requests may fail, which is said and nothing else is done about it. *)
(*                                                                         *)
(* Abstracted: coverage (the places that are covered, the brush being      *)
(* hard), and one layer, of a photograph that is not square.               *)
(***************************************************************************)
EXTENDS Geometry, SequencesExt

CONSTANTS
  Places,      \* places to paint
  Turns,       \* orientations an edit may turn the photograph by
  MaxStrokes,  \* bound: strokes
  MaxDabs,     \* bound: places a stroke goes over
  MaxTurns     \* bound: turns and undos

ASSUME BrushAssumption ==
  Turns \subseteq Orientations /\ MaxDabs \in Nat \ {0} /\ MaxStrokes \in Nat /\ MaxTurns \in Nat

VARIABLES
  edits,     \* the stack: masks given to the layer, turns of the photograph
  rasters,   \* the document's masks, as what each covers
  view,      \* the history the store has adopted
  buffer,    \* maskRef: which canvas it is and what is painted on it
  painting,  \* paintingRef, as the places left in the stroke; 0 between strokes
  erasing,   \* the brush's mode
  replies,   \* answers on their way to the store
  wanted,    \* history: what the user painted
  disrupted, \* history: a gesture began before the last had come back, or a
             \* request failed
  unheard,   \* history: the newest edits' answers failed
  apart,     \* history: a request has failed since the canvas was made
  strokes, turns

failures == <<unheard, apart>>
brushVars == <<edits, rasters, view, buffer, painting, erasing, replies, wanted, disrupted,
               failures, strokes, turns>>

NoRaster == 0
Untouched == [orientation |-> TopLeft, raster |-> NoRaster, across |-> FALSE]

\* One edit of the stack.
Edited(v, e) ==
  IF e.kind = "turn" THEN [v EXCEPT !.orientation = Compose(e.by, @)]
  ELSE [v EXCEPT !.raster = e.raster, !.across = e.across]

\* What a stack of edits leaves, prefix by prefix: how the photograph lies, the
\* layer's raster, and the natural size recorded with it, which is whether it lay
\* across.
Folded(stack) ==
  LET after[n \in 0 .. Len(stack)] ==
        IF n = 0 THEN Untouched ELSE Edited(after[n - 1], stack[n])
  IN  after[Len(stack)]

\* A raster is used while the natural size is the one it was made for
\* (isMaskStale, and the engine's fitted masks).
Fits(v) == v.raster # NoRaster /\ v.across = SwapsAxes(v.orientation)

Covered(v) == IF Fits(v) THEN rasters[v.raster] ELSE {}

BrushInit ==
  /\ edits = <<>> /\ rasters = <<>> /\ view = Untouched
  /\ buffer = [canvas |-> 1, cover |-> {}] /\ painting = 0 /\ erasing = FALSE
  /\ replies = <<>> /\ wanted = {} /\ disrupted = FALSE /\ unheard = FALSE /\ apart = FALSE
  /\ strokes = 0 /\ turns = 0

-----------------------------------------------------------------------------
(* The hand.                                                               *)

Dabbed(cover, p, erase) == IF erase THEN cover \ {p} ELSE cover \cup {p}

\* onPointerDown, with the mode BrushPanel was left in.
PressBrush ==
  /\ painting = 0 /\ strokes < MaxStrokes
  /\ erasing' \in BOOLEAN
  /\ \E p \in Places :
       /\ buffer' = [buffer EXCEPT !.cover = Dabbed(@, p, erasing')]
       /\ wanted' = Dabbed(wanted, p, erasing')
  /\ painting' = MaxDabs /\ strokes' = strokes + 1
  /\ disrupted' = (disrupted \/ replies # <<>>)
  /\ UNCHANGED <<edits, rasters, view, replies, failures, turns>>

PaintOn ==
  /\ painting > 1
  /\ \E p \in Places :
       /\ buffer' = [buffer EXCEPT !.cover = Dabbed(@, p, erasing)]
       /\ wanted' = Dabbed(wanted, p, erasing)
  /\ painting' = painting - 1
  /\ UNCHANGED <<edits, rasters, view, erasing, replies, disrupted, failures, strokes,
                 turns>>

\* onPointerUp: commit reads the buffer, and mask.store numbers what it holds.
LiftBrush ==
  /\ painting > 0 /\ painting' = 0
  /\ rasters' = Append(rasters, buffer.cover)
  /\ replies' = Append(replies, [kind |-> "stored", raster |-> Len(rasters')])
  /\ UNCHANGED <<edits, view, buffer, erasing, wanted, disrupted, failures, strokes, turns>>

Reshaped(stack) ==
  /\ turns < MaxTurns /\ turns' = turns + 1
  /\ edits' = stack
  /\ replies' = Append(replies, [kind |-> "history", view |-> Folded(stack)])
  /\ wanted' = Covered(Folded(stack))
  /\ disrupted' = (disrupted \/ replies # <<>> \/ painting > 0)
  /\ UNCHANGED <<rasters, view, buffer, painting, erasing, failures, strokes>>

\* The keyboard and the panels turn, flip and undo while the brush is open. One that
\* the engine refuses leaves everything as it is.
TurnPhoto == \E o \in Turns : Reshaped(Append(edits, [kind |-> "turn", by |-> o]))

UndoEdit == edits # <<>> /\ Reshaped(Front(edits))

-----------------------------------------------------------------------------
(* The answers.                                                            *)

\* applyPaintedMask goes on: the raster is given to the layer, recorded against
\* the natural size of the history the store has by then.
MaskStored ==
  /\ replies # <<>> /\ Head(replies).kind = "stored"
  /\ edits' = Append(edits, [kind |-> "mask", raster |-> Head(replies).raster,
                             across |-> SwapsAxes(view.orientation)])
  /\ replies' = Append(Tail(replies), [kind |-> "history", view |-> Folded(edits')])
  /\ UNCHANGED <<rasters, view, buffer, painting, erasing, wanted, disrupted, failures, strokes,
                 turns>>

\* What the overlay's effect depends on.
Key(v) == <<SwapsAxes(v.orientation), v.raster>>

\* Broken variant: the new canvas is left blank.
AdoptBlank ==
  /\ replies # <<>> /\ Head(replies).kind = "history"
  /\ view' = Head(replies).view
  /\ replies' = Tail(replies)
  /\ buffer' = IF Key(view') = Key(view) THEN buffer
               ELSE [canvas |-> buffer.canvas + 1, cover |-> {}]
  /\ unheard' = FALSE /\ apart' = (apart /\ buffer' = buffer)
  /\ UNCHANGED <<edits, rasters, painting, erasing, wanted, disrupted, strokes, turns>>

\* adoptHistory; another raster or another size makes a new canvas, and the
\* raster is asked for if it fits.
Adopt ==
  /\ replies # <<>> /\ Head(replies).kind = "history"
  /\ view' = Head(replies).view
  /\ IF Key(view') = Key(view)
     THEN buffer' = buffer /\ replies' = Tail(replies)
     ELSE /\ buffer' = [canvas |-> buffer.canvas + 1, cover |-> {}]
          /\ replies' = IF Fits(view')
                        THEN Append(Tail(replies), [kind |-> "fetched", canvas |-> buffer'.canvas,
                                                    cover |-> Covered(view')])
                        ELSE Tail(replies)
  /\ unheard' = FALSE /\ apart' = (apart /\ buffer' = buffer)
  /\ UNCHANGED <<edits, rasters, painting, erasing, wanted, disrupted, strokes, turns>>

\* Broken variant: a raster that comes late is drawn on the canvas of another.
SeedAny ==
  /\ replies # <<>> /\ Head(replies).kind = "fetched"
  /\ buffer' = [buffer EXCEPT !.cover = @ \cup Head(replies).cover]
  /\ replies' = Tail(replies)
  /\ UNCHANGED <<edits, rasters, view, painting, erasing, wanted, disrupted, failures, strokes,
                 turns>>

\* The raster is drawn over what is on the canvas it was fetched for.
Seed ==
  /\ replies # <<>> /\ Head(replies).kind = "fetched"
  /\ buffer' = IF Head(replies).canvas = buffer.canvas
               THEN [buffer EXCEPT !.cover = @ \cup Head(replies).cover] ELSE buffer
  /\ replies' = Tail(replies)
  /\ UNCHANGED <<edits, rasters, view, painting, erasing, wanted, disrupted, failures, strokes,
                 turns>>

Failing(kind) ==
  /\ replies # <<>> /\ Head(replies).kind = kind /\ replies' = Tail(replies)
  /\ disrupted' = TRUE /\ apart' = TRUE
  /\ UNCHANGED <<edits, rasters, view, buffer, painting, erasing, wanted, strokes, turns>>

\* applyPaintedMask returns, or the engine refuses the layer the raster: the stroke
\* stays in the buffer, and nowhere else.
StoreFailed == Failing("stored") /\ UNCHANGED unheard

\* adoptHistory only says so: what the engine did, it did.
EditFailed == Failing("history") /\ unheard' = TRUE

\* The canvas stays blank, over a layer that has a mask.
FetchFailed == Failing("fetched") /\ UNCHANGED unheard

BrushNext ==
  \/ PressBrush
  \/ PaintOn
  \/ LiftBrush
  \/ TurnPhoto
  \/ UndoEdit
  \/ MaskStored
  \/ Adopt
  \/ Seed
  \/ StoreFailed
  \/ EditFailed
  \/ FetchFailed

-----------------------------------------------------------------------------
\* The stack and the answers speak of rasters there are.
BrushTypeOK ==
  /\ \A i \in DOMAIN rasters : rasters[i] \subseteq Places
  /\ \A i \in DOMAIN edits : edits[i].kind = "mask" => edits[i].raster \in DOMAIN rasters
  /\ view.raster \in {NoRaster} \cup DOMAIN rasters
  /\ buffer.canvas \in Nat \ {0} /\ buffer.cover \subseteq Places /\ wanted \subseteq Places
  /\ painting \in 0 .. MaxDabs /\ erasing \in BOOLEAN /\ disrupted \in BOOLEAN
  /\ unheard \in BOOLEAN /\ apart \in BOOLEAN
  /\ strokes \in 0 .. MaxStrokes /\ turns \in 0 .. MaxTurns

AtRest == replies = <<>> /\ painting = 0

\* Strokes add up: as long as each gesture waits for the one before it to come
\* back and no request has failed, the layer is masked with what was painted and not
\* erased since, through every canvas that was thrown away and seeded again
\* (BrushOverlay's effect, applyPaintedMask), and through turns and undos.
StrokesAreKept == AtRest /\ ~disrupted => Covered(Folded(edits)) = wanted

\* However fast the hand is: once everything has come back, what the overlay shows
\* and the next stroke will send is the mask the layer has.  A failed request undoes
\* that for its own canvas only: a stroke that was not stored is still shown, a
\* raster that was not fetched is not, and the next stroke sends what is shown
\* (applyPaintedMask, BrushOverlay's seed); an edit whose answer failed is not shown
\* until another one's comes (adoptHistory).  The next canvas is the mask again.
OverlayIsTheMask ==
  AtRest => /\ unheard \/ view = Folded(edits)
            /\ apart \/ buffer.cover = Covered(view)

=============================================================================
