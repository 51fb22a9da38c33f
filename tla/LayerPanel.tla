------------------------------ MODULE LayerPanel ------------------------------
(***************************************************************************)
(* The controls of a matte layer: its mask (components/MaskPanel.tsx) and  *)
(* what takes the place of what the mask removes (MattePanel.tsx), with    *)
(* the two gestures of the store that take several calls, selecting the    *)
(* subject and choosing a backdrop (store/editor.ts).  Every control sends *)
(* a whole mask or a whole fill built from the layer as the store last     *)
(* adopted it, and the answers come in the order of the edits.             *)
(*                                                                         *)
(* Abstracted: the geometry of the parametric masks; levels are counted in *)
(* steps of the gap the sliders keep between them.                         *)
(***************************************************************************)
EXTENDS Integers, Sequences, SequencesExt

CONSTANTS
  Full,       \* the level that stands for 1
  Segmented,  \* SEGMENTED_LEVELS
  Colours, DefaultColour,  \* colours, and the one an edit that names none sets
  Blurs, DefaultBlur,  \* blur strengths, and the one an edit that names none sets
  Shapes,     \* natural sizes of the document
  MaxCalls    \* bound: edits on their way

ASSUME LayerAssumption ==
  /\ Full \in Nat /\ Full > 2
  /\ Segmented.low \in 0 .. Full /\ Segmented.high \in Segmented.low + 1 .. Full
  /\ DefaultColour \in Colours /\ DefaultBlur \in Blurs /\ MaxCalls \in Nat

VARIABLES
  layer,      \* the layer as the store has it
  shape,      \* the document's natural size, as the store has it
  calls,      \* edits on their way, oldest first
  backdrop,   \* chooseBackgroundImage: "none", "dialog" or "placing"
  subject,    \* segmentIntoMask: the shape the model looks at, 0 when it does not
  picked,     \* history: the colour and the blur last picked
  hasty,      \* history: a fill was sent while another was on its way, or a backdrop
              \* was chosen
  editFailed  \* history: an edit failed

layerVars == <<layer, shape, calls, backdrop, subject, picked, hasty, editFailed>>

NO_MASK == [kind |-> "none", low |-> 0, high |-> Full, of |-> 0]

LayerInit ==
  /\ layer = [mask |-> NO_MASK, fill |-> "transparent", colour |-> DefaultColour,
              blur |-> DefaultBlur, patch |-> FALSE]
  /\ shape \in Shapes /\ calls = <<>> /\ backdrop = "none" /\ subject = 0
  /\ picked = [colour |-> DefaultColour, blur |-> DefaultBlur] /\ hasty = FALSE /\ editFailed = FALSE

-----------------------------------------------------------------------------
Sent(call) == Len(calls) < MaxCalls /\ calls' = Append(calls, call)

\* isMaskStale
Stale == layer.mask.kind = "raster" /\ layer.mask.of # shape

\* update
UpdateMask(mask) ==
  /\ Sent([op |-> "mask", mask |-> mask])
  /\ UNCHANGED <<layer, shape, backdrop, subject, picked, hasty, editFailed>>

\* A chip of the mask: everything else of it starts over.
ChooseMask == \E k \in {"none", "linear", "radial"} : UpdateMask([NO_MASK EXCEPT !.kind = k])

\* Broken variant: the lower slider goes all the way up.
LowerUnbounded(n) == UpdateMask([layer.mask EXCEPT !.low = n])

\* The two levels, which stay a gap apart; shown for a raster that lines up.
Lower(n) == LET high == layer.mask.high
            IN  UpdateMask([layer.mask EXCEPT !.low = IF n < high THEN n ELSE high - 1])

Raise(n) == LET low == layer.mask.low
            IN  UpdateMask([layer.mask EXCEPT !.high = IF n > low THEN n ELSE low + 1])

Levels ==
  /\ layer.mask.kind = "raster" /\ ~Stale
  /\ \E n \in 0 .. Full : Lower(n) \/ Raise(n)

\* segmentIntoMask: the model looks at the document as it is, and its raster
\* becomes the mask when it is there.
Segment ==
  /\ subject = 0
  /\ subject' = shape
  /\ UNCHANGED <<layer, shape, calls, backdrop, picked, hasty, editFailed>>

SegmentDone ==
  /\ subject # 0
  /\ subject' = 0
  /\ \/ UNCHANGED calls
     \/ Sent([op |-> "mask", mask |-> [kind |-> "raster", low |-> Segmented.low,
                                       high |-> Segmented.high, of |-> subject]])
  /\ UNCHANGED <<layer, shape, backdrop, picked, hasty, editFailed>>

-----------------------------------------------------------------------------
Filling == \E i \in 1 .. Len(calls) : calls[i].op = "fill"

Fill(fill, colour, blur) ==
  /\ Sent([op |-> "fill", fill |-> fill, colour |-> colour, blur |-> blur])
  /\ hasty' = (hasty \/ Filling)

\* Broken variant: the chip of the image is a chip like the others.
ChooseFillAtOnce(fill) ==
  /\ Fill(fill, layer.colour, layer.blur)
  /\ UNCHANGED <<layer, shape, backdrop, subject, picked, editFailed>>

\* A chip of the fill: the image asks for one while there is none.
ChooseFill(fill) ==
  IF fill = "image" /\ ~layer.patch
  THEN /\ backdrop = "none" /\ backdrop' = "dialog"
       /\ UNCHANGED <<layer, shape, calls, subject, picked, hasty, editFailed>>
  ELSE /\ Fill(fill, layer.colour, layer.blur)
       /\ UNCHANGED <<layer, shape, backdrop, subject, picked, editFailed>>

PickColour(c) ==
  /\ layer.fill = "color"
  /\ Fill("color", c, layer.blur)
  /\ picked' = [picked EXCEPT !.colour = c]
  /\ UNCHANGED <<layer, shape, backdrop, subject, editFailed>>

\* Broken variant: the blur slider says nothing of the colour.
PickBlurOnly(b) ==
  /\ layer.fill = "blur"
  /\ Fill("blur", DefaultColour, b)
  /\ picked' = [picked EXCEPT !.blur = b]
  /\ UNCHANGED <<layer, shape, backdrop, subject, editFailed>>

PickBlur(b) ==
  /\ layer.fill = "blur"
  /\ Fill("blur", layer.colour, b)
  /\ picked' = [picked EXCEPT !.blur = b]
  /\ UNCHANGED <<layer, shape, backdrop, subject, editFailed>>

\* chooseBackgroundImage: from the chip, or from the button that replaces it.
ReplaceBackdrop ==
  /\ layer.fill = "image" /\ backdrop = "none"
  /\ backdrop' = "dialog"
  /\ UNCHANGED <<layer, shape, calls, subject, picked, hasty, editFailed>>

\* The dialog is dismissed, or the file cannot be read, or it is loaded and placed.
BackdropChosen ==
  /\ backdrop = "dialog"
  /\ \/ backdrop' = "none" /\ UNCHANGED calls
     \/ backdrop' = "placing" /\ Sent([op |-> "patch"])
  /\ UNCHANGED <<layer, shape, subject, picked, hasty, editFailed>>

\* A turn or a crop somewhere else in the window.
TurnElsewhere ==
  /\ \E s \in Shapes \ {shape} : Sent([op |-> "turn", of |-> s])
  /\ UNCHANGED <<layer, shape, backdrop, subject, picked, hasty, editFailed>>

\* adoptHistory, for the oldest edit.  Once the backdrop is placed the fill is set
\* to it, naming neither a colour nor a blur, whether the placing worked or not.
LayerAnswer ==
  /\ calls # <<>>
  /\ LET call  == Head(calls)
         after == IF call.op # "patch" THEN Tail(calls)
                  ELSE Append(Tail(calls), [op |-> "fill", fill |-> "image",
                                            colour |-> DefaultColour, blur |-> DefaultBlur])
     IN  /\ calls' = after
         /\ backdrop' = IF call.op = "patch" THEN "none" ELSE backdrop
         /\ \/ /\ shape' = IF call.op = "turn" THEN call.of ELSE shape
               /\ layer' = CASE call.op = "mask"  -> [layer EXCEPT !.mask = call.mask]
                             [] call.op = "fill"  -> [layer EXCEPT !.fill = call.fill,
                                                        !.colour = call.colour, !.blur = call.blur]
                             [] call.op = "patch" -> [layer EXCEPT !.patch = TRUE]
                             [] call.op = "turn"  -> layer
               /\ hasty' = (hasty \/ call.op = "patch") /\ UNCHANGED editFailed
            \/ editFailed' = TRUE /\ UNCHANGED <<layer, shape, hasty>>
  /\ UNCHANGED <<subject, picked>>

LayerNext ==
  \/ ChooseMask \/ Levels \/ Segment \/ SegmentDone
  \/ \E f \in {"transparent", "color", "blur", "image"} : ChooseFill(f)
  \/ \E c \in Colours : PickColour(c)
  \/ \E b \in Blurs : PickBlur(b)
  \/ ReplaceBackdrop \/ BackdropChosen \/ TurnElsewhere \/ LayerAnswer

-----------------------------------------------------------------------------
Masks == [kind : {"none", "linear", "radial", "raster"}, low : 0 .. Full, high : 0 .. Full,
          of : Shapes \cup {0}]

LayerTypeOK ==
  /\ layer \in [mask : Masks, fill : {"transparent", "color", "blur", "image"},
                colour : Colours, blur : Blurs, patch : BOOLEAN]
  /\ shape \in Shapes /\ backdrop \in {"none", "dialog", "placing"}
  /\ subject \in Shapes \cup {0} /\ {hasty, editFailed} \subseteq BOOLEAN
  /\ picked \in [colour : Colours, blur : Blurs]

\* Whatever is on its way when a control is moved: the two levels never meet or
\* cross, and a layer filled with an image has one (unless placing it failed, which
\* the fill that follows does not look at).
LayerMakesSense ==
  /\ layer.mask.low < layer.mask.high
  /\ layer.fill = "image" /\ ~editFailed => layer.patch

\* A colour and a blur, once picked, are there when their fill is chosen again,
\* whichever controls were used in between - unless a backdrop was chosen, which
\* names neither and sets both back, or two fills overtook each other.
PicksAreKept ==
  ~hasty /\ ~editFailed /\ calls = <<>> => layer.colour = picked.colour /\ layer.blur = picked.blur
=============================================================================
