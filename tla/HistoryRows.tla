------------------------------ MODULE HistoryRows ------------------------------
(***************************************************************************)
(* The history panel (components/HistoryPanel.tsx): a row for every entry, *)
(* and a way back to any of them.  An adjustment carries every slider of   *)
(* its layer, so what a row says was moved is recovered by comparing it    *)
(* with an earlier entry (lib/history.ts).  The entries come from the      *)
(* sliders, which name a layer only when one is selected, and from the     *)
(* list of layers (components/LayersPanel.tsx, store/editor.ts).           *)
(*                                                                         *)
(* Abstracted: edits are answered before the next one is made (what        *)
(* overtaking does is EditorStore's), and the wording of the rows.         *)
(***************************************************************************)
EXTENDS Layers

CONSTANTS
  Knob,        \* sliders
  Stops,       \* where a slider can stand; 0 is neutral
  PresetLooks, \* bound: the looks adjusted by name
  MaxRows,     \* bound on the length of the history
  MaxClicks    \* bound: rows clicked

ASSUME RowsAssumption ==
  /\ 0 \in Stops /\ Unset \notin [Knob -> Stops]
  /\ PresetLooks \subseteq [Knob -> Stops] /\ MaxRows \in Nat /\ MaxClicks \in Nat

VARIABLES
  entries,   \* the operations, those undone included
  position,  \* the engine's cursor
  selected,  \* selectedLayerId, 0 for null
  moving,    \* the slider being dragged, Unset when none is
  clicks     \* rows clicked so far

rowsVars == <<entries, position, selected, moving, clicks>>

RowsInit == entries = <<>> /\ position = 0 /\ selected = 0 /\ moving = Unset /\ clicks = 0

-----------------------------------------------------------------------------
NEUTRAL == [k \in Knob |-> 0]

StackAt(n) == FoldLayers(SubSeq(entries, 1, n))

\* The sliders of a layer.
LookOf(layer) == IF layer.holds["adjustments"] = Unset THEN NEUTRAL ELSE layer.holds["adjustments"]

\* selectedLayer: the one chosen, if it is there, or the topmost adjustment, or
\* the background.
SelectedLayer ==
  LET stack  == StackAt(position)
      chosen == {i \in DOMAIN stack : stack[i].id = selected /\ selected # 0}
  IN  stack[IF chosen # {} THEN Max(chosen) ELSE Max({1, Resolve(stack, 0)})]

\* What the engine does with an operation (EditStack has the whole of it).
Recorded(op, continuing) ==
  LET kept == SubSeq(entries, 1, position)
  IN  IF continuing /\ position > 0 /\ entries[position].kind = op.kind
      THEN entries' = [kept EXCEPT ![position] = op] /\ position' = position
      ELSE /\ position < MaxRows
           /\ entries' = Append(kept, op) /\ position' = position + 1

Adjust(look, named, continuing) ==
  Recorded([kind |-> "adjust", target |-> selected, value |-> look, named |-> named], continuing)

\* setAdjustment: one slider, over what its layer holds.
Slide(k, n) ==
  /\ n # LookOf(SelectedLayer)[k]
  /\ moving \in {Unset, k}
  /\ Adjust([LookOf(SelectedLayer) EXCEPT ![k] = n], FALSE, moving = k)
  /\ moving' = k
  /\ UNCHANGED <<selected, clicks>>

LetSliderGo == moving # Unset /\ moving' = Unset /\ UNCHANGED <<entries, position, selected, clicks>>

\* applyPreset and applyEnhancements: every slider, under a name.
AdjustByName(look) ==
  /\ moving = Unset
  /\ Adjust(look, TRUE, FALSE)
  /\ UNCHANGED <<selected, moving, clicks>>

\* addLayer: what was created is selected.
AddLayer ==
  /\ moving = Unset
  /\ Recorded([kind |-> "addLayer", layer |-> "adjustment", target |-> 0], FALSE)
  /\ selected' = Last(FoldLayers(entries')).id
  /\ UNCHANGED <<moving, clicks>>

\* removeLayer, of the layer the list shows as selected.
RemoveLayer ==
  /\ moving = Unset /\ SelectedLayer.kind = "adjustment"
  /\ Recorded([kind |-> "removeLayer", target |-> SelectedLayer.id], FALSE)
  /\ selected' = IF selected = SelectedLayer.id THEN 0 ELSE selected
  /\ UNCHANGED <<moving, clicks>>

\* selectLayer: a row of the list of layers.
SelectLayer ==
  /\ moving = Unset
  /\ selected' \in {StackAt(position)[i].id : i \in 2 .. Len(StackAt(position))} \ {selected}
  /\ UNCHANGED <<entries, position, moving, clicks>>

\* seekEdit: the row of the original, or of an entry, done or undone.
ClickRow(n) ==
  /\ moving = Unset /\ n <= Len(entries) /\ n # position /\ clicks < MaxClicks
  /\ position' = n /\ clicks' = clicks + 1
  /\ UNCHANGED <<entries, selected, moving>>

RowsNext ==
  \/ \E k \in Knob, n \in Stops : Slide(k, n)
  \/ \E look \in PresetLooks : AdjustByName(look)
  \/ LetSliderGo \/ AddLayer \/ RemoveLayer \/ SelectLayer
  \/ \E n \in 0 .. MaxRows : ClickRow(n)

-----------------------------------------------------------------------------
(* The rows.                                                               *)

\* Broken variant: the entry before, whatever layer it was for.
PreviousOfAny(i) ==
  LET before == {j \in 1 .. i - 1 : entries[j].kind = "adjust"}
  IN  IF before = {} THEN NEUTRAL ELSE entries[Max(before)].value

\* previousByLayer: the last entry that carries the same identifier, or none.
PreviousByLayer(i) ==
  LET before == {j \in 1 .. i - 1 : entries[j].kind = "adjust"
                                    /\ entries[j].target = entries[i].target}
  IN  IF before = {} THEN NEUTRAL ELSE entries[Max(before)].value

Moved(a, b) == {k \in Knob : a[k] # b[k]}

\* describeHistory, describeAdjustment
Row(i) ==
  CASE entries[i].kind # "adjust" -> [label |-> entries[i].kind, moved |-> {}]
    [] entries[i].kind = "adjust" /\ entries[i].named -> [label |-> "preset", moved |-> {}]
    [] OTHER -> [label |-> "adjust", moved |-> Moved(PreviousByLayer(i), entries[i].value)]

-----------------------------------------------------------------------------
Adjustments == {i \in DOMAIN entries : entries[i].kind = "adjust"}

\* Where the adjustment of an entry went, and what that layer held before.
Reached(i) == LET at == Resolve(StackAt(i - 1), entries[i].target)
              IN  IF at = 0 THEN 0 ELSE StackAt(i - 1)[at].id
Before(i) == LET at == Resolve(StackAt(i - 1), entries[i].target)
             IN  IF at = 0 THEN NEUTRAL ELSE LookOf(StackAt(i - 1)[at])

RowIsTrue(i) == Row(i).label = "adjust" => Row(i).moved = Moved(Before(i), entries[i].value)

\* "The change is recovered by comparing against the state the same layer was in
\* before" (history.ts:53): every row names the sliders that moved, as long as
\* the adjustments name the layer they go to, and find it.
RowsTellLayersApart ==
  \A i \in Adjustments :
    (\A j \in Adjustments : j <= i => entries[j].target # 0 /\ Reached(j) # 0) => RowIsTrue(i)

RowsTypeOK ==
  /\ \A i \in DOMAIN entries : entries[i].kind \in {"adjust", "addLayer", "removeLayer"}
  /\ position \in 0 .. Len(entries) /\ selected \in Nat /\ moving \in Knob \cup {Unset}
  /\ clicks \in 0 .. MaxClicks
=============================================================================
