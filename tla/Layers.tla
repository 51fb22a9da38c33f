-------------------------------- MODULE Layers --------------------------------
(***************************************************************************)
(* The layer stack an edit stack describes (operation.cpp, layer.h): the   *)
(* operations are replayed from the left, and layers get their identifiers *)
(* during the replay.                                                      *)
(*                                                                         *)
(* A layer is [id, kind, holds]: holds gives each of its settings the      *)
(* value last given to it, or Unset for the default of layer.h.            *)
(***************************************************************************)
EXTENDS Integers, Sequences, FiniteSetsExt, SequencesExt

CONSTANT Unset

LayerKinds == {"adjustment", "matte", "patch"}

\* Which setting an operation kind writes. A fill is one setting with its
\* colour and blur, a patch with the size it was made against.
SettingOf ==
  [adjust |-> "adjustments", setLayerVisible |-> "visible", setLayerOpacity |-> "opacity",
   setLayerBlend |-> "blend", setLayerMask |-> "mask", setLayerFill |-> "fill",
   setLayerDecontaminate |-> "decontaminate", setLayerPatch |-> "patch"]

Settings == {SettingOf[k] : k \in DOMAIN SettingOf}

NewLayer(id, kind) == [id |-> id, kind |-> kind, holds |-> [s \in Settings |-> Unset]]

Background == NewLayer(0, "background")

\* Where a layer is, or the topmost adjustment layer for id zero; 0 if nowhere.
Resolve(layers, id) ==
  Max({0} \cup {i \in DOMAIN layers : IF id = 0 THEN layers[i].kind = "adjustment"
                                               ELSE layers[i].id = id})

\* A fold's state is [layers, next]: next is the identifier to give.
Added(s, kind) ==
  [layers |-> Append(s.layers, NewLayer(s.next, kind)), next |-> s.next + 1]

Holding(s, i, setting, value) == [s EXCEPT !.layers[i].holds[setting] = value]

\* An adjustment with nowhere to go creates the layer it needs.
Adjusted(s, op) ==
  LET at == Resolve(s.layers, op.target)
      t  == IF at = 0 THEN Added(s, "adjustment") ELSE s
  IN  Holding(t, IF at = 0 THEN Len(t.layers) ELSE at, "adjustments", op.value)

WithSetting(s, op) ==
  LET at == Resolve(s.layers, op.target)
  IN  IF at = 0 THEN s ELSE Holding(s, at, SettingOf[op.kind], op.value)

\* The removable layer with an identifier, or 0.
Movable(layers, id) ==
  Max({0} \cup {i \in DOMAIN layers : layers[i].id = id /\ layers[i].kind # "background"})

Removed(s, op) ==
  LET at == Movable(s.layers, op.target)
  IN  IF at = 0 THEN s ELSE [s EXCEPT !.layers = RemoveAt(@, at)]

\* Broken variant: index zero is taken at its word.
ReorderedBelow(s, op) ==
  LET at == Movable(s.layers, op.target)
  IN  IF at = 0 THEN s
      ELSE [s EXCEPT !.layers =
              InsertAt(RemoveAt(@, at), Min({op.index, Len(@) - 1}) + 1, @[at])]

\* Index 0 is the background, which nothing may be placed below.
Reordered(s, op) ==
  LET at == Movable(s.layers, op.target)
  IN  IF at = 0 THEN s
      ELSE [s EXCEPT !.layers =
              InsertAt(RemoveAt(@, at), Max({1, Min({op.index, Len(@) - 1})}) + 1, @[at])]

\* One operation of the stack. Geometry leaves the layers alone.
Layered(s, op) ==
  CASE op.kind = "addLayer"                          -> Added(s, op.layer)
    [] op.kind = "adjust"                            -> Adjusted(s, op)
    [] op.kind = "removeLayer"                       -> Removed(s, op)
    [] op.kind = "reorderLayer"                      -> Reordered(s, op)
    [] op.kind \in DOMAIN SettingOf \ {"adjust"}     -> WithSetting(s, op)
    [] OTHER                                         -> s

\* The fold's state after each prefix, as in FoldGeometry; the layers are those of
\* the last.
FoldLayers(operations) ==
  LET Replay(Step(_, _)) ==
        LET after[n \in 0 .. Len(operations)] ==
              IF n = 0 THEN [layers |-> <<Background>>, next |-> 1]
                       ELSE Step(after[n - 1], operations[n])
        IN  after[Len(operations)]
  IN  Replay(Layered).layers

\* What every render and every project relies on.
WellFormed(layers) ==
  /\ layers[1] = Background
  /\ \A i \in 2 .. Len(layers) : layers[i].kind \in LayerKinds /\ layers[i].id # 0
  /\ \A i, j \in DOMAIN layers : layers[i].id = layers[j].id => i = j

===============================================================================
