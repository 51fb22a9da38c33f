-------------------------------- MODULE MCTools --------------------------------
(***************************************************************************)
(* Instances of Tools for TLC: a curve of few points with places nearer    *)
(* than the spacing, a small photograph with a pointer that also goes past *)
(* its edges, two places to paint on one that is turned and mirrored, a    *)
(* size that locks to a ratio and one that rounds, tables of presets with *)
(* a row of another build or one that is not JSON, and every measurement  *)
(* of a coarse histogram.                                                  *)
(***************************************************************************)
EXTENDS Tools

CONSTANTS AnyJunk, AnyText, AnyCategory

MCPoints == {[x |-> x, y |-> y] : x \in {-2, 3}, y \in {1, 5}}

\* Square and 3:2.
MCRatios == {[n |-> 1, d |-> 1], [n |-> 3, d |-> 2]}

\* A quarter turn, and a mirror.
MCMirrors == {6, FlipHorizontal}

MCSizes == {[width |-> 2, height |-> 1], [width |-> 2, height |-> 3]}

\* 0.3 and 0.7, a step being the gap.
MCSegmented == [low |-> 1, high |-> 2]

MCFound ==
  {<<[id |-> 0, category |-> AnyCategory, text |-> [slider |-> AnyJunk, curve |-> 1]]>>,
   <<[id |-> 0, category |-> "colour", text |-> AnyText]>>}
MCMade == {[slider |-> 1, curve |-> 1], [slider |-> 0, curve |-> 1]}

Measurement(h, red, green, blue, chroma, detail) ==
  [histogram |-> h, red |-> red, green |-> green, blue |-> blue,
   chroma |-> chroma, detail |-> detail]
Levels6(a, b, c, d, e, f) == 0 :> a @@ 20 :> b @@ 120 :> c @@ 220 :> d @@ 240 :> e @@ 255 :> f

\* One pixel in each level, give or take the marks: no cast, colourful, sharp.
MCEven == Measurement(Levels6(1, 40, 174, 10, 30, 1), 40, 40, 40, 20, 40)

\* Grey and reddish, and one the engine could measure nothing of.
MCOthers ==
  {Measurement(Levels6(0, 3, 1, 0, 1, 0), 50, 40, 30, 10, 10),
   Measurement(Levels6(0, 0, 0, 0, 0, 0), 40, 40, 40, 20, 40)}
MCPictures ==
  {Measurement(h, 40, 50, 40, 20, 15) : h \in [Marks -> {0, 2}]} \cup MCOthers \cup {MCEven}

MCPresetLooks == {[k \in Knob |-> 1]}
=============================================================================
