----------------------------- MODULE MCEditStack -----------------------------
(***************************************************************************)
(* Instances of EditStack for TLC: two crops that cannot follow each other *)
(* unnoticed, an angle, layers added, moved, removed, masked and adjusted, *)
(* and two sliders.                                                        *)
(***************************************************************************)
EXTENDS EditStack

CONSTANTS low, high

Tilt == [s |-> 5, c |-> 12, d |-> 13]

MCRequests ==
  {[kind |-> "rotate", quarters |-> 1, target |-> 0],
   [kind |-> "crop", rect |-> Rect(6, 2, 6, 6), target |-> 0],
   [kind |-> "straighten", angle |-> Tilt, target |-> 0],
   [kind |-> "straighten", angle |-> Upright, target |-> 0],
   [kind |-> "adjust", target |-> 0, value |-> low],
   [kind |-> "adjust", target |-> 0, value |-> high],
   [kind |-> "adjust", target |-> 2, value |-> low],
   [kind |-> "addLayer", layer |-> "matte", target |-> 0],
   [kind |-> "removeLayer", target |-> 1],
   [kind |-> "reorderLayer", target |-> 2, index |-> 0],
   [kind |-> "setLayerMask", target |-> 0, value |-> low]}

MCControls == {[kind |-> "adjust", target |-> 0], [kind |-> "straighten", target |-> 0]}

===============================================================================
