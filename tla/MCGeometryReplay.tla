-------------------------- MODULE MCGeometryReplay --------------------------
(***************************************************************************)
(* A 12 by 8 photograph, two angles of rational sine each way, and crops   *)
(* that keep a corner, an edge, or a pixel at the edge or in the middle.   *)
(***************************************************************************)
EXTENDS GeometryReplay

Tilt == [s |-> 5, c |-> 12, d |-> 13]
Steep == [s |-> 3, c |-> 4, d |-> 5]
MCAngles == {Upright, Tilt, Steep, [Steep EXCEPT !.s = -3]}

MCSizes == {<<6, 4>>, <<24, 8>>}

MCSpans(n) ==
  {<<0, n>>, <<0, (n + 1) \div 2>>, <<n \div 2, n - n \div 2>>, <<n - 1, 1>>,
   <<n \div 2, 1>>}

=============================================================================
