---------------------------- MODULE MCEngineClient ----------------------------
(***************************************************************************)
(* Instance of EngineClient for TLC.  Lengths are in bytes, as in the code; *)
(* the limits are 2 and 3 instead of 2^20 and 2^30.                        *)
(***************************************************************************)
EXTENDS EngineClient

\* A bare header, a frame at both limits, a header and a payload over them.
MCSizes == {<<1, 0>>, <<2, 3>>, <<3, 0>>, <<1, 4>>}
=============================================================================
