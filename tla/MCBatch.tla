-------------------------------- MODULE MCBatch --------------------------------
(***************************************************************************)
(* Instances of Batch for TLC: a folder as a camera leaves it, with a raw  *)
(* file, its JPEG and a file that does not decode under one name, a JPEG   *)
(* whose extension is in capitals on a disk that ignores case, and a       *)
(* folder to export to.                                                    *)
(***************************************************************************)
EXTENDS Batch, TLC

File(d, s, e) == [dir |-> d, stem |-> s, ext |-> e]

raw == File("in", "a", "nef")
jpeg == File("in", "a", "jpg")
torn == File("in", "a", "tif")
out == File("out", "a", "jpg")
capitals == File("in", "c", "JPG")
small == File("in", "c", "jpg")

MCPaths == {raw, jpeg, torn, out, capitals, small}

\* One file, spelt in two ways.
MCFileOf == [p \in MCPaths |-> IF p = small THEN capitals ELSE p]

Shot(w, h) == [from |-> Camera, toned |-> FALSE, width |-> w, height |-> h]

MCOriginals ==
  (raw :> Shot(6, 4)) @@ (jpeg :> Shot(2, 3)) @@ (torn :> Broken) @@ (out :> None)
  @@ (capitals :> Shot(4, 2))

Ask(paths, directory, adjustments, maxSide) ==
  [paths |-> paths, directory |-> directory, format |-> "jpeg",
   adjustments |-> adjustments, maxSide |-> maxSide]

\* Into another folder, where they share a target; and as they are, into the folder
\* the photographs are in.
MCRequests ==
  {Ask(<<raw, jpeg>>, "out", TRUE, 4), Ask(<<torn, raw>>, "in", FALSE, None),
   Ask(<<capitals, jpeg>>, "in", FALSE, 4)}
=============================================================================
