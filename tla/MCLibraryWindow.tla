---------------------------- MODULE MCLibraryWindow ----------------------------
(***************************************************************************)
(* Instances of LibraryWindow for TLC: a folder of two photographs, one of *)
(* which may not decode, and another of one; a folder to export from and   *)
(* an empty one; a photograph and two projects to remember.                *)
(***************************************************************************)
EXTENDS LibraryWindow

CONSTANTS a1, a2, b1, A, B

MCFolderOf == a1 :> A @@ a2 :> A @@ b1 :> B

MCListing == [full |-> <<"p1", "p2">>, empty |-> <<>>]

MCFilters == {{"p1", "p2"}, {"p1"}}
=============================================================================
