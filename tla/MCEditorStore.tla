---------------------------- MODULE MCEditorStore ----------------------------
(***************************************************************************)
(* An instance of EditorStore for TLC: two portrait tools, one of which    *)
(* needs a look at the photograph, and projects with a marked patch or an   *)
(* adjustment.                                                             *)
(***************************************************************************)
EXTENDS EditorStore

MCTools == <<"light", "teeth">>

MCProjectOps ==
  <<[kind |-> "addLayer", layer |-> "patch", target |-> 0],
    [kind |-> "setLayerMask", target |-> 1, value |-> 1]>>


===============================================================================
