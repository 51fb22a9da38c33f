----------------------------- MODULE MCJobQueue -----------------------------
(***************************************************************************)
(* Instances of JobQueue for TLC: two previews of one document (they share *)
(* a key), a save, and an export larger than the whole budget.             *)
(***************************************************************************)
EXTENDS JobQueue

CONSTANTS preview1, preview2, save, export, previewKey

MCJobs == {preview1, preview2, save, export}
MCKeys == {previewKey}

MCKeyOf == [j \in MCJobs |-> IF j \in {preview1, preview2} THEN previewKey ELSE NoKey]

\* In units of half a budget: previews take one each, a save two, the export
\* does not fit at all.
MCEstimate == (preview1 :> 1) @@ (preview2 :> 1) @@ (save :> 2) @@ (export :> 3)
=============================================================================
