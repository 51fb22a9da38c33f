----------------------------- MODULE ExportDialog -----------------------------
(***************************************************************************)
(* The export dialog (components/ExportDialog.tsx) and exportImage in the  *)
(* store (store/editor.ts): what is chosen, the destination that the main  *)
(* process asks for in a window of its own (ipc/handlers.ts), and the      *)
(* export, during which the rest of the application goes on.               *)
(*                                                                         *)
(* Abstracted: quality, colour space and metadata, which are passed on as  *)
(* they are; the encoders.                                                 *)
(***************************************************************************)
EXTENDS Integers, Sequences, SequencesExt

CONSTANTS
  Depths,      \* bits per channel of the photographs
  NoRequest,   \* no request
  MaxExports   \* bound: exports under way

ASSUME ExportAssumption == Depths \subseteq Nat /\ MaxExports \in Nat

FORMATS == {"jpeg", "png", "tiff", "webp"}
DEEP == {"png", "tiff"}

VARIABLES
  depth,      \* of the photograph on screen
  exporting,  \* whether the dialog is open
  format, sixteenBit,
  busy,       \* of the store: "exporting", something else, or nothing
  choosing,   \* the request whose destination is being chosen
  underWay    \* exports in the engine, oldest first

exportVars == <<depth, exporting, format, sixteenBit, busy, choosing, underWay>>

ExportInit ==
  /\ depth \in Depths
  /\ exporting = FALSE /\ format = "jpeg" /\ sixteenBit = FALSE
  /\ busy = "nothing" /\ choosing = NoRequest /\ underWay = <<>>

-----------------------------------------------------------------------------
CanGoDeep(f, d) == f \in DEEP /\ d > 8

\* The window that asks for the destination holds everything else.
Unblocked == choosing = NoRequest

\* Ctrl+E, or the button of the title bar: a new dialog.
OpenExport ==
  /\ Unblocked /\ ~exporting
  /\ exporting' = TRUE /\ format' = "jpeg" /\ sixteenBit' = FALSE
  /\ UNCHANGED <<depth, busy, choosing, underWay>>

\* Escape, "cancel", or a click outside, whatever is under way.
CloseExport ==
  /\ Unblocked /\ exporting
  /\ exporting' = FALSE
  /\ UNCHANGED <<depth, format, sixteenBit, busy, choosing, underWay>>

\* Broken variant: the depth chosen for one format is kept for the next.
DepthKept(f, d) == UNCHANGED sixteenBit

\* The effect on canGoDeep: on when sixteen bits become possible, off when they
\* stop being; between two formats that can, or cannot, the choice stays.
DepthFollows(f, d) ==
  sixteenBit' = IF CanGoDeep(f, d) = CanGoDeep(format, depth) THEN sixteenBit ELSE CanGoDeep(f, d)

ChooseFormat(f) ==
  /\ Unblocked /\ exporting /\ f # format
  /\ format' = f /\ DepthFollows(f, depth)
  /\ UNCHANGED <<depth, exporting, busy, choosing, underWay>>

TickDepth ==
  /\ Unblocked /\ exporting /\ CanGoDeep(format, depth)
  /\ sixteenBit' = ~sixteenBit
  /\ UNCHANGED <<depth, exporting, format, busy, choosing, underWay>>

\* run: offered while nothing is busy.
RunExport ==
  /\ Unblocked /\ exporting /\ busy = "nothing" /\ Len(underWay) < MaxExports
  /\ choosing' = [format |-> format, sixteenBit |-> sixteenBit, of |-> depth,
                  shown |-> sixteenBit /\ CanGoDeep(format, depth)]
  /\ UNCHANGED <<depth, exporting, format, sixteenBit, busy, underWay>>

\* exportImage, when the destination is there; without one, or with one that
\* cannot be written to, run goes on to close the dialog.
Destination ==
  /\ ~Unblocked
  /\ choosing' = NoRequest
  /\ \/ /\ underWay' = Append(underWay, choosing) /\ busy' = "exporting"
        /\ UNCHANGED exporting
     \/ exporting' = FALSE /\ UNCHANGED <<underWay, busy>>
  /\ UNCHANGED <<depth, format, sixteenBit>>

\* The export is through, or failed: run closes the dialog, whichever is open by
\* then.
ExportAnswer ==
  /\ underWay # <<>>
  /\ \E i \in DOMAIN underWay : underWay' = RemoveAt(underWay, i)
  /\ busy' = "nothing" /\ exporting' = FALSE
  /\ UNCHANGED <<depth, format, sixteenBit, choosing>>

\* Another photograph is opened: the dialog stays, over no document for a moment.
OpenOver(d) ==
  /\ Unblocked
  /\ depth' = d /\ sixteenBit' = (exporting /\ CanGoDeep(format, d))
  /\ busy' = "nothing"
  /\ UNCHANGED <<exporting, format, choosing, underWay>>

\* Something else begins or ends, and says so in the same place.
BusyWithOther ==
  /\ busy' \in {"nothing", "other"} \ {busy}
  /\ UNCHANGED <<depth, exporting, format, sixteenBit, choosing, underWay>>

ExportNext ==
  \/ OpenExport \/ CloseExport \/ TickDepth \/ RunExport \/ Destination \/ ExportAnswer
  \/ BusyWithOther
  \/ \E f \in FORMATS : ChooseFormat(f)
  \/ \E d \in Depths : OpenOver(d)

-----------------------------------------------------------------------------
Asked == ToSet(underWay) \cup ({choosing} \ {NoRequest})

\* Sixteen bits are written only where the format can carry them and the
\* photograph has them ("writing them from an 8-bit JPEG doubles the file and
\* adds nothing", ExportDialog.tsx:73), and exactly when the box showed them
\* ticked, whatever was opened or chosen with the dialog on screen.
DepthIsWorthIt ==
  \A r \in Asked : r.sixteenBit = r.shown /\ (r.sixteenBit => r.format \in DEEP /\ r.of > 8)

ExportTypeOK ==
  /\ depth \in Depths /\ {exporting, sixteenBit} \subseteq BOOLEAN /\ format \in FORMATS
  /\ busy \in {"nothing", "other", "exporting"}
=============================================================================
