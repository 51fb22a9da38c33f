--------------------------------- MODULE Tools ---------------------------------
(***************************************************************************)
(* The tools that are worked with a pointer (the curve, the crop and the   *)
(* brush) and the panels beside the photograph.  They meet in the store    *)
(* but share no state that two of them write: each ends in edits of the    *)
(* stack, which EditStack and EditorStore model, and keeps the rest to     *)
(* itself.  A behaviour is one of them at work.                            *)
(***************************************************************************)
EXTENDS CurvePanel, CropTool, BrushTool, ResizePanel, RawPanel, LayerPanel,
        PresetShelf, EnhancePanel, ExportDialog, HistoryRows

VARIABLE tool

toolsVars == <<tool, curveVars, cropVars, brushVars, resizeVars, rawVars, layerVars,
               shelfVars, enhanceVars, exportVars, rowsVars>>

\* The document is of the tool at work; for the others it is any one document.
Idle ==
  /\ tool # "size" => size = CHOOSE s \in Originals : TRUE
  /\ tool # "layer" => shape = CHOOSE s \in Shapes : TRUE
  /\ tool # "shelf" => rows = CHOOSE table \in Found : TRUE
  /\ tool # "enhance" => photo = CHOOSE p \in Others : Pixels(p.histogram) = 0
  /\ tool # "export" => depth = CHOOSE d \in Depths : TRUE

ToolsInit ==
  /\ tool \in {"curve", "crop", "brush", "size", "raw", "layer", "shelf", "enhance",
              "export", "rows"}
  /\ CurveInit /\ CropInit /\ BrushInit /\ ResizeInit /\ RawInit /\ LayerInit
  /\ ShelfInit /\ EnhanceInit /\ ExportInit /\ RowsInit
  /\ Idle

CurveStep ==
  /\ tool = "curve" /\ CurveNext
  /\ UNCHANGED <<tool, cropVars, brushVars, resizeVars, rawVars,
                 layerVars, shelfVars, enhanceVars, exportVars, rowsVars>>

CropStep ==
  /\ tool = "crop" /\ CropNext
  /\ UNCHANGED <<tool, curveVars, brushVars, resizeVars, rawVars,
                 layerVars, shelfVars, enhanceVars, exportVars, rowsVars>>

BrushStep ==
  /\ tool = "brush" /\ BrushNext
  /\ UNCHANGED <<tool, curveVars, cropVars, resizeVars, rawVars,
                 layerVars, shelfVars, enhanceVars, exportVars, rowsVars>>

ResizeStep ==
  /\ tool = "size" /\ ResizeNext
  /\ UNCHANGED <<tool, curveVars, cropVars, brushVars, rawVars,
                 layerVars, shelfVars, enhanceVars, exportVars, rowsVars>>

RawStep ==
  /\ tool = "raw" /\ RawNext
  /\ UNCHANGED <<tool, curveVars, cropVars, brushVars, resizeVars,
                 layerVars, shelfVars, enhanceVars, exportVars, rowsVars>>

LayerStep ==
  /\ tool = "layer" /\ LayerNext
  /\ UNCHANGED <<tool, curveVars, cropVars, brushVars, resizeVars,
                 rawVars, shelfVars, enhanceVars, exportVars, rowsVars>>

ShelfStep ==
  /\ tool = "shelf" /\ ShelfNext
  /\ UNCHANGED <<tool, curveVars, cropVars, brushVars, resizeVars,
                 rawVars, layerVars, enhanceVars, exportVars, rowsVars>>

EnhanceStep ==
  /\ tool = "enhance" /\ EnhanceNext
  /\ UNCHANGED <<tool, curveVars, cropVars, brushVars, resizeVars,
                 rawVars, layerVars, shelfVars, exportVars, rowsVars>>

ExportStep ==
  /\ tool = "export" /\ ExportNext
  /\ UNCHANGED <<tool, curveVars, cropVars, brushVars, resizeVars,
                 rawVars, layerVars, shelfVars, enhanceVars, rowsVars>>

RowsStep ==
  /\ tool = "rows" /\ RowsNext
  /\ UNCHANGED <<tool, curveVars, cropVars, brushVars, resizeVars,
                 rawVars, layerVars, shelfVars, enhanceVars, exportVars>>

ToolsNext ==
  \/ CurveStep \/ CropStep \/ BrushStep \/ ResizeStep \/ RawStep \/ LayerStep
  \/ ShelfStep \/ EnhanceStep \/ ExportStep \/ RowsStep

ToolsSpec == ToolsInit /\ [][ToolsNext]_toolsVars

-----------------------------------------------------------------------------
\* Whatever is drawn, dragged, typed, picked or answered, each tool's state is in
\* order: a curve that can be drawn with the point that was taken in the hand, a
\* frame inside the photograph, sizes the engine accepts, levels that do not cross,
\* a fill that has its image, proposals that can be argued for.
ToolsInOrder ==
  /\ CurveTypeOK /\ CropTypeOK /\ BrushTypeOK /\ ResizeTypeOK /\ RawTypeOK /\ LayerTypeOK
  /\ ShelfTypeOK /\ ExportTypeOK /\ RowsTypeOK
  /\ CurveIsAFunction /\ TheHandHoldsWhatItTook
  /\ FrameInsidePicture
  /\ AsksAreLegal
  /\ LayerMakesSense
  /\ ProposalsAreArguable

\* What is painted, each gesture waiting for the one before, is in the mask until a
\* request fails; and what the overlay shows once all is answered is the mask, but for
\* a canvas or an edit one of whose requests failed (BrushOverlay.tsx,
\* applyPaintedMask, adoptHistory).
PaintIsKept == StrokesAreKept /\ OverlayIsTheMask

\* A control does what it showed and what it was last told: the size fields come
\* back to the document's size, a knob that was not touched is not turned, a colour
\* and a blur are there again with their fill, sixteen bits are written when the box
\* said so (ResizePanel.tsx, RawPanel.tsx, MattePanel.tsx, ExportDialog.tsx).
ControlsKeepTheirWord ==
  FieldsComeBack /\ KnobsKeepTheirWord /\ PicksAreKept /\ DepthIsWorthIt

\* The lists say what there is: the presets those of the table, each as it was
\* named, and the rows of the history what each of them changed (PresetsPanel.tsx,
\* lib/history.ts).
ListsAreTrue == ShelfShowsTheTable /\ PresetsAreWhatWasNamed /\ RowsTellLayersApart
=============================================================================
