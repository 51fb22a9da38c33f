----------------------------- MODULE LibraryWindow -----------------------------
(***************************************************************************)
(* The photographs of a folder as the application shows, exports and       *)
(* remembers them: the tiles (Library), the batch (BatchDesk) and the      *)
(* lists of recent work (Catalogue), and how the window comes up           *)
(* (Startup).  They meet in the store but share no state that two of them  *)
(* write, so a behaviour is one part's.                                    *)
(***************************************************************************)
EXTENDS Library, BatchDesk, Catalogue, Startup

VARIABLE part

windowVars == <<part, libraryVars, deskVars, catalogueVars, startupVars>>

WindowInit ==
  /\ part \in {"tiles", "batch", "recent", "start"}
  /\ LibraryInit /\ DeskInit /\ CatalogueInit /\ StartupInit

OfTiles(A) == part = "tiles" /\ A /\ UNCHANGED <<part, deskVars, catalogueVars, startupVars>>

TilesStep == OfTiles(LibraryNext)
BatchStep ==
  part = "batch" /\ DeskNext /\ UNCHANGED <<part, libraryVars, catalogueVars, startupVars>>
RecentStep ==
  part = "recent" /\ CatalogueNext /\ UNCHANGED <<part, libraryVars, deskVars, startupVars>>
StartStep ==
  part = "start" /\ StartupNext /\ UNCHANGED <<part, libraryVars, deskVars, catalogueVars>>

WindowNext == TilesStep \/ BatchStep \/ RecentStep \/ StartStep

\* The engine answers for every thumbnail, and its answer reaches the store.
WindowSpec == WindowInit /\ [][WindowNext]_windowVars /\ WF_windowVars(OfTiles(Answers))

-----------------------------------------------------------------------------
\* Whatever is clicked, listed, opened or restarted, each part's state is in
\* order: the queue of tiles is worked and forgets none, the cache is bounded, the
\* stars are the favourites, the selection is of photographs of the folder on
\* screen, a window that shows a run has one to wait for, work stands in the lists
\* in its photograph's stead and is on the disk, and what the shell handed over is
\* opened.
WindowInOrder ==
  /\ LibraryTypeOK /\ DeskTypeOK /\ CatalogueTypeOK /\ StartupTypeOK
  /\ QueueIsWorked /\ NoTileForgotten /\ CacheIsBounded /\ StarsAreTheFavourites
  /\ SelectionIsOfTheFolder /\ WindowWaitsForARun
  /\ WorkReplacesItsSource /\ CleanWorkIsOnDisk
  /\ HandedIsOpened /\ EngineIsShown
=============================================================================
