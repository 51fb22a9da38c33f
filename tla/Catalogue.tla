------------------------------- MODULE Catalogue -------------------------------
(***************************************************************************)
(* What the application remembers from one run to the next: the recent     *)
(* files and folders and the project saved from each photograph, kept in a *)
(* database (store/database.ts), written by the handlers that open and     *)
(* save (ipc/handlers.ts, ipc/library.ts, ipc/session.ts) and offered by   *)
(* the empty window (components/RecentFiles.tsx, LibraryView.tsx), across  *)
(* crashes and while other programs move the files.                        *)
(*                                                                         *)
(* Abstracted: a list ordered by a time is a sequence, newest first (the   *)
(* clock is taken not to be set back).  What a document contains is the    *)
(* photograph it began as; the races of the session itself and the         *)
(* recovery slot's are ProjectSession's.                                   *)
(***************************************************************************)
EXTENDS Integers, Sequences, FiniteSets, SequencesExt, Lists

CONSTANTS
  Photos, Projects,  \* paths
  Slot,              \* Recovery.projectPath
  FolderPaths,       \* folders of photographs
  Removable,         \* bound: paths other programs take away and bring back
  RECENT_LIMIT,      \* length of either list
  Null,              \* null
  MaxMoves           \* bound: files and folders moved

Saved == Projects \cup {Slot}
Openable == Photos \cup Saved

ASSUME CatalogueAssumption ==
  /\ Photos \cap Saved = {} /\ Slot \notin Projects /\ Null \notin Openable
  /\ FolderPaths \cap Openable = {}
  /\ Removable \subseteq (Openable \ {Slot}) \cup FolderPaths
  /\ RECENT_LIMIT \in Nat \ {0} /\ MaxMoves \in Nat

VARIABLES
  there,     \* the paths that exist
  holds,     \* history: for a project, the photograph its work began as
  recent, recentFolders, ties,  \* recent_files, recent_folders, projects
  session,   \* of (history): the photograph its document began as
  saving,    \* a save in the engine, Null when there is none
  reopened,  \* history: photographs opened since their work was saved
  moves      \* what is used of the bound

catalogueVars == <<there, holds, recent, recentFolders, ties, session, saving, reopened,
                   moves>>
tables == <<recent, recentFolders, ties>>

NoSession == [open |-> FALSE, path |-> Null, source |-> Null, dirty |-> FALSE, of |-> Null]

CatalogueInit ==
  /\ there = Photos \cup FolderPaths /\ holds = [q \in Saved |-> Null]
  /\ recent = <<>> /\ recentFolders = <<>> /\ ties = [p \in Photos |-> Null]
  /\ session = NoSession /\ saving = Null
  /\ reopened = {} /\ moves = 0

-----------------------------------------------------------------------------
(* The tables.                                                             *)

Without(list, path) == Kept(list, ToSet(list) \ {path})

\* Broken variant: the list is cut one short of its limit.
RememberedOneLess(list, path) ==
  LET all == <<path>> \o Without(list, path)
  IN  SubSeq(all, 1, IF Len(all) < RECENT_LIMIT THEN Len(all) ELSE RECENT_LIMIT - 1)

\* rememberFile, rememberFolder: put in or brought to the front, and the list is
\* cut to its limit.
Remembered(list, path) ==
  LET all == <<path>> \o Without(list, path)
  IN  SubSeq(all, 1, IF Len(all) < RECENT_LIMIT THEN Len(all) ELSE RECENT_LIMIT)

\* What a list offers, and keeps: the paths that still exist.
Alive(list) == Kept(list, there)

-----------------------------------------------------------------------------
(* The session.                                                            *)

\* A save whose session was replaced meanwhile finds another one when it is done.
Crossed == IF saving = Null THEN Null ELSE [saving EXCEPT !.crossed = TRUE]

\* imageOpenDialog, imageOpenPath, once the engine has the photograph.
OpenPhoto(p) ==
  /\ p \in there
  /\ session' = [open |-> TRUE, path |-> Null, source |-> p, dirty |-> FALSE, of |-> p]
  /\ recent' = Remembered(recent, p)
  /\ reopened' = reopened \cup {p} /\ saving' = Crossed
  /\ UNCHANGED <<there, holds, recentFolders, ties, moves>>

\* Broken variant: the photograph of the session before stays tied.
OpenedStillTied(q) == [session EXCEPT !.open = TRUE, !.path = q, !.dirty = FALSE, !.of = holds[q]]

\* openProjectAt
OpenedAt(q) == [open |-> TRUE, path |-> q, source |-> Null, dirty |-> FALSE, of |-> holds[q]]

OpenProject(q) ==
  /\ q \in there
  /\ session' = OpenedAt(q)
  /\ recent' = Remembered(recent, q)
  /\ saving' = Crossed
  /\ UNCHANGED <<there, holds, recentFolders, ties, reopened, moves>>

\* recoveryTake: opened like any project, then left without a path and unsaved,
\* and the slot is cleared.
TakeRecovery ==
  /\ Slot \in there
  /\ session' = [OpenedAt(Slot) EXCEPT !.path = Null, !.dirty = TRUE]
  /\ recent' = Remembered(recent, Slot)
  /\ there' = there \ {Slot}
  /\ saving' = Crossed
  /\ UNCHANGED <<holds, recentFolders, ties, reopened, moves>>

Edit ==
  /\ session.open /\ ~session.dirty
  /\ session' = [session EXCEPT !.dirty = TRUE]
  /\ UNCHANGED <<there, holds, tables, saving, reopened, moves>>

Autosave ==
  /\ session.dirty /\ Slot \notin there
  /\ there' = there \cup {Slot} /\ holds' = [holds EXCEPT ![Slot] = session.of]
  /\ UNCHANGED <<tables, session, saving, reopened, moves>>

\* projectSave, projectSaveAs: to its own path, or where the dialog says.
SaveTo(q) ==
  /\ session.open /\ saving = Null
  /\ q \in Projects \/ q = session.path
  /\ saving' = [to |-> q, of |-> session.of, crossed |-> FALSE]
  /\ UNCHANGED <<there, holds, tables, session, reopened, moves>>

\* Broken variant: the photograph stays in the list beside its project.
ForgottenNever(list) == list

\* forgetFile
Forgotten(list) == Without(list, session.source)

\* saveTo, once the engine has written the file: the photograph is tied to it and
\* leaves the list, the project enters it, and the slot is cleared.
SaveDone ==
  /\ saving # Null
  /\ LET q == saving.to
     IN  /\ holds' = [holds EXCEPT ![q] = saving.of]
         /\ there' = (there \cup {q}) \ {Slot}
         /\ recent' = Remembered(IF session.source = Null THEN recent ELSE Forgotten(recent), q)
         /\ IF session.source = Null THEN UNCHANGED <<ties, reopened>>
            ELSE /\ ties' = [ties EXCEPT ![session.source] = q]
                 /\ reopened' = reopened \ {session.source}
         /\ session' = [session EXCEPT !.path = q, !.dirty = FALSE]
  /\ saving' = Null
  /\ UNCHANGED <<recentFolders, moves>>

SaveFails ==
  /\ saving # Null
  /\ saving' = Null
  /\ UNCHANGED <<there, holds, tables, session, reopened, moves>>

\* The photograph is closed, or the application is left with everything saved
\* (which clears the slot), or it crashes.
End ==
  /\ session.open
  /\ session' = NoSession
  /\ \/ saving' = Crossed /\ UNCHANGED there
     \/ ~session.dirty /\ saving' = Null /\ there' = there \ {Slot}
     \/ saving' = Null /\ UNCHANGED there
  /\ UNCHANGED <<holds, tables, reopened, moves>>

-----------------------------------------------------------------------------
(* The lists on screen.                                                    *)

\* recentList, asked for by the empty window when it appears: what is gone is
\* neither offered nor kept.
ListRecent ==
  /\ ~session.open
  /\ recent' = Alive(recent)
  /\ UNCHANGED <<there, holds, recentFolders, ties, session, saving, reopened, moves>>

\* A row of the list is clicked, and opens by its own door.
ClickRecent ==
  /\ ~session.open
  /\ \E x \in ToSet(recent) : IF x \in Photos THEN OpenPhoto(x) ELSE OpenProject(x)

\* openFolder
OpenFolder(d) ==
  /\ d \in there
  /\ recentFolders' = Remembered(recentFolders, d)
  /\ UNCHANGED <<there, holds, recent, ties, session, saving, reopened, moves>>

\* libraryRecentFolders
ListFolders ==
  /\ recentFolders' = Alive(recentFolders)
  /\ UNCHANGED <<there, holds, recent, ties, session, saving, reopened, moves>>

\* Another program takes a file or a folder away, or brings it back.
Move(x) ==
  /\ moves < MaxMoves
  /\ moves' = moves + 1
  /\ there' = IF x \in there THEN there \ {x} ELSE there \cup {x}
  /\ UNCHANGED <<holds, tables, session, saving, reopened>>

CatalogueNext ==
  \/ \E p \in Photos : OpenPhoto(p)
  \/ \E q \in Projects : OpenProject(q)
  \/ \E q \in Saved : SaveTo(q)
  \/ TakeRecovery \/ Edit \/ Autosave \/ SaveDone \/ SaveFails \/ End
  \/ ListRecent \/ ClickRecent \/ ListFolders
  \/ \E d \in FolderPaths : OpenFolder(d)
  \/ \E x \in Removable : Move(x)

-----------------------------------------------------------------------------
Unique(list) == IsInjective(list) /\ Len(list) <= RECENT_LIMIT

CatalogueTypeOK ==
  /\ there \subseteq Openable \cup FolderPaths
  /\ holds \in [Saved -> Photos \cup {Null}]
  /\ recent \in Seq(Openable) /\ Unique(recent)
  /\ recentFolders \in Seq(FolderPaths) /\ Unique(recentFolders)
  /\ ties \in [Photos -> Saved \cup {Null}]
  /\ session \in [open : BOOLEAN, path : Saved \cup {Null}, source : Photos \cup {Null},
                  dirty : BOOLEAN, of : Photos \cup {Null}]
  /\ saving = Null \/ saving \in [to : Saved, of : Photos \cup {Null}, crossed : BOOLEAN]
  /\ reopened \subseteq Photos /\ moves \in 0 .. MaxMoves

\* "Once the work exists, offering the untouched photograph instead of it is
\* offering to throw the work away" (database.ts:192): a photograph with a
\* project is not in the list unless it was opened again since.
WorkReplacesItsSource ==
  \A p \in Photos : ties[p] # Null /\ p \in ToSet(recent) => p \in reopened

\* A photograph is tied to a project only by a save of the work that began as it
\* (unless another document was opened while the save ran), and a path leaves the
\* list only when it is gone, when its work was saved elsewhere, or when the list
\* is full and it is the oldest.
TablesAreKept ==
  [][/\ \A p \in Photos : ties'[p] # ties[p] /\ ~saving.crossed =>
          ties'[p] = saving.to /\ saving.of = p
     /\ \A x \in ToSet(recent) \ ToSet(recent') :
          \/ x \notin there
          \/ x = session.source /\ ties'[x] # Null
          \/ Len(recent) = RECENT_LIMIT /\ x = Last(recent)]_catalogueVars

\* A session that says it is saved has its project on the disk, unless another
\* program took it, or its project is the recovery slot, which a click in the
\* recent list can make it: saving then clears what it has just written, although
\* handlers.ts:119-120 clears it because "the work is somewhere safe".
CleanWorkIsOnDisk ==
  session.open /\ session.path \notin {Null, Slot} /\ ~session.dirty =>
    session.path \in there \cup Removable
=============================================================================
