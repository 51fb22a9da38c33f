------------------------------- MODULE BatchDesk -------------------------------
(***************************************************************************)
(* Choosing photographs and exporting them: the grid with its filters and  *)
(* its selection (components/LibraryView.tsx, LibraryTile.tsx,             *)
(* store/library.ts, lib/library.ts), the dialog (BatchDialog.tsx), and    *)
(* the two flags by which the main process runs one batch at a time and is *)
(* told to stop it (ipc/library.ts, ipc/batch.ts).                         *)
(*                                                                         *)
(* The window and the main process talk through one channel each way, in   *)
(* order.  The window can be reloaded (the default menu is never replaced),*)
(* which empties its store and leaves the main process at work.            *)
(*                                                                         *)
(* Abstracted: what becomes of one photograph is Batch's; here it is       *)
(* exported or it fails.  Of the settings only the folder the batch waits  *)
(* for is kept; of the filters, what they let through.                     *)
(***************************************************************************)
EXTENDS Integers, Sequences, FiniteSets, SequencesExt, Lists

CONSTANTS
  Listing,     \* a folder -> its photographs, as listed
  Filters,     \* bound: what the filters of the bar can let through
  Nowhere,     \* no folder
  MaxRuns,     \* bound: batches asked for
  MaxReloads,  \* bound: reloads
  MaxStops     \* bound: times "stop after this one" is pressed

Shelf == UNION {ToSet(Listing[f]) : f \in DOMAIN Listing}

ASSUME BatchDeskAssumption ==
  /\ Nowhere \notin DOMAIN Listing
  /\ \A f \in DOMAIN Listing : Listing[f] \in Seq(Shelf) /\ IsInjective(Listing[f])
  /\ \A q \in Filters : q \subseteq Shelf
  /\ Shelf \in Filters
  /\ {MaxRuns, MaxReloads, MaxStops} \subseteq Nat

VARIABLES
  shown,      \* the folder on screen
  opening,    \* the folder asked for, Nowhere when none is
  passing,    \* the photographs that the search field and the star of the bar let through
  selection,  \* paths, in the order they were chosen
  target,     \* whether a folder for the results was chosen
  dialog,     \* whether the dialog is open
  batch,      \* the store's batch
  toMain,     \* calls on their way
  toWindow,   \* answers and events on their way
  main,       \* the main process's flags and its run
  page,       \* reloads so far: answers to an earlier page go nowhere
  runs, stops \* history: batches asked for, stops pressed

deskVars == <<shown, opening, passing, selection, target, dialog,
              batch, toMain, toWindow, main, page, runs, stops>>
browseVars == <<shown, opening, passing, selection>>

IDLE_BATCH == [running |-> FALSE, done |-> 0, total |-> 0, items |-> <<>>]

\* cancelling: 0 for false, else (history) how many batches had been asked for
\* when the stop was pressed.
Idle == [running |-> FALSE, cancelling |-> 0, nth |-> 0, page |-> 0,
         paths |-> <<>>, items |-> <<>>, begun |-> 0]

DeskInit ==
  /\ shown = Nowhere /\ opening = Nowhere
  /\ passing = Shelf
  /\ selection = <<>> /\ target = FALSE /\ dialog = FALSE
  /\ batch = IDLE_BATCH /\ toMain = <<>> /\ toWindow = <<>> /\ main = Idle
  /\ page = 0 /\ runs = 0 /\ stops = 0

-----------------------------------------------------------------------------
(* The grid.                                                               *)

Entries == IF shown = Nowhere THEN <<>> ELSE Listing[shown]

\* filterEntries
Visible == Kept(Entries, passing)

\* openFolder, chooseFolder: the listing is asked for.
AskFolder(f) ==
  /\ ~dialog /\ opening = Nowhere
  /\ opening' = f
  /\ UNCHANGED <<shown, passing, selection, target, dialog, batch,
                 toMain, toWindow, main, page, runs, stops>>

\* Broken variant: the selection outlives its folder.
AdoptedKeepsSelection(f) ==
  shown' = f /\ opening' = Nowhere /\ passing' \in Filters /\ UNCHANGED selection

\* adopt: the search field is emptied, the favourites stay filtered for.
Adopted(f) ==
  shown' = f /\ opening' = Nowhere /\ passing' \in Filters /\ selection' = <<>>

\* The listing comes, or the folder is gone and nothing changes.
FolderAnswer ==
  /\ opening # Nowhere
  /\ \/ Adopted(opening)
     \/ opening' = Nowhere /\ UNCHANGED <<shown, passing, selection>>
  /\ UNCHANGED <<target, dialog, batch, toMain, toWindow, main,
                 page, runs, stops>>

\* setQuery, setOnlyFavourites, and a star clicked while only they are shown.
Filter ==
  /\ shown # Nowhere /\ ~dialog
  /\ passing' \in Filters \ {passing}
  /\ UNCHANGED <<shown, opening, selection, target, dialog, batch, toMain, toWindow, main,
                 page, runs, stops>>

\* toggleSelected: alone, or with the control key held.
Toggled(p, extend) ==
  CASE extend /\ p \in ToSet(selection) -> Kept(selection, Shelf \ {p})
    [] extend /\ p \notin ToSet(selection) -> Append(selection, p)
    [] ~extend -> IF p \in ToSet(selection) THEN <<>> ELSE <<p>>

\* A tile is clicked, or "all", or "none".
Select ==
  /\ ~dialog
  /\ \/ \E p \in ToSet(Visible), extend \in BOOLEAN : selection' = Toggled(p, extend)
     \/ selection # <<>> /\ selection' \in {Visible, <<>>}
  /\ UNCHANGED <<shown, opening, passing, target, dialog, batch,
                 toMain, toWindow, main, page, runs, stops>>

-----------------------------------------------------------------------------
(* The dialog.                                                             *)

OpenDialog ==
  /\ ~dialog /\ selection # <<>>
  /\ dialog' = TRUE
  /\ UNCHANGED <<browseVars, target, batch, toMain, toWindow, main, page, runs, stops>>

\* Escape and a click outside, in any of its three faces; its own button
\* where there is nothing running; "done" forgets the results.
CloseDialog ==
  /\ dialog /\ ~batch.running
  /\ dialog' = FALSE
  /\ batch' \in {batch, IDLE_BATCH}
  /\ batch' # batch => batch.items # <<>>
  /\ UNCHANGED <<browseVars, target, toMain, toWindow, main, page, runs, stops>>

\* Where the results go.  Only the form asks.
ChooseDirectory ==
  /\ dialog /\ ~batch.running /\ batch.items = <<>> /\ ~target
  /\ target' = TRUE
  /\ UNCHANGED <<browseVars, dialog, batch, toMain, toWindow, main, page, runs, stops>>

\* runBatch in the store.
Run ==
  /\ dialog /\ ~batch.running /\ batch.items = <<>> /\ target /\ selection # <<>>
  /\ runs < MaxRuns
  /\ runs' = runs + 1
  /\ batch' = [IDLE_BATCH EXCEPT !.running = TRUE, !.total = Len(selection)]
  /\ toMain' = Append(toMain, [call |-> "run", nth |-> runs + 1, page |-> page,
                               paths |-> selection])
  /\ UNCHANGED <<browseVars, target, dialog, toWindow, main, page, stops>>

\* cancelBatch
Stop ==
  /\ dialog /\ batch.running /\ stops < MaxStops
  /\ stops' = stops + 1
  /\ toMain' = Append(toMain, [call |-> "cancel", nth |-> runs, page |-> page,
                               paths |-> <<>>])
  /\ UNCHANGED <<browseVars, target, dialog, batch, toWindow, main, page, runs>>

\* Broken variant: progress is shown whatever the window is doing.
SetProgressAnyway(m) == batch' = [batch EXCEPT !.done = m.done, !.total = m.total]

\* setProgress
SetProgress(m) ==
  batch' = IF batch.running THEN [batch EXCEPT !.done = m.done, !.total = m.total] ELSE batch

\* Broken variant: a refusal leaves the window as it was.
RefusedQuietly == UNCHANGED batch

\* The answer is an error.
RunRefused == batch' = IDLE_BATCH

Receive ==
  /\ toWindow # <<>>
  /\ toWindow' = Tail(toWindow)
  /\ LET m == Head(toWindow)
     IN  CASE m.is = "progress" -> SetProgress(m)
           [] m.is = "refused"  -> RunRefused
           [] m.is = "finished" ->
                batch' = [running |-> FALSE, done |-> Len(m.items), total |-> Len(m.items),
                          items |-> m.items]
  /\ UNCHANGED <<browseVars, target, dialog, toMain, main, page, runs, stops>>

\* The store is new; what was on its way to the old page is lost.
Reload ==
  /\ page < MaxReloads
  /\ page' = page + 1
  /\ shown' = Nowhere /\ opening' = Nowhere /\ passing' = Shelf
  /\ selection' = <<>> /\ target' = FALSE /\ dialog' = FALSE
  /\ batch' = IDLE_BATCH /\ toWindow' = <<>>
  /\ UNCHANGED <<toMain, main, runs, stops>>

-----------------------------------------------------------------------------
(* The main process.                                                       *)

Event(run) == <<[is |-> "progress", done |-> Len(run.items), total |-> Len(run.paths),
                 items |-> <<>>]>>

Answer(is, to, items) ==
  IF to = page THEN <<[is |-> is, done |-> 0, total |-> 0, items |-> items]>> ELSE <<>>

Rest(run, outcome) == [i \in 1 .. Len(run.paths) - Len(run.items) |-> outcome]

\* Broken variant: a run that was told to stop begins the next photograph.
GoOnRegardless(run) ==
  IF Len(run.items) < Len(run.paths)
  THEN main' = [run EXCEPT !.begun = @ + 1] /\ toWindow' = toWindow \o Event(run)
  ELSE /\ main' = [run EXCEPT !.running = FALSE]
       /\ toWindow' = toWindow \o Event(run) \o Answer("finished", run.page, run.items)

\* The head of the loop: the next photograph is announced and begun, unless the
\* run was told to stop, which names the rest cancelled; at the end the last
\* report and the answer leave together.
GoOn(run) ==
  LET ended == IF run.cancelling = 0 THEN run
               ELSE [run EXCEPT !.items = @ \o Rest(run, "cancelled")]
  IN  IF Len(ended.items) < Len(run.paths)
      THEN main' = [run EXCEPT !.begun = @ + 1] /\ toWindow' = toWindow \o Event(run)
      ELSE /\ main' = [ended EXCEPT !.running = FALSE]
           /\ toWindow' = toWindow \o Event(ended) \o Answer("finished", run.page, ended.items)

\* Broken variant: the stop of an earlier run is still in force.
StartedStill(m) ==
  [Idle EXCEPT !.running = TRUE, !.nth = m.nth, !.page = m.page, !.paths = m.paths,
               !.cancelling = main.cancelling]

\* runBatch in the main process, up to its first await.
Started(m) ==
  [Idle EXCEPT !.running = TRUE, !.nth = m.nth, !.page = m.page, !.paths = m.paths]

\* One batch at a time; a folder that is not there is refused too, after the
\* flags were set and with the first put back.
MainRun(m) ==
  IF main.running
  THEN toWindow' = toWindow \o Answer("refused", m.page, <<>>) /\ UNCHANGED main
  ELSE \/ GoOn(Started(m))
       \/ /\ main' = [Started(m) EXCEPT !.running = FALSE]
          /\ toWindow' = toWindow \o Answer("refused", m.page, <<>>)

MainReceive ==
  /\ toMain # <<>>
  /\ toMain' = Tail(toMain)
  /\ LET m == Head(toMain)
     IN  IF m.call = "run" THEN MainRun(m)
         ELSE main' = [main EXCEPT !.cancelling = m.nth] /\ UNCHANGED toWindow
  /\ UNCHANGED <<browseVars, target, dialog, batch, page, runs, stops>>

\* The photograph in hand is through.
PhotographDone(outcome) ==
  /\ main.running
  /\ GoOn([main EXCEPT !.items = Append(@, outcome)])
  /\ UNCHANGED <<browseVars, target, dialog, batch, toMain, page, runs, stops>>

-----------------------------------------------------------------------------
DeskNext ==
  \/ \E f \in DOMAIN Listing : AskFolder(f)
  \/ FolderAnswer \/ Filter \/ Select
  \/ OpenDialog \/ CloseDialog \/ ChooseDirectory \/ Run \/ Stop
  \/ Receive \/ Reload \/ MainReceive
  \/ \E outcome \in {"exported", "failed"} : PhotographDone(outcome)

\* The engine is done with a photograph.
Photographs == \E outcome \in {"exported", "failed"} : PhotographDone(outcome)

-----------------------------------------------------------------------------
Outcomes == {"exported", "failed", "cancelled"}

DeskTypeOK ==
  /\ shown \in DOMAIN Listing \cup {Nowhere} /\ opening \in DOMAIN Listing \cup {Nowhere}
  /\ passing \in Filters /\ {target, dialog} \subseteq BOOLEAN
  /\ selection \in Seq(Shelf)
  /\ batch \in [running : BOOLEAN, done : Nat, total : Nat, items : Seq(Outcomes)]
  /\ main \in [running : BOOLEAN, cancelling : 0 .. MaxRuns, nth : 0 .. MaxRuns,
               page : 0 .. MaxReloads, paths : Seq(Shelf), items : Seq(Outcomes), begun : Nat]
  /\ page \in 0 .. MaxReloads /\ runs \in 0 .. MaxRuns /\ stops \in 0 .. MaxStops

Answering == {i \in 1 .. Len(toWindow) : toWindow[i].is # "progress"}

\* A window that says it is exporting waits for something that is still to come:
\* its call is on its way, the main process is at its photographs, or the answer
\* is on its way - and never for two of them (BatchDialog.tsx offers no way out
\* of a run that never ends).
WindowWaitsForARun ==
  LET asked == {i \in 1 .. Len(toMain) : toMain[i].call = "run" /\ toMain[i].page = page}
      owed  == Cardinality(asked) + Cardinality(Answering)
               + (IF main.running /\ main.page = page THEN 1 ELSE 0)
  IN  /\ owed = (IF batch.running THEN 1 ELSE 0)
      /\ batch.running => dialog
      /\ ~batch.running => batch.done = Len(batch.items)

StopWasPressed ==
  (main.running /\ main.cancelling # 0) \/ "cancelled" \in ToSet(main.items)
    => main.cancelling >= main.nth

NoneIsBegun ==
  main.running /\ main'.running /\ main.cancelling # 0 => main'.begun = main.begun

\* What stops a run, and what a run names cancelled, was pressed since that run was
\* asked for and not for an earlier one; and once a stop has reached the main process
\* no further photograph is begun ("stop after this one").
StopIsForItsRun == [][NoneIsBegun /\ StopWasPressed']_deskVars

\* The selection is of photographs of the folder on screen, each once, whatever
\* was filtered, opened or asked for meanwhile.
SelectionIsOfTheFolder ==
  /\ ToSet(selection) \subseteq ToSet(Entries)
  /\ IsInjective(selection)
=============================================================================
