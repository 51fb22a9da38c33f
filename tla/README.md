# Photoy: a TLA+ verification

Photoy is a non-destructive photo editor: an Electron application (main process
and a React renderer) over a native engine that decodes, edits and encodes. This
directory models the parts of it whose correctness depends on order: threads,
jobs, awaits, crashes, and long sequences of edits. TLC checks the models on
small instances; the proof system TLAPS proves what matters most for every value
of the constants.

Paths below are relative to `src/`. `PROJECT.json` maps every definition to the
lines it stands for.

- [The system](#the-system)
- [Modules](#modules)
- [Runs](#runs)
- [Proofs](#proofs)
- [Disagreements](#disagreements-between-the-code-and-what-it-says)
- [Not modelled, and the plan](#not-modelled-and-the-plan)

## The system

```
 renderer (React, one thread)          main process (Electron, one thread)
   store/editor.ts, store/library.ts     ipc/handlers.ts, session.ts, main.ts
   components/*                          ipc/batch.ts, library.ts, store/*
            |  invoke / answer                    |  frames on stdin / stdout
            +------------------------------------>+------------------+
                                                                     v
                                       native engine (C++)
                                         reader thread: main.cpp, Engine::Dispatch
                                         worker threads: jobs/job_queue.cpp
                                         documents: engine/document_store.cpp, edit/*
```

| Part | State | Operations | What is hard | What makes it correct |
|---|---|---|---|---|
| Job queue | pending entries, cancel tokens by id and key, memory admitted, workers | submit, cancel, take, run, release, shutdown | notifications after the unlock; a token read twice, with and without the lock; a budget of estimates | one response per request; the budget is neither leaked nor exceeded; no lost wake-up; shutdown drains |
| Session and recovery slot | open document, project path, dirty; slot and marker on disk; close flag; timer | open, edit, save, autosave, take, discard, close, quit | every handler awaits the engine and then assigns; the slot outlives the process; guards veto a quit half done | clean means saved; the application does not leave from unsaved work; a crash leaves the last autosave |
| Edit history and layers | operations, cursor, next identifier; the layers replayed from them | apply, undo, redo, seek, reset, load | gestures that rewrite; identifiers held outside; operations checked once and replayed for ever | the history edit_stack.h describes; every point of it can be shown |
| Geometry | a fold of turns, mirrors, angles, resizes and crops | one step each | every step acts on what the screen shows, through all the steps before; the renderer interprets the result in another file | what an operation does on screen is what it says |
| Engine client | child process, pending requests, partial frames | start, stop, request, consume, abort, time out | answers cut anywhere; death, exit, stop and kill in any order; a closed input | every request settles; nobody waits for the dead; no answer stays in the buffer |
| Preview loop | timer, absorbing loop, tokens, the picture on screen | a turn, a timer, a resize, a zoom, a comparison, an answer | renders overlap, supersede each other and answer late, for a photograph that may be closed by then | the picture is of the open photograph, never goes back, has at rest the size asked for |
| Editor store | document, history, busy, selection, portrait state | some forty methods, each with awaits | answers of one document adopted by another; overlapping opens; failed jobs | what is shown is what the engine has |
| Tools and panels | drafts, local copies, what the hand holds | presses, drags, fields, ticks, lists | answers that come in the middle of a gesture; presses past an edge; undo under the hand | a gesture adds up to one edit; a control does what it showed |
| Batch | the list, the index, a cancel flag | open, apply, export, close, per photograph | a target that is another photograph; any call failing halfway, or carried out after it was given up | no photograph spelt as its target is replaced by its own export; what is reported is on disk; one document at a time |
| Project file | archive, temporary file | save, load | operations and rasters copied one after the other; a crash between two steps | a save is there whole or not at all |
| Documents and caches | stacks, stored masks and patches, three caches | open, close, store, render, export, save | closed under running jobs; caches filled while the stack changes | a picture is the one its operations make from nothing |
| Library, batch desk, catalogue | tiles, queue, cached JPEGs, stars, selection, recent lists, ties | list, thumbnail, prune, mark, export, open, save | folders left with calls in flight; reloads; files other programs change | a tile shows its file; a window waits only for a run there is; work replaces its source |
| Start-up | parked path, engine state, page | launch, hand over, load, bootstrap | a path that comes before the page listens, or across a reload | what was handed over is opened |
| Models | sessions by model | load, run, unload | one mutex is held across the whole of `Acquire`: nothing interleaves | loaded once |
| Pixels, colour, decoders, encoders | none of their own | arithmetic and libraries | numeric | outside the reach of these tools |

The engine answers edits on its reader thread, one after another; opens, saves,
renders, exports and inference are jobs. The main process forwards the
renderer's requests, and is the only one to know the session. The engine is
started once; nothing calls `restart`.

The hazards this structure is exposed to are listed in `PROJECT.json`, each at
the line where it bites, with the properties that cover it and a note on what
they leave out.

## Modules

| Module | Kind | Of |
|---|---|---|
| `JobQueue` | component | `jobs/job_queue.cpp`, the task lambda of `Engine::Dispatch`, the reader of `main.cpp` |
| `Documents` | component over `Geometry` | `engine/document_store.cpp`, the jobs of `engine/engine.cpp`, `project/project.cpp` |
| `Geometry` | operators | `FoldGeometry`, the orientations, and where the renderer reads each output point |
| `GeometryReplay` | component over `Geometry` | geometry operations applied one after another |
| `Layers` | operators | `FoldLayers` |
| `EditTimeline` | abstract specification | what `edit_stack.h` promises |
| `EditStack` | component over `Geometry`, `Layers`; implements `EditTimeline` | `edit/edit_stack.cpp`, the edit handlers, `Slider.tsx` |
| `EngineClient` | component | `engine/engine-client.ts` and its peer: `main.cpp`, `protocol/*` |
| `ProjectSession` | component | `ipc/session.ts`, `ipc/handlers.ts`, `main.ts`, with the engine's save and open jobs |
| `Batch` | component | `ipc/batch.ts`, `ipc/library.ts` around it, and the engine's side of its calls |
| `PreviewLoop` | component | `Canvas.tsx`, `lib/preview.ts`, the rendering half of `store/editor.ts` |
| `EditorStore` | component over `Layers` | the rest of `store/editor.ts`, the handlers that answer it |
| `Library` | component | `LibraryTile.tsx`, `store/library.ts`, the thumbnail handler and its cache |
| `BatchDesk` | component | `LibraryView.tsx`, `BatchDialog.tsx`, `lib/library.ts`, and the flags of `ipc/library.ts` |
| `Catalogue` | component | `store/database.ts` and the handlers that write it |
| `Startup` | component | `main.ts`, `preload.ts`, `App.tsx`, `windows/main-window.ts` |
| `LibraryWindow` | composes the four above | |
| `Lists` | operators | `filter` on a list, as the code applies it to lists and tables |
| `CurvePanel`, `CropTool`, `BrushTool` | pointer tools | `CurvePanel.tsx`, `lib/curves.ts`; `CropOverlay.tsx`, `CropPanel.tsx`, `lib/viewport.ts`; `BrushOverlay.tsx` |
| `ResizePanel`, `RawPanel`, `LayerPanel`, `PresetShelf`, `EnhancePanel`, `ExportDialog`, `HistoryRows` | panels | the component of that name, with its helpers in `lib/*` and its methods of `store/editor.ts` |
| `Tools` | composes the ten above | |
| `*Proofs` | proofs about the module of that name; `GeometryProofs` also about `GeometryReplay` and `Tools`, `EditStackProofs` about `EditorStore`, `BatchProofs` about `LibraryWindow` | |
| `MC*` | instances for TLC | |

Definitions whose comment starts with "Broken variant" are what a plausible bug
would make of the definition below them. No specification uses them; they are
there to show that each property can tell the difference, and a property that
joins several has a variant for each part.

### JobQueue

An action is one critical section, or one step outside the lock that another
thread can observe. A worker goes *awake* (evaluates the wait predicate) →
*asleep* or *taken* → *body* → *answered* (response written, lock not taken yet)
→ *released* (budget returned, `notify_all` to come) → *awake* or *exited*. The
reader is *reading*, *notifying* (after `Submit` unlocked), or in the three steps
of shutdown. So the window between an unlock and the notification, between a
token read under the lock and the task's own look at it, and between a response
and the refund are states of the model.

`live` is the set of entries whose token can be found (`live_` and `keys_`),
`cancelled` the tokens set, `charged` the entries whose estimate was counted.
`Recurring` requests may be submitted again once their job is gone: they stand
for the endless stream of previews. Abstracted: what a task computes and how it
ends (either way it writes one response), job events, the statistics.

### ProjectSession

The main process has one thread: an action is a handler up to an `await`, or its
continuation. A call is sent, snapshotted by the engine (`SaveProjectJob` copies
the stack when it runs), published to disk, answered, and consumed in the order
the engine wrote its responses (`inbox`). The engine can die, the main process
can crash anywhere; the disk (`file`, `marker`) stays.

A document's content is a *work* and a *version* from a global clock, so the
model can say which of two contents is newer. Undo, redo, seek and reset mark
the session as an edit does, and stand under `Edit`. `secured`, `rescued` and
`dropped` are history variables.

Simplifications: one open in flight at a time (overlapping opens belong to the
renderer's store); an edit acts on the session's document; a request made while
the engine's input is closed counts as refused; calls do not time out; a project
file is written in one step; jobs still draining after a crash of the main
process leave no trace; closing the last window ends the application, on every
platform but the one where `window-all-closed` does nothing.

`Patient` restricts the user, never the program: a patient user answers the
recovery card before working, and waits for one save, open or edit to finish
before the next. Autosaves, failures, vetoed quits, a dying engine and crashes
stay free. The run `session` has `Patient = TRUE`;
`session_raced_save` has it `FALSE` and shows what an impatient user runs into. The
theorems are proved for either value, except the three that assume `Patient` in so
many words.

### Geometry and GeometryReplay

`Geometry` translates the fold one operation kind at a time (`Rotated`,
`Straightened`, `Reorient`, `Resized`, `Cropped`) and, separately, where the
renderer reads each point of the output (`At`, from `RenderEdited` and
`StraightenTo`). Points are exact rationals: an angle is a Pythagorean triple
`[s, c, d]` with sine `s/d` and cosine `c/d`, which makes every comparison an
integer one; rounding is where the code rounds. Left out: resampling filters,
preview fitting, and the reduced buffer that a small preview of a straightened
frame goes through, which costs a rounding of its own.

`GeometryReplay` applies operations one after another and compares what is shown
before and after. A crop's rectangle comes from `clampRect`, so it lies inside
the picture. A crop keeps each corner within a pixel of the photograph of where it
was chosen; a choice thinner than half such a pixel, which an enlarged picture
allows, within two, because its rounded start and its whole pixel add up
(`HalfAPixel`).

### Layers, EditTimeline and EditStack

`Layers` replays operations into the layer stack. A layer is an identifier, a
kind, and the last value given to each of its settings; values are opaque,
because the fold only stores them.

`EditTimeline` is a user's view of a history: a past, a future; recording
abandons the future, amending rewrites the newest entry with one of its own kind,
moving never loses anything. Saving and reopening is a stuttering step of it.

`EditStack` is the engine's list with a cursor and identifiers, the check of
`ApplyEdit` in front of it, and the slider behind it: a slider raises its
*dragging* flag with the first frame and sends it with every later one, without
waiting for an answer; any pointer-up, cancel, blur or key-up lowers it. The
renderer's requests reach the engine in the order they were made. `Elsewhere` is
what every other request does to a gesture: nothing, which is why the history
variable `disturbed` exists. Bounds: `MaxEntries`, `MaxId`.

### Documents

An action is one critical section of a document's mutexes, or what a worker does
between two of them. A job copies the active operations when it starts; a preview
then asks the base cache (*base*), decodes or reuses the development (*decode*),
keeps the base (*keep*), and for each kind of raster finds or fits it and keeps
what it fitted, so any other job may run between a lookup and the entry it makes.
A save copies the operations, then the patches, then the masks, and writes a
temporary file that is published by a rename; each step can be the last one
before a crash, which is why `ProjectIsWhole` is an invariant of the disk.

An operation carries the geometry of the stack up to it, which the code folds
anew each time it asks; a raster carries `which`, a history of what was stored,
so that "the raster an operation meant" can be said. Masks and patches live in two
stores of the same shape and are rasters of two kinds. Amending and resetting
are `EditStack`'s; fetching a mask, analysis and the face detector only read;
the denoiser is reached by nothing. Decoding a raw file and decoding it again for
a white balance are told apart by the balance only.

### EngineClient

The main process's end of the pipes, and the child as its read loop shows it. The
child writes frames one after the other (`wire`, positions in bytes: `written`);
a chunk of any length moves `got`, and every frame it completes is cut out, which
moves `base`. So a frame arrives cut anywhere, several in one chunk, or half of
one after the process is gone. `need` is `#need`, and nothing is looked at before
that many bytes are there. A length over the limits aborts the stream; the limits
are constants, and a frame's contents are only whose answer it is.

`proc` keeps apart what Node keeps apart: the process is *gone* before `'exit'` is
delivered (*exited*), data may come out of the pipe until then and later, and a
request may be written meanwhile, into nothing. When a buffer is dropped in the
middle of a frame, what follows is `skewed`: rubbish, of which the model keeps
only that it may abort the stream again. `stops` counts the `stop()` calls waiting
for the exit or for their two seconds; there may be several, since every
`before-quit` makes one. `restart()` is left out: nothing calls it.

### Batch

The loop, its await points as steps: *next* (no await: the cancel flag, the path
guard, the target), *opening*, *working* through the operations and the export,
*closing*. At each of them the call is answered, fails, or times out; a call that
timed out stays in `abandoned`, and the engine may carry it out at any later time,
in any order. Meanwhile the engine may die, the user opens and edits a document,
files vanish, and a cancel sets the flag. `FileOf` says which file a path names, so
that two spellings can be one; `disk` maps files to pictures, and a picture is what
it was made from, its size, and whether it carries the look. An export that has
begun keeps its document alive (`engine.cpp:1011`), so one given up may still write
after `image.close`.

### PreviewLoop

The canvas's timer, the loop that absorbs whatever comes while it renders, the
size it asks for, and `requestPreview`, against an engine that cancels by key and
reads the stack when the render starts. React runs the effects of a change of the
store before the next task, so they are part of the action that makes it.
A portrait sample is asked for under the live preview's key and cancels it; only
the comparison has a key of its own. `busy` is one field for the whole store:
opening a photograph (`OpenAsked`, `OpenGivenUp`, `Close`, `Opened`) and the calls
that hold it (`JobBegins`, `JobEnds`: an export, faces, a segmentation, a fill)
write it as well, whatever is being rendered, and a render, a sample or an opening
may fail at any time. `since` is a history variable: what happened since a live
render was last asked for, namely that another call wrote `busy` (`spoke`) or that
a render failed that nobody repeats (`failed`). Left out: heights, which follow the
widths, pixels (a picture is the version of the stack it was made from), and two
openings that overlap.

### EditorStore

A method is split at its awaits. Calls about the stack are answered in the order
they are made, jobs in any order; every answer reaches the store through one
queue. `tangled` is raised when two opens overlap, after which the store and the
session can name different photographs for good: the properties leave those
behaviours out, and the disagreement is listed below. `pending` is the move the
panel shows on top of the engine's stack.

### LibraryWindow: Library, BatchDesk, Catalogue, Startup

Four components that meet in the window and share no state two of them write, so
a behaviour is one part's (`part`), and each part keeps its own invariants.
`Library` follows a thumbnail from the tile to the cache on disk and back;
other programs change the files, and the application restarts. `BatchDesk` is the
dialog and the two flags of the main process, across reloads of the page.
`Catalogue` is the three tables behind the recent lists, across crashes and moved
files. `Startup` is how a page comes up: the parked path, the pushed one, and
the bootstrap answer; messages to one page arrive in the order they were sent.
Left out of `Startup`: windows after the first (macOS), the second mount React's
strict mode makes in development, and the recovery offer, which is offered again
after a reload. The bootstrap does not carry the dirty mark.

`Turned` is one turn of the store's `pump`, and `Pumped` its loop, a function on the
turns; `Kept` of `Lists` is `filter`, a function on the prefixes of a list. Both are
written so because the proofs follow them one turn, one element at a time. The
assumptions say what the code takes for granted of its surroundings: a folder is
listed without a name twice (`readdir`), and no photograph is the same as none.

### Tools

Ten tools and panels, each for one small document, composed the same way. Each
keeps what the component keeps for itself (a draft, a local copy, what the hand
holds, ticks) beside the stack that answers it. `CropTool` and `BrushTool` use
`Geometry` for what an edit does to the frame and to the masks painted on it: a
crop whose frame was left behind by a rotation goes to the engine like any other,
and the engine refuses it when nothing would be left (`Empties`,
`engine.cpp:513`). `CurvePanel` has the round trip: a move is shown as the pending
one, the engine's stack changes in the order it is asked, and the next answer,
whatever it answers, takes the pending move off (`Commit`, `CurveAnswered`). In
`BrushTool` each of a stroke's three requests may fail (`StoreFailed`, `EditFailed`,
`FetchFailed`).

## Runs

`tlc -config X.cfg M` in this directory. *Passing* runs check what the code does
right; the *violation* run checks one sentence of the repository and ends in a
counterexample. A property that joins several (`QueueInOrder`, `WindowInOrder`,
`ToolsInOrder`, `BatchInOrder`, `StoreInOrder`) names each of them in its module.

| Run | Instance | Shows |
|---|---|---|
| `job_queue` | 2 workers; two previews of one key, a save as large as the budget, an export larger than it | safety under cancels, superseding and shutdown at any moment; every request is answered; shutdown completes |
| `session` | 3 documents, 1 project path, 2 calls in flight, 2 edits, 2 autosaves in flight, 1 crash | clean means saved, leaving keeps the work, the net holds |
| `geometry` | a 12 x 8 photograph; stacks of up to 4 operations; angles of sine 5/13 and 3/5 either way | each operation acts on what the screen shows |
| `edit_stack` | 12 x 8; 3 entries; 11 operations; 2 sliders | it is the timeline; every point of a history renders and has its layers |
| `engine_client` | 2 requests, one event; headers of 1 to 3 bytes with a limit of 2, payloads of 0 to 4 with a limit of 3; 2 stops | promises settle, and the parser keeps up |
| `batch` | 3 batches over a raw file, its JPEG, a JPEG spelt in capitals and a broken file; 3 documents, 1 timeout, 1 edit by the user | what is reported is true; nothing spelt as its target is replaced by its own export; documents are closed |
| `documents` | 2 documents, 2 workers, a 6 x 4 raw file; 2 edits, 2 rasters, 2 jobs; two preview sizes | a picture is its stack's, a project on disk is whole, rasters stay |
| `preview_loop` | 2 edits and one of: a zoom, a comparison, a sample, a job, another photograph asked for; two frame widths | pictures are of the open photograph, never go back, and have at rest the size asked for; `busy` is the newest render's until another call writes it, and nobody leaves it behind |
| `editor_store` | 2 documents, 2 gestures, 1 slider, 1 layer control, 2 portrait tools | what the store shows is what the engine has once nothing is in flight, and of the right document before |
| `library_window` | 3 photographs in 2 folders, one that does not decode, one place in flight, a cache of one; 2 runs, a stop, a reload; 2 projects and a slot; 2 photographs handed over | tiles, batch, recent lists and start-up are in order |
| `tools` | a curve on a grid of 6 with two gestures and two answers on their way, a 6 x 4 photograph, 2 strokes, 2 resizes, three values per knob, a histogram of six marks | gestures add up, controls keep their word, lists are true |
| `session_raced_save` | violation, impatient user | an edit during a save counts as saved |

Why the bounds are enough:

- *JobQueue.* Two workers are one between its unlock and its notification, or
  running, and one asleep, which is what a lost wake-up takes. Two jobs of a
  key, one that fits with another, one that fits only alone and one that never
  fits reach every branch of admission. No symmetry, because liveness is checked.
- *ProjectSession.* The longest known trouble takes a photograph, its
  replacement and the recovered one (three documents), a save beside an autosave or
  two autosaves (two calls), an edit on each side of it (two versions) and one crash
  between.
  Documents and call slots are interchangeable; no liveness is checked there.
- *Geometry.* The properties compare one step with the next, so what matters is
  the variety of geometries a stack of three can leave, in front of a fourth:
  crop after angle after resize after flip and so on. The spans include a pixel in
  the middle, which of an enlarged frame is less than half of one.
- *EditStack.* Two crops in a row can empty a frame; a rewritten angle can change
  what a crop after it would have seen; layers are added, adjusted, named after
  removal and moved below the background; three entries hold an undo of two with
  a gesture on top.
- *EngineClient.* Two answers and an event are three frames on the wire, enough for
  a chunk that ends one frame, holds another and begins a third. The sizes are an
  empty payload, a frame at both limits, and one over each. Two stops, because the
  first to give up resets the flag the second one set.
- *Batch.* Every path an export can go to is one of the five files, one of them not
  there at first and one with two spellings. Three documents are a batch of two and
  the user's, or two of one and one more. One call that times out suffices for a
  document nobody closes, for an export that lands after its batch and for one whose
  document is closed under it.
- *Documents.* A stale cache takes one job that fills it and one that reads it,
  with an edit between them (two jobs, two edits: a turn, a mirror, a balance or
  a placed raster); a lost or replaced raster takes one that was saved and one
  made after the project was opened again (two rasters, two documents). Documents
  and workers are interchangeable.
- *PreviewLoop.* Superseding takes two renders of one photograph, going back
  three versions of a stack; a comparison, a sample, a zoom, a job or another
  photograph, opened or given up, crosses them.
- *EditorStore.* Two gestures with every continuation in between are what two
  overlapping methods take; two documents, one to be replaced by the other.
- *LibraryWindow.* One place in flight and two photographs make one wait; a
  second folder leaves calls behind; a cache of one prunes at once. Two runs, so
  that a stop can be late for the first and early for the second.
- *Tools.* Each tool's own instance is the smallest where its cases meet: points
  nearer than the spacing, presses past an edge, a stroke before the reply to
  the one before, a store, an edit or a fetch that fails, a size that locks to a
  ratio and one that rounds, rows of another build, every measurement of a coarse
  histogram. Two gestures on the curve place two points between its ends and drag
  one against the other; with two answers on their way a frame of the drag is
  answered while a later one is asked for, and an undo or an edit before the press
  answers in mid-drag. Two gestures never fill a curve, which the properties leave
  out.

`CHECK_DEADLOCK FALSE` where the system may stop: an application that has
exited, anything at a bound. `JobQueue` and
`EngineClient` check for deadlock, with a stuttering step for a stopped engine and
for a child whose exit was delivered.

**Fairness.** In `JobQueue`, `FairSpec` asks for weak fairness of
each worker and of the reader's own obligations (`notify_one`, `notify_all`,
joining): the operating system schedules threads, and tasks end, which the tasks'
own loops guarantee. Nothing makes a request, a cancel, a closed pipe or a
spurious wake-up happen. `EveryRequestAnswered` is checked for a finite stream of
requests; with an endless stream of small overlapping jobs an oversized one is
passed over for ever (the code admits it only when nothing runs).

In `EngineClient` the child takes and answers requests and leaves at the end of
its input (what `JobQueue` shows), and the operating system delivers bytes and
events. No timer fires, no stop is called and nobody dies by fairness:
`CallsSettle` does not rest on the two minutes of a request's timer. In `Batch`
the loop is not stuck for ever at an await, since a call that gets no answer times
out; which of the three happens is open, and the engine need not come back.

In `LibraryWindow` only the engine's answers to thumbnails are fair (`Answers`):
they are jobs, and `JobQueue` shows that each is answered. Nobody scrolls, clicks
or opens anything by fairness.

## Proofs

Checked by `tlapm` from the assumptions named in the modules (finite workers and
calls, keys, estimates and requests of the right type, a photograph with at least
one pixel, angles that are angles, targets that are paths) and nothing else.

**JobQueueProofs.** `TypeCorrect`, `AnsweredOnce`, `Accounting`, `Admission`,
`FreeRiders`, `Coalescing`, `Wakeups`, `ShutdownDrains`, for any number of
workers, jobs, keys and any budget, and their conjunction `BooksBalance`, which is
what the run checks. The invariants are not inductive one by one:
that a running task was charged needs that its token was clear when it was
taken, that coalescing holds needs that every job with a worker is tracked
until it is released, and that shutdown drains needs that workers leave only
from an empty queue. `IInv` adds these as `Tracking` and `Leaving`. Accounting
is an equation between a counter and the cardinality of the units held; the
lemmas on disjoint unions carry it through `Take` and `Release`.

**ProjectSessionProofs.** `TypeCorrect`; `CleanIsSaved`, `LeavingKeepsWork` and
`NetStaysUp` for a patient user; `AutosaveKeepsOff` for any. `CleanMeansSaved`
relates the session to a file; it needs that a save in flight was snapshotted from
what the session still holds (`SavesAreCurrent`), that what is being opened is
unchanged since (`LoadsAreCurrent`), that a patient user has one thing in flight
(`OneThingAtATime`), and that calls are well-formed in each phase.

`NetStaysUp` says that a crash leaves what the last answered autosave wrote, or
newer, in the slot or in a project. The timer waits for no answer, so several
autosaves may be in flight and the older may be published over the newer: what an
autosave promises is one of `copies`, its own and those that were still to be
written when it copied its document. Two that write together spoil the temporary
file they share; no autosave answered by then promises anything. The invariant
adds `NetInv`: what is secured, what an autosave carries and the engine's content
are versions of one work, and whatever is still to be written is no older than what
an answered autosave promises (`CopiesInOrder`); no version is from the future; an
autosave in flight is never of the document that is about to replace the session's
(`FreshLoads`); and while the timer runs, a file holds one of the copies secured,
and one of those an answered autosave is about to secure (`NetKept`).

**GeometryProofs.** `TypeCorrect`: a stack of any length leaves a pixel to read
and to write, so neither the fold nor the renderer divides by zero. `TurnsAreTrue`
and `FlipsAreTrue`: a quarter turn or a mirror of any stack shows the same points,
turned or mirrored. Their heart is `ReadBack`: composing orientations in one
representation and mapping points in another agree, for all eight. `AngleForgets`:
only the last angle counts. `CropKeepsTheScale`: a crop changes the scale of a
resized picture by the rounding to whole pixels (`RoundedIsNear`). `CropIsTheChoice`:
an upright crop leaves what was chosen. One axis of the raster at a time, rounding
moves the two ends of the choice by at most a pixel (`ChoiceFollows`), clipping and
mirroring no further (`EndsFollow`), and the rendered corners stand over a common
denominator (`ReadingsNear`). `PointRead` and `RectRead` say which axis of the screen
that is, for all eight orientations. `AngleTurnsClockwise`: the way across the turned
picture points above the way down the upright one, a product of six positive numbers
negated. `EditsAreTrue` joins these: every step of any stack, on any photograph, does
what it says. `FrameStaysInside`: no edits show what a crop removed, or an empty corner. Its inductive invariant is
`FrameIsInscribed`, that the frame is always the one inscribed in what was kept:
`TurnedFits` bounds what rounding its sides down leaves of the turned frame's span,
`TurnedCorner` the corners by that span, and `AxisInside` adds the centring.

The same file proves of `Tools` what rests on the shape of the photograph, and the
panels beside it, in steps of one tool while the others stand still.

- `FrameIsTheHands` and `ToolsMakeSense`, for any photograph, smallest crop, ratios
  up to two to one (`CropAssumption`, from the list of `CropPanel.tsx`) and any
  places of the pointer. The invariant `CropInv` says that every prefix of the stack
  leaves an upright photograph with a pixel in it (`AllPlain`, which is what the
  engine's refusal is for), that the frame has pixels and lies inside while the
  photograph keeps its shape, and that what the hand holds was taken from the
  photograph on screen (`GripIsTrue`). A pull stays inside before it is rounded
  (`PulledInside`), so the clamp undoes nothing (`ExactStays`); under a ratio the
  exact rectangle is a fraction, and one side at a time rounding keeps the end it is
  anchored at, or moves it by a pixel (`SideFromLow`, `SideFromHigh`); of the two
  sides only one is rounded, which is what the ratio is off by (`RatioRounded`,
  `AspectKept`). That a confirmed crop comes out at the frame's size is
  `CropIsTheSize`, for all eight orientations.
- `PaintIsTrue`: until a request fails, the strokes, each waiting for the one before,
  are in the mask; and the overlay shows the mask, but for an edit whose answer failed
  and for a canvas during which a request failed. The engine does the mask's requests
  and the edits in the order it reads them (`engine.cpp:276`), so the answers are one
  queue, and the invariant `BrushInv` is about it: the last history in it is the newest
  stack, unless that answer failed (`UpToDate`), a raster is given its number once (`StoredOnce`) and has one natural
  size wherever it is used (`OneSize`), what is fetched for the canvas on screen is
  the mask on screen (`FetchesAreRight`), and the buffer is that mask, or an answer is
  on its way after which it will be seeded from it (`Coming`, `Seeded`), unless a
  request failed since the canvas was made. While nobody hurries and nothing fails, a
  stroke goes alone over a buffer that is what the user wants
  (`PaintAdds`). The stack's fold is a function on prefixes, like that of `EditStack`.
- `ControlsAreTrue`: `PanelsInv` joins one invariant per panel. A draft that stays
  after its field was left has an answer on its way that changes the size
  (`DraftIsOwed`); until drags and answers cross, the knobs shown are those meant, and
  those meant the last ones sent (`KnobsFollow`); every fill on its way says what was
  picked last (`PicksAreSent`); every export says what its box showed (`WorthIt`).

**EditStackProofs.** `TypeCorrect`, `InOrder`, `IdsStayAway`, `GesturesAreSteps`,
and the refinement `ImplementsTimeline`, for any set of operations and histories
of any length. The invariant is the type, the order of identifiers, and
`GestureOnTop`: while a gesture goes on undisturbed its entry is the newest and
nothing is left to redo. For the refinement, the cursor cuts a list in two
(`CutFacts`), and wherever it cuts, the two halves joined are the same list
(`CutAndJoined`): so a moved cursor loses nothing. Pushing is recording,
rewriting is amending, reopening is stuttering.

`PointsRender` and `PointsHaveTheirLayers` are about replays of any length. A fold
is a function on prefixes, so first it is shown to exist and to take one step for
one operation more (`ShapedByOneMore`; a least prefix where it failed would have
one before it). A push is then what `ApplyEdit` checked. A rewrite is not: the
check had the old entry *below* the new one, and `GestureReplaces` says why that is
enough, namely that among the gestures only an angle shapes the picture and the
last angle counts (`SliderAssumption`, from the components that hold a `Slider`).
For the layers, each step keeps `Stacked`: background first, the others removable
and numbered apart below the next number (`RearrangedInPlace` for removing and
moving). `RequestAssumption` says that nobody adds a second background; the
renderer does not, though `LayerKindFromName` would read one
(`edit/layer.cpp:48`).

The same file proves the four invariants of `EditorStore`, because its panel shows
the layers whose facts these are (`StackedWell`); the names of the two components
are apart. `StoreIsSane` is their inductive invariant, `Sane`. Whatever happens, a
name on the status bar has a call in flight that will take it back (`Named`), and
the crop and the brush are not both out. The rest is about the queue of answers and
holds until `tangled`. Every answer names a document that is on screen, was closed,
or is about to be opened (`Placed`); at most one opening is in flight, and at most
one close of what it replaced, which comes before the next opening's answer
(`OneOpening`, `OneClose`). An answer whose layers the panel will take over is about
the document on screen, or stands before the close that takes that one away
(`InTime`), so the panel never shows a stack of another photograph (`OnShow`). The
session is the last document that was opened, of those still in the queue and the
one on screen (`Held`). And the panel either shows the engine's stack or the newest
of the answers it will take over carries it (`Followed`): the queue is in order, so
the last word is the engine's. A move of the panel's own waits for the answer that
will clear it (`Awaited`). At rest the queue is empty, and the properties are what is
left. Every method of the store is a lemma of its own, first for the world it makes
(`AdoptedSane`, `InstalledSane`, `ReplacedSane` and the like), then for the state.

**EngineClientProofs.** `TypeCorrect`, `NobodyIsLeftWaiting` and
`ParserNeverStalls`, for any requests, frame lengths, limits and chunks. What the
parser takes for granted of the stream is the strengthening: until a buffer is
dropped in the middle of a frame, it begins where a frame begins and the frames
follow one another without a gap up to `written` (`Chained`); so cutting out the
first *n* whole frames leaves a buffer that begins with a frame, and the next
`need` is that frame's.

**PreviewLoopProofs.** All four of its safety properties, for any number of
overlapping renders, photographs, sizes, zooms and canvases. `PictureStays` and
`PicturesGoForward`: a render that may still show its picture is the newest by its
token, and was asked for the document that is open; the pictures owed carry
versions no older than the one on screen. `RestIsTheSizeAsked` and `BusyIsTrue` are
about what is *absent* at rest, so their invariants say what is still owed:
`SizeIsOwed`, that whenever the picture has not the size that the view and
`interacting` call for, something (the timer, the loop, a render that was not
superseded) will ask for it, or a render failed that nobody repeats;
`BusyWhileOwed` and `BusyIsOwed`, that `busy` says rendering while a render is owed
that will clear it and no other call has written it, and otherwise only while the
stack is newer than the picture or after such a failure; `BusyIsHeld`, that what
another call wrote is still that call's to clear. Neither theorem says that the
picture is sharp once the hand is off a slider: it is not (see the disagreements).

**DocumentsProofs.** `CachesAreInvisible`, `SavedProjectsAreWhole` and
`RastersKeepTheirNumbers`, for any number of documents, workers, rasters, shapes
and balances; `Consistent` is the invariant they share. Stored rasters only grow
and are told apart by their number (`ToldApart`), so what a stack names stays
known and stays what it was. Each of the three caches holds what *its own key*
makes, whoever filled it and whatever the stack has become since; a worker between
a lookup and its entry carries the key it looked up. So a picture put together from
any mixture of cached and made parts is the one its operations make from nothing.
For the project, operations are copied before rasters and rasters only grow, so
the copies of a save are closed under naming; one saver owns the temporary
archive (the model has one save of a project at a time), and the path changes only
by its rename.

**BatchProofs.** `AccountsBalance` and `ReportsAreTrue`, for any folders, lists,
requests, sizes and number of timeouts. Numbers of documents are given once
(`Ids`), so a call carried out late is never for the user's document nor for the
one at hand. No abandoned export, begun or still to begin, is to the path of what it
is made from (`LateCalls`), which a document's path and the guard at the time of the
call decide. Paths and files are tied by any function `FileOf`; where it gives two
paths one file, a photograph may be replaced through the other spelling (`Respelt`),
and the theorem says that it is replaced in no other way. Every
document nobody will close took a timeout, and so did every open still to be
carried out, which may make one more (`OrphansCounted`, an inequality between
cardinalities). What was applied and what is still to apply are the operations
asked for (`Unfolds`), so at the export all of them are in; `PromiseKept` then
bounds the rounding of `Scaled` and finds the one resize among them.

The same file proves the four safety properties of `LibraryWindow`, in
steps of one part while the others stand still. `WindowInv` is one inductive
invariant per part.

- *Tiles* (`LibraryInv`), for any files and folders, places, cache and bounds. A
  place held has a call behind it whose answer will free it (`AnswersCome`), and a
  queue is only left when all places are taken; so no tile asked for is forgotten
  (`NoTileForgotten`), whatever folder the answers are of. The loop of `pump` sends
  and drops from the front until it is full: `PumpedIsPumping` shows that the loop
  exists and takes one turn for one element more, `PumpedByTurns` that what every
  turn keeps the loop keeps, for queues of any length. For `TilesShowTheirFiles`,
  an entry of the cache has the picture its name says (`CacheIsTrue`), an answer on
  its way for the folder on screen is no older than its listing (`CallsAreFresh`),
  and no listing is of a time to come (`ListedBefore`). The stars of the listings on
  their way agree with the database too, not only those on screen (`StarsAgree`).
- *Desk* (`DeskInv`). A window that shows a run waits for exactly one thing
  (`WaitsForOne`): its call to the main process, its run at work, or the answer that
  ends it, one of the three and never two of them; after a reload, for none. What
  "one" means of a queue is `OneOf` and `NoneOf`, with lemmas for adding at its end
  and taking from its front. The main process has the calls in the order the runs
  were asked for (`InOrderOfRuns`), which is why a stop cannot reach a later run
  (`StopsAreTheirRuns`).
- *Catalogue* (`CatalogueInv`). A list stays one without doubles, within its limit,
  when a path is put in front and the end is cut (`RememberedList`), removed, or
  filtered (`AliveList`); `ListsKept` and `TablesLoseNothing` say what it may lose. A
  save that no opening crossed is of the session's own photograph
  (`SaveIsOfTheSession`): without it a tie could be another photograph's.
- *Start-up* (`StartupInv`). Of the messages on their way to a page the last that
  tells a state tells the engine's (`StateComes`), and what was handed over last is
  lost, still to be claimed, told by the last message that tells to open something,
  or was opened with no such message left (`ShotComes`). With nothing on its way,
  that is the property.

**Only model-checked.** Liveness (fairness and ENABLED are outside the prover),
`AskedIsAnswered` of the tiles among it. Of `Tools`, what a curve, a list of presets
and the rows of the history become: `sort`, `filter` and a fold over a list make
them (`SetToSortSeq`, `SelectSeq`, `FoldLeft`), and what those compute for every list
is an induction over data (`ListsAreTrue`, `GesturesAddUp`, and of `ToolsInOrder` the
curve, the proposals and the types). The models contain no `RECURSIVE` operator: a
fold that is proved about is a function on the prefixes of its sequence, the others
use `FoldLeft`.

## Disagreements between the code and what it says

One is a run that fails, with the sentence it refutes quoted in `PROJECT.json`: a
save clears *dirty* after its await, whatever was edited meanwhile
(`ipc/handlers.ts:118`). The others were met while modelling; the properties
leave out the behaviours where they happen, and the hazards say so.

*Session and files.* `before-quit` clears the slot, stops the autosave and closes
the engine and the database before the close guard asks; a cancelled quit goes on
without any of them (`main.ts:219-223`). Taking recovered work deletes its only
copy on disk (`handlers.ts:294`). An autosave answered after a save fills the
slot with what was just saved (`main.ts:59`). The timer starts an autosave whether
or not the one before was answered (`main.ts:169`): with two in flight the older can
be published over the newer, and two that write at once share one temporary file
(`project.cpp:149`) and can leave a slot nobody can read. One that the host gave up
after two minutes (`engine-client.ts:29`) may still be published; that is not
modelled. The recovery card's offer can be
replaced before it is answered. The slot enters the recent list, opened from
there it becomes the session's own path, and `saveTo` then deletes what it wrote
(`handlers.ts:107-124`, `288-297`); `saveTo` reads the session's source after its
await. A path handed over between bootstrap and the end of loading
is lost, and so is a second instance's before the window exists (`main.ts:117-131`);
a pushed path stays parked and the next reload opens it again.

*Engine.* `document_store.cpp:181` moves the bytes of a file out, and line 187
then reads the EXIF block from them: `document->exif` is always empty, and an
export that promises to preserve metadata carries none. A patch from the model is
measured in the picture the model saw (`engine.cpp:934-937`), although
`patch.h:18-21` says natural coordinates (`PatchesLieWhereTheyWereMade`, which
TLC refutes on the instance of `documents`). A preview copies the stack when its
job starts, although `engine.cpp:959` says as of the request. A crop of a
straightened photograph moves its centre by the angle in one direction, while the
renderer turns the frame in the other (`operation.cpp:211`); such a crop becomes
the base of later angles although, read as upright, it can lie outside the
photograph (223). One scale serves both axes of a straightened frame
(`resample.cpp:353`). A mirrored photograph turns the other way under the angle
slider. A mirror or a turn by 180 degrees after painting a mask leaves it
misaligned (`edit.ts:102-105`, `engine.cpp:641-649`). Cancelling a queued job
wakes nobody, so an idle worker sleeps through it (`job_queue.cpp:104`); a
response leaves before its budget returns (160). An undo in the middle of a
gesture lets the next frame rewrite an entry of an earlier one.

*Batch and library.* A batch compares a target with its own source only: a raw
file's JPEG replaces the camera's (`batch.ts:56`); two photographs with one name
share a target. It compares their spellings, while a photograph opens whatever the
case of its extension (`paths.ts:43`): on a disk that ignores case A.JPG is replaced
by its own export, "the one thing a non-destructive editor may never do"
(`batch.ts:57-60`). The selection includes photographs the filter hides; after a
reload the bar of a run about to be refused follows the run left behind. The
limit of requests in flight is exceeded after a folder is left
(`store/library.ts:133`); picking the same folder again forgets queued tiles; a
star is not taken back when it fails; a late *cancelled* marks a tile unreadable;
a thumbnail is stored under the size and time the file has when it is ready.
`projectFor` is used by nothing.

*Editor store.* Overlapping opens leave the store and the session on different
photographs, and one document open in the engine for good (`editor.ts:558`); a
project adopted does not close the photograph before it (417). Portrait faces,
tools and suggestions survive another photograph (263, 558). The first drag of a
portrait slider makes several layers (897); after an undo it aims at a layer that
is gone (912). Removing the background twice stacks two mattes (1145). Several
methods read the document after their await. A failed edit leaves its move on
the panel, and an earlier answer can clear a later one's. Resetting acts on the
topmost layer rather than the selected one. Matte and patch layers cannot be
removed from the list. The settled preview may not show the newest stack after a
resize within the tolerance (`preview.ts:52`); the *before* picture may be of
another photograph (`editor.ts:191`). "The frame that ends the gesture is full
size" (`preview.ts:20-22`; `editor.ts:145-150` says the same), but no release of a
slider sends one (`Slider.tsx:71-77`), so the half-size draft of a drag's last
frame rests on the screen until something else is answered. An open dialog that is
dismissed, or a job that ends, clears `busy` while a render is owed
(`editor.ts:540`, 883), and a render that fails says so and is not asked for again
(672). A teeth sample that fails has cancelled the live render for good (476), and
`busy` then says rendering until the next edit or zoom.

*Tools and panels.* A curve of fourteen points loses its white point
(`curves.ts:46` against 14), and a point placed nearer than the spacing replaces
the end. The hand holds a point by its number (`CurvePanel.tsx:117`) on a curve
that any answer replaces (`editor.ts:365`): in mid-drag the curve falls back to an
earlier frame of the drag, and an undo, or an edit or an undo asked for before the
press and answered after it, leaves the hand on another point. A crop handle
pulled past the picture's edge grows the opposite side or breaks the ratio
(`CropOverlay.tsx:136`); the `-1` anchor collides with a frame at -1; rotating
while cropping leaves the frame behind. A stroke begun before the one before came
back loses its first dabs (`BrushOverlay.tsx:92`). A stroke that could not be stored
(`editor.ts:1075`), or that the layer was refused, stays on the overlay and is sent
with the next one; a mask that could not be fetched (`BrushOverlay.tsx:66`) leaves
the overlay blank, and the next stroke replaces the mask by itself. A failed resize leaves its
draft; leaving the field again asks again. An answer in the middle of a drag drops
a raw knob's local copy. Choosing a backdrop resets colour and blur
(`editor.ts:1115`). The blur slider makes one entry per frame. A plain *c* typed in
any text field toggles the crop (`App.tsx:149`). `touched` is always true in the
presets panel (48). A cast with a green outlier proposes temperature zero; an
overlapped second analysis proposes a correction again. The end of any export
closes whichever dialog is open. History rows are wrong when a preset was applied
with no layer selected (`history.ts:53`).

## Not modelled, and the plan

Left out for good: pixel and colour arithmetic, decoders and encoders (numeric,
or calls to libraries), SQL, presentation, plumbing that forwards one call as one
call. The model manager holds one mutex across the whole of `Acquire`, so there is
nothing to interleave. The archive's format and schema versions are libraries and
plain data.

Next, in this order:

1. Proofs: the curve and the proposals of `Tools`, once `sort` is a function that
   can be reasoned about.
2. A project saved twice at once, and a window that is closed while another opens.
