---------------------------- MODULE ProjectSession ----------------------------
(***************************************************************************)
(* What is open, whether it is saved, and the recovery slot: the Session   *)
(* and Recovery of the Electron main process (ipc/session.ts), the IPC     *)
(* handlers that open, edit and save (ipc/handlers.ts), the autosave timer *)
(* and the close and quit guards (main.ts), against an engine that runs    *)
(* project.save and the opens as jobs (engine.cpp).                        *)
(*                                                                         *)
(* The main process is single-threaded: an action is what a handler does   *)
(* up to an await, or the continuation after it.  Responses reach it in    *)
(* the order the engine wrote them (inbox).                                *)
(*                                                                         *)
(* A document's content is the work it belongs to and a version from a     *)
(* global clock, so "newer" is comparable across restarts.  The session's  *)
(* fileName is the work.  Undo, redo, seek and reset change the content    *)
(* and mark the session exactly as an edit does, and stand under Edit.     *)
(* A write goes through one temporary file per path, so two writes to one  *)
(* path at a time spoil each other (Torn).  Left to other modules: the     *)
(* pipe and its timeouts, overlapping opens in the renderer (one is in     *)
(* flight here).                                                           *)
(***************************************************************************)
EXTENDS Naturals, Sequences, FiniteSets, TLC

CONSTANTS
  Docs,          \* engine document ids; a photograph's work is named by its first
  Paths,         \* project files the user may save to
  Slot,          \* recovery.projectPath
  Calls,         \* places for calls in flight
  None,
  Torn,          \* a file two writers made at once: nobody can read it
  EditReply,     \* the response to edit.apply, undo, redo, seek or reset
  Patient,       \* the user answers the recovery card before working, and waits
                 \* for a save, an open or an edit to finish before the next step
  MaxVersion,    \* bound: edits in a behaviour
  MaxReplies,    \* bound: responses on their way
  MaxAutosaves,  \* bound: autosaves in flight (the timer allows any number)
  MaxCrashes     \* bound: crashes in a behaviour

ASSUME SlotAssumption == Slot \notin Paths /\ None \notin Docs \cup Paths \cup {Slot}
ASSUME CallAssumption == EditReply \notin Calls /\ IsFiniteSet(Calls)
ASSUME PatientAssumption == Patient \in BOOLEAN
ASSUME BoundAssumption == MaxVersion \in Nat /\ MaxCrashes \in Nat

VARIABLES
  content,    \* the engine's documents: what each holds
  file,       \* project files on disk
  marker,     \* recovery.markerPath: the work it names
  session,    \* Session: documentId, path, dirty, fileName
  call,       \* calls the main process awaits
  inbox,      \* responses not consumed yet
  dialog,     \* the modal dialog on screen
  card,       \* the recovery card: what the slot held at startup
  app,        \* the application's life
  engine,     \* the engine process: closing once its stdin is closed
  timerOn,    \* autosaveTimer
  confirmed,  \* closeConfirmed
  clock,      \* the newest version
  crashes,
  secured,    \* history: what the session's last finished autosave promises, one of these
  rescued,    \* history: the content taken from the slot, until it is saved
  dropped     \* history: the user chose to close without saving

vars == <<content, file, marker, session, call, inbox, dialog, card, app, engine,
          timerOn, confirmed, clock, crashes, secured, rescued, dropped>>

Content == [work : Docs, version : 0..MaxVersion]
Maybe(S) == S \cup {None}

ASSUME NoneAssumption == {None, Torn} \cap Content = {} /\ None # Torn

SaveKinds == {"save", "closeSave", "autosave"}
LoadKinds == {"open", "openProject", "take"}
NoCall ==
  [kind |-> "none", doc |-> None, target |-> None, snap |-> None, copies |-> {}, phase |-> "idle"]
Sent(kind, doc, target) ==
  [kind |-> kind, doc |-> doc, target |-> target, snap |-> None, copies |-> {}, phase |-> "sent"]

NoSession == [doc |-> None, path |-> None, dirty |-> FALSE, name |-> None]

SessionState == [doc : Maybe(Docs), path : Maybe(Paths), dirty : BOOLEAN, name : Maybe(Docs)]

\* copies is history: an autosave's own copy, and what the autosaves then still to
\* be written would write.
CallState ==
  [kind : SaveKinds \cup LoadKinds \cup {"none"}, doc : Maybe(Docs),
   target : Maybe(Paths \cup {Slot}), snap : Maybe(Content), copies : SUBSET Content,
   phase : {"idle", "sent", "taken", "writing", "mixed", "answered", "failed", "closing"}]

OnDisk == Maybe(Content) \cup {Torn}

TypeOK ==
  /\ content \in [Docs -> Maybe(Content)]
  /\ file \in [Paths \cup {Slot} -> OnDisk]
  /\ marker \in Maybe(Docs)
  /\ session \in SessionState
  /\ call \in [Calls -> CallState]
  /\ inbox \in Seq(Calls \cup {EditReply})
  /\ dialog \in {"none", "saveWhere", "guard", "closeWhere"}
  /\ card \in OnDisk
  /\ app \in {"running", "exited", "crashed"}
  /\ engine \in {"up", "closing", "down"}
  /\ timerOn \in BOOLEAN /\ confirmed \in BOOLEAN /\ dropped \in BOOLEAN
  /\ clock \in 0..MaxVersion /\ crashes \in 0..MaxCrashes
  /\ secured \in SUBSET Content /\ rescued \in Maybe(Content)

\* Recovery.offer: both halves of the slot are there.
Offered == IF file[Slot] # None /\ marker # None THEN file[Slot] ELSE None

Init ==
  /\ content = [d \in Docs |-> None]
  /\ file = [p \in Paths \cup {Slot} |-> None]
  /\ marker = None /\ card = None
  /\ session = NoSession
  /\ call = [c \in Calls |-> NoCall]
  /\ inbox = <<>> /\ dialog = "none"
  /\ app = "running" /\ engine = "up" /\ timerOn = TRUE
  /\ clock = 0 /\ crashes = 0
  /\ secured = {} /\ rescued = None
  /\ confirmed = FALSE /\ dropped = FALSE

-----------------------------------------------------------------------------
Free(c) == call[c] = NoCall
InFlight(kinds) == {c \in Calls : call[c].kind \in kinds}
UserCalls == InFlight({"save", "closeSave"} \cup LoadKinds)

\* The window takes input: no modal dialog, and the user is done waiting.
Attentive ==
  /\ app = "running" /\ dialog = "none"
  /\ Patient => UserCalls = {}

\* Nothing the user did is still on its way.
Settled == Patient => \A i \in 1..Len(inbox) : inbox[i] # EditReply

CardAnswered == Patient => card = None

\* Recovery.clear.
Clear ==
  /\ file' = [file EXCEPT ![Slot] = None]
  /\ marker' = None

\* engine.call: refused when the engine is not running.
Request(c, kind, doc, target) ==
  /\ Free(c)
  /\ call' = IF engine = "up" THEN [call EXCEPT ![c] = Sent(kind, doc, target)] ELSE call

-----------------------------------------------------------------------------
(* The user works.                                                          *)

\* edit.apply and its kin run on the engine's reader thread; the handler
\* marks the session when the response comes.
Edit ==
  LET d == session.doc IN
  /\ Attentive /\ CardAnswered /\ engine = "up"
  /\ d # None /\ content[d] # None
  /\ \A c \in Calls : call[c].phase # "closing"
  /\ clock < MaxVersion /\ Len(inbox) < MaxReplies
  /\ clock' = clock + 1
  /\ content' = [content EXCEPT ![d].version = clock + 1]
  /\ inbox' = Append(inbox, EditReply)
  /\ UNCHANGED <<file, marker, session, call, dialog, card, app, engine, timerOn,
                 confirmed, crashes, secured, rescued, dropped>>

\* projectSave, and projectSaveAs, which always asks.
Save(c) ==
  /\ Attentive /\ CardAnswered /\ session.doc # None
  /\ \/ /\ session.path # None
        /\ Request(c, "save", session.doc, session.path)
        /\ UNCHANGED dialog
     \/ /\ dialog' = "saveWhere"
        /\ UNCHANGED call
  /\ UNCHANGED <<content, file, marker, session, inbox, card, app, engine, timerOn,
                 confirmed, clock, crashes, secured, rescued, dropped>>

\* chooseProjectPath answered: saveTo(p) of whatever is open by now.
ChooseWhere(c, p) ==
  /\ app = "running" /\ dialog \in {"saveWhere", "closeWhere"}
  /\ Request(c, IF dialog = "saveWhere" THEN "save" ELSE "closeSave", session.doc, p)
  /\ dialog' = "none"
  /\ UNCHANGED <<content, file, marker, session, inbox, card, app, engine, timerOn,
                 confirmed, clock, crashes, secured, rescued, dropped>>

CancelWhere ==
  /\ app = "running" /\ dialog \in {"saveWhere", "closeWhere"}
  /\ dialog' = "none"
  /\ UNCHANGED <<content, file, marker, session, call, inbox, card, app, engine, timerOn,
                 confirmed, clock, crashes, secured, rescued, dropped>>

\* imageOpenDialog, imageOpenPath.
OpenPhoto(c) ==
  /\ Attentive /\ CardAnswered /\ Settled /\ InFlight(LoadKinds) = {}
  /\ Request(c, "open", None, None)
  /\ UNCHANGED <<content, file, marker, session, inbox, dialog, card, app, engine, timerOn,
                 confirmed, clock, crashes, secured, rescued, dropped>>

\* projectOpen, projectOpenPath.
OpenProject(c, p) ==
  /\ Attentive /\ CardAnswered /\ Settled /\ InFlight(LoadKinds) = {}
  /\ file[p] # None
  /\ Request(c, "openProject", None, p)
  /\ UNCHANGED <<content, file, marker, session, inbox, dialog, card, app, engine, timerOn,
                 confirmed, clock, crashes, secured, rescued, dropped>>

\* takeRecovery: the card goes, and the slot is opened if it is still whole.
TakeRecovery(c) ==
  /\ Attentive /\ card # None /\ InFlight(LoadKinds) = {}
  /\ card' = None
  /\ IF Offered = None THEN UNCHANGED call ELSE Request(c, "take", None, Slot)
  /\ UNCHANGED <<content, file, marker, session, inbox, dialog, app, engine, timerOn,
                 confirmed, clock, crashes, secured, rescued, dropped>>

DiscardRecovery ==
  /\ Attentive /\ card # None
  /\ card' = None
  /\ Clear
  /\ UNCHANGED <<content, session, call, inbox, dialog, app, engine, timerOn,
                 confirmed, clock, crashes, secured, rescued, dropped>>

-----------------------------------------------------------------------------
(* The timer.                                                               *)

\* Broken variant: the autosave goes to the project once there is one.
AutosaveInPlace(c) ==
  /\ app = "running" /\ timerOn
  /\ session.doc # None /\ session.dirty
  /\ Cardinality(InFlight({"autosave"})) < MaxAutosaves
  /\ Request(c, "autosave", session.doc, IF session.path = None THEN Slot ELSE session.path)
  /\ UNCHANGED <<content, file, marker, session, inbox, dialog, card, app, engine, timerOn,
                 confirmed, clock, crashes, secured, rescued, dropped>>

Autosave(c) ==
  /\ app = "running" /\ timerOn
  /\ session.doc # None /\ session.dirty
  /\ Cardinality(InFlight({"autosave"})) < MaxAutosaves
  /\ Request(c, "autosave", session.doc, Slot)
  /\ UNCHANGED <<content, file, marker, session, inbox, dialog, card, app, engine, timerOn,
                 confirmed, clock, crashes, secured, rescued, dropped>>

-----------------------------------------------------------------------------
(* The engine's jobs.                                                       *)

Answer(c, record) ==
  /\ call' = [call EXCEPT ![c] = record]
  /\ inbox' = Append(inbox, c)

\* SaveProjectJob copies the edit stack under its lock ...
Pending == {e \in InFlight({"autosave"}) : call[e].phase \in {"sent", "taken", "writing", "mixed"}}

\* What a pending autosave will write.
Holds(e) == IF call[e].phase = "sent" THEN content[call[e].doc] ELSE call[e].snap

Snapshot(c) ==
  LET d == call[c].doc IN
  /\ engine # "down" /\ call[c].kind \in SaveKinds /\ call[c].phase = "sent"
  /\ content[d] # None
  /\ call' = [call EXCEPT ![c].snap = content[d], ![c].phase = "taken",
                          ![c].copies = ({content[d]} \cup {Holds(e) : e \in Pending}) \ {None}]
  /\ UNCHANGED <<content, file, marker, session, inbox, dialog, card, app, engine, timerOn,
                 confirmed, clock, crashes, secured, rescued, dropped>>

\* ... opens the temporary file of its path, which a write under way to the same
\* path is using too ...
Writers(p) == {e \in Calls : call[e].target = p /\ call[e].phase \in {"writing", "mixed"}}

WriteTemp(c) ==
  LET rivals == Writers(call[c].target) IN
  /\ engine # "down" /\ call[c].phase = "taken"
  /\ call' = [e \in Calls |->
                IF e = c THEN [call[e] EXCEPT !.phase = IF rivals = {} THEN "writing" ELSE "mixed"]
                ELSE IF e \in rivals THEN [call[e] EXCEPT !.phase = "mixed"] ELSE call[e]]
  /\ UNCHANGED <<content, file, marker, session, inbox, dialog, card, app, engine, timerOn,
                 confirmed, clock, crashes, secured, rescued, dropped>>

\* ... and renames it.
Publish(c) ==
  /\ engine # "down" /\ call[c].phase = "writing"
  /\ file' = [file EXCEPT ![call[c].target] = call[c].snap]
  /\ Answer(c, [call[c] EXCEPT !.phase = "answered"])
  /\ UNCHANGED <<content, marker, session, dialog, card, app, engine, timerOn,
                 confirmed, clock, crashes, secured, rescued, dropped>>

\* Of two writes through one temporary file either may be renamed, whole or in
\* pieces, or written on under its final name, and either may fail.  No autosave
\* answered by then promises anything.
PublishMixed(c) ==
  LET p == call[c].target IN
  /\ engine # "down" /\ call[c].phase = "mixed"
  /\ \E left \in {file[p], Torn} \cup {call[e].snap : e \in Writers(p)} :
       file' = [file EXCEPT ![p] = left]
  /\ \E outcome \in {"answered", "failed"} :
       call' = [e \in Calls |->
                 IF e = c THEN [call[e] EXCEPT !.phase = outcome, !.copies = {}]
                 ELSE IF call[e].phase = "answered" THEN [call[e] EXCEPT !.copies = {}]
                 ELSE call[e]]
  /\ inbox' = Append(inbox, c)
  /\ secured' = {}
  /\ UNCHANGED <<content, marker, session, dialog, card, app, engine, timerOn,
                 confirmed, clock, crashes, rescued, dropped>>

Unused(d) ==
  /\ content[d] = None /\ \A c \in Calls : call[c].doc # d
  /\ \A held \in ({content[e] : e \in Docs} \cup {file[p] : p \in Paths \cup {Slot}}
                  \cup {card, rescued} \cup secured \cup {call[c].snap : c \in Calls}) \ {None, Torn} :
       held.work # d
  /\ marker # d /\ session.doc # d

\* OpenImage and OpenProject: a new document.
Load(c, d) ==
  /\ engine # "down" /\ call[c].kind \in LoadKinds /\ call[c].phase = "sent"
  /\ Unused(d)
  /\ call[c].kind # "open" => file[call[c].target] \in Content
  /\ content' = [content EXCEPT ![d] = IF call[c].kind = "open" THEN [work |-> d, version |-> 0]
                                       ELSE file[call[c].target]]
  /\ Answer(c, [call[c] EXCEPT !.doc = d, !.phase = "answered"])
  /\ UNCHANGED <<file, marker, session, dialog, card, app, engine, timerOn,
                 confirmed, clock, crashes, secured, rescued, dropped>>

\* Any job may fail: a full disk, an unreadable file, a document closed first.
Fail(c) ==
  /\ engine # "down" /\ call[c].phase \in {"sent", "taken", "writing"}
  /\ Answer(c, [call[c] EXCEPT !.phase = "failed"])
  /\ UNCHANGED <<content, file, marker, session, dialog, card, app, engine, timerOn,
                 confirmed, clock, crashes, secured, rescued, dropped>>

\* imageClose of the document a photograph replaced; it is not the session's.
CloseReplaced(c) ==
  /\ call[c].phase = "closing"
  /\ content' = [content EXCEPT ![call[c].doc] = None]
  /\ call' = [call EXCEPT ![c] = NoCall]
  /\ UNCHANGED <<file, marker, session, inbox, dialog, card, app, engine, timerOn,
                 confirmed, clock, crashes, secured, rescued, dropped>>

\* The process ends, by itself or drained; every call in flight is rejected.
EngineEnds ==
  /\ engine # "down"
  /\ engine' = "down"
  /\ content' = [d \in Docs |-> None]
  /\ call' = [c \in Calls |-> NoCall]
  /\ inbox' = <<>>
  /\ UNCHANGED <<file, marker, session, dialog, card, app, timerOn,
                 confirmed, clock, crashes, secured, rescued, dropped>>

-----------------------------------------------------------------------------
(* Closing and quitting.                                                    *)

\* The window goes, window-all-closed quits (except on macOS), and before-quit
\* clears the slot, stops the timer and closes the engine's stdin.
Leave ==
  /\ app' = "exited"
  /\ Clear
  /\ timerOn' = FALSE
  /\ engine' = IF engine = "up" THEN "closing" ELSE engine

MayClose == confirmed \/ ~session.dirty \/ session.doc = None

\* The window's close button.
CloseWindow ==
  /\ Attentive /\ CardAnswered /\ Settled
  /\ IF MayClose
     THEN Leave /\ UNCHANGED dialog
     ELSE dialog' = "guard" /\ UNCHANGED <<app, file, marker, timerOn, engine>>
  /\ UNCHANGED <<content, session, call, inbox, card, confirmed, clock, crashes,
                 secured, rescued, dropped>>

\* Quit from the menu: before-quit runs first, the windows are asked after it.
QuitApp ==
  /\ Attentive /\ CardAnswered /\ Settled
  /\ Clear
  /\ timerOn' = FALSE
  /\ engine' = IF engine = "up" THEN "closing" ELSE engine
  /\ IF MayClose
     THEN app' = "exited" /\ UNCHANGED dialog
     ELSE dialog' = "guard" /\ UNCHANGED app
  /\ UNCHANGED <<content, session, call, inbox, card, confirmed, clock, crashes,
                 secured, rescued, dropped>>

GuardCancel ==
  /\ app = "running" /\ dialog = "guard"
  /\ dialog' = "none"
  /\ UNCHANGED <<content, file, marker, session, call, inbox, card, app, engine, timerOn,
                 confirmed, clock, crashes, secured, rescued, dropped>>

GuardDiscard ==
  /\ app = "running" /\ dialog = "guard"
  /\ dialog' = "none"
  /\ confirmed' = TRUE /\ dropped' = TRUE
  /\ Leave
  /\ UNCHANGED <<content, session, call, inbox, card, clock, crashes, secured, rescued>>

\* saveCurrent; a rejected save leaves the window open.
GuardSave(c) ==
  /\ app = "running" /\ dialog = "guard"
  /\ \/ /\ session.path # None
        /\ Request(c, "closeSave", session.doc, session.path)
        /\ dialog' = "none"
     \/ /\ session.path = None
        /\ dialog' = "closeWhere"
        /\ UNCHANGED call
  /\ UNCHANGED <<content, file, marker, session, inbox, card, app, engine, timerOn,
                 confirmed, clock, crashes, secured, rescued, dropped>>

-----------------------------------------------------------------------------
(* Responses, in the order they were written.                               *)

NextIs(item) == inbox # <<>> /\ Head(inbox) = item /\ inbox' = Tail(inbox) /\ app = "running"

\* Broken variant: an edit does not touch the session.
MarkNothing ==
  /\ NextIs(EditReply)
  /\ UNCHANGED <<content, file, marker, session, call, dialog, card, app, engine, timerOn,
                 confirmed, clock, crashes, secured, rescued, dropped>>

\* markDirty, for whatever is open now.
MarkDirty ==
  /\ NextIs(EditReply)
  /\ session' = [session EXCEPT !.dirty = TRUE]
  /\ UNCHANGED <<content, file, marker, call, dialog, card, app, engine, timerOn,
                 confirmed, clock, crashes, secured, rescued, dropped>>

\* Broken variant: a failed save clears the slot as a finished one does.
RejectedClears(c) ==
  /\ NextIs(c) /\ call[c].phase = "failed"
  /\ call' = [call EXCEPT ![c] = NoCall]
  /\ IF call[c].kind = "save" THEN Clear ELSE UNCHANGED <<file, marker>>
  /\ UNCHANGED <<content, session, dialog, card, app, engine, timerOn,
                 confirmed, clock, crashes, secured, rescued, dropped>>

\* The call throws; saveTo, autosave and the opens change nothing then.
Rejected(c) ==
  /\ NextIs(c) /\ call[c].phase = "failed"
  /\ call' = [call EXCEPT ![c] = NoCall]
  /\ UNCHANGED <<content, file, marker, session, dialog, card, app, engine, timerOn,
                 confirmed, clock, crashes, secured, rescued, dropped>>

Finished(c, kinds) == NextIs(c) /\ call[c].kind \in kinds /\ call[c].phase = "answered"

\* The rest of saveTo.  The save of a close goes on to close the window.
Saved(c) ==
  /\ Finished(c, {"save", "closeSave"})
  /\ session' = [session EXCEPT !.path = call[c].target, !.dirty = FALSE]
  /\ secured' = {} /\ rescued' = None
  /\ call' = [call EXCEPT ![c] = NoCall]
  /\ IF call[c].kind = "closeSave"
     THEN confirmed' = TRUE /\ Leave
     ELSE Clear /\ UNCHANGED <<confirmed, app, timerOn, engine>>
  /\ UNCHANGED <<content, dialog, card, clock, crashes, dropped>>

\* The rest of autosave: recovery.mark.
Autosaved(c) ==
  /\ Finished(c, {"autosave"})
  /\ marker' = session.name
  /\ secured' = IF call[c].doc = session.doc THEN call[c].copies ELSE secured
  /\ call' = [call EXCEPT ![c] = NoCall]
  /\ UNCHANGED <<content, file, session, dialog, card, app, engine, timerOn,
                 confirmed, clock, crashes, rescued, dropped>>

\* session.open; the renderer then closes what a photograph replaced.
Opened(c) ==
  LET d == call[c].doc  old == session.doc IN
  /\ Finished(c, {"open", "openProject"})
  /\ session' = [doc |-> d, dirty |-> FALSE, name |-> content[d].work,
                 path |-> IF call[c].kind = "open" THEN None ELSE call[c].target]
  /\ secured' = {} /\ rescued' = None
  /\ call' = [call EXCEPT ![c] = IF call[c].kind = "open" /\ old # None
                                 THEN [NoCall EXCEPT !.kind = "open", !.doc = old, !.phase = "closing"]
                                 ELSE NoCall]
  /\ UNCHANGED <<content, file, marker, dialog, card, app, engine, timerOn,
                 confirmed, clock, crashes, dropped>>

\* Broken variant: the restored session counts as saved.
TakenClean(c) ==
  LET d == call[c].doc IN
  /\ Finished(c, {"take"})
  /\ session' = [doc |-> d, dirty |-> FALSE, path |-> None, name |-> content[d].work]
  /\ secured' = {} /\ rescued' = content[d]
  /\ Clear
  /\ call' = [call EXCEPT ![c] = NoCall]
  /\ UNCHANGED <<content, dialog, card, app, engine, timerOn, confirmed, clock, crashes, dropped>>

\* Broken variant: the restored session keeps the slot as its project.
TakenInPlace(c) ==
  LET d == call[c].doc IN
  /\ Finished(c, {"take"})
  /\ session' = [doc |-> d, dirty |-> TRUE, path |-> Slot, name |-> content[d].work]
  /\ secured' = {} /\ rescued' = content[d]
  /\ Clear
  /\ call' = [call EXCEPT ![c] = NoCall]
  /\ UNCHANGED <<content, dialog, card, app, engine, timerOn, confirmed, clock, crashes, dropped>>

\* The rest of recoveryTake.
Taken(c) ==
  LET d == call[c].doc IN
  /\ Finished(c, {"take"})
  /\ session' = [doc |-> d, dirty |-> TRUE, path |-> None, name |-> content[d].work]
  /\ secured' = {} /\ rescued' = content[d]
  /\ Clear
  /\ call' = [call EXCEPT ![c] = NoCall]
  /\ UNCHANGED <<content, dialog, card, app, engine, timerOn, confirmed, clock, crashes, dropped>>

-----------------------------------------------------------------------------
\* The main process dies and the engine with it; the disk stays.
Crash ==
  /\ app = "running" /\ crashes < MaxCrashes
  /\ app' = "crashed" /\ crashes' = crashes + 1
  /\ engine' = "down" /\ timerOn' = FALSE /\ card' = None
  /\ content' = [d \in Docs |-> None]
  /\ session' = NoSession
  /\ call' = [c \in Calls |-> NoCall]
  /\ inbox' = <<>> /\ dialog' = "none"
  /\ secured' = {} /\ rescued' = None
  /\ confirmed' = FALSE /\ dropped' = FALSE
  /\ UNCHANGED <<file, marker, clock>>

\* The next start: bootstrap hands the renderer the offer read first.
Restart ==
  /\ app = "crashed"
  /\ app' = "running" /\ engine' = "up" /\ timerOn' = TRUE
  /\ card' = Offered
  /\ UNCHANGED <<content, file, marker, session, call, inbox, dialog, confirmed, clock,
                 crashes, secured, rescued, dropped>>

MainStep ==
  \/ Edit \/ CancelWhere \/ DiscardRecovery \/ CloseWindow \/ QuitApp
  \/ GuardCancel \/ GuardDiscard \/ MarkDirty
  \/ \E c \in Calls :
       \/ Save(c) \/ OpenPhoto(c) \/ TakeRecovery(c) \/ Autosave(c) \/ GuardSave(c)
       \/ Rejected(c) \/ Saved(c) \/ Autosaved(c) \/ Opened(c) \/ Taken(c)
       \/ \E p \in Paths : ChooseWhere(c, p) \/ OpenProject(c, p)

EngineStep ==
  \/ EngineEnds
  \/ \E c \in Calls : \/ Snapshot(c) \/ WriteTemp(c) \/ Publish(c) \/ PublishMixed(c)
                      \/ Fail(c) \/ CloseReplaced(c)
                      \/ \E d \in Docs : Load(c, d)

Next == MainStep \/ EngineStep \/ Crash \/ Restart

Spec == Init /\ [][Next]_vars

-----------------------------------------------------------------------------
(* Properties.                                                              *)

\* The open document is on disk as the engine has it: in its project, or as
\* the photograph it was opened from.
InItsFile ==
  LET held == content[session.doc] IN
  IF session.path = None THEN held.version = 0 ELSE file[session.path] = held

\* A session that is not dirty, with no edit still to be reported, has its
\* content in the file it names (editor.ts: "True when there are edits the saved
\* project does not contain").
CleanMeansSaved ==
  (/\ app = "running" /\ session.doc # None /\ ~session.dirty
   /\ content[session.doc] # None
   /\ \A i \in 1..Len(inbox) : inbox[i] # EditReply)
  => InItsFile

\* The application does not exit from work that is in no file unless the user
\* said so, through whatever sequence of quits, vetoes and failed saves.
ExitKeepsWork ==
  [][(app = "running" /\ app' = "exited" /\ ~dropped' /\ session.doc # None
      /\ content[session.doc] # None) => InItsFile']_vars

\* A project of the user's changes only by a save the user asked for
\* (main.ts: the autosave is "never to the user's own project").
AutosaveNeverTouchesProjects ==
  [][\A p \in Paths : file'[p] # file[p] =>
       \E c \in Calls : call[c].kind \in {"save", "closeSave"} /\ call[c].target = p]_vars

\* A restart would find this content, or a later one of the same work.
Recoverable(held) ==
  \E found \in ({Offered} \cup {file[p] : p \in Paths}) \ {None, Torn} :
    found.work = held.work /\ found.version >= held.version

Promised == \E held \in secured : Recoverable(held)

\* While the timer runs, a crash leaves behind, in the slot or in a project, at
\* least what the session's last finished autosave wrote, or at least what an
\* autosave under way when that one copied its document holds: the timer waits for
\* nothing (main.ts:169), so that one may be written later, and over it.  Two that
\* write at the same time go through one temporary file (project.cpp:149): there
\* the promise ends, until an autosave that wrote alone is answered.
CrashNetHolds == (secured # {} /\ timerOn) => Promised

\* The same until the application is gone.  main.ts: the net "is cleared on a
\* clean exit, precisely because a clean exit is supposed to mean the user had the
\* chance to decide".  TLC refutes it: before-quit clears the net, and the guard
\* may then be cancelled.
CrashNetHoldsUntilExit == (secured # {} /\ app = "running") => Promised

\* Work taken from the slot stays on disk until it is saved (handlers.ts: the
\* slot "is only meaningful until the work is somewhere safe").  TLC refutes it:
\* the slot is cleared as soon as the work is open.
TakenWorkStaysOnDisk == (rescued # None /\ app = "running") => Recoverable(rescued)

-----------------------------------------------------------------------------
\* Documents and places for calls are interchangeable: for model checking.
Symmetry == Permutations(Docs) \cup Permutations(Calls)
=============================================================================
