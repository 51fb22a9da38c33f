-------------------------------- MODULE Startup --------------------------------
(***************************************************************************)
(* How the window comes up and what reaches it from outside (main.ts,      *)
(* App.tsx, preload.ts): a photograph handed over by the shell is parked   *)
(* for the page to claim and pushed if the page has loaded, the state of   *)
(* the engine is pushed as it changes, and a page that mounts listens      *)
(* first and then asks for what it missed.  A reload is the same window    *)
(* with another page.  One page's messages arrive in the order they were   *)
(* sent.  The recovery offer, which is answered as it was read at the      *)
(* start, and windows after the first are left out.                        *)
(***************************************************************************)
EXTENDS Naturals, Sequences

CONSTANTS Shots,     \* photographs the shell hands over
          NoShot,
          MaxHanded, \* how many times it does
          MaxLoads   \* how many times the page is loaded again

ASSUME StartupAssumption == NoShot \notin Shots

VARIABLES
  pendingOpenPath, engineState, webContents,  \* the main process, with its window's page
  wire,                         \* what is on its way to the page
  asking, orphan,               \* a bootstrap call of the page; one of a page that is gone
  mounted, shownState, opened,  \* the page listens; it shows; it was last told to open
  latest, lost, handed, loads   \* what was last handed over; what went missing

startupVars == <<pendingOpenPath, engineState, webContents, wire, asking, orphan, mounted,
                 shownState, opened, latest, lost, handed, loads>>
mainVars == <<pendingOpenPath, engineState, webContents>>
historyVars == <<latest, lost, handed, loads>>

EngineStates == {"stopped", "starting", "ready", "failed"}

StartupInit ==
  /\ pendingOpenPath = NoShot /\ engineState = "stopped" /\ webContents = "none"
  /\ wire = <<>> /\ asking = FALSE /\ orphan = FALSE
  /\ mounted = FALSE /\ shownState = "starting" /\ opened = NoShot
  /\ latest = NoShot /\ lost = NoShot /\ handed = 0 /\ loads = 0

Send(event) == wire' = IF webContents = "none" THEN wire ELSE Append(wire, event)

\* Broken variant: a page that has loaded is taken to listen.
ForwardOrPark(shot) ==
  IF webContents = "loaded"
  THEN Send([kind |-> "open", value |-> shot]) /\ UNCHANGED pendingOpenPath
  ELSE pendingOpenPath' = shot /\ UNCHANGED wire

\* forwardOpenRequest: parked in any case, and pushed unless webContents.isLoading().
Forward(shot) ==
  /\ pendingOpenPath' = shot
  /\ IF webContents = "loaded" THEN Send([kind |-> "open", value |-> shot]) ELSE UNCHANGED wire

\* app.whenReady: the engine starts with no window to tell, the window is made, and
\* the command line's photograph is forwarded to it.
Launch(shot) ==
  /\ webContents = "none" /\ engineState = "stopped"
  /\ engineState' = "starting" /\ webContents' = "loading"
  /\ IF shot = NoShot
     THEN UNCHANGED <<pendingOpenPath, latest>>
     ELSE pendingOpenPath' = shot /\ latest' = shot
  /\ UNCHANGED <<wire, asking, orphan, mounted, shownState, opened, lost, handed, loads>>

\* second-instance, open-file.  A page that asked before it had finished loading is
\* not asked again and is not told: what comes in between stays parked.
HandOver(shot) ==
  /\ handed < MaxHanded /\ handed' = handed + 1
  /\ Forward(shot)
  /\ latest' = shot
  /\ lost' = IF webContents = "loading" /\ mounted /\ ~asking THEN shot ELSE lost
  /\ UNCHANGED <<engineState, webContents, asking, orphan, mounted, shownState, opened, loads>>

\* EngineClient: 'spawn', 'error' and 'exit', forwarded to the window.
EngineTurns(state) ==
  /\ \/ engineState = "starting" /\ state \in {"ready", "failed"}
     \/ engineState = "ready" /\ state = "failed"
  /\ engineState' = state
  /\ Send([kind |-> "state", value |-> state])
  /\ UNCHANGED <<pendingOpenPath, webContents, asking, orphan, mounted, shownState, opened, historyVars>>

PageLoads ==
  /\ webContents = "loading" /\ webContents' = "loaded"
  /\ UNCHANGED <<pendingOpenPath, engineState, wire, asking, orphan, mounted, shownState,
                 opened, historyVars>>

\* The effect of App: listeners, then bootstrap().  It may run before the page counts
\* as loaded.
Mount ==
  /\ webContents # "none" /\ ~mounted
  /\ mounted' = TRUE /\ asking' = TRUE
  /\ UNCHANGED <<mainVars, wire, orphan, shownState, opened, historyVars>>

\* session:bootstrap hands over what was parked; a page that is gone hears nothing.
Bootstrap ==
  /\ asking \/ orphan
  /\ pendingOpenPath' = NoShot
  /\ IF orphan
     THEN /\ orphan' = FALSE
          /\ lost' = IF pendingOpenPath = NoShot THEN lost ELSE pendingOpenPath
          /\ UNCHANGED <<asking, wire>>
     ELSE /\ asking' = FALSE
          /\ Send([kind |-> "boot", value |-> engineState, path |-> pendingOpenPath])
          /\ UNCHANGED <<orphan, lost>>
  /\ UNCHANGED <<engineState, webContents, mounted, shownState, opened, latest, handed, loads>>

\* Events that come before the listeners do are dropped.
Deliver ==
  /\ wire # <<>> /\ wire' = Tail(wire)
  /\ LET event == Head(wire) IN
       /\ shownState' = IF mounted /\ event.kind \in {"state", "boot"} THEN event.value
                        ELSE shownState
       /\ opened' = IF mounted /\ event.kind = "open" THEN event.value
                    ELSE IF event.kind = "boot" /\ event.path # NoShot THEN event.path
                    ELSE opened
  /\ UNCHANGED <<mainVars, asking, orphan, mounted, historyVars>>

\* The page goes with its listeners, its store and what was on its way to it.
LoadAgain ==
  /\ webContents # "none" /\ loads < MaxLoads /\ loads' = loads + 1
  /\ webContents' = "loading" /\ mounted' = FALSE /\ shownState' = "starting"
  /\ wire' = <<>> /\ asking' = FALSE /\ orphan' = (orphan \/ asking)
  /\ LET boots == {i \in DOMAIN wire : wire[i].kind = "boot" /\ wire[i].path # NoShot}
     IN  lost' = IF boots = {} THEN lost ELSE wire[CHOOSE i \in boots : TRUE].path
  /\ UNCHANGED <<pendingOpenPath, engineState, opened, latest, handed>>

StartupNext ==
  \/ \E shot \in Shots \cup {NoShot} : Launch(shot)
  \/ \E shot \in Shots : HandOver(shot)
  \/ \E state \in EngineStates : EngineTurns(state)
  \/ PageLoads \/ Mount \/ Bootstrap \/ Deliver \/ LoadAgain

-----------------------------------------------------------------------------
StartupTypeOK ==
  /\ {pendingOpenPath, opened, latest, lost} \subseteq Shots \cup {NoShot}
  /\ {engineState, shownState} \subseteq EngineStates
  /\ webContents \in {"none", "loading", "loaded"}
  /\ {asking, orphan, mounted} \subseteq BOOLEAN
  /\ asking => mounted
  /\ \A i \in DOMAIN wire : wire[i].kind \in {"open", "state", "boot"}

Still == webContents = "loaded" /\ mounted /\ wire = <<>> /\ ~asking /\ ~orphan

\* The photograph handed over last is the one the window was last told to open,
\* whenever it came: before there was a window, while the page loaded, before it
\* listened, or across a reload ("pushing it on did-finish-load raced the renderer's
\* own effect setup", main.ts:31).  Left out are the two ways it does go missing: it
\* came between the page's bootstrap and the end of its loading, or the answer with it
\* was on its way to a page that was reloaded.
HandedIsOpened == Still => opened = latest \/ lost = latest

\* The status bar names the state the engine is in.
EngineIsShown == Still => shownState = engineState
=============================================================================
