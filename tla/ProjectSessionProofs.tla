------------------------- MODULE ProjectSessionProofs -------------------------
(***************************************************************************)
(* Proofs about ProjectSession, for every set of documents, paths and      *)
(* calls in flight and every bound.                                        *)
(***************************************************************************)
EXTENDS ProjectSession, FiniteSetTheorems, TLAPS

-----------------------------------------------------------------------------
(* The inductive invariant.                                                *)

UserSaves == {"save", "closeSave"}

\* A save between its copy of the edit stack and its answer.
Copying == {"taken", "writing", "mixed"}

\* Every call goes where its kind says, and carries what its phase promises.
CallsWellFormed ==
  \A c \in Calls :
    /\ call[c].kind \in UserSaves \cup {"openProject"} => call[c].target \in Paths
    /\ call[c].kind \in {"autosave", "take"} => call[c].target = Slot
    /\ call[c].kind \in SaveKinds => call[c].doc \in Docs
    /\ call[c].phase \in Copying => call[c].kind \in SaveKinds
    /\ (call[c].phase \in Copying \cup {"answered"} /\ call[c].kind \in SaveKinds)
         => call[c].snap \in Content
    /\ (call[c].phase = "answered" /\ call[c].kind \in LoadKinds)
         => call[c].doc \in Docs /\ content[call[c].doc] # None /\ call[c].doc # session.doc
    /\ call[c].phase = "closing"
         => call[c].kind = "open" /\ call[c].doc \in Docs /\ call[c].doc # session.doc

\* One open at a time; a dialog belongs to a session; the confirmation ends the
\* application, and a crash empties it.
OneThingAtATime ==
  /\ \A c, e \in InFlight(LoadKinds) : c = e
  /\ dialog # "none" => session.doc # None
  /\ confirmed => app = "exited"
  /\ app = "crashed" => session.doc = None

\* A patient user has at most one call in flight, and none behind a dialog.
Alone ==
  Patient =>
    /\ \A c, e \in UserCalls : c = e
    /\ dialog # "none" => UserCalls = {}

\* A patient user's save is of the open document as it still is ...
SavesAreCurrent ==
  Patient => \A c \in InFlight(UserSaves) :
    /\ call[c].doc = session.doc
    /\ call[c].phase \in Copying \cup {"answered"} => call[c].snap = content[session.doc]
    /\ call[c].phase # "mixed"
    /\ call[c].phase = "answered" => file[call[c].target] = call[c].snap

\* ... and a document just loaded is as it was on disk.
LoadsAreCurrent ==
  Patient => \A c \in Calls : call[c].phase = "answered" =>
    /\ call[c].kind = "open" => content[call[c].doc].version = 0
    /\ call[c].kind = "openProject" => file[call[c].target] = content[call[c].doc]

Cleanliness == Patient => CleanMeansSaved

IInv ==
  /\ TypeOK /\ CallsWellFormed /\ OneThingAtATime
  /\ Alone /\ SavesAreCurrent /\ LoadsAreCurrent /\ Cleanliness

-----------------------------------------------------------------------------
(* Types.                                                                  *)


LEMMA Blank == NoCall \in CallState /\ NoSession \in SessionState
<1>1. None \in Maybe(Docs) /\ None \in Maybe(Paths) /\ None \in Maybe(Paths \cup {Slot})
      /\ None \in Maybe(Content) /\ {} \in SUBSET Content
  BY DEF Maybe
<1> QED BY <1>1 DEF NoCall, CallState, NoSession, SessionState

LEMMA TypeOKInit == Init => TypeOK
<1> SUFFICES ASSUME Init PROVE TypeOK
  OBVIOUS
<1>1. /\ content \in [Docs -> Maybe(Content)] /\ file \in [Paths \cup {Slot} -> OnDisk]
      /\ marker \in Maybe(Docs) /\ card \in OnDisk
      /\ secured \in SUBSET Content /\ rescued \in Maybe(Content)
  BY DEF Init, Maybe, OnDisk
<1>2. session \in SessionState /\ call \in [Calls -> CallState]
  BY Blank DEF Init
<1>3. inbox \in Seq(Calls \cup {EditReply})
  BY DEF Init
<1>4. clock \in 0..MaxVersion /\ crashes \in 0..MaxCrashes
  BY BoundAssumption DEF Init
<1> QED BY <1>1, <1>2, <1>3, <1>4 DEF Init, TypeOK

LEMMA ClearTyped ==
  ASSUME file \in [Paths \cup {Slot} -> OnDisk], Clear
  PROVE  file' \in [Paths \cup {Slot} -> OnDisk] /\ marker' \in Maybe(Docs)
  BY DEF Clear, Maybe, OnDisk

\* A call enters and leaves its place as a record of the right shape.
LEMMA SentTyped ==
  ASSUME NEW kind \in SaveKinds \cup LoadKinds, NEW doc \in Maybe(Docs),
         NEW target \in Maybe(Paths \cup {Slot})
  PROVE  Sent(kind, doc, target) \in CallState
<1>1. None \in Maybe(Content) /\ {} \in SUBSET Content
  BY DEF Maybe
<1> QED BY <1>1 DEF Sent, CallState

LEMMA RequestTyped ==
  ASSUME call \in [Calls -> CallState], NEW c \in Calls,
         NEW kind \in SaveKinds \cup LoadKinds, NEW doc \in Maybe(Docs),
         NEW target \in Maybe(Paths \cup {Slot}), Request(c, kind, doc, target)
  PROVE  call' \in [Calls -> CallState]
<1>1. Sent(kind, doc, target) \in CallState
  BY SentTyped
<1> QED BY <1>1 DEF Request

LEMMA TypeOKNext == TypeOK /\ CallsWellFormed /\ [Next]_vars => TypeOK'
<1> SUFFICES ASSUME TypeOK, CallsWellFormed, [Next]_vars PROVE TypeOK'
  OBVIOUS
<1> USE DEF TypeOK
<1>1. CASE UNCHANGED vars
  BY <1>1 DEF vars
<1>2. CASE Edit
  <2>1. session.doc \in Docs
    BY <1>2 DEF Edit, SessionState, Maybe
  <2>2. content[session.doc] \in Content
    BY <1>2, <2>1 DEF Edit, Maybe
  <2>3. [content[session.doc] EXCEPT !.version = clock + 1] \in Content
    <3>1. clock + 1 \in 0..MaxVersion
      BY <1>2, BoundAssumption DEF Edit
    <3> QED BY ONLY <2>2, <3>1 DEF Content
  <2>4. content' = [content EXCEPT ![session.doc] = [content[session.doc] EXCEPT !.version = clock + 1]]
    BY <1>2 DEF Edit
  <2>5. content' \in [Docs -> Maybe(Content)]
    BY <2>1, <2>3, <2>4 DEF Maybe
  <2>6. clock' \in 0..MaxVersion
    BY <1>2, BoundAssumption DEF Edit
  <2>7. inbox' \in Seq(Calls \cup {EditReply})
    BY <1>2 DEF Edit
  <2> QED BY <1>2, <2>5, <2>6, <2>7 DEF Edit
<1>3. CASE CancelWhere
  BY <1>3 DEF CancelWhere
<1>4. CASE DiscardRecovery
  <2>1. card' \in OnDisk
    BY <1>4 DEF DiscardRecovery, Maybe, OnDisk
  <2> QED BY <1>4, <2>1, ClearTyped DEF DiscardRecovery
<1>5. CASE CloseWindow
  <2>1. CASE MayClose
    BY <1>5, <2>1, ClearTyped DEF CloseWindow, Leave
  <2>2. CASE ~MayClose
    BY <1>5, <2>2 DEF CloseWindow
  <2> QED BY <2>1, <2>2
<1>6. CASE QuitApp
  BY <1>6, ClearTyped DEF QuitApp
<1>7. CASE GuardCancel
  BY <1>7 DEF GuardCancel
<1>8. CASE GuardDiscard
  BY <1>8, ClearTyped DEF GuardDiscard, Leave
<1>9. CASE MarkDirty
  <2>1. session' \in SessionState
    BY <1>9 DEF MarkDirty, SessionState
  <2>2. inbox' \in Seq(Calls \cup {EditReply})
    BY <1>9 DEF MarkDirty, NextIs
  <2> QED BY <1>9, <2>1, <2>2 DEF MarkDirty
<1>10. CASE EngineEnds
  BY <1>10, Blank DEF EngineEnds, Maybe
<1>11. CASE Crash
  <2>1. /\ content' \in [Docs -> Maybe(Content)] /\ card' \in OnDisk
        /\ secured' \in SUBSET Content /\ rescued' \in Maybe(Content)
    BY <1>11 DEF Crash, Maybe, OnDisk
  <2>2. session' \in SessionState /\ call' \in [Calls -> CallState]
    BY <1>11, Blank DEF Crash
  <2>3. inbox' \in Seq(Calls \cup {EditReply})
    BY <1>11 DEF Crash
  <2>4. crashes' \in 0..MaxCrashes
    BY <1>11, BoundAssumption DEF Crash
  <2> QED BY <1>11, <2>1, <2>2, <2>3, <2>4 DEF Crash
<1>12. CASE Restart
  <2>1. Offered \in OnDisk
    BY DEF Offered, OnDisk, Maybe
  <2> QED BY <1>12, <2>1 DEF Restart
<1>13. ASSUME NEW c \in Calls,
              Save(c) \/ OpenPhoto(c) \/ TakeRecovery(c) \/ Autosave(c) \/ GuardSave(c)
              \/ \E p \in Paths : ChooseWhere(c, p) \/ OpenProject(c, p)
       PROVE  TypeOK'
  <2>1. session.doc \in Maybe(Docs) /\ session.path \in Maybe(Paths \cup {Slot})
        /\ None \in Maybe(Docs) /\ None \in Maybe(Paths \cup {Slot}) /\ Slot \in Maybe(Paths \cup {Slot})
    BY DEF SessionState, Maybe
  <2>2. CASE Save(c)
    BY <2>1, <2>2, RequestTyped DEF Save, SaveKinds
  <2>3. CASE OpenPhoto(c)
    BY <2>1, <2>3, RequestTyped DEF OpenPhoto, LoadKinds
  <2>4. CASE TakeRecovery(c)
    <3>1. None \in Maybe(Docs) /\ None \in Maybe(Content) /\ "take" \in SaveKinds \cup LoadKinds
      BY DEF Maybe, LoadKinds
    <3>2. call' \in [Calls -> CallState]
      <4>1. CASE call' = call
        BY <4>1
      <4>2. CASE Request(c, "take", None, Slot)
        <5>1. call \in [Calls -> CallState]
          OBVIOUS
        <5> QED BY <2>1, <3>1, <4>2, <5>1, RequestTyped
      <4> QED BY <2>4, <4>1, <4>2 DEF TakeRecovery
    <3>3. card' \in OnDisk
      BY <2>4, <3>1 DEF TakeRecovery, OnDisk
    <3> QED BY <2>4, <3>2, <3>3 DEF TakeRecovery
  <2>5. CASE Autosave(c)
    BY <2>1, <2>5, RequestTyped DEF Autosave, SaveKinds
  <2>6. CASE GuardSave(c)
    BY <2>1, <2>6, RequestTyped DEF GuardSave, SaveKinds
  <2>7. ASSUME NEW p \in Paths, ChooseWhere(c, p) \/ OpenProject(c, p) PROVE TypeOK'
    <3>1. p \in Maybe(Paths \cup {Slot})
      BY DEF Maybe
    <3>2. CASE ChooseWhere(c, p)
      BY <2>1, <3>1, <3>2, RequestTyped DEF ChooseWhere, SaveKinds
    <3>3. CASE OpenProject(c, p)
      BY <2>1, <3>1, <3>3, RequestTyped DEF OpenProject, LoadKinds
    <3> QED BY <2>7, <3>2, <3>3
  <2> QED BY <1>13, <2>2, <2>3, <2>4, <2>5, <2>6, <2>7
<1>14. ASSUME NEW c \in Calls, Rejected(c) \/ Saved(c) \/ Autosaved(c) \/ Opened(c) \/ Taken(c)
       PROVE  TypeOK'
  <2>1. call[c] \in CallState /\ NoCall \in CallState
    BY Blank
  <2>2. inbox' \in Seq(Calls \cup {EditReply})
    <3>1. inbox # <<>> /\ inbox' = Tail(inbox)
      BY <1>14 DEF Rejected, Saved, Autosaved, Opened, Taken, Finished, NextIs
    <3> QED BY <3>1
  <2>3. CASE Rejected(c)
    BY <2>1, <2>2, <2>3 DEF Rejected
  <2>4. CASE Saved(c)
    <3>1. call[c].target \in Maybe(Paths)
      BY <2>4 DEF Saved, Finished, CallsWellFormed, UserSaves, Maybe
    <3>2. session' \in SessionState
      BY <2>4, <3>1 DEF Saved, SessionState
    <3>3. file' \in [Paths \cup {Slot} -> OnDisk] /\ marker' \in Maybe(Docs)
          /\ secured' \in SUBSET Content /\ rescued' \in Maybe(Content)
      BY <2>4, ClearTyped DEF Saved, Leave, Maybe
    <3>4. call' \in [Calls -> CallState]
      BY <2>1, <2>4 DEF Saved
    <3> QED BY <2>2, <2>4, <3>2, <3>3, <3>4 DEF Saved, Leave
  <2>5. CASE Autosaved(c)
    <3>1. call[c].copies \in SUBSET Content /\ session.name \in Maybe(Docs)
      BY <2>1 DEF CallState, SessionState
    <3> QED BY <2>1, <2>2, <2>5, <3>1 DEF Autosaved
  <2>6. CASE Opened(c) \/ Taken(c)
    <3>1. call[c].doc \in Docs /\ content[call[c].doc] # None
      BY <2>6 DEF Opened, Taken, Finished, CallsWellFormed, LoadKinds
    <3>2. content[call[c].doc] \in Content
      BY <3>1 DEF Maybe
    <3>3. content[call[c].doc].work \in Docs
      BY <3>2 DEF Content
    <3>4. CASE Opened(c)
      <4>1. call[c].kind = "openProject" => call[c].target \in Paths
        BY DEF CallsWellFormed
      <4>2. session' \in SessionState
        BY <3>1, <3>3, <3>4, <4>1 DEF Opened, Finished, SessionState, Maybe
      <4>3. [NoCall EXCEPT !.kind = "open", !.doc = session.doc, !.phase = "closing"] \in CallState
        BY <2>1 DEF CallState, LoadKinds, SessionState
      <4>4. call' \in [Calls -> CallState]
        BY <2>1, <3>4, <4>3 DEF Opened
      <4> QED BY <2>2, <3>4, <4>2, <4>4 DEF Opened, Maybe
    <3>5. CASE Taken(c)
      <4>1. session' \in SessionState
        BY <3>1, <3>3, <3>5 DEF Taken, SessionState, Maybe
      <4>2. call' \in [Calls -> CallState]
        BY <2>1, <3>5 DEF Taken
      <4> QED BY <2>2, <3>2, <3>5, <4>1, <4>2, ClearTyped DEF Taken, Maybe
    <3> QED BY <2>6, <3>4, <3>5
  <2> QED BY <1>14, <2>3, <2>4, <2>5, <2>6
<1>15. ASSUME NEW c \in Calls,
              \/ Snapshot(c) \/ WriteTemp(c) \/ Publish(c) \/ PublishMixed(c) \/ Fail(c)
              \/ CloseReplaced(c)
       PROVE  TypeOK'
  <2>1. call[c] \in CallState /\ NoCall \in CallState
    BY Blank
  <2>2. CASE Snapshot(c)
    <3>1. call[c].doc \in Docs
      BY <2>2 DEF Snapshot, CallsWellFormed
    <3>2. content[call[c].doc] \in Maybe(Content)
      BY <3>1
    <3> DEFINE copies == ({content[call[c].doc]} \cup {Holds(e) : e \in Pending}) \ {None}
               taken == [call[c] EXCEPT !.snap = content[call[c].doc], !.phase = "taken",
                                        !.copies = copies]
    <3>3. \A e \in Pending : Holds(e) \in Maybe(Content)
      BY DEF Pending, InFlight, Holds, CallState, CallsWellFormed, SaveKinds
    <3>4. copies \in SUBSET Content
      BY <3>2, <3>3 DEF Maybe
    <3>5. call' = [call EXCEPT ![c] = taken]
      BY <2>2 DEF Snapshot
    <3> HIDE DEF copies
    <3>6. taken \in CallState
      BY <2>1, <3>2, <3>4 DEF CallState
    <3> HIDE DEF taken
    <3>7. call' \in [Calls -> CallState]
      BY <3>5, <3>6
    <3>8. UNCHANGED <<content, file, marker, session, inbox, dialog, card, app, engine, timerOn,
                      confirmed, clock, crashes, secured, rescued, dropped>>
      BY <2>2 DEF Snapshot
    <3> QED BY <3>7, <3>8
  <2>3. CASE Publish(c)
    <3>1. [call[c] EXCEPT !.phase = "answered"] \in CallState
      BY <2>1 DEF CallState
    <3>2. call[c].snap \in Maybe(Content)
      BY <2>1 DEF CallState
    <3>3. file' \in [Paths \cup {Slot} -> OnDisk]
      BY <2>3, <3>2 DEF Publish, OnDisk
    <3>4. call' \in [Calls -> CallState]
      BY <2>3, <3>1 DEF Publish, Answer
    <3>5. inbox' \in Seq(Calls \cup {EditReply})
      BY <2>3 DEF Publish, Answer
    <3> QED BY <2>3, <3>3, <3>4, <3>5 DEF Publish
  <2>4. CASE Fail(c)
    <3>1. [call[c] EXCEPT !.phase = "failed"] \in CallState
      BY <2>1 DEF CallState
    <3> QED BY <2>4, <3>1 DEF Fail, Answer
  <2>5. CASE CloseReplaced(c)
    <3>1. content' \in [Docs -> Maybe(Content)]
      BY <2>5 DEF CloseReplaced, Maybe
    <3>2. call' \in [Calls -> CallState]
      BY <2>1, <2>5 DEF CloseReplaced
    <3> QED BY <2>5, <3>1, <3>2 DEF CloseReplaced
  <2>6. CASE WriteTemp(c)
    <3>1. \A e \in Calls : call'[e] \in CallState
      BY <2>6 DEF WriteTemp, CallState
    <3>2. call' \in [Calls -> CallState]
      BY <2>6, <3>1 DEF WriteTemp
    <3> QED BY <2>6, <3>2 DEF WriteTemp
  <2>7. CASE PublishMixed(c)
    <3>1. PICK outcome \in {"answered", "failed"} :
            call' = [e \in Calls |->
                      IF e = c THEN [call[e] EXCEPT !.phase = outcome, !.copies = {}]
                      ELSE IF call[e].phase = "answered" THEN [call[e] EXCEPT !.copies = {}]
                      ELSE call[e]]
      BY <2>7 DEF PublishMixed
    <3>2. call' \in [Calls -> CallState]
      <4>1. ASSUME NEW k \in CallState
            PROVE  /\ [k EXCEPT !.copies = {}] \in CallState
                   /\ [k EXCEPT !.phase = outcome, !.copies = {}] \in CallState
        BY DEF CallState
      <4> QED BY <3>1, <4>1
    <3>3. {file[call[c].target], Torn} \cup {call[e].snap : e \in Writers(call[c].target)}
            \subseteq OnDisk
      <4>1. call[c].target \in Paths \cup {Slot}
        BY <2>7 DEF PublishMixed, CallsWellFormed, Copying, SaveKinds, UserSaves
      <4>2. \A e \in Calls : call[e].snap \in OnDisk
        BY DEF CallState, OnDisk
      <4> QED BY <4>1, <4>2 DEF Writers, OnDisk
    <3>4. file' \in [Paths \cup {Slot} -> OnDisk]
      BY <2>7, <3>3 DEF PublishMixed
    <3>5. inbox' = Append(inbox, c) /\ secured' = {}
          /\ UNCHANGED <<content, marker, session, dialog, card, app, engine, timerOn,
                         confirmed, clock, crashes, rescued, dropped>>
      BY <2>7 DEF PublishMixed
    <3>6. inbox' \in Seq(Calls \cup {EditReply})
      BY <3>5
    <3> QED BY <3>2, <3>4, <3>5, <3>6
  <2> QED BY <1>15, <2>2, <2>3, <2>4, <2>5, <2>6, <2>7
<1>16. ASSUME NEW c \in Calls, NEW d \in Docs, Load(c, d) PROVE TypeOK'
  <2>1. [work |-> d, version |-> 0] \in Maybe(Content)
    BY BoundAssumption DEF Content, Maybe
  <2>2. call[c].kind # "open" => file[call[c].target] \in Maybe(Content)
    BY <1>16 DEF Load, Maybe
  <2>3. content' \in [Docs -> Maybe(Content)]
    BY <1>16, <2>1, <2>2 DEF Load
  <2>4. [call[c] EXCEPT !.doc = d, !.phase = "answered"] \in CallState
    <3> DEFINE k == call[c]
    <3>1. k \in CallState /\ d \in Maybe(Docs)
      BY DEF Maybe
    <3> HIDE DEF k
    <3>2. [k EXCEPT !.doc = d, !.phase = "answered"] \in CallState
      <4> DEFINE m == [k EXCEPT !.doc = d]
      <4>1. m \in CallState
        BY <3>1 DEF CallState
      <4>2. [k EXCEPT !.doc = d, !.phase = "answered"] = [m EXCEPT !.phase = "answered"]
        OBVIOUS
      <4> HIDE DEF m
      <4>3. [m EXCEPT !.phase = "answered"] \in CallState
        BY <4>1 DEF CallState
      <4> QED BY <4>2, <4>3
    <3> QED BY <3>2 DEF k
  <2> QED BY <1>16, <2>3, <2>4 DEF Load, Answer
<1> QED BY <1>1, <1>2, <1>3, <1>4, <1>5, <1>6, <1>7, <1>8, <1>9, <1>10, <1>11, <1>12,
           <1>13, <1>14, <1>15, <1>16 DEF Next, MainStep, EngineStep

-----------------------------------------------------------------------------
(* Calls in flight.                                                        *)

\* A new call is sent, or the engine is not up and nothing happens.
LEMMA RequestShape ==
  ASSUME call \in [Calls -> CallState], NEW c \in Calls, NEW kind, NEW doc, NEW target,
         Request(c, kind, doc, target)
  PROVE  /\ call[c].kind = "none"
         /\ \A e \in Calls :
              \/ call'[e] = call[e]
              \/ /\ e = c /\ call'[e].kind = kind /\ call'[e].doc = doc
                 /\ call'[e].target = target /\ call'[e].phase = "sent"
                 /\ call'[e].snap = None /\ call'[e].copies = {}
<1>1. call[c].kind = "none"
  BY DEF Request, Free, NoCall
<1>2. CASE engine = "up"
  <2> DEFINE sent == Sent(kind, doc, target)
  <2>1. sent.kind = kind /\ sent.doc = doc /\ sent.target = target /\ sent.phase = "sent"
        /\ sent.snap = None /\ sent.copies = {}
    BY DEF Sent
  <2>2. call' = [call EXCEPT ![c] = sent]
    BY <1>2 DEF Request
  <2> HIDE DEF sent
  <2>3. \A e \in Calls : call'[e] = IF e = c THEN sent ELSE call[e]
    BY <2>2
  <2> QED BY <1>1, <2>1, <2>3
<1>3. CASE engine # "up"
  BY <1>1, <1>3 DEF Request
<1> QED BY <1>2, <1>3

\* A write that begins changes only how far its call and its rivals have come.
LEMMA WriteShape ==
  ASSUME call \in [Calls -> CallState], NEW c \in Calls, WriteTemp(c)
  PROVE  /\ UNCHANGED <<content, file, marker, session, inbox, dialog, card, app, engine, timerOn,
                         confirmed, clock, crashes, secured, rescued, dropped>>
         /\ \A e \in Calls :
              /\ call'[e].kind = call[e].kind /\ call'[e].doc = call[e].doc
              /\ call'[e].target = call[e].target /\ call'[e].snap = call[e].snap
              /\ call'[e].copies = call[e].copies
              /\ \/ call'[e] = call[e]
                 \/ call[e].phase \in Copying /\ call'[e].phase = "mixed"
                    /\ Writers(call[c].target) \ {c} # {} /\ call[e].target = call[c].target
                 \/ call[e].phase \in Copying /\ call'[e].phase = "writing"
<1>1. UNCHANGED <<content, file, marker, session, inbox, dialog, card, app, engine, timerOn,
                  confirmed, clock, crashes, secured, rescued, dropped>>
  BY DEF WriteTemp
<1>2. c \notin Writers(call[c].target)
  BY DEF WriteTemp, Writers
<1>3. call[c].phase \in Copying /\ \A e \in Writers(call[c].target) :
        call[e].phase \in Copying /\ call[e].target = call[c].target
  BY DEF WriteTemp, Writers, Copying
<1> DEFINE rivals == Writers(call[c].target)
           next == IF rivals = {} THEN "writing" ELSE "mixed"
<1>4. \A e \in Calls :
        call'[e] = IF e = c THEN [call[e] EXCEPT !.phase = next]
                   ELSE IF e \in rivals THEN [call[e] EXCEPT !.phase = "mixed"] ELSE call[e]
  BY DEF WriteTemp
<1>5. next = "mixed" => rivals \ {c} # {}
  BY <1>2
<1>6. next \in {"writing", "mixed"}
  OBVIOUS
<1> HIDE DEF rivals, next
<1>7. ASSUME NEW e \in Calls
      PROVE  /\ call'[e].kind = call[e].kind /\ call'[e].doc = call[e].doc
             /\ call'[e].target = call[e].target /\ call'[e].snap = call[e].snap
             /\ call'[e].copies = call[e].copies
             /\ \/ call'[e] = call[e]
                \/ e = c /\ call'[e].phase = next
                \/ e \in rivals \ {c} /\ call'[e].phase = "mixed"
  <2>1. call[e] \in CallState
    OBVIOUS
  <2>2. CASE e = c
    BY <1>4, <2>1, <2>2 DEF CallState
  <2>3. CASE e # c /\ e \in rivals
    BY <1>4, <2>1, <2>3 DEF CallState
  <2>4. CASE e # c /\ e \notin rivals
    BY <1>4, <2>4
  <2> QED BY <2>2, <2>3, <2>4
<1>8. \A e \in rivals : call[e].phase \in Copying /\ call[e].target = call[c].target
  BY <1>3 DEF rivals
<1>9. ASSUME NEW e \in Calls
      PROVE  \/ call'[e] = call[e]
             \/ call[e].phase \in Copying /\ call'[e].phase = "mixed"
                /\ rivals \ {c} # {} /\ call[e].target = call[c].target
             \/ call[e].phase \in Copying /\ call'[e].phase = "writing"
  <2>1. CASE e = c /\ call'[e].phase = next
    BY <1>3, <1>5, <1>6, <2>1
  <2>2. CASE e \in rivals \ {c} /\ call'[e].phase = "mixed"
    BY <1>8, <2>2
  <2> QED BY <1>7, <2>1, <2>2
<1> QED BY <1>1, <1>7, <1>9 DEF rivals

\* Of two mixed writes one ends, and whatever was answered promises nothing.
LEMMA MixedShape ==
  ASSUME call \in [Calls -> CallState], NEW c \in Calls, PublishMixed(c)
  PROVE  /\ UNCHANGED <<content, marker, session, dialog, card, app, engine, timerOn,
                         confirmed, clock, crashes, rescued, dropped>>
         /\ secured' = {} /\ inbox' = Append(inbox, c)
         /\ call[c].phase = "mixed" /\ call'[c].phase \in {"answered", "failed"}
         /\ \A e \in Calls :
              /\ call'[e].kind = call[e].kind /\ call'[e].doc = call[e].doc
              /\ call'[e].target = call[e].target /\ call'[e].snap = call[e].snap
              /\ call'[e].phase = "answered" => call'[e].copies = {}
              /\ e # c => call'[e].phase = call[e].phase
              /\ call'[e].phase # "answered" /\ e # c => call'[e] = call[e]
<1>1. PICK outcome \in {"answered", "failed"} :
        \A e \in Calls :
          call'[e] = IF e = c THEN [call[e] EXCEPT !.phase = outcome, !.copies = {}]
                     ELSE IF call[e].phase = "answered" THEN [call[e] EXCEPT !.copies = {}]
                     ELSE call[e]
  BY DEF PublishMixed
<1> QED BY <1>1 DEF PublishMixed, CallState

\* The steps that touch neither the calls nor what they refer to.
Quiet == UNCHANGED <<call, content>> /\ session'.doc = session.doc

LEMMA QuietSteps ==
  ASSUME TypeOK,
         \/ UNCHANGED vars \/ CancelWhere \/ DiscardRecovery \/ CloseWindow \/ QuitApp
         \/ GuardCancel \/ GuardDiscard \/ MarkDirty \/ Restart
  PROVE  Quiet
<1>1. session \in SessionState
  BY DEF TypeOK
<1>2. CASE MarkDirty
  BY <1>1, <1>2 DEF MarkDirty, Quiet, SessionState
<1> QED
  BY <1>2 DEF Quiet, vars, CancelWhere, DiscardRecovery, CloseWindow, QuitApp, GuardCancel,
              GuardDiscard, Restart

\* The steps that send a call, with what they send.
LEMMA SendingSteps ==
  ASSUME TypeOK, OneThingAtATime, NEW c \in Calls,
         \/ Save(c) \/ OpenPhoto(c) \/ TakeRecovery(c) \/ Autosave(c) \/ GuardSave(c)
         \/ \E p \in Paths : ChooseWhere(c, p) \/ OpenProject(c, p)
  PROVE  /\ UNCHANGED <<content, file, session, inbox, engine, app>>
         /\ \A e \in Calls :
              \/ call'[e] = call[e]
              \/ /\ e = c /\ call[e].kind = "none" /\ call'[e].phase = "sent"
                 /\ call'[e].snap = None
                 /\ \/ /\ call'[e].kind \in UserSaves
                       /\ call'[e].doc = session.doc /\ session.doc \in Docs
                       /\ call'[e].target \in Paths
                    \/ /\ call'[e].kind = "autosave"
                       /\ call'[e].doc = session.doc /\ session.doc \in Docs
                       /\ call'[e].target = Slot
                    \/ /\ call'[e].kind \in LoadKinds /\ InFlight(LoadKinds) = {}
                       /\ call'[e].kind = "openProject" => call'[e].target \in Paths
                       /\ call'[e].kind = "take" => call'[e].target = Slot
         /\ dialog' # "none" => session.doc # None
<1>1. /\ call \in [Calls -> CallState]
      /\ session.doc \in Docs \cup {None} /\ session.path \in Paths \cup {None}
  BY DEF TypeOK, SessionState, Maybe
<1>2. CASE Save(c)
  BY <1>1, <1>2, RequestShape DEF Save, UserSaves, Attentive
<1>3. CASE OpenPhoto(c)
  BY <1>1, <1>3, RequestShape DEF OpenPhoto, LoadKinds, Attentive
<1>4. CASE TakeRecovery(c)
  BY <1>1, <1>4, RequestShape DEF TakeRecovery, LoadKinds, Attentive
<1>5. CASE Autosave(c)
  BY <1>1, <1>5, RequestShape DEF Autosave, OneThingAtATime
<1>6. CASE GuardSave(c)
  BY <1>1, <1>6, RequestShape DEF GuardSave, OneThingAtATime, UserSaves
<1>7. ASSUME NEW p \in Paths, ChooseWhere(c, p)
      PROVE  /\ call[c].kind = "none"
             /\ \A e \in Calls :
                  \/ call'[e] = call[e]
                  \/ /\ e = c /\ call'[e].kind \in UserSaves /\ call'[e].doc = session.doc
                     /\ call'[e].target = p /\ call'[e].phase = "sent"
                     /\ call'[e].snap = None
             /\ session.doc \in Docs /\ dialog' = "none"
             /\ UNCHANGED <<content, file, session, inbox, engine, app>>
  BY <1>1, <1>7, RequestShape DEF ChooseWhere, OneThingAtATime, UserSaves
<1>8. ASSUME NEW p \in Paths, OpenProject(c, p)
      PROVE  /\ call[c].kind = "none"
             /\ \A e \in Calls :
                  \/ call'[e] = call[e]
                  \/ /\ e = c /\ call'[e].kind = "openProject"
                     /\ call'[e].target = p /\ call'[e].phase = "sent"
                     /\ call'[e].snap = None
             /\ InFlight(LoadKinds) = {} /\ dialog' = "none"
             /\ UNCHANGED <<content, file, session, inbox, engine, app>>
  BY <1>1, <1>8, RequestShape DEF OpenProject, Attentive
<1> QED BY <1>2, <1>3, <1>4, <1>5, <1>6, <1>7, <1>8 DEF LoadKinds

LEMMA CallsNext ==
  TypeOK /\ CallsWellFormed /\ OneThingAtATime /\ [Next]_vars => CallsWellFormed'
<1> SUFFICES ASSUME TypeOK, CallsWellFormed, OneThingAtATime, [Next]_vars
             PROVE  CallsWellFormed'
  OBVIOUS
<1>0. call \in [Calls -> CallState] /\ content \in [Docs -> Maybe(Content)]
  BY DEF TypeOK
<1>1. ASSUME Quiet PROVE CallsWellFormed'
  BY <1>1 DEF Quiet, CallsWellFormed
<1>2. ASSUME NEW c \in Calls,
             \/ Save(c) \/ OpenPhoto(c) \/ TakeRecovery(c) \/ Autosave(c) \/ GuardSave(c)
             \/ \E p \in Paths : ChooseWhere(c, p) \/ OpenProject(c, p)
      PROVE  CallsWellFormed'
  BY <1>2, SendingSteps DEF CallsWellFormed, UserSaves, SaveKinds, LoadKinds, Copying
<1>3. CASE Edit
  BY <1>0, <1>3 DEF Edit, CallsWellFormed, Maybe
<1>4. ASSUME NEW c \in Calls, Rejected(c) \/ Saved(c) \/ Autosaved(c) PROVE CallsWellFormed'
  <2>1. call' = [call EXCEPT ![c] = NoCall] /\ UNCHANGED content /\ session'.doc = session.doc
    BY <1>4 DEF Rejected, Saved, Autosaved, TypeOK, SessionState
  <2> QED BY <1>0, <2>1 DEF CallsWellFormed, NoCall, UserSaves, SaveKinds, LoadKinds, Copying
<1>5. ASSUME NEW c \in Calls, Opened(c) \/ Taken(c) PROVE CallsWellFormed'
  <2>1. /\ call[c].kind \in LoadKinds /\ call[c].phase = "answered"
        /\ call[c].doc \in Docs /\ call[c].doc # session.doc
        /\ session'.doc = call[c].doc /\ UNCHANGED content
    BY <1>5 DEF Opened, Taken, Finished, CallsWellFormed, LoadKinds
  <2>2. \A e \in Calls \ {c} : call'[e] = call[e] /\ call[e].kind \notin LoadKinds
    BY <1>0, <1>5, <2>1 DEF Opened, Taken, OneThingAtATime, InFlight
  <2>3. \/ call'[c].kind = "none" /\ call'[c].phase = "idle"
        \/ /\ call'[c].kind = "open" /\ call'[c].phase = "closing"
           /\ call'[c].doc = session.doc /\ session.doc \in Docs
    <3> DEFINE closing == [NoCall EXCEPT !.kind = "open", !.doc = session.doc, !.phase = "closing"]
    <3>1. closing.kind = "open" /\ closing.phase = "closing" /\ closing.doc = session.doc
      BY DEF NoCall
    <3>2. NoCall.kind = "none" /\ NoCall.phase = "idle" /\ session.doc \in Docs \cup {None}
      BY DEF NoCall, TypeOK, SessionState, Maybe
    <3>3. \/ call' = [call EXCEPT ![c] = NoCall]
          \/ session.doc # None /\ call' = [call EXCEPT ![c] = closing]
      <4>1. CASE Taken(c)
        BY <4>1 DEF Taken
      <4>2. CASE Opened(c) /\ call[c].kind = "open" /\ session.doc # None
        BY <4>2 DEF Opened
      <4>3. CASE Opened(c) /\ ~(call[c].kind = "open" /\ session.doc # None)
        BY <4>3 DEF Opened
      <4> QED BY <1>5, <4>1, <4>2, <4>3
    <3> HIDE DEF closing
    <3> QED BY <1>0, <3>1, <3>2, <3>3
  <2> QED BY <2>1, <2>2, <2>3 DEF CallsWellFormed, UserSaves, SaveKinds, LoadKinds, Copying
<1>6. ASSUME NEW c \in Calls, Snapshot(c) PROVE CallsWellFormed'
  <2>1. /\ call[c].kind \in SaveKinds /\ call[c].phase = "sent"
        /\ call[c].doc \in Docs /\ content[call[c].doc] \in Content
        /\ \A e \in Calls \ {c} : call'[e] = call[e]
        /\ UNCHANGED <<content, session>>
    BY <1>0, <1>6 DEF Snapshot, CallsWellFormed, Maybe
  <2>2. /\ call'[c].kind = call[c].kind /\ call'[c].doc = call[c].doc
        /\ call'[c].target = call[c].target /\ call'[c].phase = "taken"
        /\ call'[c].snap \in Content
    BY <1>0, <1>6, <2>1 DEF Snapshot, CallState
  <2>3. UNCHANGED content /\ UNCHANGED session /\ \A e \in Calls \ {c} : call'[e] = call[e]
    BY <2>1
  <2>4. call[c].kind \in SaveKinds /\ call[c].doc \in Docs
    BY <2>1
  <2> QED BY ONLY CallsWellFormed, <2>2, <2>3, <2>4
          DEF CallsWellFormed, UserSaves, SaveKinds, LoadKinds, Copying
<1>7. ASSUME NEW c \in Calls, Publish(c) \/ Fail(c) PROVE CallsWellFormed'
  <2>1. /\ \A e \in Calls \ {c} : call'[e] = call[e]
        /\ UNCHANGED <<content, session>>
        /\ call'[c].kind = call[c].kind /\ call'[c].doc = call[c].doc
        /\ call'[c].target = call[c].target /\ call'[c].snap = call[c].snap
        /\ \/ call[c].phase \in Copying /\ call'[c].phase = "answered"
           \/ call'[c].phase = "failed"
    BY <1>0, <1>7 DEF Publish, Fail, Answer, CallState, Copying
  <2> QED BY <2>1 DEF CallsWellFormed, UserSaves, SaveKinds, LoadKinds, Copying
<1>8. ASSUME NEW c \in Calls, NEW d \in Docs, Load(c, d) PROVE CallsWellFormed'
  <2>1. /\ \A e \in Calls \ {c} : call'[e] = call[e] /\ call[e].kind \notin LoadKinds
        /\ UNCHANGED session /\ session.doc # d
        /\ \A b \in Docs \ {d} : content'[b] = content[b]
        /\ call[c].kind \in LoadKinds /\ call'[c].kind = call[c].kind /\ call'[c].doc = d
        /\ call'[c].target = call[c].target /\ call'[c].phase = "answered"
    BY <1>0, <1>8 DEF Load, Unused, Answer, CallState, OneThingAtATime, InFlight
  <2>2. content'[d] # None
    <3>1. [work |-> d, version |-> 0] \in Content /\ None \notin Content
      BY BoundAssumption, NoneAssumption DEF Content
    <3> QED BY <1>0, <1>8, <3>1 DEF Load
  <2> QED BY <2>1, <2>2 DEF CallsWellFormed, UserSaves, SaveKinds, LoadKinds, Copying
<1>9. ASSUME NEW c \in Calls, CloseReplaced(c) PROVE CallsWellFormed'
  <2>1. call[c].kind \in LoadKinds
    BY <1>9 DEF CloseReplaced, CallsWellFormed, LoadKinds
  <2>2. /\ \A e \in Calls \ {c} : call'[e] = call[e] /\ call[e].kind \notin LoadKinds
        /\ call'[c] = NoCall /\ UNCHANGED session
    BY <1>0, <1>9, <2>1 DEF CloseReplaced, OneThingAtATime, InFlight
  <2> QED BY <2>2 DEF CallsWellFormed, NoCall, UserSaves, SaveKinds, LoadKinds, Copying
<1>10. CASE EngineEnds \/ Crash
  <2>1. \A e \in Calls : call'[e] = NoCall
    BY <1>10 DEF EngineEnds, Crash
  <2> QED BY <2>1 DEF CallsWellFormed, NoCall, UserSaves, SaveKinds, LoadKinds, Copying
<1>11. ASSUME NEW c \in Calls, WriteTemp(c) PROVE CallsWellFormed'
  BY <1>0, <1>11, WriteShape DEF CallsWellFormed, UserSaves, SaveKinds, LoadKinds, Copying
<1>12. ASSUME NEW c \in Calls, PublishMixed(c) PROVE CallsWellFormed'
  BY <1>0, <1>12, MixedShape DEF CallsWellFormed, UserSaves, SaveKinds, LoadKinds, Copying
<1> QED BY <1>1, <1>2, <1>3, <1>4, <1>5, <1>6, <1>7, <1>8, <1>9, <1>10, <1>11, <1>12, QuietSteps
        DEF Next, MainStep, EngineStep

\* Every step that sends nothing keeps the kind of a call or ends the call.
LEMMA KindsNext ==
  ASSUME TypeOK, CallsWellFormed, [Next]_vars
  PROVE  \/ \E c \in Calls :
              \/ Save(c) \/ OpenPhoto(c) \/ TakeRecovery(c) \/ Autosave(c) \/ GuardSave(c)
              \/ \E p \in Paths : ChooseWhere(c, p) \/ OpenProject(c, p)
         \/ \A e \in Calls : call'[e].kind \in {call[e].kind, "none"}
<1>0. call \in [Calls -> CallState]
  BY DEF TypeOK
<1>1. CASE Quiet
  BY <1>1 DEF Quiet
<1>2. CASE Edit
  BY <1>2 DEF Edit
<1>3. ASSUME NEW c \in Calls,
             Rejected(c) \/ Saved(c) \/ Autosaved(c) \/ Opened(c) \/ Taken(c) \/ CloseReplaced(c)
      PROVE  \A e \in Calls : call'[e].kind \in {call[e].kind, "none"}
  <2>1. NoCall.kind = "none"
        /\ [NoCall EXCEPT !.kind = "open", !.doc = session.doc, !.phase = "closing"].kind = "open"
    BY DEF NoCall
  <2>2. CASE Opened(c)
    BY <1>0, <2>1, <2>2 DEF Opened
  <2>3. CASE ~Opened(c)
    BY <1>0, <1>3, <2>1, <2>3 DEF Rejected, Saved, Autosaved, Taken, CloseReplaced
  <2> QED BY <2>2, <2>3
<1>4. ASSUME NEW c \in Calls,
             \/ Snapshot(c) \/ WriteTemp(c) \/ Publish(c) \/ PublishMixed(c) \/ Fail(c)
             \/ \E d \in Docs : Load(c, d)
      PROVE  \A e \in Calls : call'[e].kind \in {call[e].kind, "none"}
  <2>1. CASE Snapshot(c)
    BY <1>0, <2>1 DEF Snapshot, CallState
  <2>2. CASE WriteTemp(c)
    BY <1>0, <2>2, WriteShape
  <2>3. CASE PublishMixed(c)
    BY <1>0, <2>3, MixedShape
  <2>4. CASE Publish(c) \/ Fail(c)
    BY <1>0, <2>4 DEF Publish, Fail, Answer, CallState
  <2>5. ASSUME NEW d \in Docs, Load(c, d) PROVE \A e \in Calls : call'[e].kind = call[e].kind
    BY <1>0, <2>5 DEF Load, Answer, CallState
  <2> QED BY <1>4, <2>1, <2>2, <2>3, <2>4, <2>5
<1>5. CASE EngineEnds \/ Crash
  BY <1>5 DEF EngineEnds, Crash, NoCall
<1> QED BY <1>1, <1>2, <1>3, <1>4, <1>5, QuietSteps DEF Next, MainStep, EngineStep

LEMMA OneThingNext ==
  TypeOK /\ CallsWellFormed /\ OneThingAtATime /\ [Next]_vars => OneThingAtATime'
<1> SUFFICES ASSUME TypeOK, CallsWellFormed, OneThingAtATime, [Next]_vars
             PROVE  OneThingAtATime'
  OBVIOUS
<1>1. \A c, e \in InFlight(LoadKinds)' : c = e
  <2>1. ASSUME NEW c \in Calls,
               \/ Save(c) \/ OpenPhoto(c) \/ TakeRecovery(c) \/ Autosave(c) \/ GuardSave(c)
               \/ \E p \in Paths : ChooseWhere(c, p) \/ OpenProject(c, p)
        PROVE  \A e, f \in InFlight(LoadKinds)' : e = f
    BY <2>1, SendingSteps DEF OneThingAtATime, InFlight, UserSaves, LoadKinds
  <2>2. ASSUME \A e \in Calls : call'[e].kind \in {call[e].kind, "none"}
        PROVE  \A e, f \in InFlight(LoadKinds)' : e = f
    BY <2>2 DEF OneThingAtATime, InFlight, LoadKinds
  <2> QED BY <2>1, <2>2, KindsNext
<1>2. dialog' # "none" => session'.doc # None
  <2>1. ASSUME NEW c \in Calls,
               \/ Save(c) \/ OpenPhoto(c) \/ TakeRecovery(c) \/ Autosave(c) \/ GuardSave(c)
               \/ \E p \in Paths : ChooseWhere(c, p) \/ OpenProject(c, p)
        PROVE  dialog' # "none" => session'.doc # None
    BY <2>1, SendingSteps
  <2>2. ASSUME UNCHANGED vars \/ CancelWhere \/ DiscardRecovery \/ CloseWindow \/ QuitApp
               \/ GuardCancel \/ GuardDiscard \/ MarkDirty \/ Restart
        PROVE  dialog' # "none" => session'.doc # None
    <3>1. session'.doc = session.doc
      BY <2>2, QuietSteps DEF Quiet
    <3>2. dialog' \in {dialog, "none"} \/ (dialog' = "guard" /\ session.doc # None)
      BY <2>2 DEF vars, CancelWhere, DiscardRecovery, CloseWindow, QuitApp, GuardCancel,
                  GuardDiscard, MarkDirty, Restart, MayClose
    <3> QED BY <3>1, <3>2 DEF OneThingAtATime
  <2>3. ASSUME NEW c \in Calls, Rejected(c) \/ Saved(c) \/ Autosaved(c) \/ Opened(c) \/ Taken(c)
        PROVE  dialog' # "none" => session'.doc # None
    <3>1. (Opened(c) \/ Taken(c)) => session'.doc = call[c].doc /\ call[c].doc # None
      BY SlotAssumption DEF Opened, Taken, Finished, CallsWellFormed, LoadKinds
    <3>2. (Rejected(c) \/ Saved(c) \/ Autosaved(c)) => session'.doc = session.doc
      BY DEF Rejected, Saved, Autosaved, TypeOK, SessionState
    <3>3. UNCHANGED dialog
      BY <2>3 DEF Rejected, Saved, Autosaved, Opened, Taken
    <3> QED BY <2>3, <3>1, <3>2, <3>3 DEF OneThingAtATime
  <2>4. ASSUME Edit \/ EngineEnds \/ Crash
               \/ \E c \in Calls : \/ Snapshot(c) \/ WriteTemp(c) \/ Publish(c) \/ PublishMixed(c)
                                   \/ Fail(c) \/ CloseReplaced(c)
                                   \/ \E d \in Docs : Load(c, d)
        PROVE  dialog' # "none" => session'.doc # None
    BY <2>4 DEF OneThingAtATime, Edit, EngineEnds, Crash, Snapshot, WriteTemp, Publish,
                PublishMixed, Fail, CloseReplaced, Load
  <2> QED BY <2>1, <2>2, <2>3, <2>4 DEF Next, MainStep, EngineStep
<1>3. /\ confirmed' => app' = "exited"
      /\ app' = "crashed" => session'.doc = None
  <2>1. CASE Restart
    BY <2>1 DEF Restart, OneThingAtATime
  <2>2. CASE Crash
    BY <2>2 DEF Crash, NoSession
  <2>3. ASSUME UNCHANGED vars \/ Edit \/ EngineEnds
               \/ \E c \in Calls : \/ Snapshot(c) \/ WriteTemp(c) \/ Publish(c) \/ PublishMixed(c)
                                   \/ Fail(c) \/ CloseReplaced(c)
                                   \/ \E d \in Docs : Load(c, d)
        PROVE  UNCHANGED <<confirmed, app, session>>
    BY <2>3 DEF vars, Edit, EngineEnds, Snapshot, WriteTemp, Publish, PublishMixed, Fail,
                CloseReplaced, Load
  <2>4. ASSUME NEW c \in Calls,
               \/ Save(c) \/ OpenPhoto(c) \/ TakeRecovery(c) \/ Autosave(c) \/ GuardSave(c)
               \/ \E p \in Paths : ChooseWhere(c, p) \/ OpenProject(c, p)
        PROVE  UNCHANGED <<confirmed, app, session>>
    BY <2>4 DEF Save, OpenPhoto, TakeRecovery, Autosave, GuardSave, ChooseWhere, OpenProject
  <2>5. ASSUME CancelWhere \/ DiscardRecovery \/ CloseWindow \/ QuitApp \/ GuardCancel
               \/ GuardDiscard \/ MarkDirty
               \/ \E c \in Calls : Rejected(c) \/ Saved(c) \/ Autosaved(c) \/ Opened(c) \/ Taken(c)
        PROVE  /\ app = "running" /\ app' \in {"running", "exited"}
               /\ confirmed' = confirmed \/ app' = "exited"
    BY <2>5 DEF CancelWhere, DiscardRecovery, CloseWindow, QuitApp, GuardCancel, GuardDiscard,
                MarkDirty, Rejected, Saved, Autosaved, Opened, Taken, Attentive, Finished,
                NextIs, Leave
  <2> QED BY <2>1, <2>2, <2>3, <2>4, <2>5 DEF OneThingAtATime, Next, MainStep, EngineStep
<1> QED BY <1>1, <1>2, <1>3 DEF OneThingAtATime

-----------------------------------------------------------------------------
(* A patient user.                                                         *)

LEMMA UserSends ==
  ASSUME Alone, Patient, NEW c \in Calls,
         \/ Save(c) \/ OpenPhoto(c) \/ TakeRecovery(c) \/ GuardSave(c)
         \/ \E p \in Paths : ChooseWhere(c, p) \/ OpenProject(c, p)
  PROVE  UserCalls = {} /\ (dialog' = "none" \/ UNCHANGED call)
  BY DEF Alone, Save, OpenPhoto, TakeRecovery, GuardSave, ChooseWhere, OpenProject, Attentive

LEMMA AloneNext ==
  TypeOK /\ CallsWellFormed /\ OneThingAtATime /\ Alone /\ [Next]_vars => Alone'
<1> SUFFICES ASSUME TypeOK, CallsWellFormed, OneThingAtATime, Alone, [Next]_vars, Patient
             PROVE  /\ \A c, e \in UserCalls' : c = e
                    /\ dialog' # "none" => UserCalls' = {}
  BY DEF Alone
<1>1. ASSUME NEW c \in Calls,
             \/ Save(c) \/ OpenPhoto(c) \/ TakeRecovery(c) \/ GuardSave(c)
             \/ \E p \in Paths : ChooseWhere(c, p) \/ OpenProject(c, p)
      PROVE  /\ \A d, e \in UserCalls' : d = e
             /\ dialog' # "none" => UserCalls' = {}
  <2>1. UserCalls = {} /\ (dialog' = "none" \/ UNCHANGED call)
    BY <1>1, UserSends
  <2>2. \A e \in Calls \ {c} : call'[e] = call[e]
    BY <1>1, SendingSteps
  <2> QED BY <2>1, <2>2 DEF UserCalls, InFlight
<1>2. ASSUME NEW c \in Calls, Autosave(c)
      PROVE  UserCalls' \subseteq UserCalls /\ UNCHANGED dialog
  <2>1. \A e \in Calls : call'[e] = call[e] \/ call'[e].kind = "autosave"
    BY <1>2, RequestShape DEF Autosave, TypeOK
  <2> QED BY <1>2, <2>1 DEF UserCalls, InFlight, LoadKinds, Autosave
<1>3. ASSUME \A e \in Calls : call'[e].kind \in {call[e].kind, "none"}
      PROVE  UserCalls' \subseteq UserCalls
  BY <1>3 DEF UserCalls, InFlight, LoadKinds
<1>4. \/ \E c \in Calls : \/ Save(c) \/ OpenPhoto(c) \/ TakeRecovery(c) \/ GuardSave(c)
                          \/ \E p \in Paths : ChooseWhere(c, p) \/ OpenProject(c, p)
      \/ dialog' \in {dialog, "none"} \/ UserCalls = {}
  BY DEF vars, Next, MainStep, EngineStep, Edit, CancelWhere, DiscardRecovery, CloseWindow,
         QuitApp, GuardCancel, GuardDiscard, MarkDirty, Autosave, Rejected, Saved, Autosaved,
         Opened, Taken, EngineEnds, Snapshot, WriteTemp, Publish, PublishMixed, Fail,
         CloseReplaced, Load, Crash, Restart, Attentive
<1> QED BY <1>1, <1>2, <1>3, <1>4, KindsNext DEF Alone

\* The user's saves and the loads, together: all are calls of the user.
LEMMA UserKinds == UserCalls = {c \in Calls : call[c].kind \in UserSaves \cup LoadKinds}
  BY DEF UserCalls, InFlight, UserSaves

\* The steps after which every save and load in flight is what it was, and so
\* are the documents and files they are compared with.
LEMMA Framed ==
  ASSUME SavesAreCurrent, LoadsAreCurrent, CallsWellFormed, Patient,
         \A e \in Calls :
           \/ call'[e] = call[e]
           \/ call'[e].kind \in {"none", "autosave"}
           \/ call'[e].phase = "failed" /\ call'[e].kind \in LoadKinds
           \/ call'[e].phase = "failed" /\ call'[e].doc = call[e].doc /\ call[e].kind \in UserSaves,
         session'.doc = session.doc,
         content'[session.doc] = content[session.doc] \/ InFlight(UserSaves) = {},
         \A e \in Calls : (call[e].phase = "answered" /\ call[e].kind \in LoadKinds)
                            => content'[call[e].doc] = content[call[e].doc],
         \A p \in Paths : file'[p] = file[p]
  PROVE  SavesAreCurrent' /\ LoadsAreCurrent'
<1>1. SavesAreCurrent'
  BY DEF SavesAreCurrent, CallsWellFormed, InFlight, UserSaves, LoadKinds, Copying
<1>2. LoadsAreCurrent'
  BY DEF LoadsAreCurrent, CallsWellFormed, UserSaves, LoadKinds
<1> QED BY <1>1, <1>2

\* Only a published save changes a project.
LEMMA ProjectsKept ==
  ASSUME TypeOK, [Next]_vars, NEW p \in Paths
  PROVE  \/ file'[p] = file[p]
         \/ \E c \in Calls : (Publish(c) \/ PublishMixed(c)) /\ call[c].target = p
<1>1. file \in [Paths \cup {Slot} -> OnDisk] /\ p # Slot
  BY SlotAssumption DEF TypeOK
<1>2. CASE DiscardRecovery \/ CloseWindow \/ QuitApp \/ GuardDiscard \/ \E c \in Calls : Saved(c) \/ Taken(c)
  <2>1. Clear \/ UNCHANGED file
    BY <1>2 DEF DiscardRecovery, CloseWindow, QuitApp, GuardDiscard, Saved, Taken, Leave
  <2> QED BY <1>1, <2>1 DEF Clear
<1>3. ASSUME NEW c \in Calls, Publish(c) \/ PublishMixed(c)
      PROVE  file'[p] = file[p] \/ call[c].target = p
  BY <1>1, <1>3 DEF Publish, PublishMixed
<1>4. CASE \/ UNCHANGED vars \/ Edit \/ CancelWhere \/ GuardCancel \/ MarkDirty
           \/ EngineEnds \/ Crash \/ Restart
           \/ \E c \in Calls :
                \/ Rejected(c) \/ Autosaved(c) \/ Opened(c)
                \/ Snapshot(c) \/ WriteTemp(c) \/ Fail(c) \/ CloseReplaced(c)
                \/ \E d \in Docs : Load(c, d)
  BY <1>4 DEF vars, Edit, CancelWhere, GuardCancel, MarkDirty, EngineEnds, Crash, Restart,
              Rejected, Autosaved, Opened, Snapshot, WriteTemp, Fail, CloseReplaced, Load
<1>5. CASE \E c \in Calls :
             \/ Save(c) \/ OpenPhoto(c) \/ TakeRecovery(c) \/ Autosave(c) \/ GuardSave(c)
             \/ \E q \in Paths : ChooseWhere(c, q) \/ OpenProject(c, q)
  BY <1>5 DEF Save, OpenPhoto, TakeRecovery, Autosave, GuardSave, ChooseWhere, OpenProject
<1> QED BY <1>2, <1>3, <1>4, <1>5 DEF Next, MainStep, EngineStep

LEMMA CurrentNext ==
  ASSUME IInv, [Next]_vars, Patient
  PROVE  SavesAreCurrent' /\ LoadsAreCurrent'
<1>0. /\ call \in [Calls -> CallState] /\ content \in [Docs -> Maybe(Content)]
      /\ file \in [Paths \cup {Slot} -> OnDisk] /\ session \in SessionState
      /\ Slot \notin Paths
  BY SlotAssumption DEF IInv, TypeOK
<1> USE DEF IInv
<1>1. ASSUME ~\E c \in Calls : Publish(c) \/ PublishMixed(c)
      PROVE  \A p \in Paths : file'[p] = file[p]
  BY <1>1, ProjectsKept
<1>2. ASSUME NEW c \in Calls, call[c].kind \in LoadKinds \cup UserSaves
      PROVE  \A e \in Calls \ {c} : call[e].kind \notin LoadKinds \cup UserSaves
  BY <1>2, UserKinds DEF Alone
<1>3. CASE UNCHANGED vars \/ CancelWhere \/ DiscardRecovery \/ CloseWindow \/ QuitApp
           \/ GuardCancel \/ GuardDiscard \/ MarkDirty \/ Restart
  <2>1. Quiet
    BY <1>3, QuietSteps
  <2>2. \A c \in Calls : ~Publish(c) /\ ~PublishMixed(c)
    <3>1. \A c \in Calls : Publish(c) => call' # call
      BY <1>0 DEF Publish, Answer, CallState
    <3>2. \A c \in Calls : PublishMixed(c) => call' # call
      BY <1>0, MixedShape
    <3> QED BY <2>1, <3>1, <3>2 DEF Quiet
  <2> QED BY <1>1, <2>1, <2>2, Framed DEF Quiet
<1>4. ASSUME NEW c \in Calls,
             \/ Save(c) \/ OpenPhoto(c) \/ TakeRecovery(c) \/ Autosave(c) \/ GuardSave(c)
             \/ \E p \in Paths : ChooseWhere(c, p) \/ OpenProject(c, p)
      PROVE  SavesAreCurrent' /\ LoadsAreCurrent'
  BY <1>4, SendingSteps DEF SavesAreCurrent, LoadsAreCurrent, InFlight, UserSaves, LoadKinds, Copying
<1>5. CASE Edit
  <2>1. UserCalls = {} /\ UNCHANGED <<call, file, session>>
    BY <1>5 DEF Edit, Attentive
  <2> QED BY <2>1, UserKinds DEF SavesAreCurrent, LoadsAreCurrent, InFlight, UserSaves, LoadKinds
<1>6. ASSUME NEW c \in Calls, Rejected(c) \/ Saved(c) \/ Autosaved(c)
      PROVE  SavesAreCurrent' /\ LoadsAreCurrent'
  <2>1. /\ \A e \in Calls : call'[e] = call[e] \/ call'[e].kind = "none"
        /\ UNCHANGED content /\ session'.doc = session.doc
    <3>1. call' = [call EXCEPT ![c] = NoCall] /\ NoCall.kind = "none" /\ UNCHANGED content
      BY <1>6 DEF Rejected, Saved, Autosaved, NoCall
    <3>2. session'.doc = session.doc
      BY <1>0, <1>6 DEF Rejected, Saved, Autosaved, SessionState
    <3> QED BY <1>0, <3>1, <3>2
  <2>2. \A p \in Paths : file'[p] = file[p]
    BY <1>0, <1>6 DEF Rejected, Saved, Autosaved, Leave, Clear
  <2> QED BY <2>1, <2>2, Framed
<1>7. ASSUME NEW c \in Calls, Opened(c) \/ Taken(c) \/ CloseReplaced(c)
      PROVE  SavesAreCurrent' /\ LoadsAreCurrent'
  <2>1. call[c].kind \in LoadKinds
    BY <1>7 DEF Opened, Taken, CloseReplaced, Finished, CallsWellFormed, LoadKinds
  <2>2. \A e \in Calls \ {c} : call'[e] = call[e]
    BY <1>0, <1>7 DEF Opened, Taken, CloseReplaced
  <2>3. call'[c].kind \in {"none", "open"} /\ call'[c].phase # "answered"
    <3>1. /\ NoCall.kind = "none" /\ NoCall.phase = "idle"
          /\ [NoCall EXCEPT !.kind = "open", !.doc = session.doc, !.phase = "closing"].kind = "open"
          /\ [NoCall EXCEPT !.kind = "open", !.doc = session.doc, !.phase = "closing"].phase = "closing"
      BY DEF NoCall
    <3>2. CASE Opened(c)
      BY <1>0, <3>1, <3>2 DEF Opened
    <3>3. CASE Taken(c) \/ CloseReplaced(c)
      BY <1>0, <3>1, <3>3 DEF Taken, CloseReplaced
    <3> QED BY <1>7, <3>2, <3>3
  <2> QED BY <1>2, <2>1, <2>2, <2>3 DEF SavesAreCurrent, LoadsAreCurrent, InFlight, UserSaves, LoadKinds
<1>8. ASSUME NEW c \in Calls, Snapshot(c) PROVE SavesAreCurrent' /\ LoadsAreCurrent'
  <2> DEFINE taken == [call[c] EXCEPT !.snap = content[call[c].doc], !.phase = "taken",
                  !.copies = ({content[call[c].doc]} \cup {Holds(e) : e \in Pending}) \ {None}]
  <2>1. /\ taken.kind = call[c].kind /\ taken.doc = call[c].doc /\ taken.target = call[c].target
        /\ taken.snap = content[call[c].doc] /\ taken.phase = "taken"
    BY <1>0 DEF CallState
  <2>2. call' = [call EXCEPT ![c] = taken] /\ UNCHANGED <<content, file, session>>
        /\ call[c].kind \in SaveKinds
    BY <1>8 DEF Snapshot
  <2> HIDE DEF taken
  <2>3. call'[c] = taken /\ \A e \in Calls \ {c} : call'[e] = call[e]
    BY <1>0, <2>2
  <2> QED BY <2>1, <2>2, <2>3 DEF SavesAreCurrent, LoadsAreCurrent, InFlight, UserSaves, SaveKinds
<1>9. ASSUME NEW c \in Calls, Publish(c) PROVE SavesAreCurrent' /\ LoadsAreCurrent'
  <2> DEFINE answered == [call[c] EXCEPT !.phase = "answered"]
  <2>1. /\ answered.kind = call[c].kind /\ answered.doc = call[c].doc
        /\ answered.target = call[c].target /\ answered.snap = call[c].snap
        /\ answered.phase = "answered"
    BY <1>0 DEF CallState
  <2>2. /\ call' = [call EXCEPT ![c] = answered] /\ UNCHANGED <<content, session>>
        /\ file' = [file EXCEPT ![call[c].target] = call[c].snap]
        /\ call[c].kind \in SaveKinds /\ call[c].phase = "writing"
    BY <1>9 DEF Publish, Answer, CallsWellFormed, Copying
  <2> HIDE DEF answered
  <2>3. call'[c] = answered /\ \A e \in Calls \ {c} : call'[e] = call[e]
    BY <1>0, <2>2
  <2>4. CASE call[c].kind = "autosave"
    <3>1. \A p \in Paths : file'[p] = file[p]
      BY <1>0, <2>2, <2>4 DEF CallsWellFormed
    <3> QED BY <2>1, <2>2, <2>3, <2>4, <3>1, Framed
  <2>5. CASE call[c].kind \in UserSaves
    <3>1. file'[call[c].target] = call[c].snap
      BY <1>0, <2>2, <2>5 DEF CallsWellFormed
    <3>2. call[c].doc = session.doc /\ call[c].snap = content[session.doc]
      BY <2>2, <2>5 DEF SavesAreCurrent, InFlight, Copying
    <3>3. \A e \in Calls \ {c} : call'[e].kind \notin LoadKinds \cup UserSaves
      BY <1>2, <2>3, <2>5
    <3>4. SavesAreCurrent'
      BY <2>1, <2>2, <2>3, <3>1, <3>2, <3>3 DEF SavesAreCurrent, InFlight
    <3>5. LoadsAreCurrent'
      BY <2>1, <2>3, <2>5, <3>3 DEF LoadsAreCurrent, LoadKinds, UserSaves
    <3> QED BY <3>4, <3>5
  <2> QED BY <2>2, <2>4, <2>5 DEF SaveKinds, UserSaves
<1>10. ASSUME NEW c \in Calls, Fail(c) PROVE SavesAreCurrent' /\ LoadsAreCurrent'
  <2>1. /\ call'[c].kind = call[c].kind /\ call'[c].doc = call[c].doc /\ call'[c].phase = "failed"
        /\ \A e \in Calls \ {c} : call'[e] = call[e]
        /\ UNCHANGED <<content, session, file>>
    BY <1>0, <1>10 DEF Fail, Answer, CallState
  <2> QED BY <2>1 DEF SavesAreCurrent, LoadsAreCurrent, InFlight, UserSaves, Copying
<1>11. ASSUME NEW c \in Calls, NEW d \in Docs, Load(c, d) PROVE SavesAreCurrent' /\ LoadsAreCurrent'
  <2>1. /\ call[c].kind \in LoadKinds /\ call'[c].kind = call[c].kind /\ call'[c].doc = d
        /\ call'[c].target = call[c].target /\ UNCHANGED file
        /\ \A e \in Calls \ {c} : call'[e] = call[e]
    BY <1>0, <1>11 DEF Load, Answer, CallState
  <2>2. content'[d] = IF call[c].kind = "open" THEN [work |-> d, version |-> 0] ELSE file[call[c].target]
    BY <1>0, <1>11 DEF Load
  <2> QED BY <1>2, <2>1, <2>2 DEF SavesAreCurrent, LoadsAreCurrent, InFlight, UserSaves, LoadKinds
<1>12. CASE EngineEnds \/ Crash
  <2>1. \A e \in Calls : call'[e] = NoCall
    BY <1>12 DEF EngineEnds, Crash
  <2> QED BY <2>1 DEF SavesAreCurrent, LoadsAreCurrent, InFlight, NoCall, UserSaves
\* The one save of a patient user shares its path with nobody.
<1>13. ASSUME NEW c \in Calls, WriteTemp(c) PROVE SavesAreCurrent' /\ LoadsAreCurrent'
  <2>1. call[c].phase = "taken" /\ \A e \in Writers(call[c].target) : call[e].phase \in Copying
    BY <1>13 DEF WriteTemp, Writers, Copying
  <2>2. call[c].kind \in UserSaves => Writers(call[c].target) \ {c} = {}
    <3>1. ASSUME call[c].kind \in UserSaves, NEW e \in Writers(call[c].target), e # c PROVE FALSE
      <4>1. e \in Calls /\ call[e].kind \in SaveKinds /\ call[e].target = call[c].target
            /\ call[c].target \in Paths
        BY <2>1, <3>1 DEF Writers, CallsWellFormed
      <4>2. call[e].kind # "autosave"
        BY <1>0, <4>1 DEF CallsWellFormed
      <4> QED BY <1>2, <3>1, <4>1, <4>2 DEF SaveKinds, UserSaves
    <3> QED BY <3>1 DEF Writers
  <2>3. \A e \in InFlight(UserSaves) : call'[e].phase # "mixed"
    <3>1. ASSUME NEW e \in InFlight(UserSaves), call'[e].phase = "mixed" PROVE FALSE
      <4>1. e \in Calls /\ call[e].kind \in UserSaves /\ call[e].phase # "mixed"
        BY DEF InFlight, SavesAreCurrent
      <4>2. Writers(call[c].target) \ {c} # {} /\ call[e].target = call[c].target
        BY <1>0, <1>13, <3>1, <4>1, WriteShape
      <4>3. call[c].kind \notin UserSaves
        BY <2>2, <4>2
      <4>4. call[c].kind = "autosave"
        BY <2>1, <4>3 DEF CallsWellFormed, Copying, SaveKinds, UserSaves
      <4> QED BY <1>0, <4>1, <4>2, <4>4 DEF CallsWellFormed
    <3> QED BY <3>1
  <2>4. UNCHANGED <<content, session, file>>
        /\ \A e \in Calls :
             /\ call'[e].kind = call[e].kind /\ call'[e].doc = call[e].doc
             /\ call'[e].target = call[e].target /\ call'[e].snap = call[e].snap
             /\ call'[e].phase = call[e].phase
                \/ (call[e].phase \in Copying /\ call'[e].phase \in {"writing", "mixed"})
    BY <1>0, <1>13, WriteShape
  <2>5. SavesAreCurrent'
    BY <2>3, <2>4 DEF SavesAreCurrent, InFlight, Copying
  <2>6. LoadsAreCurrent'
    BY <2>4 DEF LoadsAreCurrent
  <2> QED BY <2>5, <2>6
<1>14. ASSUME NEW c \in Calls, PublishMixed(c) PROVE SavesAreCurrent' /\ LoadsAreCurrent'
  <2>1. UNCHANGED <<content, session>> /\ call[c].phase = "mixed"
        /\ \A e \in Calls :
             /\ call'[e].kind = call[e].kind /\ call'[e].doc = call[e].doc
             /\ call'[e].target = call[e].target /\ call'[e].snap = call[e].snap
             /\ e # c => call'[e].phase = call[e].phase
    BY <1>0, <1>14, MixedShape
  <2>2. call[c].kind = "autosave"
    BY <2>1 DEF CallsWellFormed, SavesAreCurrent, InFlight, Copying, SaveKinds, UserSaves
  <2>3. \A p \in Paths : file'[p] = file[p]
    <3>1. call[c].target = Slot
      BY <2>2 DEF CallsWellFormed
    <3> QED BY <1>0, <1>14, <3>1 DEF PublishMixed
  <2>4. SavesAreCurrent'
    BY <2>1, <2>2, <2>3 DEF SavesAreCurrent, InFlight, UserSaves, CallsWellFormed
  <2>5. LoadsAreCurrent'
    BY <2>1, <2>2, <2>3 DEF LoadsAreCurrent, CallsWellFormed
  <2> QED BY <2>4, <2>5
<1> QED BY <1>3, <1>4, <1>5, <1>6, <1>7, <1>8, <1>9, <1>10, <1>11, <1>12, <1>13, <1>14
        DEF Next, MainStep, EngineStep

\* An inbox loses only what is delivered, and the engine only adds to it.
LEMMA NoReplyBefore ==
  ASSUME inbox \in Seq(Calls \cup {EditReply}), NEW c \in Calls,
         NextIs(c) \/ inbox' = Append(inbox, c),
         \A i \in 1..Len(inbox') : inbox'[i] # EditReply
  PROVE  \A i \in 1..Len(inbox) : inbox[i] # EditReply
<1>1. c # EditReply
  BY CallAssumption
<1>2. CASE inbox' = Append(inbox, c)
  BY <1>2
<1>3. CASE NextIs(c)
  <2>1. inbox # <<>> /\ inbox' = Tail(inbox) /\ inbox[1] = c
    BY <1>3 DEF NextIs
  <2>2. Len(inbox') = Len(inbox) - 1 /\ Len(inbox) \in Nat \ {0}
        /\ \A i \in 1..Len(inbox') : inbox'[i] = inbox[i + 1]
    BY <2>1
  <2>3. ASSUME NEW i \in 1..Len(inbox), i # 1 PROVE inbox[i] # EditReply
    <3>1. i - 1 \in 1..Len(inbox') /\ (i - 1) + 1 = i
      BY <2>2, <2>3
    <3>2. inbox'[i - 1] = inbox[i]
      BY <2>2, <3>1
    <3> QED BY <3>1, <3>2
  <2> QED BY <1>1, <2>1, <2>3
<1> QED BY <1>2, <1>3

LEMMA CleanNext ==
  ASSUME IInv, [Next]_vars, Patient
  PROVE  CleanMeansSaved'
<1>0. /\ call \in [Calls -> CallState] /\ content \in [Docs -> Maybe(Content)]
      /\ file \in [Paths \cup {Slot} -> OnDisk] /\ session \in SessionState
      /\ session.doc \in Docs \cup {None} /\ session.path \in Paths \cup {None}
      /\ inbox \in Seq(Calls \cup {EditReply})
      /\ Slot \notin Paths /\ None \notin Docs /\ None \notin Paths
  BY SlotAssumption DEF IInv, TypeOK, SessionState, Maybe
<1> DEFINE Silent == \A i \in 1..Len(inbox) : inbox[i] # EditReply
<1> USE DEF IInv
<1>1. CleanMeansSaved
  BY DEF Cleanliness
\* The steps after which a clean session is one that was clean, with its document
\* and its project as they were.
<1>2. ASSUME app' = "running" => app = "running", UNCHANGED session,
             content'[session.doc] = content[session.doc],
             \A p \in Paths : file'[p] = file[p] \/ file'[p] = content[session.doc],
             Silent' => Silent
      PROVE  CleanMeansSaved'
  BY <1>0, <1>1, <1>2 DEF CleanMeansSaved, InItsFile
<1>3. ASSUME ~\E c \in Calls : Publish(c) \/ PublishMixed(c)
      PROVE  \A p \in Paths : file'[p] = file[p]
  BY <1>3, ProjectsKept
<1>4. CASE UNCHANGED vars \/ CancelWhere \/ DiscardRecovery \/ CloseWindow \/ QuitApp
           \/ GuardCancel \/ GuardDiscard
  <2>1. UNCHANGED <<session, content, inbox>> /\ (app' = "running" => app = "running")
    BY <1>4 DEF vars, CancelWhere, DiscardRecovery, CloseWindow, QuitApp, GuardCancel,
                GuardDiscard, Leave
  <2>2. \A p \in Paths : file'[p] = file[p]
    BY <1>0, <1>4 DEF vars, CancelWhere, DiscardRecovery, CloseWindow, QuitApp, GuardCancel,
                      GuardDiscard, Leave, Clear
  <2> QED BY <1>2, <2>1, <2>2
<1>5. CASE MarkDirty
  <2>1. session'.dirty = TRUE
    BY <1>0, <1>5 DEF MarkDirty, SessionState
  <2> QED BY <2>1 DEF CleanMeansSaved
<1>6. CASE Edit
  <2>1. Len(inbox') \in 1..Len(inbox') /\ inbox'[Len(inbox')] = EditReply
    BY <1>0, <1>6 DEF Edit
  <2> QED BY <2>1 DEF CleanMeansSaved
<1>7. CASE EngineEnds
  <2>1. session' = session /\ \A d \in Docs : content'[d] = None
    BY <1>7 DEF EngineEnds
  <2> QED BY <1>0, <2>1 DEF CleanMeansSaved
<1>8. CASE Crash \/ Restart
  BY <1>8 DEF Crash, Restart, CleanMeansSaved, OneThingAtATime
<1>9. ASSUME NEW c \in Calls,
             \/ Save(c) \/ OpenPhoto(c) \/ TakeRecovery(c) \/ Autosave(c) \/ GuardSave(c)
             \/ \E p \in Paths : ChooseWhere(c, p) \/ OpenProject(c, p)
      PROVE  CleanMeansSaved'
  <2>1. UNCHANGED <<content, file, session, inbox, app>>
    BY <1>9, SendingSteps
  <2> QED BY <1>2, <2>1
<1>10. ASSUME NEW c \in Calls, Rejected(c) \/ Autosaved(c) PROVE CleanMeansSaved'
  <2>1. UNCHANGED <<content, file, session, app>> /\ NextIs(c)
    BY <1>10 DEF Rejected, Autosaved, Finished
  <2> QED BY <1>0, <1>2, <2>1, NoReplyBefore
<1>11. ASSUME NEW c \in Calls, Saved(c) PROVE CleanMeansSaved'
  <2>1. /\ call[c].kind \in UserSaves /\ call[c].phase = "answered" /\ call[c].target \in Paths
        /\ UNCHANGED content
    BY <1>11 DEF Saved, Finished, CallsWellFormed, UserSaves
  <2>2. session'.doc = session.doc /\ session'.path = call[c].target
    BY <1>0, <1>11 DEF Saved, SessionState
  <2>3. file[call[c].target] = content[session.doc]
    BY <2>1 DEF SavesAreCurrent, InFlight
  <2>4. file'[call[c].target] = file[call[c].target]
    BY <1>0, <1>11, <2>1 DEF Saved, Leave, Clear
  <2> QED BY <1>0, <2>1, <2>2, <2>3, <2>4 DEF CleanMeansSaved, InItsFile
<1>12. ASSUME NEW c \in Calls, Opened(c) PROVE CleanMeansSaved'
  <2>1. /\ call[c].kind \in {"open", "openProject"} /\ call[c].phase = "answered"
        /\ UNCHANGED <<content, file>>
        /\ session'.doc = call[c].doc
        /\ session'.path = IF call[c].kind = "open" THEN None ELSE call[c].target
    BY <1>12 DEF Opened, Finished
  <2>2. call[c].kind = "openProject" => call[c].target \in Paths
    BY DEF CallsWellFormed
  <2> QED BY <1>0, <2>1, <2>2 DEF CleanMeansSaved, InItsFile, LoadsAreCurrent
<1>13. ASSUME NEW c \in Calls, Taken(c) PROVE CleanMeansSaved'
  BY <1>13 DEF Taken, CleanMeansSaved
<1>14. ASSUME NEW c \in Calls, Snapshot(c) \/ WriteTemp(c) \/ Fail(c) PROVE CleanMeansSaved'
  <2>1. UNCHANGED <<content, file, session, app>>
        /\ (UNCHANGED inbox \/ inbox' = Append(inbox, c))
    BY <1>14 DEF Snapshot, WriteTemp, Fail, Answer
  <2> QED BY <1>0, <1>2, <2>1, NoReplyBefore
<1>15. ASSUME NEW c \in Calls, Publish(c) PROVE CleanMeansSaved'
  <2>1. /\ UNCHANGED <<content, session, app>> /\ inbox' = Append(inbox, c)
        /\ file' = [file EXCEPT ![call[c].target] = call[c].snap] /\ call[c].phase = "writing"
    BY <1>15 DEF Publish, Answer
  <2>2. ASSUME NEW p \in Paths PROVE file'[p] = file[p] \/ file'[p] = content[session.doc]
    <3>1. CASE call[c].target = p
      <4>1. call[c].kind \in UserSaves
        BY <1>0, <2>1, <3>1 DEF CallsWellFormed, UserSaves, SaveKinds, Copying
      <4>2. call[c].snap = content[session.doc]
        BY <2>1, <4>1 DEF SavesAreCurrent, InFlight, Copying
      <4> QED BY <1>0, <2>1, <3>1, <4>2
    <3>2. CASE call[c].target # p
      BY <1>0, <2>1, <3>2
    <3> QED BY <3>1, <3>2
  <2> QED BY <1>0, <1>2, <2>1, <2>2, NoReplyBefore
<1>16. ASSUME NEW c \in Calls, NEW d \in Docs, Load(c, d) PROVE CleanMeansSaved'
  <2>1. /\ UNCHANGED <<session, file, app>> /\ inbox' = Append(inbox, c)
        /\ session.doc # d
        /\ (session.doc # None => content'[session.doc] = content[session.doc])
    BY <1>0, <1>16 DEF Load, Unused, Answer
  <2>2. CASE session.doc = None
    BY <2>1, <2>2 DEF CleanMeansSaved
  <2>3. CASE session.doc # None
    BY <1>0, <1>2, <2>1, <2>3, NoReplyBefore
  <2> QED BY <2>2, <2>3
<1>17. ASSUME NEW c \in Calls, CloseReplaced(c) PROVE CleanMeansSaved'
  <2>1. /\ UNCHANGED <<session, file, app, inbox>>
        /\ \A d \in Docs : d # call[c].doc => content'[d] = content[d]
        /\ call[c].doc # session.doc
    BY <1>0, <1>17 DEF CloseReplaced, CallsWellFormed
  <2>2. CASE session.doc = None
    BY <2>1, <2>2 DEF CleanMeansSaved
  <2>3. CASE session.doc # None
    BY <1>0, <1>2, <2>1, <2>3
  <2> QED BY <2>2, <2>3
<1>18. ASSUME NEW c \in Calls, PublishMixed(c) PROVE CleanMeansSaved'
  <2>1. UNCHANGED <<content, session, app>> /\ inbox' = Append(inbox, c) /\ call[c].phase = "mixed"
    BY <1>0, <1>18, MixedShape
  <2>2. call[c].kind = "autosave"
    BY <2>1 DEF CallsWellFormed, SavesAreCurrent, InFlight, Copying, SaveKinds, UserSaves
  <2>3. \A p \in Paths : file'[p] = file[p]
    <3>1. call[c].target = Slot
      BY <2>2 DEF CallsWellFormed
    <3> QED BY <1>0, <1>18, <3>1 DEF PublishMixed
  <2> QED BY <1>0, <1>2, <2>1, <2>3, NoReplyBefore
<1> QED BY <1>4, <1>5, <1>6, <1>7, <1>8, <1>9, <1>10, <1>11, <1>12, <1>13, <1>14, <1>15,
           <1>16, <1>17, <1>18 DEF Next, MainStep, EngineStep

-----------------------------------------------------------------------------
(* Theorems.                                                               *)

LEMMA IInvInit == Init => IInv
<1> SUFFICES ASSUME Init PROVE IInv
  OBVIOUS
<1>1. TypeOK
  BY TypeOKInit
<1>2. \A c \in Calls : call[c] = NoCall
  BY DEF Init
<1>3. session.doc = None /\ dialog = "none" /\ confirmed = FALSE
  BY DEF Init, NoSession
<1>4. CallsWellFormed /\ OneThingAtATime /\ Alone /\ SavesAreCurrent /\ LoadsAreCurrent
  BY <1>2, <1>3 DEF NoCall, CallsWellFormed, OneThingAtATime, Alone, SavesAreCurrent,
                    LoadsAreCurrent, UserCalls, InFlight, UserSaves, SaveKinds, LoadKinds, Copying
<1>5. Cleanliness
  BY <1>3 DEF Cleanliness, CleanMeansSaved
<1> QED BY <1>1, <1>4, <1>5 DEF IInv

LEMMA IInvNext == IInv /\ [Next]_vars => IInv'
<1> SUFFICES ASSUME IInv, [Next]_vars PROVE IInv'
  OBVIOUS
<1>1. TypeOK' /\ CallsWellFormed' /\ OneThingAtATime' /\ Alone'
  BY TypeOKNext, CallsNext, OneThingNext, AloneNext DEF IInv
<1>2. CASE Patient
  BY <1>1, <1>2, CurrentNext, CleanNext DEF IInv, Cleanliness
<1>3. CASE ~Patient
  BY <1>1, <1>3 DEF IInv, SavesAreCurrent, LoadsAreCurrent, Cleanliness
<1> QED BY <1>2, <1>3

\* The inductive invariant holds in every reachable state; the theorems below
\* follow from it.
THEOREM Invariant == Spec => []IInv
  BY IInvInit, IInvNext, PTL DEF Spec

\* Every variable keeps its type, whatever the user, the engine and crashes do.
THEOREM TypeCorrect == Spec => []TypeOK
<1>1. IInv => TypeOK
  BY DEF IInv
<1> QED BY <1>1, Invariant, PTL

\* A user who waits for one thing before the next: a session reported clean is in
\* its file, through failed saves, autosaves, vetoed quits and crashes (the
\* handlers of ipc/handlers.ts and the guards of main.ts).
THEOREM CleanIsSaved == ASSUME Patient PROVE Spec => []CleanMeansSaved
<1>1. IInv => CleanMeansSaved
  BY DEF IInv, Cleanliness
<1> QED BY <1>1, Invariant, PTL

\* Without any assumption on the user: only a save the user asked for changes a
\* project on disk (autosave in main.ts, recoveryTake in ipc/handlers.ts).
THEOREM AutosaveKeepsOff == Spec => AutosaveNeverTouchesProjects
<1> DEFINE Asked(p) == \E c \in Calls : call[c].kind \in {"save", "closeSave"} /\ call[c].target = p
<1>1. ASSUME IInv, [Next]_vars, NEW p \in Paths, file'[p] # file[p] PROVE Asked(p)
  <2>1. PICK c \in Calls : (Publish(c) \/ PublishMixed(c)) /\ call[c].target = p
    BY <1>1, ProjectsKept DEF IInv
  <2>2. call[c].kind \in SaveKinds /\ call[c].kind # "autosave"
    BY <2>1, SlotAssumption, <1>1 DEF Publish, PublishMixed, IInv, CallsWellFormed, Copying
  <2> QED BY <2>1, <2>2 DEF SaveKinds
<1>2. IInv /\ [Next]_vars => [\A p \in Paths : file'[p] # file[p] => Asked(p)]_vars
  BY <1>1
<1> QED BY <1>2, Invariant, PTL DEF Spec, AutosaveNeverTouchesProjects

\* A user who waits for one thing before the next never leaves unsaved work
\* behind without having said so, by the close button or by quitting
\* (guardAgainstLosingWork and before-quit in main.ts).
THEOREM LeavingKeepsWork == ASSUME Patient PROVE Spec => ExitKeepsWork
<1> DEFINE Left == app = "running" /\ app' = "exited" /\ ~dropped' /\ session.doc # None
                   /\ content[session.doc] # None
<1>1. ASSUME IInv, Next, Left PROVE InItsFile'
  <2>0. /\ file \in [Paths \cup {Slot} -> OnDisk] /\ session \in SessionState
        /\ session.path \in Paths \cup {None} /\ Slot \notin Paths
    BY <1>1, SlotAssumption DEF IInv, TypeOK, SessionState, Maybe
  <2>1. CASE CloseWindow \/ QuitApp
    <3>1. /\ \A i \in 1..Len(inbox) : inbox[i] # EditReply
          /\ ~session.dirty
      BY <1>1, <2>1 DEF CloseWindow, QuitApp, Settled, MayClose, IInv, OneThingAtATime
    <3>2. InItsFile
      BY <1>1, <3>1 DEF IInv, Cleanliness, CleanMeansSaved
    <3>3. UNCHANGED <<content, session>> /\ \A p \in Paths : file'[p] = file[p]
      BY <1>1, <2>0, <2>1 DEF CloseWindow, QuitApp, Leave, Clear
    <3> QED BY <2>0, <3>2, <3>3 DEF InItsFile
  <2>2. ASSUME NEW c \in Calls, Saved(c) PROVE InItsFile'
    <3>1. /\ call[c].kind \in UserSaves /\ call[c].phase = "answered" /\ call[c].target \in Paths
          /\ UNCHANGED content
      BY <1>1, <2>2 DEF Saved, Finished, IInv, CallsWellFormed, UserSaves
    <3>2. session'.doc = session.doc /\ session'.path = call[c].target
      BY <2>0, <2>2 DEF Saved, SessionState
    <3>3. file[call[c].target] = content[session.doc]
      BY <1>1, <3>1 DEF IInv, SavesAreCurrent, InFlight
    <3>4. file'[call[c].target] = file[call[c].target] /\ call[c].target # None
      BY <2>0, <2>2, <3>1, SlotAssumption DEF Saved, Leave, Clear
    <3> QED BY <3>1, <3>2, <3>3, <3>4 DEF InItsFile
  <2>3. CloseWindow \/ QuitApp \/ \E c \in Calls : Saved(c)
    <3>1. GuardDiscard => dropped'
      BY DEF GuardDiscard
    <3>2. app' = app \/ app' # "exited" \/ CloseWindow \/ QuitApp \/ GuardDiscard
          \/ \E c \in Calls : Saved(c)
      BY <1>1 DEF Next, MainStep, EngineStep, Edit, CancelWhere, DiscardRecovery, GuardCancel,
           MarkDirty, Save, OpenPhoto, TakeRecovery, Autosave, GuardSave, Rejected, Autosaved,
           Opened, Taken, ChooseWhere, OpenProject, EngineEnds, Snapshot, WriteTemp, Publish,
           PublishMixed, Fail, CloseReplaced, Load, Crash, Restart
    <3> QED BY <1>1, <3>1, <3>2
  <2> QED BY <2>1, <2>2, <2>3
<1>2. IInv /\ [Next]_vars => [Left => InItsFile']_vars
  BY <1>1
<1> QED BY <1>2, Invariant, PTL DEF Spec, ExitKeepsWork
-----------------------------------------------------------------------------
(* The crash net.                                                          *)

Autosaves == InFlight({"autosave"})
Older(held, found) == held.work = found.work /\ held.version <= found.version

\* Every one of these contents has one of those below it ...
Below(S, F) == \A found \in F : \E held \in S : Older(held, found)

\* ... a promise is nothing, or below all that may still be written ...
Sound(S, F) == S = {} \/ Below(S, F)

\* ... and it is kept by one of the files there are.
Kept(S, F) == \E held \in S, found \in F : Older(held, found)

Found == {file[p] : p \in Paths \cup {Slot}} \ {None, Torn}

\* What pending autosaves will write, and what the engine has of the session.
ToCome == ({Holds(e) : e \in Pending} \cup {content[d] : d \in Docs \cap {session.doc}}) \ {None}

\* An autosave of the open document whose copy of the edit stack is taken.
Copied(c) ==
  /\ call[c].kind = "autosave" /\ call[c].doc = session.doc
  /\ call[c].phase \in Copying \cup {"answered"}

\* No document, file or copy is from the future.
VersionsPast ==
  /\ \A d \in Docs : content[d] \in Content => content[d].version <= clock
  /\ \A p \in Paths \cup {Slot} : file[p] \in Content => file[p].version <= clock
  /\ \A c \in Calls : call[c].snap \in Content => call[c].snap.version <= clock

\* A crash leaves nothing in flight, the card is answered before anything is
\* opened, and an open session has a name for the marker.
NetIdle ==
  /\ app = "crashed" => secured = {} /\ \A c \in Calls : call[c].kind = "none"
  /\ card # None => session.doc = None /\ InFlight(LoadKinds) = {}
  /\ session.doc # None => session.name # None
  /\ secured # {} => session.doc # None

\* No autosave is of a document that is only about to be the session's.
FreshLoads ==
  \A c, e \in Calls :
    (call[c].kind \in LoadKinds /\ call[c].phase = "answered" /\ call[e].kind = "autosave")
    => call[e].doc # call[c].doc

\* What is promised, and what an autosave in flight would promise, is below all
\* that may still be written ...
CopiesInOrder ==
  /\ \A c \in Calls : Copied(c) => Sound(call[c].copies, ToCome)
  /\ Sound(secured, ToCome)

\* ... and while the timer runs a file keeps what was promised, or is about to be.
NetKept ==
  timerOn =>
    /\ \A c \in Calls : (Copied(c) /\ call[c].phase = "answered" /\ call[c].copies # {})
                          => Kept(call[c].copies, Found)
    /\ secured # {} => marker # None /\ Kept(secured, Found)

NetInv == IInv /\ VersionsPast /\ NetIdle /\ FreshLoads /\ CopiesInOrder /\ NetKept

LEMMA OlderTrans ==
  ASSUME NEW a \in Content, NEW b \in Content, NEW c \in Content, Older(a, b), Older(b, c)
  PROVE  Older(a, c)
<1>1. a.version \in Int /\ b.version \in Int /\ c.version \in Int
  BY BoundAssumption DEF Content
<1> QED BY <1>1 DEF Older

LEMMA OlderSelf == ASSUME NEW a \in Content PROVE Older(a, a)
<1>1. a.version \in Int
  BY BoundAssumption DEF Content
<1> QED BY <1>1 DEF Older

LEMMA VersionsNext ==
  ASSUME TypeOK, CallsWellFormed, OneThingAtATime, VersionsPast, [Next]_vars
  PROVE  VersionsPast'
<1>0. /\ call \in [Calls -> CallState] /\ content \in [Docs -> Maybe(Content)]
      /\ file \in [Paths \cup {Slot} -> OnDisk] /\ clock \in Nat
      /\ NoCall.snap = None
  BY BoundAssumption DEF TypeOK, NoCall
<1> DEFINE ContentFrom(v) == v \in Content => v.version <= clock
<1>0a. ContentFrom(None)
  BY NoneAssumption
<1>1. ASSUME clock' = clock,
             \A d \in Docs : ContentFrom(content'[d]),
             \A p \in Paths \cup {Slot} : ContentFrom(file'[p]),
             \A c \in Calls : ContentFrom(call'[c].snap)
      PROVE  VersionsPast'
  BY <1>1 DEF VersionsPast
<1>2. /\ \A d \in Docs : ContentFrom(content[d])
      /\ \A p \in Paths \cup {Slot} : ContentFrom(file[p])
      /\ \A c \in Calls : ContentFrom(call[c].snap)
  BY DEF VersionsPast
<1>3. CASE Edit
  <2> DEFINE old == content[session.doc]  new == [old EXCEPT !.version = clock + 1]
  <2>1. session.doc \in Docs /\ old \in Content
    BY <1>0, <1>3 DEF Edit, TypeOK, SessionState, Maybe
  <2>2. new.version = clock + 1
    BY <2>1 DEF Content
  <2>3. content' = [content EXCEPT ![session.doc] = new]
    BY <1>3 DEF Edit
  <2> HIDE DEF new
  <2>4. \A d \in Docs : content'[d] = new \/ content'[d] = content[d]
    BY <1>0, <2>3
  <2>5. UNCHANGED <<file, call>> /\ clock' = clock + 1
    BY <1>3 DEF Edit
  <2>6. ASSUME NEW v, ContentFrom(v) PROVE v \in Content => v.version <= clock'
    <3>1. v \in Content => v.version \in Int
      BY BoundAssumption DEF Content
    <3> QED BY <1>0, <2>5, <2>6, <3>1
  <2>7. \A d \in Docs : content'[d] \in Content => content'[d].version <= clock'
    BY <1>0, <1>2, <2>2, <2>4, <2>5, <2>6
  <2>8. \A p \in Paths \cup {Slot} : file'[p] \in Content => file'[p].version <= clock'
    BY <1>2, <2>5, <2>6
  <2>9. \A c \in Calls : call'[c].snap \in Content => call'[c].snap.version <= clock'
    BY <1>2, <2>5, <2>6
  <2> QED BY <2>7, <2>8, <2>9 DEF VersionsPast
<1>4. ASSUME NEW c \in Calls,
             \/ Save(c) \/ OpenPhoto(c) \/ TakeRecovery(c) \/ Autosave(c) \/ GuardSave(c)
             \/ \E p \in Paths : ChooseWhere(c, p) \/ OpenProject(c, p)
      PROVE  VersionsPast'
  <2>1. UNCHANGED clock
    BY <1>4 DEF Save, OpenPhoto, TakeRecovery, Autosave, GuardSave, ChooseWhere, OpenProject
  <2>2. UNCHANGED <<content, file>>
    BY <1>4, SendingSteps
  <2>3. \A e \in Calls : call'[e] = call[e] \/ call'[e].snap = None
    BY <1>4, SendingSteps
  <2> QED BY <1>0a, <1>1, <1>2, <2>1, <2>2, <2>3
<1>5. CASE UNCHANGED vars \/ CancelWhere \/ DiscardRecovery \/ CloseWindow \/ QuitApp
           \/ GuardCancel \/ GuardDiscard \/ MarkDirty \/ Restart
  <2>1. UNCHANGED <<content, call, clock>>
    BY <1>5 DEF vars, CancelWhere, DiscardRecovery, CloseWindow, QuitApp, GuardCancel,
                GuardDiscard, MarkDirty, Restart
  <2>2. UNCHANGED file \/ Clear
    BY <1>5 DEF vars, CancelWhere, DiscardRecovery, CloseWindow, QuitApp, GuardCancel,
                GuardDiscard, MarkDirty, Restart, Leave
  <2>3. \A p \in Paths \cup {Slot} : file'[p] = file[p] \/ file'[p] = None
    BY <1>0, <2>2 DEF Clear
  <2> QED BY <1>0a, <1>1, <1>2, <2>1, <2>3
<1>6. ASSUME NEW c \in Calls, Rejected(c) \/ Saved(c) \/ Autosaved(c) \/ Opened(c) \/ Taken(c)
      PROVE  VersionsPast'
  <2>1. UNCHANGED <<content, clock>>
    BY <1>6 DEF Rejected, Saved, Autosaved, Opened, Taken
  <2>2. UNCHANGED file \/ Clear
    BY <1>6 DEF Rejected, Saved, Autosaved, Opened, Taken, Leave
  <2>3. \A p \in Paths \cup {Slot} : file'[p] = file[p] \/ file'[p] = None
    BY <1>0, <2>2 DEF Clear
  <2> DEFINE closing == [NoCall EXCEPT !.kind = "open", !.doc = session.doc, !.phase = "closing"]
  <2>4. closing.snap = None
    BY DEF NoCall
  <2>5. call' = [call EXCEPT ![c] = NoCall] \/ call' = [call EXCEPT ![c] = closing]
    BY <1>6 DEF Rejected, Saved, Autosaved, Opened, Taken
  <2> HIDE DEF closing
  <2>6. \A e \in Calls : call'[e] = call[e] \/ call'[e].snap = None
    BY <1>0, <2>4, <2>5
  <2> QED BY <1>0a, <1>1, <1>2, <2>1, <2>3, <2>6
<1>7. ASSUME NEW c \in Calls, Snapshot(c) PROVE VersionsPast'
  <2>1. call[c].doc \in Docs
    BY <1>7 DEF Snapshot, CallsWellFormed
  <2>2. \A e \in Calls : call'[e].snap \in {call[e].snap, content[call[c].doc]}
    BY <1>0, <1>7 DEF Snapshot, CallState
  <2>3. UNCHANGED <<content, file, clock>>
    BY <1>7 DEF Snapshot
  <2> QED BY <1>1, <1>2, <2>1, <2>2, <2>3
<1>8. ASSUME NEW c \in Calls, Publish(c) \/ Fail(c) PROVE VersionsPast'
  <2>1. UNCHANGED <<content, clock>>
    BY <1>8 DEF Publish, Fail
  <2>2. \A e \in Calls : call'[e].snap = call[e].snap
    <3>1. CASE Publish(c)
      BY <1>0, <3>1 DEF Publish, Answer, CallState
    <3>2. CASE Fail(c)
      BY <1>0, <3>2 DEF Fail, Answer, CallState
    <3> QED BY <1>8, <3>1, <3>2
  <2>3. \A p \in Paths \cup {Slot} : file'[p] = file[p] \/ file'[p] = call[c].snap
    BY <1>0, <1>8 DEF Publish, Fail
  <2> QED BY <1>1, <1>2, <2>1, <2>2, <2>3
<1>8a. ASSUME NEW c \in Calls, WriteTemp(c) PROVE VersionsPast'
  BY <1>0, <1>1, <1>2, <1>8a, WriteShape
<1>8b. ASSUME NEW c \in Calls, PublishMixed(c) PROVE VersionsPast'
  <2>1. UNCHANGED <<content, clock>> /\ \A e \in Calls : call'[e].snap = call[e].snap
    BY <1>0, <1>8b, MixedShape
  <2>2. ASSUME NEW p \in Paths \cup {Slot} PROVE ContentFrom(file'[p])
    <3> DEFINE q == call[c].target
    <3>0. PICK left \in {file[q], Torn} \cup {call[e].snap : e \in Writers(q)} :
            file' = [file EXCEPT ![q] = left]
      BY <1>8b DEF PublishMixed
    <3>1. \/ file'[p] = file[p] \/ file'[p] = Torn
          \/ \E e \in Calls : file'[p] = call[e].snap
      BY <1>0, <3>0 DEF Writers
    <3> QED BY <1>2, <3>1, NoneAssumption
  <2> QED BY <1>1, <1>2, <2>1, <2>2
<1>9. ASSUME NEW c \in Calls, NEW d \in Docs, Load(c, d) PROVE VersionsPast'
  <2> DEFINE new == IF call[c].kind = "open" THEN [work |-> d, version |-> 0] ELSE file[call[c].target]
  <2>1. UNCHANGED <<file, clock>> /\ \A e \in Calls : call'[e].snap = call[e].snap
    BY <1>0, <1>9 DEF Load, Answer, CallState
  <2>2. ContentFrom(new)
    <3>1. CASE call[c].kind = "open"
      BY <1>0, <3>1
    <3>2. CASE call[c].kind # "open"
      <4>1. call[c].target \in Paths \cup {Slot}
        BY <1>9, <3>2 DEF Load, CallsWellFormed, LoadKinds
      <4> QED BY <1>2, <3>2, <4>1
    <3> QED BY <3>1, <3>2
  <2>3. content' = [content EXCEPT ![d] = new]
    BY <1>9 DEF Load
  <2> HIDE DEF new
  <2>4. \A e \in Docs : ContentFrom(content'[e])
    BY <1>0, <1>2, <2>2, <2>3
  <2> QED BY <1>1, <1>2, <2>1, <2>4
<1>10. ASSUME NEW c \in Calls, CloseReplaced(c) PROVE VersionsPast'
  <2>1. UNCHANGED <<file, clock>> /\ \A e \in Calls : call'[e] = call[e] \/ call'[e].snap = None
    BY <1>0, <1>10 DEF CloseReplaced
  <2>2. \A e \in Docs : content'[e] = content[e] \/ content'[e] = None
    BY <1>0, <1>10 DEF CloseReplaced
  <2> QED BY <1>0a, <1>1, <1>2, <2>1, <2>2
<1>11. CASE EngineEnds \/ Crash
  <2>1. /\ UNCHANGED <<file, clock>> /\ \A e \in Calls : call'[e].snap = None
        /\ \A d \in Docs : content'[d] = None
    BY <1>0, <1>11 DEF EngineEnds, Crash
  <2> QED BY <1>0a, <1>1, <1>2, <2>1
<1> QED BY <1>3, <1>4, <1>5, <1>6, <1>7, <1>8, <1>8a, <1>8b, <1>9, <1>10, <1>11
        DEF Next, MainStep, EngineStep

\* A patient user opens nothing while the card is on screen.
LEMMA NetIdleNext ==
  ASSUME IInv, NetIdle, Patient, [Next]_vars
  PROVE  NetIdle'
<1> USE DEF IInv
<1>0. /\ call \in [Calls -> CallState] /\ session \in SessionState
      /\ NoCall.kind = "none" /\ NoSession.doc = None
      /\ content \in [Docs -> Maybe(Content)] /\ None \notin Docs
  BY SlotAssumption DEF TypeOK, NoCall, NoSession
<1>1. CASE UNCHANGED vars \/ Edit \/ CancelWhere \/ GuardCancel \/ MarkDirty
           \/ \E c \in Calls : \/ Snapshot(c) \/ WriteTemp(c) \/ Fail(c) \/ Publish(c)
                               \/ \E d \in Docs : Load(c, d)
  <2>1. /\ UNCHANGED <<app, card, secured>>
        /\ session'.doc = session.doc /\ session'.name = session.name
    BY <1>0, <1>1 DEF vars, Edit, CancelWhere, GuardCancel, MarkDirty, Snapshot, WriteTemp, Fail,
                      Publish, Load, SessionState
  <2>2. \A e \in Calls : call'[e].kind = call[e].kind
    <3>1. ASSUME NEW c \in Calls, Snapshot(c) PROVE \A e \in Calls : call'[e].kind = call[e].kind
      BY <1>0, <3>1 DEF Snapshot, CallState
    <3>2. ASSUME NEW c \in Calls, Fail(c) \/ Publish(c) PROVE \A e \in Calls : call'[e].kind = call[e].kind
      BY <1>0, <3>2 DEF Fail, Publish, Answer, CallState
    <3>3. ASSUME NEW c \in Calls, NEW d \in Docs, Load(c, d) PROVE \A e \in Calls : call'[e].kind = call[e].kind
      BY <1>0, <3>3 DEF Load, Answer, CallState
    <3>4. CASE UNCHANGED vars \/ Edit \/ CancelWhere \/ GuardCancel \/ MarkDirty
      BY <3>4 DEF vars, Edit, CancelWhere, GuardCancel, MarkDirty
    <3>5. ASSUME NEW c \in Calls, WriteTemp(c) PROVE \A e \in Calls : call'[e].kind = call[e].kind
      BY <1>0, <3>5, WriteShape
    <3> QED BY <1>1, <3>1, <3>2, <3>3, <3>4, <3>5
  <2> QED BY <2>1, <2>2 DEF NetIdle, InFlight
<1>2. CASE DiscardRecovery \/ CloseWindow \/ QuitApp \/ GuardDiscard
  <2>1. UNCHANGED <<session, call, secured>> /\ card' \in {card, None}
        /\ (app' = "crashed" => app = "crashed")
    BY <1>2 DEF DiscardRecovery, CloseWindow, QuitApp, GuardDiscard, Leave
  <2> QED BY <2>1 DEF NetIdle, InFlight
<1>3. ASSUME NEW c \in Calls,
             \/ Save(c) \/ OpenPhoto(c) \/ TakeRecovery(c) \/ Autosave(c) \/ GuardSave(c)
             \/ \E p \in Paths : ChooseWhere(c, p) \/ OpenProject(c, p)
      PROVE  NetIdle'
  <2>1. UNCHANGED <<session, secured, app>> /\ app = "running"
    BY <1>3 DEF Save, OpenPhoto, TakeRecovery, Autosave, GuardSave, ChooseWhere, OpenProject,
                Attentive
  <2>2. card' = None \/ (card' = card /\ \A e \in Calls : call'[e] = call[e] \/ call'[e].kind \notin LoadKinds)
    <3>1. CASE OpenPhoto(c) \/ TakeRecovery(c) \/ \E p \in Paths : OpenProject(c, p)
      BY <3>1 DEF OpenPhoto, TakeRecovery, OpenProject, CardAnswered
    <3>2. CASE Save(c)
      BY <1>0, <3>2, RequestShape DEF Save, LoadKinds
    <3>3. CASE Autosave(c)
      BY <1>0, <3>3, RequestShape DEF Autosave, LoadKinds
    <3>4. CASE GuardSave(c)
      BY <1>0, <3>4, RequestShape DEF GuardSave, LoadKinds
    <3>5. ASSUME NEW p \in Paths, ChooseWhere(c, p)
          PROVE  card' = card /\ \A e \in Calls : call'[e] = call[e] \/ call'[e].kind \notin LoadKinds
      BY <1>0, <3>5, RequestShape DEF ChooseWhere, LoadKinds
    <3> QED BY <1>3, <3>1, <3>2, <3>3, <3>4, <3>5
  <2> QED BY <2>1, <2>2 DEF NetIdle, InFlight
<1>4. ASSUME NEW c \in Calls, Rejected(c) \/ Saved(c) \/ CloseReplaced(c) PROVE NetIdle'
  <2>1. /\ session'.doc = session.doc /\ session'.name = session.name
        /\ UNCHANGED card /\ secured' \in {secured, {}} /\ (app' = "crashed" => app = "crashed")
    BY <1>0, <1>4 DEF Rejected, Saved, CloseReplaced, Leave, SessionState
  <2>2. \A e \in Calls : call'[e].kind \in {call[e].kind, "none"}
    BY <1>0, <1>4 DEF Rejected, Saved, CloseReplaced
  <2> QED BY <2>1, <2>2 DEF NetIdle, InFlight, LoadKinds
<1>5. ASSUME NEW c \in Calls, Autosaved(c) PROVE NetIdle'
  <2>1. UNCHANGED <<session, card, app>> /\ app = "running"
        /\ secured' \in {secured, call[c].copies} /\ (secured' # secured => call[c].doc = session.doc)
        /\ call[c].kind = "autosave"
    BY <1>5 DEF Autosaved, Finished, NextIs
  <2>2. call[c].doc # None
    BY <1>0, <2>1 DEF CallsWellFormed, SaveKinds
  <2>3. \A e \in Calls : call'[e].kind \in {call[e].kind, "none"}
    BY <1>0, <1>5 DEF Autosaved
  <2> QED BY <2>1, <2>2, <2>3 DEF NetIdle, InFlight, LoadKinds
<1>6. ASSUME NEW c \in Calls, Opened(c) \/ Taken(c) PROVE NetIdle'
  <2>1. /\ call[c].kind \in LoadKinds /\ call[c].phase = "answered"
        /\ UNCHANGED <<card, app>> /\ app = "running" /\ secured' = {}
        /\ session'.name = content[call[c].doc].work
    BY <1>6 DEF Opened, Taken, Finished, NextIs, LoadKinds
  <2>2. content[call[c].doc] \in Content
    BY <1>0, <2>1 DEF CallsWellFormed, Maybe
  <2>3. session'.name # None
    BY <1>0, <2>1, <2>2 DEF Content
  <2>4. card' = None
    BY <2>1 DEF NetIdle, InFlight
  <2> QED BY <2>1, <2>3, <2>4 DEF NetIdle
<1>7. CASE EngineEnds
  <2>1. UNCHANGED <<session, card, app, secured>> /\ \A e \in Calls : call'[e].kind = "none"
    BY <1>0, <1>7 DEF EngineEnds
  <2> QED BY <2>1 DEF NetIdle, InFlight, LoadKinds
<1>8. CASE Crash
  <2>1. /\ session'.doc = None /\ card' = None /\ secured' = {}
        /\ \A e \in Calls : call'[e].kind = "none"
    BY <1>0, <1>8 DEF Crash
  <2> QED BY <2>1 DEF NetIdle
<1>9. CASE Restart
  <2>1. /\ app = "crashed" /\ app' = "running" /\ UNCHANGED <<session, call, secured>>
    BY <1>9 DEF Restart
  <2>2. session'.doc = None /\ InFlight(LoadKinds)' = {}
    BY <2>1 DEF OneThingAtATime, NetIdle, InFlight, LoadKinds
  <2> QED BY <2>1, <2>2 DEF NetIdle
<1>10. ASSUME NEW c \in Calls, PublishMixed(c) PROVE NetIdle'
  <2>1. UNCHANGED <<session, card, app>> /\ secured' = {}
        /\ \A e \in Calls : call'[e].kind = call[e].kind
    BY <1>0, <1>10, MixedShape
  <2> QED BY <2>1 DEF NetIdle, InFlight
<1> QED BY <1>1, <1>2, <1>3, <1>4, <1>5, <1>6, <1>7, <1>8, <1>9, <1>10
        DEF Next, MainStep, EngineStep

LEMMA FreshLoadsNext ==
  ASSUME TypeOK, CallsWellFormed, OneThingAtATime, FreshLoads, [Next]_vars
  PROVE  FreshLoads'
<1>0. call \in [Calls -> CallState]
  BY DEF TypeOK
\* The steps after which every load and autosave is one that was there.
<1>1. ASSUME \A e \in Calls :
               \/ call'[e].kind \notin LoadKinds \cup {"autosave"}
               \/ call'[e].kind \in LoadKinds /\ call'[e].phase # "answered"
               \/ /\ call'[e].kind = call[e].kind /\ call'[e].doc = call[e].doc
                  /\ call'[e].kind \in LoadKinds => call'[e].phase = call[e].phase
      PROVE  FreshLoads'
  BY <1>1 DEF FreshLoads, LoadKinds
<1>2. CASE Quiet \/ Edit
  <2>1. UNCHANGED call
    BY <1>2 DEF Quiet, Edit
  <2> QED BY <1>1, <2>1
<1>3. ASSUME NEW c \in Calls,
             \/ Save(c) \/ OpenPhoto(c) \/ TakeRecovery(c) \/ Autosave(c) \/ GuardSave(c)
             \/ \E p \in Paths : ChooseWhere(c, p) \/ OpenProject(c, p)
      PROVE  FreshLoads'
  <2>1. \A e \in Calls :
          \/ call'[e] = call[e]
          \/ call'[e].kind \in UserSaves
          \/ call'[e].kind = "autosave" /\ call'[e].doc = session.doc
          \/ call'[e].kind \in LoadKinds /\ call'[e].phase = "sent"
    BY <1>3, SendingSteps
  <2>2. \A e \in Calls : (call[e].kind \in LoadKinds /\ call[e].phase = "answered")
                           => call[e].doc # session.doc
    BY DEF CallsWellFormed
  <2> QED BY <2>1, <2>2 DEF FreshLoads, LoadKinds, UserSaves
<1>4. ASSUME NEW c \in Calls,
             Rejected(c) \/ Saved(c) \/ Autosaved(c) \/ Opened(c) \/ Taken(c) \/ CloseReplaced(c)
      PROVE  FreshLoads'
  <2> DEFINE closing == [NoCall EXCEPT !.kind = "open", !.doc = session.doc, !.phase = "closing"]
  <2>1. NoCall.kind = "none" /\ closing.kind = "open" /\ closing.phase = "closing"
    BY DEF NoCall
  <2>2. call' = [call EXCEPT ![c] = NoCall] \/ call' = [call EXCEPT ![c] = closing]
    BY <1>4 DEF Rejected, Saved, Autosaved, Opened, Taken, CloseReplaced
  <2> HIDE DEF closing
  <2>3. \A e \in Calls : call'[e] = call[e] \/ call'[e] = NoCall \/ call'[e] = closing
    BY <1>0, <2>2
  <2> QED BY <1>1, <2>1, <2>3 DEF LoadKinds
<1>5. ASSUME NEW c \in Calls, Snapshot(c) PROVE FreshLoads'
  <2>1. \A e \in Calls : call'[e].kind = call[e].kind /\ call'[e].doc = call[e].doc
    BY <1>0, <1>5 DEF Snapshot, CallState
  <2>2. \A e \in Calls : call'[e].kind \in LoadKinds => call'[e] = call[e]
    BY <1>0, <1>5, <2>1 DEF Snapshot, SaveKinds, LoadKinds
  <2> QED BY <1>1, <2>1, <2>2
<1>6. ASSUME NEW c \in Calls, Publish(c) PROVE FreshLoads'
  <2>1. \A e \in Calls : call'[e].kind = call[e].kind /\ call'[e].doc = call[e].doc
    BY <1>0, <1>6 DEF Publish, Answer, CallState
  <2>2. call[c].kind \in SaveKinds
    BY <1>6 DEF Publish, CallsWellFormed, Copying
  <2>3. \A e \in Calls : call'[e].kind \in LoadKinds => call'[e] = call[e]
    BY <1>0, <1>6, <2>1, <2>2 DEF Publish, Answer, SaveKinds, LoadKinds
  <2> QED BY <1>1, <2>1, <2>3
<1>7. ASSUME NEW c \in Calls, Fail(c) PROVE FreshLoads'
  <2>1. \A e \in Calls : call'[e].kind = call[e].kind /\ call'[e].doc = call[e].doc
                         /\ (call'[e] = call[e] \/ call'[e].phase = "failed")
    BY <1>0, <1>7 DEF Fail, Answer, CallState
  <2> QED BY <1>1, <2>1
<1>8. ASSUME NEW c \in Calls, NEW d \in Docs, Load(c, d) PROVE FreshLoads'
  <2>1. /\ \A e \in Calls \ {c} : call'[e] = call[e] /\ call[e].kind \notin LoadKinds /\ call[e].doc # d
        /\ call'[c].kind \in LoadKinds /\ call'[c].doc = d
    BY <1>0, <1>8 DEF Load, Unused, Answer, CallState, OneThingAtATime, InFlight
  <2> QED BY <2>1 DEF FreshLoads, LoadKinds
<1>9. CASE EngineEnds \/ Crash
  <2>1. \A e \in Calls : call'[e].kind = "none"
    BY <1>9 DEF EngineEnds, Crash, NoCall
  <2> QED BY <1>1, <2>1 DEF LoadKinds
<1>10. ASSUME NEW c \in Calls, WriteTemp(c) PROVE FreshLoads'
  <2>1. \A e \in Calls : /\ call'[e].kind = call[e].kind /\ call'[e].doc = call[e].doc
                         /\ call'[e] = call[e] \/ call[e].phase \in Copying
    BY <1>0, <1>10, WriteShape
  <2> QED BY <1>1, <2>1 DEF CallsWellFormed, SaveKinds, LoadKinds
<1>11. ASSUME NEW c \in Calls, PublishMixed(c) PROVE FreshLoads'
  <2>1. \A e \in Calls : /\ call'[e].kind = call[e].kind /\ call'[e].doc = call[e].doc
                         /\ call'[e].phase = call[e].phase \/ call[e].phase \in Copying
    BY <1>0, <1>11, MixedShape DEF Copying
  <2> QED BY <1>1, <2>1 DEF CallsWellFormed, SaveKinds, LoadKinds
<1> QED BY <1>2, <1>3, <1>4, <1>5, <1>6, <1>7, <1>8, <1>9, <1>10, <1>11, QuietSteps
        DEF Next, MainStep, EngineStep

\* What the invariant says of copies, of the open document and of autosaves.
LEMMA NetFacts ==
  ASSUME IInv
  PROVE  /\ call \in [Calls -> CallState] /\ session \in SessionState
         /\ content \in [Docs -> Maybe(Content)]
         /\ file \in [Paths \cup {Slot} -> OnDisk]
         /\ secured \subseteq Content /\ Found \subseteq Content
         /\ session.doc # None => session.doc \in Docs
         /\ Slot \notin Paths /\ None \notin Docs /\ None \notin Content
         /\ \A d \in Docs : content[d] # None => content[d] \in Content
         /\ \A c \in Calls : call[c].kind = "autosave" => call[c].doc \in Docs /\ call[c].target = Slot
         /\ \A c \in Calls : call[c].kind \in UserSaves => call[c].target \in Paths
         /\ \A c \in Calls : call[c].copies \subseteq Content
         /\ \A c \in Calls : Copied(c) => session.doc \in Docs
<1> USE DEF IInv
<1>1. /\ call \in [Calls -> CallState] /\ session \in SessionState
      /\ content \in [Docs -> Maybe(Content)]
      /\ file \in [Paths \cup {Slot} -> OnDisk]
      /\ secured \subseteq Content
      /\ Slot \notin Paths /\ None \notin Docs /\ None \notin Content
  BY SlotAssumption, NoneAssumption DEF TypeOK
<1>2. session.doc # None => session.doc \in Docs
  BY <1>1 DEF SessionState, Maybe
<1>3. \A c \in Calls : call[c].kind = "autosave" => call[c].doc \in Docs /\ call[c].target = Slot
  BY DEF CallsWellFormed, SaveKinds
<1>4. \A c \in Calls : call[c].kind \in UserSaves => call[c].target \in Paths
  BY DEF CallsWellFormed, UserSaves
<1>5. \A c \in Calls : Copied(c) => session.doc \in Docs
  BY <1>3 DEF Copied
<1>6. \A c \in Calls : call[c].copies \subseteq Content
  BY <1>1 DEF CallState
<1>7. Found \subseteq Content
  BY <1>1 DEF Found, OnDisk, Maybe
<1> QED BY <1>1, <1>2, <1>3, <1>4, <1>5, <1>6, <1>7 DEF Maybe

\* All that may still be written is some content.
LEMMA ToComeTyped == IInv => ToCome \subseteq Content
<1> SUFFICES ASSUME IInv PROVE ToCome \subseteq Content
  OBVIOUS
<1>1. \A e \in Pending : Holds(e) \in Maybe(Content)
  BY NetFacts DEF Pending, InFlight, Holds, CallState, Maybe
<1>2. \A d \in Docs : content[d] \in Maybe(Content)
  BY NetFacts DEF Maybe
<1> QED BY <1>1, <1>2 DEF ToCome, Maybe

\* A promise stays sound while what may still be written only moves on.
LEMMA SoundUp ==
  ASSUME NEW S \in SUBSET Content, NEW F \in SUBSET Content, NEW G \in SUBSET Content,
         Sound(S, F), Below(F, G)
  PROVE  Sound(S, G)
<1>1. CASE S = {}
  BY <1>1 DEF Sound
<1>2. CASE Below(S, F)
  <2>1. ASSUME NEW found \in G PROVE \E held \in S : Older(held, found)
    <3>1. PICK middle \in F : Older(middle, found)
      BY DEF Below
    <3>2. PICK held \in S : Older(held, middle)
      BY <1>2 DEF Below
    <3> QED BY <3>1, <3>2, OlderTrans
  <2> QED BY <2>1 DEF Sound, Below
<1> QED BY <1>1, <1>2 DEF Sound

LEMMA BelowSubset ==
  ASSUME NEW F \in SUBSET Content, NEW G \in SUBSET F
  PROVE  Below(F, G)
  BY OlderSelf DEF Below

\* The open document and the pending autosaves being what they were, or fewer.
LEMMA ToComeFramed ==
  ASSUME session'.doc = session.doc,
         session.doc \in Docs => content'[session.doc] \in {content[session.doc], None},
         \A e \in Pending' : \/ e \in Pending /\ Holds(e)' \in {Holds(e), None}
                             \/ session.doc \in Docs /\ Holds(e)' = content[session.doc]
  PROVE  ToCome' \subseteq ToCome
<1> SUFFICES ASSUME NEW v \in ToCome' PROVE v \in ToCome
  OBVIOUS
<1>1. v # None
  BY DEF ToCome
<1>2. CASE \E e \in Pending' : v = Holds(e)'
  BY <1>1, <1>2 DEF ToCome
<1>3. CASE \E d \in Docs \cap {session.doc} : v = content'[d]
  BY <1>1, <1>3 DEF ToCome
<1> QED BY <1>2, <1>3 DEF ToCome

\* The steps that copy nothing keep the order of copies ...
LEMMA OrderFramed ==
  ASSUME IInv, IInv', CopiesInOrder, Below(ToCome, ToCome'),
         \A e \in Calls : Copied(e)' => /\ call'[e].copies \in {call[e].copies, {}}
                                        /\ Copied(e) \/ call'[e].copies = {},
         secured' \in {secured, {}}
  PROVE  CopiesInOrder'
<1>1. ToCome \in SUBSET Content /\ ToCome' \in SUBSET Content
  <2>1. ToCome \subseteq Content
    BY ToComeTyped
  <2>2. (IInv => ToCome \subseteq Content)'
    BY ToComeTyped, PTL
  <2> QED BY <2>1, <2>2
<1>2. \A S \in SUBSET Content : Sound(S, ToCome) => Sound(S, ToCome')
  <2> DEFINE F == ToCome  G == ToCome'
  <2>1. F \in SUBSET Content /\ G \in SUBSET Content /\ Below(F, G)
    BY <1>1
  <2> HIDE DEF F, G
  <2>2. \A S \in SUBSET Content : Sound(S, F) => Sound(S, G)
    BY <2>1, SoundUp
  <2> QED BY <2>2 DEF F, G
<1>3. \A F : Sound({}, F)
  BY DEF Sound
<1>4. \A e \in Calls : Copied(e)' => Sound(call'[e].copies, ToCome')
  BY <1>2, <1>3, NetFacts DEF CopiesInOrder
<1>5. Sound(secured', ToCome')
  BY <1>2, <1>3, NetFacts DEF CopiesInOrder
<1> QED BY <1>4, <1>5 DEF CopiesInOrder

\* ... and those that take no file away keep the net.
LEMMA KeptFramed ==
  ASSUME NetKept, timerOn' => timerOn /\ Found \subseteq Found',
         \A e \in Calls : (Copied(e)' /\ call'[e].phase = "answered" /\ call'[e].copies # {})
                            => Copied(e) /\ call[e].phase = "answered" /\ call'[e].copies = call[e].copies,
         secured' # {} => secured' = secured /\ (marker # None => marker' # None)
  PROVE  NetKept'
<1> SUFFICES ASSUME timerOn'
             PROVE  /\ \A e \in Calls : (Copied(e)' /\ call'[e].phase = "answered" /\ call'[e].copies # {})
                                          => Kept(call'[e].copies, Found')
                    /\ secured' # {} => marker' # None /\ Kept(secured', Found')
  BY DEF NetKept
<1>1. \A S : Kept(S, Found) => Kept(S, Found')
  BY DEF Kept
<1> QED BY <1>1 DEF NetKept

\* A crash, an open and a card put away leave no promise.
LEMMA NothingPromised ==
  ASSUME secured' = {}, \A e \in Calls : ~Copied(e)'
  PROVE  CopiesInOrder' /\ NetKept'
  BY DEF CopiesInOrder, NetKept, Sound

\* The steps that leave the autosaves in flight as they are, fail or end some or
\* send one of the open document, keep that document, and clear the slot only
\* together with the timer.
LEMMA NetFramed ==
  ASSUME IInv, IInv', CopiesInOrder, NetKept,
         \A e \in Calls :
           \/ call'[e] = call[e]
           \/ call'[e].kind # "autosave"
           \/ call'[e].phase = "failed"
           \/ call'[e].doc = session.doc /\ session.doc \in Docs /\ call'[e].phase = "sent",
         session'.doc = session.doc,
         \A d \in Docs : content'[d] \in {content[d], None} \/ \A e \in Calls : call[e].doc # d,
         session.doc \in Docs => content'[session.doc] = content[session.doc],
         secured' \in {secured, {}},
         timerOn' => timerOn /\ marker' = marker /\ file' = file
  PROVE  CopiesInOrder' /\ NetKept'
<1>1. \A e \in Calls : Copied(e)' => call'[e] = call[e] /\ Copied(e)
  BY DEF Copied, Copying
<1>2. ASSUME NEW e \in Pending'
      PROVE  \/ e \in Pending /\ Holds(e)' \in {Holds(e), None}
             \/ session.doc \in Docs /\ Holds(e)' = content[session.doc]
  <2>1. e \in Calls /\ call'[e].kind = "autosave" /\ call'[e].phase # "failed"
    BY DEF Pending, InFlight
  <2>2. CASE call'[e] = call[e]
    <3>1. call[e].doc \in Docs
      BY <2>1, <2>2, NetFacts
    <3>2. content'[call[e].doc] \in {content[call[e].doc], None}
      BY <2>1, <3>1
    <3> QED BY <2>2, <3>2 DEF Pending, InFlight, Holds
  <2>3. CASE call'[e].doc = session.doc /\ session.doc \in Docs /\ call'[e].phase = "sent"
    BY <2>3 DEF Holds
  <2> QED BY <2>1, <2>2, <2>3
<1>3. ToCome' \subseteq ToCome
  BY <1>2, ToComeFramed
<1>4. Below(ToCome, ToCome')
  BY <1>3, ToComeTyped, BelowSubset
<1>5. CopiesInOrder'
  BY <1>1, <1>4, OrderFramed
<1>6. timerOn' => timerOn /\ Found \subseteq Found'
  BY DEF Found
<1>7. ASSUME timerOn' PROVE NetKept'
  BY <1>1, <1>6, <1>7, KeptFramed
<1>8. ASSUME ~timerOn' PROVE NetKept'
  BY <1>8 DEF NetKept
<1> QED BY <1>5, <1>7, <1>8

LEMMA NetNextFramed ==
  ASSUME IInv, IInv', CopiesInOrder, NetKept, [Next]_vars
  PROVE  \/ CopiesInOrder' /\ NetKept'
         \/ DiscardRecovery \/ Edit \/ EngineEnds \/ Crash \/ Restart
         \/ \E c \in Calls : \/ Saved(c) \/ Autosaved(c) \/ Opened(c) \/ Taken(c)
                             \/ Snapshot(c) \/ WriteTemp(c) \/ Publish(c) \/ PublishMixed(c)
<1>0. /\ call \in [Calls -> CallState] /\ session \in SessionState
      /\ content \in [Docs -> Maybe(Content)] /\ NoCall.kind = "none"
      /\ (session.doc # None => session.doc \in Docs) /\ None \notin Docs
  BY NetFacts DEF NoCall
<1>1. CASE UNCHANGED vars \/ CancelWhere \/ GuardCancel \/ MarkDirty
           \/ CloseWindow \/ QuitApp \/ GuardDiscard
  <2>1. UNCHANGED <<call, content, secured>> /\ session'.doc = session.doc
    BY <1>0, <1>1 DEF vars, CancelWhere, GuardCancel, MarkDirty, CloseWindow, QuitApp,
                      GuardDiscard, SessionState
  <2>2. timerOn' => UNCHANGED <<timerOn, marker, file>>
    BY <1>1 DEF vars, CancelWhere, GuardCancel, MarkDirty, CloseWindow, QuitApp, GuardDiscard,
                Leave
  <2> QED BY <1>0, <2>1, <2>2, NetFramed
<1>2. ASSUME NEW c \in Calls,
             \/ Save(c) \/ OpenPhoto(c) \/ TakeRecovery(c) \/ Autosave(c) \/ GuardSave(c)
             \/ \E p \in Paths : ChooseWhere(c, p) \/ OpenProject(c, p)
      PROVE  CopiesInOrder' /\ NetKept'
  <2>1. UNCHANGED <<secured, marker, timerOn>>
    BY <1>2 DEF Save, OpenPhoto, TakeRecovery, Autosave, GuardSave, ChooseWhere, OpenProject
  <2>2. UNCHANGED <<content, file, session>>
    BY <1>2, SendingSteps DEF IInv
  <2>3. \A e \in Calls : \/ call'[e] = call[e]
                         \/ call'[e].kind \in UserSaves \cup LoadKinds
                         \/ call'[e].doc = session.doc /\ session.doc \in Docs /\ call'[e].phase = "sent"
    BY <1>2, SendingSteps DEF IInv
  <2>4. \A e \in Calls : \/ call'[e] = call[e]
                         \/ call'[e].kind # "autosave"
                         \/ call'[e].doc = session.doc /\ session.doc \in Docs /\ call'[e].phase = "sent"
    BY <2>3 DEF UserSaves, LoadKinds
  <2> QED BY <1>0, <2>1, <2>2, <2>4, NetFramed
<1>3. ASSUME NEW c \in Calls, Rejected(c) \/ Fail(c) PROVE CopiesInOrder' /\ NetKept'
  <2>1. UNCHANGED <<content, file, session, secured, marker, timerOn>>
    BY <1>3 DEF Rejected, Fail
  <2>2. \A e \in Calls : \/ call'[e] = call[e]
                         \/ call'[e].kind # "autosave"
                         \/ call'[e].phase = "failed"
    <3>1. CASE Rejected(c)
      BY <1>0, <3>1 DEF Rejected
    <3>2. CASE Fail(c)
      BY <1>0, <3>2 DEF Fail, Answer, CallState
    <3> QED BY <1>3, <3>1, <3>2
  <2> QED BY <1>0, <2>1, <2>2, NetFramed
<1>4. ASSUME NEW c \in Calls, CloseReplaced(c) PROVE CopiesInOrder' /\ NetKept'
  <2>1. UNCHANGED <<file, session, secured, marker, timerOn>>
    BY <1>4 DEF CloseReplaced
  <2>2. call[c].doc # session.doc
    BY <1>4 DEF CloseReplaced, IInv, CallsWellFormed
  <2>3. session.doc \in Docs => content'[session.doc] = content[session.doc]
    BY <1>0, <1>4, <2>2 DEF CloseReplaced
  <2>4. \A d \in Docs : content'[d] \in {content[d], None}
    BY <1>0, <1>4 DEF CloseReplaced
  <2>5. \A e \in Calls : call'[e] = call[e] \/ call'[e].kind # "autosave"
    BY <1>0, <1>4 DEF CloseReplaced
  <2> QED BY <1>0, <2>1, <2>3, <2>4, <2>5, NetFramed
<1>5. ASSUME NEW c \in Calls, NEW d \in Docs, Load(c, d) PROVE CopiesInOrder' /\ NetKept'
  <2>1. UNCHANGED <<file, session, secured, marker, timerOn>> /\ session.doc # d
    BY <1>5 DEF Load, Unused
  <2>2. session.doc \in Docs => content'[session.doc] = content[session.doc]
    BY <1>0, <1>5, <2>1 DEF Load
  <2>3. \A b \in Docs : content'[b] \in {content[b], None} \/ \A e \in Calls : call[e].doc # b
    BY <1>0, <1>5 DEF Load, Unused
  <2>4. \A e \in Calls : call'[e] = call[e] \/ call'[e].kind # "autosave"
    BY <1>0, <1>5 DEF Load, Answer, CallState, LoadKinds
  <2> QED BY <1>0, <2>1, <2>2, <2>3, <2>4, NetFramed
<1> QED BY <1>1, <1>2, <1>3, <1>4, <1>5 DEF Next, MainStep, EngineStep

LEMMA NetOfEdit == ASSUME NetInv, IInv', Edit PROVE CopiesInOrder' /\ NetKept'
<1> USE DEF NetInv
<1> DEFINE d == session.doc  old == content[d]  new == [old EXCEPT !.version = clock + 1]
<1>1. d \in Docs /\ old \in Content /\ old # None
  BY NetFacts DEF Edit
<1>2. UNCHANGED <<call, session, secured, file, marker, timerOn>>
      /\ content' = [content EXCEPT ![d] = new]
  BY DEF Edit
<1>3. old.version <= clock /\ clock \in Nat /\ clock + 1 \in 0..MaxVersion /\ old.version \in Nat
  BY <1>1, BoundAssumption DEF VersionsPast, IInv, TypeOK, Edit, Content
<1>4. new \in Content /\ Older(old, new)
  BY <1>1, <1>3 DEF Content, Older
<1> HIDE DEF new
<1>5. \A b \in Docs : content'[b] = IF b = d THEN new ELSE content[b]
  BY <1>2, NetFacts
<1>6. old \in ToCome
  BY <1>1 DEF ToCome
<1>7. ASSUME NEW v \in ToCome' PROVE v = new \/ v \in ToCome
  <2>1. v # None
    BY DEF ToCome
  <2>2. CASE \E e \in Pending' : v = Holds(e)'
    <3>1. PICK e \in Pending' : v = Holds(e)'
      BY <2>2
    <3>2. e \in Pending /\ call'[e] = call[e] /\ call[e].doc \in Docs
      BY <1>2, NetFacts DEF Pending, InFlight
    <3>3. Holds(e)' = Holds(e) \/ Holds(e)' = new
      BY <1>5, <3>2 DEF Holds
    <3> QED BY <2>1, <3>1, <3>2, <3>3 DEF ToCome
  <2>3. CASE \E b \in Docs \cap {session'.doc} : v = content'[b]
    BY <1>2, <1>5, <2>3
  <2> QED BY <2>2, <2>3 DEF ToCome
<1>8. Below(ToCome, ToCome')
  <2>1. ASSUME NEW v \in ToCome' PROVE \E u \in ToCome : Older(u, v)
    <3>1. CASE v = new
      BY <1>4, <1>6, <3>1
    <3>2. CASE v \in ToCome
      BY <3>2, ToComeTyped, OlderSelf
    <3> QED BY <1>7, <3>1, <3>2
  <2> QED BY <2>1 DEF Below
<1>9. \A c \in Calls : (Copied(c)' <=> Copied(c)) /\ call'[c] = call[c]
  BY <1>2 DEF Copied
<1>10. CopiesInOrder'
  BY <1>2, <1>8, <1>9, OrderFramed
<1>11. Found' = Found
  BY <1>2 DEF Found
<1>12. NetKept'
  BY <1>2, <1>9, <1>11, KeptFramed
<1> QED BY <1>10, <1>12

\* A copy just taken is below itself, the pending autosaves and the open document.
LEMMA NetOfSnapshot == ASSUME NetInv, IInv', NEW c \in Calls, Snapshot(c) PROVE CopiesInOrder' /\ NetKept'
<1> USE DEF NetInv
<1> DEFINE held == content[call[c].doc]
           copies == ({held} \cup {Holds(e) : e \in Pending}) \ {None}
<1>1. /\ UNCHANGED <<content, session, secured, file, marker, timerOn>>
      /\ \A e \in Calls \ {c} : call'[e] = call[e]
      /\ call[c].phase = "sent" /\ held # None
  BY NetFacts DEF Snapshot
<1>2. /\ call'[c].kind = call[c].kind /\ call'[c].doc = call[c].doc
      /\ call'[c].snap = held /\ call'[c].phase = "taken" /\ call'[c].copies = copies
  BY NetFacts DEF Snapshot, CallState
<1> HIDE DEF copies
<1>3. \A e \in Calls \ {c} : Copied(e)' <=> Copied(e)
  BY <1>1 DEF Copied
<1>4. ASSUME NEW e \in Pending' PROVE e \in Pending /\ Holds(e)' = Holds(e)
  <2>1. CASE e = c
    BY <1>1, <1>2, <2>1 DEF Pending, InFlight, Holds
  <2>2. CASE e # c
    BY <1>1, <2>2 DEF Pending, InFlight, Holds
  <2> QED BY <2>1, <2>2
<1>5. ToCome' \subseteq ToCome
  BY <1>1, <1>4, ToComeFramed
<1>6. ToCome \subseteq Content /\ Below(ToCome, ToCome')
  BY <1>5, ToComeTyped, BelowSubset
<1>7. Copied(c)' => ToCome \subseteq copies
  BY <1>1, <1>2 DEF Copied, ToCome, copies
<1>8. Copied(c)' => Sound(call'[c].copies, ToCome')
  BY <1>2, <1>5, <1>6, <1>7, OlderSelf DEF Sound, Below
<1>9. CopiesInOrder'
  <2>1. \A S \in SUBSET Content : Sound(S, ToCome) => Sound(S, ToCome')
    BY <1>5 DEF Sound, Below
  <2> QED BY <1>1, <1>3, <1>8, <2>1, NetFacts DEF CopiesInOrder
<1>10. Found' = Found
  BY <1>1 DEF Found
<1>11. NetKept'
  BY <1>1, <1>2, <1>3, <1>10, KeptFramed
<1> QED BY <1>9, <1>11

\* What is written alone, by an autosave or by a save, was still to come: no
\* promise is above it.
LEMMA NetOfPublish == ASSUME NetInv, IInv', Patient, NEW c \in Calls, Publish(c) PROVE CopiesInOrder' /\ NetKept'
<1> USE DEF NetInv
<1> DEFINE held == call[c].snap  p == call[c].target
<1>1. /\ UNCHANGED <<content, session, secured, marker, timerOn>>
      /\ file' = [file EXCEPT ![p] = held]
      /\ call[c].phase = "writing"
  BY DEF Publish, Answer
<1>2. \A e \in Calls : /\ call'[e].kind = call[e].kind /\ call'[e].doc = call[e].doc
                       /\ call'[e].snap = call[e].snap /\ call'[e].copies = call[e].copies
                       /\ call'[e].phase = IF e = c THEN "answered" ELSE call[e].phase
  BY NetFacts DEF Publish, Answer, CallState
<1>3. call[c].kind \in SaveKinds /\ held \in Content /\ held # None /\ held # Torn
  BY <1>1, NoneAssumption DEF IInv, CallsWellFormed, Copying
<1>4. p \in Paths \cup {Slot}
  BY <1>3, NetFacts DEF SaveKinds, UserSaves
<1>5. held \in Found'
  BY <1>1, <1>3, <1>4, NetFacts DEF Found
<1>6. held \in ToCome
  <2>1. CASE call[c].kind = "autosave"
    BY <1>1, <1>3, <2>1 DEF ToCome, Pending, InFlight, Holds
  <2>2. CASE call[c].kind # "autosave"
    <3>1. call[c].kind \in UserSaves
      BY <1>3, <2>2 DEF SaveKinds, UserSaves
    <3>2. held = content[session.doc] /\ call[c].doc = session.doc
      BY <1>1, <3>1 DEF IInv, SavesAreCurrent, InFlight, Copying
    <3>3. session.doc \in Docs
      BY <1>3, <3>2 DEF IInv, CallsWellFormed
    <3> QED BY <1>3, <3>2, <3>3 DEF ToCome
  <2> QED BY <2>1, <2>2
<1>7. \A e \in Calls : Copied(e)' <=> Copied(e)
  BY <1>1, <1>2 DEF Copied, Copying
<1>8. ASSUME NEW e \in Pending' PROVE e \in Pending /\ Holds(e)' = Holds(e)
  BY <1>1, <1>2 DEF Pending, InFlight, Holds
<1>9. ToCome' \subseteq ToCome
  BY <1>1, <1>8, ToComeFramed
<1>10. Below(ToCome, ToCome')
  BY <1>9, ToComeTyped, BelowSubset
<1>11. CopiesInOrder'
  BY <1>1, <1>2, <1>7, <1>10, OrderFramed
<1>12. \A S : (S # {} /\ Sound(S, ToCome)) => Kept(S, Found')
  BY <1>5, <1>6 DEF Sound, Below, Kept
<1>13. NetKept'
  <2>1. \A e \in Calls : (Copied(e)' /\ call'[e].copies # {}) => Kept(call'[e].copies, Found')
    BY <1>2, <1>7, <1>12 DEF CopiesInOrder
  <2>2. secured' # {} => Kept(secured', Found')
    BY <1>1, <1>12 DEF CopiesInOrder
  <2>3. (timerOn' /\ secured' # {}) => marker' # None
    BY <1>1 DEF NetKept
  <2> QED BY <2>1, <2>2, <2>3 DEF NetKept
<1> QED BY <1>11, <1>13

LEMMA NetOfWriteTemp == ASSUME NetInv, IInv', NEW c \in Calls, WriteTemp(c) PROVE CopiesInOrder' /\ NetKept'
<1> USE DEF NetInv
<1>1. /\ UNCHANGED <<content, session, secured, file, marker, timerOn>>
      /\ \A e \in Calls : /\ call'[e].kind = call[e].kind /\ call'[e].doc = call[e].doc
                          /\ call'[e].snap = call[e].snap /\ call'[e].copies = call[e].copies
                          /\ \/ call'[e].phase = call[e].phase
                             \/ call[e].phase \in Copying /\ call'[e].phase \in {"writing", "mixed"}
  BY NetFacts, WriteShape
<1>2. \A e \in Calls : (Copied(e)' <=> Copied(e)) /\ (call'[e].phase = "answered" => call[e].phase = "answered")
  BY <1>1 DEF Copied, Copying
<1>3. ASSUME NEW e \in Pending' PROVE e \in Pending /\ Holds(e)' = Holds(e)
  BY <1>1 DEF Pending, InFlight, Holds, Copying
<1>4. ToCome' \subseteq ToCome
  BY <1>1, <1>3, ToComeFramed
<1>5. Below(ToCome, ToCome')
  BY <1>4, ToComeTyped, BelowSubset
<1>6. CopiesInOrder'
  BY <1>1, <1>2, <1>5, OrderFramed
<1>7. Found' = Found
  BY <1>1 DEF Found
<1>8. NetKept'
  BY <1>1, <1>2, <1>7, KeptFramed
<1> QED BY <1>6, <1>8

LEMMA NetOfMixed == ASSUME NetInv, IInv', NEW c \in Calls, PublishMixed(c) PROVE CopiesInOrder' /\ NetKept'
<1> USE DEF NetInv
<1>1. /\ UNCHANGED <<content, session, marker, timerOn>> /\ secured' = {}
      /\ call[c].phase = "mixed" /\ call'[c].phase \in {"answered", "failed"}
      /\ \A e \in Calls : /\ call'[e].kind = call[e].kind /\ call'[e].doc = call[e].doc
                          /\ call'[e].snap = call[e].snap
                          /\ call'[e].phase = "answered" => call'[e].copies = {}
                          /\ e # c => call'[e].phase = call[e].phase
                          /\ call'[e].phase # "answered" /\ e # c => call'[e] = call[e]
  BY NetFacts, MixedShape
<1>2. \A e \in Calls : Copied(e)' => /\ call'[e].copies \in {call[e].copies, {}}
                                     /\ Copied(e) \/ call'[e].copies = {}
  BY <1>1 DEF Copied, Copying
<1>3. ASSUME NEW e \in Pending' PROVE e \in Pending /\ Holds(e)' = Holds(e)
  <2>1. e # c
    BY <1>1 DEF Pending, InFlight
  <2> QED BY <1>1, <2>1 DEF Pending, InFlight, Holds
<1>4. ToCome' \subseteq ToCome
  BY <1>1, <1>3, ToComeFramed
<1>5. Below(ToCome, ToCome')
  BY <1>4, ToComeTyped, BelowSubset
<1>6. CopiesInOrder'
  BY <1>1, <1>2, <1>5, OrderFramed
<1>7. NetKept'
  BY <1>1 DEF NetKept
<1> QED BY <1>6, <1>7

\* An autosave answered promises what it carried.
LEMMA NetOfAutosaved == ASSUME NetInv, IInv', NEW c \in Calls, Autosaved(c) PROVE CopiesInOrder' /\ NetKept'
<1> USE DEF NetInv
<1>1. /\ UNCHANGED <<content, session, file, timerOn>> /\ marker' = session.name
      /\ secured' = IF call[c].doc = session.doc THEN call[c].copies ELSE secured
      /\ call' = [call EXCEPT ![c] = NoCall]
      /\ call[c].kind = "autosave" /\ call[c].phase = "answered"
  BY DEF Autosaved, Finished
<1>2. call'[c].kind = "none" /\ \A e \in Calls \ {c} : call'[e] = call[e]
  BY <1>1, NetFacts DEF NoCall
<1>3. \A e \in Calls : Copied(e)' => e # c /\ Copied(e) /\ call'[e] = call[e]
  BY <1>1, <1>2 DEF Copied
<1>4. ASSUME NEW e \in Pending' PROVE e \in Pending /\ Holds(e)' = Holds(e)
  <2>1. e # c
    BY <1>2 DEF Pending, InFlight
  <2> QED BY <1>1, <1>2, <2>1 DEF Pending, InFlight, Holds
<1>5. ToCome' \subseteq ToCome
  BY <1>1, <1>4, ToComeFramed
<1>6. \A S : Sound(S, ToCome) => Sound(S, ToCome')
  BY <1>5 DEF Sound, Below
<1>7. Found' = Found
  BY <1>1 DEF Found
<1>8. secured' # {} => session.doc # None
  <2>1. call[c].doc # None
    BY <1>1, NetFacts
  <2> QED BY <1>1, <2>1 DEF NetIdle
<1>9. secured' # {} => marker' # None
  BY <1>1, <1>8 DEF NetIdle
<1>10. Sound(secured', ToCome') /\ (timerOn' /\ secured' # {} => Kept(secured', Found'))
  <2>1. CASE call[c].doc = session.doc
    <3>1. Copied(c) /\ secured' = call[c].copies
      BY <1>1, <2>1 DEF Copied
    <3> QED BY <1>1, <1>6, <1>7, <3>1 DEF CopiesInOrder, NetKept
  <2>2. CASE call[c].doc # session.doc
    BY <1>1, <1>6, <1>7, <2>2 DEF CopiesInOrder, NetKept
  <2> QED BY <2>1, <2>2
<1>11. CopiesInOrder'
  BY <1>3, <1>6, <1>10 DEF CopiesInOrder
<1>12. NetKept'
  BY <1>1, <1>3, <1>7, <1>9, <1>10 DEF NetKept
<1> QED BY <1>11, <1>12

\* A finished save clears the slot, and what an autosave still has to report is in
\* the project it wrote.
LEMMA NetOfSaved == ASSUME NetInv, IInv', Patient, NEW c \in Calls, Saved(c) PROVE CopiesInOrder' /\ NetKept'
<1> USE DEF NetInv
<1> DEFINE p == call[c].target  held == content[session.doc]
<1>1. /\ UNCHANGED content /\ session'.doc = session.doc /\ secured' = {} /\ Clear
      /\ call' = [call EXCEPT ![c] = NoCall]
      /\ call[c].kind \in UserSaves /\ call[c].phase = "answered"
      /\ timerOn' => timerOn
  BY NetFacts DEF Saved, Finished, Leave, UserSaves, SessionState
<1>2. p \in Paths /\ file[p] = held /\ held \in Content /\ session.doc \in Docs
  <2>1. call[c].doc = session.doc /\ call[c].snap = held /\ file[p] = call[c].snap
    BY <1>1 DEF IInv, SavesAreCurrent, InFlight
  <2>2. call[c].snap \in Content /\ call[c].doc \in Docs
    BY <1>1 DEF IInv, CallsWellFormed, SaveKinds, UserSaves
  <2> QED BY <1>1, <2>1, <2>2, NetFacts
<1>3. held \in Found' /\ held \in ToCome
  <2>1. file'[p] = file[p]
    BY <1>1, <1>2, NetFacts DEF Clear
  <2> QED BY <1>2, <2>1, NoneAssumption DEF Found, ToCome
<1>4. call'[c].kind = "none" /\ \A e \in Calls \ {c} : call'[e] = call[e]
  BY <1>1, NetFacts DEF NoCall
<1>5. \A e \in Calls : Copied(e)' => Copied(e) /\ call'[e] = call[e]
  BY <1>1, <1>4 DEF Copied
<1>6. ASSUME NEW e \in Pending' PROVE e \in Pending /\ Holds(e)' = Holds(e)
  <2>1. e # c
    BY <1>4 DEF Pending, InFlight
  <2> QED BY <1>1, <1>4, <2>1 DEF Pending, InFlight, Holds
<1>7. ToCome' \subseteq ToCome
  BY <1>1, <1>6, ToComeFramed
<1>8. Below(ToCome, ToCome')
  BY <1>7, ToComeTyped, BelowSubset
<1>9. CopiesInOrder'
  BY <1>1, <1>5, <1>8, OrderFramed
<1>10. \A S : (S # {} /\ Sound(S, ToCome)) => Kept(S, Found')
  BY <1>3 DEF Sound, Below, Kept
<1>11. NetKept'
  BY <1>1, <1>5, <1>10 DEF NetKept, CopiesInOrder
<1> QED BY <1>9, <1>11

LEMMA NetOfOthers ==
  ASSUME NetInv, IInv',
         \/ DiscardRecovery \/ EngineEnds \/ Crash \/ Restart
         \/ \E c \in Calls : Opened(c) \/ Taken(c)
  PROVE  CopiesInOrder' /\ NetKept'
<1> USE DEF NetInv
<1>1. CASE DiscardRecovery
  <2>1. UNCHANGED <<call, session, secured>> /\ session.doc = None
    BY <1>1 DEF DiscardRecovery, NetIdle
  <2>2. secured' = {} /\ \A e \in Calls : ~Copied(e)'
    BY <2>1, NetFacts DEF NetIdle, Copied
  <2> QED BY <2>2, NothingPromised
<1>2. CASE EngineEnds
  <2>1. /\ UNCHANGED <<session, secured, file, marker, timerOn>>
        /\ \A d \in Docs : content'[d] = None
        /\ \A e \in Calls : call'[e].kind = "none"
    BY <1>2 DEF EngineEnds, NoCall
  <2>2. Pending' = {} /\ \A e \in Calls : ~Copied(e)'
    BY <2>1 DEF Pending, InFlight, Copied
  <2>3. ToCome' = {}
    BY <2>1, <2>2 DEF ToCome
  <2>4. CopiesInOrder'
    BY <2>2, <2>3 DEF CopiesInOrder, Sound, Below
  <2>5. Found' = Found
    BY <2>1 DEF Found
  <2>6. NetKept'
    BY <2>1, <2>2, <2>5, KeptFramed
  <2> QED BY <2>4, <2>6
<1>3. CASE Crash \/ Restart
  <2>1. secured' = {} /\ \A e \in Calls : call'[e].kind = "none"
    BY <1>3 DEF Crash, Restart, NetIdle, NoCall
  <2>2. \A e \in Calls : ~Copied(e)'
    BY <2>1 DEF Copied
  <2> QED BY <2>1, <2>2, NothingPromised
<1>4. ASSUME NEW c \in Calls, Opened(c) \/ Taken(c) PROVE CopiesInOrder' /\ NetKept'
  <2>1. /\ call[c].kind \in LoadKinds /\ call[c].phase = "answered"
        /\ session'.doc = call[c].doc /\ secured' = {}
    BY <1>4 DEF Opened, Taken, Finished, LoadKinds
  <2> DEFINE closing == [NoCall EXCEPT !.kind = "open", !.doc = session.doc, !.phase = "closing"]
  <2>2. NoCall.kind = "none" /\ closing.kind = "open"
    BY DEF NoCall
  <2>3. call' = [call EXCEPT ![c] = NoCall] \/ call' = [call EXCEPT ![c] = closing]
    BY <1>4 DEF Opened, Taken
  <2> HIDE DEF closing
  <2>4. \A e \in Calls : call'[e].kind = "autosave" => call'[e] = call[e]
    BY <2>2, <2>3, NetFacts
  <2>5. \A e \in Calls : ~Copied(e)'
    BY <2>1, <2>4 DEF FreshLoads, Copied
  <2> QED BY <2>1, <2>5, NothingPromised
<1> QED BY <1>1, <1>2, <1>3, <1>4

LEMMA NetInvInit == Init => NetInv
<1> SUFFICES ASSUME Init PROVE NetInv
  OBVIOUS
<1>1. IInv
  BY IInvInit
<1>2. /\ \A c \in Calls : call[c].kind = "none" /\ call[c].snap = None
      /\ session.doc = None /\ secured = {} /\ app = "running" /\ card = None
      /\ \A d \in Docs : content[d] = None
      /\ \A p \in Paths \cup {Slot} : file[p] = None
  BY DEF Init, NoCall, NoSession
<1>3. VersionsPast /\ NetIdle /\ FreshLoads
  BY <1>2, NoneAssumption DEF VersionsPast, NetIdle, FreshLoads, InFlight, LoadKinds
<1>4. CopiesInOrder /\ NetKept
  BY <1>2 DEF CopiesInOrder, NetKept, Copied, Sound
<1> QED BY <1>1, <1>3, <1>4 DEF NetInv

LEMMA NetInvNext == ASSUME Patient PROVE NetInv /\ [Next]_vars => NetInv'
<1> SUFFICES ASSUME NetInv, [Next]_vars PROVE NetInv'
  OBVIOUS
<1>0. IInv /\ VersionsPast /\ NetIdle /\ FreshLoads /\ CopiesInOrder /\ NetKept
  BY DEF NetInv
<1>1. TypeOK /\ CallsWellFormed /\ OneThingAtATime
  BY <1>0 DEF IInv
<1>2. IInv'
  BY <1>0, IInvNext
<1>3. VersionsPast' /\ FreshLoads'
  BY <1>0, <1>1, VersionsNext, FreshLoadsNext
<1>4. NetIdle'
  BY <1>0, NetIdleNext
<1>5. CopiesInOrder' /\ NetKept'
  BY <1>0, <1>2, NetNextFramed, NetOfEdit, NetOfSnapshot, NetOfWriteTemp, NetOfPublish, NetOfMixed,
     NetOfAutosaved, NetOfSaved, NetOfOthers
<1> QED BY <1>2, <1>3, <1>4, <1>5 DEF NetInv

\* A user who waits for one thing before the next: while the timer runs, a crash
\* leaves at least what the session's last finished autosave wrote, or at least
\* what an autosave under way when it copied its document holds - through any
\* number of autosaves at once, saves, Save As, opens, restarts, failed writes and
\* an engine that dies (autosave and the timer in main.ts, saveTo in
\* ipc/handlers.ts, SaveProject in project.cpp).  Two autosaves that write their
\* common temporary file at once end the promise until one written alone is answered.
THEOREM NetStaysUp == ASSUME Patient PROVE Spec => []CrashNetHolds
<1>1. NetInv => CrashNetHolds
  <2> SUFFICES ASSUME NetInv, secured # {}, timerOn PROVE Promised
    BY DEF CrashNetHolds
  <2>1. marker # None /\ Kept(secured, Found)
    BY DEF NetInv, NetKept
  <2>2. PICK held \in secured, found \in Found : Older(held, found)
    BY <2>1 DEF Kept
  <2>3. held.version \in Int /\ found.version \in Int
    BY <2>2, NetFacts, BoundAssumption DEF NetInv, Content
  <2>4. PICK p \in Paths \cup {Slot} : found = file[p] /\ found \notin {None, Torn}
    BY <2>2 DEF Found
  <2>5. found \in ({Offered} \cup {file[q] : q \in Paths}) \ {None, Torn}
    BY <2>1, <2>4 DEF Offered
  <2>6. Recoverable(held)
    BY <2>2, <2>3, <2>5 DEF Recoverable, Older
  <2> QED BY <2>2, <2>6 DEF Promised
<1>2. Spec => []NetInv
  BY NetInvInit, NetInvNext, PTL DEF Spec
<1> QED BY <1>1, <1>2, PTL

=============================================================================
