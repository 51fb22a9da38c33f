--------------------------- MODULE PreviewLoopProofs ---------------------------
(***************************************************************************)
(* Proofs about PreviewLoop: whatever the canvas asks for and in whatever  *)
(* order the renders answer, the picture on screen is of the open          *)
(* photograph, and of two pictures of it the later shows no older stack.   *)
(*                                                                         *)
(* The second needs more than isCurrent says: that one render at most      *)
(* holds the newest token (OneNewest), and that a render which still holds *)
(* it read a stack no older than the picture on screen (NewestIsNoOlder).  *)
(*                                                                         *)
(* That the picture at rest has the size asked for, and that busy ends,    *)
(* need what is owed: whatever makes the picture unfit leaves a timer, a   *)
(* report, an answer or a render behind that makes the loop look again     *)
(* (SizeIsOwed), a render that clears no busy was doomed by one that is    *)
(* still to come or has changed the stack (BusyIsOwed), and what another   *)
(* call wrote there is cleared when that call ends (BusyIsHeld).           *)
(***************************************************************************)
EXTENDS PreviewLoop, TLAPS

StackT == [version : Nat, width : Widths]
RenderT == [by : {"loop", "compare", "sample"}, mount : {0} \cup Mounts, doc : Docs,
            width : Int, newest : BOOLEAN, doomed : BOOLEAN,
            started : BOOLEAN, version : Nat, frame : Int]
PictureT == [doc : Nat, version : Nat, width : Int]

Types ==
  /\ opened \in Nat /\ document \in {0} \cup Docs
  /\ stack \in [Docs -> StackT]
  /\ answers \in Seq([stack : StackT, continuing : BOOLEAN])
  /\ history \in [version : Nat, width : Int]
  /\ document # 0 => history.width > 0
  /\ scale \in Int
  /\ preview \in PictureT

\* Of a set of renders, the stacks there are and the picture on screen.
ReadWhatWas(pool, st) == \A r \in pool : r.started => r.version <= st[r.doc].version
OneNewest(pool) == \A r, q \in pool : r.newest /\ q.newest => r = q
NewestIsNoOlder(pool, pic) ==
  \A r \in pool : r.newest /\ r.started /\ r.doc = pic.doc => pic.version <= r.version

Good(pool, st, pic) ==
  pool \subseteq RenderT /\ ReadWhatWas(pool, st) /\ OneNewest(pool) /\ NewestIsNoOlder(pool, pic)

Shown(pic, d, st) ==
  /\ pic # Nothing => pic.doc = d /\ d # 0
  /\ pic.doc \in Docs => pic.version <= st[pic.doc].version

PInv == Types /\ Good(renders, stack, preview) /\ Shown(preview, document, stack)

-----------------------------------------------------------------------------
(* Sizes are integers.                                                     *)

LEMMA WidthsArePositive == ASSUME NEW w \in Widths PROVE w \in Int /\ w > 0
<1>1. Widths \subseteq Nat \ {0}
  BY PreviewAssumption
<1> QED BY <1>1

LEMMA FittedIsInt == ASSUME NEW w \in Int, w > 0 PROVE Fitted(w) \in Int
BY PreviewAssumption DEF Fitted, Max2, Min2

LEMMA WantedIsInt ==
  ASSUME NEW w \in Int, NEW z \in Int, NEW dragging PROVE Wanted(w, z, dragging) \in Int
<1>1. w * z \in Int
  OBVIOUS
<1>2. (w * z + Unit - 1) \div Unit \in Int
  BY <1>1, PreviewAssumption
<1>3. Min2(Min2(w, (w * z + Unit - 1) \div Unit), Budget) \in Int
  BY <1>2, PreviewAssumption DEF Min2
<1> QED BY <1>3 DEF Wanted, Max2

-----------------------------------------------------------------------------
(* Asking, forgetting and growing keep a set of renders good.              *)

\* The render that a request adds.
Added(by, m, width) ==
  [by |-> by, mount |-> m, doc |-> document, width |-> width, newest |-> by = "loop",
   doomed |-> FALSE, started |-> FALSE, version |-> 0, frame |-> 0]

\* What a request does to the render r.
Passed(r, by) ==
  [r EXCEPT !.doomed = @ \/ SameKey(r, by, document), !.newest = @ /\ by # "loop"]

LEMMA PassedFields ==
  ASSUME NEW r \in RenderT, NEW by
  PROVE  /\ Passed(r, by) \in RenderT
         /\ Passed(r, by).newest => r.newest /\ by # "loop"
         /\ Passed(r, by).started = r.started /\ Passed(r, by).version = r.version
         /\ Passed(r, by).doc = r.doc
<1> DEFINE doom == r.doomed \/ SameKey(r, by, document)
           keep == r.newest /\ by # "loop"
<1>1. doom \in BOOLEAN /\ keep \in BOOLEAN
  OBVIOUS
<1>2. Passed(r, by) = [r EXCEPT !.doomed = doom, !.newest = keep]
  BY DEF Passed
<1>3. keep => r.newest /\ by # "loop"
  OBVIOUS
<1> HIDE DEF doom, keep
<1> QED BY <1>1, <1>2, <1>3 DEF RenderT

LEMMA AskIsGood ==
  ASSUME NEW pool, NEW st, NEW pic, Good(pool, st, pic),
         NEW by \in {"loop", "compare", "sample"}, NEW m \in {0} \cup Mounts, NEW width \in Int,
         document \in Docs
  PROVE  Good(Ask(pool, by, m, width), st, pic)
<1> DEFINE asked == Ask(pool, by, m, width)
<1>1. \A q \in asked : q = Added(by, m, width) \/ \E r \in pool : q = Passed(r, by)
  <2>1. asked = {Passed(r, by) : r \in pool} \cup {Added(by, m, width)}
    BY Zenon DEF Ask, Added, Passed
  <2> QED BY <2>1
<1>2. /\ Added(by, m, width) \in RenderT /\ ~Added(by, m, width).started
      /\ Added(by, m, width).newest => by = "loop"
  <2> DEFINE fresh == by = "loop"
  <2>1. fresh \in BOOLEAN /\ (fresh => by = "loop")
    OBVIOUS
  <2>2. Added(by, m, width) =
          [by |-> by, mount |-> m, doc |-> document, width |-> width, newest |-> fresh,
           doomed |-> FALSE, started |-> FALSE, version |-> 0, frame |-> 0]
    BY DEF Added
  <2> HIDE DEF fresh
  <2> QED BY <2>1, <2>2 DEF RenderT
<1>3. pool \subseteq RenderT
  BY DEF Good
<1> HIDE DEF asked
<1>4. asked \subseteq RenderT
  BY <1>1, <1>2, <1>3, PassedFields
<1>5. ReadWhatWas(asked, st)
  BY <1>1, <1>2, <1>3, PassedFields DEF ReadWhatWas, Good
<1>6. OneNewest(asked)
  BY <1>1, <1>2, <1>3, PassedFields DEF OneNewest, Good
<1>7. NewestIsNoOlder(asked, pic)
  BY <1>1, <1>2, <1>3, PassedFields DEF NewestIsNoOlder, Good
<1> QED BY <1>4, <1>5, <1>6, <1>7 DEF Good, asked

LEMMA FewerIsGood ==
  ASSUME NEW pool, NEW st, NEW pic, Good(pool, st, pic), NEW fewer \in SUBSET pool
  PROVE  Good(fewer, st, pic)
BY DEF Good, ReadWhatWas, OneNewest, NewestIsNoOlder

\* One turn of the loop leaves the renders good for whatever is on screen.
LEMMA TurnIsGood ==
  ASSUME Types, NEW pool, NEW pic, Good(pool, stack, pic),
         NEW m \in {0} \cup Mounts, NEW refs, NEW rendered, NEW busyNow, NEW sinceNow,
         Turn(m, refs, rendered, pool, busyNow, sinceNow)
  PROVE  Good(renders', stack, pic)
<1> DEFINE w == Wanted(history.width, scale, interacting)
<1>1. \/ document # 0 /\ renders' = Ask(pool, "loop", m, w)
      \/ renders' = pool
  BY DEF Turn
<1>2. w \in Int
  BY WantedIsInt DEF Types
<1> HIDE DEF w
<1>3. document # 0 => document \in Docs
  BY DEF Types
<1> QED BY <1>1, <1>2, <1>3, AskIsGood

-----------------------------------------------------------------------------
(* The steps.                                                              *)

LEMMA InitHolds == Init => PInv
<1> SUFFICES ASSUME Init PROVE PInv
  OBVIOUS
<1> USE PreviewAssumption
<1>1. Types
  BY DEF Init, Types, StackT, PictureT, Nothing, Docs
<1>2. Good(renders, stack, preview)
  BY DEF Init, Good, ReadWhatWas, OneNewest, NewestIsNoOlder
<1>3. Shown(preview, document, stack)
  BY DEF Init, Shown, Nothing, Docs
<1> QED BY <1>1, <1>2, <1>3 DEF PInv

\* A stack that grew: no render and no picture is of a version to come.
LEMMA CarriedKeeps ==
  ASSUME PInv, document # 0, NEW w \in Widths, NEW c \in BOOLEAN, Carried(document, w, c),
         NEW pool \in SUBSET renders
  PROVE  /\ stack' \in [Docs -> StackT]
         /\ answers' \in Seq([stack : StackT, continuing : BOOLEAN])
         /\ Good(pool, stack', preview)
         /\ Shown(preview, document, stack')
<1> DEFINE after == [version |-> stack[document].version + 1, width |-> w]
<1>1. document \in Docs /\ stack \in [Docs -> StackT]
  BY DEF PInv, Types
<1>2. after \in StackT
  BY <1>1 DEF StackT
<1>3. stack' = [stack EXCEPT ![document] = after]
  BY DEF Carried
<1>4. stack' \in [Docs -> StackT]
  BY <1>1, <1>2, <1>3
<1>5. answers' \in Seq([stack : StackT, continuing : BOOLEAN])
  <2>1. [stack |-> after, continuing |-> c] \in [stack : StackT, continuing : BOOLEAN]
    BY <1>2
  <2>2. answers' = Append(answers, [stack |-> after, continuing |-> c])
    BY DEF Carried
  <2>3. answers \in Seq([stack : StackT, continuing : BOOLEAN])
    BY DEF PInv, Types
  <2> HIDE DEF after
  <2> QED BY <2>1, <2>2, <2>3
<1>6. \A d \in Docs : stack[d].version <= stack'[d].version
  BY <1>1, <1>3 DEF StackT
<1>7. \A d \in Docs : stack[d].version \in Nat /\ stack'[d].version \in Nat
  BY <1>1, <1>4 DEF StackT
<1>8. Good(pool, stack, preview)
  BY FewerIsGood DEF PInv
<1> HIDE DEF after
<1>9. ReadWhatWas(pool, stack')
  BY <1>6, <1>7, <1>8 DEF Good, ReadWhatWas, RenderT
<1>10. Good(pool, stack', preview)
  BY <1>8, <1>9 DEF Good
<1>11. Shown(preview, document, stack')
  BY <1>6, <1>7 DEF PInv, Types, PictureT, Shown
<1> QED BY <1>4, <1>5, <1>10, <1>11

LEMMA TimerFiresKeeps == ASSUME PInv, NEW m \in Mounts, TimerFires(m) PROVE PInv'
<1>1. /\ UNCHANGED <<document, opened, stack, answers, history, scale, preview>>
      /\ UNCHANGED renders \/ \E refs : Turn(m, refs, preview.width, renders, busy, since)
  BY DEF TimerFires
<1>2. Good(renders', stack, preview)
  BY <1>1, TurnIsGood DEF PInv
<1> QED BY <1>1, <1>2 DEF PInv, Types, Good, ReadWhatWas, OneNewest, NewestIsNoOlder, Shown

LEMMA StartRenderKeeps == ASSUME PInv, NEW r \in renders, StartRender(r) PROVE PInv'
<1> DEFINE s == [r EXCEPT !.started = TRUE, !.version = stack[document].version,
                          !.frame = stack[document].width]
<1>1. /\ UNCHANGED <<document, opened, stack, answers, history, scale, preview>>
      /\ renders' = (renders \ {r}) \cup {s}
      /\ r.doc = document
  BY DEF StartRender, storeVars
<1>2. /\ stack \in [Docs -> StackT] /\ r \in RenderT /\ document \in Docs
      /\ preview \in PictureT /\ Shown(preview, document, stack)
  <2>1. r \in RenderT
    BY DEF PInv, Good
  <2>2. r.doc \in Docs
    BY <2>1 DEF RenderT
  <2> QED BY <1>1, <2>1, <2>2 DEF PInv, Types
<1>3. /\ stack[document].version \in Nat /\ stack[document].width \in Int
  BY <1>2, WidthsArePositive DEF StackT
<1>4. /\ s \in RenderT /\ s.newest = r.newest /\ s.doc = document
      /\ s.version = stack[document].version
  BY <1>1, <1>2, <1>3 DEF RenderT
<1> HIDE DEF s
<1>5. renders' \subseteq RenderT
  BY <1>1, <1>4 DEF PInv, Good
<1>6. ReadWhatWas(renders', stack)
  BY <1>1, <1>3, <1>4 DEF PInv, Good, ReadWhatWas
<1>7. OneNewest(renders')
  BY <1>1, <1>4 DEF PInv, Good, OneNewest
<1>8. NewestIsNoOlder(renders', preview)
  BY <1>1, <1>2, <1>4 DEF PInv, Good, NewestIsNoOlder, Shown
<1> QED BY <1>1, <1>5, <1>6, <1>7, <1>8
        DEF PInv, Types, Good, ReadWhatWas, OneNewest, NewestIsNoOlder, Shown

LEMMA LiveRefusedKeeps ==
  ASSUME PInv, NEW r \in renders, LiveRefused(r) \/ LiveFailed(r) PROVE PInv'
<1>1. /\ UNCHANGED <<document, opened, stack, answers, history, scale, preview>>
      /\ r.by = "loop"
      /\ \E b, s : Turn(r.mount, loop[r.mount], preview.width, renders \ {r}, b, s)
  BY DEF LiveRefused, LiveFailed
<1>2. Good(renders \ {r}, stack, preview)
  BY FewerIsGood DEF PInv
<1>3. r.mount \in {0} \cup Mounts
  BY DEF PInv, Good, RenderT
<1>4. Good(renders', stack, preview)
  BY <1>1, <1>2, <1>3, TurnIsGood DEF PInv
<1> QED BY <1>1, <1>4 DEF PInv, Types, Good, ReadWhatWas, OneNewest, NewestIsNoOlder, Shown

LEMMA PictureOfType ==
  ASSUME NEW r \in RenderT PROVE /\ PictureOf(r) \in PictureT
                                 /\ PictureOf(r).doc = r.doc
                                 /\ PictureOf(r).version = r.version
BY DEF PictureOf, Min2, RenderT, PictureT, Docs

LEMMA LiveRenderedKeeps == ASSUME PInv, NEW r \in renders, LiveRendered(r) PROVE PInv'
<1>1. /\ UNCHANGED <<document, opened, stack, answers, history, scale>>
      /\ r.by = "loop" /\ r.started
      /\ preview' = IF IsCurrent(r) THEN PictureOf(r) ELSE preview
      /\ \E b : Turn(r.mount, loop[r.mount], preview'.width, renders \ {r}, b, since)
  BY DEF LiveRendered
<1>2. Good(renders \ {r}, stack, preview)
  BY FewerIsGood DEF PInv
<1>3. r \in RenderT /\ r.mount \in {0} \cup Mounts
  BY DEF PInv, Good, RenderT
<1>4. preview' \in PictureT
  BY <1>1, <1>3, PictureOfType DEF PInv, Types
<1>5. NewestIsNoOlder(renders \ {r}, preview')
  <2>1. CASE IsCurrent(r)
    \* The token is the render's own, so no other holds it.
    BY <2>1 DEF IsCurrent, PInv, Good, OneNewest, NewestIsNoOlder
  <2>2. CASE ~IsCurrent(r)
    BY <1>1, <1>2, <2>2 DEF Good
  <2> QED BY <2>1, <2>2
<1>6. Good(renders \ {r}, stack, preview')
  BY <1>2, <1>5 DEF Good
<1>7. Good(renders', stack, preview')
  BY <1>1, <1>3, <1>6, TurnIsGood DEF PInv
<1>8. Shown(preview', document, stack)
  <2>1. CASE IsCurrent(r)
    <3>1. /\ preview'.doc = document /\ document \in Docs
          /\ preview'.version = r.version /\ r.doc = document
      BY <1>1, <1>3, <2>1, PictureOfType DEF IsCurrent, RenderT
    <3>2. r.version <= stack[document].version
      BY <1>1, <3>1 DEF PInv, Good, ReadWhatWas
    <3> QED BY <3>1, <3>2 DEF Shown, Docs
  <2>2. CASE ~IsCurrent(r)
    BY <1>1, <2>2 DEF PInv
  <2> QED BY <2>1, <2>2
<1>9. Good(renders', stack', preview') /\ Shown(preview', document', stack')
  BY <1>1, <1>7, <1>8
<1>10. Types'
  BY <1>1, <1>4 DEF PInv, Types
<1> QED BY <1>9, <1>10 DEF PInv, Good, ReadWhatWas, OneNewest, NewestIsNoOlder, Shown

LEMMA EditKeeps ==
  ASSUME PInv, NEW w \in Widths, NEW c \in BOOLEAN, Edit(w, c) PROVE PInv'
<1>1. /\ UNCHANGED <<document, opened, history, scale, preview, renders>>
      /\ document # 0 /\ Carried(document, w, c)
  BY DEF Edit, storeVars
<1>2. /\ stack' \in [Docs -> StackT]
      /\ answers' \in Seq([stack : StackT, continuing : BOOLEAN])
      /\ Good(renders, stack', preview) /\ Shown(preview, document, stack')
  BY <1>1, CarriedKeeps
<1> QED BY <1>1, <1>2 DEF PInv, Types, Good, ReadWhatWas, OneNewest, NewestIsNoOlder, Shown

LEMMA AdoptKeeps == ASSUME PInv, Adopt PROVE PInv'
<1>1. /\ UNCHANGED <<document, opened, stack, renders, preview>>
      /\ answers # <<>> /\ answers' = Tail(answers)
      /\ history' = Head(answers).stack
      /\ scale' = Fitted(Head(answers).stack.width) \/ scale' = scale
  BY DEF Adopt
<1>2. /\ Head(answers) \in [stack : StackT, continuing : BOOLEAN]
      /\ Tail(answers) \in Seq([stack : StackT, continuing : BOOLEAN])
  <2> DEFINE T == [stack : StackT, continuing : BOOLEAN]
  <2>1. answers \in Seq(T)
    BY DEF PInv, Types
  <2> HIDE DEF T
  <2>2. Head(answers) \in T /\ Tail(answers) \in Seq(T)
    BY <1>1, <2>1
  <2> QED BY <2>2 DEF T
<1>3. Head(answers).stack \in StackT
  BY <1>2
<1>4. Head(answers).stack.width \in Widths /\ Head(answers).stack.version \in Nat
  BY <1>3 DEF StackT
<1>5. Head(answers).stack.width \in Int /\ Head(answers).stack.width > 0
  BY <1>4, WidthsArePositive
<1>6. Head(answers).stack \in [version : Nat, width : Int]
  BY <1>3, <1>5 DEF StackT
<1>7. scale' \in Int
  BY <1>1, <1>5, FittedIsInt DEF PInv, Types
<1> QED BY <1>1, <1>2, <1>5, <1>6, <1>7
        DEF PInv, Types, Good, ReadWhatWas, OneNewest, NewestIsNoOlder, Shown

LEMMA SamplesKeep ==
  ASSUME PInv, TakeSample \/ \E r \in renders : SampleRefused(r) \/ SampleRendered(r) PROVE PInv'
<1>1. UNCHANGED <<document, opened, history, scale, preview>>
  BY DEF TakeSample, SampleRefused, SampleRendered, storeVars
<1>2. CASE TakeSample
  <2>1. /\ document # 0 /\ renders' = Ask(renders, "sample", 0, 1)
        /\ UNCHANGED <<stack, answers>>
    BY <1>2 DEF TakeSample
  <2>2. document \in Docs
    BY <2>1 DEF PInv, Types
  <2>3. Good(renders', stack, preview)
    BY <2>1, <2>2, AskIsGood DEF PInv
  <2> QED BY <1>1, <2>1, <2>3 DEF PInv, Types, Good, ReadWhatWas, OneNewest, NewestIsNoOlder, Shown
<1>3. ASSUME NEW r \in renders, SampleRefused(r) PROVE PInv'
  <2>1. renders' = renders \ {r} /\ UNCHANGED <<stack, answers>>
    BY <1>3 DEF SampleRefused
  <2>2. Good(renders', stack, preview)
    BY <2>1, FewerIsGood DEF PInv
  <2> QED BY <1>1, <2>1, <2>2 DEF PInv, Types, Good, ReadWhatWas, OneNewest, NewestIsNoOlder, Shown
<1>4. ASSUME NEW r \in renders, SampleRendered(r) PROVE PInv'
  <2>1. /\ renders' = renders \ {r}
        /\ IF r.doc = document THEN Carried(document, stack[document].width, FALSE)
           ELSE UNCHANGED <<stack, answers>>
    BY <1>4 DEF SampleRendered
  <2>2. CASE r.doc = document
    <3>1. r \in RenderT
      BY DEF PInv, Good
    <3>2. document \in Docs /\ document # 0
      BY <2>2, <3>1 DEF RenderT, Docs
    <3>3. stack[document].width \in Widths
      BY <3>2 DEF PInv, Types, StackT
    <3>4. /\ stack' \in [Docs -> StackT]
          /\ answers' \in Seq([stack : StackT, continuing : BOOLEAN])
          /\ Good(renders', stack', preview) /\ Shown(preview, document, stack')
      BY <2>1, <2>2, <3>2, <3>3, CarriedKeeps
    <3> QED BY <1>1, <3>4 DEF PInv, Types, Good, ReadWhatWas, OneNewest, NewestIsNoOlder, Shown
  <2>3. CASE r.doc # document
    <3>1. Good(renders', stack, preview)
      BY <2>1, FewerIsGood DEF PInv
    <3> QED BY <1>1, <2>1, <2>3, <3>1
            DEF PInv, Types, Good, ReadWhatWas, OneNewest, NewestIsNoOlder, Shown
  <2> QED BY <2>2, <2>3
<1> QED BY <1>2, <1>3, <1>4

\* The steps of the view touch neither the renders nor the stacks, except for the
\* render a comparison asks for.
LEMMA CompareKeeps ==
  ASSUME PInv,
         CompareOn \/ CompareOff \/ \E r \in renders : BeforeRefused(r) \/ BeforeRendered(r)
  PROVE  PInv'
<1>1. UNCHANGED <<document, opened, history, scale, preview, stack, answers>>
  BY DEF CompareOn, CompareOff, BeforeRefused, BeforeRendered, storeVars, engineVars
<1>2. \/ renders' \in SUBSET renders
      \/ document # 0 /\ renders' = Ask(renders, "compare", 0, preview.width)
  BY DEF CompareOn, CompareOff, BeforeRefused, BeforeRendered, storeVars, engineVars
<1>3. preview.width \in Int /\ (document # 0 => document \in Docs)
  BY DEF PInv, Types, PictureT
<1>4. Good(renders', stack, preview)
  BY <1>2, <1>3, AskIsGood, FewerIsGood DEF PInv
<1> QED BY <1>1, <1>4 DEF PInv, Types, Good, ReadWhatWas, OneNewest, NewestIsNoOlder, Shown

LEMMA ViewKeeps ==
  ASSUME PInv, ObserverReports \/ Browse \/ LeaveLibrary \/ \E s \in Scales : Zoom(s)
  PROVE  PInv'
<1>1. UNCHANGED <<document, opened, history, preview, stack, answers, renders>>
  BY DEF ObserverReports, Browse, LeaveLibrary, Zoom, storeVars, engineVars
<1>2. \/ scale' = scale \/ scale' \in Scales
      \/ document # 0 /\ scale' = Fitted(history.width)
  BY DEF ObserverReports, Browse, LeaveLibrary, Zoom, storeVars
<1>3. Scales \subseteq Int
  BY PreviewAssumption
<1>4. document # 0 => Fitted(history.width) \in Int
  BY FittedIsInt DEF PInv, Types
<1>5. scale' \in Int
  BY <1>2, <1>3, <1>4 DEF PInv, Types
<1> QED BY <1>1, <1>5 DEF PInv, Types, Good, ReadWhatWas, OneNewest, NewestIsNoOlder, Shown

LEMMA CloseKeeps == ASSUME PInv, Close PROVE PInv'
<1>1. /\ UNCHANGED <<opened, scale, stack, answers, renders>>
      /\ document' = 0 /\ history' = [version |-> 0, width |-> 0] /\ preview' = Nothing
  BY DEF Close, engineVars
<1>2. Types'
  BY <1>1 DEF PInv, Types, Nothing, PictureT
<1>3. NewestIsNoOlder(renders, Nothing)
  BY DEF PInv, Good, RenderT, NewestIsNoOlder, Nothing, Docs
<1>4. Shown(Nothing, 0, stack)
  BY DEF Shown, Nothing, Docs
<1> QED BY <1>1, <1>2, <1>3, <1>4 DEF PInv, Good, ReadWhatWas, OneNewest, NewestIsNoOlder, Shown

LEMMA OpenedKeeps == ASSUME PInv, Opened PROVE PInv'
<1>1. /\ UNCHANGED <<stack, answers, renders>>
      /\ opened < MaxExtras + 1 /\ opened' = opened + 1
      /\ document' = opened' /\ history' = stack[opened'] /\ preview' = Nothing
      /\ \/ scale' = Unit
         \/ scale' = Fitted(stack[opened'].width)
  BY DEF Opened, engineVars
<1>2. opened' \in Nat /\ opened' \in Docs
  BY <1>1, PreviewAssumption DEF PInv, Types, Docs
<1>3. stack[opened'] \in StackT
  BY <1>2 DEF PInv, Types
<1>4. stack[opened'].width \in Int /\ stack[opened'].width > 0
  BY <1>3, WidthsArePositive DEF StackT
<1>5. stack[opened'] \in [version : Nat, width : Int]
  BY <1>3, <1>4 DEF StackT
<1>6. scale' \in Int
  BY <1>1, <1>4, FittedIsInt, PreviewAssumption
<1>7. Types'
  BY <1>1, <1>2, <1>4, <1>5, <1>6 DEF PInv, Types, Nothing, PictureT
<1>8. NewestIsNoOlder(renders, Nothing)
  BY DEF PInv, Good, RenderT, NewestIsNoOlder, Nothing, Docs
<1>9. Shown(Nothing, opened', stack)
  BY DEF Shown, Nothing, Docs
<1> QED BY <1>1, <1>7, <1>8, <1>9 DEF PInv, Good, ReadWhatWas, OneNewest, NewestIsNoOlder, Shown

LEMMA CallsKeep ==
  ASSUME PInv, OpenAsked \/ OpenGivenUp \/ JobBegins \/ JobEnds PROVE PInv'
<1>1. UNCHANGED <<document, opened, history, scale, preview, stack, answers, renders>>
  BY DEF OpenAsked, OpenGivenUp, JobBegins, JobEnds, engineVars
<1> QED BY <1>1 DEF PInv, Types, Good, ReadWhatWas, OneNewest, NewestIsNoOlder, Shown

LEMMA StepHolds == PInv /\ [Next]_vars => PInv'
<1> SUFFICES ASSUME PInv, [Next]_vars PROVE PInv'
  OBVIOUS
<1>1. ASSUME NEW m \in Mounts, TimerFires(m) PROVE PInv'
  BY <1>1, TimerFiresKeeps
<1>2. ASSUME NEW r \in renders, Rendering(r) PROVE PInv'
  BY <1>2, StartRenderKeeps, LiveRefusedKeeps, LiveRenderedKeeps, SamplesKeep, CompareKeeps
     DEF Rendering
<1>3. ASSUME NEW w \in Widths, NEW c \in BOOLEAN, Edit(w, c) PROVE PInv'
  BY <1>3, EditKeeps
<1>4. CASE Adopt
  BY <1>4, AdoptKeeps
<1>5. CASE TakeSample
  BY <1>5, SamplesKeep
<1>6. CASE CompareOn \/ CompareOff
  BY <1>6, CompareKeeps
<1>7. CASE ObserverReports \/ Browse \/ LeaveLibrary \/ \E s \in Scales : Zoom(s)
  BY <1>7, ViewKeeps
<1>8. CASE Close \/ Opened
  BY <1>8, CloseKeeps, OpenedKeeps
<1>9. CASE OpenAsked \/ OpenGivenUp \/ JobBegins \/ JobEnds
  BY <1>9, CallsKeep
<1>10. CASE UNCHANGED vars
  BY <1>10 DEF vars, PInv, Types, Good, ReadWhatWas, OneNewest, NewestIsNoOlder, Shown
<1> QED BY <1>1, <1>2, <1>3, <1>4, <1>5, <1>6, <1>7, <1>8, <1>9, <1>10 DEF Next

-----------------------------------------------------------------------------
(* What the canvas is owed.                                                *)

Mounted ==
  /\ loop \in [Mounts -> Loop] /\ mount \in {0} \cup Mounts
  /\ mounts \in Nat /\ budget \in [edits : Nat, extras : Nat]
  /\ mounts + budget.extras <= MaxExtras + (IF mount = 0 THEN 0 ELSE 1)

\* A photograph gets a number of its own, above every render's.
NumbersGrow ==
  document <= opened /\ \A r \in renders : r.doc <= opened /\ (r.by = "loop" => r.mount # 0)

\* A render that will be shown, or that will add a layer.
Coming(r) == r.doc = document /\ ~r.doomed /\ (r.by = "sample" \/ (r.by = "loop" /\ r.newest))

SomeComes == \E r \in renders : Coming(r)

HoldsBusy(r) == r.by = "loop" /\ r.newest /\ r.doc = document
BusyWhileOwed == ~since.spoke => \A r \in renders : HoldsBusy(r) => busy = "rendering"

\* What cleared no busy is superseded or doomed; a doomed one is by a request
\* that is still to come, that made the stack newer than the picture, or that
\* failed.
BusyIsOwed ==
  busy = "rendering" /\ document # 0 =>
    SomeComes \/ preview.version < stack[document].version \/ since.failed

\* Every other call that writes busy ends by clearing it.
BusyIsHeld ==
  /\ busy \in {"none", "rendering", "other"} /\ jobs \in Nat /\ since \in Since
  /\ busy = "other" => opening # "none" \/ jobs > 0

\* Whoever changes what the size depends on makes the loop look again.
Looks == loop[mount].timer # "none" \/ (loop[mount].inFlight /\ loop[mount].pending)

Fits == KeepsPicture(history.width, scale, interacting, preview.width, FALSE)

SizeIsOwed ==
  OnScreen => observing \/ answers # <<>> \/ Looks \/ SomeComes \/ Fits \/ since.failed

QInv == Mounted /\ NumbersGrow /\ BusyWhileOwed /\ BusyIsOwed /\ BusyIsHeld /\ SizeIsOwed

LEMMA InitOwes == Init => QInv
<1> SUFFICES ASSUME Init PROVE QInv
  OBVIOUS
<1>1. Mounted
  <2>1. MaxEdits \in Nat /\ MaxExtras \in Nat
    BY PreviewAssumption
  <2>2. IdleLoop \in Loop
    BY DEF IdleLoop, Loop, Timers
  <2> QED BY <2>1, <2>2 DEF Init, Mounted
<1>2. NumbersGrow /\ BusyWhileOwed /\ BusyIsOwed /\ BusyIsHeld /\ SizeIsOwed
  BY DEF Init, NumbersGrow, BusyWhileOwed, BusyIsOwed, BusyIsHeld, SizeIsOwed, OnScreen, Since,
         Fresh
<1> QED BY <1>1, <1>2 DEF QInv

\* What a request leaves of the renders there were, and what it adds.
LEMMA AskMakes ==
  ASSUME NEW pool, pool \subseteq RenderT, NEW by, NEW m, NEW width
  PROVE  /\ \A q \in Ask(pool, by, m, width) :
              q = Added(by, m, width) \/ \E r \in pool : q = Passed(r, by)
         /\ Added(by, m, width) \in Ask(pool, by, m, width)
         /\ \A r \in pool : Passed(r, by) \in Ask(pool, by, m, width)
<1>1. Ask(pool, by, m, width) = {Passed(r, by) : r \in pool} \cup {Added(by, m, width)}
  BY Zenon DEF Ask, Added, Passed
<1> QED BY <1>1

LEMMA PassedOn ==
  ASSUME NEW r \in RenderT, NEW by
  PROVE  /\ Passed(r, by).by = r.by /\ Passed(r, by).doc = r.doc /\ Passed(r, by).mount = r.mount
         /\ Passed(r, by).doomed <=> (r.doomed \/ SameKey(r, by, document))
         /\ Passed(r, by).newest <=> (r.newest /\ by # "loop")
<1> DEFINE doom == r.doomed \/ SameKey(r, by, document)
           keep == r.newest /\ by # "loop"
<1>1. (doom <=> (r.doomed \/ SameKey(r, by, document))) /\ (keep <=> (r.newest /\ by # "loop"))
  OBVIOUS
<1>2. Passed(r, by) = [r EXCEPT !.doomed = doom, !.newest = keep]
  BY DEF Passed
<1> HIDE DEF doom, keep
<1>3. /\ Passed(r, by).by = r.by /\ Passed(r, by).doc = r.doc /\ Passed(r, by).mount = r.mount
      /\ Passed(r, by).doomed = doom /\ Passed(r, by).newest = keep
  BY <1>2 DEF RenderT
<1> QED BY <1>1, <1>3

LEMMA AddedFields ==
  ASSUME NEW by, NEW m, NEW width
  PROVE  LET a == Added(by, m, width)
         IN  a.by = by /\ a.mount = m /\ a.doc = document /\ ~a.doomed /\ (a.newest <=> by = "loop")
BY DEF Added

LEMMA AskedComes ==
  ASSUME NEW pool, pool \subseteq RenderT, NEW by \in {"loop", "sample"}, NEW m, NEW width
  PROVE  \E q \in Ask(pool, by, m, width) : Coming(q)
<1>1. Coming(Added(by, m, width))
  BY AddedFields DEF Coming
<1> QED BY <1>1, AskMakes

LEMMA CompareDoomsNone ==
  ASSUME NEW pool, pool \subseteq RenderT, NEW m, NEW width, \E r \in pool : Coming(r)
  PROVE  \E q \in Ask(pool, "compare", m, width) : Coming(q)
<1>1. PICK r \in pool : Coming(r)
  OBVIOUS
<1>2. Coming(Passed(r, "compare"))
  BY <1>1, PassedOn DEF Coming, SameKey
<1> QED BY <1>1, <1>2, AskMakes

LEMMA OnlyLoopHolds ==
  ASSUME NEW pool, pool \subseteq RenderT, NEW by, by # "loop", NEW m, NEW width,
         NEW q \in Ask(pool, by, m, width), HoldsBusy(q)
  PROVE  \E r \in pool : HoldsBusy(r)
<1>1. ~HoldsBusy(Added(by, m, width))
  BY AddedFields DEF HoldsBusy
<1>2. PICK r \in pool : q = Passed(r, by)
  BY <1>1, AskMakes
<1> QED BY <1>2, PassedOn DEF HoldsBusy

LEMMA AskedAreKnown ==
  ASSUME NEW pool, pool \subseteq RenderT, NEW by, NEW m, NEW width, by = "loop" => m # 0,
         \A r \in pool : r.doc <= opened /\ (r.by = "loop" => r.mount # 0), document <= opened
  PROVE  \A q \in Ask(pool, by, m, width) : q.doc <= opened /\ (q.by = "loop" => q.mount # 0)
<1>1. ASSUME NEW r \in pool PROVE LET q == Passed(r, by)
                                  IN  q.doc <= opened /\ (q.by = "loop" => q.mount # 0)
  BY PassedOn
<1>2. LET q == Added(by, m, width) IN q.doc <= opened /\ (q.by = "loop" => q.mount # 0)
  BY AddedFields
<1> QED BY <1>1, <1>2, AskMakes

\* A turn of the loop asks, or has nothing to ask for.
LEMMA TurnOutcome ==
  ASSUME PInv, NEW m \in Mounts, NEW refs \in Loop, NEW pool, NEW busyNow, NEW sinceNow,
         NEW rendered, Turn(m, refs, rendered, pool, busyNow, sinceNow)
  PROVE  /\ \E l \in Loop : l.timer = refs.timer /\ loop' = [loop EXCEPT ![m] = l]
         /\ \/ /\ document # 0 /\ busy' = "rendering" /\ since' = Fresh
               /\ \E w : renders' = Ask(pool, "loop", m, w)
            \/ /\ renders' = pool /\ busy' = busyNow /\ since' = sinceNow
               /\ refs.pending /\ document # 0 =>
                    KeepsPicture(history.width, scale, interacting, rendered, FALSE)
<1> DEFINE asks == refs.pending /\ document # 0
                     /\ ~KeepsPicture(history.width, scale, interacting, rendered, refs.force)
           l == [refs EXCEPT !.pending = FALSE, !.force = FALSE, !.inFlight = asks]
           w == Wanted(history.width, scale, interacting)
<1>1. /\ loop' = [loop EXCEPT ![m] = l]
      /\ renders' = IF asks THEN Ask(pool, "loop", m, w) ELSE pool
      /\ busy' = IF asks THEN "rendering" ELSE busyNow
      /\ since' = IF asks THEN Fresh ELSE sinceNow
  BY DEF Turn
<1>2. asks \in BOOLEAN
  OBVIOUS
<1>3. ~asks => (refs.pending /\ document # 0 =>
                 KeepsPicture(history.width, scale, interacting, rendered, FALSE))
  BY DEF KeepsPicture
<1>4. asks => document # 0
  OBVIOUS
<1> HIDE DEF asks, w
<1>5. l \in Loop /\ l.timer = refs.timer
  BY <1>2 DEF Loop
<1> HIDE DEF l
<1>6. CASE asks
  BY <1>1, <1>4, <1>5, <1>6
<1>7. CASE ~asks
  BY <1>1, <1>3, <1>5, <1>7
<1> QED BY <1>6, <1>7

LEMMA Turning ==
  ASSUME PInv, Mounted, NumbersGrow, NEW m \in Mounts, NEW refs \in Loop,
         NEW pool \in SUBSET renders, NEW busyNow \in {"none", "rendering", "other"},
         NEW sinceNow \in Since, NEW pic,
         Turn(m, refs, pic.width, pool, busyNow, sinceNow), preview' = pic,
         UNCHANGED <<document, opened, stack, answers, history, interacting, scale, mount, mounts,
                     budget, opening, jobs>>,
         ~sinceNow.spoke => \A r \in pool : HoldsBusy(r) => busyNow = "rendering",
         busyNow = "rendering" /\ document # 0 =>
           (\E r \in pool : Coming(r)) \/ pic.version < stack[document].version
             \/ sinceNow.failed,
         jobs \in Nat, busyNow = "other" => opening # "none" \/ jobs > 0,
         OnScreen =>
           \/ sinceNow.failed
           \/ observing' \/ answers # <<>>
           \/ (m = mount /\ (refs.pending \/ refs.timer # "none"))
           \/ (m # mount /\ Looks)
           \/ \E r \in pool : Coming(r)
           \/ KeepsPicture(history.width, scale, interacting, pic.width, FALSE)
  PROVE  QInv'
<1>1. PICK l \in Loop : l.timer = refs.timer /\ loop' = [loop EXCEPT ![m] = l]
  BY TurnOutcome
<1>2. \/ /\ document # 0 /\ busy' = "rendering" /\ since' = Fresh
         /\ \E w : renders' = Ask(pool, "loop", m, w)
      \/ /\ renders' = pool /\ busy' = busyNow /\ since' = sinceNow
         /\ refs.pending /\ document # 0 =>
              KeepsPicture(history.width, scale, interacting, pic.width, FALSE)
  BY TurnOutcome
<1>3. pool \subseteq RenderT /\ m # 0
  BY DEF PInv, Good, Mounts
<1>4. Mounted'
  BY <1>1 DEF Mounted
<1>5. /\ loop'[m] = l /\ \A n \in Mounts : n # m => loop'[n] = loop[n]
      /\ mount \in {0} \cup Mounts
  BY <1>1 DEF Mounted
<1>6. CASE /\ document # 0 /\ busy' = "rendering" /\ since' = Fresh
           /\ \E w : renders' = Ask(pool, "loop", m, w)
  <2>1. PICK w : renders' = Ask(pool, "loop", m, w)
    BY <1>6
  <2>2. \E r \in renders' : Coming(r)
    BY <2>1, <1>3, AskedComes
  <2>3. NumbersGrow'
    <3>1. /\ \A r \in pool : r.doc <= opened /\ (r.by = "loop" => r.mount # 0)
          /\ document <= opened
      BY DEF NumbersGrow
    <3>2. \A q \in renders' : q.doc <= opened /\ (q.by = "loop" => q.mount # 0)
      BY <2>1, <3>1, <1>3, AskedAreKnown
    <3> QED BY <3>1, <3>2 DEF NumbersGrow
  <2>4. SomeComes'
    BY <2>2 DEF SomeComes, Coming
  <2>5. BusyIsHeld'
    BY <1>6 DEF BusyIsHeld, Fresh, Since
  <2> QED BY <1>4, <1>6, <2>3, <2>4, <2>5 DEF QInv, BusyWhileOwed, BusyIsOwed, SizeIsOwed
<1>7. CASE /\ renders' = pool /\ busy' = busyNow /\ since' = sinceNow
           /\ refs.pending /\ document # 0 =>
                KeepsPicture(history.width, scale, interacting, pic.width, FALSE)
  <2>1. NumbersGrow'
    BY <1>7 DEF NumbersGrow
  <2>2. BusyWhileOwed'
    BY <1>7 DEF BusyWhileOwed, HoldsBusy
  <2>3. (\E r \in pool : Coming(r)) => SomeComes'
    BY <1>7 DEF SomeComes, Coming
  <2>4. BusyIsOwed'
    BY <1>7, <2>3 DEF BusyIsOwed
  <2>5. SizeIsOwed'
    <3>1. OnScreen' <=> OnScreen
      BY DEF OnScreen
    <3>2. Fits' <=> KeepsPicture(history.width, scale, interacting, pic.width, FALSE)
      BY DEF Fits
    <3>3. m = mount /\ refs.timer # "none" => Looks'
      BY <1>1, <1>5 DEF Looks
    <3>4. OnScreen /\ m # mount /\ Looks => Looks'
      BY <1>5 DEF Looks, OnScreen
    <3>5. OnScreen => document # 0
      BY DEF OnScreen
    <3> QED BY <1>7, <2>3, <3>1, <3>2, <3>3, <3>4, <3>5 DEF SizeIsOwed
  <2>6. BusyIsHeld'
    BY <1>7 DEF BusyIsHeld
  <2> QED BY <1>4, <2>1, <2>2, <2>4, <2>5, <2>6 DEF QInv
<1> QED BY <1>2, <1>6, <1>7

LEMMA TimerFiresOwes == ASSUME PInv, QInv, NEW m \in Mounts, TimerFires(m) PROVE QInv'
<1> DEFINE refs == [loop[m] EXCEPT !.timer = "none", !.pending = TRUE,
                                   !.force = @ \/ loop[m].timer = "forced"]
<1>1. /\ UNCHANGED <<document, opened, stack, answers, history, interacting, scale, preview,
                     mount, mounts, observing, budget, opening, jobs>>
      /\ IF refs.inFlight
         THEN loop' = [loop EXCEPT ![m] = refs] /\ UNCHANGED <<renders, busy, since>>
         ELSE Turn(m, refs, preview.width, renders, busy, since)
  BY DEF TimerFires, callVars
<1>2. loop \in [Mounts -> Loop] /\ loop[m] \in Loop
  BY DEF QInv, Mounted
<1>3. refs \in Loop /\ refs.pending
  <2> DEFINE force == loop[m].force \/ loop[m].timer = "forced"
             l == loop[m]
  <2>1. force \in BOOLEAN /\ refs = [l EXCEPT !.timer = "none", !.pending = TRUE, !.force = force]
    OBVIOUS
  <2>2. l \in Loop
    BY <1>2
  <2> HIDE DEF force, l, refs
  <2> DEFINE r == [timer |-> "none", pending |-> TRUE, force |-> force, inFlight |-> l.inFlight]
  <2>3. refs = r
    BY <2>1, <2>2 DEF Loop
  <2>4. r \in Loop /\ r.pending
    BY <2>1, <2>2 DEF Loop, Timers
  <2> QED BY <2>3, <2>4
<1> HIDE DEF refs
<1>4. CASE refs.inFlight
  <2>1. loop' = [loop EXCEPT ![m] = refs] /\ UNCHANGED <<renders, busy, since>>
    BY <1>1, <1>4
  <2>2. loop'[m] = refs /\ \A n \in Mounts : n # m => loop'[n] = loop[n]
    BY <1>2, <2>1
  <2>3. Mounted'
    BY <1>1, <1>2, <1>3, <2>1 DEF QInv, Mounted
  <2>4. SizeIsOwed'
    <3>1. OnScreen => mount \in Mounts
      BY DEF QInv, Mounted, OnScreen
    <3>2. OnScreen /\ Looks => Looks'
      BY <1>1, <1>3, <1>4, <2>2, <3>1 DEF Looks
    <3> QED BY <1>1, <2>1, <3>2 DEF QInv, SizeIsOwed, OnScreen, SomeComes, Coming, Fits
  <2> QED BY <1>1, <2>1, <2>3, <2>4
          DEF QInv, NumbersGrow, BusyWhileOwed, HoldsBusy, BusyIsOwed, BusyIsHeld, SomeComes, Coming
<1>5. CASE ~refs.inFlight
  <2>1. Turn(m, refs, preview.width, renders, busy, since)
    BY <1>1, <1>5
  <2>2. OnScreen =>
          \/ since.failed \/ observing' \/ answers # <<>>
          \/ (m = mount /\ refs.pending) \/ (m # mount /\ Looks)
          \/ (\E r \in renders : Coming(r))
          \/ KeepsPicture(history.width, scale, interacting, preview.width, FALSE)
    BY <1>1, <1>3 DEF QInv, SizeIsOwed, SomeComes, Fits
  <2> DEFINE pic == preview
             pool == renders
             busyNow == busy
             sinceNow == since
  <2>3. /\ ~sinceNow.spoke => \A r \in pool : HoldsBusy(r) => busyNow = "rendering"
        /\ busyNow = "rendering" /\ document # 0 =>
             (\E r \in pool : Coming(r)) \/ pic.version < stack[document].version
               \/ sinceNow.failed
        /\ Turn(m, refs, pic.width, pool, busyNow, sinceNow)
        /\ preview' = pic /\ pool \in SUBSET renders
    BY <1>1, <2>1 DEF QInv, BusyWhileOwed, BusyIsOwed, SomeComes
  <2>4. /\ Mounted /\ NumbersGrow
        /\ busyNow \in {"none", "rendering", "other"} /\ jobs \in Nat /\ sinceNow \in Since
        /\ busyNow = "other" => opening # "none" \/ jobs > 0
    BY DEF QInv, BusyIsHeld
  <2>5. OnScreen =>
          \/ sinceNow.failed \/ observing' \/ answers # <<>>
          \/ (m = mount /\ (refs.pending \/ refs.timer # "none")) \/ (m # mount /\ Looks)
          \/ (\E r \in pool : Coming(r))
          \/ KeepsPicture(history.width, scale, interacting, pic.width, FALSE)
    BY <2>2
  <2> HIDE DEF pic, pool, busyNow, sinceNow
  <2> QED BY <1>1, <1>3, <2>3, <2>4, <2>5, Turning
<1> QED BY <1>4, <1>5

LEMMA LoopOf ==
  ASSUME PInv, QInv, NEW r \in renders, r.by = "loop"
  PROVE  r.mount \in Mounts /\ loop[r.mount] \in Loop
<1>1. r.mount \in {0} \cup Mounts /\ r.mount # 0
  BY DEF PInv, Good, RenderT, QInv, NumbersGrow
<1> QED BY <1>1 DEF QInv, Mounted

LEMMA LiveRefusedOwes ==
  ASSUME PInv, QInv, NEW r \in renders, LiveRefused(r) \/ LiveFailed(r) PROVE QInv'
<1> DEFINE m == r.mount
           refs == loop[m]
           pool == renders \ {r}
           pic == preview
           ends == LiveFailed(r) /\ IsCurrent(r)
           busyNow == IF ends THEN "none" ELSE busy
           sinceNow == IF ends THEN [spoke |-> since.spoke, failed |-> TRUE] ELSE since
<1>0. since \in Since
  BY DEF QInv, BusyIsHeld
<1>1. /\ Turn(m, refs, pic.width, pool, busyNow, sinceNow) /\ r.by = "loop"
      /\ Fails(r) \/ LiveFailed(r)
      /\ UNCHANGED <<document, opened, stack, answers, history, interacting, scale, preview,
                     mount, mounts, observing, budget, opening, jobs>>
  <2>1. CASE LiveRefused(r) /\ ~LiveFailed(r)
    BY <2>1 DEF LiveRefused, callVars
  <2>2. CASE LiveFailed(r)
    <3>1. [since EXCEPT !.failed = @ \/ IsCurrent(r)] = sinceNow
      <4>1. CASE IsCurrent(r)
        <5> DEFINE lost == since.failed \/ IsCurrent(r)
        <5>1. lost = TRUE /\ ends
          BY <2>2, <4>1
        <5>2. [since EXCEPT !.failed = lost] = [spoke |-> since.spoke, failed |-> lost]
          <6> HIDE DEF lost
          <6> QED BY <1>0 DEF Since
        <5> QED BY <5>1, <5>2
      <4>2. CASE ~IsCurrent(r)
        BY <1>0, <2>2, <4>2 DEF Since
      <4> QED BY <4>1, <4>2
    <3>2. (IF IsCurrent(r) THEN "none" ELSE busy) = busyNow
      BY <2>2
    <3> HIDE DEF busyNow, sinceNow, ends
    <3> QED BY <2>2, <3>1, <3>2 DEF LiveFailed, callVars
  <2> QED BY <2>1, <2>2
<1>2. m \in Mounts /\ refs \in Loop
  BY <1>1, LoopOf
<1>3. ~ends => ~Coming(r)
  BY <1>1 DEF Fails, Coming, IsCurrent
<1>4. ~ends /\ SomeComes => \E q \in pool : Coming(q)
  BY <1>3 DEF SomeComes
<1>5. ~sinceNow.spoke => \A q \in pool : HoldsBusy(q) => busyNow = "rendering"
  \* A render that ends busy holds the token, so no other does.
  <2>1. CASE ends
    BY <2>1 DEF IsCurrent, HoldsBusy, PInv, Good, OneNewest
  <2>2. CASE ~ends
    BY <2>2 DEF QInv, BusyWhileOwed
  <2> QED BY <2>1, <2>2
<1>6. busyNow = "rendering" /\ document # 0 =>
        (\E q \in pool : Coming(q)) \/ pic.version < stack[document].version \/ sinceNow.failed
  BY <1>4 DEF QInv, BusyIsOwed
<1>7. OnScreen =>
        \/ sinceNow.failed \/ observing' \/ answers # <<>>
        \/ (m = mount /\ (refs.pending \/ refs.timer # "none")) \/ (m # mount /\ Looks)
        \/ (\E q \in pool : Coming(q))
        \/ KeepsPicture(history.width, scale, interacting, pic.width, FALSE)
  BY <1>1, <1>4 DEF QInv, SizeIsOwed, Looks, Fits
<1>9. /\ busyNow \in {"none", "rendering", "other"} /\ sinceNow \in Since /\ jobs \in Nat
      /\ busyNow = "other" => opening # "none" \/ jobs > 0
  BY <1>0 DEF QInv, BusyIsHeld, Since
<1>8. Mounted /\ NumbersGrow /\ preview' = pic /\ pool \in SUBSET renders
  BY <1>1 DEF QInv
<1> HIDE DEF m, refs, pool, pic, busyNow, sinceNow, ends
<1> QED BY <1>1, <1>2, <1>5, <1>6, <1>7, <1>8, <1>9, Turning

LEMMA LiveRenderedOwes == ASSUME PInv, QInv, NEW r \in renders, LiveRendered(r) PROVE QInv'
<1> DEFINE m == r.mount
           refs == loop[m]
           pool == renders \ {r}
           pic == IF IsCurrent(r) THEN PictureOf(r) ELSE preview
           busyNow == IF IsCurrent(r) THEN "none" ELSE busy
<1>1. /\ Turn(m, refs, preview'.width, pool, busyNow, since) /\ r.by = "loop" /\ preview' = pic
      /\ observing' = (observing \/ (IsCurrent(r) /\ mount # 0))
      /\ UNCHANGED <<document, opened, stack, answers, history, interacting, scale,
                     mount, mounts, budget, opening, jobs>>
  BY DEF LiveRendered, callVars
<1>2. m \in Mounts /\ refs \in Loop
  BY <1>1, LoopOf
<1>3. ~IsCurrent(r) => pic = preview /\ busyNow = busy
  OBVIOUS
<1>4. ~IsCurrent(r) => ~Coming(r)
  BY <1>1 DEF IsCurrent, Coming
<1>5. ~IsCurrent(r) /\ SomeComes => \E q \in pool : Coming(q)
  BY <1>4 DEF SomeComes
<1>6. ~since.spoke => \A q \in pool : HoldsBusy(q) => busyNow = "rendering"
  <2>1. CASE IsCurrent(r)
    BY <2>1 DEF IsCurrent, HoldsBusy, PInv, Good, OneNewest
  <2>2. CASE ~IsCurrent(r)
    BY <2>2 DEF QInv, BusyWhileOwed
  <2> QED BY <2>1, <2>2
<1>7. busyNow = "rendering" /\ document # 0 =>
        (\E q \in pool : Coming(q)) \/ pic.version < stack[document].version \/ since.failed
  BY <1>3, <1>5 DEF QInv, BusyIsOwed
<1>8. OnScreen =>
        \/ since.failed \/ observing' \/ answers # <<>>
        \/ (m = mount /\ (refs.pending \/ refs.timer # "none")) \/ (m # mount /\ Looks)
        \/ (\E q \in pool : Coming(q))
        \/ KeepsPicture(history.width, scale, interacting, pic.width, FALSE)
  <2>1. CASE IsCurrent(r)
    BY <1>1, <2>1 DEF OnScreen
  <2>2. CASE ~IsCurrent(r)
    BY <1>1, <1>3, <1>5, <2>2 DEF QInv, SizeIsOwed, Looks, Fits
  <2> QED BY <2>1, <2>2
<1>9. /\ Mounted /\ NumbersGrow /\ pool \in SUBSET renders
      /\ Turn(m, refs, pic.width, pool, busyNow, since)
      /\ busyNow \in {"none", "rendering", "other"} /\ since \in Since /\ jobs \in Nat
      /\ busyNow = "other" => opening # "none" \/ jobs > 0
  BY <1>1 DEF QInv, BusyIsHeld
<1> HIDE DEF m, refs, pool, pic, busyNow
<1> QED BY <1>1, <1>2, <1>6, <1>7, <1>8, <1>9, Turning

\* No picture is of a version to come, so one more makes the stack newer.
LEMMA NewerThanShown ==
  ASSUME PInv, document # 0, NEW w, NEW c, Carried(document, w, c)
  PROVE  preview.version < stack'[document].version /\ answers' # <<>>
<1>1. document \in Docs /\ stack \in [Docs -> StackT] /\ preview \in PictureT
      /\ answers \in Seq([stack : StackT, continuing : BOOLEAN])
  BY DEF PInv, Types
<1>2. stack'[document].version = stack[document].version + 1
  BY <1>1 DEF Carried
<1>3. preview.version <= stack[document].version
  <2>1. CASE preview = Nothing
    BY <1>1, <2>1 DEF Nothing, StackT
  <2>2. CASE preview # Nothing
    BY <1>1, <2>2 DEF PInv, Shown
  <2> QED BY <2>1, <2>2
<1>4. stack[document].version \in Nat /\ preview.version \in Nat
  BY <1>1 DEF StackT, PictureT
<1>5. answers' # <<>>
  <2> DEFINE T == [stack : StackT, continuing : BOOLEAN]
             a == [stack |-> [version |-> stack[document].version + 1, width |-> w], continuing |-> c]
  <2>1. answers \in Seq(T) /\ answers' = Append(answers, a)
    BY <1>1 DEF Carried
  <2> HIDE DEF T, a
  <2>2. Len(answers') = Len(answers) + 1 /\ Len(answers) \in Nat
    BY <2>1
  <2>3. Len(<<>>) = 0
    OBVIOUS
  <2> QED BY <2>2, <2>3
<1> QED BY <1>2, <1>3, <1>4, <1>5

LEMMA EditOwes == ASSUME PInv, QInv, NEW w \in Widths, NEW c \in BOOLEAN, Edit(w, c) PROVE QInv'
<1>1. /\ document # 0 /\ Carried(document, w, c) /\ budget.edits > 0
      /\ budget' = [budget EXCEPT !.edits = @ - 1]
      /\ UNCHANGED <<storeVars, callVars, since, canvasVars, renders>>
  BY DEF Edit
<1>2. preview.version < stack'[document].version /\ answers' # <<>>
  BY <1>1, NewerThanShown
<1>3. Mounted'
  BY <1>1 DEF QInv, Mounted, canvasVars
<1>4. UNCHANGED <<document, opened, preview, busy, opening, jobs, since, renders>>
  BY <1>1 DEF storeVars, callVars
<1>5. NumbersGrow' /\ BusyWhileOwed' /\ BusyIsHeld'
  BY <1>4 DEF QInv, NumbersGrow, BusyWhileOwed, HoldsBusy, BusyIsHeld
<1>6. BusyIsOwed' /\ SizeIsOwed'
  BY <1>2, <1>4 DEF BusyIsOwed, SizeIsOwed
<1> QED BY <1>3, <1>5, <1>6 DEF QInv

LEMMA ArmedLooks ==
  ASSUME QInv, NEW kind \in {"plain", "forced"}
  PROVE  /\ Armed(kind) \in [Mounts -> Loop]
         /\ mount # 0 => Armed(kind)[mount].timer # "none"
<1>1. loop \in [Mounts -> Loop] /\ mount \in {0} \cup Mounts
  BY DEF QInv, Mounted
<1> DEFINE l == [loop[mount] EXCEPT !.timer = kind]
<1>2. Armed(kind) = IF mount = 0 THEN loop ELSE [loop EXCEPT ![mount] = l]
  BY DEF Armed
<1>3. mount # 0 => l \in Loop /\ l.timer = kind
  BY <1>1 DEF Loop, Timers
<1> HIDE DEF l
<1> QED BY <1>1, <1>2, <1>3

LEMMA AdoptOwes == ASSUME PInv, QInv, Adopt PROVE QInv'
<1> DEFINE kind == IF scale' = scale THEN "forced" ELSE "plain"
<1>1. /\ loop' = (IF document = 0 THEN loop ELSE Armed(kind))
      /\ UNCHANGED <<document, opened, stack, renders, preview, busy, opening, jobs, since, mount,
                     mounts, budget>>
  BY DEF Adopt, callVars
<1>2. kind \in {"plain", "forced"}
  OBVIOUS
<1> HIDE DEF kind
<1>3. loop' \in [Mounts -> Loop] /\ (document # 0 /\ mount # 0 => loop'[mount].timer # "none")
  BY <1>1, <1>2, ArmedLooks DEF QInv, Mounted
<1> QED BY <1>1, <1>3 DEF QInv, Mounted, NumbersGrow, BusyWhileOwed, HoldsBusy, BusyIsOwed,
                          BusyIsHeld, SizeIsOwed, SomeComes, Coming, OnScreen, Looks

LEMMA StartRenderOwes == ASSUME PInv, QInv, NEW r \in renders, StartRender(r) PROVE QInv'
<1> DEFINE s == [r EXCEPT !.started = TRUE, !.version = stack[document].version,
                          !.frame = stack[document].width]
<1>1. /\ UNCHANGED <<document, opened, stack, answers, history, interacting, scale, preview, busy,
                     mount, mounts, observing, loop, budget, opening, jobs, since>>
      /\ renders' = (renders \ {r}) \cup {s}
  BY DEF StartRender, storeVars, callVars, canvasVars
<1>2. /\ s.by = r.by /\ s.doc = r.doc /\ s.mount = r.mount /\ s.newest = r.newest
      /\ s.doomed = r.doomed
  BY DEF PInv, Good, RenderT
<1> HIDE DEF s
<1>3. (Coming(r) => Coming(s)) /\ (HoldsBusy(s) => HoldsBusy(r))
  BY <1>2 DEF Coming, HoldsBusy
<1>4. SomeComes => \E q \in renders' : Coming(q)
  BY <1>1, <1>3 DEF SomeComes
<1>5. SomeComes => SomeComes'
  BY <1>1, <1>4 DEF SomeComes, Coming
<1>6. BusyWhileOwed'
  BY <1>1, <1>3 DEF QInv, BusyWhileOwed, HoldsBusy
<1>7. Mounted' /\ NumbersGrow'
  BY <1>1, <1>2 DEF QInv, Mounted, NumbersGrow
<1> QED BY <1>1, <1>5, <1>6, <1>7
        DEF QInv, BusyIsOwed, BusyIsHeld, SizeIsOwed, OnScreen, Looks, Fits

\* Trips and zooms are counted.
Counted == budget' = budget \/ (budget.extras > 0 /\ budget' = [budget EXCEPT !.extras = @ - 1])

LEMMA StaysMounted ==
  ASSUME Mounted, Counted, loop' \in [Mounts -> Loop], UNCHANGED <<mount, mounts>>
  PROVE  Mounted'
<1>1. budget' \in [edits : Nat, extras : Nat] /\ budget'.extras <= budget.extras
  <2>1. budget \in [edits : Nat, extras : Nat]
    BY DEF Mounted
  <2>2. CASE budget' = budget
    BY <2>1, <2>2
  <2>3. CASE budget.extras > 0 /\ budget' = [budget EXCEPT !.extras = @ - 1]
    BY <2>1, <2>3
  <2> QED BY <2>1, <2>2, <2>3 DEF Counted
<1>2. budget'.extras \in Nat /\ budget.extras \in Nat /\ mounts \in Nat /\ MaxExtras \in Nat
  BY <1>1, PreviewAssumption DEF Mounted
<1>3. mounts' + budget'.extras <= MaxExtras + (IF mount' = 0 THEN 0 ELSE 1)
  <2> DEFINE one == IF mount = 0 THEN 0 ELSE 1
  <2>1. one \in Nat /\ mounts + budget.extras <= MaxExtras + one
    BY DEF Mounted
  <2>2. one = IF mount' = 0 THEN 0 ELSE 1
    OBVIOUS
  <2> HIDE DEF one
  <2> QED BY <1>1, <1>2, <2>1, <2>2
<1> QED BY <1>1, <1>3 DEF Mounted

\* A step that only asks, or only loses a render nobody counts on.
LEMMA PoolStep ==
  ASSUME PInv, QInv,
         UNCHANGED <<document, opened, history, interacting, scale, preview, busy, opening, jobs,
                     mount, mounts, loop, stack, answers>>,
         observing => observing', Counted,
         since' \in Since, since'.spoke = since.spoke, since.failed => since'.failed,
         \/ \E r \in renders : renders' = renders \ {r} /\ (Coming(r) => since'.failed)
         \/ renders' = renders
         \/ document # 0 /\ \E by \in {"sample", "compare"} : \E width :
              renders' = Ask(renders, by, 0, width)
  PROVE  QInv'
<1>1. renders \subseteq RenderT
  BY DEF PInv, Good
<1>2. Mounted'
  BY StaysMounted DEF QInv, Mounted
<1>h. BusyIsHeld'
  BY DEF QInv, BusyIsHeld
<1>3. CASE \/ \E r \in renders : renders' = renders \ {r} /\ (Coming(r) => since'.failed)
           \/ renders' = renders
  <2>1. /\ renders' \subseteq renders
        /\ SomeComes => since'.failed \/ \E q \in renders' : Coming(q)
    BY <1>3 DEF SomeComes
  <2>2. SomeComes => SomeComes' \/ since'.failed
    BY <2>1 DEF SomeComes, Coming
  <2>3. NumbersGrow' /\ BusyWhileOwed'
    BY <2>1 DEF QInv, NumbersGrow, BusyWhileOwed, HoldsBusy
  <2> QED BY <1>2, <1>h, <2>2, <2>3 DEF QInv, BusyIsOwed, SizeIsOwed, OnScreen, Looks, Fits
<1>4. ASSUME NEW by \in {"sample", "compare"}, NEW width, renders' = Ask(renders, by, 0, width)
      PROVE  QInv'
  <2>1. SomeComes => \E q \in renders' : Coming(q)
    BY <1>1, <1>4, AskedComes, CompareDoomsNone DEF SomeComes
  <2>2. SomeComes => SomeComes'
    BY <2>1 DEF SomeComes, Coming
  <2>3. \A q \in renders' : q.doc <= opened /\ (q.by = "loop" => q.mount # 0)
    <3>1. /\ \A r \in renders : r.doc <= opened /\ (r.by = "loop" => r.mount # 0)
          /\ document <= opened
      BY DEF QInv, NumbersGrow
    <3>2. by # "loop"
      OBVIOUS
    <3> QED BY <1>1, <1>4, <3>1, <3>2, AskedAreKnown
  <2>4. NumbersGrow'
    BY <2>3 DEF QInv, NumbersGrow
  <2>5. \A q \in renders' : HoldsBusy(q) => \E r \in renders : HoldsBusy(r)
    BY <1>1, <1>4, OnlyLoopHolds
  <2>6. BusyWhileOwed'
    BY <2>5 DEF QInv, BusyWhileOwed, HoldsBusy
  <2> QED BY <1>2, <1>h, <2>2, <2>4, <2>6 DEF QInv, BusyIsOwed, SizeIsOwed, OnScreen, Looks, Fits
<1> QED BY <1>3, <1>4

LEMMA SamplesOwe ==
  ASSUME PInv, QInv, TakeSample \/ \E r \in renders : SampleRefused(r) \/ SampleRendered(r)
  PROVE  QInv'
<1>1. UNCHANGED <<document, opened, history, interacting, scale, preview, busy, opening, jobs,
                  mount, mounts, observing, loop>>
  BY DEF TakeSample, SampleRefused, SampleRendered, storeVars, callVars, canvasVars
<1>0. since \in Since
  BY DEF QInv, BusyIsHeld
<1>2. CASE TakeSample
  BY <1>0, <1>1, <1>2, PoolStep DEF TakeSample, Counted
<1>3. ASSUME NEW r \in renders, SampleRefused(r) PROVE QInv'
  <2> DEFINE lost == since.failed \/ (r.doc = document /\ ~r.doomed)
  <2>1. /\ renders' = renders \ {r} /\ UNCHANGED <<stack, answers, budget>>
        /\ since' = [since EXCEPT !.failed = lost]
    BY <1>3 DEF SampleRefused
  <2>2. lost \in BOOLEAN /\ (since.failed => lost) /\ (Coming(r) => lost)
    BY <1>0 DEF Coming, Since
  <2> HIDE DEF lost
  <2>3. since' \in Since /\ since'.spoke = since.spoke /\ since'.failed = lost
    BY <1>0, <2>1, <2>2 DEF Since
  <2> QED BY <1>1, <2>1, <2>2, <2>3, PoolStep DEF Counted
<1>4. ASSUME NEW r \in renders, SampleRendered(r) PROVE QInv'
  <2>1. /\ renders' = renders \ {r} /\ UNCHANGED <<budget, since>>
        /\ IF r.doc = document THEN Carried(document, stack[document].width, FALSE)
           ELSE UNCHANGED <<stack, answers>>
    BY <1>4 DEF SampleRendered
  <2>2. CASE r.doc # document
    <3>1. ~Coming(r)
      BY <2>2 DEF Coming
    <3> QED BY <1>0, <1>1, <2>1, <2>2, <3>1, PoolStep DEF Counted
  <2>3. CASE r.doc = document
    <3>1. r \in RenderT
      BY DEF PInv, Good
    <3>2. document # 0
      BY <2>3, <3>1 DEF RenderT, Docs
    <3> DEFINE w == stack[document].width
    <3>3. Carried(document, w, FALSE)
      BY <2>1, <2>3
    <3> HIDE DEF w
    <3>4. preview.version < stack'[document].version /\ answers' # <<>>
      BY <3>2, <3>3, NewerThanShown
    <3>5. Mounted'
      BY <1>1, <2>1 DEF QInv, Mounted
    <3> QED BY <1>1, <2>1, <3>4, <3>5
            DEF QInv, NumbersGrow, BusyWhileOwed, HoldsBusy, BusyIsOwed, BusyIsHeld, SizeIsOwed
  <2> QED BY <2>2, <2>3
<1> QED BY <1>2, <1>3, <1>4

LEMMA CompareOwes ==
  ASSUME PInv, QInv,
         CompareOn \/ CompareOff \/ \E r \in renders : BeforeRefused(r) \/ BeforeRendered(r)
  PROVE  QInv'
<1>1. /\ UNCHANGED <<document, opened, history, interacting, scale, preview, busy, opening, jobs,
                     since, mount, mounts, loop, stack, answers>>
  BY DEF CompareOn, CompareOff, BeforeRefused, BeforeRendered, storeVars, callVars, canvasVars,
         engineVars
<1>s. since \in Since
  BY DEF QInv, BusyIsHeld
<1>o. observing => observing'
  BY DEF CompareOn, CompareOff, BeforeRefused, BeforeRendered, canvasVars
<1>c. Counted
  BY DEF CompareOn, CompareOff, BeforeRefused, BeforeRendered, Counted
<1>2. CASE CompareOn \/ CompareOff
  <2>1. \/ renders' = renders
        \/ document # 0 /\ renders' = Ask(renders, "compare", 0, preview.width)
    BY <1>2 DEF CompareOn, CompareOff, engineVars
  <2> QED BY <1>1, <1>s, <1>o, <1>c, <2>1, PoolStep
<1>3. ASSUME NEW r \in renders, BeforeRefused(r) \/ BeforeRendered(r) PROVE QInv'
  <2>1. renders' = renders \ {r} /\ ~Coming(r)
    BY <1>3 DEF BeforeRefused, BeforeRendered, Coming
  <2> QED BY <1>1, <1>s, <1>o, <1>c, <2>1, PoolStep
<1> QED BY <1>2, <1>3

\* On the screen again, or looked at anew.
LEMMA ViewStep ==
  ASSUME PInv, QInv,
         UNCHANGED <<document, opened, stack, answers, renders, preview, busy, opening, jobs, since>>,
         Mounted', OnScreen' => observing' \/ Looks'
  PROVE  QInv'
BY DEF QInv, NumbersGrow, BusyWhileOwed, HoldsBusy, BusyIsOwed, BusyIsHeld, SomeComes, Coming,
       SizeIsOwed

LEMMA MountMounts ==
  ASSUME QInv, Mount, budget' = budget
  PROVE  Mounted' /\ observing'
<1>1. /\ mount = 0 /\ mounts \in Nat /\ budget.extras \in Nat /\ loop \in [Mounts -> Loop]
      /\ mounts + budget.extras <= MaxExtras /\ MaxExtras \in Nat
      /\ budget \in [edits : Nat, extras : Nat]
  BY PreviewAssumption DEF QInv, Mounted, Mount
<1>2. mounts + 1 \in Mounts
  BY <1>1 DEF Mounts
<1> DEFINE m == mounts + 1
           l == [loop[m] EXCEPT !.timer = "plain"]
<1>3. loop' = [loop EXCEPT ![m] = l] /\ l \in Loop
  BY <1>1, <1>2 DEF Mount, Loop, Timers
<1> HIDE DEF l
<1>4. loop' \in [Mounts -> Loop]
  BY <1>1, <1>2, <1>3
<1>5. mount' = mounts + 1 /\ mounts' = mounts + 1 /\ observing' = TRUE
  BY DEF Mount
<1>6. mount' # 0 /\ mounts' \in Nat /\ mounts' + budget.extras <= MaxExtras + 1
  BY <1>1, <1>5
<1> QED BY <1>1, <1>2, <1>4, <1>5, <1>6 DEF Mounted

LEMMA ViewOwes ==
  ASSUME PInv, QInv, ObserverReports \/ Browse \/ LeaveLibrary \/ \E s \in Scales : Zoom(s)
  PROVE  QInv'
<1>1. UNCHANGED <<document, opened, stack, answers, renders, preview, busy, opening, jobs, since>>
  BY DEF ObserverReports, Browse, LeaveLibrary, Zoom, storeVars, callVars, engineVars
<1>2. CASE ObserverReports \/ \E s \in Scales : Zoom(s)
  <2>1. loop' = Armed("plain") /\ UNCHANGED <<mount, mounts>> /\ Counted
    BY <1>2 DEF ObserverReports, Zoom, Counted
  <2>2. loop' \in [Mounts -> Loop] /\ (mount # 0 => loop'[mount].timer # "none")
    BY <2>1, ArmedLooks
  <2>3. Mounted'
    BY <2>1, <2>2, StaysMounted DEF QInv
  <2>4. OnScreen' => Looks'
    BY <2>1, <2>2 DEF OnScreen, Looks
  <2> QED BY <1>1, <2>3, <2>4, ViewStep
<1>3. CASE Browse
  <2>1. /\ mount' = 0 /\ UNCHANGED <<mounts, loop>> /\ budget.extras > 0 /\ mount # 0
        /\ budget' = [budget EXCEPT !.extras = @ - 1]
    BY <1>3 DEF Browse
  <2>2. Mounted'
    BY <2>1, PreviewAssumption DEF QInv, Mounted
  <2>3. ~OnScreen'
    BY <2>1 DEF OnScreen
  <2> QED BY <1>1, <2>2, <2>3, ViewStep
<1>4. CASE LeaveLibrary
  <2>1. Mount /\ budget' = budget
    BY <1>4 DEF LeaveLibrary
  <2> QED BY <1>1, <2>1, MountMounts, ViewStep
<1> QED BY <1>2, <1>3, <1>4

LEMMA CloseOwes == ASSUME PInv, QInv, Close PROVE QInv'
<1>1. /\ UNCHANGED <<opened, stack, answers, renders, mount, mounts, loop, busy, jobs, since, budget>>
      /\ document' = 0 /\ opening' = "closing"
  BY DEF Close, engineVars
<1>2. Mounted'
  BY <1>1 DEF QInv, Mounted
<1>3. NumbersGrow'
  BY <1>1 DEF QInv, NumbersGrow, PInv, Types
<1>4. BusyWhileOwed'
  BY <1>1 DEF PInv, Good, RenderT, Docs, BusyWhileOwed, HoldsBusy
<1> QED BY <1>1, <1>2, <1>3, <1>4 DEF QInv, BusyIsOwed, BusyIsHeld, SizeIsOwed, OnScreen

LEMMA CallsOwe ==
  ASSUME PInv, QInv, OpenAsked \/ OpenGivenUp \/ JobBegins \/ JobEnds PROVE QInv'
<1>1. /\ UNCHANGED <<document, opened, history, interacting, scale, preview, stack, answers,
                     renders, mount, mounts, observing, loop>>
      /\ since' = Spoken
  BY DEF OpenAsked, OpenGivenUp, JobBegins, JobEnds, canvasVars, engineVars
<1>2. Mounted'
  BY <1>1, StaysMounted DEF QInv, Mounted, Counted, OpenAsked, OpenGivenUp, JobBegins, JobEnds
<1>3. NumbersGrow'
  BY <1>1 DEF QInv, NumbersGrow
<1>4. since' \in Since /\ since'.spoke /\ since'.failed = since.failed
  BY <1>1 DEF QInv, BusyIsHeld, Spoken, Since
<1>5. /\ busy' \in {"none", "other"} /\ jobs' \in Nat
      /\ busy' = "other" => opening' # "none" \/ jobs' > 0
  BY DEF QInv, BusyIsHeld, OpenAsked, OpenGivenUp, JobBegins, JobEnds
<1>6. BusyWhileOwed' /\ BusyIsOwed' /\ BusyIsHeld'
  BY <1>4, <1>5 DEF BusyWhileOwed, BusyIsOwed, BusyIsHeld
<1>7. SizeIsOwed'
  BY <1>1, <1>4 DEF QInv, SizeIsOwed, OnScreen, Looks, SomeComes, Coming, Fits
<1> QED BY <1>2, <1>3, <1>6, <1>7 DEF QInv

LEMMA OpenedOwes == ASSUME PInv, QInv, Opened PROVE QInv'
<1>1. /\ UNCHANGED <<stack, answers, renders, budget, jobs>>
      /\ opened' = opened + 1 /\ document' = opened' /\ busy' = "none" /\ since' = Spoken
      /\ \/ Mount
         \/ /\ observing' = TRUE /\ UNCHANGED <<mount, mounts>>
            /\ \E kind \in {"plain", "forced"} : loop' = Armed(kind)
  BY DEF Opened, engineVars
<1>2. Mounted' /\ observing'
  <2>1. CASE Mount
    BY <1>1, <2>1, MountMounts
  <2>2. CASE /\ observing' = TRUE /\ UNCHANGED <<mount, mounts>>
             /\ \E kind \in {"plain", "forced"} : loop' = Armed(kind)
    <3>1. loop' \in [Mounts -> Loop]
      BY <2>2, ArmedLooks
    <3> QED BY <1>1, <2>2, <3>1 DEF QInv, Mounted
  <2> QED BY <1>1, <2>1, <2>2
<1>3. \A r \in renders : r.doc \in Int /\ r.doc <= opened /\ opened \in Nat
  BY DEF PInv, Types, Good, RenderT, Docs, QInv, NumbersGrow
<1>4. NumbersGrow'
  BY <1>1, <1>3 DEF PInv, Types, QInv, NumbersGrow
<1>5. BusyWhileOwed'
  BY <1>1, <1>3 DEF BusyWhileOwed, HoldsBusy
<1>6. BusyIsHeld'
  BY <1>1 DEF QInv, BusyIsHeld, Spoken, Since
<1> QED BY <1>1, <1>2, <1>4, <1>5, <1>6 DEF QInv, BusyIsOwed, SizeIsOwed

LEMMA StepOwes == PInv /\ QInv /\ [Next]_vars => QInv'
<1> SUFFICES ASSUME PInv, QInv, [Next]_vars PROVE QInv'
  OBVIOUS
<1>1. ASSUME NEW m \in Mounts, TimerFires(m) PROVE QInv'
  BY <1>1, TimerFiresOwes
<1>2. ASSUME NEW r \in renders, Rendering(r) PROVE QInv'
  BY <1>2, StartRenderOwes, LiveRefusedOwes, LiveRenderedOwes, SamplesOwe, CompareOwes
     DEF Rendering
<1>3. ASSUME NEW w \in Widths, NEW c \in BOOLEAN, Edit(w, c) PROVE QInv'
  BY <1>3, EditOwes
<1>4. CASE Adopt \/ TakeSample \/ CompareOn \/ CompareOff
  BY <1>4, AdoptOwes, SamplesOwe, CompareOwes
<1>5. CASE ObserverReports \/ Browse \/ LeaveLibrary \/ \E s \in Scales : Zoom(s)
  BY <1>5, ViewOwes
<1>6. CASE Close \/ Opened \/ OpenAsked \/ OpenGivenUp \/ JobBegins \/ JobEnds
  BY <1>6, CloseOwes, OpenedOwes, CallsOwe
<1>7. CASE UNCHANGED vars
  BY <1>7 DEF vars, QInv, Mounted, NumbersGrow, BusyWhileOwed, HoldsBusy, BusyIsOwed, BusyIsHeld,
              SomeComes, Coming, SizeIsOwed, OnScreen, Looks, Fits
<1> QED BY <1>1, <1>2, <1>3, <1>4, <1>5, <1>6, <1>7 DEF Next

LEMMA Owed == Spec => [](PInv /\ QInv)
BY InitHolds, InitOwes, StepHolds, StepOwes, PTL DEF Spec


-----------------------------------------------------------------------------
(* The theorems.                                                           *)

\* The picture on screen is of the open photograph, whatever renders of the one
\* before it are still to answer (isCurrent in requestPreview).
THEOREM PictureStays == Spec => []PictureIsOfTheDocument
<1>1. PInv => PictureIsOfTheDocument
  BY DEF PInv, Shown, PictureIsOfTheDocument
<1> QED BY InitHolds, StepHolds, <1>1, PTL DEF Spec

\* No step replaces a picture by one of an older stack of the same photograph:
\* renders overlap and answer in any order, and the token keeps the late ones off
\* the screen (previewToken in requestPreview).
THEOREM PicturesGoForward == Spec => PictureNeverGoesBack
<1> DEFINE Forward ==
      (preview # Nothing /\ preview'.doc = preview.doc) => preview.version <= preview'.version
<1>1. ASSUME PInv, [Next]_vars PROVE [Forward]_vars
  <2>. SUFFICES Forward
    OBVIOUS
  <2>0. CASE preview' = preview
    <3>1. preview.version \in Nat
      BY <1>1 DEF PInv, Types, PictureT
    <3> QED BY <2>0, <3>1
  <2>1. SUFFICES ASSUME preview' # preview PROVE Forward
    BY <2>0
  <2>2. \/ preview' = Nothing
        \/ \E r \in renders : /\ LiveRendered(r) /\ preview' = PictureOf(r) /\ IsCurrent(r)
    BY <1>1, <2>1
       DEF Next, Rendering, TimerFires, StartRender, LiveRefused, LiveFailed, LiveRendered,
           SampleRefused, SampleRendered, BeforeRefused, BeforeRendered, Edit, Adopt, TakeSample, CompareOn,
           CompareOff, Zoom, ObserverReports, Browse, LeaveLibrary, OpenAsked, OpenGivenUp,
           Close, Opened, JobBegins, JobEnds, storeVars, vars
  <2>3. CASE preview' = Nothing
    BY <1>1, <2>3 DEF PInv, Types, Shown, Nothing, Docs
  <2>4. ASSUME NEW r \in renders, LiveRendered(r), preview' = PictureOf(r), IsCurrent(r)
        PROVE  Forward
    <3>1. r \in RenderT /\ r.started /\ r.newest
      BY <1>1, <2>4 DEF LiveRendered, IsCurrent, PInv, Good
    <3>2. preview'.doc = r.doc /\ preview'.version = r.version
      BY <2>4, <3>1, PictureOfType
    <3>3. r.doc = preview.doc => preview.version <= r.version
      BY <1>1, <3>1 DEF PInv, Good, NewestIsNoOlder
    <3> QED BY <3>2, <3>3
  <2> QED BY <2>2, <2>3, <2>4
<1> QED BY InitHolds, StepHolds, <1>1, PTL DEF Spec, PictureNeverGoesBack

\* At rest the picture has the size that the view and interacting call for, if no
\* render failed that nobody repeats: whatever is changed, from a zoom to a canvas
\* mounted anew, leaves a timer, a report or an answer that makes the loop look
\* again (schedulePreview, runPreview).
THEOREM RestIsTheSizeAsked == Spec => []SettledIsTheSizeAsked
<1>1. PInv /\ QInv => SettledIsTheSizeAsked
  <2> SUFFICES ASSUME QInv, Settled, ~since.failed, mount \in Mounts PROVE Fits
    BY DEF SettledIsTheSizeAsked, Fits, QInv, Mounted, Settled, OnScreen
  <2>1. ~SomeComes
    BY DEF Settled, SomeComes
  <2>2. ~Looks
    BY DEF Settled, Looks
  <2> QED BY <2>1, <2>2 DEF Settled, QInv, SizeIsOwed
<1> QED BY <1>1, Owed, PTL

\* busy says rendering while the newest render is owed and no other call has
\* written it, and is cleared at rest by whoever wrote it last: the render that
\* brought the picture, an opening given up or carried out, a job that ended
\* (requestPreview, openDialog, openPath, exportImage, detectFaces).
THEOREM BusyIsTrue == Spec => []BusyFollowsTheNewest
<1>1. PInv /\ QInv => BusyFollowsTheNewest
  <2> SUFFICES ASSUME PInv, QInv PROVE BusyFollowsTheNewest
    OBVIOUS
  <2>1. (\E r \in renders : r.by = "loop" /\ r.newest /\ r.doc = document) /\ ~since.spoke =>
          busy = "rendering"
    BY DEF QInv, BusyWhileOwed, HoldsBusy
  <2>2. ASSUME Settled, opening = "none", jobs = 0, ~since.failed,
               preview.version = stack[document].version
        PROVE  busy = "none"
    <3>1. document # 0 /\ ~SomeComes
      BY <2>2 DEF Settled, OnScreen, SomeComes
    <3>2. preview.version \in Nat
      BY DEF PInv, Types, PictureT
    <3>3. busy # "rendering"
      BY <2>2, <3>1, <3>2 DEF QInv, BusyIsOwed
    <3> QED BY <2>2, <3>3 DEF QInv, BusyIsHeld
  <2> QED BY <2>1, <2>2 DEF BusyFollowsTheNewest
<1> QED BY <1>1, Owed, PTL

================================================================================
