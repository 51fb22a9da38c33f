---------------------------- MODULE DocumentsProofs ----------------------------
(***************************************************************************)
(* Proofs about Documents, for any documents, workers, photograph and      *)
(* operations: a raster keeps its number, a project on the disk is whole,  *)
(* and a picture is the one its operations make from nothing.              *)
(*                                                                         *)
(* The argument is that rasters are only ever added (Grown), each with a   *)
(* number and a history of its own (ToldApart).  So whatever a list of     *)
(* operations names stays found (Known), and stays all there is for a      *)
(* picture to draw (Pictures), while other jobs run; and each cache holds  *)
(* what its own key would make (CachesOK).                                 *)
(***************************************************************************)
EXTENDS Documents, WellFoundedInduction, TLAPS

\* f is a function on S; ops is a sequence of whatever is in it.
FunOn(f, S) == f = [x \in S |-> f[x]]
List(ops) == ops \in Seq({ops[i] : i \in DOMAIN ops})

\* Rasters made so far, of which no two of a kind share a number or a history.
ToldApart(R, m) ==
  /\ \A r \in R : r.kind \in Kinds /\ r.id \in Nat /\ r.which \in Nat /\ r.which <= m
  /\ \A r, s \in R : r.kind = s.kind /\ (r.id = s.id \/ r.which = s.which) => r = s

Bounded(R) == \E n \in Nat : \A r \in R : r.id <= n

\* The raster an operation names is there, and is the one it meant.
Known(ops, k, R) ==
  \A i \in DOMAIN ops : ops[i].kind = Setter[k] =>
    \E r \in R : r.kind = k /\ Names(ops[i], r) /\ ops[i].natural = r.natural

AllKnown(ops, R) == \A k \in Kinds : Known(ops, k, R)

\* What a picture has to draw of one kind.
Pictures(w, k, R) ==
  {Sized(r, w.plan) : r \in {s \in R : /\ s.kind = k
                                       /\ s.natural = Natural(w.plan.geometry)
                                       /\ \E op \in Layered(w.ops, k) : op.which = s.which}}

-----------------------------------------------------------------------------
(* The invariant.                                                          *)

StoreOK(R, numbers, known, m) ==
  /\ ToldApart(R, m)
  /\ FunOn(numbers, Kinds) /\ \A k \in Kinds : numbers[k] \in Nat
  /\ \A r \in R : r.id < numbers[r.kind]
  /\ known \subseteq R

StoresOK ==
  /\ made \in Nat
  /\ FunOn(life, Docs) /\ FunOn(rasters, Docs) /\ FunOn(next, Docs) /\ FunOn(told, Docs)
  /\ \A d \in Docs : StoreOK(rasters[d], next[d], told[d], made)
  /\ \A d \in Docs : life[d] = "new" => rasters[d] = {}

StackOK(s, R) ==
  /\ s = [ops |-> s.ops, cursor |-> s.cursor]
  /\ List(s.ops) /\ s.cursor \in 0 .. Len(s.ops)
  /\ AllKnown(s.ops, R)

StacksOK == FunOn(stack, Docs) /\ \A d \in Docs : StackOK(stack[d], rasters[d])

DevelopedOK(c) == c = None \/ c.pixels = c.balance

BaseOK(c) == c = None \/ c.pixels = [source |-> c.balance, shape |-> Shape(c.plan)]

FittedOK(c, k, R) ==
  /\ c = [plan |-> c.plan, held |-> c.held]
  /\ \A p \in c.held : \E r \in R : r.kind = k /\ p = Sized(r, c.plan)

CachesOK ==
  /\ FunOn(developed, Docs) /\ FunOn(base, Docs) /\ FunOn(fitted, Docs)
  /\ \A d \in Docs : DevelopedOK(developed[d]) /\ BaseOK(base[d]) /\ FunOn(fitted[d], Kinds)
  /\ \A d \in Docs : \A k \in Kinds : FittedOK(fitted[d][k], k, rasters[d])

WorkRecord(w) ==
  w = [kind |-> w.kind, step |-> w.step, doc |-> w.doc, ops |-> w.ops, plan |-> w.plan,
       balance |-> w.balance, pixels |-> w.pixels, found |-> w.found, drawn |-> w.drawn]

Developed(w) == w.pixels = [source |-> w.balance, shape |-> Shape(w.plan)]

Drew(w, R) == w.drawn = Pictures(w, "mask", R) \cup Pictures(w, "patch", R)

PreviewOK(w, R) ==
  /\ w.step \in {"base", "decode", "keep", "mask", "patch", "done"}
  /\ w.step \in {"keep", "mask", "patch", "done"} => Developed(w)
  /\ w.step \in {"base", "decode", "keep", "mask"} => w.drawn = {}
  /\ w.step = "patch" => w.drawn = Pictures(w, "mask", R)
  /\ w.step = "done" => Drew(w, R)
  /\ w.found # None => /\ w.step \in Kinds
                       /\ Pictures(w, w.step, R) = {w.found}
                       /\ \E r \in R : r.kind = w.step /\ w.found = Sized(r, w.plan)

ExportOK(w, R) ==
  /\ w.step \in {"collect", "decode", "done"}
  /\ w.step # "collect" => Drew(w, R)
  /\ w.step = "done" => Developed(w)

MakerOK(w) ==
  /\ w.step \in {"decode", "store"}
  /\ w.kind = "backdrop" => w.step = "store"

SaveRecord(w) ==
  w = [kind |-> w.kind, step |-> w.step, doc |-> w.doc,
       ops |-> w.ops, cursor |-> w.cursor, rasters |-> w.rasters]

SaveOK(w, R) ==
  /\ w.step \in {"pack patches", "pack masks", "write", "writing", "publish"}
  /\ w.cursor \in 0 .. Len(w.ops)
  /\ w.rasters \subseteq R
  /\ w.step # "pack patches" => Known(w.ops, "patch", w.rasters)
  /\ w.step \notin {"pack patches", "pack masks"} => Known(w.ops, "mask", w.rasters)

\* What a worker does, with the rasters and the life of its document.
WorkOK(w, R, lives) ==
  \/ w.kind = "none" /\ w.step = "idle"
  \/ /\ w.kind \in {"preview", "export", "segment", "inpaint", "backdrop", "save"}
     /\ w.doc \in Docs /\ lives[w.doc] # "new"
     /\ List(w.ops) /\ AllKnown(w.ops, R[w.doc])
     /\ w.kind # "save" => WorkRecord(w)
     /\ w.kind = "preview" => PreviewOK(w, R[w.doc])
     /\ w.kind = "export" => ExportOK(w, R[w.doc])
     /\ w.kind \in {"segment", "inpaint", "backdrop"} => MakerOK(w)
     /\ w.kind = "save" => SaveRecord(w) /\ SaveOK(w, R[w.doc])

WorksOK == FunOn(job, Jobs) /\ \A j \in Jobs : WorkOK(job[j], rasters, life)

FileOK(f, m) ==
  \/ f = None
  \/ /\ f.written = "wholly"
     /\ List(f.ops) /\ f.cursor \in 0 .. Len(f.ops)
     /\ ToldApart(f.rasters, m) /\ Bounded(f.rasters)
     /\ AllKnown(f.ops, f.rasters)

OneSaver == \A i, j \in Jobs : job[i].kind = "save" /\ job[j].kind = "save" => i = j

DiskOK ==
  /\ disk = [file |-> disk.file, temp |-> disk.temp]
  /\ FileOK(disk.file, made)
  /\ OneSaver
  /\ \A j \in Jobs : job[j].step = "publish" => disk.temp = Archive(job[j])

IInv == StoresOK /\ StacksOK /\ CachesOK /\ WorksOK /\ DiskOK

-----------------------------------------------------------------------------
(* Functions, lists and greatest numbers.                                  *)

LEMMA SettersDiffer ==
  /\ \A k \in Kinds : Setter[k] \in {"setLayerMask", "setLayerPatch"}
  /\ \A k, l \in Kinds : Setter[k] = Setter[l] => k = l
BY DEF Setter, Kinds

LEMMA IsList == ASSUME NEW S, NEW t \in Seq(S) PROVE List(t)
<1>1. \A i \in 1 .. Len(t) : t[i] \in {t[h] : h \in DOMAIN t}
  OBVIOUS
<1> QED BY <1>1 DEF List

LEMMA Appended ==
  ASSUME NEW s, List(s), NEW c, c \in 0 .. Len(s), NEW op,
         NEW t, t = Append(SubSeq(s, 1, c), op)
  PROVE  List(t) /\ Len(t) = c + 1 /\ t[c + 1] = op /\ \A i \in 1 .. c : t[i] = s[i]
<1> DEFINE S == {s[i] : i \in DOMAIN s} \cup {op}
<1>1. s \in Seq(S)
  BY DEF List
<1>2. op \in S
  OBVIOUS
<1> HIDE DEF S
<1>3. SubSeq(s, 1, c) \in Seq(S) /\ Len(SubSeq(s, 1, c)) = c
      /\ \A i \in 1 .. c : SubSeq(s, 1, c)[i] = s[i]
  BY <1>1
<1>4. t \in Seq(S) /\ Len(t) = c + 1 /\ t[c + 1] = op /\ \A i \in 1 .. c : t[i] = s[i]
  BY <1>2, <1>3
<1> QED BY <1>4, IsList

LEMMA Cut ==
  ASSUME NEW s, List(s), NEW c \in 0 .. Len(s), NEW t, t = SubSeq(s, 1, c)
  PROVE  List(t) /\ Len(t) = c /\ \A i \in 1 .. c : t[i] = s[i]
<1>1. t \in Seq({s[i] : i \in DOMAIN s})
  BY DEF List
<1>2. Len(t) = c /\ \A i \in 1 .. c : t[i] = s[i]
  BY DEF List
<1> QED BY <1>1, <1>2, IsList

Before == {pair \in Nat \X Nat : pair[1] < pair[2]}

LEMMA HasLeast ==
  ASSUME NEW T \in SUBSET Nat, T # {} PROVE \E x \in T : \A y \in T : x <= y
<1>1. IsWellFoundedOn(Before, Nat)
  BY NatLessThanWellFounded DEF OpToRel, Before
<1>2. PICK x \in T : \A y \in T : ~ (<<y, x>> \in Before)
  BY <1>1, WFMin
<1>3. ASSUME NEW y \in T PROVE x <= y
  <2>1. x \in Nat /\ y \in Nat
    OBVIOUS
  <2>2. ~ (y < x)
    BY <1>2, <2>1 DEF Before
  <2> QED BY <2>1, <2>2
<1> QED BY <1>3

LEMMA HasGreatest ==
  ASSUME NEW S \in SUBSET Nat, S # {}, NEW n \in Nat, \A s \in S : s <= n
  PROVE  Max(S) \in S /\ \A s \in S : s <= Max(S)
<1> DEFINE T == {m \in Nat : \A s \in S : s <= m}
<1>1. PICK m \in T : \A y \in T : m <= y
  BY HasLeast
<1>2. m \in Nat /\ \A s \in S : s \in Nat /\ s <= m
  OBVIOUS
<1>3. m \in S
  <2>1. CASE m = 0
    <3>1. PICK s \in S : TRUE
      OBVIOUS
    <3>2. s = m
      BY <2>1, <1>2
    <3> QED BY <3>2
  <2>2. CASE m # 0 /\ m \notin S
    <3>1. \A s \in S : s <= m - 1
      BY <2>2, <1>2
    <3>2. m - 1 \in T
      BY <2>2, <1>2, <3>1
    <3> QED BY <3>2, <1>1, <1>2
  <2> QED BY <2>1, <2>2
<1>4. Max(S) \in S /\ \A s \in S : Max(S) >= s
  BY <1>2, <1>3 DEF Max
<1> QED BY <1>4, <1>2

\* Restored numbers are all below the next one.
LEMMA AfterIsAbove ==
  ASSUME NEW numbers \in SUBSET Nat, NEW b \in Nat, \A n \in numbers : n <= b
  PROVE  After(numbers) \in Nat /\ \A n \in numbers : n < After(numbers)
<1> DEFINE S == {1} \cup {n + 1 : n \in numbers}
<1>1. S \in SUBSET Nat /\ S # {} /\ \A s \in S : s <= b + 1
  OBVIOUS
<1> HIDE DEF S
<1>n. b + 1 \in Nat
  OBVIOUS
<1>2. Max(S) \in S /\ \A s \in S : s <= Max(S)
  <2> DEFINE top == b + 1
  <2>1. top \in Nat /\ \A s \in S : s <= top
    BY <1>1, <1>n
  <2> HIDE DEF top
  <2> QED BY <1>1, <2>1, HasGreatest
<1>3. \A n \in numbers : n + 1 <= Max(S)
  BY <1>2 DEF S
<1>4. Max(S) \in Nat
  BY <1>1, <1>2
<1>5. After(numbers) = Max(S)
  BY DEF After, S
<1> QED BY <1>3, <1>4, <1>5

-----------------------------------------------------------------------------
(* What is known stays known, and draws what it drew.                      *)

LEMMA KnownGrows ==
  ASSUME NEW ops, NEW R, NEW Q, R \subseteq Q, NEW k, Known(ops, k, R)
  PROVE  Known(ops, k, Q)
BY DEF Known

LEMMA AllKnownGrows ==
  ASSUME NEW ops, NEW R, NEW Q, R \subseteq Q, AllKnown(ops, R)
  PROVE  AllKnown(ops, Q)
BY KnownGrows DEF AllKnown

LEMMA ActiveIsKnown ==
  ASSUME NEW s, NEW R, StackOK(s, R), NEW t, t = SubSeq(s.ops, 1, s.cursor)
  PROVE  List(t) /\ AllKnown(t, R)
<1>0. List(s.ops) /\ s.cursor \in 0 .. Len(s.ops) /\ AllKnown(s.ops, R)
  BY DEF StackOK
<1>1. List(t) /\ Len(t) = s.cursor /\ \A i \in 1 .. s.cursor : t[i] = s.ops[i]
  <2> DEFINE o == s.ops
             c == s.cursor
  <2>1. List(o) /\ c \in 0 .. Len(o) /\ t = SubSeq(o, 1, c)
    BY <1>0
  <2> HIDE DEF o, c
  <2>2. List(t) /\ Len(t) = c /\ \A i \in 1 .. c : t[i] = o[i]
    BY <2>1, Cut
  <2> QED BY <2>2 DEF o, c
<1>2. DOMAIN t = 1 .. s.cursor /\ 1 .. s.cursor \subseteq DOMAIN s.ops
  BY <1>0, <1>1 DEF List
<1>3. ASSUME NEW k \in Kinds PROVE Known(t, k, R)
  <2>1. Known(s.ops, k, R)
    BY <1>0 DEF AllKnown
  <2>2. \A i \in DOMAIN t : i \in DOMAIN s.ops /\ t[i] = s.ops[i]
    BY <1>1, <1>2
  <2>3. ASSUME NEW i \in DOMAIN t, t[i].kind = Setter[k]
        PROVE  \E r \in R : r.kind = k /\ Names(t[i], r) /\ t[i].natural = r.natural
    <3> DEFINE op == s.ops[i]
    <3>1. t[i] = op /\ i \in DOMAIN s.ops
      BY <2>2
    <3>2. op.kind = Setter[k]
      BY <2>3, <3>1
    <3>3. \E r \in R : r.kind = k /\ Names(op, r) /\ op.natural = r.natural
      BY <2>1, <3>1, <3>2 DEF Known
    <3> HIDE DEF op
    <3> QED BY <3>1, <3>3
  <2> QED BY <2>3 DEF Known
<1> QED BY <1>1, <1>3 DEF AllKnown

\* Rasters that came since are not what any operation meant.
Since(Q, R, m) == R \subseteq Q /\ \A r \in Q \ R : r.which \in Nat /\ m < r.which

LEMMA PicturesStay ==
  ASSUME NEW w, NEW R, NEW Q, NEW m \in Nat, Since(Q, R, m), ToldApart(R, m),
         AllKnown(w.ops, R), NEW k \in Kinds
  PROVE  Pictures(w, k, Q) = Pictures(w, k, R)
<1>1. ASSUME NEW r \in Q, NEW op \in Layered(w.ops, k), op.which = r.which
      PROVE  r \in R
  <2>1. PICK i \in DOMAIN w.ops : op = w.ops[i] /\ w.ops[i].kind = Setter[k]
    BY DEF Layered
  <2>2. PICK s \in R : Names(op, s)
    BY <2>1 DEF AllKnown, Known
  <2>3. op.which = s.which /\ s.which \in Nat /\ s.which <= m
    BY <2>2 DEF Names, ToldApart
  <2> QED BY <2>3, <1>1 DEF Since
<1>2. R \subseteq Q
  BY DEF Since
<1> QED BY <1>1, <1>2 DEF Pictures

LEMMA WorkStays ==
  ASSUME NEW w, NEW R, NEW Q, NEW lives, NEW later, NEW m \in Nat,
         WorkOK(w, R, lives),
         \A d \in Docs : ToldApart(R[d], m),
         \A d \in Docs : lives[d] # "new" => Since(Q[d], R[d], m) /\ later[d] # "new"
  PROVE  WorkOK(w, Q, later)
<1>1. CASE w.kind = "none" /\ w.step = "idle"
  BY <1>1 DEF WorkOK
<1>2. CASE ~ (w.kind = "none" /\ w.step = "idle")
  <2> DEFINE mine == R[w.doc]
             now  == Q[w.doc]
  <2>1. /\ w.kind \in {"preview", "export", "segment", "inpaint", "backdrop", "save"}
        /\ w.doc \in Docs /\ later[w.doc] # "new" /\ List(w.ops) /\ AllKnown(w.ops, mine)
        /\ w.kind # "save" => WorkRecord(w)
        /\ w.kind = "preview" => PreviewOK(w, mine)
        /\ w.kind = "export" => ExportOK(w, mine)
        /\ w.kind \in {"segment", "inpaint", "backdrop"} => MakerOK(w)
        /\ w.kind = "save" => SaveRecord(w) /\ SaveOK(w, mine)
    BY <1>2 DEF WorkOK
  <2>2. Since(now, mine, m) /\ ToldApart(mine, m)
    BY <1>2 DEF WorkOK
  <2> HIDE DEF mine, now
  <2>3. mine \subseteq now
    BY <2>2 DEF Since
  <2>4. AllKnown(w.ops, now)
    <3> DEFINE ops == w.ops
    <3>1. AllKnown(ops, mine)
      BY <2>1
    <3> HIDE DEF ops
    <3>2. AllKnown(ops, now)
      BY <3>1, <2>3, AllKnownGrows
    <3> QED BY <3>2 DEF ops
  <2>5. \A k \in Kinds : Pictures(w, k, now) = Pictures(w, k, mine)
    BY <2>1, <2>2, PicturesStay
  <2>6. "mask" \in Kinds /\ "patch" \in Kinds
    BY DEF Kinds
  <2>7. w.kind = "preview" => PreviewOK(w, now)
    BY <2>1, <2>3, <2>5, <2>6 DEF PreviewOK, Drew
  <2>8. w.kind = "export" => ExportOK(w, now)
    BY <2>1, <2>5, <2>6 DEF ExportOK, Drew
  <2>9. w.kind = "save" => SaveRecord(w) /\ SaveOK(w, now)
    BY <2>1, <2>3 DEF SaveOK
  <2> QED BY <2>1, <2>4, <2>7, <2>8, <2>9 DEF WorkOK, now
<1> QED BY <1>1, <1>2

-----------------------------------------------------------------------------
(* Parts of the state that a step leaves alone.                            *)

LEMMA StoresStay ==
  ASSUME StoresOK, UNCHANGED <<life, storeVars, told, made>> PROVE StoresOK'
BY DEF StoresOK, storeVars

LEMMA StacksStay ==
  ASSUME StacksOK, UNCHANGED <<stack, rasters>> PROVE StacksOK'
BY DEF StacksOK

LEMMA CachesStay ==
  ASSUME CachesOK, UNCHANGED <<cacheVars, rasters>> PROVE CachesOK'
BY DEF CachesOK, cacheVars

\* Rasters and documents only come.
Grown ==
  \A d \in Docs : life[d] # "new" => Since(rasters'[d], rasters[d], made) /\ life'[d] # "new"

LEMMA NothingGrew == ASSUME UNCHANGED <<life, rasters>> PROVE Grown
BY DEF Grown, Since

LEMMA WorksStay ==
  ASSUME StoresOK, WorksOK, Grown, UNCHANGED job PROVE WorksOK'
<1>1. \A d \in Docs : ToldApart(rasters[d], made)
  BY DEF StoresOK, StoreOK
<1>2. made \in Nat
  BY DEF StoresOK
<1>3. ASSUME NEW i \in Jobs PROVE WorkOK(job[i], rasters', life')
  <2>1. WorkOK(job[i], rasters, life)
    BY DEF WorksOK
  <2> QED BY <1>1, <1>2, <2>1, WorkStays DEF Grown
<1> QED BY <1>3 DEF WorksOK

LEMMA OneWorks ==
  ASSUME StoresOK, WorksOK, Grown, NEW j \in Jobs, NEW w, Becomes(j, w),
         WorkOK(w, rasters', life')
  PROVE  /\ WorksOK'
         /\ job'[j] = w /\ \A i \in Jobs : i # j => job'[i] = job[i]
<1>1. \A d \in Docs : ToldApart(rasters[d], made)
  BY DEF StoresOK, StoreOK
<1>2. made \in Nat
  BY DEF StoresOK
<1>3. FunOn(job', Jobs) /\ job'[j] = w /\ \A i \in Jobs : i # j => job'[i] = job[i]
  <2>1. FunOn(job, Jobs) /\ job' = [job EXCEPT ![j] = w]
    BY DEF WorksOK, Becomes
  <2> QED BY <2>1 DEF FunOn
<1>4. ASSUME NEW i \in Jobs PROVE WorkOK(job'[i], rasters', life')
  <2>1. WorkOK(job[i], rasters, life)
    BY DEF WorksOK
  <2>2. WorkOK(job[i], rasters', life')
    BY <1>1, <1>2, <2>1, WorkStays DEF Grown
  <2>3. CASE i = j
    BY <2>3, <1>3
  <2>4. CASE i # j
    BY <2>2, <2>4, <1>3
  <2> QED BY <2>3, <2>4
<1> QED BY <1>3, <1>4 DEF WorksOK

\* The disk, when whoever works neither saves nor saved.
LEMMA FileStays ==
  ASSUME NEW f, NEW m \in Nat, NEW n \in Nat, m <= n, FileOK(f, m) PROVE FileOK(f, n)
BY DEF FileOK, ToldApart

LEMMA DiskStays ==
  ASSUME StoresOK, DiskOK, NEW j \in Jobs, NEW w, UNCHANGED disk,
         made' \in Nat, made <= made',
         job'[j] = w, \A i \in Jobs : i # j => job'[i] = job[i],
         w.kind = "save" => job[j].kind = "save" \/ \A i \in Jobs : job[i].kind # "save",
         w.step # "publish"
  PROVE  DiskOK'
<1>1. FileOK(disk'.file, made')
  <2>1. FileOK(disk.file, made) /\ made \in Nat
    BY DEF DiskOK, StoresOK
  <2> QED BY <2>1, FileStays
<1>2. OneSaver'
  BY DEF DiskOK, OneSaver
<1>3. \A i \in Jobs : job'[i].step = "publish" => disk'.temp = Archive(job'[i])
  BY DEF DiskOK
<1> QED BY <1>1, <1>2, <1>3 DEF DiskOK

\* Nothing but what one worker does.
OnlyWork == UNCHANGED <<life, stack, storeVars, cacheVars, told, disk, made>>

LEMMA WorkerStep ==
  ASSUME IInv, NEW j \in Jobs, NEW w, Becomes(j, w), OnlyWork, WorkOK(w, rasters, life),
         w.kind = "save" => job[j].kind = "save" \/ \A i \in Jobs : job[i].kind # "save",
         w.step # "publish"
  PROVE  IInv'
<1>1. StoresOK' /\ StacksOK' /\ CachesOK'
  BY StoresStay, StacksStay, CachesStay DEF IInv, OnlyWork, storeVars, cacheVars
<1>2. Grown /\ WorkOK(w, rasters', life') /\ made' = made /\ made \in Nat
  BY NothingGrew DEF IInv, OnlyWork, storeVars, StoresOK
<1>3. /\ WorksOK' 
      /\ job'[j] = w /\ \A i \in Jobs : i # j => job'[i] = job[i]
  BY <1>2, OneWorks DEF IInv
<1>4. DiskOK'
  BY <1>2, <1>3, DiskStays DEF IInv, OnlyWork
<1> QED BY <1>1, <1>3, <1>4 DEF IInv

LEMMA DiskSame ==
  ASSUME StoresOK, DiskOK, UNCHANGED <<disk, job>>, made' \in Nat, made <= made' PROVE DiskOK'
<1>1. FileOK(disk.file, made) /\ made \in Nat
  BY DEF DiskOK, StoresOK
<1>2. FileOK(disk'.file, made')
  BY <1>1, FileStays
<1> QED BY <1>2 DEF DiskOK, OneSaver

-----------------------------------------------------------------------------
(* The reader thread.                                                      *)

LEMMA StackStep ==
  ASSUME IInv, NEW d \in Docs, NEW s, stack' = [stack EXCEPT ![d] = s],
         StackOK(s, rasters[d]),
         UNCHANGED <<life, storeVars, cacheVars, told, job, disk, made>>
  PROVE  IInv'
<1>1. StoresOK' /\ CachesOK'
  BY StoresStay, CachesStay DEF IInv, storeVars, cacheVars
<1>2. WorksOK'
  BY NothingGrew, WorksStay DEF IInv, storeVars
<1>3. DiskOK'
  <2>1. made \in Nat /\ made' = made
    BY DEF IInv, StoresOK
  <2> QED BY <2>1, DiskSame DEF IInv
<1>4. StacksOK'
  <2>1. FunOn(stack, Docs)
    BY DEF IInv, StacksOK
  <2>2. FunOn(stack', Docs) /\ stack'[d] = s /\ \A c \in Docs : c # d => stack'[c] = stack[c]
    BY <2>1 DEF FunOn
  <2>3. rasters' = rasters
    BY DEF storeVars
  <2> QED BY <2>2, <2>3 DEF IInv, StacksOK
<1> QED BY <1>1, <1>2, <1>3, <1>4 DEF IInv

LEMMA ApplyStep ==
  ASSUME IInv, NEW d \in Docs, NEW op, Apply(d, op),
         \A k \in Kinds : op.kind = Setter[k] =>
           \E r \in rasters[d] : r.kind = k /\ Names(op, r) /\ op.natural = r.natural
  PROVE  IInv'
<1> DEFINE ops == stack[d].ops
           c == stack[d].cursor
           R == rasters[d]
           t == Append(SubSeq(ops, 1, c), op)
           s == [ops |-> t, cursor |-> c + 1]
<1>1. List(ops) /\ c \in 0 .. Len(ops) /\ AllKnown(ops, R)
  BY DEF IInv, StacksOK, StackOK
<1>2. \A k \in Kinds : op.kind = Setter[k] =>
         \E r \in R : r.kind = k /\ Names(op, r) /\ op.natural = r.natural
  OBVIOUS
<1>3. stack' = [stack EXCEPT ![d] = s]
  BY DEF Apply, Active
<1>4. StackOK(s, R)
  <2> HIDE DEF ops, c, R
  <2>0. t = Append(SubSeq(ops, 1, c), op)
    OBVIOUS
  <2> HIDE DEF t
  <2>a. List(ops) /\ c \in 0 .. Len(ops)
    BY <1>1
  <2>b. \A i \in 1 .. c : t[i] = ops[i]
    BY <2>a, <2>0, Appended
  <2>1. List(t) /\ Len(t) = c + 1 /\ t[c + 1] = op /\ \A i \in 1 .. c : t[i] = ops[i]
    <3>1. List(t)
      BY <2>a, <2>0, Appended
    <3>2. Len(t) = c + 1
      BY <2>a, <2>0, Appended
    <3>3. t[c + 1] = op
      BY <2>a, <2>0, Appended
    <3> QED BY <3>1, <3>2, <3>3, <2>b
  <2>2. DOMAIN t = 1 .. c + 1 /\ \A i \in 1 .. c : i \in DOMAIN ops
    BY <1>1, <2>1 DEF List
  <2>3. ASSUME NEW k \in Kinds, NEW i \in DOMAIN t, t[i].kind = Setter[k]
        PROVE  \E r \in R : r.kind = k /\ Names(t[i], r) /\ t[i].natural = r.natural
    <3>1. CASE i = c + 1
      BY <3>1, <2>1, <2>3, <1>2
    <3>2. CASE i \in 1 .. c
      <4> DEFINE o == ops[i]
      <4>1. t[i] = o /\ o.kind = Setter[k] /\ i \in DOMAIN ops
        BY <3>2, <2>1, <2>2, <2>3
      <4>2. \E r \in R : r.kind = k /\ Names(o, r) /\ o.natural = r.natural
        BY <4>1, <1>1 DEF AllKnown, Known
      <4> HIDE DEF o
      <4> QED BY <4>1, <4>2
    <3> QED BY <1>1, <2>2, <3>1, <3>2
  <2>4. AllKnown(t, R)
    BY <2>3 DEF AllKnown, Known
  <2>5. c + 1 \in 0 .. Len(t)
    BY <1>1, <2>1 DEF List
  <2> QED BY <2>1, <2>4, <2>5 DEF StackOK
<1> HIDE DEF s
<1>5. UNCHANGED <<life, storeVars, cacheVars, told, job, disk, made>>
  BY DEF Apply
<1> QED BY <1>3, <1>4, <1>5, StackStep

LEMMA SeekStep == ASSUME IInv, NEW d \in Docs, Seek(d) PROVE IInv'
<1>1. PICK c \in 0 .. Len(stack[d].ops) : stack' = [stack EXCEPT ![d].cursor = c]
  BY DEF Seek
<1> DEFINE s == [stack[d] EXCEPT !.cursor = c]
<1>2. stack' = [stack EXCEPT ![d] = s]
  BY <1>1
<1>3. StackOK(stack[d], rasters[d])
  BY DEF IInv, StacksOK
<1>4. s = [ops |-> stack[d].ops, cursor |-> c]
  BY <1>3 DEF StackOK
<1>5. StackOK(s, rasters[d])
  BY <1>1, <1>3, <1>4 DEF StackOK
<1> HIDE DEF s
<1>6. UNCHANGED <<life, storeVars, cacheVars, told, job, disk, made>>
  BY DEF Seek
<1> QED BY <1>2, <1>5, <1>6, StackStep

LEMMA CloseStep == ASSUME IInv, NEW d \in Docs, CloseImage(d) PROVE IInv'
<1>1. UNCHANGED <<stack, storeVars, cacheVars, told, job, disk, made>>
  BY DEF CloseImage, countVars
<1>2. FunOn(life', Docs) /\ life'[d] = "closed" /\ \A c \in Docs : c # d => life'[c] = life[c]
  <2>1. FunOn(life, Docs) /\ life' = [life EXCEPT ![d] = "closed"]
    BY DEF IInv, StoresOK, CloseImage
  <2> QED BY <2>1 DEF FunOn
<1>3. StoresOK'
  BY <1>1, <1>2 DEF IInv, StoresOK, storeVars
<1>4. StacksOK' /\ CachesOK'
  BY <1>1, StacksStay, CachesStay DEF IInv, storeVars
<1>5. Grown
  BY <1>1, <1>2 DEF Grown, Since, storeVars
<1>6. WorksOK'
  BY <1>1, <1>5, WorksStay DEF IInv
<1>7. DiskOK'
  <2>1. made \in Nat /\ made' = made
    BY <1>1 DEF IInv, StoresOK
  <2> QED BY <1>1, <2>1, DiskSame DEF IInv
<1> QED BY <1>3, <1>4, <1>6, <1>7 DEF IInv

LEMMA StoredStep ==
  ASSUME IInv, NEW d \in Docs, NEW k \in Kinds, NEW natural, NEW measured,
         Stored(d, k, natural, measured), life[d] # "new",
         UNCHANGED <<life, stack, developed, base>>
  PROVE  /\ StoresOK' /\ StacksOK' /\ CachesOK'
         /\ Grown /\ made' \in Nat /\ made <= made'
<1> DEFINE r == [kind |-> k, id |-> next[d][k], which |-> made + 1,
                 natural |-> natural, measured |-> measured]
           R == rasters[d]
           Q == R \cup {r}
<1>1. /\ made \in Nat /\ made' = made + 1
      /\ FunOn(rasters, Docs) /\ FunOn(next, Docs) /\ FunOn(told, Docs) /\ FunOn(fitted, Docs)
      /\ StoreOK(R, next[d], told[d], made)
  BY DEF IInv, StoresOK, CachesOK, Stored
<1>2. r.kind = k /\ r.id = next[d][k] /\ r.which = made + 1
  OBVIOUS
<1>3. rasters' = [rasters EXCEPT ![d] = {s \in @ : <<s.kind, s.id>> # <<r.kind, r.id>>} \cup {r}]
      /\ next' = [next EXCEPT ![d] = [next[d] EXCEPT ![k] = next[d][k] + 1]]
      /\ told' = [told EXCEPT ![d] = told[d] \cup {r}]
      /\ fitted' = [fitted EXCEPT ![d] = [fitted[d] EXCEPT ![k] = [fitted[d][k] EXCEPT !.held = {}]]]
  BY DEF Stored
<1> HIDE DEF r
<1>4. \A s \in R : s.kind = k => s.id # r.id
  BY <1>1, <1>2 DEF StoreOK, ToldApart
<1>5. {s \in R : <<s.kind, s.id>> # <<r.kind, r.id>>} \cup {r} = Q
  BY <1>2, <1>4
<1>6. FunOn(rasters', Docs) /\ rasters'[d] = Q /\ \A c \in Docs : c # d => rasters'[c] = rasters[c]
  <2>1. rasters' = [rasters EXCEPT ![d] = Q]
    BY <1>3, <1>5
  <2> HIDE DEF Q
  <2> QED BY <1>1, <2>1 DEF FunOn
<1>7. /\ FunOn(next', Docs) /\ \A c \in Docs : c # d => next'[c] = next[c]
      /\ next'[d] = [next[d] EXCEPT ![k] = next[d][k] + 1]
  BY <1>1, <1>3 DEF FunOn
<1>8. /\ FunOn(told', Docs) /\ \A c \in Docs : c # d => told'[c] = told[c]
      /\ told'[d] = told[d] \cup {r}
  BY <1>1, <1>3 DEF FunOn
<1>9. StoreOK(Q, next'[d], told'[d], made + 1)
  <2>1. ToldApart(R, made) /\ told[d] \subseteq R /\ FunOn(next[d], Kinds)
        /\ (\A q \in Kinds : next[d][q] \in Nat) /\ \A s \in R : s.id < next[d][s.kind]
    BY <1>1 DEF StoreOK
  <2>2. \A s \in R : /\ s.kind \in Kinds /\ s.id \in Nat /\ s.which \in Nat /\ s.which <= made
    BY <2>1 DEF ToldApart
  <2>3. \A s, q \in R : s.kind = q.kind /\ (s.id = q.id \/ s.which = q.which) => s = q
    BY <2>1 DEF ToldApart
  <2>4. \A s \in R : s.which # r.which
    BY <2>2, <1>1, <1>2
  <2>5. \A s \in Q : s.kind \in Kinds /\ s.id \in Nat /\ s.which \in Nat /\ s.which <= made + 1
    BY <2>1, <2>2, <1>1, <1>2
  <2>6. \A s, q \in Q : s.kind = q.kind /\ (s.id = q.id \/ s.which = q.which) => s = q
    BY <2>3, <2>4, <1>2, <1>4
  <2>7. ToldApart(Q, made + 1)
    BY <2>5, <2>6 DEF ToldApart
  <2>8. FunOn(next'[d], Kinds) /\ next'[d][k] = next[d][k] + 1
        /\ \A q \in Kinds : q # k => next'[d][q] = next[d][q]
    BY <2>1, <1>7 DEF FunOn
  <2>9. \A q \in Kinds : next'[d][q] \in Nat
    BY <2>1, <2>8
  <2>10. \A s \in Q : s.id < next'[d][s.kind]
    BY <2>1, <2>2, <2>8, <1>2
  <2> QED BY <2>1, <2>7, <2>8, <2>9, <2>10, <1>8 DEF StoreOK
<1> HIDE DEF Q
<1>10. \A c \in Docs : StoreOK(rasters'[c], next'[c], told'[c], made')
  <2>1. ASSUME NEW c \in Docs, c # d PROVE StoreOK(rasters[c], next[c], told[c], made + 1)
    <3>1. StoreOK(rasters[c], next[c], told[c], made)
      BY DEF IInv, StoresOK
    <3> QED BY <3>1, <1>1 DEF StoreOK, ToldApart
  <2> QED BY <2>1, <1>1, <1>6, <1>7, <1>8, <1>9
<1>11. StoresOK'
  <2>1. FunOn(life', Docs) /\ \A c \in Docs : life'[c] = "new" => rasters'[c] = {}
    BY <1>6 DEF IInv, StoresOK
  <2> QED BY <2>1, <1>1, <1>6, <1>7, <1>8, <1>10 DEF StoresOK
<1>12. \A c \in Docs : rasters[c] \subseteq rasters'[c]
  BY <1>6 DEF Q
<1>13. Grown
  <2>1. r.which \in Nat /\ made < r.which
    BY <1>1, <1>2
  <2>2. Since(Q, R, made)
    BY <2>1 DEF Since, Q
  <2> QED BY <2>2, <1>6 DEF Grown, Since
<1>14. StacksOK'
  <2>1. ASSUME NEW c \in Docs PROVE StackOK(stack[c], rasters'[c])
    <3>1. StackOK(stack[c], rasters[c])
      BY DEF IInv, StacksOK
    <3> DEFINE ops == stack[c].ops
    <3>2. AllKnown(ops, rasters[c])
      BY <3>1 DEF StackOK
    <3> HIDE DEF ops
    <3>3. AllKnown(ops, rasters'[c])
      BY <3>2, <1>12, AllKnownGrows
    <3> QED BY <3>1, <3>3 DEF StackOK, ops
  <2> QED BY <2>1 DEF IInv, StacksOK
<1>15. CachesOK'
  <2>1. FunOn(fitted', Docs) /\ (\A c \in Docs : c # d => fitted'[c] = fitted[c])
        /\ fitted'[d] = [fitted[d] EXCEPT ![k] = [fitted[d][k] EXCEPT !.held = {}]]
    BY <1>1, <1>3 DEF FunOn
  <2>2. FunOn(fitted[d], Kinds) /\ FittedOK(fitted[d][k], k, R)
    BY DEF IInv, CachesOK
  <2>3. FunOn(fitted'[d], Kinds) /\ fitted'[d][k] = [fitted[d][k] EXCEPT !.held = {}]
        /\ \A q \in Kinds : q # k => fitted'[d][q] = fitted[d][q]
    BY <2>1, <2>2 DEF FunOn
  <2>4. fitted'[d][k] = [plan |-> fitted[d][k].plan, held |-> {}]
    BY <2>2, <2>3 DEF FittedOK
  <2>5. FittedOK(fitted'[d][k], k, rasters'[d])
    BY <2>4 DEF FittedOK
  <2>6. ASSUME NEW c \in Docs, NEW q \in Kinds, c # d \/ q # k
        PROVE  FittedOK(fitted'[c][q], q, rasters'[c])
    <3>1. FittedOK(fitted[c][q], q, rasters[c])
      BY DEF IInv, CachesOK
    <3>2. fitted'[c][q] = fitted[c][q]
      BY <2>1, <2>3, <2>6
    <3> QED BY <3>1, <3>2, <1>12 DEF FittedOK
  <2>7. \A c \in Docs : \A q \in Kinds : FittedOK(fitted'[c][q], q, rasters'[c])
    BY <2>5, <2>6
  <2>8. \A c \in Docs : FunOn(fitted'[c], Kinds)
    BY <2>1, <2>3 DEF IInv, CachesOK
  <2>9. /\ FunOn(developed', Docs) /\ FunOn(base', Docs)
        /\ \A c \in Docs : DevelopedOK(developed'[c]) /\ BaseOK(base'[c])
    BY DEF IInv, CachesOK
  <2> QED BY <2>1, <2>7, <2>8, <2>9 DEF CachesOK
<1>16. made' \in Nat /\ made <= made'
  BY <1>1
<1> QED BY <1>11, <1>13, <1>14, <1>15, <1>16

LEMMA PaintStep == ASSUME IInv, NEW d \in Docs, PaintMask(d) PROVE IInv'
<1> DEFINE here == Natural(GeometryOf(Active(d)))
<1>1. Stored(d, "mask", here, here) /\ life[d] # "new"
      /\ UNCHANGED <<life, stack, developed, base, job, disk>>
  BY DEF PaintMask, open
<1> HIDE DEF here
<1>2. "mask" \in Kinds
  BY DEF Kinds
<1>3. /\ StoresOK' /\ StacksOK' /\ CachesOK'
      /\ Grown /\ made' \in Nat /\ made <= made'
  BY <1>1, <1>2, StoredStep
<1>4. WorksOK'
  BY <1>1, <1>3, WorksStay DEF IInv
<1>5. DiskOK'
  BY <1>1, <1>3, DiskSame DEF IInv
<1> QED BY <1>3, <1>4, <1>5 DEF IInv

-----------------------------------------------------------------------------
(* Renders.                                                                *)

\* A worker that changes a cache too.
LEMMA CacheStep ==
  ASSUME IInv, NEW j \in Jobs, NEW w, Becomes(j, w), CachesOK',
         UNCHANGED <<life, stack, storeVars, told, disk, made>>,
         WorkOK(w, rasters, life), w.kind # "save", w.step # "publish"
  PROVE  IInv'
<1>1. StoresOK' /\ StacksOK'
  BY StoresStay, StacksStay DEF IInv, storeVars
<1>2. Grown /\ WorkOK(w, rasters', life') /\ made' = made /\ made \in Nat
  BY NothingGrew DEF IInv, storeVars, StoresOK
<1>3. /\ WorksOK'
      /\ job'[j] = w /\ \A i \in Jobs : i # j => job'[i] = job[i]
  BY <1>2, OneWorks DEF IInv
<1>4. DiskOK'
  BY <1>2, <1>3, DiskStays DEF IInv
<1> QED BY <1>1, <1>3, <1>4 DEF IInv

\* What a worker's record becomes, when it goes on with the same work.
GoesOn(w, v) ==
  v = [kind |-> w.kind, step |-> v.step, doc |-> w.doc, ops |-> w.ops, plan |-> w.plan,
       balance |-> w.balance, pixels |-> v.pixels, found |-> v.found, drawn |-> v.drawn]

LEMMA SamePictures ==
  ASSUME NEW w, NEW v, GoesOn(w, v), NEW k, NEW R
  PROVE  Pictures(v, k, R) = Pictures(w, k, R)
BY DEF GoesOn, Pictures

LEMMA WorkGoesOn ==
  ASSUME NEW w, NEW v, NEW R, NEW lives, WorkOK(w, R, lives), GoesOn(w, v),
         w.kind \in {"preview", "export", "segment", "inpaint", "backdrop"},
         w.kind = "preview" => PreviewOK(v, R[w.doc]),
         w.kind = "export" => ExportOK(v, R[w.doc]),
         w.kind \in {"segment", "inpaint", "backdrop"} => MakerOK(v)
  PROVE  WorkOK(v, R, lives)
<1>1. v.kind = w.kind /\ v.doc = w.doc /\ v.ops = w.ops /\ WorkRecord(v)
  BY DEF GoesOn, WorkRecord
<1>2. w.doc \in Docs /\ lives[w.doc] # "new" /\ List(w.ops) /\ AllKnown(w.ops, R[w.doc])
  BY DEF WorkOK
<1> QED BY <1>1, <1>2 DEF WorkOK

LEMMA StartStep ==
  ASSUME IInv, NEW j \in Jobs, NEW d \in open, NEW limit, NEW kind, NEW step,
         Begin(j, Working(kind, step, d, limit)),
         \/ kind = "preview" /\ step = "base"
         \/ kind = "export" /\ step = "collect"
         \/ kind \in {"segment", "inpaint"} /\ step = "decode"
         \/ kind = "backdrop" /\ step = "store"
  PROVE  IInv'
<1> DEFINE ops == Active(d)
           w == Working(kind, step, d, limit)
<1>1. d \in Docs /\ life[d] # "new"
  BY DEF open
<1>2. List(ops) /\ AllKnown(ops, rasters[d])
  <2>1. StackOK(stack[d], rasters[d])
    BY <1>1 DEF IInv, StacksOK
  <2>2. ops = SubSeq(stack[d].ops, 1, stack[d].cursor)
    BY DEF Active
  <2> HIDE DEF ops
  <2> QED BY <2>1, <2>2, ActiveIsKnown
<1>3. /\ w.kind = kind /\ w.step = step /\ w.doc = d /\ w.ops = ops
      /\ w.found = None /\ w.drawn = {} /\ WorkRecord(w)
  BY DEF Working, WorkRecord
<1>4. Becomes(j, w) /\ OnlyWork
  BY DEF Begin, OnlyWork
<1> HIDE DEF w, ops
<1>5. WorkOK(w, rasters, life)
  BY <1>1, <1>2, <1>3 DEF WorkOK, PreviewOK, ExportOK, MakerOK
<1>6. w.kind # "save" /\ w.step # "publish"
  BY <1>3
<1> QED BY <1>4, <1>5, <1>6, WorkerStep

\* Fields of a worker's record, changed two or three at a time.
WithPixels(w, st, px) == [w EXCEPT !.step = st, !.pixels = px]
WithDrawing(w, st, fo, dr) == [w EXCEPT !.step = st, !.found = fo, !.drawn = dr]

LEMMA PixelsChange ==
  ASSUME NEW w, WorkRecord(w), NEW st, NEW px, NEW v, v = WithPixels(w, st, px)
  PROVE  GoesOn(w, v) /\ v.step = st /\ v.pixels = px /\ v.found = w.found /\ v.drawn = w.drawn
<1> DEFINE u == [w EXCEPT !.step = st]
<1>1. u = [kind |-> w.kind, step |-> st, doc |-> w.doc, ops |-> w.ops, plan |-> w.plan,
           balance |-> w.balance, pixels |-> w.pixels, found |-> w.found, drawn |-> w.drawn]
  BY DEF WorkRecord
<1>2. v = [u EXCEPT !.pixels = px]
  BY DEF WithPixels
<1> HIDE DEF u
<1>3. v = [kind |-> w.kind, step |-> st, doc |-> w.doc, ops |-> w.ops, plan |-> w.plan,
           balance |-> w.balance, pixels |-> px, found |-> w.found, drawn |-> w.drawn]
  BY <1>1, <1>2
<1> QED BY <1>3 DEF GoesOn

LEMMA DrawingChanges ==
  ASSUME NEW w, WorkRecord(w), NEW st, NEW fo, NEW dr,
         NEW v, v = WithDrawing(w, st, fo, dr)
  PROVE  GoesOn(w, v) /\ v.step = st /\ v.pixels = w.pixels /\ v.found = fo /\ v.drawn = dr
<1> DEFINE u == [w EXCEPT !.step = st]
           t == [u EXCEPT !.found = fo]
<1>1. u = [kind |-> w.kind, step |-> st, doc |-> w.doc, ops |-> w.ops, plan |-> w.plan,
           balance |-> w.balance, pixels |-> w.pixels, found |-> w.found, drawn |-> w.drawn]
  BY DEF WorkRecord
<1>2. v = [t EXCEPT !.drawn = dr]
  BY DEF WithDrawing
<1>3. t = [kind |-> w.kind, step |-> st, doc |-> w.doc, ops |-> w.ops, plan |-> w.plan,
           balance |-> w.balance, pixels |-> w.pixels, found |-> fo, drawn |-> w.drawn]
  <2> HIDE DEF u
  <2> QED BY <1>1
<1> HIDE DEF t
<1>4. v = [kind |-> w.kind, step |-> st, doc |-> w.doc, ops |-> w.ops, plan |-> w.plan,
           balance |-> w.balance, pixels |-> w.pixels, found |-> fo, drawn |-> dr]
  BY <1>2, <1>3
<1> QED BY <1>4 DEF GoesOn

LEMMA MatchesIsShape ==
  ASSUME NEW p, NEW q, Matches(p, q) PROVE Shape(p) = Shape(q) /\ p.size = q.size
BY DEF Matches, Shape

LEMMA FindBaseStep == ASSUME IInv, NEW j \in Jobs, FindBase(j) PROVE IInv'
<1> DEFINE w == job[j]
           b == base[w.doc]
           hit == [w EXCEPT !.step = "mask", !.pixels = b.pixels]
           miss == [w EXCEPT !.step = "decode"]
<1>1. w.step = "base" /\ OnlyWork
  BY DEF FindBase, OnlyWork, countVars
<1>2. WorkOK(w, rasters, life)
  BY DEF IInv, WorksOK
<1>3. w.kind = "preview" /\ w.doc \in Docs /\ WorkRecord(w) /\ PreviewOK(w, rasters[w.doc])
  BY <1>1, <1>2 DEF WorkOK, ExportOK, MakerOK, SaveOK
<1>4. \/ b # None /\ Matches(w.plan, b.plan) /\ b.balance = w.balance /\ Becomes(j, hit)
      \/ Becomes(j, miss)
  BY DEF FindBase
<1>b. BaseOK(b)
  BY <1>3 DEF IInv, CachesOK
<1> HIDE DEF b
<1>5. CASE Becomes(j, miss)
  <2>1. /\ GoesOn(w, miss) /\ miss.step = "decode"
        /\ miss.drawn = w.drawn /\ miss.found = w.found /\ miss.pixels = w.pixels
    BY <1>3 DEF WorkRecord, GoesOn
  <2> HIDE DEF miss
  <2>2. PreviewOK(miss, rasters[w.doc])
    BY <1>1, <1>3, <2>1 DEF PreviewOK, Kinds
  <2>3. WorkOK(miss, rasters, life)
    BY <1>2, <1>3, <2>1, <2>2, WorkGoesOn
  <2>4. miss.kind # "save"
    BY <1>3, <2>1 DEF GoesOn
  <2> QED BY <1>1, <1>5, <2>1, <2>3, <2>4, WorkerStep
<1>6. CASE b # None /\ Matches(w.plan, b.plan) /\ b.balance = w.balance /\ Becomes(j, hit)
  <2>w. WorkRecord(w)
    BY <1>3
  <2> DEFINE px == b.pixels
  <2>p. hit = WithPixels(w, "mask", px)
    BY DEF WithPixels
  <2> HIDE DEF w, hit, px
  <2>1. /\ GoesOn(w, hit) /\ hit.step = "mask"
        /\ hit.drawn = w.drawn /\ hit.found = w.found /\ hit.pixels = px
    BY <2>w, <2>p, PixelsChange
  <2>s. Shape(w.plan) = Shape(b.plan)
    BY <1>6, MatchesIsShape
  <2>3. b.pixels = [source |-> w.balance, shape |-> Shape(w.plan)]
    BY <1>6, <1>b, <2>s DEF BaseOK
  <2>q. px = b.pixels
    BY DEF px
  <2>h. hit.balance = w.balance /\ hit.plan = w.plan
    BY <2>1 DEF GoesOn
  <2>4. Developed(hit)
    BY <2>1, <2>3, <2>q, <2>h DEF Developed
  <2>5. PreviewOK(hit, rasters[w.doc])
    BY <1>1, <1>3, <2>1, <2>4 DEF PreviewOK, Kinds
  <2>6. WorkOK(hit, rasters, life)
    BY <1>2, <1>3, <2>1, <2>5, WorkGoesOn
  <2>7. hit.kind # "save"
    BY <1>3, <2>1 DEF GoesOn
  <2> QED BY <1>1, <1>6, <2>1, <2>6, <2>7, WorkerStep
<1> QED BY <1>4, <1>5, <1>6

\* Whichever way the photograph comes, it is developed for the balance asked for.
LEMMA DevelopedForBalance ==
  ASSUME NEW d, DevelopedOK(developed[d]), NEW balance
  PROVE  DevelopedSource(d, balance) = balance
BY DEF DevelopedSource, DevelopedOK

LEMMA DecodeStep == ASSUME IInv, NEW j \in Jobs, Decode(j) PROVE IInv'
<1> DEFINE w == job[j]
           d == w.doc
           source == DevelopedSource(d, w.balance)
           st == AfterDecode[w.kind]
           px == [source |-> source, shape |-> Shape(w.plan)]
           kept == IF w.balance = None THEN developed[d]
                   ELSE [balance |-> w.balance, pixels |-> source]
           v == WithPixels(w, st, px)
<1>1. w.step = "decode" /\ Becomes(j, v)
      /\ UNCHANGED <<life, stack, storeVars, base, fitted, told, disk, made>>
  BY DEF Decode, WithPixels, countVars
<1>2. WorkOK(w, rasters, life)
  BY DEF IInv, WorksOK
<1>3. w.kind \in {"preview", "export", "segment", "inpaint"} /\ d \in Docs /\ WorkRecord(w)
  BY <1>1, <1>2 DEF WorkOK, MakerOK, SaveOK
<1>4. developed' = [developed EXCEPT ![d] = kept]
  BY DEF Decode
<1>5. DevelopedOK(developed[d])
  BY <1>3 DEF IInv, CachesOK
<1>6. source = w.balance
  BY <1>5, DevelopedForBalance
<1>7. px = [source |-> w.balance, shape |-> Shape(w.plan)]
  BY <1>6
<1>8. DevelopedOK(kept)
  BY <1>5, <1>6 DEF DevelopedOK
<1>9. /\ w.kind = "preview" => st = "keep"
      /\ w.kind = "export" => st = "done"
      /\ w.kind \in {"segment", "inpaint"} => st = "store"
  BY DEF AfterDecode
<1> HIDE DEF source, st, px, kept, v
<1>10. GoesOn(w, v) /\ v.step = st /\ v.pixels = px /\ v.found = w.found /\ v.drawn = w.drawn
  <2>1. v = WithPixels(w, st, px) /\ WorkRecord(w)
    BY <1>3 DEF v
  <2> HIDE DEF w
  <2> QED BY <2>1, PixelsChange
<1>11. CachesOK'
  <2>1. FunOn(developed, Docs)
    BY DEF IInv, CachesOK
  <2>2. FunOn(developed', Docs) /\ \A c \in Docs : developed'[c] = IF c = d THEN kept ELSE developed[c]
    <3> HIDE DEF d
    <3> QED BY <2>1, <1>4 DEF FunOn
  <2>3. \A c \in Docs : DevelopedOK(developed'[c])
    BY <2>2, <1>8 DEF IInv, CachesOK
  <2> QED BY <2>2, <2>3, <1>1 DEF IInv, CachesOK, storeVars
<1>12. v.plan = w.plan /\ v.balance = w.balance /\ v.kind = w.kind /\ v.ops = w.ops
  BY <1>10 DEF GoesOn
<1>13. Developed(v)
  BY <1>7, <1>10, <1>12 DEF Developed
<1>14. WorkOK(v, rasters, life)
  <2>1. w.kind = "preview" => PreviewOK(v, rasters[d])
    <3>1. w.kind = "preview" => PreviewOK(w, rasters[d])
      BY <1>2, <1>3 DEF WorkOK
    <3>2. w.kind = "preview" => v.step = "keep" /\ v.drawn = {} /\ v.found = None
      BY <3>1, <1>1, <1>9, <1>10 DEF PreviewOK, Kinds
    <3> QED BY <3>2, <1>13 DEF PreviewOK
  <2>2. w.kind = "export" => ExportOK(v, rasters[d])
    <3>1. w.kind = "export" => Drew(w, rasters[d])
      BY <1>1, <1>2, <1>3 DEF WorkOK, ExportOK
    <3>2. \A k : Pictures(v, k, rasters[d]) = Pictures(w, k, rasters[d])
      BY <1>10, SamePictures
    <3>3. w.kind = "export" => Drew(v, rasters[d])
      BY <3>1, <3>2, <1>10 DEF Drew
    <3> QED BY <3>3, <1>9, <1>10, <1>13 DEF ExportOK
  <2>3. w.kind \in {"segment", "inpaint", "backdrop"} => MakerOK(v)
    BY <1>3, <1>9, <1>10, <1>12 DEF MakerOK
  <2> HIDE DEF w
  <2> QED BY <1>2, <1>3, <1>10, <2>1, <2>2, <2>3, WorkGoesOn DEF d
<1>15. v.kind # "save" /\ v.step # "publish"
  BY <1>3, <1>9, <1>10, <1>12
<1> QED BY <1>1, <1>11, <1>14, <1>15, CacheStep

LEMMA KeepBaseStep == ASSUME IInv, NEW j \in Jobs, KeepBase(j) PROVE IInv'
<1> DEFINE w == job[j]
           d == w.doc
           kept == [plan |-> w.plan, balance |-> w.balance, pixels |-> w.pixels]
           v == [w EXCEPT !.step = "mask"]
<1>1. w.step = "keep" /\ Becomes(j, v)
      /\ UNCHANGED <<life, stack, storeVars, developed, fitted, told, disk, made>>
  BY DEF KeepBase, countVars
<1>2. WorkOK(w, rasters, life)
  BY DEF IInv, WorksOK
<1>3. w.kind = "preview" /\ d \in Docs /\ WorkRecord(w) /\ PreviewOK(w, rasters[d])
  BY <1>1, <1>2 DEF WorkOK, ExportOK, MakerOK, SaveOK
<1>4. base' = [base EXCEPT ![d] = kept]
  BY DEF KeepBase
<1>5. Developed(w)
  BY <1>1, <1>3 DEF PreviewOK
<1>6. BaseOK(kept)
  BY <1>5 DEF BaseOK, Developed
<1>7. /\ GoesOn(w, v) /\ v.step = "mask"
      /\ v.drawn = w.drawn /\ v.found = w.found /\ v.pixels = w.pixels
  BY <1>3 DEF WorkRecord, GoesOn
<1> HIDE DEF kept, v
<1>8. CachesOK'
  <2>1. FunOn(base, Docs)
    BY DEF IInv, CachesOK
  <2>2. FunOn(base', Docs) /\ \A c \in Docs : base'[c] = IF c = d THEN kept ELSE base[c]
    <3> HIDE DEF d
    <3> QED BY <2>1, <1>4 DEF FunOn
  <2>3. \A c \in Docs : BaseOK(base'[c])
    BY <2>2, <1>6 DEF IInv, CachesOK
  <2> QED BY <2>2, <2>3, <1>1 DEF IInv, CachesOK, storeVars
<1>9. v.plan = w.plan /\ v.balance = w.balance /\ v.kind = w.kind
  BY <1>7 DEF GoesOn
<1>10. PreviewOK(v, rasters[d])
  BY <1>1, <1>3, <1>5, <1>7, <1>9 DEF PreviewOK, Developed, Kinds
<1>11. WorkOK(v, rasters, life)
  <2> HIDE DEF w
  <2> QED BY <1>2, <1>3, <1>7, <1>10, WorkGoesOn DEF d
<1>12. v.kind # "save" /\ v.step # "publish"
  BY <1>3, <1>7, <1>9
<1> QED BY <1>1, <1>8, <1>11, <1>12, CacheStep

\* The raster a picture draws can be found by the number its operation carries.
Stock(w, k, R) ==
  {r \in R : r.kind = k /\ r.id \in {op.raster : op \in Drawn(w.plan, w.ops, k)}}

LEMMA LayeredOnce ==
  ASSUME NEW ops, List(ops), NEW k, NEW a \in Layered(ops, k), NEW b \in Layered(ops, k)
  PROVE  a = b
<1>1. PICK i \in DOMAIN ops : a = ops[i] /\ \A h \in DOMAIN ops : ops[h].kind = Setter[k] => h <= i
  BY DEF Layered
<1>2. PICK h \in DOMAIN ops : b = ops[h] /\ \A j \in DOMAIN ops : ops[j].kind = Setter[k] => j <= h
  BY DEF Layered
<1>3. a.kind = Setter[k] /\ b.kind = Setter[k]
  BY DEF Layered
<1>4. i \in Nat /\ h \in Nat
  BY DEF List
<1>5. h <= i /\ i <= h
  BY <1>1, <1>2, <1>3
<1>6. i = h
  BY <1>4, <1>5
<1> QED BY <1>1, <1>2, <1>6

LEMMA NamedMeansFound ==
  ASSUME NEW w, NEW k \in Kinds, NEW R, NEW m, ToldApart(R, m), AllKnown(w.ops, R),
         NEW r \in R, r.kind = k
  PROVE  (\E op \in Drawn(w.plan, w.ops, k) : op.raster = r.id)
           <=> (/\ r.natural = Natural(w.plan.geometry)
                /\ \E op \in Layered(w.ops, k) : op.which = r.which)
<1>1. ASSUME NEW op \in Layered(w.ops, k)
      PROVE  \E s \in R : /\ s.kind = k /\ op.raster = s.id
                          /\ op.which = s.which /\ op.natural = s.natural
  <2>1. PICK i \in DOMAIN w.ops : op = w.ops[i] /\ w.ops[i].kind = Setter[k]
    BY DEF Layered
  <2>2. PICK s \in R : s.kind = k /\ Names(w.ops[i], s) /\ w.ops[i].natural = s.natural
    BY <2>1 DEF AllKnown, Known
  <2> QED BY <2>1, <2>2 DEF Names
<1>2. \A s \in R : s.kind = k /\ (s.id = r.id \/ s.which = r.which) => s = r
  BY DEF ToldApart
<1>3. ASSUME NEW op \in Drawn(w.plan, w.ops, k), op.raster = r.id
      PROVE  r.natural = Natural(w.plan.geometry) /\ op.which = r.which /\ op \in Layered(w.ops, k)
  <2>1. op \in Layered(w.ops, k) /\ op.natural = Natural(w.plan.geometry)
    BY DEF Drawn
  <2>2. PICK s \in R : /\ s.kind = k /\ op.raster = s.id
                       /\ op.which = s.which /\ op.natural = s.natural
    BY <2>1, <1>1
  <2>3. s = r
    BY <2>2, <1>2, <1>3
  <2> QED BY <2>1, <2>2, <2>3
<1>4. ASSUME NEW op \in Layered(w.ops, k), op.which = r.which,
             r.natural = Natural(w.plan.geometry)
      PROVE  op \in Drawn(w.plan, w.ops, k) /\ op.raster = r.id
  <2>1. PICK s \in R : /\ s.kind = k /\ op.raster = s.id
                       /\ op.which = s.which /\ op.natural = s.natural
    BY <1>1
  <2>2. s = r
    BY <2>1, <1>2, <1>4
  <2> QED BY <2>1, <2>2, <1>4 DEF Drawn
<1> QED BY <1>3, <1>4

LEMMA PicturesAreStock ==
  ASSUME NEW w, NEW k \in Kinds, NEW R, NEW m, ToldApart(R, m), AllKnown(w.ops, R)
  PROVE  Pictures(w, k, R) = {Sized(r, w.plan) : r \in Stock(w, k, R)}
<1> DEFINE P == {r \in R : /\ r.kind = k
                           /\ r.natural = Natural(w.plan.geometry)
                           /\ \E op \in Layered(w.ops, k) : op.which = r.which}
<1>1. \A r \in R : r.kind = k =>
        ((\E op \in Drawn(w.plan, w.ops, k) : op.raster = r.id) <=> r \in P)
  <2>1. ASSUME NEW r \in R, r.kind = k
        PROVE  (\E op \in Drawn(w.plan, w.ops, k) : op.raster = r.id)
                 <=> (/\ r.natural = Natural(w.plan.geometry)
                      /\ \E op \in Layered(w.ops, k) : op.which = r.which)
    BY <2>1, NamedMeansFound
  <2> QED BY <2>1
<1>2. \A r \in P : r \in R /\ r.kind = k
  OBVIOUS
<1>3. Pictures(w, k, R) = {Sized(r, w.plan) : r \in P}
  BY DEF Pictures
<1> HIDE DEF P
<1>4. Stock(w, k, R) = P
  BY <1>1, <1>2 DEF Stock
<1> QED BY <1>3, <1>4

LEMMA StockIsOne ==
  ASSUME NEW w, NEW k \in Kinds, NEW R, NEW m, ToldApart(R, m), List(w.ops),
         NEW r \in Stock(w, k, R), NEW s \in Stock(w, k, R)
  PROVE  r = s
<1>1. PICK a \in Layered(w.ops, k) : a.raster = r.id
  BY DEF Stock, Drawn
<1>2. PICK b \in Layered(w.ops, k) : b.raster = s.id
  BY DEF Stock, Drawn
<1>3. a = b
  <2> DEFINE ops == w.ops
  <2>1. List(ops) /\ a \in Layered(ops, k) /\ b \in Layered(ops, k)
    OBVIOUS
  <2> HIDE DEF ops
  <2> QED BY <2>1, LayeredOnce
<1>4. r.id = s.id /\ r.kind = k /\ s.kind = k /\ r \in R /\ s \in R
  BY <1>1, <1>2, <1>3 DEF Stock
<1> QED BY <1>4 DEF ToldApart

LEMMA HeldAreDrawn ==
  ASSUME NEW w, NEW k \in Kinds, NEW R, NEW m, ToldApart(R, m), AllKnown(w.ops, R), List(w.ops),
         NEW c, FittedOK(c, k, R), Matches(w.plan, c.plan),
         NEW held, held # {},
         held = {p \in c.held : p.id \in {op.raster : op \in Drawn(w.plan, w.ops, k)}}
  PROVE  held = Pictures(w, k, R)
<1>1. Pictures(w, k, R) = {Sized(r, w.plan) : r \in Stock(w, k, R)}
  BY PicturesAreStock
<1>2. ASSUME NEW p \in held PROVE \E r \in Stock(w, k, R) : p = Sized(r, w.plan)
  <2>1. PICK r \in R : r.kind = k /\ p = Sized(r, c.plan)
    BY DEF FittedOK
  <2>2. p.id = r.id
    BY <2>1 DEF Sized
  <2>3. r \in Stock(w, k, R)
    BY <2>1, <2>2 DEF Stock
  <2>4. w.plan.size = c.plan.size
    BY MatchesIsShape
  <2>5. p = Sized(r, w.plan)
    BY <2>1, <2>4 DEF Sized
  <2> QED BY <2>3, <2>5
<1>3. \A r, s \in Stock(w, k, R) : r = s
  BY StockIsOne
<1> QED BY <1>1, <1>2, <1>3

\* A preview goes on when one kind of raster is drawn.
LEMMA DrawingGoesOn ==
  ASSUME NEW w, NEW k \in Kinds, NEW R, NEW lives, WorkOK(w, R, lives),
         w.kind = "preview", w.step = k,
         NEW v, v = WithDrawing(w, AfterFitting[k], None, w.drawn \cup Pictures(w, k, R[w.doc]))
  PROVE  WorkOK(v, R, lives) /\ v.kind = "preview" /\ v.step # "publish"
<1> DEFINE mine == R[w.doc]
           st == AfterFitting[k]
           dr == w.drawn \cup Pictures(w, k, mine)
<1>1. PreviewOK(w, mine) /\ WorkRecord(w)
  BY DEF WorkOK
<1>2. v = WithDrawing(w, st, None, dr)
  OBVIOUS
<1>3. k = "mask" \/ k = "patch"
  BY DEF Kinds
<1>4. (k = "mask" => st = "patch") /\ (k = "patch" => st = "done")
  BY DEF AfterFitting
<1>5. (k = "mask" => dr = Pictures(w, "mask", mine))
      /\ (k = "patch" => dr = Pictures(w, "mask", mine) \cup Pictures(w, "patch", mine))
  BY <1>1 DEF PreviewOK
<1> HIDE DEF st, dr
<1>6. GoesOn(w, v) /\ v.step = st /\ v.pixels = w.pixels /\ v.found = None /\ v.drawn = dr
  BY <1>1, <1>2, DrawingChanges
<1>7. \A l : Pictures(v, l, mine) = Pictures(w, l, mine)
  BY <1>6, SamePictures
<1>8. v.plan = w.plan /\ v.balance = w.balance /\ v.kind = w.kind
  BY <1>6 DEF GoesOn
<1>9. Developed(v)
  BY <1>1, <1>3, <1>6, <1>8 DEF PreviewOK, Developed
<1> HIDE DEF mine
<1>10. PreviewOK(v, mine)
  BY <1>3, <1>4, <1>5, <1>6, <1>7, <1>9 DEF PreviewOK, Drew
<1>11. WorkOK(v, R, lives)
  BY <1>6, <1>10, WorkGoesOn DEF mine
<1> QED BY <1>3, <1>4, <1>6, <1>8, <1>11

LEMMA FindFittedStep == ASSUME IInv, NEW j \in Jobs, NEW k \in Kinds, FindFitted(j, k) PROVE IInv'
<1> DEFINE w == job[j]
           R == rasters[w.doc]
           c == fitted[w.doc][k]
           ids == {op.raster : op \in Drawn(w.plan, w.ops, k)}
           held == IF Matches(w.plan, c.plan) THEN {p \in c.held : p.id \in ids} ELSE {}
           stored == {r \in R : r.kind = k /\ r.id \in ids}
<1>1. /\ w.kind = "preview" /\ w.step = k /\ w.found = None /\ OnlyWork
      /\ IF held # {} \/ stored = {} THEN Draws(j, k, held)
         ELSE \E r \in stored : Becomes(j, [w EXCEPT !.found = Sized(r, w.plan)])
  BY DEF FindFitted, OnlyWork, countVars
<1>2. WorkOK(w, rasters, life)
  BY DEF IInv, WorksOK
<1>3. w.doc \in Docs /\ WorkRecord(w) /\ PreviewOK(w, R) /\ List(w.ops) /\ AllKnown(w.ops, R)
  BY <1>1, <1>2 DEF WorkOK
<1>4. ToldApart(R, made) /\ FittedOK(c, k, R)
  BY <1>3 DEF IInv, StoresOK, StoreOK, CachesOK
<1>5. stored = Stock(w, k, R)
  BY DEF Stock
<1>6. Pictures(w, k, R) = {Sized(r, w.plan) : r \in stored}
  <2> HIDE DEF w, R, stored
  <2> QED BY <1>3, <1>4, <1>5, PicturesAreStock
<1>7. held # {} => held = Pictures(w, k, R)
  <2>1. held # {} => Matches(w.plan, c.plan)
                     /\ held = {p \in c.held : p.id \in {op.raster : op \in Drawn(w.plan, w.ops, k)}}
    OBVIOUS
  <2> HIDE DEF w, R, held, c
  <2> QED BY <2>1, <1>3, <1>4, HeldAreDrawn
<1>8. CASE held # {} \/ stored = {}
  <2>1. held = Pictures(w, k, R)
    <3>1. stored = {} => Pictures(w, k, R) = {}
      BY <1>6
    <3> QED BY <3>1, <1>7, <1>8
  <2> DEFINE v == WithDrawing(w, AfterFitting[k], None, w.drawn \cup Pictures(w, k, rasters[w.doc]))
  <2>2. Becomes(j, v)
    <3>1. Draws(j, k, held)
      BY <1>1, <1>8
    <3>2. Draws(j, k, Pictures(w, k, R))
      BY <2>1, <3>1
    <3> HIDE DEF held
    <3> QED BY <3>2 DEF Draws, WithDrawing
  <2> HIDE DEF v, R, held
  <2>3. WorkOK(v, rasters, life) /\ v.kind = "preview" /\ v.step # "publish"
    <3>1. v = WithDrawing(w, AfterFitting[k], None, w.drawn \cup Pictures(w, k, rasters[w.doc]))
      BY DEF v
    <3> HIDE DEF w
    <3> QED BY <3>1, <1>1, <1>2, DrawingGoesOn
  <2>4. v.kind # "save"
    BY <2>3
  <2> QED BY <1>1, <2>2, <2>3, <2>4, WorkerStep
<1>9. CASE ~ (held # {} \/ stored = {})
  <2>1. PICK r \in stored : Becomes(j, [w EXCEPT !.found = Sized(r, w.plan)])
    BY <1>1, <1>9
  <2> DEFINE p == Sized(r, w.plan)
             v == [w EXCEPT !.found = p]
  <2>2. r \in R /\ r.kind = k
    BY <2>1
  <2>3. Pictures(w, k, R) = {p}
    <3>1. \A s \in stored : s = r
      <4> HIDE DEF w, R, stored
      <4>1. r \in Stock(w, k, R)
        BY <2>1, <1>5
      <4> QED BY <4>1, <1>3, <1>4, <1>5, StockIsOne
    <3>2. stored = {r}
      BY <3>1, <2>1
    <3> HIDE DEF stored
    <3> QED BY <3>2, <1>6
  <2> HIDE DEF p
  <2>4. GoesOn(w, v) /\ v.step = w.step /\ v.pixels = w.pixels /\ v.drawn = w.drawn /\ v.found = p
    BY <1>3 DEF WorkRecord, GoesOn
  <2> HIDE DEF v
  <2>5. v.plan = w.plan /\ v.balance = w.balance /\ v.kind = w.kind
    BY <2>4 DEF GoesOn
  <2>6. \A l : Pictures(v, l, R) = Pictures(w, l, R)
    BY <2>4, SamePictures
  <2>7. p = Sized(r, v.plan)
    BY <2>5 DEF p
  <2>8. PreviewOK(v, R)
    <3> HIDE DEF w, R
    <3> QED BY <1>1, <1>3, <2>2, <2>3, <2>4, <2>5, <2>6, <2>7 DEF PreviewOK, Developed, Drew, Kinds
  <2>9. WorkOK(v, rasters, life)
    <3>1. PreviewOK(v, rasters[w.doc])
      BY <2>8
    <3> HIDE DEF w
    <3> QED BY <1>1, <1>2, <2>4, <3>1, WorkGoesOn
  <2>10. v.kind # "save" /\ v.step # "publish"
    BY <1>1, <2>4, <2>5 DEF Kinds
  <2>11. Becomes(j, v)
    BY <2>1 DEF v, p
  <2> QED BY <1>1, <2>9, <2>10, <2>11, WorkerStep
<1> QED BY <1>8, <1>9

LEMMA KeepFittedStep == ASSUME IInv, NEW j \in Jobs, NEW k \in Kinds, KeepFitted(j, k) PROVE IInv'
<1> DEFINE w == job[j]
           d == w.doc
           R == rasters[d]
           here == fitted[d][k]
           others == IF Matches(w.plan, here.plan) THEN {p \in here.held : p.id # w.found.id} ELSE {}
           kept == [plan |-> w.plan, held |-> others \cup {w.found}]
           v == WithDrawing(w, AfterFitting[k], None, w.drawn \cup Pictures(w, k, rasters[w.doc]))
<1>1. /\ w.step = k /\ w.found # None /\ Draws(j, k, {w.found})
      /\ UNCHANGED <<life, stack, storeVars, developed, base, told, disk, made>>
  BY DEF KeepFitted, countVars
<1>2. WorkOK(w, rasters, life)
  BY DEF IInv, WorksOK
<1>3. w.kind = "preview" /\ d \in Docs /\ WorkRecord(w) /\ PreviewOK(w, R)
  BY <1>1, <1>2 DEF WorkOK, ExportOK, MakerOK, SaveOK, Kinds
<1>4. Pictures(w, k, R) = {w.found} /\ \E r \in R : r.kind = k /\ w.found = Sized(r, w.plan)
  BY <1>1, <1>3 DEF PreviewOK
<1>5. fitted' = [fitted EXCEPT ![d] = [fitted[d] EXCEPT ![k] = kept]]
  BY DEF KeepFitted
<1>6. FittedOK(here, k, R) /\ FunOn(fitted, Docs) /\ FunOn(fitted[d], Kinds)
  BY <1>3 DEF IInv, CachesOK
<1>7. FittedOK(kept, k, R)
  <2>1. kept = [plan |-> kept.plan, held |-> kept.held] /\ kept.plan = w.plan
    OBVIOUS
  <2>2. ASSUME NEW p \in kept.held PROVE \E r \in R : r.kind = k /\ p = Sized(r, w.plan)
    <3>1. CASE p = w.found
      BY <3>1, <1>4
    <3>2. CASE p \in here.held /\ Matches(w.plan, here.plan)
      <4>1. PICK r \in R : r.kind = k /\ p = Sized(r, here.plan)
        BY <3>2, <1>6 DEF FittedOK
      <4>2. w.plan.size = here.plan.size
        <5> HIDE DEF here, w
        <5> QED BY <3>2, MatchesIsShape
      <4> QED BY <4>1, <4>2 DEF Sized
    <3> QED BY <3>1, <3>2, <2>2
  <2> HIDE DEF kept
  <2> QED BY <2>1, <2>2 DEF FittedOK
<1> HIDE DEF kept
<1>8. CachesOK'
  <2> DEFINE f == [fitted[d] EXCEPT ![k] = kept]
  <2>1. FunOn(f, Kinds) /\ f[k] = kept /\ \A l \in Kinds : l # k => f[l] = fitted[d][l]
    BY <1>6 DEF FunOn
  <2> HIDE DEF f
  <2>2. fitted' = [fitted EXCEPT ![d] = f]
    BY <1>5 DEF f
  <2>3. FunOn(fitted', Docs) /\ \A c \in Docs : fitted'[c] = IF c = d THEN f ELSE fitted[c]
    <3> HIDE DEF d
    <3> QED BY <2>2, <1>6 DEF FunOn
  <2>4. rasters' = rasters
    BY <1>1 DEF storeVars
  <2>5. ASSUME NEW c \in Docs, NEW l \in Kinds PROVE FittedOK(fitted'[c][l], l, rasters[c])
    <3>1. FittedOK(fitted[c][l], l, rasters[c])
      BY DEF IInv, CachesOK
    <3>2. CASE c = d /\ l = k
      BY <3>2, <2>1, <2>3, <1>7
    <3>3. CASE ~ (c = d /\ l = k)
      BY <3>1, <3>3, <2>1, <2>3
    <3> QED BY <3>2, <3>3
  <2>6. \A c \in Docs : FunOn(fitted'[c], Kinds)
    BY <2>1, <2>3 DEF IInv, CachesOK
  <2>7. /\ FunOn(developed', Docs) /\ FunOn(base', Docs)
        /\ \A c \in Docs : DevelopedOK(developed'[c]) /\ BaseOK(base'[c])
    BY <1>1 DEF IInv, CachesOK
  <2> QED BY <2>3, <2>4, <2>5, <2>6, <2>7 DEF CachesOK
<1>9. Becomes(j, v)
  BY <1>1, <1>4 DEF Draws, WithDrawing
<1> HIDE DEF v
<1>10. WorkOK(v, rasters, life) /\ v.kind = "preview" /\ v.step # "publish"
  <2>1. v = WithDrawing(w, AfterFitting[k], None, w.drawn \cup Pictures(w, k, rasters[w.doc]))
    BY DEF v
  <2> HIDE DEF w
  <2> QED BY <2>1, <1>1, <1>2, <1>3, DrawingGoesOn
<1>11. v.kind # "save"
  BY <1>10
<1> QED BY <1>1, <1>8, <1>9, <1>10, <1>11, CacheStep

WithDrawn(w, st, dr) == [w EXCEPT !.step = st, !.drawn = dr]

LEMMA DrawnChanges ==
  ASSUME NEW w, WorkRecord(w), NEW st, NEW dr, NEW v, v = WithDrawn(w, st, dr)
  PROVE  GoesOn(w, v) /\ v.step = st /\ v.pixels = w.pixels /\ v.found = w.found /\ v.drawn = dr
<1> DEFINE u == [w EXCEPT !.step = st]
<1>1. u = [kind |-> w.kind, step |-> st, doc |-> w.doc, ops |-> w.ops, plan |-> w.plan,
           balance |-> w.balance, pixels |-> w.pixels, found |-> w.found, drawn |-> w.drawn]
  BY DEF WorkRecord
<1>2. v = [u EXCEPT !.drawn = dr]
  BY DEF WithDrawn
<1> HIDE DEF u
<1>3. v = [kind |-> w.kind, step |-> st, doc |-> w.doc, ops |-> w.ops, plan |-> w.plan,
           balance |-> w.balance, pixels |-> w.pixels, found |-> w.found, drawn |-> dr]
  BY <1>1, <1>2
<1> QED BY <1>3 DEF GoesOn

LEMMA CollectStep == ASSUME IInv, NEW j \in Jobs, CollectRasters(j) PROVE IInv'
<1> DEFINE w == job[j]
           R == rasters[w.doc]
           found == {r \in R : \E op \in Drawn(w.plan, w.ops, r.kind) : op.raster = r.id}
           dr == {Sized(r, w.plan) : r \in found}
           v == WithDrawn(w, "decode", dr)
<1>1. w.step = "collect" /\ Becomes(j, v) /\ OnlyWork
  BY DEF CollectRasters, WithDrawn, OnlyWork, countVars
<1>2. WorkOK(w, rasters, life)
  BY DEF IInv, WorksOK
<1>3. w.kind = "export" /\ w.doc \in Docs /\ WorkRecord(w) /\ List(w.ops) /\ AllKnown(w.ops, R)
  BY <1>1, <1>2 DEF WorkOK, PreviewOK, MakerOK, SaveOK, Kinds
<1>4. ToldApart(R, made)
  BY <1>3 DEF IInv, StoresOK, StoreOK
<1>5. dr = Pictures(w, "mask", R) \cup Pictures(w, "patch", R)
  <2>1. "mask" \in Kinds /\ "patch" \in Kinds /\ \A r \in R : r.kind = "mask" \/ r.kind = "patch"
    BY <1>4 DEF Kinds, ToldApart
  <2>2. Pictures(w, "mask", R) = {Sized(r, w.plan) : r \in Stock(w, "mask", R)}
    <3> HIDE DEF w, R
    <3> QED BY <2>1, <1>3, <1>4, PicturesAreStock
  <2>3. Pictures(w, "patch", R) = {Sized(r, w.plan) : r \in Stock(w, "patch", R)}
    <3> HIDE DEF w, R
    <3> QED BY <2>1, <1>3, <1>4, PicturesAreStock
  <2>4. \A r \in R : r \in found <=> r \in Stock(w, "mask", R) \cup Stock(w, "patch", R)
    BY <2>1 DEF Stock
  <2>5. found = Stock(w, "mask", R) \cup Stock(w, "patch", R)
    BY <2>4 DEF Stock
  <2> HIDE DEF found
  <2> QED BY <2>2, <2>3, <2>5
<1> HIDE DEF dr, v
<1>6. GoesOn(w, v) /\ v.step = "decode" /\ v.drawn = dr
  <2>1. v = WithDrawn(w, "decode", dr) /\ WorkRecord(w)
    BY <1>3 DEF v
  <2> HIDE DEF w
  <2> QED BY <2>1, DrawnChanges
<1>7. \A l : Pictures(v, l, R) = Pictures(w, l, R)
  BY <1>6, SamePictures
<1>8. ExportOK(v, R)
  BY <1>5, <1>6, <1>7 DEF ExportOK, Drew
<1>9. WorkOK(v, rasters, life) /\ v.kind # "save"
  <2>1. v.kind = w.kind
    BY <1>6 DEF GoesOn
  <2> HIDE DEF w
  <2> QED BY <1>2, <1>3, <1>6, <1>8, <2>1, WorkGoesOn DEF R
<1>10. v.step # "publish"
  BY <1>6
<1> QED BY <1>1, <1>9, <1>10, WorkerStep

-----------------------------------------------------------------------------
(* Answers.                                                                *)

LEMMA Idle ==
  /\ NoJob.kind = "none" /\ NoJob.step = "idle"
  /\ \A R, lives : WorkOK(NoJob, R, lives)
BY DEF NoJob, WorkOK

LEMMA AnswerStep == ASSUME IInv, NEW j \in Jobs, Answer(j) PROVE IInv'
<1>1. Becomes(j, NoJob) /\ OnlyWork
  BY DEF Answer, OnlyWork, countVars
<1>2. WorkOK(NoJob, rasters, life) /\ NoJob.kind # "save" /\ NoJob.step # "publish"
  BY Idle
<1> QED BY <1>1, <1>2, WorkerStep

LEMMA StoreResultStep == ASSUME IInv, NEW j \in Jobs, StoreResult(j) PROVE IInv'
<1> DEFINE w == job[j]
           d == w.doc
           k == IF w.kind = "segment" THEN "mask" ELSE "patch"
           natural == Natural(IF w.kind = "backdrop" THEN GeometryOf(Active(w.doc))
                              ELSE w.plan.geometry)
           measured == IF w.kind = "inpaint" THEN w.plan.size ELSE natural
<1>1. /\ w.step = "store" /\ Becomes(j, NoJob) /\ UNCHANGED <<life, stack, developed, base, disk>>
      /\ Stored(d, k, natural, measured)
  BY DEF StoreResult
<1>2. WorkOK(w, rasters, life)
  BY DEF IInv, WorksOK
<1>3. d \in Docs /\ life[d] # "new"
  BY <1>1, <1>2 DEF WorkOK
<1>4. k \in Kinds
  BY DEF Kinds
<1> HIDE DEF w, d, k, natural, measured
<1>5. /\ StoresOK' /\ StacksOK' /\ CachesOK'
      /\ Grown /\ made' \in Nat /\ made <= made'
  BY <1>1, <1>3, <1>4, StoredStep
<1>6. WorkOK(NoJob, rasters', life') /\ NoJob.kind # "save" /\ NoJob.step # "publish"
  BY Idle
<1>7. /\ WorksOK'
      /\ job'[j] = NoJob /\ \A i \in Jobs : i # j => job'[i] = job[i]
  BY <1>1, <1>5, <1>6, OneWorks DEF IInv
<1>8. DiskOK'
  BY <1>1, <1>5, <1>6, <1>7, DiskStays DEF IInv
<1> QED BY <1>5, <1>7, <1>8 DEF IInv

-----------------------------------------------------------------------------
(* Projects.                                                               *)

LEMMA StartSaveStep == ASSUME IInv, NEW j \in Jobs, StartSave(j) PROVE IInv'
<1>1. PICK d \in open :
        /\ \A i \in Jobs : job[i].kind # "save"
        /\ Begin(j, [kind |-> "save", step |-> "pack patches", doc |-> d,
                     ops |-> stack[d].ops, cursor |-> stack[d].cursor, rasters |-> {}])
  BY DEF StartSave
<1> DEFINE v == [kind |-> "save", step |-> "pack patches", doc |-> d,
                 ops |-> stack[d].ops, cursor |-> stack[d].cursor, rasters |-> {}]
<1>2. d \in Docs /\ life[d] # "new"
  BY DEF open
<1>3. StackOK(stack[d], rasters[d])
  BY <1>2 DEF IInv, StacksOK
<1>4. /\ v.kind = "save" /\ v.step = "pack patches" /\ v.doc = d /\ v.ops = stack[d].ops
      /\ v.cursor = stack[d].cursor /\ v.rasters = {} /\ SaveRecord(v)
  BY DEF SaveRecord
<1>5. Becomes(j, v) /\ OnlyWork
  BY <1>1 DEF Begin, OnlyWork
<1> HIDE DEF v
<1>6. WorkOK(v, rasters, life)
  BY <1>2, <1>3, <1>4 DEF WorkOK, StackOK, SaveOK
<1>7. v.step # "publish"
  BY <1>4
<1> QED BY <1>1, <1>5, <1>6, <1>7, WorkerStep

WithRasters(w, st, packed) == [w EXCEPT !.step = st, !.rasters = packed]

\* What a save's record becomes when it goes on.
SaveGoesOn(w, v, st, packed) ==
  v = [kind |-> w.kind, step |-> st, doc |-> w.doc, ops |-> w.ops, cursor |-> w.cursor,
       rasters |-> packed]

LEMMA RastersChange ==
  ASSUME NEW w, SaveRecord(w), NEW st, NEW packed, NEW v, v = WithRasters(w, st, packed)
  PROVE  SaveGoesOn(w, v, st, packed)
<1> DEFINE u == [w EXCEPT !.step = st]
<1>1. u = [kind |-> w.kind, step |-> st, doc |-> w.doc, ops |-> w.ops, cursor |-> w.cursor,
           rasters |-> w.rasters]
  BY DEF SaveRecord
<1>2. v = [u EXCEPT !.rasters = packed]
  BY DEF WithRasters
<1> HIDE DEF u
<1> QED BY <1>1, <1>2 DEF SaveGoesOn

\* A save is what works when the step is one of its own.
LEMMA SaveWorks ==
  ASSUME IInv, NEW j \in Jobs, NEW w, w = job[j],
         w.step \in {"pack patches", "pack masks", "write", "writing", "publish"}
  PROVE  /\ w.kind = "save" /\ w.doc \in Docs /\ life[w.doc] # "new"
         /\ List(w.ops) /\ AllKnown(w.ops, rasters[w.doc])
         /\ SaveRecord(w) /\ SaveOK(w, rasters[w.doc])
<1>1. WorkOK(w, rasters, life)
  BY DEF IInv, WorksOK
<1>2. w.kind = "save"
  BY <1>1 DEF WorkOK, PreviewOK, ExportOK, MakerOK, Kinds
<1> QED BY <1>1, <1>2 DEF WorkOK

LEMMA SaveOKGoesOn ==
  ASSUME IInv, NEW w, NEW v, NEW st, NEW packed, SaveGoesOn(w, v, st, packed),
         w.kind = "save", w.doc \in Docs, life[w.doc] # "new",
         List(w.ops), AllKnown(w.ops, rasters[w.doc]), SaveOK(w, rasters[w.doc]),
         st \in {"pack patches", "pack masks", "write", "writing", "publish"},
         packed \subseteq rasters[w.doc],
         st # "pack patches" => Known(w.ops, "patch", packed),
         st \notin {"pack patches", "pack masks"} => Known(w.ops, "mask", packed)
  PROVE  WorkOK(v, rasters, life) /\ v.kind = "save" /\ v.step = st
<1>1. /\ v.kind = "save" /\ v.step = st /\ v.doc = w.doc /\ v.ops = w.ops /\ v.cursor = w.cursor
      /\ v.rasters = packed /\ SaveRecord(v)
  BY DEF SaveGoesOn, SaveRecord
<1>2. SaveOK(v, rasters[w.doc])
  BY <1>1 DEF SaveOK
<1> QED BY <1>1, <1>2 DEF WorkOK

LEMMA PackStep ==
  ASSUME IInv, NEW j \in Jobs, NEW k \in Kinds, NEW now, NEW then, Pack(j, k, now, then),
         \/ k = "patch" /\ now = "pack patches" /\ then = "pack masks"
         \/ k = "mask" /\ now = "pack masks" /\ then = "write"
  PROVE  IInv'
<1> DEFINE w == job[j]
           R == rasters[w.doc]
           packed == w.rasters \cup {r \in R : r.kind = k}
           v == WithRasters(w, then, packed)
<1>1. w.step = now /\ Becomes(j, v) /\ OnlyWork
  BY DEF Pack, WithRasters, OnlyWork, countVars
<1>2. /\ w.kind = "save" /\ w.doc \in Docs /\ life[w.doc] # "new"
      /\ List(w.ops) /\ AllKnown(w.ops, R) /\ SaveRecord(w) /\ SaveOK(w, R)
  BY <1>1, SaveWorks
<1>3. packed \subseteq R /\ w.rasters \subseteq packed
  BY <1>2 DEF SaveOK
<1>4. Known(w.ops, k, packed)
  <2>1. Known(w.ops, k, R)
    BY <1>2 DEF AllKnown
  <2> QED BY <2>1 DEF Known
<1> HIDE DEF packed, v
<1>5. now = "pack masks" => Known(w.ops, "patch", packed)
  <2>1. now = "pack masks" => Known(w.ops, "patch", w.rasters)
    BY <1>1, <1>2 DEF SaveOK
  <2> DEFINE ops == w.ops
             before == w.rasters
  <2>2. (now = "pack masks" => Known(ops, "patch", before)) /\ before \subseteq packed
    BY <2>1, <1>3
  <2> HIDE DEF ops, before
  <2>3. now = "pack masks" => Known(ops, "patch", packed)
    BY <2>2, KnownGrows
  <2> QED BY <2>3 DEF ops
<1>6. SaveGoesOn(w, v, then, packed)
  <2>1. SaveRecord(w) /\ v = WithRasters(w, then, packed)
    BY <1>2 DEF v
  <2> HIDE DEF w
  <2> QED BY <2>1, RastersChange
<1>7. WorkOK(v, rasters, life) /\ v.step = then
  <2>1. then = "pack masks" \/ then = "write"
    OBVIOUS
  <2>2. then # "pack patches" => Known(w.ops, "patch", packed)
    BY <1>4, <1>5
  <2>3. then \notin {"pack patches", "pack masks"} => Known(w.ops, "mask", packed)
    BY <1>4
  <2>4. packed \subseteq rasters[w.doc] /\ AllKnown(w.ops, rasters[w.doc]) /\ SaveOK(w, rasters[w.doc])
    BY <1>2, <1>3
  <2> HIDE DEF w
  <2> QED BY <1>2, <1>6, <2>1, <2>2, <2>3, <2>4, SaveOKGoesOn
<1>8. v.step # "publish"
  BY <1>7
<1> QED BY <1>1, <1>2, <1>7, <1>8, WorkerStep

\* The one worker that saves turns to the disk.
LEMMA SaverStep ==
  ASSUME IInv, NEW j \in Jobs, job[j].step \in {"write", "writing", "publish"},
         NEW v, Becomes(j, v), WorkOK(v, rasters, life),
         UNCHANGED <<life, stack, storeVars, cacheVars, told, made>>,
         NEW f, NEW t, disk' = [file |-> f, temp |-> t], FileOK(f, made),
         v.step = "publish" => t = Archive(v)
  PROVE  IInv'
<1>1. StoresOK' /\ StacksOK' /\ CachesOK'
  BY StoresStay, StacksStay, CachesStay DEF IInv, storeVars, cacheVars
<1>2. Grown /\ WorkOK(v, rasters', life') /\ made' = made
  BY NothingGrew DEF IInv, storeVars
<1>3. /\ WorksOK'
      /\ job'[j] = v /\ \A i \in Jobs : i # j => job'[i] = job[i]
  BY <1>2, OneWorks DEF IInv
<1>4. job[j].kind = "save" /\ \A i \in Jobs : job[i].step = "publish" => job[i].kind = "save"
  BY SaveWorks
<1>5. \A i \in Jobs : i # j => job[i].kind # "save" /\ job[i].step # "publish"
  BY <1>4 DEF IInv, DiskOK, OneSaver
<1>6. OneSaver'
  BY <1>3, <1>5 DEF OneSaver
<1>7. \A i \in Jobs : job'[i].step = "publish" => disk'.temp = Archive(job'[i])
  BY <1>3, <1>5
<1>8. disk' = [file |-> disk'.file, temp |-> disk'.temp] /\ FileOK(disk'.file, made')
  BY <1>2
<1> QED BY <1>1, <1>3, <1>6, <1>7, <1>8 DEF IInv, DiskOK

LEMMA OpenTempStep == ASSUME IInv, NEW j \in Jobs, OpenTemp(j) PROVE IInv'
<1> DEFINE w == job[j]
           v == [w EXCEPT !.step = "writing"]
<1>1. /\ w.step = "write" /\ Becomes(j, v) /\ disk' = [disk EXCEPT !.temp = Partial]
      /\ UNCHANGED <<life, stack, storeVars, cacheVars, told, made>>
  BY DEF OpenTemp, countVars
<1>2. /\ w.kind = "save" /\ w.doc \in Docs /\ life[w.doc] # "new"
      /\ List(w.ops) /\ AllKnown(w.ops, rasters[w.doc]) /\ SaveRecord(w) /\ SaveOK(w, rasters[w.doc])
  BY <1>1, SaveWorks
<1> DEFINE packed == w.rasters
<1>3. SaveGoesOn(w, v, "writing", packed)
  BY <1>2 DEF SaveRecord, SaveGoesOn
<1>4. packed \subseteq rasters[w.doc] /\ Known(w.ops, "patch", packed) /\ Known(w.ops, "mask", packed)
  BY <1>1, <1>2 DEF SaveOK
<1> HIDE DEF v, packed
<1>5. WorkOK(v, rasters, life) /\ v.step = "writing"
  <2> HIDE DEF w
  <2> QED BY <1>2, <1>3, <1>4, SaveOKGoesOn
<1> DEFINE f == disk.file
<1>6. disk' = [file |-> f, temp |-> Partial] /\ FileOK(f, made)
  BY <1>1 DEF IInv, DiskOK
<1> HIDE DEF f
<1>7. v.step # "publish" /\ job[j].step = "write"
  BY <1>1, <1>5
<1> QED BY <1>1, <1>5, <1>6, <1>7, SaverStep

LEMMA WriteTempStep == ASSUME IInv, NEW j \in Jobs, WriteTemp(j) PROVE IInv'
<1> DEFINE w == job[j]
           v == [w EXCEPT !.step = "publish"]
           f == disk.file
           t == Archive(w)
<1>1. /\ w.step = "writing" /\ UNCHANGED <<life, stack, storeVars, cacheVars, told, made>>
      /\ \/ disk' = [disk EXCEPT !.temp = t] /\ Becomes(j, v)
         \/ disk' = [disk EXCEPT !.temp = None] /\ Becomes(j, NoJob)
  BY DEF WriteTemp, countVars
<1>2. /\ w.kind = "save" /\ w.doc \in Docs /\ life[w.doc] # "new"
      /\ List(w.ops) /\ AllKnown(w.ops, rasters[w.doc]) /\ SaveRecord(w) /\ SaveOK(w, rasters[w.doc])
  BY <1>1, SaveWorks
<1>3. FileOK(f, made) /\ disk = [file |-> f, temp |-> disk.temp]
  BY DEF IInv, DiskOK
<1>4. CASE disk' = [disk EXCEPT !.temp = t] /\ Becomes(j, v)
  <2> DEFINE packed == w.rasters
  <2>1. SaveGoesOn(w, v, "publish", packed)
    BY <1>2 DEF SaveRecord, SaveGoesOn
  <2>2. packed \subseteq rasters[w.doc] /\ Known(w.ops, "patch", packed) /\ Known(w.ops, "mask", packed)
    BY <1>1, <1>2 DEF SaveOK
  <2>3. Archive(v) = t
    BY <2>1 DEF SaveGoesOn, Archive
  <2> HIDE DEF v, packed, t
  <2>4. WorkOK(v, rasters, life)
    <3> HIDE DEF w
    <3> QED BY <1>2, <2>1, <2>2, SaveOKGoesOn
  <2>5. disk' = [file |-> f, temp |-> t]
    BY <1>3, <1>4
  <2> HIDE DEF f
  <2>6. job[j].step = "writing"
    BY <1>1
  <2> QED BY <1>1, <1>3, <1>4, <2>3, <2>4, <2>5, <2>6, SaverStep
<1>5. CASE disk' = [disk EXCEPT !.temp = None] /\ Becomes(j, NoJob)
  <2>1. disk' = [file |-> f, temp |-> None]
    BY <1>3, <1>5
  <2> HIDE DEF f
  <2>2. job[j].step = "writing"
    BY <1>1
  <2> QED BY <1>1, <1>3, <1>5, <2>1, <2>2, Idle, SaverStep
<1> QED BY <1>1, <1>4, <1>5

LEMMA PublishStep == ASSUME IInv, NEW j \in Jobs, Publish(j) PROVE IInv'
<1> DEFINE w == job[j]
           d == w.doc
           R == rasters[d]
           f == disk.file
           t == disk.temp
<1>1. /\ w.step = "publish" /\ UNCHANGED <<life, stack, storeVars, cacheVars, told, made>>
      /\ disk' = [file |-> t, temp |-> None] \/ disk' = [disk EXCEPT !.temp = None]
      /\ Becomes(j, NoJob)
  BY DEF Publish, countVars
<1>2. /\ w.kind = "save" /\ d \in Docs /\ life[d] # "new"
      /\ List(w.ops) /\ AllKnown(w.ops, R) /\ SaveRecord(w) /\ SaveOK(w, R)
  BY <1>1, SaveWorks
<1>3. FileOK(f, made) /\ disk = [file |-> f, temp |-> t] /\ t = Archive(w)
  BY <1>1 DEF IInv, DiskOK
<1>4. StoreOK(R, next[d], told[d], made)
  BY <1>2 DEF IInv, StoresOK
<1>5. FileOK(t, made)
  <2> HIDE DEF R, d
  <2>1. /\ t.written = "wholly" /\ t.ops = w.ops /\ t.cursor = w.cursor /\ t.rasters = w.rasters
    BY <1>3 DEF Archive
  <2> HIDE DEF t, w
  <2>2. t.rasters \subseteq R /\ Known(t.ops, "patch", t.rasters) /\ Known(t.ops, "mask", t.rasters)
        /\ t.cursor \in 0 .. Len(t.ops) /\ List(t.ops)
    BY <1>1, <1>2, <2>1 DEF SaveOK
  <2>3. AllKnown(t.ops, t.rasters)
    BY <2>2 DEF AllKnown, Kinds
  <2>4. ToldApart(t.rasters, made)
    BY <1>4, <2>2 DEF StoreOK, ToldApart
  <2>5. Bounded(t.rasters)
    <3> DEFINE m == next[d]["mask"]
               p == next[d]["patch"]
    <3>1. m \in Nat /\ p \in Nat
      BY <1>4 DEF StoreOK, Kinds
    <3>2. \A r \in R : r.id \in Nat /\ (r.id < m \/ r.id < p)
      BY <1>4 DEF StoreOK, ToldApart, Kinds
    <3> HIDE DEF m, p
    <3>3. \A r \in t.rasters : r.id <= m + p
      BY <2>2, <3>1, <3>2
    <3>4. m + p \in Nat
      BY <3>1
    <3> QED BY <3>3, <3>4 DEF Bounded
  <2> QED BY <2>1, <2>2, <2>3, <2>4, <2>5 DEF FileOK
<1> HIDE DEF f, t
<1>6. job[j].step = "publish"
  BY <1>1
<1>7. CASE disk' = [file |-> t, temp |-> None]
  BY <1>1, <1>5, <1>6, <1>7, Idle, SaverStep
<1>8. CASE disk' = [disk EXCEPT !.temp = None]
  <2>1. disk' = [file |-> f, temp |-> None]
    BY <1>3, <1>8
  <2> QED BY <1>1, <1>3, <1>6, <2>1, Idle, SaverStep
<1> QED BY <1>1, <1>7, <1>8

LEMMA NumbersFollow ==
  ASSUME NEW R, NEW m, ToldApart(R, m), Bounded(R),
         NEW numbers, numbers = [k \in Kinds |-> After({r.id : r \in {s \in R : s.kind = k}})]
  PROVE  /\ FunOn(numbers, Kinds) /\ \A k \in Kinds : numbers[k] \in Nat
         /\ \A r \in R : r.id < numbers[r.kind]
<1>1. PICK n \in Nat : \A r \in R : r.id <= n
  BY DEF Bounded
<1>2. ASSUME NEW k \in Kinds
      PROVE  numbers[k] \in Nat /\ \A r \in R : r.kind = k => r.id < numbers[k]
  <2> DEFINE ids == {r.id : r \in {s \in R : s.kind = k}}
  <2>1. ids \in SUBSET Nat /\ \A i \in ids : i <= n
    BY <1>1 DEF ToldApart
  <2>2. \A r \in R : r.kind = k => r.id \in ids
    OBVIOUS
  <2>3. numbers[k] = After(ids)
    OBVIOUS
  <2> HIDE DEF ids
  <2>4. After(ids) \in Nat
    BY <2>1, AfterIsAbove
  <2>5. \A i \in ids : i < After(ids)
    BY <2>1, AfterIsAbove
  <2> QED BY <2>2, <2>3, <2>4, <2>5
<1>3. \A r \in R : r.kind \in Kinds
  BY DEF ToldApart
<1> QED BY <1>2, <1>3 DEF FunOn

LEMMA OpenProjectStep == ASSUME IInv, NEW j \in Jobs, OpenProject(j) PROVE IInv'
<1>1. PICK d \in Docs : life[d] = "new" /\ Opened(d, disk.file)
  BY DEF OpenProject
<1> DEFINE f == disk.file
           s == [ops |-> f.ops, cursor |-> f.cursor]
           R == f.rasters
           names == {r \in R : \E i \in DOMAIN f.ops : Names(f.ops[i], r)}
           numbers == [k \in Kinds |-> After({r.id : r \in {q \in R : q.kind = k}})]
<1>2. f # None /\ UNCHANGED <<cacheVars, job, disk, made>>
  BY DEF OpenProject
<1>3. /\ life' = [life EXCEPT ![d] = "open"] /\ stack' = [stack EXCEPT ![d] = s]
      /\ rasters' = [rasters EXCEPT ![d] = R] /\ told' = [told EXCEPT ![d] = names]
      /\ next' = [next EXCEPT ![d] = numbers]
  BY <1>1 DEF Opened
<1>4. /\ List(f.ops) /\ f.cursor \in 0 .. Len(f.ops)
      /\ ToldApart(R, made) /\ Bounded(R) /\ AllKnown(f.ops, R)
  BY <1>2 DEF IInv, DiskOK, FileOK
<1>5. StackOK(s, R)
  <2>1. s = [ops |-> s.ops, cursor |-> s.cursor] /\ s.ops = f.ops /\ s.cursor = f.cursor
    OBVIOUS
  <2> HIDE DEF s
  <2> QED BY <1>4, <2>1 DEF StackOK
<1>6. names \subseteq R
  OBVIOUS
<1>n. numbers = [k \in Kinds |-> After({r.id : r \in {q \in R : q.kind = k}})]
  OBVIOUS
<1> HIDE DEF f, s, R, names, numbers
<1>7. StoreOK(R, numbers, names, made)
  <2>1. FunOn(numbers, Kinds)
    BY <1>4, <1>n, NumbersFollow
  <2>2. \A k \in Kinds : numbers[k] \in Nat
    BY <1>4, <1>n, NumbersFollow
  <2>3. \A r \in R : r.id < numbers[r.kind]
    BY <1>4, <1>n, NumbersFollow
  <2> QED BY <2>1, <2>2, <2>3, <1>4, <1>6 DEF StoreOK
<1>8. /\ made \in Nat /\ FunOn(life, Docs) /\ FunOn(rasters, Docs)
      /\ FunOn(next, Docs) /\ FunOn(told, Docs) /\ FunOn(stack, Docs) /\ rasters[d] = {}
  BY <1>1 DEF IInv, StoresOK, StacksOK
<1>9. FunOn(life', Docs) /\ \A c \in Docs : life'[c] = IF c = d THEN "open" ELSE life[c]
  BY <1>3, <1>8 DEF FunOn
<1>10. FunOn(rasters', Docs) /\ \A c \in Docs : rasters'[c] = IF c = d THEN R ELSE rasters[c]
  BY <1>3, <1>8 DEF FunOn
<1>11. FunOn(next', Docs) /\ \A c \in Docs : next'[c] = IF c = d THEN numbers ELSE next[c]
  BY <1>3, <1>8 DEF FunOn
<1>12. FunOn(told', Docs) /\ \A c \in Docs : told'[c] = IF c = d THEN names ELSE told[c]
  BY <1>3, <1>8 DEF FunOn
<1>13. FunOn(stack', Docs) /\ \A c \in Docs : stack'[c] = IF c = d THEN s ELSE stack[c]
  BY <1>3, <1>8 DEF FunOn
<1>14. StoresOK'
  <2>1. \A c \in Docs : StoreOK(rasters'[c], next'[c], told'[c], made)
    BY <1>7, <1>10, <1>11, <1>12 DEF IInv, StoresOK
  <2>2. \A c \in Docs : life'[c] = "new" => rasters'[c] = {}
    BY <1>9, <1>10 DEF IInv, StoresOK
  <2> QED BY <1>2, <1>8, <1>9, <1>10, <1>11, <1>12, <2>1, <2>2 DEF StoresOK
<1>15. StacksOK'
  BY <1>5, <1>10, <1>13 DEF IInv, StacksOK
<1>16. CachesOK'
  <2>1. \A c \in Docs : rasters[c] \subseteq rasters'[c]
    BY <1>8, <1>10
  <2>2. UNCHANGED <<developed, base, fitted>>
    BY <1>2 DEF cacheVars
  <2>3. ASSUME NEW c \in Docs, NEW k \in Kinds PROVE FittedOK(fitted[c][k], k, rasters'[c])
    <3>1. FittedOK(fitted[c][k], k, rasters[c])
      BY DEF IInv, CachesOK
    <3> QED BY <3>1, <2>1 DEF FittedOK
  <2> QED BY <2>2, <2>3 DEF IInv, CachesOK
<1>17. Grown
  BY <1>1, <1>9, <1>10 DEF Grown, Since
<1>18. WorksOK'
  BY <1>2, <1>17, WorksStay DEF IInv
<1>19. DiskOK'
  BY <1>2, <1>8, DiskSame DEF IInv
<1> QED BY <1>14, <1>15, <1>16, <1>18, <1>19 DEF IInv

-----------------------------------------------------------------------------
(* Edits.                                                                  *)

LEMMA ReshapeStep == ASSUME IInv, NEW d \in Docs, Reshape(d) PROVE IInv'
<1>1. PICK op \in Shapes :
        Apply(d, [kind |-> op.kind, geometry |-> Shaped(GeometryOf(Active(d)), op)])
  BY DEF Reshape
<1> DEFINE o == [kind |-> op.kind, geometry |-> Shaped(GeometryOf(Active(d)), op)]
<1>2. o.kind \notin {"setLayerMask", "setLayerPatch"}
  BY ShapesAssumption
<1>3. Apply(d, o)
  BY <1>1
<1> HIDE DEF o
<1>4. \A k \in Kinds : o.kind # Setter[k]
  BY <1>2, SettersDiffer
<1> QED BY <1>3, <1>4, ApplyStep

LEMMA DevelopRawStep == ASSUME IInv, NEW d \in Docs, DevelopRaw(d) PROVE IInv'
<1>1. PICK b \in Balances :
        Apply(d, [kind |-> "developRaw", balance |-> b, geometry |-> GeometryOf(Active(d))])
  BY DEF DevelopRaw
<1> DEFINE o == [kind |-> "developRaw", balance |-> b, geometry |-> GeometryOf(Active(d))]
<1>2. o.kind = "developRaw" /\ Apply(d, o)
  BY <1>1
<1> HIDE DEF o
<1>3. \A k \in Kinds : o.kind # Setter[k]
  BY <1>2, SettersDiffer
<1> QED BY <1>2, <1>3, ApplyStep

LEMMA PlaceStep == ASSUME IInv, NEW d \in Docs, Place(d) PROVE IInv'
<1>1. PICK r \in told[d] :
        Apply(d, [kind |-> Setter[r.kind], raster |-> r.id, natural |-> r.natural,
                  which |-> r.which, geometry |-> GeometryOf(Active(d))])
  BY DEF Place
<1> DEFINE o == [kind |-> Setter[r.kind], raster |-> r.id, natural |-> r.natural,
                 which |-> r.which, geometry |-> GeometryOf(Active(d))]
<1>2. /\ o.kind = Setter[r.kind] /\ o.raster = r.id /\ o.natural = r.natural
      /\ o.which = r.which /\ Apply(d, o)
  BY <1>1
<1> HIDE DEF o
<1>3. StoreOK(rasters[d], next[d], told[d], made)
  BY DEF IInv, StoresOK
<1>4. r \in rasters[d] /\ r.kind \in Kinds
  BY <1>3 DEF StoreOK, ToldApart
<1>5. Names(o, r) /\ o.natural = r.natural
  BY <1>2 DEF Names
<1>6. \A k \in Kinds : o.kind = Setter[k] =>
         \E q \in rasters[d] : q.kind = k /\ Names(o, q) /\ o.natural = q.natural
  BY <1>2, <1>4, <1>5, SettersDiffer
<1> QED BY <1>2, <1>6, ApplyStep

-----------------------------------------------------------------------------
(* The theorems.                                                           *)

LEMMA InitInv == Init => IInv
<1> SUFFICES ASSUME Init PROVE IInv
  OBVIOUS
<1>1. StoresOK
  <2>1. FunOn(life, Docs) /\ FunOn(rasters, Docs) /\ FunOn(next, Docs) /\ FunOn(told, Docs)
    BY DEF Init, FunOn
  <2>2. \A d \in Docs : rasters[d] = {} /\ told[d] = {} /\ next[d] = [k \in Kinds |-> 1]
    BY DEF Init
  <2>3. \A d \in Docs : StoreOK(rasters[d], next[d], told[d], 0)
    BY <2>2 DEF StoreOK, ToldApart, FunOn
  <2> QED BY <2>1, <2>2, <2>3 DEF Init, StoresOK
<1>2. StacksOK
  <2>1. Len(<<>>) = 0 /\ DOMAIN <<>> = {} /\ <<>> \in Seq({})
    OBVIOUS
  <2>2. List(<<>>) /\ \A R : AllKnown(<<>>, R)
    BY <2>1 DEF List, AllKnown, Known
  <2>3. \A R : StackOK(Fresh, R)
    BY <2>1, <2>2 DEF StackOK, Fresh
  <2>4. FunOn(stack, Docs) /\ \A d \in Docs : stack[d] = Fresh
    BY DEF Init, FunOn
  <2> QED BY <2>3, <2>4 DEF StacksOK
<1>3. CachesOK
  <2>1. FunOn(developed, Docs) /\ FunOn(base, Docs) /\ FunOn(fitted, Docs)
    BY DEF Init, FunOn
  <2>2. \A d \in Docs : developed[d] = None /\ base[d] = None
    BY DEF Init
  <2>3. \A d \in Docs : fitted[d] = [k \in Kinds |-> [plan |-> NoPlan, held |-> {}]]
    BY DEF Init
  <2>4. \A d \in Docs : FunOn(fitted[d], Kinds)
                        /\ \A k \in Kinds : fitted[d][k] = [plan |-> NoPlan, held |-> {}]
    BY <2>3 DEF FunOn
  <2>5. \A d \in Docs : \A k \in Kinds : FittedOK(fitted[d][k], k, rasters[d])
    BY <2>4 DEF FittedOK
  <2> QED BY <2>1, <2>2, <2>4, <2>5 DEF CachesOK, DevelopedOK, BaseOK
<1>4. FunOn(job, Jobs) /\ \A j \in Jobs : job[j] = NoJob
  BY DEF Init, FunOn
<1>5. WorksOK
  BY <1>4, Idle DEF WorksOK
<1>6. DiskOK
  <2>1. disk = [file |-> None, temp |-> None]
    BY DEF Init
  <2>2. OneSaver /\ \A j \in Jobs : job[j].step # "publish"
    BY <1>4, Idle DEF OneSaver
  <2>3. disk = [file |-> disk.file, temp |-> disk.temp] /\ disk.file = None
    BY <2>1
  <2> QED BY <2>2, <2>3 DEF DiskOK, FileOK
<1> QED BY <1>1, <1>2, <1>3, <1>5, <1>6 DEF IInv

LEMMA ReaderStepInv == ASSUME IInv, ReaderStep PROVE IInv'
BY ReshapeStep, DevelopRawStep, PlaceStep, SeekStep, PaintStep, CloseStep DEF ReaderStep

LEMMA PreviewStepInv == ASSUME IInv, NEW j \in Jobs, PreviewStep(j) PROVE IInv'
<1>1. CASE StartPreview(j)
  <2>1. PICK d \in open, limit \in Limits : Begin(j, Working("preview", "base", d, limit))
    BY <1>1 DEF StartPreview
  <2> QED BY <2>1, StartStep
<1>2. CASE FindBase(j) \/ Decode(j) \/ KeepBase(j)
  BY <1>2, FindBaseStep, DecodeStep, KeepBaseStep
<1>3. CASE \E k \in Kinds : FindFitted(j, k) \/ KeepFitted(j, k)
  BY <1>3, FindFittedStep, KeepFittedStep
<1> QED BY <1>1, <1>2, <1>3 DEF PreviewStep

LEMMA OtherJobStepInv == ASSUME IInv, NEW j \in Jobs, OtherJobStep(j) PROVE IInv'
<1>1. CASE StartExport(j)
  <2>1. PICK d \in open :
          LET g == GeometryOf(Active(d))
          IN  Begin(j, Working("export", "collect", d, <<OutputWidth(g), OutputHeight(g)>>))
    BY <1>1 DEF StartExport
  <2> DEFINE g == GeometryOf(Active(d))
             limit == <<OutputWidth(g), OutputHeight(g)>>
  <2>2. Begin(j, Working("export", "collect", d, limit))
    BY <2>1
  <2> HIDE DEF limit
  <2> QED BY <2>2, StartStep
<1>2. CASE StartSegment(j) \/ StartInpaint(j) \/ StartBackdrop(j)
  <2> DEFINE limit == <<Width, Height>>
  <2>1. PICK d \in open :
          \/ Begin(j, Working("segment", "decode", d, limit))
          \/ Begin(j, Working("inpaint", "decode", d, limit))
          \/ Begin(j, Working("backdrop", "store", d, limit))
    BY <1>2 DEF StartSegment, StartInpaint, StartBackdrop
  <2> HIDE DEF limit
  <2>2. CASE Begin(j, Working("segment", "decode", d, limit))
    BY <2>2, StartStep
  <2>3. CASE Begin(j, Working("inpaint", "decode", d, limit))
    BY <2>3, StartStep
  <2>4. CASE Begin(j, Working("backdrop", "store", d, limit))
    BY <2>4, StartStep
  <2> QED BY <2>1, <2>2, <2>3, <2>4
<1>3. CASE CollectRasters(j) \/ StoreResult(j) \/ Answer(j)
  BY <1>3, CollectStep, StoreResultStep, AnswerStep
<1> QED BY <1>1, <1>2, <1>3 DEF OtherJobStep

LEMMA ProjectStepInv == ASSUME IInv, NEW j \in Jobs, ProjectStep(j) PROVE IInv'
<1>1. "mask" \in Kinds /\ "patch" \in Kinds
  BY DEF Kinds
<1>2. CASE PackPatches(j)
  <2>1. Pack(j, "patch", "pack patches", "pack masks")
    BY <1>2 DEF PackPatches
  <2> QED BY <1>1, <2>1, PackStep
<1>3. CASE PackMasks(j)
  <2>1. Pack(j, "mask", "pack masks", "write")
    BY <1>3 DEF PackMasks
  <2> QED BY <1>1, <2>1, PackStep
<1>4. CASE StartSave(j) \/ OpenTemp(j) \/ WriteTemp(j) \/ Publish(j) \/ OpenProject(j)
  BY <1>4, StartSaveStep, OpenTempStep, WriteTempStep, PublishStep, OpenProjectStep
<1> QED BY <1>2, <1>3, <1>4 DEF ProjectStep

LEMMA StutterInv == ASSUME IInv, UNCHANGED vars PROVE IInv'
<1>1. StoresOK' /\ StacksOK' /\ CachesOK'
  BY StoresStay, StacksStay, CachesStay DEF IInv, vars, storeVars, cacheVars, countVars
<1>2. Grown /\ made' = made /\ made \in Nat /\ UNCHANGED <<job, disk>>
  BY NothingGrew DEF IInv, vars, storeVars, countVars, StoresOK
<1>3. WorksOK' /\ DiskOK'
  BY <1>2, WorksStay, DiskSame DEF IInv
<1> QED BY <1>1, <1>3 DEF IInv

LEMMA NextInv == IInv /\ [Next]_vars => IInv'
BY ReaderStepInv, PreviewStepInv, OtherJobStepInv, ProjectStepInv, StutterInv DEF Next

\* The invariant of every document, cache, worker and project file holds always.
THEOREM Consistent == Spec => []IInv
BY InitInv, NextInv, PTL DEF Spec

\* A picture that was made is the one its operations make from nothing, however
\* many documents, jobs and caches there were (engine.cpp: CachedBase,
\* DevelopedSource, CachedFittedMask, CachedFittedPatch).
THEOREM CachesAreInvisible == Spec => []PictureIsItsStack
<1>1. IInv => PictureIsItsStack
  <2> SUFFICES ASSUME IInv, NEW j \in Jobs, job[j].kind \in Reading, job[j].step = "done"
               PROVE  /\ job[j].pixels = [source |-> job[j].balance, shape |-> Shape(job[j].plan)]
                      /\ job[j].drawn =
                           {Sized(r, job[j].plan) : r \in {s \in rasters[job[j].doc] :
                             /\ s.natural = Natural(job[j].plan.geometry)
                             /\ \E op \in Layered(job[j].ops, s.kind) : op.which = s.which}}
    BY DEF PictureIsItsStack
  <2> DEFINE w == job[j]
             R == rasters[w.doc]
  <2>1. WorkOK(w, rasters, life) /\ w.kind \in {"preview", "export"} /\ w.step = "done"
    BY DEF IInv, WorksOK, Reading
  <2>2. w.doc \in Docs /\ Developed(w) /\ Drew(w, R)
    BY <2>1 DEF WorkOK, PreviewOK, ExportOK
  <2>3. \A r \in R : r.kind = "mask" \/ r.kind = "patch"
    BY <2>2 DEF IInv, StoresOK, StoreOK, ToldApart, Kinds
  <2> HIDE DEF w, R
  <2>4. w.drawn = {Sized(r, w.plan) : r \in {s \in R :
                    /\ s.natural = Natural(w.plan.geometry)
                    /\ \E op \in Layered(w.ops, s.kind) : op.which = s.which}}
    <3> DEFINE M == {s \in R : /\ s.kind = "mask" /\ s.natural = Natural(w.plan.geometry)
                               /\ \E op \in Layered(w.ops, "mask") : op.which = s.which}
               P == {s \in R : /\ s.kind = "patch" /\ s.natural = Natural(w.plan.geometry)
                               /\ \E op \in Layered(w.ops, "patch") : op.which = s.which}
               A == {s \in R : /\ s.natural = Natural(w.plan.geometry)
                               /\ \E op \in Layered(w.ops, s.kind) : op.which = s.which}
    <3>1. w.drawn = {Sized(r, w.plan) : r \in M} \cup {Sized(r, w.plan) : r \in P}
      BY <2>2 DEF Drew, Pictures
    <3>2. A = M \cup P
      BY <2>3
    <3> HIDE DEF M, P, A
    <3>3. w.drawn = {Sized(r, w.plan) : r \in A}
      BY <3>1, <3>2
    <3> QED BY <3>3 DEF A
  <2> QED BY <2>2, <2>4 DEF Developed, w, R
<1> QED BY <1>1, Consistent, PTL

\* What is at the project's path is a whole archive with every raster its
\* operations name in it, at every moment (project/project.cpp: SaveProject;
\* engine.cpp: SaveProjectJob).
THEOREM SavedProjectsAreWhole == Spec => []ProjectIsWhole
<1>1. IInv => ProjectIsWhole
  <2> SUFFICES ASSUME IInv, disk.file # None
               PROVE  /\ disk.file # Partial
                      /\ \A i \in DOMAIN disk.file.ops :
                           disk.file.ops[i].kind \in {Setter[k] : k \in Kinds} =>
                             \E r \in disk.file.rasters : Names(disk.file.ops[i], r)
    BY DEF ProjectIsWhole
  <2> DEFINE f == disk.file
  <2>1. f.written = "wholly" /\ AllKnown(f.ops, f.rasters)
    BY DEF IInv, DiskOK, FileOK
  <2> HIDE DEF f
  <2>2. f # Partial
    BY <2>1 DEF Partial
  <2>3. ASSUME NEW i \in DOMAIN f.ops, f.ops[i].kind \in {Setter[k] : k \in Kinds}
        PROVE  \E r \in f.rasters : Names(f.ops[i], r)
    <3>1. PICK k \in Kinds : f.ops[i].kind = Setter[k]
      BY <2>3
    <3> QED BY <3>1, <2>1 DEF AllKnown, Known
  <2> QED BY <2>2, <2>3 DEF f
<1> QED BY <1>1, Consistent, PTL

LEMMA RastersOnlyGrow ==
  ASSUME IInv, Next PROVE \A d \in Docs : rasters[d] \subseteq rasters'[d]
<1>1. Grown => \A d \in Docs : rasters[d] \subseteq rasters'[d]
  BY DEF IInv, StoresOK, Grown, Since
<1>2. ASSUME UNCHANGED storeVars PROVE \A d \in Docs : rasters[d] \subseteq rasters'[d]
  BY <1>2 DEF storeVars
<1>3. CASE ReaderStep
  <2>1. PICK d \in Docs : \/ Reshape(d) \/ DevelopRaw(d) \/ Place(d) \/ Seek(d) \/ CloseImage(d)
                          \/ PaintMask(d)
    BY <1>3 DEF ReaderStep
  <2>2. CASE PaintMask(d)
    <3> DEFINE here == Natural(GeometryOf(Active(d)))
    <3>1. Stored(d, "mask", here, here) /\ life[d] # "new"
          /\ UNCHANGED <<life, stack, developed, base>>
      BY <2>2 DEF PaintMask, open
    <3> HIDE DEF here
    <3>2. Grown
      BY <3>1, StoredStep DEF Kinds
    <3> QED BY <3>2, <1>1
  <2>3. CASE Reshape(d) \/ DevelopRaw(d) \/ Place(d) \/ Seek(d) \/ CloseImage(d)
    <3>1. UNCHANGED storeVars
      BY <2>3 DEF Reshape, DevelopRaw, Place, Seek, CloseImage, Apply
    <3> QED BY <3>1, <1>2
  <2> QED BY <2>1, <2>2, <2>3
<1>4. ASSUME NEW j \in Jobs, PreviewStep(j) PROVE UNCHANGED storeVars
  BY <1>4 DEF PreviewStep, StartPreview, Begin, FindBase, Decode, KeepBase, FindFitted, KeepFitted
<1>5. ASSUME NEW j \in Jobs, OtherJobStep(j) PROVE \A d \in Docs : rasters[d] \subseteq rasters'[d]
  <2>1. CASE StoreResult(j)
    <3> DEFINE w == job[j]
               c == w.doc
               k == IF w.kind = "segment" THEN "mask" ELSE "patch"
               natural == Natural(IF w.kind = "backdrop" THEN GeometryOf(Active(w.doc))
                                  ELSE w.plan.geometry)
               measured == IF w.kind = "inpaint" THEN w.plan.size ELSE natural
    <3>1. w.step = "store" /\ UNCHANGED <<life, stack, developed, base>>
          /\ Stored(c, k, natural, measured)
      BY <2>1 DEF StoreResult
    <3>2. WorkOK(w, rasters, life)
      BY DEF IInv, WorksOK
    <3>3. c \in Docs /\ life[c] # "new"
      BY <3>1, <3>2 DEF WorkOK
    <3>4. k \in Kinds
      BY DEF Kinds
    <3> HIDE DEF w, c, k, natural, measured
    <3>5. Grown
      BY <3>1, <3>3, <3>4, StoredStep
    <3> QED BY <3>5, <1>1
  <2>2. CASE StartExport(j) \/ CollectRasters(j) \/ StartSegment(j) \/ StartInpaint(j)
             \/ StartBackdrop(j) \/ Answer(j)
    <3>1. UNCHANGED storeVars
      BY <2>2 DEF StartExport, CollectRasters, StartSegment, StartInpaint, StartBackdrop, Answer, Begin
    <3> QED BY <3>1, <1>2
  <2> QED BY <1>5, <2>1, <2>2 DEF OtherJobStep
<1>6. ASSUME NEW j \in Jobs, ProjectStep(j) PROVE \A d \in Docs : rasters[d] \subseteq rasters'[d]
  <2>1. CASE OpenProject(j)
    <3>1. PICK d \in Docs : /\ life[d] = "new"
                            /\ rasters' = [rasters EXCEPT ![d] = disk.file.rasters]
      BY <2>1 DEF OpenProject, Opened
    <3>2. FunOn(rasters, Docs) /\ rasters[d] = {}
      BY <3>1 DEF IInv, StoresOK
    <3> QED BY <3>1, <3>2 DEF FunOn
  <2>2. CASE StartSave(j) \/ PackPatches(j) \/ PackMasks(j) \/ OpenTemp(j) \/ WriteTemp(j) \/ Publish(j)
    <3>1. UNCHANGED storeVars
      BY <2>2 DEF StartSave, Begin, PackPatches, PackMasks, Pack, OpenTemp, WriteTemp, Publish
    <3> QED BY <3>1, <1>2
  <2> QED BY <1>6, <2>1, <2>2 DEF ProjectStep
<1>7. ASSUME NEW j \in Jobs, PreviewStep(j) PROVE \A d \in Docs : rasters[d] \subseteq rasters'[d]
  BY <1>2, <1>4, <1>7
<1> QED BY <1>3, <1>5, <1>6, <1>7 DEF Next

\* A raster stays what it is under its number (document_store.cpp: StoreMask,
\* StorePatch, RestoreMask, RestorePatch).
THEOREM RastersKeepTheirNumbers == Spec => RastersStay
<1> DEFINE Kept == \A d \in Docs : rasters[d] \subseteq rasters'[d]
<1>1. IInv /\ [Next]_vars => [Kept]_vars
  <2> SUFFICES ASSUME IInv, Next PROVE Kept
    OBVIOUS
  <2> QED BY RastersOnlyGrow
<1>2. RastersStay <=> [][Kept]_vars
  BY DEF RastersStay
<1> HIDE DEF Kept
<1> QED BY <1>1, <1>2, Consistent, PTL DEF Spec
=============================================================================
