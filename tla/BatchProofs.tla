------------------------------ MODULE BatchProofs ------------------------------
(***************************************************************************)
(* Proofs about Batch, for every folder, every list of photographs, every  *)
(* request and any number of documents, edits and calls that time out; and *)
(* about LibraryWindow, for every folder of files, any number of listings, *)
(* changes, stars, batches, stops, reloads, saves and paths handed over.   *)
(* LibraryWindow has its four parts one after the other (the catalogue,    *)
(* how the window comes up, the batch desk, the tiles), each with its      *)
(* inductive invariant, then the window that puts them together.           *)
(***************************************************************************)
EXTENDS Batch, LibraryWindow, FiniteSetTheorems, SequenceTheorems, WellFoundedInduction, TLAPS

-----------------------------------------------------------------------------
(* The inductive invariant.                                                *)

OpTypes == {Look, ByHand} \cup [kind : {"resize"}, width : Nat \ {0}, height : Nat \ {0}]
DocType == [id : Nat, path : Paths, picture : Pictures, ops : Seq(OpTypes)]
ItemType == [path : Paths, outcome : {"exported", "failed", "cancelled"}]

DiskOK == disk \in [FilesOnDisk -> {None, Broken} \cup Pictures]

\* One item for each photograph the loop is done with, and none is exported over
\* itself.
Place ==
  /\ step \in {"next", "opening", "working"} => Len(items) = index - 1
  /\ step = "closing" => Len(items) = index
  /\ step \in {"opening", "working", "closing"} => index <= Len(request.paths)
  /\ step \in {"opening", "working"} => TargetOf(Source, request) # Source

LoopOK ==
  /\ request \in Requests /\ step \in Steps /\ cancelling \in BOOLEAN
  /\ index \in 1..(Len(request.paths) + 1)
  /\ documentId # None <=> step \in {"working", "closing"}
  /\ todo \in Seq(OpTypes)
  /\ items \in Seq(ItemType) /\ Len(items) <= Len(request.paths)
  /\ \A k \in DOMAIN items : items[k].path = request.paths[k]
  /\ Place

\* Numbers are given once: a document that is to come has none of those in use,
\* and the batch's calls, late ones too, are not for the user's document.
Ids ==
  /\ \A d \in docs : d.id < nextId
  /\ documentId # None => documentId < nextId /\ documentId # userDoc
  /\ userDoc # None => userDoc < nextId
  /\ \A c \in abandoned : c.call \notin {"image.open", "write"} =>
       /\ c.id \in Nat /\ c.id < nextId /\ c.id # userDoc
       /\ step = "working" => c.id # documentId
  /\ ~up => docs = {} /\ abandoned = {}

\* Where a photograph may be exported to: not to a path spelt as its own.
Aims(p, place) == place # p /\ \E r \in Requests : place = TargetOf(p, r)

\* What the engine may still do for the host: no late export, begun or not, is to
\* the path of its source.
LateCalls ==
  \A c \in abandoned :
    \/ c.call = "image.open" /\ c.path \in Paths
    \/ c.call = "image.close"
    \/ c.call = "edit.apply" /\ c.op \in OpTypes
    \/ /\ c.call = "image.export" /\ c.target \in Paths
       /\ \A d \in docs : d.id = c.id => Aims(d.path, c.target)
    \/ /\ c.call = "write" /\ c.target \in Paths
       /\ c.picture \in Pictures /\ Aims(c.picture.from, c.target)

UsersOwn ==
  /\ \A d \in docs : d.id = userDoc => d.ops = [k \in 1..hand |-> ByHand]
  /\ userDoc = None => hand = 0

\* The documents nobody will close again: each took a timeout, and so did each
\* open the engine may still carry out.
DocIds == {d.id : d \in docs}
Orphans == DocIds \ {documentId, userDoc}
OpensLeft == {c \in abandoned : c.call = "image.open"}
OrphansCounted == Cardinality(Orphans) + Cardinality(OpensLeft) <= timeouts

DocsOK == docs \subseteq DocType /\ \A c, d \in docs : c.id = d.id => c = d

EngineOK ==
  /\ up \in BOOLEAN /\ nextId \in Nat /\ timeouts \in 0..MaxTimeouts /\ hand \in 0..MaxHand
  /\ documentId \in Nat \cup {None} /\ userDoc \in Nat \cup {None}
  /\ IsFiniteSet(abandoned)
  /\ DocsOK /\ Ids /\ LateCalls /\ UsersOwn /\ OrphansCounted

\* What was applied and what is still to apply are the operations asked for.
Unfolds(ops, rest, full) ==
  /\ Len(ops) + Len(rest) = Len(full)
  /\ \A i \in 1..Len(ops) : ops[i] = full[i]
  /\ \A i \in 1..Len(rest) : rest[i] = full[Len(ops) + i]

AtHand ==
  step = "working" => \A d \in docs : d.id = documentId =>
    d.path = Source /\ Unfolds(d.ops, todo, Operations(request, d.picture))

IInv == DiskOK /\ LoopOK /\ EngineOK /\ AtHand

-----------------------------------------------------------------------------
(* Operations and pictures.                                                *)

\* A side scaled down to a limit is within the limit and no longer than it was.
LEMMA ScaledDown ==
  ASSUME NEW side \in Nat \ {0}, NEW limit \in Nat \ {0}, NEW larger \in Nat \ {0},
         side <= larger, limit < larger
  PROVE  /\ Scaled(side, limit, larger) \in Nat \ {0}
         /\ Scaled(side, limit, larger) <= limit
         /\ Scaled(side, limit, larger) <= side
<1> DEFINE x == 2 * side * limit + larger  y == 2 * larger  q == x \div y
<1>1. x \in Nat /\ y \in Nat /\ y > 0
  OBVIOUS
<1>2. q \in Int /\ q * y <= x
  <2> HIDE DEF x, y
  <2> QED BY <1>1
<1>3. q <= limit
  <2>1. side * limit <= larger * limit
    OBVIOUS
  <2>2. x <= 2 * (larger * limit) + larger
    BY <2>1
  <2>3. ASSUME q >= limit + 1 PROVE FALSE
    <3>1. (limit + 1) * y <= q * y
      <4> HIDE DEF x, y, q
      <4> QED BY <1>1, <1>2, <2>3
    <3>2. (limit + 1) * y = 2 * (larger * limit) + 2 * larger
      OBVIOUS
    <3> HIDE DEF x, y, q
    <3>3. larger * limit \in Int /\ (limit + 1) * y \in Int /\ q * y \in Int /\ x \in Int
      BY <1>1, <1>2
    <3> QED BY <1>2, <2>2, <3>1, <3>2, <3>3
  <2> HIDE DEF q
  <2> QED BY <1>2, <2>3
<1>4. q <= side
  <2>1. side * limit <= side * (larger - 1)
    OBVIOUS
  <2>2. side * (larger - 1) = side * larger - side
    OBVIOUS
  <2>3. x <= 2 * (side * larger) - 2 * side + larger
    BY <2>1, <2>2
  <2>4. ASSUME q >= side + 1 PROVE FALSE
    <3>1. (side + 1) * y <= q * y
      <4> HIDE DEF x, y, q
      <4> QED BY <1>1, <1>2, <2>4
    <3>2. (side + 1) * y = 2 * (side * larger) + 2 * larger
      OBVIOUS
    <3> HIDE DEF x, y, q
    <3>3. side * larger \in Int /\ (side + 1) * y \in Int /\ q * y \in Int /\ x \in Int
      BY <1>1, <1>2
    <3> QED BY <1>2, <2>3, <3>1, <3>2, <3>3
  <2> HIDE DEF q
  <2> QED BY <1>2, <2>4
<1>5. Scaled(side, limit, larger) = IF q < 1 THEN 1 ELSE q
  BY DEF Scaled
<1> HIDE DEF q
<1> QED BY <1>2, <1>3, <1>4, <1>5

ResizeFor(r, picture) ==
  [kind |-> "resize", width |-> Scaled(picture.width, r.maxSide, Larger(picture)),
   height |-> Scaled(picture.height, r.maxSide, Larger(picture))]

\* What a request asks of a picture, operation by operation.
LEMMA OperationsShape ==
  ASSUME NEW r \in Requests, NEW picture \in Pictures
  PROVE  /\ Operations(r, picture) \in Seq(OpTypes)
         /\ \/ /\ r.maxSide = None \/ Larger(picture) <= r.maxSide
               /\ Operations(r, picture) = IF r.adjustments THEN <<Look>> ELSE <<>>
            \/ /\ r.maxSide # None /\ r.maxSide < Larger(picture)
               /\ Operations(r, picture) =
                    IF r.adjustments THEN <<Look, ResizeFor(r, picture)>>
                    ELSE <<ResizeFor(r, picture)>>
               /\ ResizeFor(r, picture) \in OpTypes
<1> DEFINE larger == Larger(picture)  resize == ResizeFor(r, picture)
<1>1. /\ picture.width \in Nat \ {0} /\ picture.height \in Nat \ {0}
      /\ larger \in Nat \ {0} /\ picture.width <= larger /\ picture.height <= larger
  BY DEF Pictures, Larger
<1>2. r.maxSide \in {None} \cup (Nat \ {0}) /\ r.adjustments \in BOOLEAN
  BY BatchAssumption
<1>3. Look \in OpTypes
  BY DEF OpTypes
<1>4. CASE r.maxSide # None /\ r.maxSide < larger
  <2>1. resize \in OpTypes
    <3>1. /\ Scaled(picture.width, r.maxSide, larger) \in Nat \ {0}
          /\ Scaled(picture.height, r.maxSide, larger) \in Nat \ {0}
      BY <1>1, <1>2, <1>4, ScaledDown
    <3> QED BY <3>1 DEF OpTypes, ResizeFor
  <2>2. Operations(r, picture) = (IF r.adjustments THEN <<Look>> ELSE <<>>) \o <<resize>>
    BY <1>4 DEF Operations, ResizeFor
  <2> HIDE DEF resize
  <2>3. Operations(r, picture) = IF r.adjustments THEN <<Look, resize>> ELSE <<resize>>
    BY <2>2
  <2> QED BY <1>3, <1>4, <2>1, <2>3 DEF resize
<1>5. CASE ~(r.maxSide # None /\ r.maxSide < larger)
  <2>1. Operations(r, picture) = (IF r.adjustments THEN <<Look>> ELSE <<>>) \o <<>>
    BY <1>5 DEF Operations
  <2>2. Operations(r, picture) = IF r.adjustments THEN <<Look>> ELSE <<>>
    BY <2>1
  <2> QED BY <1>1, <1>2, <1>3, <1>5, <2>2
<1> QED BY <1>4, <1>5

Before == {pair \in Nat \X Nat : pair[1] < pair[2]}

\* A set of numbers has a least, and a bounded one a greatest.
LEMMA HasLeast ==
  ASSUME NEW T \in SUBSET Nat, T # {} PROVE \E x \in T : \A y \in T : x <= y
<1>1. IsWellFoundedOn(Before, Nat)
  BY NatLessThanWellFounded DEF OpToRel, Before
<1>2. PICK x \in T : \A y \in T : ~ (<<y, x>> \in Before)
  BY <1>1, WFMin
<1>3. ASSUME NEW y \in T PROVE x <= y
  <2>1. x \in Nat /\ y \in Nat
    OBVIOUS
  <2>2. ~ (y < x)
    BY <1>2, <2>1 DEF Before
  <2> QED BY <2>1, <2>2
<1> QED BY <1>3

LEMMA HasGreatest ==
  ASSUME NEW S \in SUBSET Nat, S # {}, NEW n \in Nat, \A s \in S : s <= n
  PROVE  Max(S) \in S /\ \A s \in S : s <= Max(S)
<1> DEFINE T == {m \in Nat : \A s \in S : s <= m}
<1>1. PICK m \in T : \A y \in T : m <= y
  BY HasLeast
<1>2. m \in Nat /\ \A s \in S : s \in Nat /\ s <= m
  OBVIOUS
<1>3. m \in S
  <2>1. CASE m = 0
    <3>1. PICK s \in S : TRUE
      OBVIOUS
    <3>2. s = m
      BY <2>1, <1>2
    <3> QED BY <3>2
  <2>2. CASE m # 0 /\ m \notin S
    <3>1. \A s \in S : s <= m - 1
      BY <2>2, <1>2
    <3>2. m - 1 \in T
      BY <2>2, <1>2, <3>1
    <3> QED BY <3>2, <1>1, <1>2
  <2> QED BY <2>1, <2>2
<1>4. Max(S) \in S /\ \A s \in S : Max(S) >= s
  BY <1>2, <1>3 DEF Max
<1> QED BY <1>4, <1>2

\* A rendered picture is one, and was made from the file its document was opened
\* from.
LEMMA RenderedType ==
  ASSUME NEW d \in DocType
  PROVE  Rendered(d) \in Pictures /\ Rendered(d).from = d.path
<1> DEFINE n == Len(d.ops)  last == d.ops[Max(Resizes(d))]
<1>1. d.ops \in Seq(OpTypes) /\ n \in Nat /\ d.picture \in Pictures /\ d.path \in Paths
  BY DEF DocType
<1>2. \A i \in DOMAIN d.ops : i \in Nat /\ i <= n /\ d.ops[i] \in OpTypes
  BY <1>1
<1>3. /\ d.picture.width \in Nat \ {0} /\ d.picture.height \in Nat \ {0}
      /\ d.picture.toned \in BOOLEAN
  BY <1>1 DEF Pictures
<1>4. CASE Resizes(d) # {}
  <2>1. Max(Resizes(d)) \in Resizes(d)
    BY <1>1, <1>2, <1>4, HasGreatest DEF Resizes
  <2>2. last \in OpTypes /\ last.kind = "resize"
    BY <1>2, <2>1 DEF Resizes
  <2>3. last.width \in Nat \ {0} /\ last.height \in Nat \ {0}
    BY <2>2 DEF OpTypes, Look, ByHand
  <2> HIDE DEF last
  <2> DEFINE toned == d.picture.toned \/ Contains(d.ops, Look)
  <2>4. toned \in BOOLEAN
    BY <1>3
  <2>5. Rendered(d) = [from |-> d.path, toned |-> toned, width |-> last.width, height |-> last.height]
    BY <1>4 DEF Rendered, last
  <2> HIDE DEF toned
  <2> QED BY <1>1, <2>3, <2>4, <2>5 DEF Pictures
<1>5. CASE Resizes(d) = {}
  <2> DEFINE toned == d.picture.toned \/ Contains(d.ops, Look)
  <2>1. toned \in BOOLEAN
    BY <1>3
  <2>2. Rendered(d) = [from |-> d.path, toned |-> toned,
                       width |-> d.picture.width, height |-> d.picture.height]
    BY <1>5 DEF Rendered
  <2> HIDE DEF toned
  <2> QED BY <1>1, <1>3, <2>1, <2>2 DEF Pictures
<1> QED BY <1>4, <1>5

\* Applying begins with all of the operations to come, moves one over at a time,
\* and ends with all of them applied.
LEMMA UnfoldsStart ==
  ASSUME NEW full \in Seq(OpTypes) PROVE Unfolds(<<>>, full, full)
  BY DEF Unfolds

LEMMA UnfoldsStep ==
  ASSUME NEW full \in Seq(OpTypes), NEW ops \in Seq(OpTypes), NEW rest \in Seq(OpTypes),
         rest # <<>>, Unfolds(ops, rest, full)
  PROVE  Unfolds(Append(ops, Head(rest)), Tail(rest), full)
<1> DEFINE more == Append(ops, Head(rest))  less == Tail(rest)
<1>1. /\ Len(rest) \in Nat \ {0} /\ Len(ops) \in Nat
      /\ Len(more) = Len(ops) + 1 /\ Len(less) = Len(rest) - 1
      /\ \A i \in 1..Len(ops) : more[i] = ops[i]
      /\ more[Len(ops) + 1] = rest[1]
      /\ \A i \in 1..(Len(rest) - 1) : less[i] = rest[i + 1]
  OBVIOUS
<1> HIDE DEF more, less
<1>2. rest[1] = full[Len(ops) + 1]
  BY <1>1 DEF Unfolds
<1>3. \A i \in 1..Len(more) : more[i] = full[i]
  <2> TAKE i \in 1..Len(more)
  <2>1. CASE i \in 1..Len(ops)
    BY <1>1, <2>1 DEF Unfolds
  <2>2. CASE i = Len(ops) + 1
    BY <1>1, <1>2, <2>2
  <2> QED BY <1>1, <2>1, <2>2
<1>4. \A i \in 1..Len(less) : less[i] = full[Len(more) + i]
  <2> TAKE i \in 1..Len(less)
  <2>1. i + 1 \in 1..Len(rest) /\ i \in 1..(Len(rest) - 1) /\ i \in Nat
    BY <1>1
  <2>2. less[i] = full[Len(ops) + (i + 1)]
    BY <1>1, <2>1 DEF Unfolds
  <2>3. Len(ops) + (i + 1) = Len(more) + i
    BY <1>1, <2>1
  <2> QED BY <2>2, <2>3
<1>5. Len(more) + Len(less) = Len(full)
  <2>1. Len(ops) + Len(rest) = Len(full)
    BY DEF Unfolds
  <2> DEFINE m == Len(ops)  n == Len(rest)  k == Len(more)  l == Len(less)
  <2>2. m \in Nat /\ n \in Nat \ {0} /\ k = m + 1 /\ l = n - 1
    BY <1>1
  <2> HIDE DEF m, n, k, l
  <2>3. k + l = m + n
    BY <2>2
  <2> QED BY <2>1, <2>3 DEF m, n, k, l
<1> QED BY <1>3, <1>4, <1>5 DEF Unfolds, more, less

LEMMA UnfoldsEnd ==
  ASSUME NEW full \in Seq(OpTypes), NEW ops \in Seq(OpTypes), Unfolds(ops, <<>>, full)
  PROVE  Len(ops) = Len(full) /\ \A i \in 1..Len(full) : ops[i] = full[i]
  BY DEF Unfolds

\* A document with every operation of the request, and no other, renders to what
\* the batch promises.
LEMMA PromiseKept ==
  ASSUME NEW r \in Requests, NEW d \in DocType,
         Unfolds(d.ops, <<>>, Operations(r, d.picture))
  PROVE  Promised(Rendered(d), r, d.picture)
<1> DEFINE full == Operations(r, d.picture)  larger == Larger(d.picture)
           resize == ResizeFor(r, d.picture)
           rendered == Rendered(d)
<1>1. /\ d.picture.width \in Nat \ {0} /\ d.picture.height \in Nat \ {0}
      /\ larger \in Nat \ {0} /\ d.picture.width <= larger /\ d.picture.height <= larger
      /\ d.ops \in Seq(OpTypes) /\ d.picture \in Pictures
  BY DEF DocType, Pictures, Larger
<1>2. r.maxSide \in {None} \cup (Nat \ {0}) /\ r.adjustments \in BOOLEAN
  BY BatchAssumption
<1>3. full \in Seq(OpTypes) /\ Len(d.ops) = Len(full) /\ \A i \in 1..Len(full) : d.ops[i] = full[i]
  BY <1>1, OperationsShape, UnfoldsEnd
<1>4. Look.kind = "adjust" /\ resize.kind = "resize"
  BY DEF Look, ResizeFor
<1>5. /\ Resizes(d) = {} => rendered.width = d.picture.width /\ rendered.height = d.picture.height
      /\ Resizes(d) # {} => /\ rendered.width = d.ops[Max(Resizes(d))].width
                            /\ rendered.height = d.ops[Max(Resizes(d))].height
      /\ Contains(d.ops, Look) => rendered.toned
  BY DEF Rendered
<1>6. CASE r.maxSide = None \/ larger <= r.maxSide
  <2>1. full = IF r.adjustments THEN <<Look>> ELSE <<>>
    BY <1>1, <1>2, <1>6, OperationsShape
  <2>2. Len(full) \in {0, 1} /\ (\A i \in 1..Len(full) : full[i] = Look)
        /\ (r.adjustments => Len(full) = 1)
    BY <1>2, <2>1
  <2> HIDE DEF full
  <2>3. Resizes(d) = {}
    BY <1>1, <1>3, <1>4, <2>2 DEF Resizes
  <2>4. r.adjustments => Contains(d.ops, Look)
    BY <1>3, <2>2 DEF Contains
  <2> HIDE DEF rendered
  <2> QED BY <1>1, <1>5, <2>3, <2>4 DEF Promised, Larger, rendered
<1>7. CASE r.maxSide # None /\ r.maxSide < larger
  <2>1. full = IF r.adjustments THEN <<Look, resize>> ELSE <<resize>>
    <3>1. ~ (r.maxSide = None \/ larger <= r.maxSide)
      BY <1>1, <1>2, <1>7
    <3> HIDE DEF larger
    <3>2. d.picture \in Pictures
      BY <1>1
    <3> QED BY <3>1, <3>2, OperationsShape DEF larger
  <2> HIDE DEF resize
  <2>2. /\ Len(full) \in {1, 2} /\ full[Len(full)] = resize
        /\ (\A i \in 1..Len(full) : i # Len(full) => full[i] = Look)
        /\ (r.adjustments => full[1] = Look)
    BY <1>2, <2>1
  <2> HIDE DEF full
  <2>3. Resizes(d) = {Len(full)}
    <3>1. DOMAIN d.ops = 1..Len(full) /\ Len(full) \in 1..Len(full)
      <4>1. DOMAIN d.ops = 1..Len(d.ops) /\ Len(d.ops) = Len(full)
        BY <1>1, <1>3
      <4>2. Len(full) \in {1, 2}
        BY <2>2
      <4> DEFINE n == Len(full)
      <4>3. n \in {1, 2} => n \in 1..n
        <5> HIDE DEF n
        <5> QED OBVIOUS
      <4>4. DOMAIN d.ops = 1..Len(full)
        BY <4>1
      <4> QED BY <4>2, <4>3, <4>4
    <3>2. \A i \in 1..Len(full) : i # Len(full) => d.ops[i].kind # "resize"
      BY <1>3, <1>4, <2>2
    <3>3. d.ops[Len(full)].kind = "resize"
      BY <1>3, <1>4, <2>2, <3>1
    <3> QED BY <3>1, <3>2, <3>3 DEF Resizes
  <2>4. Max(Resizes(d)) = Len(full)
    <3>1. Len(full) \in Nat
      BY <2>2
    <3> QED BY <2>3, <3>1 DEF Max
  <2>5. d.ops[Len(full)] = resize
    BY <1>3, <2>2
  <2>6. rendered.width = Scaled(d.picture.width, r.maxSide, larger)
        /\ rendered.height = Scaled(d.picture.height, r.maxSide, larger)
    BY <1>5, <2>3, <2>4, <2>5 DEF resize, ResizeFor
  <2>7. r.adjustments => rendered.toned
    BY <1>3, <1>5, <2>2 DEF Contains
  <2>8. /\ Scaled(d.picture.width, r.maxSide, larger) <= r.maxSide
        /\ Scaled(d.picture.height, r.maxSide, larger) <= r.maxSide
        /\ Scaled(d.picture.width, r.maxSide, larger) <= d.picture.width
        /\ Scaled(d.picture.height, r.maxSide, larger) <= d.picture.height
    BY <1>1, <1>2, <1>7, ScaledDown
  <2>9. Larger(rendered) <= r.maxSide
    BY <2>6, <2>8 DEF Larger
  <2> HIDE DEF rendered
  <2> QED BY <2>6, <2>7, <2>8, <2>9 DEF Promised, rendered
<1> QED BY <1>1, <1>2, <1>6, <1>7

-----------------------------------------------------------------------------
(* What a call does to the documents.                                      *)

\* An opened photograph is one document more, under a number of its own.
Fresh(p) == [id |-> nextId, path |-> p, picture |-> disk[FileOf[p]], ops |-> <<>>]

LEMMA OpenedDocs ==
  ASSUME IInv, NEW p \in Paths, Decodable(p), Opened(p)
  PROVE  /\ docs' = docs \cup {Fresh(p)} /\ Fresh(p) \in DocType /\ nextId' = nextId + 1
         /\ DocsOK' /\ DocIds' = DocIds \cup {nextId}
         /\ disk[FileOf[p]] \in Pictures
<1>1. nextId \in Nat /\ DocsOK /\ \A d \in docs : d.id < nextId
  BY DEF IInv, EngineOK, Ids
<1>2. disk[FileOf[p]] \in Pictures
  BY DEF IInv, DiskOK, FilesOnDisk, Decodable
<1>3. \A d \in docs : d.id # nextId
  BY <1>1 DEF DocsOK, DocType
<1>4. docs' = docs \cup {Fresh(p)} /\ nextId' = nextId + 1
  BY <1>3 DEF Opened, NewId, Fresh
<1>5. Fresh(p) \in DocType /\ Fresh(p).id = nextId
  BY <1>1, <1>2 DEF Fresh, DocType
<1>6. DocsOK'
  <2>1. docs' \subseteq DocType
    BY <1>1, <1>4, <1>5 DEF DocsOK
  <2>2. \A c, d \in docs' : c.id = d.id => c = d
    BY <1>1, <1>3, <1>4, <1>5 DEF DocsOK
  <2> QED BY <2>1, <2>2 DEF DocsOK
<1>7. DocIds' = DocIds \cup {nextId}
  BY <1>4, <1>5 DEF DocIds
<1> QED BY <1>2, <1>4, <1>5, <1>6, <1>7

\* An operation is appended to the document it is for, and nothing else becomes
\* of any.
EditOf(d, id, op) == IF d.id = id THEN [d EXCEPT !.ops = Append(@, op)] ELSE d

LEMMA OneEdited ==
  ASSUME NEW d \in DocType, NEW id, NEW op \in OpTypes
  PROVE  /\ EditOf(d, id, op) \in DocType /\ EditOf(d, id, op).id = d.id
         /\ EditOf(d, id, op).path = d.path /\ EditOf(d, id, op).picture = d.picture
         /\ EditOf(d, id, op).ops = IF d.id = id THEN Append(d.ops, op) ELSE d.ops
<1>1. d.ops \in Seq(OpTypes) /\ Append(d.ops, op) \in Seq(OpTypes)
  BY DEF DocType
<1> DEFINE longer == Append(d.ops, op)
<1>2. EditOf(d, id, op) = IF d.id = id THEN [d EXCEPT !.ops = longer] ELSE d
  BY DEF EditOf
<1> HIDE DEF longer
<1>3. d = [id |-> d.id, path |-> d.path, picture |-> d.picture, ops |-> d.ops]
  BY DEF DocType
<1>4. [d EXCEPT !.ops = longer] =
        [id |-> d.id, path |-> d.path, picture |-> d.picture, ops |-> longer]
  BY <1>3
<1>5. longer \in Seq(OpTypes)
  BY <1>1 DEF longer
<1> QED BY <1>1, <1>2, <1>4, <1>5 DEF DocType, longer

LEMMA EditedDocs ==
  ASSUME DocsOK, NEW id, NEW op \in OpTypes, docs' = Edited(id, op)
  PROVE  /\ docs' = {EditOf(d, id, op) : d \in docs}
         /\ DocsOK' /\ DocIds' = DocIds
<1>1. docs' = {EditOf(d, id, op) : d \in docs}
  BY DEF Edited, EditOf
<1>2. \A d \in docs : EditOf(d, id, op) \in DocType /\ EditOf(d, id, op).id = d.id
  BY OneEdited DEF DocsOK
<1>3. DocsOK'
  BY <1>1, <1>2 DEF DocsOK
<1>4. DocIds' = DocIds
  BY <1>1, <1>2 DEF DocIds
<1> QED BY <1>1, <1>3, <1>4

\* Closing leaves a part of them.
LEMMA FewerDocs ==
  ASSUME DocsOK, docs' \subseteq docs
  PROVE  DocsOK' /\ DocIds' \subseteq DocIds
BY DEF DocsOK, DocIds

-----------------------------------------------------------------------------
(* Counting.                                                               *)

\* What is counted is finite, because numbers are given in order.
LEMMA FiniteCounts ==
  ASSUME EngineOK
  PROVE  /\ IsFiniteSet(DocIds) /\ IsFiniteSet(Orphans) /\ IsFiniteSet(OpensLeft)
         /\ \A S \in SUBSET Orphans : IsFiniteSet(S)
<1>1. nextId \in Nat /\ IsFiniteSet(0..nextId)
  BY FS_Interval DEF EngineOK
<1>2. DocIds \subseteq 0..nextId
  BY DEF EngineOK, DocsOK, DocType, Ids, DocIds
<1>3. IsFiniteSet(DocIds)
  BY <1>1, <1>2, FS_Subset
<1>4. Orphans \subseteq DocIds
  BY DEF Orphans
<1>5. OpensLeft \subseteq abandoned /\ IsFiniteSet(abandoned)
  BY DEF OpensLeft, EngineOK
<1>6. IsFiniteSet(Orphans)
  BY <1>3, <1>4, FS_Subset
<1>7. IsFiniteSet(OpensLeft)
  BY <1>5, FS_Subset
<1>8. \A S \in SUBSET Orphans : IsFiniteSet(S)
  BY <1>6, FS_Subset
<1> QED BY <1>3, <1>6, <1>7, <1>8

LEMMA NoMore ==
  ASSUME NEW A, NEW B, NEW C \in SUBSET A, NEW D \in SUBSET B,
         IsFiniteSet(A), IsFiniteSet(B), NEW n \in Nat, Cardinality(A) + Cardinality(B) <= n
  PROVE  Cardinality(C) + Cardinality(D) <= n
<1>1. IsFiniteSet(C) /\ Cardinality(C) <= Cardinality(A)
  BY FS_Subset
<1>2. IsFiniteSet(D) /\ Cardinality(D) <= Cardinality(B)
  BY FS_Subset
<1>3. /\ Cardinality(A) \in Nat /\ Cardinality(B) \in Nat
      /\ Cardinality(C) \in Nat /\ Cardinality(D) \in Nat
  BY <1>1, <1>2, FS_CardinalityType
<1> QED BY <1>1, <1>2, <1>3

LEMMA OneMore ==
  ASSUME NEW A, NEW x, IsFiniteSet(A), NEW C \in SUBSET (A \cup {x})
  PROVE  Cardinality(C) \in Nat /\ Cardinality(A) \in Nat /\ Cardinality(C) <= Cardinality(A) + 1
<1>1. /\ IsFiniteSet(A \cup {x})
      /\ Cardinality(A \cup {x}) = IF x \in A THEN Cardinality(A) ELSE Cardinality(A) + 1
  BY FS_AddElement
<1>2. IsFiniteSet(C) /\ Cardinality(C) <= Cardinality(A \cup {x})
  BY <1>1, FS_Subset
<1>3. Cardinality(C) \in Nat /\ Cardinality(A) \in Nat
  BY <1>2, FS_CardinalityType
<1> QED BY <1>1, <1>2, <1>3

-----------------------------------------------------------------------------
(* The first state.                                                        *)

LEMMA InitInv == ASSUME Init PROVE IInv
<1>1. DiskOK
  BY BatchAssumption DEF Init, DiskOK
<1>2. LoopOK
  <2>1. request \in Requests /\ request.paths \in Seq(Paths) /\ index = 1 /\ step = "idle"
    BY BatchAssumption DEF Init
  <2>2. index \in 1..(Len(request.paths) + 1) /\ Len(items) <= Len(request.paths)
    BY <2>1 DEF Init
  <2>3. /\ documentId = None /\ todo = <<>> /\ items = <<>> /\ cancelling = FALSE
        /\ Len(items) = 0
    BY DEF Init
  <2>4. Place
    BY <2>1 DEF Place
  <2>5. \A k \in DOMAIN items : items[k].path = request.paths[k]
    BY <2>3
  <2>6. todo \in Seq(OpTypes) /\ items \in Seq(ItemType)
    BY <2>3
  <2> QED BY <2>1, <2>2, <2>3, <2>4, <2>5, <2>6 DEF LoopOK, Steps
<1>3. EngineOK
  <2>1. /\ docs = {} /\ abandoned = {} /\ timeouts = 0 /\ nextId = 1 /\ hand = 0 /\ up = TRUE
        /\ documentId = None /\ userDoc = None /\ MaxTimeouts \in Nat /\ MaxHand \in Nat
    BY BatchAssumption DEF Init
  <2>2. IsFiniteSet(abandoned) /\ Cardinality(Orphans) = 0 /\ Cardinality(OpensLeft) = 0
    BY <2>1, FS_EmptySet DEF Orphans, DocIds, OpensLeft
  <2> QED BY <2>1, <2>2 DEF EngineOK, DocsOK, Ids, LateCalls, UsersOwn, OrphansCounted
<1>4. AtHand
  BY DEF Init, AtHand
<1> QED BY <1>1, <1>2, <1>3, <1>4 DEF IInv

-----------------------------------------------------------------------------
(* The request and the calls it makes.                                     *)

\* The photographs of a request, and where each is exported to, are paths.
LEMMA RequestPaths ==
  ASSUME NEW r \in Requests
  PROVE  /\ r.paths \in Seq(Paths) /\ Len(r.paths) \in Nat
         /\ \A k \in 1..Len(r.paths) : r.paths[k] \in Paths /\ TargetOf(r.paths[k], r) \in Paths
<1>1. r.paths \in Seq(Paths) /\ \A k \in DOMAIN r.paths : TargetOf(r.paths[k], r) \in Paths
  BY BatchAssumption
<1> QED BY <1>1

LEMMA SourceIsAPath ==
  ASSUME LoopOK, index <= Len(request.paths)
  PROVE  Source \in Paths /\ TargetOf(Source, request) \in Paths /\ index \in 1..Len(request.paths)
<1>1. index \in 1..Len(request.paths) /\ request \in Requests
  BY RequestPaths DEF LoopOK
<1> QED BY <1>1, RequestPaths DEF Source

LEMMA WrittenDisk ==
  ASSUME DiskOK, NEW picture \in Pictures, NEW place \in Paths, disk' = Written(picture, place)
  PROVE  /\ DiskOK' /\ disk'[FileOf[place]] = picture
         /\ \A f \in FilesOnDisk : f # FileOf[place] => disk'[f] = disk[f]
<1>1. disk' = [disk EXCEPT ![FileOf[place]] = picture] /\ FileOf[place] \in FilesOnDisk
  BY DEF Written, FilesOnDisk
<1> QED BY <1>1 DEF DiskOK

\* The picture an export carried out late writes, and where.
LEMMA LateWrite ==
  ASSUME IInv, CatchUp, disk' # disk
  PROVE  \E c \in abandoned :
           /\ c.target \in Paths /\ c.picture \in Pictures /\ Aims(c.picture.from, c.target)
           /\ disk' = Written(c.picture, c.target)
<1>1. PICK c \in abandoned : c.call = "write" /\ disk' = Written(c.picture, c.target)
  BY DEF CatchUp
<1>2. LateCalls
  BY DEF IInv, EngineOK
<1>3. c.target \in Paths /\ c.picture \in Pictures /\ Aims(c.picture.from, c.target)
  BY <1>1, <1>2 DEF LateCalls
<1> QED BY <1>1, <1>3

\* The picture the export of the photograph at hand writes, and where.
LEMMA OwnWrite ==
  ASSUME IInv, ExportAnswered
  PROVE  \E d \in docs :
           /\ d.id = documentId /\ d.path = Source /\ Rendered(d) \in Pictures
           /\ Rendered(d).from = Source /\ Aims(Source, TargetOf(Source, request))
           /\ TargetOf(Source, request) \in Paths
           /\ disk' = Written(Rendered(d), TargetOf(Source, request))
<1>1. PICK d \in docs :
        d.id = documentId /\ disk' = Written(Rendered(d), TargetOf(Source, request))
  BY DEF ExportAnswered
<1>2. /\ TargetOf(Source, request) \in Paths /\ TargetOf(Source, request) # Source
      /\ request \in Requests
  BY SourceIsAPath DEF IInv, LoopOK, Place, ExportAnswered
<1>3. d.path = Source /\ d \in DocType
  BY <1>1 DEF IInv, AtHand, ExportAnswered, EngineOK, DocsOK
<1>4. Rendered(d) \in Pictures /\ Rendered(d).from = Source
  BY <1>3, RenderedType
<1> QED BY <1>1, <1>2, <1>3, <1>4 DEF Aims

\* The document at hand, when its operations are applied, is written where the
\* batch promises.
LEMMA DiskNext == ASSUME IInv, [Next]_vars PROVE DiskOK'
<1>1. DiskOK /\ DocsOK
  BY DEF IInv, EngineOK
<1>2. CASE UNCHANGED disk
  BY <1>1, <1>2 DEF DiskOK
<1>3. CASE CatchUp /\ disk' # disk
  BY <1>1, <1>3, LateWrite, WrittenDisk
<1>4. CASE ExportAnswered
  BY <1>1, <1>4, OwnWrite, WrittenDisk
<1>5. CASE Vanish
  BY <1>1, <1>5 DEF Vanish, DiskOK
<1>6. CASE UNCHANGED vars
  BY <1>2, <1>6 DEF vars
<1>7. CASE Start \/ CancelBatch \/ CancelRest \/ Refuse \/ AskOpen \/ OpenAnswered \/ ApplyAnswered
  BY <1>2, <1>7 DEF Start, CancelBatch, CancelRest, Refuse, AskOpen, OpenAnswered, ApplyAnswered
<1>8. CASE CallFails \/ CallTimesOut \/ Close \/ Finish \/ EngineDies \/ UserOpens \/ UserEdits
  BY <1>2, <1>8 DEF CallFails, CallTimesOut, Close, Finish, EngineDies, UserOpens, UserEdits
<1> QED BY <1>2, <1>3, <1>4, <1>5, <1>6, <1>7, <1>8 DEF Next, LoopStep

-----------------------------------------------------------------------------
(* The loop.                                                               *)

\* A step that leaves the loop where it is.
LEMMA LoopFramed == ASSUME LoopOK, UNCHANGED loopVars, cancelling' \in BOOLEAN PROVE LoopOK'
<1>1. /\ request' = request /\ index' = index /\ step' = step /\ documentId' = documentId
      /\ todo' = todo /\ items' = items /\ Source' = Source
      /\ TargetOf(Source, request)' = TargetOf(Source, request)
  BY DEF loopVars, Source, TargetOf
<1>2. Place'
  BY <1>1 DEF LoopOK, Place
<1> QED BY <1>1, <1>2 DEF LoopOK

\* One item more, for the photograph at hand.
LEMMA ItemAdded ==
  ASSUME LoopOK, index \in 1..Len(request.paths), Len(items) = index - 1,
         NEW outcome \in {"exported", "failed", "cancelled"},
         items' = Append(items, Item(Source, outcome)), request' = request
  PROVE  /\ items' \in Seq(ItemType) /\ Len(items') = index
         /\ \A k \in DOMAIN items' : items'[k].path = request'.paths[k]
<1>1. Source \in Paths /\ index \in Nat /\ Len(items) \in Nat /\ items \in Seq(ItemType)
  BY SourceIsAPath, RequestPaths DEF LoopOK
<1> DEFINE item == Item(Source, outcome)
<1>2. item \in ItemType /\ item.path = request.paths[index]
  BY <1>1 DEF Item, ItemType, Source
<1> HIDE DEF item
<1>3. items' = Append(items, item)
  BY DEF item
<1>4. items' \in Seq(ItemType) /\ Len(items') = index
  BY <1>1, <1>2, <1>3
<1>5. \A k \in DOMAIN items' : items'[k].path = request'.paths[k]
  <2> TAKE k \in DOMAIN items'
  <2>1. k \in 1..index
    BY <1>4
  <2>2. CASE k = index
    BY <1>1, <1>2, <1>3, <2>2
  <2>3. CASE k \in 1..Len(items)
    BY <1>1, <1>3, <2>3 DEF LoopOK
  <2> QED BY <1>1, <2>1, <2>2, <2>3
<1> QED BY <1>4, <1>5

\* The file has failed: an item for it, and on to the closing or to the next.
LEMMA FailedLoop ==
  ASSUME LoopOK, step \in {"opening", "working"}, Fail,
         UNCHANGED <<request, documentId, cancelling>>
  PROVE  LoopOK'
<1>1. index \in 1..Len(request.paths) /\ Len(items) = index - 1 /\ index \in Nat
  BY SourceIsAPath, RequestPaths DEF LoopOK, Place
<1>2. /\ items' \in Seq(ItemType) /\ Len(items') = index
      /\ \A k \in DOMAIN items' : items'[k].path = request'.paths[k]
  BY <1>1, ItemAdded DEF Fail
<1>3. request' = request /\ Len(request.paths) \in Nat /\ todo' = <<>> /\ todo' \in Seq(OpTypes)
  BY RequestPaths DEF LoopOK, Fail
<1>4. CASE documentId = None
  <2>1. step' = "next" /\ index' = index + 1 /\ documentId' = None
    BY <1>4 DEF Fail
  <2>2. Place'
    BY <1>1, <1>2, <2>1 DEF Place
  <2> QED BY <1>1, <1>2, <1>3, <2>1, <2>2 DEF LoopOK, Steps
<1>5. CASE documentId # None
  <2>1. step' = "closing" /\ index' = index /\ documentId' = documentId
    BY <1>5 DEF Fail
  <2>2. Place'
    BY <1>1, <1>2, <1>3, <2>1 DEF Place
  <2> QED BY <1>1, <1>2, <1>3, <1>5, <2>1, <2>2 DEF LoopOK, Steps
<1> QED BY <1>4, <1>5

LEMMA StartLoop == ASSUME IInv, Start PROVE LoopOK'
<1>1. request' \in Requests /\ index' = 1 /\ items' = <<>> /\ step' = "next"
      /\ cancelling' = FALSE /\ documentId' = documentId /\ todo' = todo
  BY DEF Start
<1>2. Len(request'.paths) \in Nat
  BY <1>1, RequestPaths
<1>3. documentId = None /\ todo \in Seq(OpTypes)
  BY DEF Start, IInv, LoopOK
<1>4. items' \in Seq(ItemType) /\ Len(items') = 0 /\ DOMAIN items' = {}
  BY <1>1
<1>5. Place'
  BY <1>1, <1>4 DEF Place
<1>6. \A k \in DOMAIN items' : items'[k].path = request'.paths[k]
  BY <1>4
<1>7. documentId' # None <=> step' \in {"working", "closing"}
  BY <1>1, <1>3
<1>8. index' \in 1..(Len(request'.paths) + 1) /\ Len(items') <= Len(request'.paths)
  BY <1>1, <1>2, <1>4
<1> QED BY <1>1, <1>3, <1>4, <1>5, <1>6, <1>7, <1>8 DEF LoopOK, Steps

\* What is left is reported as cancelled, photograph by photograph.
LEMMA CancelledItems ==
  ASSUME LoopOK, CancelRest
  PROVE  /\ items' \in Seq(ItemType) /\ Len(items') = Len(request.paths)
         /\ \A k \in DOMAIN items' :
              IF k \in DOMAIN items THEN items'[k] = items[k]
              ELSE items'[k] = Item(request.paths[k], "cancelled")
<1>1. index \in 1..Len(request.paths) /\ Len(request.paths) \in Nat /\ Len(items) = index - 1
      /\ items \in Seq(ItemType) /\ \A k \in 1..Len(request.paths) : request.paths[k] \in Paths
  BY SourceIsAPath, RequestPaths DEF CancelRest, Chosen, LoopOK, Place
<1> DEFINE n == Len(request.paths) - index + 1
           rest == [k \in 1..n |-> Item(request.paths[index + k - 1], "cancelled")]
<1>2. n \in Nat /\ \A k \in 1..n : index + k - 1 \in 1..Len(request.paths)
  BY <1>1
<1>3. rest \in Seq(ItemType) /\ Len(rest) = n
  <2>1. \A k \in 1..n : Item(request.paths[index + k - 1], "cancelled") \in ItemType
    BY <1>1, <1>2 DEF Item, ItemType
  <2>2. rest \in [1..n -> ItemType]
    BY <2>1
  <2> HIDE DEF rest, n
  <2> QED BY <1>2, <2>2
<1>4. \A k \in 1..n : rest[k] = Item(request.paths[index + k - 1], "cancelled")
  OBVIOUS
<1>5. items' = items \o rest
  BY DEF CancelRest
<1> DEFINE done == Len(items)  all == Len(request.paths)
<1>6. done \in Nat /\ index = done + 1 /\ n = all - done /\ all \in Nat
  BY <1>1
<1> HIDE DEF rest, n
<1>7. /\ items' \in Seq(ItemType) /\ Len(items') = done + n
      /\ \A k \in 1..done : items'[k] = items[k]
      /\ \A k \in 1..n : items'[done + k] = rest[k]
  <2>1. items \in Seq(ItemType) /\ rest \in Seq(ItemType)
    BY <1>1, <1>3
  <2> DEFINE both == items \o rest
  <2>2. /\ both \in Seq(ItemType) /\ Len(both) = Len(items) + Len(rest)
        /\ \A k \in 1..Len(items) : both[k] = items[k]
        /\ \A k \in 1..Len(rest) : both[Len(items) + k] = rest[k]
    BY <2>1
  <2>3. items' = both
    BY <1>5
  <2> HIDE DEF both
  <2> QED BY <1>3, <2>2, <2>3
<1>8. Len(items') = all /\ DOMAIN items' = 1..all /\ DOMAIN items = 1..done
  BY <1>1, <1>6, <1>7
<1>9. ASSUME NEW k \in DOMAIN items'
      PROVE  IF k \in DOMAIN items THEN items'[k] = items[k]
             ELSE items'[k] = Item(request.paths[k], "cancelled")
  <2>1. CASE k \in 1..done
    BY <1>7, <1>8, <2>1
  <2>2. CASE k \notin 1..done
    <3> DEFINE j == k - done
    <3> HIDE DEF done, all
    <3>1. j \in 1..n /\ done + j = k /\ index + j - 1 = k
      BY <1>6, <1>8, <2>2
    <3> HIDE DEF j
    <3>2. items'[k] = rest[j] /\ rest[j] = Item(request.paths[k], "cancelled")
      BY <1>4, <1>7, <3>1
    <3> QED BY <1>8, <2>2, <3>2
  <2> QED BY <2>1, <2>2
<1> QED BY <1>7, <1>8, <1>9

LEMMA CancelRestLoop == ASSUME LoopOK, CancelRest PROVE LoopOK'
<1>1. /\ request' = request /\ step = "next" /\ step' = "next" /\ documentId' = documentId
      /\ todo' = todo /\ cancelling' = cancelling /\ index' = Len(request.paths) + 1
  BY DEF CancelRest, Chosen
<1>2. Len(request.paths) \in Nat /\ documentId = None
  BY <1>1, RequestPaths DEF LoopOK
<1>3. items' \in Seq(ItemType) /\ Len(items') = Len(request.paths)
  BY CancelledItems
<1>4. \A k \in DOMAIN items' : items'[k].path = request'.paths[k]
  <2> TAKE k \in DOMAIN items'
  <2>1. CASE k \in DOMAIN items
    BY <1>1, <2>1, CancelledItems DEF LoopOK
  <2>2. CASE k \notin DOMAIN items
    BY <1>1, <2>2, CancelledItems DEF Item
  <2> QED BY <2>1, <2>2
<1>5. Place'
  BY <1>1, <1>2, <1>3 DEF Place
<1>6. index' \in 1..(Len(request'.paths) + 1) /\ Len(items') <= Len(request'.paths)
  BY <1>1, <1>2, <1>3
<1> QED BY <1>1, <1>2, <1>3, <1>4, <1>5, <1>6 DEF LoopOK, Steps

LEMMA RefuseLoop == ASSUME LoopOK, Refuse PROVE LoopOK'
<1>1. /\ request' = request /\ step = "next" /\ step' = "next" /\ documentId' = documentId
      /\ todo' = todo /\ cancelling' = cancelling /\ index' = index + 1
      /\ items' = Append(items, Item(Source, "failed"))
  BY DEF Refuse, Chosen
<1>2. index \in 1..Len(request.paths) /\ Len(items) = index - 1 /\ Len(request.paths) \in Nat
  BY SourceIsAPath, RequestPaths DEF Refuse, Chosen, LoopOK, Place
<1>3. /\ items' \in Seq(ItemType) /\ Len(items') = index
      /\ \A k \in DOMAIN items' : items'[k].path = request'.paths[k]
  BY <1>1, <1>2, ItemAdded
<1>4. Place' /\ documentId = None
  BY <1>1, <1>2, <1>3 DEF Place, LoopOK
<1> QED BY <1>1, <1>2, <1>3, <1>4 DEF LoopOK, Steps

LEMMA OpenAnsweredLoop == ASSUME IInv, OpenAnswered PROVE LoopOK'
<1>1. LoopOK /\ nextId \in Nat /\ nextId # None
  BY BatchAssumption DEF IInv, EngineOK
<1>2. /\ request' = request /\ step = "opening" /\ step' = "working" /\ documentId' = nextId
      /\ items' = items /\ cancelling' = cancelling /\ index' = index
      /\ todo' = Operations(request, disk[FileOf[Source]])
  BY DEF OpenAnswered, NewId
<1>3. Source \in Paths
  BY <1>1, <1>2, SourceIsAPath DEF LoopOK, Place
<1>4. disk[FileOf[Source]] \in Pictures
  BY <1>3 DEF OpenAnswered, Decodable, IInv, DiskOK, FilesOnDisk
<1>5. todo' \in Seq(OpTypes)
  BY <1>1, <1>2, <1>4, OperationsShape DEF LoopOK
<1>6. Source' = Source /\ TargetOf(Source, request)' = TargetOf(Source, request)
  BY <1>2 DEF Source, TargetOf
<1>7. Place'
  BY <1>1, <1>2, <1>6 DEF LoopOK, Place
<1> QED BY <1>1, <1>2, <1>5, <1>7 DEF LoopOK, Steps

LEMMA ExportAnsweredLoop == ASSUME LoopOK, ExportAnswered PROVE LoopOK'
<1>1. /\ request' = request /\ step = "working" /\ step' = "closing" /\ documentId' = documentId
      /\ todo' = todo /\ cancelling' = cancelling /\ index' = index
      /\ items' = Append(items, Item(Source, "exported"))
  BY DEF ExportAnswered
<1>2. index \in 1..Len(request.paths) /\ Len(items) = index - 1 /\ Len(request.paths) \in Nat
  BY <1>1, SourceIsAPath, RequestPaths DEF LoopOK, Place
<1>3. /\ items' \in Seq(ItemType) /\ Len(items') = index
      /\ \A k \in DOMAIN items' : items'[k].path = request'.paths[k]
  BY <1>1, <1>2, ItemAdded
<1>4. Place' /\ documentId # None
  BY <1>1, <1>2, <1>3 DEF Place, LoopOK
<1> QED BY <1>1, <1>2, <1>3, <1>4 DEF LoopOK, Steps

LEMMA CloseLoop == ASSUME LoopOK, Close PROVE LoopOK'
<1>1. /\ request' = request /\ step = "closing" /\ step' = "next" /\ documentId' = None
      /\ todo' = todo /\ cancelling' = cancelling /\ index' = index + 1 /\ items' = items
  BY DEF Close
<1>2. index \in 1..Len(request.paths) /\ Len(items) = index /\ Len(request.paths) \in Nat
  BY <1>1, SourceIsAPath, RequestPaths DEF LoopOK, Place
<1>3. Place'
  BY <1>1, <1>2 DEF Place
<1> QED BY <1>1, <1>2, <1>3 DEF LoopOK, Steps

\* Every step leaves the loop with as many items as photographs it is done with.
LEMMA LoopNext == ASSUME IInv, [Next]_vars PROVE LoopOK'
<1>1. LoopOK /\ cancelling \in BOOLEAN
  BY DEF IInv, LoopOK
<1>2. CASE Start
  BY <1>2, StartLoop
<1>3. CASE CancelBatch \/ CatchUp \/ EngineDies \/ UserOpens \/ UserEdits \/ Vanish \/ UNCHANGED vars
  <2>1. UNCHANGED loopVars
    BY <1>3 DEF CancelBatch, CatchUp, EngineDies, UserOpens, UserEdits, Vanish, vars, loopVars
  <2>2. cancelling' \in {cancelling, TRUE}
    BY <1>3 DEF CancelBatch, CatchUp, EngineDies, UserOpens, UserEdits, Vanish, vars
  <2> QED BY <1>1, <2>1, <2>2, LoopFramed
<1>4. CASE CancelRest
  BY <1>1, <1>4, CancelRestLoop
<1>5. CASE Refuse
  BY <1>1, <1>5, RefuseLoop
<1>6. CASE AskOpen
  <2>1. /\ request' = request /\ step = "next" /\ step' = "opening" /\ documentId' = documentId
        /\ todo' = todo /\ items' = items /\ cancelling' = cancelling /\ index' = index
        /\ index <= Len(request.paths) /\ TargetOf(Source, request) # Source
    BY <1>6 DEF AskOpen, Chosen, Refused
  <2>2. Source' = Source /\ TargetOf(Source, request)' = TargetOf(Source, request)
    BY <2>1 DEF Source, TargetOf
  <2>3. Place'
    BY <1>1, <2>1, <2>2 DEF LoopOK, Place
  <2> QED BY <1>1, <2>1, <2>3 DEF LoopOK, Steps
<1>7. CASE OpenAnswered
  BY <1>7, OpenAnsweredLoop
<1>8. CASE ApplyAnswered
  <2>1. /\ request' = request /\ step' = step /\ documentId' = documentId /\ todo' = Tail(todo)
        /\ items' = items /\ cancelling' = cancelling /\ index' = index /\ todo # <<>>
    BY <1>8 DEF ApplyAnswered
  <2>2. Source' = Source /\ TargetOf(Source, request)' = TargetOf(Source, request)
    BY <2>1 DEF Source, TargetOf
  <2>3. Place'
    BY <1>1, <2>1, <2>2 DEF LoopOK, Place
  <2>4. todo' \in Seq(OpTypes)
    BY <1>1, <2>1 DEF LoopOK
  <2> QED BY <1>1, <2>1, <2>3, <2>4 DEF LoopOK, Steps
<1>9. CASE ExportAnswered
  BY <1>1, <1>9, ExportAnsweredLoop
<1>10. CASE CallFails \/ CallTimesOut
  BY <1>1, <1>10, FailedLoop DEF CallFails, CallTimesOut
<1>11. CASE Close
  BY <1>1, <1>11, CloseLoop
<1>12. CASE Finish
  <2>1. /\ request' = request /\ step = "next" /\ step' = "idle" /\ documentId' = documentId
        /\ todo' = todo /\ items' = items /\ cancelling' = cancelling /\ index' = index
    BY <1>12 DEF Finish
  <2>2. Place'
    BY <2>1 DEF Place
  <2> QED BY <1>1, <2>1, <2>2 DEF LoopOK, Steps
<1> QED BY <1>2, <1>3, <1>4, <1>5, <1>6, <1>7, <1>8, <1>9, <1>10, <1>11, <1>12 DEF Next, LoopStep

-----------------------------------------------------------------------------
(* The document at hand.                                                   *)

\* A step that does nothing to the document the loop works on.
LEMMA AtHandFramed ==
  ASSUME AtHand, UNCHANGED <<request, index>>,
         step' = "working" => step = "working" /\ UNCHANGED <<documentId, todo>>,
         \A d \in docs' : d.id = documentId => d \in docs
  PROVE  AtHand'
<1> SUFFICES ASSUME step' = "working", NEW d \in docs', d.id = documentId'
             PROVE  d.path = Source' /\ Unfolds(d.ops, todo', Operations(request', d.picture))
  BY DEF AtHand
<1>1. step = "working" /\ documentId' = documentId /\ todo' = todo /\ request' = request
  OBVIOUS
<1>2. Source' = Source
  BY DEF Source
<1>3. d \in docs /\ d.id = documentId
  BY <1>1
<1> QED BY <1>1, <1>2, <1>3 DEF AtHand

LEMMA OpenAnsweredAtHand == ASSUME IInv, OpenAnswered PROVE AtHand'
<1>1. Source \in Paths /\ request \in Requests
  BY SourceIsAPath DEF OpenAnswered, IInv, LoopOK, Place
<1>2. /\ docs' = docs \cup {Fresh(Source)} /\ disk[FileOf[Source]] \in Pictures
  BY <1>1, OpenedDocs DEF OpenAnswered
<1>3. /\ request' = request /\ documentId' = nextId
      /\ todo' = Operations(request, disk[FileOf[Source]]) /\ Source' = Source
  BY DEF OpenAnswered, NewId, Source
<1>4. \A d \in docs : d.id # nextId
  BY DEF IInv, EngineOK, Ids, DocsOK, DocType
<1> SUFFICES ASSUME NEW d \in docs', d.id = documentId'
             PROVE  d.path = Source' /\ Unfolds(d.ops, todo', Operations(request', d.picture))
  BY DEF AtHand
<1>5. d = Fresh(Source)
  BY <1>2, <1>3, <1>4
<1>6. d.path = Source /\ d.ops = <<>> /\ d.picture = disk[FileOf[Source]]
  BY <1>5 DEF Fresh
<1>7. Operations(request, disk[FileOf[Source]]) \in Seq(OpTypes)
  BY <1>1, <1>2, OperationsShape
<1> QED BY <1>3, <1>6, <1>7, UnfoldsStart

LEMMA ApplyAnsweredAtHand == ASSUME IInv, ApplyAnswered PROVE AtHand'
<1>1. /\ step = "working" /\ todo # <<>> /\ todo \in Seq(OpTypes) /\ DocsOK /\ AtHand
      /\ request \in Requests
  BY DEF ApplyAnswered, IInv, LoopOK, EngineOK
<1>2. /\ request' = request /\ documentId' = documentId /\ todo' = Tail(todo) /\ Source' = Source
      /\ docs' = Edited(documentId, Head(todo))
  BY DEF ApplyAnswered, Source
<1>3. Head(todo) \in OpTypes
  BY <1>1
<1>4. docs' = {EditOf(d, documentId, Head(todo)) : d \in docs}
  BY <1>1, <1>2, <1>3, EditedDocs
<1> SUFFICES ASSUME NEW e \in docs', e.id = documentId'
             PROVE  e.path = Source' /\ Unfolds(e.ops, todo', Operations(request', e.picture))
  BY DEF AtHand
<1>5. PICK d \in docs : e = EditOf(d, documentId, Head(todo))
  BY <1>4
<1>6. d \in DocType
  BY <1>1 DEF DocsOK
<1>7. /\ e.id = d.id /\ e.path = d.path /\ e.picture = d.picture
      /\ e.ops = IF d.id = documentId THEN Append(d.ops, Head(todo)) ELSE d.ops
  BY <1>3, <1>5, <1>6, OneEdited
<1>8. d.id = documentId /\ e.ops = Append(d.ops, Head(todo))
  BY <1>2, <1>7
<1>9. d.path = Source /\ Unfolds(d.ops, todo, Operations(request, d.picture))
  BY <1>1, <1>8 DEF AtHand
<1>10. Operations(request, d.picture) \in Seq(OpTypes) /\ d.ops \in Seq(OpTypes)
  BY <1>1, <1>6, OperationsShape DEF DocType
<1>11. Unfolds(Append(d.ops, Head(todo)), Tail(todo), Operations(request, d.picture))
  BY <1>1, <1>9, <1>10, UnfoldsStep
<1> QED BY <1>2, <1>7, <1>8, <1>9, <1>11

\* A document edited for somebody else is not the one at hand.
LEMMA EditedElsewhere ==
  ASSUME DocsOK, NEW id, NEW op \in OpTypes, docs' = Edited(id, op), NEW other, id # other
  PROVE  \A e \in docs' : e.id = other => e \in docs
<1> TAKE e \in docs'
<1>1. PICK d \in docs : e = EditOf(d, id, op)
  BY EditedDocs
<1>2. e.id = d.id
  BY <1>1, OneEdited DEF DocsOK
<1>3. e.id = other => e = d
  BY <1>1, <1>2 DEF EditOf
<1> QED BY <1>3

\* What a call carried out late does to the documents: one more, one edited, or
\* some fewer; and to none of them what is the loop's or the user's.
LEMMA CatchUpDocs ==
  ASSUME IInv, CatchUp
  PROVE  \E c \in abandoned :
           \/ /\ abandoned' = abandoned \ {c}
              /\ \/ c.call = "image.open" /\ c.path \in Paths /\ Decodable(c.path) /\ Opened(c.path)
                 \/ /\ c.call = "edit.apply" /\ c.op \in OpTypes
                    /\ docs' = Edited(c.id, c.op) /\ nextId' = nextId
                 \/ /\ c.call = "image.close" /\ docs' = {d \in docs : d.id # c.id}
                    /\ nextId' = nextId
                 \/ docs' = docs /\ nextId' = nextId
           \/ /\ c.call = "image.export" /\ docs' = docs /\ nextId' = nextId
              /\ abandoned' =
                   (abandoned \ {c}) \cup {Begun(c, d) : d \in {e \in docs : e.id = c.id}}
<1>1. PICK c \in abandoned :
        \/ /\ c.call = "image.open"
           /\ abandoned' = abandoned \ {c}
           /\ IF Decodable(c.path) THEN Opened(c.path) ELSE UNCHANGED <<docs, nextId>>
        \/ /\ c.call = "edit.apply"
           /\ abandoned' = abandoned \ {c}
           /\ docs' = Edited(c.id, c.op) /\ nextId' = nextId
        \/ /\ c.call = "image.close"
           /\ abandoned' = abandoned \ {c}
           /\ docs' = {d \in docs : d.id # c.id} /\ nextId' = nextId
        \/ /\ c.call = "image.export" /\ docs' = docs /\ nextId' = nextId
           /\ abandoned' =
                (abandoned \ {c}) \cup {Begun(c, d) : d \in {e \in docs : e.id = c.id}}
        \/ c.call = "write" /\ abandoned' = abandoned \ {c} /\ docs' = docs /\ nextId' = nextId
  BY DEF CatchUp
<1>2. /\ c.call = "image.open" => c.path \in Paths
      /\ c.call = "edit.apply" => c.op \in OpTypes
  BY DEF IInv, EngineOK, LateCalls
<1> QED BY <1>1, <1>2

LEMMA AtHandNext == ASSUME IInv, [Next]_vars PROVE AtHand'
<1>1. AtHand /\ DocsOK /\ nextId \in Nat /\ \A d \in docs : d.id # nextId
  BY DEF IInv, EngineOK, Ids, DocsOK, DocType
<1>2. step = "working" => documentId # nextId /\ documentId # userDoc
  BY DEF IInv, LoopOK, EngineOK, Ids
<1>3. CASE Start \/ CancelRest \/ Refuse \/ AskOpen \/ ExportAnswered \/ Close \/ Finish
  <2>1. step' # "working"
    BY <1>3 DEF Start, CancelRest, Refuse, AskOpen, ExportAnswered, Close, Finish, Chosen
  <2> QED BY <2>1 DEF AtHand
<1>4. CASE CallFails \/ CallTimesOut
  <2>1. step' # "working"
    BY <1>4 DEF CallFails, CallTimesOut, Fail
  <2> QED BY <2>1 DEF AtHand
<1>5. CASE CancelBatch \/ Vanish \/ UNCHANGED vars
  <2>1. UNCHANGED <<docs, request, index, step, documentId, todo>>
    BY <1>5 DEF CancelBatch, Vanish, vars, engineVars, loopVars
  <2> QED BY <1>1, <2>1, AtHandFramed
<1>6. CASE OpenAnswered
  BY <1>6, OpenAnsweredAtHand
<1>7. CASE ApplyAnswered
  BY <1>7, ApplyAnsweredAtHand
<1>8. CASE EngineDies
  BY <1>8 DEF EngineDies, AtHand
<1>9. CASE UserOpens
  <2>1. UNCHANGED <<request, index, step, documentId, todo>>
    BY <1>9 DEF UserOpens, loopVars
  <2>2. PICK p \in Paths : docs' = docs \cup {Fresh(p)}
    BY <1>9, OpenedDocs DEF UserOpens
  <2>3. step = "working" => \A d \in docs' : d.id = documentId => d \in docs
    BY <1>2, <2>2 DEF Fresh
  <2>4. CASE step = "working"
    BY <1>1, <2>1, <2>3, <2>4, AtHandFramed
  <2> QED BY <2>1, <2>4 DEF AtHand
<1>10. CASE UserEdits
  <2>1. UNCHANGED <<request, index, step, documentId, todo>> /\ docs' = Edited(userDoc, ByHand)
    BY <1>10 DEF UserEdits, loopVars
  <2>2. ByHand \in OpTypes
    BY DEF OpTypes
  <2>3. CASE step = "working"
    <3>1. \A d \in docs' : d.id = documentId => d \in docs
      BY <1>1, <1>2, <2>1, <2>2, <2>3, EditedElsewhere
    <3> QED BY <1>1, <2>1, <3>1, AtHandFramed
  <2> QED BY <2>1, <2>3 DEF AtHand
<1>11. CASE CatchUp
  <2>1. UNCHANGED <<request, index, step, documentId, todo>>
    BY <1>11 DEF CatchUp, loopVars
  <2>2. CASE step = "working"
    <3>1. PICK c \in abandoned :
           \/ c.call = "image.open" /\ c.path \in Paths /\ Decodable(c.path) /\ Opened(c.path)
           \/ /\ c.call = "edit.apply" /\ c.op \in OpTypes
              /\ docs' = Edited(c.id, c.op) /\ nextId' = nextId
           \/ /\ c.call = "image.close" /\ docs' = {d \in docs : d.id # c.id} /\ nextId' = nextId
           \/ docs' = docs /\ nextId' = nextId
      BY <1>11, CatchUpDocs
    <3>2. CASE c.call = "image.open" /\ c.path \in Paths /\ Decodable(c.path) /\ Opened(c.path)
      <4>1. docs' = docs \cup {Fresh(c.path)}
        BY <3>2, OpenedDocs
      <4>2. \A d \in docs' : d.id = documentId => d \in docs
        BY <1>2, <2>2, <4>1 DEF Fresh
      <4> QED BY <1>1, <2>1, <4>2, AtHandFramed
    <3>3. CASE c.call = "edit.apply" /\ c.op \in OpTypes /\ docs' = Edited(c.id, c.op)
      <4>1. c.id # documentId
        BY <2>2, <3>3 DEF IInv, EngineOK, Ids
      <4>2. \A d \in docs' : d.id = documentId => d \in docs
        BY <1>1, <3>3, <4>1, EditedElsewhere
      <4> QED BY <1>1, <2>1, <4>2, AtHandFramed
    <3>4. CASE docs' \subseteq docs
      BY <1>1, <2>1, <3>4, AtHandFramed
    <3> QED BY <3>1, <3>2, <3>3, <3>4
  <2> QED BY <2>1, <2>2 DEF AtHand
<1> QED BY <1>3, <1>4, <1>5, <1>6, <1>7, <1>8, <1>9, <1>10, <1>11 DEF Next, LoopStep

-----------------------------------------------------------------------------
(* The engine.                                                             *)

\* A step that leaves the engine and both of its clients as they are.
LEMMA EngineFramed ==
  ASSUME EngineOK, UNCHANGED <<up, docs, nextId, abandoned, timeouts, documentId, userDoc, hand>>,
         step' = "working" => step = "working"
  PROVE  EngineOK'
<1>1. DocsOK' /\ UsersOwn' /\ LateCalls'
  BY DEF EngineOK, DocsOK, UsersOwn, LateCalls
<1>2. Ids'
  BY DEF EngineOK, Ids
<1>3. Orphans' = Orphans /\ OpensLeft' = OpensLeft
  BY DEF Orphans, DocIds, OpensLeft
<1>4. OrphansCounted'
  BY <1>3 DEF EngineOK, OrphansCounted
<1> QED BY <1>1, <1>2, <1>4 DEF EngineOK

\* The call the loop gives up is not over its source, and not for the user's
\* document.
LEMMA GivenUp ==
  ASSUME IInv, step \in {"opening", "working", "closing"}
  PROVE  /\ CurrentCall.call = "image.open" => step = "opening" /\ CurrentCall.path \in Paths
         /\ CurrentCall.call # "image.open" =>
              step # "opening" /\ CurrentCall.id = documentId /\ documentId # None
         /\ \/ CurrentCall.call \in {"image.open", "image.close"}
            \/ CurrentCall.call = "edit.apply" /\ CurrentCall.op \in OpTypes
            \/ /\ CurrentCall.call = "image.export" /\ CurrentCall.target \in Paths
               /\ \A d \in docs : d.id = documentId => Aims(d.path, CurrentCall.target)
<1>1. Source \in Paths /\ TargetOf(Source, request) \in Paths
  BY SourceIsAPath DEF IInv, LoopOK, Place
<1>2. CASE step = "opening"
  BY <1>1, <1>2 DEF CurrentCall
<1>3. CASE step = "closing"
  BY <1>3 DEF CurrentCall, IInv, LoopOK
<1>4. CASE step = "working" /\ todo # <<>>
  <2>1. Head(todo) \in OpTypes /\ documentId # None
    BY <1>4 DEF IInv, LoopOK
  <2> QED BY <1>4, <2>1 DEF CurrentCall
<1>5. CASE step = "working" /\ todo = <<>>
  <2>1. documentId # None /\ Aims(Source, TargetOf(Source, request))
    BY <1>5 DEF IInv, LoopOK, Place, Aims
  <2>2. \A d \in docs : d.id = documentId => d.path = Source
    BY <1>5 DEF IInv, AtHand
  <2>3. CurrentCall = [call |-> "image.export", id |-> documentId, target |-> TargetOf(Source, request)]
    BY <1>5 DEF CurrentCall
  <2> QED BY <1>1, <1>5, <2>1, <2>2, <2>3
<1> QED BY <1>2, <1>3, <1>4, <1>5

LEMMA CallTimesOutEngine == ASSUME IInv, CallTimesOut PROVE EngineOK'
<1>1. EngineOK /\ timeouts \in Nat /\ MaxTimeouts \in Nat /\ DocsOK
  BY BatchAssumption DEF IInv, EngineOK
<1>2. /\ step \in {"opening", "working"} /\ up /\ timeouts < MaxTimeouts
      /\ timeouts' = timeouts + 1 /\ abandoned' = abandoned \cup {CurrentCall}
      /\ UNCHANGED <<up, docs, nextId, documentId, userDoc, hand>>
      /\ step' # "working"
  BY DEF CallTimesOut, Fail, userVars
<1> DEFINE c == CurrentCall
<1>3. /\ c.call = "image.open" => step = "opening" /\ c.path \in Paths
      /\ c.call # "image.open" => step # "opening" /\ c.id = documentId /\ documentId # None
      /\ \/ c.call \in {"image.open", "image.close"}
         \/ c.call = "edit.apply" /\ c.op \in OpTypes
         \/ /\ c.call = "image.export" /\ c.target \in Paths
            /\ \A d \in docs : d.id = documentId => Aims(d.path, c.target)
  BY <1>2, GivenUp
<1> HIDE DEF c
<1>4. abandoned' = abandoned \cup {c}
  BY <1>2 DEF c
<1>5. IsFiniteSet(abandoned')
  BY <1>1, <1>4, FS_AddElement DEF EngineOK
<1>6. DocsOK' /\ UsersOwn'
  BY <1>1, <1>2 DEF EngineOK, DocsOK, UsersOwn
<1>7. Ids'
  <2>1. documentId # None => documentId \in Nat /\ documentId < nextId /\ documentId # userDoc
    BY <1>1 DEF EngineOK, Ids
  <2> QED BY <1>1, <1>2, <1>3, <1>4, <2>1 DEF EngineOK, Ids
<1>8. LateCalls'
  BY <1>1, <1>2, <1>3, <1>4 DEF EngineOK, LateCalls
<1>9. OrphansCounted'
  <2>1. Orphans' = Orphans
    BY <1>2 DEF Orphans, DocIds
  <2>2. OpensLeft' \subseteq OpensLeft \cup {c}
    BY <1>4 DEF OpensLeft
  <2>3. IsFiniteSet(Orphans) /\ IsFiniteSet(OpensLeft)
    BY <1>1, FiniteCounts
  <2>4. /\ Cardinality(OpensLeft') \in Nat /\ Cardinality(OpensLeft) \in Nat
        /\ Cardinality(OpensLeft') <= Cardinality(OpensLeft) + 1
    BY <2>2, <2>3, OneMore
  <2>5. Cardinality(Orphans) \in Nat
    BY <2>3, FS_CardinalityType
  <2>6. Cardinality(Orphans) + Cardinality(OpensLeft) <= timeouts
    BY <1>1 DEF EngineOK, OrphansCounted
  <2> QED BY <1>1, <1>2, <2>1, <2>4, <2>5, <2>6 DEF OrphansCounted
<1>10. timeouts' \in 0..MaxTimeouts
  BY <1>1, <1>2
<1> QED BY <1>1, <1>2, <1>5, <1>6, <1>7, <1>8, <1>9, <1>10 DEF EngineOK

\* The first document the engine opens for a call it answers is the batch's own.
LEMMA OpenAnsweredEngine == ASSUME IInv, OpenAnswered PROVE EngineOK'
<1>1. EngineOK /\ nextId \in Nat /\ nextId # None /\ documentId = None
  BY BatchAssumption DEF IInv, EngineOK, LoopOK, OpenAnswered
<1>2. Source \in Paths /\ Decodable(Source) /\ Opened(Source) /\ up
  BY SourceIsAPath DEF OpenAnswered, IInv, LoopOK, Place
<1>3. /\ docs' = docs \cup {Fresh(Source)} /\ nextId' = nextId + 1 /\ DocsOK'
      /\ DocIds' = DocIds \cup {nextId}
  BY <1>2, OpenedDocs
<1>4. documentId' = nextId /\ UNCHANGED <<up, abandoned, timeouts, userDoc, hand>>
  BY DEF OpenAnswered, NewId, userVars
<1>5. userDoc # nextId /\ Fresh(Source).id = nextId
  BY <1>1 DEF EngineOK, Ids, Fresh
<1>6. Ids'
  BY <1>1, <1>2, <1>3, <1>4, <1>5 DEF EngineOK, Ids, DocsOK, DocType
<1>7. UsersOwn'
  BY <1>1, <1>3, <1>4, <1>5 DEF EngineOK, UsersOwn
<1>8. LateCalls'
  <2>1. \A c \in abandoned : c.call = "image.export" => c.id # nextId
    BY <1>1 DEF EngineOK, Ids
  <2> QED BY <1>1, <1>3, <1>4, <1>5, <2>1 DEF EngineOK, LateCalls
<1>9. Orphans' = Orphans
  <2>1. nextId \notin DocIds /\ None \notin DocIds
    BY <1>1, BatchAssumption DEF EngineOK, Ids, DocsOK, DocType, DocIds
  <2> QED BY <1>1, <1>3, <1>4, <2>1 DEF Orphans
<1>10. OrphansCounted'
  BY <1>1, <1>4, <1>9 DEF EngineOK, OrphansCounted, OpensLeft
<1> QED BY <1>1, <1>3, <1>4, <1>6, <1>7, <1>8, <1>10 DEF EngineOK

LEMMA UserOpensEngine == ASSUME IInv, UserOpens PROVE EngineOK'
<1>1. /\ EngineOK /\ nextId \in Nat /\ nextId # None /\ userDoc = None /\ hand = 0 /\ up
  BY BatchAssumption DEF IInv, EngineOK, UsersOwn, UserOpens
<1>2. PICK p \in Paths : Decodable(p) /\ Opened(p)
  BY DEF UserOpens
<1>3. /\ docs' = docs \cup {Fresh(p)} /\ nextId' = nextId + 1 /\ DocsOK'
      /\ DocIds' = DocIds \cup {nextId}
  BY <1>2, OpenedDocs
<1>4. userDoc' = nextId /\ UNCHANGED <<up, abandoned, timeouts, documentId, hand, step>>
  BY DEF UserOpens, NewId, loopVars
<1>5. Fresh(p).id = nextId /\ Fresh(p).ops = <<>>
  BY DEF Fresh
<1>6. \A d \in docs : d.id # nextId
  BY <1>1 DEF EngineOK, Ids, DocsOK, DocType
<1>7. Ids'
  BY <1>1, <1>3, <1>4, <1>5 DEF EngineOK, Ids, DocsOK, DocType
<1>8. UsersOwn'
  <2>1. <<>> = [k \in 1..hand |-> ByHand]
    BY <1>1
  <2> QED BY <1>1, <1>3, <1>4, <1>5, <1>6, <2>1 DEF UsersOwn
<1>9. LateCalls'
  <2>1. \A c \in abandoned : c.call = "image.export" => c.id # nextId
    BY <1>1 DEF EngineOK, Ids
  <2> QED BY <1>1, <1>3, <1>4, <1>5, <2>1 DEF EngineOK, LateCalls
<1>10. Orphans' = Orphans
  <2>1. nextId \notin DocIds /\ None \notin DocIds
    BY <1>1, <1>6, BatchAssumption DEF EngineOK, DocsOK, DocType, DocIds
  <2> QED BY <1>1, <1>3, <1>4, <2>1 DEF Orphans
<1>11. OrphansCounted'
  BY <1>1, <1>4, <1>10 DEF EngineOK, OrphansCounted, OpensLeft
<1> QED BY <1>1, <1>3, <1>4, <1>7, <1>8, <1>9, <1>11 DEF EngineOK

\* An operation more on a document: whose it is, the step has to say.
LEMMA EditedEngine ==
  ASSUME EngineOK, NEW id, NEW op \in OpTypes, docs' = Edited(id, op), up,
         abandoned' \subseteq abandoned,
         UNCHANGED <<up, nextId, timeouts, documentId, userDoc, step>>,
         hand' \in 0..MaxHand, UsersOwn'
  PROVE  EngineOK'
<1>1. DocsOK /\ docs' = {EditOf(d, id, op) : d \in docs} /\ DocsOK' /\ DocIds' = DocIds
  BY EditedDocs DEF EngineOK
<1>2. \A e \in docs' : \E d \in docs : e.id = d.id /\ e.path = d.path
  BY <1>1, OneEdited DEF DocsOK
<1>3. Ids'
  BY <1>2 DEF EngineOK, Ids
<1>4. LateCalls'
  BY <1>2 DEF EngineOK, LateCalls
<1>5. IsFiniteSet(abandoned')
  BY FS_Subset DEF EngineOK
<1>6. Orphans' = Orphans /\ OpensLeft' \in SUBSET OpensLeft /\ timeouts \in Nat
  BY <1>1 DEF Orphans, OpensLeft, EngineOK
<1>7. OrphansCounted'
  <2>1. IsFiniteSet(Orphans) /\ IsFiniteSet(OpensLeft)
    BY FiniteCounts
  <2>2. Cardinality(Orphans) + Cardinality(OpensLeft) <= timeouts
    BY DEF EngineOK, OrphansCounted
  <2>3. Cardinality(Orphans) + Cardinality(OpensLeft') <= timeouts
    BY <1>6, <2>1, <2>2, NoMore
  <2> QED BY <1>6, <2>3 DEF OrphansCounted
<1> QED BY <1>1, <1>3, <1>4, <1>5, <1>7 DEF EngineOK

\* Documents and calls that are gone take nothing with them.
LEMMA FewerEngine ==
  ASSUME EngineOK, docs' \subseteq docs, abandoned' \subseteq abandoned,
         UNCHANGED <<nextId, timeouts, documentId, userDoc, hand, step>>,
         up' \in BOOLEAN, ~up' => docs' = {} /\ abandoned' = {}
  PROVE  EngineOK'
<1>1. DocsOK' /\ DocIds' \subseteq DocIds
  BY FewerDocs DEF EngineOK
<1>2. Ids'
  BY DEF EngineOK, Ids
<1>3. LateCalls' /\ UsersOwn'
  BY DEF EngineOK, LateCalls, UsersOwn
<1>4. IsFiniteSet(abandoned')
  BY FS_Subset DEF EngineOK
<1>5. Orphans' \in SUBSET Orphans /\ OpensLeft' \in SUBSET OpensLeft /\ timeouts \in Nat
  BY <1>1 DEF Orphans, OpensLeft, EngineOK
<1>6. OrphansCounted'
  <2>1. IsFiniteSet(Orphans) /\ IsFiniteSet(OpensLeft)
    BY FiniteCounts
  <2>2. Cardinality(Orphans) + Cardinality(OpensLeft) <= timeouts
    BY DEF EngineOK, OrphansCounted
  <2>3. Cardinality(Orphans') + Cardinality(OpensLeft') <= timeouts
    BY <1>5, <2>1, <2>2, NoMore
  <2> QED BY <2>3 DEF OrphansCounted
<1> QED BY <1>1, <1>2, <1>3, <1>4, <1>6 DEF EngineOK

LEMMA ApplyAnsweredEngine == ASSUME IInv, ApplyAnswered PROVE EngineOK'
<1>1. /\ EngineOK /\ DocsOK /\ Head(todo) \in OpTypes /\ documentId # userDoc /\ up
  BY DEF ApplyAnswered, IInv, LoopOK, EngineOK, Ids
<1>2. /\ docs' = Edited(documentId, Head(todo))
      /\ UNCHANGED <<up, nextId, abandoned, timeouts, documentId, userDoc, hand, step>>
  BY DEF ApplyAnswered, userVars
<1>3. \A e \in docs' : e.id = userDoc => e \in docs
  BY <1>1, <1>2, EditedElsewhere
<1>4. UsersOwn'
  BY <1>1, <1>2, <1>3 DEF EngineOK, UsersOwn
<1>5. hand' \in 0..MaxHand
  BY <1>1, <1>2 DEF EngineOK
<1> QED BY <1>1, <1>2, <1>4, <1>5, EditedEngine

LEMMA UserEditsEngine == ASSUME IInv, UserEdits PROVE EngineOK'
<1>1. /\ EngineOK /\ DocsOK /\ ByHand \in OpTypes /\ userDoc # None /\ up /\ hand \in Nat
      /\ hand < MaxHand /\ MaxHand \in Nat
  BY BatchAssumption DEF UserEdits, IInv, EngineOK, OpTypes
<1>2. /\ docs' = Edited(userDoc, ByHand) /\ hand' = hand + 1
      /\ UNCHANGED <<up, nextId, abandoned, timeouts, documentId, userDoc, step>>
  BY DEF UserEdits, loopVars
<1>3. docs' = {EditOf(d, userDoc, ByHand) : d \in docs}
  BY <1>1, <1>2, EditedDocs
<1>4. UsersOwn'
  <2>1. ASSUME NEW e \in docs', e.id = userDoc' PROVE e.ops = [k \in 1..hand' |-> ByHand]
    <3>1. PICK d \in docs : e = EditOf(d, userDoc, ByHand)
      BY <1>3
    <3>2. e.id = d.id /\ e.ops = IF d.id = userDoc THEN Append(d.ops, ByHand) ELSE d.ops
      BY <1>1, <3>1, OneEdited DEF DocsOK
    <3>3. d.ops = [k \in 1..hand |-> ByHand] /\ e.ops = Append(d.ops, ByHand)
      BY <1>1, <1>2, <2>1, <3>2 DEF EngineOK, UsersOwn
    <3>4. Append([k \in 1..hand |-> ByHand], ByHand) = [k \in 1..(hand + 1) |-> ByHand]
      <4> HIDE DEF ByHand
      <4> QED BY <1>1
    <3> QED BY <1>2, <3>3, <3>4
  <2> QED BY <1>1, <1>2, <2>1 DEF UsersOwn
<1>5. hand' \in 0..MaxHand
  BY <1>1, <1>2
<1> QED BY <1>1, <1>2, <1>4, <1>5, EditedEngine

LEMMA EngineDiesEngine == ASSUME IInv, EngineDies PROVE EngineOK'
<1>1. /\ docs' = {} /\ abandoned' = {} /\ up' = FALSE
      /\ UNCHANGED <<nextId, timeouts, documentId, userDoc, hand, step>>
  BY DEF EngineDies, loopVars, userVars
<1> QED BY <1>1, FewerEngine DEF IInv

\* An export that begins becomes the writing of a picture made of its document.
LEMMA ExportBegins ==
  ASSUME EngineOK, up, NEW c \in abandoned, c.call = "image.export",
         abandoned' = (abandoned \ {c}) \cup {Begun(c, d) : d \in {e \in docs : e.id = c.id}},
         UNCHANGED <<up, docs, nextId, timeouts, documentId, userDoc, hand, step>>
  PROVE  EngineOK'
<1>1. DocsOK /\ c.target \in Paths /\ \A d \in docs : d.id = c.id => Aims(d.path, c.target)
  BY DEF EngineOK, LateCalls
<1>2. CASE \A d \in docs : d.id # c.id
  <2>1. abandoned' \subseteq abandoned
    BY <1>2
  <2>2. up' \in BOOLEAN /\ up'
    BY DEF EngineOK
  <2> QED BY <2>1, <2>2, FewerEngine
<1>3. CASE \E d \in docs : d.id = c.id
  <2>1. PICK d \in docs : d.id = c.id
    BY <1>3
  <2>2. {e \in docs : e.id = c.id} = {d}
    BY <1>1, <2>1 DEF DocsOK
  <2> DEFINE w == Begun(c, d)
  <2>3. abandoned' = (abandoned \ {c}) \cup {w}
    BY <2>2
  <2>4. w.call = "write" /\ w.target = c.target /\ w.picture = Rendered(d)
    BY DEF Begun
  <2>5. Rendered(d) \in Pictures /\ Rendered(d).from = d.path
    BY <1>1, <2>1, RenderedType DEF DocsOK
  <2>6. Aims(w.picture.from, w.target) /\ w.target \in Paths /\ w.picture \in Pictures
    BY <1>1, <2>1, <2>4, <2>5
  <2> HIDE DEF w
  <2>7. LateCalls'
    BY <2>3, <2>4, <2>6 DEF EngineOK, LateCalls
  <2>8. Ids'
    BY <2>3, <2>4 DEF EngineOK, Ids
  <2>9. IsFiniteSet(abandoned')
    <3>1. IsFiniteSet(abandoned \ {c})
      BY FS_RemoveElement DEF EngineOK
    <3> QED BY <2>3, <3>1, FS_AddElement
  <2>10. OpensLeft' = OpensLeft /\ Orphans' = Orphans
    BY <2>3, <2>4 DEF OpensLeft, Orphans, DocIds
  <2>11. OrphansCounted' /\ DocsOK' /\ UsersOwn'
    BY <2>10 DEF EngineOK, OrphansCounted, DocsOK, UsersOwn
  <2> QED BY <2>7, <2>8, <2>9, <2>11 DEF EngineOK
<1> QED BY <1>2, <1>3

LEMMA CatchUpEngine == ASSUME IInv, CatchUp PROVE EngineOK'
<1>2. up /\ UNCHANGED <<up, timeouts, documentId, userDoc, hand, step>>
  BY DEF CatchUp, loopVars, userVars
<1>0. PICK c \in abandoned :
        \/ /\ abandoned' = abandoned \ {c}
           /\ \/ c.call = "image.open" /\ c.path \in Paths /\ Decodable(c.path) /\ Opened(c.path)
              \/ /\ c.call = "edit.apply" /\ c.op \in OpTypes
                 /\ docs' = Edited(c.id, c.op) /\ nextId' = nextId
              \/ /\ c.call = "image.close" /\ docs' = {d \in docs : d.id # c.id}
                 /\ nextId' = nextId
              \/ docs' = docs /\ nextId' = nextId
        \/ /\ c.call = "image.export" /\ docs' = docs /\ nextId' = nextId
           /\ abandoned' =
                (abandoned \ {c}) \cup {Begun(c, d) : d \in {e \in docs : e.id = c.id}}
  BY CatchUpDocs
<1>9. CASE /\ c.call = "image.export" /\ docs' = docs /\ nextId' = nextId
           /\ abandoned' =
                (abandoned \ {c}) \cup {Begun(c, d) : d \in {e \in docs : e.id = c.id}}
  BY <1>2, <1>9, ExportBegins DEF IInv
<1> SUFFICES ASSUME
        /\ abandoned' = abandoned \ {c}
        /\ \/ c.call = "image.open" /\ c.path \in Paths /\ Decodable(c.path) /\ Opened(c.path)
           \/ /\ c.call = "edit.apply" /\ c.op \in OpTypes
              /\ docs' = Edited(c.id, c.op) /\ nextId' = nextId
           \/ /\ c.call = "image.close" /\ docs' = {d \in docs : d.id # c.id} /\ nextId' = nextId
           \/ docs' = docs /\ nextId' = nextId
             PROVE  EngineOK'
  BY <1>0, <1>9
<1>1. /\ abandoned' = abandoned \ {c}
      /\ \/ c.call = "image.open" /\ c.path \in Paths /\ Decodable(c.path) /\ Opened(c.path)
         \/ /\ c.call = "edit.apply" /\ c.op \in OpTypes
            /\ docs' = Edited(c.id, c.op) /\ nextId' = nextId
         \/ /\ c.call = "image.close" /\ docs' = {d \in docs : d.id # c.id} /\ nextId' = nextId
         \/ docs' = docs /\ nextId' = nextId
  OBVIOUS
<1>3. EngineOK /\ DocsOK /\ timeouts \in Nat
  BY DEF IInv, EngineOK
<1>4. CASE c.call = "edit.apply" /\ c.op \in OpTypes /\ docs' = Edited(c.id, c.op) /\ nextId' = nextId
  <2>1. c.id # userDoc
    BY <1>3, <1>4 DEF EngineOK, Ids
  <2>2. \A e \in docs' : e.id = userDoc => e \in docs
    BY <1>3, <1>4, <2>1, EditedElsewhere
  <2>3. UsersOwn'
    BY <1>2, <1>3, <2>2 DEF EngineOK, UsersOwn
  <2>4. hand' \in 0..MaxHand /\ abandoned' \subseteq abandoned
    BY <1>1, <1>2, <1>3 DEF EngineOK
  <2> QED BY <1>2, <1>3, <1>4, <2>3, <2>4, EditedEngine
<1>5. CASE docs' \subseteq docs /\ nextId' = nextId
  <2>1. abandoned' \subseteq abandoned /\ up' \in BOOLEAN /\ up'
    BY <1>1, <1>2, <1>3 DEF EngineOK
  <2> QED BY <1>2, <1>3, <1>5, <2>1, FewerEngine
<1>6. CASE c.call = "image.open" /\ c.path \in Paths /\ Decodable(c.path) /\ Opened(c.path)
  <2>1. nextId \in Nat /\ abandoned' = abandoned \ {c}
    BY <1>1, <1>3 DEF EngineOK
  <2>2. /\ docs' = docs \cup {Fresh(c.path)} /\ nextId' = nextId + 1 /\ DocsOK'
        /\ DocIds' = DocIds \cup {nextId}
    BY <1>6, OpenedDocs
  <2>3. Fresh(c.path).id = nextId
    BY DEF Fresh
  <2>4. userDoc # nextId /\ \A a \in abandoned : a.call \notin {"image.open", "write"} => a.id # nextId
    BY <1>3, <2>1, BatchAssumption DEF EngineOK, Ids
  <2>5. Ids'
    BY <1>2, <1>3, <2>1, <2>2, <2>3 DEF EngineOK, Ids, DocsOK, DocType
  <2>6. UsersOwn'
    BY <1>2, <1>3, <2>2, <2>3, <2>4 DEF EngineOK, UsersOwn
  <2>7. LateCalls'
    BY <1>2, <1>3, <2>1, <2>2, <2>3, <2>4 DEF EngineOK, LateCalls
  <2>8. IsFiniteSet(abandoned')
    BY <1>3, <2>1, FS_Subset DEF EngineOK
  <2>9. OrphansCounted'
    <3>1. Orphans' \subseteq Orphans \cup {nextId}
      BY <1>2, <2>2 DEF Orphans
    <3>2. OpensLeft' = OpensLeft \ {c} /\ c \in OpensLeft
      BY <1>6, <2>1 DEF OpensLeft
    <3>3. IsFiniteSet(Orphans) /\ IsFiniteSet(OpensLeft)
      BY <1>3, FiniteCounts
    <3>4. /\ Cardinality(Orphans') \in Nat /\ Cardinality(Orphans) \in Nat
          /\ Cardinality(Orphans') <= Cardinality(Orphans) + 1
      BY <3>1, <3>3, OneMore
    <3>5. Cardinality(OpensLeft') = Cardinality(OpensLeft) - 1
      BY <3>2, <3>3, FS_RemoveElement
    <3>6. Cardinality(OpensLeft) \in Nat
      BY <3>3, FS_CardinalityType
    <3>7. Cardinality(Orphans) + Cardinality(OpensLeft) <= timeouts
      BY <1>3 DEF EngineOK, OrphansCounted
    <3> QED BY <1>2, <1>3, <3>4, <3>5, <3>6, <3>7 DEF OrphansCounted
  <2> QED BY <1>2, <1>3, <2>1, <2>2, <2>5, <2>6, <2>7, <2>8, <2>9 DEF EngineOK
<1>7. CASE c.call = "image.close" /\ docs' = {d \in docs : d.id # c.id} /\ nextId' = nextId
  BY <1>5, <1>7
<1>8. CASE docs' = docs /\ nextId' = nextId
  BY <1>5, <1>8
<1> QED BY <1>1, <1>4, <1>6, <1>7, <1>8

\* A document that is closed is no orphan, and one that is not took a timeout.
LEMMA CloseEngine == ASSUME IInv, Close PROVE EngineOK'
<1>1. /\ EngineOK /\ DocsOK /\ timeouts \in Nat /\ step = "closing" /\ documentId # None
      /\ MaxTimeouts \in Nat
  BY BatchAssumption DEF IInv, EngineOK, LoopOK, Close
<1>2. /\ UNCHANGED <<up, nextId, userDoc, hand>> /\ documentId' = None /\ step' = "next"
  BY DEF Close, userVars
<1>3. IsFiniteSet(Orphans) /\ IsFiniteSet(OpensLeft)
      /\ Cardinality(Orphans) + Cardinality(OpensLeft) <= timeouts
  BY <1>1, FiniteCounts DEF EngineOK, OrphansCounted
<1>4. CASE docs' \subseteq docs /\ UNCHANGED <<abandoned, timeouts>> /\ documentId \notin DocIds'
           /\ (~up => docs' = {})
  <2>1. DocsOK' /\ DocIds' \subseteq DocIds
    BY <1>1, <1>4, FewerDocs
  <2>2. Orphans' \in SUBSET Orphans /\ OpensLeft' \in SUBSET OpensLeft
    BY <1>2, <1>4, <2>1 DEF Orphans, OpensLeft
  <2>3. OrphansCounted'
    <3>1. Cardinality(Orphans') + Cardinality(OpensLeft') <= timeouts
      BY <1>1, <1>3, <2>2, NoMore
    <3> QED BY <1>4, <3>1 DEF OrphansCounted
  <2>4. Ids'
    BY <1>1, <1>2, <1>4 DEF EngineOK, Ids
  <2>5. LateCalls' /\ UsersOwn'
    BY <1>1, <1>2, <1>4 DEF EngineOK, LateCalls, UsersOwn
  <2> QED BY <1>1, <1>2, <1>4, <2>1, <2>3, <2>4, <2>5 DEF EngineOK
<1>5. CASE /\ up /\ timeouts < MaxTimeouts /\ timeouts' = timeouts + 1
           /\ abandoned' = abandoned \cup {CurrentCall} /\ UNCHANGED docs
  <2> DEFINE c == CurrentCall
  <2>1. c.call = "image.close" /\ c.id = documentId
    BY <1>1 DEF CurrentCall
  <2> HIDE DEF c
  <2>2. abandoned' = abandoned \cup {c}
    BY <1>5 DEF c
  <2>3. documentId \in Nat /\ documentId < nextId /\ documentId # userDoc
    BY <1>1 DEF EngineOK, Ids
  <2>4. Ids'
    BY <1>1, <1>2, <1>5, <2>1, <2>2, <2>3 DEF EngineOK, Ids
  <2>5. LateCalls' /\ UsersOwn' /\ DocsOK'
    BY <1>1, <1>2, <1>5, <2>1, <2>2 DEF EngineOK, LateCalls, UsersOwn, DocsOK
  <2>6. IsFiniteSet(abandoned')
    BY <1>1, <2>2, FS_AddElement DEF EngineOK
  <2>7. OrphansCounted'
    <3>1. Orphans' \subseteq Orphans \cup {documentId} /\ OpensLeft' = OpensLeft
      BY <1>2, <1>5, <2>1, <2>2 DEF Orphans, DocIds, OpensLeft
    <3>2. /\ Cardinality(Orphans') \in Nat /\ Cardinality(Orphans) \in Nat
          /\ Cardinality(Orphans') <= Cardinality(Orphans) + 1
      BY <1>3, <3>1, OneMore
    <3>3. Cardinality(OpensLeft) \in Nat
      BY <1>3, FS_CardinalityType
    <3> QED BY <1>1, <1>3, <1>5, <3>1, <3>2, <3>3 DEF OrphansCounted
  <2>8. timeouts' \in 0..MaxTimeouts
    BY <1>1, <1>5
  <2> QED BY <1>1, <1>2, <1>5, <2>4, <2>5, <2>6, <2>7, <2>8 DEF EngineOK
<1>6. CASE up /\ docs' = {d \in docs : d.id # documentId} /\ UNCHANGED <<abandoned, timeouts>>
  <2>1. documentId \notin DocIds'
    BY <1>6 DEF DocIds
  <2> QED BY <1>4, <1>6, <2>1
<1>7. CASE ~up /\ UNCHANGED <<docs, abandoned, timeouts>>
  <2>1. docs = {} /\ documentId \notin DocIds'
    BY <1>1, <1>7 DEF EngineOK, Ids, DocIds
  <2> QED BY <1>4, <1>7, <2>1
<1> QED BY <1>5, <1>6, <1>7 DEF Close

LEMMA EngineNext == ASSUME IInv, [Next]_vars PROVE EngineOK'
<1>1. EngineOK
  BY DEF IInv
<1>2. CASE Start \/ CancelBatch \/ CancelRest \/ Refuse \/ AskOpen \/ ExportAnswered \/ Finish
           \/ CallFails \/ Vanish \/ UNCHANGED vars
  <2>1. /\ UNCHANGED <<up, docs, nextId, abandoned, timeouts, documentId, userDoc, hand>>
        /\ step' = "working" => step = "working"
    BY <1>2 DEF Start, CancelBatch, CancelRest, Refuse, AskOpen, ExportAnswered, Finish,
                CallFails, Vanish, Fail, Chosen, vars, engineVars, userVars, loopVars
  <2> QED BY <1>1, <2>1, EngineFramed
<1>3. CASE OpenAnswered
  BY <1>3, OpenAnsweredEngine
<1>4. CASE ApplyAnswered
  BY <1>4, ApplyAnsweredEngine
<1>5. CASE CallTimesOut
  BY <1>5, CallTimesOutEngine
<1>6. CASE Close
  BY <1>6, CloseEngine
<1>7. CASE CatchUp
  BY <1>7, CatchUpEngine
<1>8. CASE EngineDies
  BY <1>8, EngineDiesEngine
<1>9. CASE UserOpens
  BY <1>9, UserOpensEngine
<1>10. CASE UserEdits
  BY <1>10, UserEditsEngine
<1> QED BY <1>2, <1>3, <1>4, <1>5, <1>6, <1>7, <1>8, <1>9, <1>10 DEF Next, LoopStep

LEMMA InvNext == ASSUME IInv, [Next]_vars PROVE IInv'
BY DiskNext, LoopNext, EngineNext, AtHandNext DEF IInv

-----------------------------------------------------------------------------
(* What is rendered.                                                       *)

\* Counting documents is counting their numbers.
LEMMA BatchedCounted ==
  ASSUME EngineOK
  PROVE  Cardinality(Batched) <= timeouts + (IF documentId = None THEN 0 ELSE 1)
<1> DEFINE own == DocIds \ {userDoc}  f == [d \in Batched |-> d.id]
<1>1. IsFiniteSet(DocIds) /\ IsFiniteSet(Orphans) /\ IsFiniteSet(OpensLeft)
  BY FiniteCounts
<1>2. IsFiniteSet(own)
  BY <1>1, FS_Subset
<1>3. f \in Injection(Batched, own)
  <2>1. f \in [Batched -> own]
    BY DEF Batched, DocIds
  <2>2. \A c, d \in Batched : f[c] = f[d] => c = d
    BY DEF Batched, EngineOK, DocsOK
  <2> HIDE DEF f, own
  <2> QED BY <2>1, <2>2 DEF Injection, IsInjective
<1>4. IsFiniteSet(Batched) /\ Cardinality(Batched) <= Cardinality(own)
  BY <1>2, <1>3, FS_Injection
<1>5. /\ Cardinality(Orphans) + Cardinality(OpensLeft) <= timeouts
      /\ Cardinality(Orphans) \in Nat /\ Cardinality(OpensLeft) \in Nat
      /\ Cardinality(Batched) \in Nat /\ Cardinality(own) \in Nat /\ timeouts \in Nat
  BY <1>1, <1>2, <1>4, FS_CardinalityType DEF EngineOK, OrphansCounted
<1>6. CASE documentId = None
  <2>1. own = Orphans
    BY <1>6, BatchAssumption DEF Orphans, DocIds, EngineOK, DocsOK, DocType
  <2> QED BY <1>4, <1>5, <1>6, <2>1
<1>7. CASE documentId # None
  <2>1. own \subseteq Orphans \cup {documentId}
    BY DEF Orphans
  <2>2. Cardinality(own) <= Cardinality(Orphans) + 1
    BY <1>1, <2>1, OneMore
  <2> QED BY <1>4, <1>5, <1>7, <2>2
<1> QED BY <1>6, <1>7

LEMMA InvOrder == ASSUME IInv PROVE BatchInOrder
<1>1. TypeOK
  BY DEF IInv, DiskOK, LoopOK, EngineOK, DocsOK, DocType, TypeOK
<1>2. DocumentsAccounted
  BY BatchedCounted DEF IInv, EngineOK, UsersOwn, DocumentsAccounted
<1> QED BY <1>1, <1>2 DEF BatchInOrder

\* No export is over what it was made from, late as it may be, unless its target
\* spells that photograph otherwise.
LEMMA NothingOverItself == ASSUME IInv, [Next]_vars PROVE NeverOverItsSource
<1>1. DiskOK /\ DocsOK
  BY DEF IInv, EngineOK
<1>2. ASSUME NEW picture \in Pictures, NEW place \in Paths, disk' = Written(picture, place),
             Aims(picture.from, place)
      PROVE  NeverOverItsSource
  <2>1. /\ disk'[FileOf[place]] = picture
        /\ \A f \in FilesOnDisk : f # FileOf[place] => disk'[f] = disk[f]
    BY <1>1, <1>2, WrittenDisk
  <2>2. FileOf[picture.from] = FileOf[place] => Respelt(picture.from)
    BY <1>2 DEF Aims, Respelt
  <2> QED BY <2>1, <2>2 DEF NeverOverItsSource
<1>3. CASE UNCHANGED disk
  BY <1>3 DEF NeverOverItsSource
<1>4. CASE CatchUp /\ disk' # disk
  BY <1>2, <1>4, LateWrite
<1>5. CASE ExportAnswered
  <2>1. PICK d \in docs :
          /\ Rendered(d) \in Pictures
          /\ Rendered(d).from = Source /\ Aims(Source, TargetOf(Source, request))
          /\ TargetOf(Source, request) \in Paths
          /\ disk' = Written(Rendered(d), TargetOf(Source, request))
    BY <1>5, OwnWrite
  <2> QED BY <1>2, <2>1
<1>6. CASE Vanish
  <2>1. PICK q \in FilesOnDisk : disk' = [disk EXCEPT ![q] = None]
    BY <1>6 DEF Vanish
  <2> QED BY <1>1, <2>1 DEF NeverOverItsSource, DiskOK
<1>7. CASE UNCHANGED vars
  BY <1>3, <1>7 DEF vars
<1>8. CASE Start \/ CancelBatch \/ CancelRest \/ Refuse \/ AskOpen \/ OpenAnswered \/ ApplyAnswered
  BY <1>3, <1>8 DEF Start, CancelBatch, CancelRest, Refuse, AskOpen, OpenAnswered, ApplyAnswered
<1>9. CASE CallFails \/ CallTimesOut \/ Close \/ Finish \/ EngineDies \/ UserOpens \/ UserEdits
  BY <1>3, <1>9 DEF CallFails, CallTimesOut, Close, Finish, EngineDies, UserOpens, UserEdits
<1> QED BY <1>3, <1>4, <1>5, <1>6, <1>7, <1>8, <1>9 DEF Next, LoopStep

\* The one report of a photograph as exported comes with the picture in its place.
LEMMA ExportIsThere == ASSUME IInv, ExportAnswered PROVE ReportedIsWritten
<1>1. /\ DiskOK /\ DocsOK /\ step = "working" /\ todo = <<>> /\ request \in Requests
      /\ items \in Seq(ItemType)
  BY DEF IInv, EngineOK, LoopOK, ExportAnswered
<1>2. PICK d \in docs :
        /\ d.id = documentId /\ Rendered(d) \in Pictures /\ Rendered(d).from = Source
        /\ TargetOf(Source, request) \in Paths
        /\ disk' = Written(Rendered(d), TargetOf(Source, request))
  BY OwnWrite
<1>3. TargetOf(Source, request) \in Paths
  BY <1>2
<1>4. d \in DocType /\ d.path = Source /\ Unfolds(d.ops, <<>>, Operations(request, d.picture))
  BY <1>1, <1>2 DEF IInv, AtHand, DocsOK
<1> DEFINE picture == disk'[FileOf[TargetOf(Source, request)]]
<1>5. picture = Rendered(d)
  BY <1>1, <1>2, <1>3, <1>4, WrittenDisk
<1>6. picture \in Pictures /\ picture.from = Source
  BY <1>2, <1>5
<1>7. picture # None
  BY <1>6, BatchAssumption
<1>8. Promised(picture, request, d.picture)
  BY <1>1, <1>4, <1>5, PromiseKept
<1> HIDE DEF picture
<1>9. ASSUME NEW k \in DOMAIN items' \ DOMAIN items PROVE items'[k] = Item(Source, "exported")
  <2>1. items' = Append(items, Item(Source, "exported"))
    BY DEF ExportAnswered
  <2> DEFINE item == Item(Source, "exported")
  <2> HIDE DEF item
  <2>2. items' = Append(items, item)
    BY <2>1 DEF item
  <2>3. k = Len(items) + 1
    BY <1>1, <2>2
  <2> QED BY <1>1, <2>2, <2>3 DEF item
<1> SUFFICES ASSUME NEW k \in DOMAIN items' \ DOMAIN items, items'[k].outcome = "exported"
             PROVE  \E e \in docs :
                      LET rendered == disk'[FileOf[TargetOf(items'[k].path, request)]]
                      IN /\ e.id = documentId /\ rendered # None /\ rendered.from = items'[k].path
                         /\ Promised(rendered, request, e.picture)
  BY DEF ReportedIsWritten
<1>10. items'[k].path = Source
  BY <1>9 DEF Item
<1>11. disk'[FileOf[TargetOf(items'[k].path, request)]] = picture
  BY <1>10 DEF picture
<1> QED BY <1>2, <1>6, <1>7, <1>8, <1>10, <1>11

\* Everything else that is reported is not an export.
LEMMA OthersReportNone ==
  ASSUME IInv, [Next]_vars, ~ExportAnswered PROVE ReportedIsWritten
<1> SUFFICES ASSUME NEW k \in DOMAIN items' \ DOMAIN items PROVE items'[k].outcome # "exported"
  BY DEF ReportedIsWritten
<1>1. items \in Seq(ItemType) /\ Len(items) \in Nat /\ LoopOK
  BY DEF IInv, LoopOK
<1>2. items' # items
  OBVIOUS
<1>3. ASSUME items' = Append(items, Item(Source, "failed"))
      PROVE  items'[k].outcome # "exported"
  <2> DEFINE item == Item(Source, "failed")
  <2>1. item.outcome # "exported"
    BY DEF Item
  <2> HIDE DEF item
  <2>2. items' = Append(items, item)
    BY <1>3 DEF item
  <2>3. k = Len(items) + 1
    BY <1>1, <2>2
  <2> QED BY <1>1, <2>1, <2>2, <2>3
<1>4. CASE Start
  BY <1>4 DEF Start
<1>5. CASE Refuse \/ CallFails \/ CallTimesOut
  <2>1. items' = Append(items, Item(Source, "failed"))
    BY <1>5 DEF Refuse, CallFails, CallTimesOut, Fail
  <2> QED BY <1>3, <2>1
<1>6. CASE CancelRest
  BY <1>1, <1>6, CancelledItems DEF Item
<1>7. CASE CancelBatch \/ AskOpen \/ OpenAnswered \/ ApplyAnswered \/ Close \/ Finish
           \/ CatchUp \/ EngineDies \/ UserOpens \/ UserEdits \/ Vanish \/ UNCHANGED vars
  BY <1>2, <1>7 DEF CancelBatch, AskOpen, OpenAnswered, ApplyAnswered, Close, Finish, CatchUp,
                    EngineDies, UserOpens, UserEdits, Vanish, vars, loopVars
<1> QED BY <1>4, <1>5, <1>6, <1>7 DEF Next, LoopStep

-----------------------------------------------------------------------------
(* The theorems about Batch.                                               *)

\* What the batch, the engine and the disk hold between them fits together: every
\* photograph the loop is done with has its item, the engine holds at most one
\* document beyond those a timeout cost, and the user's is as the user left it.
THEOREM AccountsBalance == Spec => []BatchInOrder
<1>1. Init => IInv
  BY InitInv
<1>2. IInv /\ [Next]_vars => IInv'
  BY InvNext
<1>3. IInv => BatchInOrder
  BY InvOrder
<1> QED BY <1>1, <1>2, <1>3, PTL DEF Spec

\* Whatever fails, times out, is cancelled or comes late, no export replaces what
\* it was made from, unless that is a photograph its target spells otherwise; and
\* every export reported is there as it was promised.
THEOREM ReportsAreTrue == Spec => ExportedMeansExported
<1>1. Init => IInv
  BY InitInv
<1>2. IInv /\ [Next]_vars => IInv'
  BY InvNext
<1>3. IInv /\ [Next]_vars => [NeverOverItsSource /\ ReportedIsWritten]_vars
  BY NothingOverItself, ExportIsThere, OthersReportNone
<1> QED BY <1>1, <1>2, <1>3, PTL DEF Spec, ExportedMeansExported

-----------------------------------------------------------------------------
(* What is kept of a list, prefix after prefix.                            *)

\* f is the record of the filter over the first m elements of s.
IsKeeping(f, s, S, m) ==
  f = [n \in 0 .. m |->
         IF n = 0 THEN <<>> ELSE IF s[n] \in S THEN Append(f[n - 1], s[n]) ELSE f[n - 1]]

Keeping(s, S) == CHOOSE f : IsKeeping(f, s, S, Len(s))

LEMMA KeptIsKeeping ==
  ASSUME NEW s, NEW S PROVE Kept(s, S) = Keeping(s, S)[Len(s)]
BY Zenon DEF Kept, Keeping, IsKeeping

\* Every list can be filtered.
LEMMA KeepingExists ==
  ASSUME NEW s, NEW S, NEW m \in Nat
  PROVE  \E f : IsKeeping(f, s, S, m)
<1> DEFINE T == {n \in Nat : ~ \E f : IsKeeping(f, s, S, n)}
<1> SUFFICES ASSUME T # {} PROVE FALSE
  OBVIOUS
<1>1. PICK x \in T : \A y \in T : x <= y
  BY HasLeast
<1>2. x # 0
  <2>1. IsKeeping([n \in 0 .. 0 |-> <<>>], s, S, 0)
    BY DEF IsKeeping
  <2> QED BY <2>1
<1>3. PICK f : IsKeeping(f, s, S, x - 1)
  <2>1. x - 1 \in Nat /\ x - 1 \notin T
    BY <1>1, <1>2
  <2> QED BY <2>1
<1> DEFINE turn(n) == IF n = 0 THEN <<>>
                      ELSE IF s[n] \in S THEN Append(f[n - 1], s[n]) ELSE f[n - 1]
           g == [n \in 0 .. x |-> turn(n)]
<1>4. \A n \in 0 .. (x - 1) : f[n] = turn(n)
  BY <1>3, Zenon DEF IsKeeping
<1>5. \A n \in 0 .. x : n # 0 => g[n - 1] = f[n - 1]
  <2> SUFFICES ASSUME NEW n \in 0 .. x, n # 0 PROVE g[n - 1] = f[n - 1]
    OBVIOUS
  <2>1. n - 1 \in 0 .. x /\ n - 1 \in 0 .. (x - 1)
    BY <1>2
  <2> HIDE DEF turn
  <2> QED BY <2>1, <1>4
<1>6. \A n \in 0 .. x :
        turn(n) = (IF n = 0 THEN <<>>
                   ELSE IF s[n] \in S THEN Append(g[n - 1], s[n]) ELSE g[n - 1])
  BY <1>5, Zenon
<1>7. IsKeeping(g, s, S, x)
  <2> HIDE DEF turn
  <2>1. g = [n \in 0 .. x |->
               IF n = 0 THEN <<>>
               ELSE IF s[n] \in S THEN Append(g[n - 1], s[n]) ELSE g[n - 1]]
    BY <1>6, Zenon
  <2> HIDE DEF g
  <2> QED BY <2>1, Zenon DEF IsKeeping
<1> QED BY <1>7, <1>1

LEMMA KeepingSteps ==
  ASSUME NEW f, NEW s, NEW S, NEW m \in Nat, IsKeeping(f, s, S, m)
  PROVE  /\ f[0] = <<>>
         /\ \A n \in 1 .. m : f[n] = IF s[n] \in S THEN Append(f[n - 1], s[n]) ELSE f[n - 1]
<1>1. f[0] = <<>>
  <2>1. 0 \in 0 .. m
    OBVIOUS
  <2> QED BY <2>1, Zenon DEF IsKeeping
<1>2. ASSUME NEW n \in 1 .. m
      PROVE  f[n] = IF s[n] \in S THEN Append(f[n - 1], s[n]) ELSE f[n - 1]
  <2>1. n \in 0 .. m /\ n # 0
    OBVIOUS
  <2> QED BY <2>1, Zenon DEF IsKeeping
<1> QED BY <1>1, <1>2

LEMMA KeepingKeeps ==
  ASSUME NEW s, NEW S, Len(s) \in Nat
  PROVE  IsKeeping(Keeping(s, S), s, S, Len(s))
BY KeepingExists, Zenon DEF Keeping

\* r is what the first n elements of s leave: elements of S in the order of s, each
\* as often, and no more of them.
Places(s, n, r, w) ==
  /\ w \in [1 .. Len(r) -> 1 .. n]
  /\ \A i \in 1 .. Len(r) : r[i] = s[w[i]]
  /\ \A i, j \in 1 .. Len(r) : i < j => w[i] < w[j]
Sifted(s, S, n, r) ==
  /\ r \in Seq(ToSet(s)) /\ Len(r) <= n
  /\ \A i \in 1 .. Len(r) : r[i] \in S
  /\ \A k \in 1 .. n : s[k] \in S => \E i \in 1 .. Len(r) : r[i] = s[k]
  /\ \E w : Places(s, n, r, w)

LEMMA Members ==
  ASSUME NEW T, NEW s \in Seq(T)
  PROVE  /\ ToSet(s) = {s[i] : i \in 1 .. Len(s)} /\ ToSet(s) \subseteq T
         /\ s \in Seq(ToSet(s)) /\ Len(s) \in Nat
<1>1. DOMAIN s = 1 .. Len(s) /\ Len(s) \in Nat
  OBVIOUS
<1>2. ToSet(s) = {s[i] : i \in 1 .. Len(s)} /\ ToSet(s) \subseteq T
  BY <1>1 DEF ToSet
<1>3. s = [i \in 1 .. Len(s) |-> s[i]]
  OBVIOUS
<1>4. s \in [1 .. Len(s) -> ToSet(s)]
  BY <1>2, <1>3
<1>5. s \in Seq(ToSet(s))
  BY <1>1, <1>4, SMTT(30)
<1> QED BY <1>1, <1>2, <1>5

LEMMA SiftedMore ==
  ASSUME NEW T, NEW s \in Seq(T), NEW S, NEW n \in Nat, n + 1 <= Len(s),
         NEW r, Sifted(s, S, n, r)
  PROVE  Sifted(s, S, n + 1, IF s[n + 1] \in S THEN Append(r, s[n + 1]) ELSE r)
<1>1. /\ r \in Seq(ToSet(s)) /\ Len(r) <= n /\ Len(r) \in Nat
      /\ \A i \in 1 .. Len(r) : r[i] \in S
      /\ \A k \in 1 .. n : s[k] \in S => \E i \in 1 .. Len(r) : r[i] = s[k]
  BY DEF Sifted
<1>2. PICK w : Places(s, n, r, w)
  BY DEF Sifted
<1>w. /\ w \in [1 .. Len(r) -> 1 .. n]
      /\ \A i \in 1 .. Len(r) : r[i] = s[w[i]]
      /\ \A i, j \in 1 .. Len(r) : i < j => w[i] < w[j]
  BY <1>2 DEF Places
<1>3. s[n + 1] \in ToSet(s)
  BY Members
<1>4. CASE s[n + 1] \notin S
  <2>1. \A k \in 1 .. (n + 1) : s[k] \in S => k \in 1 .. n
    BY <1>4
  <2>2. Places(s, n + 1, r, w)
    BY <1>1, <1>w, 1 .. n \subseteq 1 .. (n + 1) DEF Places
  <2> QED BY <1>1, <1>4, <2>1, <2>2 DEF Sifted
<1>5. CASE s[n + 1] \in S
  <2> DEFINE t == Append(r, s[n + 1])
             v == [i \in 1 .. (Len(r) + 1) |-> IF i <= Len(r) THEN w[i] ELSE n + 1]
  <2>1. /\ t \in Seq(ToSet(s)) /\ Len(t) = Len(r) + 1 /\ t[Len(r) + 1] = s[n + 1]
        /\ \A i \in 1 .. Len(r) : t[i] = r[i]
    BY <1>1, <1>3
  <2> HIDE DEF t
  <2>2. \A i \in 1 .. Len(t) : i \in 1 .. Len(r) \/ i = Len(r) + 1
    BY <2>1, <1>1
  <2>3. \A k \in 1 .. (n + 1) : k \in 1 .. n \/ k = n + 1
    OBVIOUS
  <2>4. \A i \in 1 .. Len(t) : t[i] \in S
    BY <1>1, <1>5, <2>1, <2>2
  <2>5. ASSUME NEW k \in 1 .. (n + 1), s[k] \in S PROVE \E i \in 1 .. Len(t) : t[i] = s[k]
    <3>1. CASE k = n + 1
      BY <3>1, <2>1, <1>1
    <3>2. CASE k \in 1 .. n
      <4>1. PICK i \in 1 .. Len(r) : r[i] = s[k]
        BY <3>2, <2>5, <1>1
      <4>2. i \in 1 .. Len(t) /\ t[i] = s[k]
        BY <4>1, <2>1, <1>1
      <4> QED BY <4>2
    <3> QED BY <3>1, <3>2, <2>3
  <2>6. v \in [1 .. Len(t) -> 1 .. (n + 1)]
    <3>1. \A i \in 1 .. (Len(r) + 1) : i <= Len(r) => i \in 1 .. Len(r)
      BY <1>1
    <3> QED BY <3>1, <2>1, <1>w, <1>1
  <2>7. \A i \in 1 .. Len(t) : t[i] = s[v[i]]
    BY <2>1, <2>2, <1>w, <1>1
  <2>8. ASSUME NEW i \in 1 .. Len(t), NEW j \in 1 .. Len(t), i < j PROVE v[i] < v[j]
    <3>0. i \in 1 .. Len(r) /\ i <= Len(r)
      BY <2>8, <2>1, <1>1
    <3>1. i \in 1 .. Len(r) /\ i <= Len(r) /\ w[i] \in 1 .. n
      BY <3>0, <1>w
    <3>2. CASE j <= Len(r)
      BY <3>1, <3>2, <2>8, <2>1, <1>1, <1>w
    <3>3. CASE j = Len(r) + 1
      BY <3>1, <3>3, <2>8, <2>1, <1>1, <1>w
    <3> QED BY <3>2, <3>3, <2>1, <1>1
  <2>9. Places(s, n + 1, t, v)
    <3> HIDE DEF v
    <3> QED BY <2>6, <2>7, <2>8 DEF Places
  <2>10. Sifted(s, S, n + 1, t)
    <3> HIDE DEF v
    <3> QED BY <1>1, <2>1, <2>4, <2>5, <2>9 DEF Sifted
  <2> QED BY <1>5, <2>10 DEF t
<1> QED BY <1>4, <1>5

LEMMA KeptIsSifted ==
  ASSUME NEW T, NEW s \in Seq(T), NEW S
  PROVE  Sifted(s, S, Len(s), Kept(s, S))
<1> DEFINE f == Keeping(s, S)  m == Len(s)
           B == {n \in 0 .. m : ~ Sifted(s, S, n, f[n])}
<1>1. /\ m \in Nat /\ f[0] = <<>>
      /\ \A n \in 1 .. m : f[n] = IF s[n] \in S THEN Append(f[n - 1], s[n]) ELSE f[n - 1]
  <2>1. Len(s) \in Nat /\ IsKeeping(f, s, S, Len(s))
    BY KeepingKeeps
  <2> QED BY <2>1, KeepingSteps
<1>2. Kept(s, S) = f[m]
  BY KeptIsKeeping
<1> HIDE DEF f
<1>3. B = {}
  <2> SUFFICES ASSUME B # {} PROVE FALSE
    OBVIOUS
  <2>1. PICK x \in B : \A y \in B : x <= y
    <3>1. B \in SUBSET Nat
      OBVIOUS
    <3> HIDE DEF B
    <3> QED BY <3>1, HasLeast
  <2>2. Sifted(s, S, 0, <<>>)
    <3> DEFINE w == [i \in 1 .. 0 |-> 1]
    <3>1. Len(<<>>) = 0 /\ <<>> \in Seq(ToSet(s))
      OBVIOUS
    <3>2. Places(s, 0, <<>>, w)
      BY <3>1 DEF Places
    <3> QED BY <3>1, <3>2 DEF Sifted
  <2>3. x # 0
    BY <2>1, <2>2, <1>1
  <2>4. x \in 1 .. m /\ x - 1 \in 0 .. m /\ x - 1 \in Nat /\ x - 1 + 1 = x /\ x <= m /\ ~ (x <= x - 1)
    BY <2>1, <2>3, <1>1
  <2>5. Sifted(s, S, x - 1, f[x - 1])
    BY <2>1, <2>4
  <2>6. f[x] = IF s[x] \in S THEN Append(f[x - 1], s[x]) ELSE f[x - 1]
    BY <1>1, <2>4
  <2> DEFINE k == x - 1
  <2>7. k \in Nat /\ k + 1 = x /\ k + 1 <= Len(s) /\ Sifted(s, S, k, f[k])
    BY <2>4, <2>5
  <2> HIDE DEF k
  <2>8. Sifted(s, S, k + 1, IF s[k + 1] \in S THEN Append(f[k], s[k + 1]) ELSE f[k])
    BY <2>7, SiftedMore
  <2>9. Sifted(s, S, x, f[x])
    BY <2>8, <2>7, <2>6 DEF k
  <2> QED BY <2>9, <2>1
<1>4. m \in 0 .. m
  BY <1>1
<1>5. Sifted(s, S, m, f[m])
  BY <1>3, <1>4
<1> QED BY <1>2, <1>5

\* What is kept are the elements in the set, and no list gets longer.
LEMMA KeptOfAList ==
  ASSUME NEW T, NEW s \in Seq(T), NEW S
  PROVE  /\ Kept(s, S) \in Seq(T) /\ Len(Kept(s, S)) <= Len(s)
         /\ ToSet(Kept(s, S)) = ToSet(s) \cap S
<1> DEFINE r == Kept(s, S)
<1>0. Sifted(s, S, Len(s), r)
  BY KeptIsSifted
<1> HIDE DEF r
<1>1. /\ r \in Seq(ToSet(s)) /\ Len(r) <= Len(s)
      /\ \A i \in 1 .. Len(r) : r[i] \in S
      /\ \A k \in 1 .. Len(s) : s[k] \in S => \E i \in 1 .. Len(r) : r[i] = s[k]
  BY <1>0 DEF Sifted
<1>2. ToSet(s) \subseteq T /\ ToSet(s) = {s[i] : i \in 1 .. Len(s)}
  BY Members
<1>3. r \in Seq(T)
  BY <1>1, <1>2, SeqMonotonic
<1>4. ToSet(r) = {r[i] : i \in 1 .. Len(r)} /\ ToSet(r) \subseteq ToSet(s)
  BY <1>1, Members
<1>5. ToSet(r) \subseteq S
  BY <1>1, <1>4
<1>6. ASSUME NEW x \in ToSet(s), x \in S PROVE x \in ToSet(r)
  BY <1>6, <1>1, <1>2, <1>4
<1> QED BY <1>1, <1>3, <1>4, <1>5, <1>6 DEF r

\* A list without duplicates keeps none.
LEMMA KeptIsInjective ==
  ASSUME NEW T, NEW s \in Seq(T), NEW S, IsInjective(s)
  PROVE  IsInjective(Kept(s, S))
<1> DEFINE r == Kept(s, S)
<1>1. r \in Seq(ToSet(s)) /\ \E w : Places(s, Len(s), r, w)
  BY KeptIsSifted DEF Sifted
<1> HIDE DEF r
<1>2. PICK w : Places(s, Len(s), r, w)
  BY <1>1
<1>3. /\ w \in [1 .. Len(r) -> 1 .. Len(s)]
      /\ \A i \in 1 .. Len(r) : r[i] = s[w[i]]
      /\ \A i, j \in 1 .. Len(r) : i < j => w[i] < w[j]
  BY <1>2 DEF Places
<1>4. DOMAIN r = 1 .. Len(r) /\ DOMAIN s = 1 .. Len(s) /\ Len(r) \in Nat /\ Len(s) \in Nat
  BY <1>1
<1>5. ASSUME NEW i \in 1 .. Len(r), NEW j \in 1 .. Len(r), r[i] = r[j] PROVE i = j
  <2>1. w[i] = w[j]
    <3>1. s[w[i]] = s[w[j]] /\ w[i] \in DOMAIN s /\ w[j] \in DOMAIN s
      BY <1>5, <1>3, <1>4
    <3> QED BY <3>1 DEF IsInjective
  <2>2. ~ (i < j) /\ ~ (j < i)
    <3>1. w[i] \in Nat /\ w[j] \in Nat
      BY <1>3, <1>4
    <3> QED BY <2>1, <3>1, <1>3
  <2> QED BY <2>2, <1>4
<1>6. IsInjective(r)
  BY <1>4, <1>5 DEF IsInjective
<1> QED BY <1>6 DEF r

\* The filter, turn by turn.
LEMMA KeptByTurns ==
  ASSUME NEW T, NEW s \in Seq(T), NEW S
  PROVE  \E f : /\ f[0] = <<>> /\ f[Len(s)] = Kept(s, S)
                /\ \A n \in 1 .. Len(s) :
                     f[n] = IF s[n] \in S THEN Append(f[n - 1], s[n]) ELSE f[n - 1]
<1> DEFINE f == Keeping(s, S)
<1>1. Len(s) \in Nat /\ IsKeeping(f, s, S, Len(s))
  BY KeepingKeeps
<1>2. Kept(s, S) = f[Len(s)]
  BY KeptIsKeeping
<1> HIDE DEF f
<1>3. /\ f[0] = <<>>
      /\ \A n \in 1 .. Len(s) : f[n] = IF s[n] \in S THEN Append(f[n - 1], s[n]) ELSE f[n - 1]
  BY <1>1, KeepingSteps
<1> QED BY <1>2, <1>3

\* A property of prefixes holds of every one of them.
LEMMA EveryPrefix ==
  ASSUME NEW m \in Nat, NEW G \in SUBSET (0 .. m), 0 \in G,
         \A n \in 1 .. m : n - 1 \in G => n \in G
  PROVE  m \in G
<1> DEFINE B == (0 .. m) \ G
<1>1. CASE B = {}
  BY <1>1
<1>2. CASE B # {}
  <2>1. PICK x \in B : \A y \in B : x <= y
    <3>1. B \in SUBSET Nat
      OBVIOUS
    <3> HIDE DEF B
    <3> QED BY <1>2, <3>1, HasLeast
  <2>2. x \in 1 .. m /\ x - 1 \in 0 .. m /\ ~ (x <= x - 1)
    BY <2>1
  <2>3. x - 1 \in G
    BY <2>1, <2>2
  <2> QED BY <2>1, <2>2, <2>3
<1> QED BY <1>1, <1>2

\* What the set holds and what it does not add up to the list.
LEMMA KeptAndTheRest ==
  ASSUME NEW T, NEW s \in Seq(T), NEW S, NEW U, \A x \in ToSet(s) : x \in S <=> x \notin U
  PROVE  Len(Kept(s, S)) + Len(Kept(s, U)) = Len(s)
<1>1. PICK f : /\ f[0] = <<>> /\ f[Len(s)] = Kept(s, S)
               /\ \A n \in 1 .. Len(s) :
                    f[n] = IF s[n] \in S THEN Append(f[n - 1], s[n]) ELSE f[n - 1]
  BY KeptByTurns
<1>2. PICK g : /\ g[0] = <<>> /\ g[Len(s)] = Kept(s, U)
               /\ \A n \in 1 .. Len(s) :
                    g[n] = IF s[n] \in U THEN Append(g[n - 1], s[n]) ELSE g[n - 1]
  BY KeptByTurns
<1> DEFINE both(n) == f[n] \in Seq(T) /\ g[n] \in Seq(T) /\ Len(f[n]) + Len(g[n]) = n
           G == {n \in 0 .. Len(s) : both(n)}
<1>3. Len(s) \in Nat /\ \A n \in 1 .. Len(s) : s[n] \in T /\ (s[n] \in S <=> s[n] \notin U)
  BY Members
<1>4. 0 \in G
  <2>1. <<>> \in Seq(T) /\ Len(<<>>) = 0
    OBVIOUS
  <2>2. both(0)
    BY <1>1, <1>2, <2>1
  <2>3. 0 \in 0 .. Len(s)
    BY <1>3
  <2> QED BY <2>2, <2>3
<1>5. ASSUME NEW n \in 1 .. Len(s), n - 1 \in G PROVE n \in G
  <2> DEFINE a == f[n - 1]  b == g[n - 1]
  <2>1. a \in Seq(T) /\ b \in Seq(T) /\ Len(a) + Len(b) = n - 1 /\ s[n] \in T
    BY <1>5, <1>3
  <2>2. /\ f[n] = IF s[n] \in S THEN Append(a, s[n]) ELSE a
        /\ g[n] = IF s[n] \in U THEN Append(b, s[n]) ELSE b
    BY <1>1, <1>2
  <2> HIDE DEF a, b
  <2>3. /\ Append(a, s[n]) \in Seq(T) /\ Len(Append(a, s[n])) = Len(a) + 1
        /\ Append(b, s[n]) \in Seq(T) /\ Len(Append(b, s[n])) = Len(b) + 1
    BY <2>1
  <2>4. Len(a) \in Nat /\ Len(b) \in Nat
    BY <2>1
  <2>5. both(n)
    <3>1. CASE s[n] \in S
      <4>1. f[n] = Append(a, s[n]) /\ g[n] = b
        BY <3>1, <2>2, <1>3
      <4> QED BY <4>1, <2>1, <2>3, <2>4
    <3>2. CASE s[n] \notin S
      <4>1. f[n] = a /\ g[n] = Append(b, s[n])
        BY <3>2, <2>2, <1>3
      <4> QED BY <4>1, <2>1, <2>3, <2>4
    <3> QED BY <3>1, <3>2
  <2>6. n \in 0 .. Len(s)
    OBVIOUS
  <2> HIDE DEF both
  <2> QED BY <2>5, <2>6
<1>6. Len(s) \in G
  <2>1. G \in SUBSET (0 .. Len(s))
    OBVIOUS
  <2> HIDE DEF G
  <2> QED BY <2>1, <1>3, <1>4, <1>5, EveryPrefix
<1>7. both(Len(s))
  BY <1>6
<1> QED BY <1>7, <1>1, <1>2

\* A list of nothing else is kept whole.
LEMMA KeptWhole ==
  ASSUME NEW T, NEW s \in Seq(T), NEW S, ToSet(s) \subseteq S
  PROVE  Kept(s, S) = s
<1>1. PICK f : /\ f[0] = <<>> /\ f[Len(s)] = Kept(s, S)
               /\ \A n \in 1 .. Len(s) :
                    f[n] = IF s[n] \in S THEN Append(f[n - 1], s[n]) ELSE f[n - 1]
  BY KeptByTurns
<1> DEFINE same(n) == f[n] \in Seq(T) /\ Len(f[n]) = n /\ \A i \in 1 .. n : f[n][i] = s[i]
           G == {n \in 0 .. Len(s) : same(n)}
<1>2. Len(s) \in Nat /\ \A n \in 1 .. Len(s) : s[n] \in T /\ s[n] \in S
  BY Members
<1>3. 0 \in G
  <2>1. <<>> \in Seq(T) /\ Len(<<>>) = 0 /\ 1 .. 0 = {}
    OBVIOUS
  <2>2. same(0)
    BY <1>1, <2>1
  <2>3. 0 \in 0 .. Len(s)
    BY <1>2
  <2> QED BY <2>2, <2>3
<1>4. ASSUME NEW n \in 1 .. Len(s), n - 1 \in G PROVE n \in G
  <2> DEFINE a == f[n - 1]
  <2>1. a \in Seq(T) /\ Len(a) = n - 1 /\ (\A i \in 1 .. n - 1 : a[i] = s[i]) /\ s[n] \in T
    BY <1>4, <1>2
  <2>2. f[n] = Append(a, s[n])
    BY <1>1, <1>2
  <2> HIDE DEF a
  <2>3. /\ Append(a, s[n]) \in Seq(T) /\ Len(Append(a, s[n])) = n
        /\ \A i \in 1 .. n - 1 : Append(a, s[n])[i] = a[i]
        /\ Append(a, s[n])[n] = s[n]
    BY <2>1
  <2>4. \A i \in 1 .. n : i \in 1 .. n - 1 \/ i = n
    OBVIOUS
  <2>5. same(n)
    BY <2>1, <2>2, <2>3, <2>4
  <2> QED BY <2>5, <1>2
<1>5. Len(s) \in G
  <2>1. G \in SUBSET (0 .. Len(s))
    OBVIOUS
  <2> HIDE DEF G
  <2> QED BY <2>1, <1>2, <1>3, <1>4, EveryPrefix
<1>6. same(Len(s))
  BY <1>5
<1>7. /\ Kept(s, S) \in Seq(T) /\ Len(Kept(s, S)) = Len(s)
      /\ \A i \in 1 .. Len(s) : Kept(s, S)[i] = s[i]
  BY <1>6, <1>1
<1> QED BY <1>7, SeqEqual

\* What stands in front of a list, and what its end or its beginning cut off leaves.
LEMMA PutInFront ==
  ASSUME NEW T, NEW s \in Seq(T), NEW x \in T
  PROVE  /\ <<x>> \o s \in Seq(T) /\ Len(<<x>> \o s) = Len(s) + 1
         /\ ToSet(<<x>> \o s) = {x} \cup ToSet(s)
         /\ (<<x>> \o s)[1] = x
         /\ \A i \in 1 .. Len(s) : (<<x>> \o s)[i + 1] = s[i]
         /\ IsInjective(s) /\ x \notin ToSet(s) => IsInjective(<<x>> \o s)
<1> DEFINE t == <<x>> \o s
<1>1. /\ t \in Seq(T) /\ Len(t) = Len(s) + 1 /\ t[1] = x
      /\ \A i \in 1 .. Len(s) : t[i + 1] = s[i]
  OBVIOUS
<1>2. \A i \in 1 .. Len(s) + 1 : i = 1 \/ (i - 1 \in 1 .. Len(s) /\ t[i] = s[i - 1])
  <2>1. ASSUME NEW i \in 1 .. Len(s) + 1, i # 1 PROVE i - 1 \in 1 .. Len(s) /\ t[i] = s[i - 1]
    <3>1. i - 1 \in 1 .. Len(s) /\ (i - 1) + 1 = i
      BY <2>1
    <3>2. t[(i - 1) + 1] = s[i - 1]
      BY <3>1, <1>1
    <3> QED BY <3>1, <3>2
  <2> QED BY <2>1
<1> HIDE DEF t
<1>3. ToSet(t) = {t[i] : i \in 1 .. Len(t)} /\ ToSet(s) = {s[i] : i \in 1 .. Len(s)} /\ Len(s) \in Nat
  BY <1>1, Members
<1>4. ToSet(t) = {x} \cup ToSet(s)
  <2>1. \A y \in ToSet(t) : y \in {x} \cup ToSet(s)
    BY <1>1, <1>2, <1>3
  <2>2. x \in ToSet(t)
    BY <1>1, <1>3
  <2>3. \A y \in ToSet(s) : y \in ToSet(t)
    <3> SUFFICES ASSUME NEW i \in 1 .. Len(s) PROVE s[i] \in ToSet(t)
      BY <1>3
    <3>1. i + 1 \in 1 .. Len(t)
      BY <1>1, <1>3
    <3> QED BY <3>1, <1>1, <1>3
  <2> QED BY <2>1, <2>2, <2>3
<1>5. ASSUME IsInjective(s), x \notin ToSet(s) PROVE IsInjective(t)
  <2>1. DOMAIN t = 1 .. Len(s) + 1 /\ DOMAIN s = 1 .. Len(s)
    BY <1>1
  <2>2. ASSUME NEW i \in 1 .. Len(s) + 1, NEW j \in 1 .. Len(s) + 1, t[i] = t[j] PROVE i = j
    <3>1. CASE i = 1 /\ j = 1
      BY <3>1
    <3>2. CASE i # 1 /\ j # 1
      <4>1. i - 1 \in 1 .. Len(s) /\ j - 1 \in 1 .. Len(s) /\ s[i - 1] = s[j - 1]
        BY <3>2, <1>2, <2>2
      <4>2. i - 1 = j - 1
        BY <4>1, <1>5, <2>1 DEF IsInjective
      <4> QED BY <4>2
    <3>3. CASE i = 1 /\ j # 1
      <4>1. j - 1 \in 1 .. Len(s) /\ s[j - 1] = x
        BY <3>3, <1>1, <1>2, <2>2
      <4> QED BY <4>1, <1>3, <1>5
    <3>4. CASE i # 1 /\ j = 1
      <4>1. i - 1 \in 1 .. Len(s) /\ s[i - 1] = x
        BY <3>4, <1>1, <1>2, <2>2
      <4> QED BY <4>1, <1>3, <1>5
    <3> QED BY <3>1, <3>2, <3>3, <3>4
  <2> QED BY <2>1, <2>2 DEF IsInjective
<1> QED BY <1>1, <1>4, <1>5 DEF t

LEMMA CutShort ==
  ASSUME NEW T, NEW s \in Seq(T), NEW m \in Nat, m <= Len(s)
  PROVE  /\ SubSeq(s, 1, m) \in Seq(T) /\ Len(SubSeq(s, 1, m)) = m
         /\ \A i \in 1 .. m : SubSeq(s, 1, m)[i] = s[i]
         /\ ToSet(SubSeq(s, 1, m)) \subseteq ToSet(s)
         /\ IsInjective(s) => IsInjective(SubSeq(s, 1, m))
<1> DEFINE t == SubSeq(s, 1, m)
<1>1. /\ t \in Seq(T) /\ Len(t) = m
      /\ \A i \in 1 .. m : t[i] = s[i]
  OBVIOUS
<1> HIDE DEF t
<1>2. /\ ToSet(t) = {t[i] : i \in 1 .. m} /\ ToSet(s) = {s[i] : i \in 1 .. Len(s)} /\ Len(s) \in Nat
      /\ DOMAIN t = 1 .. m /\ DOMAIN s = 1 .. Len(s)
  BY <1>1, Members
<1>3. \A i \in 1 .. m : i \in 1 .. Len(s)
  BY <1>2
<1>4. ToSet(t) \subseteq ToSet(s)
  BY <1>1, <1>2, <1>3
<1>5. IsInjective(s) => IsInjective(t)
  BY <1>1, <1>2, <1>3 DEF IsInjective
<1> QED BY <1>1, <1>4, <1>5 DEF t

-----------------------------------------------------------------------------
(* The catalogue: the lists of recent work and the ties.                   *)

\* What a DELETE of one path leaves: the rest, and less if the path was there.
LEMMA WithoutOne ==
  ASSUME NEW T, NEW list \in Seq(T), NEW path, Unique(list)
  PROVE  /\ Without(list, path) \in Seq(T) /\ Unique(Without(list, path))
         /\ ToSet(Without(list, path)) = ToSet(list) \ {path}
         /\ Len(Without(list, path)) <= Len(list)
         /\ path \in ToSet(list) => Len(Without(list, path)) < Len(list)
         /\ path \notin ToSet(list) => Without(list, path) = list
<1> DEFINE S == ToSet(list) \ {path}  w == Without(list, path)
<1>1. w = Kept(list, S)
  BY DEF Without
<1>2. w \in Seq(T) /\ Len(w) <= Len(list) /\ ToSet(w) = S
  BY <1>1, KeptOfAList, ToSet(list) \cap S = S
<1>3. IsInjective(w)
  BY <1>1, KeptIsInjective DEF Unique
<1>4. ASSUME path \in ToSet(list) PROVE Len(w) < Len(list)
  <2> DEFINE k == Kept(list, {path})
  <2>1. Len(k) + Len(w) = Len(list)
    BY <1>1, KeptAndTheRest
  <2>2. k \in Seq(T) /\ ToSet(k) = {path}
    BY <1>4, KeptOfAList, ToSet(list) \cap {path} = {path}
  <2> HIDE DEF k
  <2>3. Len(k) # 0
    <3>1. path \in {k[i] : i \in 1 .. Len(k)}
      BY <2>2, Members
    <3> QED BY <3>1
  <2> HIDE DEF w
  <2> QED BY <2>1, <2>2, <2>3, <1>2
<1>5. path \notin ToSet(list) => w = list
  BY <1>1, KeptWhole
<1>6. Len(w) <= RECENT_LIMIT
  <2> HIDE DEF w
  <2>1. Len(w) \in Nat /\ Len(list) \in Nat /\ Len(list) <= RECENT_LIMIT /\ RECENT_LIMIT \in Nat
    BY <1>2, CatalogueAssumption DEF Unique
  <2> QED BY <2>1, <1>2
<1> QED BY <1>2, <1>3, <1>4, <1>5, <1>6 DEF Unique

\* A list that remembers one path more has each once, is not longer than its limit,
\* has the path first, and loses none but its last, and that only when it is full.
LEMMA RememberedList ==
  ASSUME NEW T, NEW list \in Seq(T), NEW path \in T, Unique(list)
  PROVE  /\ Remembered(list, path) \in Seq(T) /\ Unique(Remembered(list, path))
         /\ ToSet(Remembered(list, path)) \subseteq {path} \cup ToSet(list)
         /\ \A x \in ToSet(list) \ ToSet(Remembered(list, path)) :
              path \notin ToSet(list) /\ Len(list) = RECENT_LIMIT /\ x = Last(list)
<1> DEFINE w == Without(list, path)  all == <<path>> \o w
           m == IF Len(all) < RECENT_LIMIT THEN Len(all) ELSE RECENT_LIMIT
           r == SubSeq(all, 1, m)
<1>1. RECENT_LIMIT \in Nat \ {0} /\ Len(list) \in Nat /\ Len(list) <= RECENT_LIMIT
  BY CatalogueAssumption DEF Unique
<1>2. /\ w \in Seq(T) /\ IsInjective(w) /\ ToSet(w) = ToSet(list) \ {path}
      /\ Len(w) <= Len(list) /\ Len(w) \in Nat
      /\ path \in ToSet(list) => Len(w) < Len(list)
      /\ path \notin ToSet(list) => w = list
  BY WithoutOne DEF Unique
<1>r. Remembered(list, path) = r
  BY DEF Remembered
<1> HIDE DEF w
<1>3. /\ all \in Seq(T) /\ Len(all) = Len(w) + 1 /\ ToSet(all) = {path} \cup ToSet(w)
      /\ all[1] = path /\ \A i \in 1 .. Len(w) : all[i + 1] = w[i]
      /\ IsInjective(all)
  BY <1>2, PutInFront
<1> HIDE DEF all
<1>4. m \in Nat /\ m <= Len(all) /\ m <= RECENT_LIMIT /\ 1 <= m /\ (m # RECENT_LIMIT => m = Len(all))
  BY <1>1, <1>2, <1>3
<1> HIDE DEF m
<1>5. /\ r \in Seq(T) /\ Len(r) = m /\ (\A i \in 1 .. m : r[i] = all[i])
      /\ ToSet(r) \subseteq ToSet(all) /\ IsInjective(r)
  BY <1>3, <1>4, CutShort
<1> HIDE DEF r
<1>6. ToSet(r) = {r[i] : i \in 1 .. m}
  BY <1>5, Members
<1>7. ASSUME NEW x \in ToSet(list) \ ToSet(r)
      PROVE  path \notin ToSet(list) /\ Len(list) = RECENT_LIMIT /\ x = Last(list)
  <2>1. x # path
    BY <1>3, <1>4, <1>5, <1>6
  <2>2. PICK i \in 1 .. Len(w) : x = w[i]
    BY <2>1, <1>2, Members
  <2>3. ~ (i + 1 <= m)
    <3> SUFFICES ASSUME i + 1 <= m PROVE FALSE
      OBVIOUS
    <3>1. i + 1 \in 1 .. m
      BY <1>4, <1>2
    <3>2. r[i + 1] = x
      BY <3>1, <2>2, <1>5, <1>3
    <3> QED BY <3>1, <3>2, <1>6
  <2>4. m = RECENT_LIMIT /\ i = RECENT_LIMIT /\ i = Len(w) /\ Len(w) = Len(list)
    BY <2>3, <1>1, <1>2, <1>3, <1>4
  <2>5. path \notin ToSet(list) /\ w = list
    BY <2>4, <1>2, <1>1
  <2> QED BY <2>2, <2>4, <2>5 DEF Last
<1>8. ToSet(r) \subseteq {path} \cup ToSet(list)
  BY <1>5, <1>3, <1>2
<1> QED BY <1>r, <1>4, <1>5, <1>7, <1>8 DEF Unique

LEMMA AliveList ==
  ASSUME NEW T, NEW list \in Seq(T), Unique(list)
  PROVE  /\ Alive(list) \in Seq(T) /\ Unique(Alive(list))
         /\ ToSet(Alive(list)) = ToSet(list) \cap there
<1> DEFINE r == Kept(list, there)
<1>1. r \in Seq(T) /\ Len(r) <= Len(list) /\ ToSet(r) = ToSet(list) \cap there /\ IsInjective(r)
  BY KeptOfAList, KeptIsInjective DEF Unique
<1> HIDE DEF r
<1>2. Len(r) \in Nat /\ Len(list) \in Nat /\ Len(list) <= RECENT_LIMIT /\ RECENT_LIMIT \in Nat
  BY <1>1, CatalogueAssumption DEF Unique
<1>3. Len(r) <= RECENT_LIMIT
  BY <1>1, <1>2
<1> QED BY <1>1, <1>3 DEF Alive, r, Unique

-----------------------------------------------------------------------------
(* Its inductive invariant.                                                *)

\* The document's photograph is its session's, and a save that was not crossed is
\* of it.
SaveIsOfTheSession ==
  /\ session.source # Null => session.of = session.source
  /\ saving # Null /\ ~saving.crossed /\ session.source # Null => saving.of = session.source

CatalogueInv ==
  CatalogueTypeOK /\ WorkReplacesItsSource /\ CleanWorkIsOnDisk /\ SaveIsOfTheSession

LEMMA CatalogueFacts ==
  /\ Photos \cap Saved = {} /\ Slot \notin Projects /\ Slot \in Saved /\ Projects \subseteq Saved
  /\ Null \notin Photos /\ Null \notin Saved /\ Null \notin Projects
  /\ Openable = Photos \cup Saved
BY CatalogueAssumption DEF Openable, Saved

LEMMA CatalogueInitInv == CatalogueInit => CatalogueInv
<1> SUFFICES ASSUME CatalogueInit PROVE CatalogueInv
  OBVIOUS
<1>1. Unique(<<>>) /\ ToSet(<<>>) = {} /\ <<>> \in Seq(Openable) /\ <<>> \in Seq(FolderPaths)
  <2>1. Len(<<>>) = 0 /\ DOMAIN <<>> = {}
    OBVIOUS
  <2> QED BY <2>1, CatalogueAssumption DEF Unique, IsInjective, ToSet
<1>2. CatalogueTypeOK
  BY <1>1, CatalogueFacts, CatalogueAssumption DEF CatalogueInit, CatalogueTypeOK, NoSession
<1>3. WorkReplacesItsSource /\ CleanWorkIsOnDisk /\ SaveIsOfTheSession
  BY <1>1 DEF CatalogueInit, WorkReplacesItsSource, CleanWorkIsOnDisk, SaveIsOfTheSession, NoSession
<1> QED BY <1>2, <1>3 DEF CatalogueInv

\* A step is one of these, a click in the list included.
CatalogueCases ==
  \/ \E p \in Photos : OpenPhoto(p)
  \/ \E q \in Saved : OpenProject(q)
  \/ \E q \in Saved : SaveTo(q)
  \/ TakeRecovery \/ Edit \/ Autosave \/ SaveDone \/ SaveFails \/ End
  \/ ListRecent \/ ListFolders
  \/ \E d \in FolderPaths : OpenFolder(d)
  \/ \E x \in Removable : Move(x)

LEMMA CatalogueSplits ==
  ASSUME CatalogueTypeOK, CatalogueNext PROVE CatalogueCases
<1>1. CASE ClickRecent
  <2>1. PICK x \in ToSet(recent) : IF x \in Photos THEN OpenPhoto(x) ELSE OpenProject(x)
    BY <1>1 DEF ClickRecent
  <2>2. x \in Openable
    BY Members DEF CatalogueTypeOK
  <2> QED BY <2>1, <2>2, CatalogueFacts DEF CatalogueCases
<1>2. CASE ~ClickRecent
  BY <1>2, CatalogueFacts DEF CatalogueNext, CatalogueCases
<1> QED BY <1>1, <1>2

SessionType == [open : BOOLEAN, path : Saved \cup {Null}, source : Photos \cup {Null},
                dirty : BOOLEAN, of : Photos \cup {Null}]
SavingType == [to : Saved, of : Photos \cup {Null}, crossed : BOOLEAN]

LEMMA CrossedSave ==
  ASSUME saving = Null \/ saving \in SavingType
  PROVE  Crossed = Null \/ (Crossed \in SavingType /\ Crossed.crossed)
BY DEF Crossed, SavingType

LEMMA OpenedSession ==
  ASSUME holds \in [Saved -> Photos \cup {Null}], NEW q \in Saved
  PROVE  /\ OpenedAt(q) \in SessionType
         /\ OpenedAt(q).open /\ OpenedAt(q).path = q /\ OpenedAt(q).source = Null
         /\ [OpenedAt(q) EXCEPT !.path = Null, !.dirty = TRUE] \in SessionType
         /\ [OpenedAt(q) EXCEPT !.path = Null, !.dirty = TRUE].path = Null
         /\ [OpenedAt(q) EXCEPT !.path = Null, !.dirty = TRUE].source = Null
BY DEF OpenedAt, SessionType

CatalogueTypes ==
  /\ there \subseteq Openable \cup FolderPaths
  /\ holds \in [Saved -> Photos \cup {Null}]
  /\ recent \in Seq(Openable) /\ Unique(recent)
  /\ recentFolders \in Seq(FolderPaths) /\ Unique(recentFolders)
  /\ ties \in [Photos -> Saved \cup {Null}]
  /\ session \in SessionType
  /\ saving = Null \/ saving \in SavingType
  /\ reopened \subseteq Photos /\ moves \in 0 .. MaxMoves

LEMMA CatalogueTyped == CatalogueTypeOK <=> CatalogueTypes
BY DEF CatalogueTypeOK, CatalogueTypes, SessionType, SavingType

\* What a save leaves of the lists, the ties and the session.
LEMMA SaveDoneKeeps ==
  ASSUME CatalogueInv, SaveDone
  PROVE  /\ CatalogueTypes'
         /\ \A p \in Photos : ties'[p] # Null /\ p \in ToSet(recent') => p \in reopened'
         /\ \A p \in Photos : ties'[p] # ties[p] =>
              p = session.source /\ ties'[p] = saving.to
         /\ \A x \in ToSet(recent) \ ToSet(recent') :
              \/ x = session.source /\ ties'[x] # Null
              \/ Len(recent) = RECENT_LIMIT /\ x = Last(recent)
         /\ session' = [session EXCEPT !.path = saving.to, !.dirty = FALSE]
         /\ session.path \in Saved \cup {Null} /\ saving.to \in Saved
         /\ there' = (there \cup {saving.to}) \ {Slot}
         /\ saving' = Null /\ session' \in SessionType
<1> DEFINE q == saving.to  l == IF session.source = Null THEN recent ELSE Forgotten(recent)
<1>1. /\ CatalogueTypes /\ saving # Null /\ saving \in SavingType /\ q \in Saved
      /\ saving.of \in Photos \cup {Null}
      /\ session \in SessionType /\ session.source \in Photos \cup {Null}
      /\ session.path \in Saved \cup {Null}
  BY CatalogueTyped DEF CatalogueInv, CatalogueTypes, SessionType, SavingType, SaveDone
<1>2. /\ holds' = [holds EXCEPT ![q] = saving.of]
      /\ there' = (there \cup {q}) \ {Slot}
      /\ recent' = Remembered(l, q)
      /\ IF session.source = Null THEN UNCHANGED <<ties, reopened>>
         ELSE /\ ties' = [ties EXCEPT ![session.source] = q]
              /\ reopened' = reopened \ {session.source}
      /\ session' = [session EXCEPT !.path = q, !.dirty = FALSE]
      /\ saving' = Null /\ recentFolders' = recentFolders /\ moves' = moves
  BY DEF SaveDone
<1>3. q \in Openable /\ q \notin Photos /\ q # Null
  BY <1>1, CatalogueFacts
<1>4. /\ recent \in Seq(Openable) /\ Unique(recent) /\ ties \in [Photos -> Saved \cup {Null}]
      /\ holds \in [Saved -> Photos \cup {Null}] /\ there \subseteq Openable \cup FolderPaths
      /\ recentFolders \in Seq(FolderPaths) /\ Unique(recentFolders)
      /\ reopened \subseteq Photos /\ moves \in 0 .. MaxMoves
  BY <1>1 DEF CatalogueTypes
<1>5. /\ l \in Seq(Openable) /\ Unique(l)
      /\ ToSet(l) = IF session.source = Null THEN ToSet(recent) ELSE ToSet(recent) \ {session.source}
      /\ session.source \in ToSet(recent) /\ session.source # Null => Len(l) < Len(recent)
      /\ session.source = Null \/ session.source \notin ToSet(recent) => l = recent
  <2>1. CASE session.source = Null
    BY <2>1, <1>4
  <2>2. CASE session.source # Null
    <3>1. l = Without(recent, session.source)
      BY <2>2 DEF Forgotten
    <3> HIDE DEF l
    <3> QED BY <2>2, <3>1, <1>4, WithoutOne
  <2> QED BY <2>1, <2>2
<1> HIDE DEF l
<1>6. /\ recent' \in Seq(Openable) /\ Unique(recent')
      /\ ToSet(recent') \subseteq {q} \cup ToSet(l)
      /\ \A x \in ToSet(l) \ ToSet(recent') : Len(l) = RECENT_LIMIT /\ x = Last(l)
  BY <1>2, <1>3, <1>5, RememberedList
<1>7. session' \in SessionType
  BY <1>1, <1>2 DEF SessionType
<1>8. CatalogueTypes'
  <2>1. holds' \in [Saved -> Photos \cup {Null}]
    BY <1>1, <1>2, <1>4
  <2>2. there' \subseteq Openable \cup FolderPaths
    BY <1>2, <1>3, <1>4
  <2>3. ties' \in [Photos -> Saved \cup {Null}] /\ reopened' \subseteq Photos
    BY <1>1, <1>2, <1>4
  <2> QED BY <1>2, <1>4, <1>6, <1>7, <2>1, <2>2, <2>3 DEF CatalogueTypes
<1>9. ASSUME NEW p \in Photos, ties'[p] # Null, p \in ToSet(recent') PROVE p \in reopened'
  <2>1. p \in ToSet(l)
    BY <1>9, <1>6, <1>3
  <2>2. p \in ToSet(recent) /\ p # session.source
    BY <2>1, <1>5, CatalogueFacts
  <2>3. ties'[p] = ties[p] /\ (p \in reopened => p \in reopened')
    BY <2>2, <1>2, <1>4
  <2> QED BY <1>9, <2>2, <2>3 DEF CatalogueInv, WorkReplacesItsSource
<1>10. ASSUME NEW p \in Photos, ties'[p] # ties[p]
       PROVE  p = session.source /\ ties'[p] = q
  BY <1>10, <1>2, <1>4
<1>11. ASSUME NEW x \in ToSet(recent) \ ToSet(recent')
       PROVE  \/ x = session.source /\ ties'[x] # Null
              \/ Len(recent) = RECENT_LIMIT /\ x = Last(recent)
  <2>1. CASE x \notin ToSet(l)
    <3>1. session.source # Null /\ x = session.source /\ x \in Photos
      BY <2>1, <1>5, <1>1
    <3>2. ties'[x] = q
      BY <3>1, <1>2, <1>4
    <3> QED BY <3>1, <3>2, <1>3
  <2>2. CASE x \in ToSet(l)
    <3>1. Len(l) = RECENT_LIMIT /\ x = Last(l)
      BY <2>2, <1>6
    <3>2. Len(recent) <= RECENT_LIMIT /\ Len(recent) \in Nat /\ Len(l) \in Nat
      BY <1>4, <1>5 DEF Unique
    <3>3. l = recent
      BY <3>1, <3>2, <1>5
    <3> QED BY <3>1, <3>3
  <2> QED BY <2>1, <2>2
<1> QED BY <1>1, <1>2, <1>7, <1>8, <1>9, <1>10, <1>11

LEMMA CatalogueTypesStep ==
  ASSUME CatalogueInv, CatalogueCases PROVE CatalogueTypes'
<1>1. /\ there \subseteq Openable \cup FolderPaths
      /\ holds \in [Saved -> Photos \cup {Null}]
      /\ recent \in Seq(Openable) /\ Unique(recent)
      /\ recentFolders \in Seq(FolderPaths) /\ Unique(recentFolders)
      /\ ties \in [Photos -> Saved \cup {Null}]
      /\ session \in SessionType
      /\ saving = Null \/ saving \in SavingType
      /\ reopened \subseteq Photos /\ moves \in 0 .. MaxMoves
  BY CatalogueTyped DEF CatalogueInv, CatalogueTypes
<1>2. Crossed = Null \/ Crossed \in SavingType
  BY <1>1, CrossedSave
<1>3. \A q \in Openable : Remembered(recent, q) \in Seq(Openable) /\ Unique(Remembered(recent, q))
  BY <1>1, RememberedList
<1>4. CASE \E p \in Photos : OpenPhoto(p)
  <2>1. PICK p \in Photos : OpenPhoto(p)
    BY <1>4
  <2>2. p \in Openable
    BY CatalogueFacts
  <2>3. session' \in SessionType
    BY <2>1 DEF OpenPhoto, SessionType
  <2> QED BY <1>1, <1>2, <1>3, <2>1, <2>2, <2>3 DEF OpenPhoto, CatalogueTypes
<1>5. CASE \E q \in Saved : OpenProject(q)
  <2>1. PICK q \in Saved : OpenProject(q)
    BY <1>5
  <2>2. q \in Openable /\ OpenedAt(q) \in SessionType
    BY <1>1, CatalogueFacts, OpenedSession
  <2> QED BY <1>1, <1>2, <1>3, <2>1, <2>2 DEF OpenProject, CatalogueTypes
<1>6. CASE \E q \in Saved : SaveTo(q)
  <2>1. PICK q \in Saved : SaveTo(q)
    BY <1>6
  <2>2. saving' \in SavingType
    BY <2>1, <1>1 DEF SaveTo, SavingType, SessionType
  <2> QED BY <1>1, <2>1, <2>2 DEF SaveTo, CatalogueTypes, tables
<1>7. CASE TakeRecovery
  <2>1. Slot \in Openable /\ Slot \in Saved
    BY CatalogueFacts
  <2>2. session' \in SessionType
    BY <1>1, <1>7, <2>1, OpenedSession DEF TakeRecovery
  <2> QED BY <1>1, <1>2, <1>3, <1>7, <2>1, <2>2 DEF TakeRecovery, CatalogueTypes
<1>8. CASE Edit
  <2>1. session' \in SessionType
    BY <1>1, <1>8 DEF Edit, SessionType
  <2> QED BY <1>1, <1>8, <2>1 DEF Edit, CatalogueTypes, tables
<1>9. CASE Autosave
  <2>1. holds' \in [Saved -> Photos \cup {Null}] /\ there' \subseteq Openable \cup FolderPaths
    BY <1>1, <1>9, CatalogueFacts DEF Autosave, SessionType
  <2> QED BY <1>1, <1>9, <2>1 DEF Autosave, CatalogueTypes, tables
<1>10. CASE SaveDone
  BY <1>10, SaveDoneKeeps
<1>11. CASE SaveFails
  BY <1>1, <1>11 DEF SaveFails, CatalogueTypes, tables
<1>12. CASE End
  <2>1. session' \in SessionType /\ there' \subseteq there /\ (saving' = Crossed \/ saving' = Null)
    BY <1>12 DEF End, NoSession, SessionType
  <2> QED BY <1>1, <1>2, <1>12, <2>1 DEF End, CatalogueTypes, tables
<1>13. CASE ListRecent
  <2>1. recent' \in Seq(Openable) /\ Unique(recent')
    BY <1>1, <1>13, AliveList DEF ListRecent
  <2> QED BY <1>1, <1>13, <2>1 DEF ListRecent, CatalogueTypes
<1>14. CASE ListFolders
  <2>1. recentFolders' \in Seq(FolderPaths) /\ Unique(recentFolders')
    BY <1>1, <1>14, AliveList DEF ListFolders
  <2> QED BY <1>1, <1>14, <2>1 DEF ListFolders, CatalogueTypes
<1>15. CASE \E d \in FolderPaths : OpenFolder(d)
  <2>1. PICK d \in FolderPaths : OpenFolder(d)
    BY <1>15
  <2>2. recentFolders' \in Seq(FolderPaths) /\ Unique(recentFolders')
    BY <1>1, <2>1, RememberedList DEF OpenFolder
  <2> QED BY <1>1, <2>1, <2>2 DEF OpenFolder, CatalogueTypes
<1>16. CASE \E x \in Removable : Move(x)
  <2>1. PICK x \in Removable : Move(x)
    BY <1>16
  <2>2. there' \subseteq Openable \cup FolderPaths /\ moves' \in 0 .. MaxMoves
    BY <1>1, <2>1, CatalogueAssumption DEF Move
  <2> QED BY <1>1, <2>1, <2>2 DEF Move, CatalogueTypes, tables
<1> QED BY <1>4, <1>5, <1>6, <1>7, <1>8, <1>9, <1>10, <1>11, <1>12, <1>13, <1>14, <1>15, <1>16
        DEF CatalogueCases

\* Apart from a save, no step ties a photograph, forgives one or puts one into the
\* list that is not opened by it.
LEMMA OtherStepsOfTheLists ==
  ASSUME CatalogueInv, CatalogueCases, ~SaveDone
  PROVE  /\ ties' = ties /\ reopened \subseteq reopened'
         /\ \A x \in ToSet(recent') : x \in ToSet(recent) \/ x \in Saved \/ x \in reopened'
         /\ \A x \in ToSet(recent) \ ToSet(recent') :
              x \notin there \/ (Len(recent) = RECENT_LIMIT /\ x = Last(recent))
<1>1. recent \in Seq(Openable) /\ Unique(recent)
  BY CatalogueTyped DEF CatalogueInv, CatalogueTypes
<1>2. \A q \in Openable :
        /\ ToSet(Remembered(recent, q)) \subseteq {q} \cup ToSet(recent)
        /\ \A x \in ToSet(recent) \ ToSet(Remembered(recent, q)) :
             Len(recent) = RECENT_LIMIT /\ x = Last(recent)
  BY <1>1, RememberedList
<1>3. CASE UNCHANGED <<recent, ties, reopened>>
  BY <1>3
<1>4. CASE \E p \in Photos : OpenPhoto(p)
  <2>1. PICK p \in Photos : OpenPhoto(p)
    BY <1>4
  <2>2. p \in Openable /\ recent' = Remembered(recent, p) /\ ties' = ties
        /\ reopened' = reopened \cup {p}
    BY <2>1, CatalogueFacts DEF OpenPhoto
  <2> QED BY <2>2, <1>2
<1>5. ASSUME NEW q \in Saved, recent' = Remembered(recent, q), UNCHANGED <<ties, reopened>>
      PROVE  /\ ties' = ties /\ reopened \subseteq reopened'
             /\ \A x \in ToSet(recent') : x \in ToSet(recent) \/ x \in Saved \/ x \in reopened'
             /\ \A x \in ToSet(recent) \ ToSet(recent') :
                  x \notin there \/ (Len(recent) = RECENT_LIMIT /\ x = Last(recent))
  <2>1. q \in Openable
    BY CatalogueFacts
  <2> QED BY <2>1, <1>2, <1>5
<1>6. CASE \E q \in Saved : OpenProject(q)
  BY <1>6, <1>5 DEF OpenProject
<1>7. CASE TakeRecovery
  BY <1>7, <1>5, CatalogueFacts DEF TakeRecovery
<1>8. CASE ListRecent
  <2>1. ToSet(recent') = ToSet(recent) \cap there /\ ties' = ties /\ reopened' = reopened
    BY <1>1, <1>8, AliveList DEF ListRecent
  <2> QED BY <2>1
<1> QED BY <1>3, <1>4, <1>6, <1>7, <1>8 DEF CatalogueCases, SaveTo, Edit, Autosave,
        SaveFails, End, ListFolders, OpenFolder, Move, tables

LEMMA WorkStillReplaces ==
  ASSUME CatalogueInv, CatalogueCases PROVE WorkReplacesItsSource'
<1>1. ASSUME NEW p \in Photos, ties'[p] # Null, p \in ToSet(recent') PROVE p \in reopened'
  <2>1. CASE SaveDone
    BY <2>1, <1>1, SaveDoneKeeps
  <2>2. CASE ~SaveDone
    <3>1. ties[p] # Null /\ (p \in ToSet(recent) \/ p \in reopened')
      BY <2>2, <1>1, OtherStepsOfTheLists, CatalogueFacts
    <3> QED BY <2>2, <3>1, OtherStepsOfTheLists DEF CatalogueInv, WorkReplacesItsSource
  <2> QED BY <2>1, <2>2
<1> QED BY <1>1 DEF WorkReplacesItsSource

\* A session that says it is saved was saved or opened from its path.
LEMMA CleanWorkStaysOnDisk ==
  ASSUME CatalogueInv, CatalogueCases PROVE CleanWorkIsOnDisk'
<1> SUFFICES ASSUME session'.open, session'.path \notin {Null, Slot}, ~session'.dirty
             PROVE  session'.path \in there' \cup Removable
  BY DEF CleanWorkIsOnDisk
<1>1. /\ session \in SessionType /\ holds \in [Saved -> Photos \cup {Null}]
      /\ session.open /\ session.path \notin {Null, Slot} /\ ~session.dirty
           => session.path \in there \cup Removable
  BY CatalogueTyped DEF CatalogueInv, CatalogueTypes, CleanWorkIsOnDisk
<1>2. ASSUME session' = session, \A x \in there : x \in there' \/ x = Slot \/ x \in Removable
      PROVE  session'.path \in there' \cup Removable
  BY <1>1, <1>2
<1>3. CASE \E p \in Photos : OpenPhoto(p)
  <2>1. session'.path = Null
    BY <1>3 DEF OpenPhoto
  <2> QED BY <2>1
<1>4. CASE \E q \in Saved : OpenProject(q)
  <2>1. PICK q \in Saved : OpenProject(q)
    BY <1>4
  <2>2. session'.path = q /\ q \in there /\ there' = there
    BY <2>1 DEF OpenProject, OpenedAt
  <2> QED BY <2>2
<1>5. CASE TakeRecovery
  <2>1. session'.path = Null
    BY <1>1, <1>5, OpenedSession, CatalogueFacts DEF TakeRecovery
  <2> QED BY <2>1
<1>6. CASE Edit
  <2>1. session'.dirty
    BY <1>1, <1>6 DEF Edit, SessionType
  <2> QED BY <2>1
<1>7. CASE SaveDone
  <2>1. session'.path = saving.to /\ there' = (there \cup {saving.to}) \ {Slot}
    <3>1. session' = [session EXCEPT !.path = saving.to, !.dirty = FALSE]
          /\ there' = (there \cup {saving.to}) \ {Slot}
      BY <1>7, SaveDoneKeeps
    <3> QED BY <1>1, <3>1 DEF SessionType
  <2> QED BY <2>1
<1>8. CASE End
  <2>1. session'.open = FALSE
    BY <1>8 DEF End, NoSession
  <2> QED BY <2>1
<1>9. CASE \/ \E q \in Saved : SaveTo(q)
           \/ Autosave \/ SaveFails \/ ListRecent \/ ListFolders
           \/ \E d \in FolderPaths : OpenFolder(d)
  <2>1. session' = session /\ there \subseteq there'
    BY <1>9 DEF SaveTo, Autosave, SaveFails, ListRecent, ListFolders, OpenFolder
  <2> QED BY <2>1, <1>2
<1>10. CASE \E x \in Removable : Move(x)
  BY <1>10, <1>2 DEF Move
<1> QED BY <1>3, <1>4, <1>5, <1>6, <1>7, <1>8, <1>9, <1>10 DEF CatalogueCases

LEMMA SaveStaysOfTheSession ==
  ASSUME CatalogueInv, CatalogueCases PROVE SaveIsOfTheSession'
<1>1. /\ session \in SessionType /\ (saving = Null \/ saving \in SavingType)
      /\ session.source # Null => session.of = session.source
      /\ saving # Null /\ ~saving.crossed /\ session.source # Null => saving.of = session.source
  BY CatalogueTyped DEF CatalogueInv, CatalogueTypes, SaveIsOfTheSession
<1>c. Crossed = Null \/ Crossed.crossed
  BY <1>1, CrossedSave
<1>2. CASE UNCHANGED <<session, saving>>
  BY <1>1, <1>2 DEF SaveIsOfTheSession
<1>3. CASE \E p \in Photos : OpenPhoto(p)
  <2>1. session'.of = session'.source /\ saving' = Crossed
    BY <1>3 DEF OpenPhoto
  <2> QED BY <2>1, <1>c DEF SaveIsOfTheSession
<1>4. CASE \E q \in Saved : OpenProject(q)
  <2>1. session'.source = Null /\ saving' = Crossed
    BY <1>4 DEF OpenProject, OpenedAt
  <2> QED BY <2>1, <1>c DEF SaveIsOfTheSession
<1>5. CASE TakeRecovery
  <2>1. session'.source = Null /\ saving' = Crossed
    BY <1>5, OpenedSession, CatalogueFacts, CatalogueTyped
       DEF TakeRecovery, CatalogueInv, CatalogueTypes
  <2> QED BY <2>1, <1>c DEF SaveIsOfTheSession
<1>6. CASE Edit
  <2>1. session'.source = session.source /\ session'.of = session.of /\ saving' = saving
    BY <1>1, <1>6 DEF Edit, SessionType
  <2> QED BY <2>1, <1>1 DEF SaveIsOfTheSession
<1>7. CASE \E q \in Saved : SaveTo(q)
  <2>1. session' = session /\ saving'.of = session.of
    BY <1>7 DEF SaveTo
  <2> QED BY <2>1, <1>1 DEF SaveIsOfTheSession
<1>8. CASE SaveDone
  <2>1. session' = [session EXCEPT !.path = saving.to, !.dirty = FALSE] /\ saving' = Null
    BY <1>8, SaveDoneKeeps
  <2>2. session'.source = session.source /\ session'.of = session.of
    BY <1>1, <2>1 DEF SessionType
  <2> QED BY <2>1, <2>2, <1>1 DEF SaveIsOfTheSession
<1>9. CASE SaveFails
  BY <1>1, <1>9 DEF SaveFails, SaveIsOfTheSession
<1>10. CASE End
  <2>1. session'.source = Null /\ (saving' = Crossed \/ saving' = Null)
    BY <1>10 DEF End, NoSession
  <2> QED BY <2>1, <1>c DEF SaveIsOfTheSession
<1> QED BY <1>2, <1>3, <1>4, <1>5, <1>6, <1>7, <1>8, <1>9, <1>10
        DEF CatalogueCases, Autosave, ListRecent, ListFolders, OpenFolder, Move

LEMMA CatalogueStepInv == CatalogueInv /\ [CatalogueNext]_catalogueVars => CatalogueInv'
<1> SUFFICES ASSUME CatalogueInv, [CatalogueNext]_catalogueVars PROVE CatalogueInv'
  OBVIOUS
<1>1. CASE CatalogueNext
  <2>1. CatalogueCases
    BY <1>1, CatalogueSplits DEF CatalogueInv
  <2>2. CatalogueTypes'
    BY <2>1, CatalogueTypesStep
  <2>3. CatalogueTypeOK'
    BY <2>2 DEF CatalogueTypeOK, CatalogueTypes, SessionType, SavingType
  <2> QED BY <2>1, <2>3, WorkStillReplaces, CleanWorkStaysOnDisk, SaveStaysOfTheSession
          DEF CatalogueInv
<1>2. CASE UNCHANGED catalogueVars
  BY <1>2 DEF catalogueVars, CatalogueInv, CatalogueTypeOK, WorkReplacesItsSource,
              CleanWorkIsOnDisk, SaveIsOfTheSession, Unique, IsInjective
<1> QED BY <1>1, <1>2

\* A photograph is tied by the save of its own work, and a path leaves the list only
\* for one of the three reasons.
LEMMA TablesKept ==
  ASSUME CatalogueInv, CatalogueNext
  PROVE  /\ \A p \in Photos : ties'[p] # ties[p] /\ ~saving.crossed =>
              ties'[p] = saving.to /\ saving.of = p
         /\ \A x \in ToSet(recent) \ ToSet(recent') :
              \/ x \notin there
              \/ x = session.source /\ ties'[x] # Null
              \/ Len(recent) = RECENT_LIMIT /\ x = Last(recent)
<1>1. CatalogueCases
  BY CatalogueSplits DEF CatalogueInv
<1>2. CASE SaveDone
  <2>1. ASSUME NEW p \in Photos, ties'[p] # ties[p], ~saving.crossed
        PROVE  ties'[p] = saving.to /\ saving.of = p
    <3>1. p = session.source /\ ties'[p] = saving.to
      BY <1>2, <2>1, SaveDoneKeeps
    <3>2. saving # Null /\ p # Null
      BY <1>2, CatalogueFacts DEF SaveDone
    <3> QED BY <2>1, <3>1, <3>2 DEF CatalogueInv, SaveIsOfTheSession
  <2> QED BY <1>2, <2>1, SaveDoneKeeps
<1>3. CASE ~SaveDone
  BY <1>1, <1>3, OtherStepsOfTheLists
<1> QED BY <1>2, <1>3

-----------------------------------------------------------------------------
(* How the window comes up: what is still on its way to the page.          *)

Events ==
  [kind : {"state"}, value : EngineStates]
  \cup [kind : {"open"}, value : Shots]
  \cup [kind : {"boot"}, value : EngineStates, path : Shots \cup {NoShot}]

SaysState(e) == e.kind \in {"state", "boot"}
BringsPath(e) == e.kind = "boot" /\ e.path # NoShot
TellsToOpen(e) == e.kind = "open" \/ BringsPath(e)
Told(e) == IF e.kind = "open" THEN e.value ELSE e.path

\* The event at i is the last of its kind on the wire.
LastState(i) == SaysState(wire[i]) /\ \A j \in DOMAIN wire : j > i => ~ SaysState(wire[j])
LastPath(i) == \A j \in DOMAIN wire : j > i => ~ BringsPath(wire[j])
LastOpen(i) == TellsToOpen(wire[i]) /\ \A j \in DOMAIN wire : j > i => ~ TellsToOpen(wire[j])

\* The last state on its way is the engine's; when none is, the page that has its
\* bootstrap shows it.
StateComes ==
  /\ \A i \in DOMAIN wire : LastState(i) => wire[i].value = engineState
  /\ mounted /\ ~asking /\ (\A i \in DOMAIN wire : ~ SaysState(wire[i])) => shownState = engineState

Parked == pendingOpenPath = latest /\ latest # NoShot

\* A bootstrap on its way is the last one, it brings what was handed over last unless
\* that is parked, and so does what is pushed, if no bootstrap follows it.
BootComes ==
  /\ asking \/ orphan => \A i \in DOMAIN wire : wire[i].kind # "boot"
  /\ \A i \in DOMAIN wire : wire[i].kind = "boot" =>
       mounted /\ (wire[i].path = NoShot \/ wire[i].path = latest \/ Parked)
  /\ \A i \in DOMAIN wire : wire[i].kind = "open" /\ LastPath(i) => Parked \/ lost = latest

\* What was handed over last is lost, will be claimed, is on its way or was opened.
ShotComes ==
  \/ lost = latest
  \/ Parked /\ (~mounted \/ asking \/ orphan)
  \/ mounted /\ \E i \in DOMAIN wire : LastOpen(i) /\ Told(wire[i]) = latest
  \/ opened = latest /\ \A i \in DOMAIN wire : ~ TellsToOpen(wire[i])

StartupInv ==
  /\ StartupTypeOK /\ wire \in Seq(Events)
  /\ webContents = "none" => ~mounted /\ ~asking /\ ~orphan /\ wire = <<>>
  /\ pendingOpenPath \in {NoShot, latest}
  /\ StateComes /\ BootComes /\ ShotComes

LEMMA StartupInitInv == StartupInit => StartupInv
<1> SUFFICES ASSUME StartupInit PROVE StartupInv
  OBVIOUS
<1>1. DOMAIN <<>> = {} /\ <<>> \in Seq(Events)
  OBVIOUS
<1>2. StartupTypeOK
  BY <1>1 DEF StartupInit, StartupTypeOK, EngineStates
<1> QED BY <1>1, <1>2 DEF StartupInit, StartupInv, StateComes, BootComes, ShotComes

\* One event more at the end, and one less at the head.
LEMMA WireAppended ==
  ASSUME wire \in Seq(Events), NEW e \in Events, wire' = Append(wire, e)
  PROVE  /\ wire' \in Seq(Events) /\ Len(wire) \in Nat /\ DOMAIN wire = 1 .. Len(wire)
         /\ Len(wire) + 1 \in DOMAIN wire' /\ wire'[Len(wire) + 1] = e
         /\ \A i \in DOMAIN wire : i \in DOMAIN wire' /\ wire'[i] = wire[i] /\ i < Len(wire) + 1
         /\ \A i \in DOMAIN wire' : i \in DOMAIN wire \/ i = Len(wire) + 1
         /\ \A i \in DOMAIN wire' : i \in Nat /\ i <= Len(wire) + 1
OBVIOUS

LEMMA WireTail ==
  ASSUME wire \in Seq(Events), wire # <<>>, wire' = Tail(wire)
  PROVE  /\ wire' \in Seq(Events) /\ 1 \in DOMAIN wire /\ Head(wire) = wire[1]
         /\ Head(wire) \in Events
         /\ \A i \in DOMAIN wire' : i \in Nat /\ i + 1 \in DOMAIN wire /\ wire'[i] = wire[i + 1]
         /\ \A i \in DOMAIN wire :
              i \in Nat /\ 1 <= i /\ (i # 1 => i - 1 \in DOMAIN wire' /\ wire'[i - 1] = wire[i])
<1>1. /\ wire' \in Seq(Events) /\ Len(wire') = Len(wire) - 1 /\ Len(wire) \in Nat \ {0}
      /\ \A i \in 1 .. Len(wire') : wire'[i] = wire[i + 1]
      /\ DOMAIN wire' = 1 .. Len(wire') /\ DOMAIN wire = 1 .. Len(wire)
      /\ Head(wire) = wire[1]
  OBVIOUS
<1>2. \A i \in DOMAIN wire' : i \in Nat /\ i + 1 \in DOMAIN wire /\ wire'[i] = wire[i + 1]
  BY <1>1
<1>3. ASSUME NEW i \in DOMAIN wire, i # 1 PROVE i - 1 \in DOMAIN wire' /\ wire'[i - 1] = wire[i]
  <2>1. i - 1 \in 1 .. Len(wire') /\ (i - 1) + 1 = i
    BY <1>1, <1>3
  <2>2. wire'[i - 1] = wire[(i - 1) + 1]
    BY <2>1, <1>1
  <2> QED BY <2>1, <2>2, <1>1
<1>4. 1 \in DOMAIN wire /\ \A i \in DOMAIN wire : i \in Nat /\ 1 <= i
  BY <1>1
<1>5. Head(wire) \in Events
  BY <1>1, <1>4
<1> QED BY <1>1, <1>2, <1>3, <1>4, <1>5

LEMMA EventsAre ==
  ASSUME NEW e \in Events
  PROVE  /\ e.kind \in {"open", "state", "boot"}
         /\ SaysState(e) => e.value \in EngineStates
         /\ TellsToOpen(e) => Told(e) \in Shots \cup {NoShot}
         /\ e.kind = "open" => e.value \in Shots /\ Told(e) = e.value /\ ~ SaysState(e)
                               /\ TellsToOpen(e) /\ ~ BringsPath(e)
         /\ e.kind = "state" => ~ TellsToOpen(e) /\ ~ BringsPath(e)
         /\ e.kind = "boot" => Told(e) = e.path /\ (TellsToOpen(e) <=> BringsPath(e))
                               /\ e.path \in Shots \cup {NoShot} /\ e.value \in EngineStates
BY DEF Events, SaysState, TellsToOpen, BringsPath, Told

-----------------------------------------------------------------------------
\* What the page is told of the engine.
LEMMA StateAppended ==
  ASSUME wire \in Seq(Events), NEW e \in Events, wire' = Append(wire, e),
         SaysState(e), e.value = engineState'
  PROVE  StateComes'
<1>1. /\ Len(wire) + 1 \in DOMAIN wire' /\ wire'[Len(wire) + 1] = e
      /\ \A i \in DOMAIN wire : i \in DOMAIN wire' /\ wire'[i] = wire[i] /\ i < Len(wire) + 1
      /\ \A i \in DOMAIN wire' : i \in DOMAIN wire \/ i = Len(wire) + 1
  BY WireAppended
<1>2. ASSUME NEW i \in DOMAIN wire', LastState(i)' PROVE wire'[i].value = engineState'
  <2>1. i = Len(wire) + 1
    BY <1>1, <1>2 DEF LastState
  <2> QED BY <2>1, <1>1
<1>3. ~ \A i \in DOMAIN wire' : ~ SaysState(wire'[i])
  BY <1>1
<1> QED BY <1>2, <1>3 DEF StateComes

LEMMA OpenAppended ==
  ASSUME StateComes, wire \in Seq(Events), NEW e \in Events, wire' = Append(wire, e),
         ~ SaysState(e), UNCHANGED <<engineState, mounted, asking, shownState>>
  PROVE  StateComes'
<1>1. /\ Len(wire) + 1 \in DOMAIN wire' /\ wire'[Len(wire) + 1] = e
      /\ \A i \in DOMAIN wire : i \in DOMAIN wire' /\ wire'[i] = wire[i] /\ i < Len(wire) + 1
      /\ \A i \in DOMAIN wire' : i \in DOMAIN wire \/ i = Len(wire) + 1
  BY WireAppended
<1>2. ASSUME NEW i \in DOMAIN wire', LastState(i)' PROVE wire'[i].value = engineState'
  <2>1. SaysState(wire'[i]) /\ \A j \in DOMAIN wire' : j > i => ~ SaysState(wire'[j])
    BY <1>2 DEF LastState
  <2>2. i \in DOMAIN wire /\ wire'[i] = wire[i]
    BY <1>1, <2>1
  <2>3. LastState(i)
    BY <1>1, <2>1, <2>2 DEF LastState
  <2> QED BY <2>2, <2>3 DEF StateComes
<1>3. (\A i \in DOMAIN wire' : ~ SaysState(wire'[i])) => \A i \in DOMAIN wire : ~ SaysState(wire[i])
  BY <1>1
<1> QED BY <1>2, <1>3 DEF StateComes

LEMMA StateDelivered ==
  ASSUME StateComes, wire \in Seq(Events), Deliver PROVE StateComes'
<1>1. /\ wire # <<>> /\ wire' = Tail(wire)
      /\ shownState' = IF mounted /\ Head(wire).kind \in {"state", "boot"} THEN Head(wire).value
                       ELSE shownState
      /\ UNCHANGED <<engineState, mounted, asking>>
  BY DEF Deliver, mainVars
<1>2. /\ 1 \in DOMAIN wire /\ Head(wire) = wire[1]
      /\ \A i \in DOMAIN wire' : i \in Nat /\ i + 1 \in DOMAIN wire /\ wire'[i] = wire[i + 1]
      /\ \A i \in DOMAIN wire :
           i \in Nat /\ 1 <= i /\ (i # 1 => i - 1 \in DOMAIN wire' /\ wire'[i - 1] = wire[i])
  BY <1>1, WireTail
<1>3. ASSUME NEW i \in DOMAIN wire', LastState(i)' PROVE wire'[i].value = engineState'
  <2>1. SaysState(wire'[i]) /\ \A j \in DOMAIN wire' : j > i => ~ SaysState(wire'[j])
    BY <1>3 DEF LastState
  <2>2. ASSUME NEW j \in DOMAIN wire, j > i + 1 PROVE ~ SaysState(wire[j])
    <3>1. j - 1 \in DOMAIN wire' /\ wire'[j - 1] = wire[j] /\ j - 1 > i
      BY <1>2, <2>2
    <3> QED BY <3>1, <2>1
  <2>3. LastState(i + 1)
    BY <1>2, <2>1, <2>2 DEF LastState
  <2> QED BY <1>1, <1>2, <2>3 DEF StateComes
<1>4. ASSUME mounted', ~asking', \A i \in DOMAIN wire' : ~ SaysState(wire'[i])
      PROVE  shownState' = engineState'
  <2>1. \A j \in DOMAIN wire : j # 1 => ~ SaysState(wire[j])
    BY <1>2, <1>4
  <2>2. CASE SaysState(wire[1])
    <3>1. LastState(1)
      BY <2>1, <2>2, <1>2 DEF LastState
    <3>2. wire[1].value = engineState
      BY <3>1, <1>2 DEF StateComes
    <3> QED BY <3>2, <2>2, <1>1, <1>2, <1>4 DEF SaysState
  <2>3. CASE ~ SaysState(wire[1])
    <3>1. shownState = engineState
      BY <2>1, <2>3, <1>1, <1>4 DEF StateComes
    <3> QED BY <3>1, <2>3, <1>1, <1>2 DEF SaysState
  <2> QED BY <2>2, <2>3
<1> QED BY <1>3, <1>4 DEF StateComes

LEMMA NothingOnTheWire ==
  ASSUME wire' = <<>> PROVE DOMAIN wire' = {} /\ wire' \in Seq(Events)
OBVIOUS

LEMMA WireUnmoved ==
  ASSUME StartupInv, UNCHANGED <<wire, mounted, asking, orphan, pendingOpenPath, latest, lost,
                                 opened, engineState, shownState>>
  PROVE  StateComes' /\ BootComes' /\ ShotComes'
BY DEF StartupInv, StateComes, BootComes, ShotComes, LastState, LastPath, LastOpen, Parked

LEMMA HandOverComes ==
  ASSUME StartupInv, NEW shot \in Shots, HandOver(shot)
  PROVE  StateComes' /\ BootComes' /\ ShotComes' /\ wire' \in Seq(Events)
<1> DEFINE e == [kind |-> "open", value |-> shot]
<1>1. /\ pendingOpenPath' = shot /\ latest' = shot
      /\ lost' = IF webContents = "loading" /\ mounted /\ ~asking THEN shot ELSE lost
      /\ UNCHANGED <<engineState, webContents, asking, orphan, mounted, shownState, opened>>
      /\ wire' = IF webContents = "loaded" THEN Append(wire, e) ELSE wire
  BY DEF HandOver, Forward, Send
<1>2. /\ wire \in Seq(Events) /\ webContents \in {"none", "loading", "loaded"}
      /\ webContents = "none" => ~mounted
      /\ StateComes /\ BootComes
  BY DEF StartupInv, StartupTypeOK
<1>3. e \in Events /\ e.kind = "open" /\ e.value = shot
  BY DEF Events
<1> HIDE DEF e
<1>4. ~ SaysState(e) /\ TellsToOpen(e) /\ Told(e) = shot
  BY <1>3, EventsAre
<1>p. Parked'
  BY <1>1, StartupAssumption DEF Parked
<1>5. CASE webContents # "loaded"
  <2>1. StateComes' /\ wire' = wire
    BY <1>1, <1>2, <1>5 DEF StateComes, LastState
  <2>2. BootComes'
    BY <1>1, <1>2, <1>5, <1>p DEF BootComes
  <2>3. ShotComes'
    <3>1. ~mounted \/ asking \/ (webContents = "loading" /\ mounted /\ ~asking)
      BY <1>2, <1>5
    <3>2. CASE ~mounted \/ asking
      BY <3>2, <1>1, <1>p DEF ShotComes
    <3>3. CASE webContents = "loading" /\ mounted /\ ~asking
      BY <3>3, <1>1 DEF ShotComes
    <3> QED BY <3>1, <3>2, <3>3
  <2> QED BY <1>2, <2>1, <2>2, <2>3
<1>6. CASE webContents = "loaded"
  <2>0. wire' = Append(wire, e)
    BY <1>1, <1>6
  <2>1. /\ wire' \in Seq(Events)
        /\ Len(wire) + 1 \in DOMAIN wire' /\ wire'[Len(wire) + 1] = e
        /\ \A i \in DOMAIN wire : i \in DOMAIN wire' /\ wire'[i] = wire[i] /\ i < Len(wire) + 1
        /\ \A i \in DOMAIN wire' : i \in DOMAIN wire \/ i = Len(wire) + 1
        /\ \A i \in DOMAIN wire' : i \in Nat /\ i <= Len(wire) + 1
        /\ Len(wire) \in Nat
    BY <1>2, <1>3, <2>0, WireAppended
  <2>2. StateComes'
    BY <1>1, <1>2, <1>3, <1>4, <2>0, OpenAppended
  <2>3. BootComes'
    <3>1. \A i \in DOMAIN wire' : wire'[i].kind = "boot" => i \in DOMAIN wire /\ wire'[i] = wire[i]
      BY <2>1, <1>3
    <3> QED BY <3>1, <1>1, <1>2, <1>p DEF BootComes
  <2>4. ShotComes'
    <3>1. CASE ~mounted
      BY <3>1, <1>1, <1>p DEF ShotComes
    <3>2. CASE mounted
      <4>0. PICK n \in DOMAIN wire' : n = Len(wire) + 1
        BY <2>1
      <4>1. \A j \in DOMAIN wire' : ~ (j > n)
        BY <2>1, <4>0
      <4>2. LastOpen(n)'
        BY <4>0, <4>1, <2>1, <1>4 DEF LastOpen
      <4>3. Told(wire'[n]) = latest'
        BY <4>0, <2>1, <1>4, <1>1
      <4> QED BY <3>2, <4>2, <4>3, <1>1 DEF ShotComes
    <3> QED BY <3>1, <3>2
  <2> QED BY <2>1, <2>2, <2>3, <2>4
<1> QED BY <1>5, <1>6

LEMMA LaunchComes ==
  ASSUME StartupInv, NEW shot \in Shots \cup {NoShot}, Launch(shot)
  PROVE  StateComes' /\ BootComes' /\ ShotComes' /\ wire' \in Seq(Events)
<1>1. /\ wire' = <<>> /\ wire = <<>> /\ ~mounted' /\ ~asking' /\ ~orphan' /\ ~mounted
  BY DEF Launch, StartupInv
<1>2. DOMAIN wire' = {} /\ wire' \in Seq(Events) /\ DOMAIN wire = {}
  BY <1>1
<1>3. StateComes' /\ BootComes'
  BY <1>1, <1>2 DEF StateComes, BootComes
<1>4. ShotComes'
  <2>1. CASE shot = NoShot
    <3>1. UNCHANGED <<pendingOpenPath, latest, lost, opened>>
      BY <2>1 DEF Launch
    <3> QED BY <3>1, <1>1, <1>2 DEF StartupInv, ShotComes, Parked
  <2>2. CASE shot # NoShot
    <3>1. Parked'
      BY <2>2 DEF Launch, Parked
    <3> QED BY <3>1, <1>1 DEF ShotComes
  <2> QED BY <2>1, <2>2
<1> QED BY <1>2, <1>3, <1>4

\* An event that opens nothing, at the end of the wire.
LEMMA OpenStillLast ==
  ASSUME wire \in Seq(Events), NEW e \in Events, wire' = Append(wire, e), ~ TellsToOpen(e),
         ShotComes, UNCHANGED <<mounted, latest, lost, opened>>, Parked => Parked',
         Parked /\ (~mounted \/ asking \/ orphan) => ~mounted' \/ asking' \/ orphan'
  PROVE  ShotComes'
<1>1. /\ Len(wire) + 1 \in DOMAIN wire' /\ wire'[Len(wire) + 1] = e
      /\ \A i \in DOMAIN wire : i \in DOMAIN wire' /\ wire'[i] = wire[i] /\ i < Len(wire) + 1
      /\ \A i \in DOMAIN wire' : i \in DOMAIN wire \/ i = Len(wire) + 1
  BY WireAppended
<1>2. ASSUME NEW i \in DOMAIN wire, LastOpen(i), Told(wire[i]) = latest, mounted
      PROVE  ShotComes'
  <2>1. LastOpen(i)'
    BY <1>1, <1>2 DEF LastOpen
  <2>2. Told(wire'[i]) = latest' /\ i \in DOMAIN wire' /\ mounted'
    BY <1>1, <1>2
  <2> QED BY <2>1, <2>2 DEF ShotComes
<1>3. (\A i \in DOMAIN wire : ~ TellsToOpen(wire[i])) => \A i \in DOMAIN wire' : ~ TellsToOpen(wire'[i])
  BY <1>1
<1>4. CASE lost = latest
  BY <1>4 DEF ShotComes
<1>5. CASE Parked /\ (~mounted \/ asking \/ orphan)
  BY <1>5 DEF ShotComes
<1>6. CASE opened = latest /\ \A i \in DOMAIN wire : ~ TellsToOpen(wire[i])
  BY <1>3, <1>6 DEF ShotComes
<1> QED BY <1>2, <1>4, <1>5, <1>6 DEF ShotComes

LEMMA EngineTurnsComes ==
  ASSUME StartupInv, NEW state \in EngineStates, EngineTurns(state)
  PROVE  StateComes' /\ BootComes' /\ ShotComes' /\ wire' \in Seq(Events)
<1> DEFINE e == [kind |-> "state", value |-> state]
<1>1. /\ engineState' = state
      /\ wire' = IF webContents = "none" THEN wire ELSE Append(wire, e)
      /\ UNCHANGED <<pendingOpenPath, webContents, asking, orphan, mounted, shownState, opened,
                     latest, lost>>
  BY DEF EngineTurns, Send, historyVars
<1>2. /\ wire \in Seq(Events) /\ StateComes /\ BootComes /\ ShotComes
      /\ webContents = "none" => ~mounted /\ wire = <<>>
  BY DEF StartupInv
<1>3. e \in Events /\ e.kind = "state" /\ e.value = state
  BY DEF Events
<1> HIDE DEF e
<1>4. ~ TellsToOpen(e) /\ ~ BringsPath(e) /\ SaysState(e)
  BY <1>3, EventsAre DEF SaysState
<1>5. CASE webContents = "none"
  <2>1. wire' = wire /\ DOMAIN wire = {} /\ ~mounted
    BY <1>1, <1>2, <1>5
  <2> QED BY <1>1, <1>2, <2>1 DEF StateComes, BootComes, ShotComes, Parked
<1>6. CASE webContents # "none"
  <2>0. wire' = Append(wire, e)
    BY <1>1, <1>6
  <2>1. /\ wire' \in Seq(Events) /\ Len(wire) + 1 \in DOMAIN wire' /\ wire'[Len(wire) + 1] = e
        /\ \A i \in DOMAIN wire : i \in DOMAIN wire' /\ wire'[i] = wire[i] /\ i < Len(wire) + 1
        /\ \A i \in DOMAIN wire' : i \in DOMAIN wire \/ i = Len(wire) + 1
    BY <1>2, <1>3, <2>0, WireAppended
  <2>2. StateComes'
    BY <1>1, <1>2, <1>3, <1>4, <2>0, StateAppended
  <2>3. Parked' = Parked
    BY <1>1 DEF Parked
  <2>4. BootComes'
    <3>1. \A i \in DOMAIN wire' : wire'[i].kind \in {"boot", "open"} =>
            i \in DOMAIN wire /\ wire'[i] = wire[i]
      BY <2>1, <1>3
    <3>2. \A i \in DOMAIN wire : LastPath(i)' => LastPath(i)
      BY <2>1 DEF LastPath
    <3> QED BY <3>1, <3>2, <2>3, <1>1, <1>2 DEF BootComes
  <2>5. ShotComes'
    BY <1>1, <1>2, <1>3, <1>4, <2>0, <2>3, OpenStillLast
  <2> QED BY <2>1, <2>2, <2>4, <2>5
<1> QED BY <1>5, <1>6

LEMMA MountComes ==
  ASSUME StartupInv, Mount
  PROVE  StateComes' /\ BootComes' /\ ShotComes'
<1>1. /\ ~mounted /\ mounted' /\ asking'
      /\ UNCHANGED <<wire, orphan, shownState, opened, engineState, pendingOpenPath, latest, lost>>
      /\ StateComes /\ BootComes /\ ShotComes
  BY DEF Mount, mainVars, historyVars, StartupInv
<1>2. Parked' = Parked
  BY <1>1 DEF Parked
<1>3. StateComes'
  BY <1>1 DEF StateComes, LastState
<1>4. \A i \in DOMAIN wire : wire[i].kind # "boot"
  BY <1>1 DEF BootComes
<1>5. BootComes'
  BY <1>1, <1>2, <1>4 DEF BootComes, LastPath
<1>6. ShotComes'
  BY <1>1, <1>2 DEF ShotComes
<1> QED BY <1>3, <1>5, <1>6

LEMMA ShotLost == ASSUME lost' = latest' PROVE ShotComes'
BY DEF ShotComes

LEMMA ShotParked == ASSUME Parked', ~mounted' \/ asking' \/ orphan' PROVE ShotComes'
BY DEF ShotComes

LEMMA ShotOpened ==
  ASSUME opened' = latest', \A i \in DOMAIN wire' : ~ TellsToOpen(wire'[i]) PROVE ShotComes'
BY DEF ShotComes

LEMMA OrphanComes ==
  ASSUME StartupInv, Bootstrap, orphan
  PROVE  StateComes' /\ BootComes' /\ ShotComes' /\ wire' = wire
<1>1. /\ pendingOpenPath' = NoShot /\ ~orphan'
      /\ lost' = IF pendingOpenPath = NoShot THEN lost ELSE pendingOpenPath
      /\ UNCHANGED <<asking, wire, engineState, webContents, mounted, shownState, opened, latest>>
  BY DEF Bootstrap
<1>2. /\ StateComes /\ BootComes /\ ShotComes /\ pendingOpenPath \in {NoShot, latest}
  BY DEF StartupInv
<1>3. StateComes'
  BY <1>1, <1>2 DEF StateComes, LastState
<1>4. Parked \/ lost = latest => lost' = latest'
  BY <1>1, <1>2 DEF Parked
<1>5. BootComes'
  BY <1>1, <1>2, <1>4 DEF BootComes, LastPath
<1>6. ShotComes'
  <2>1. CASE Parked \/ lost = latest
    BY <2>1, <1>4 DEF ShotComes
  <2>2. CASE ~ (Parked \/ lost = latest)
    <3>1. \A i \in DOMAIN wire : LastOpen(i) => LastOpen(i)'
      BY <1>1 DEF LastOpen
    <3> QED BY <2>2, <3>1, <1>1, <1>2 DEF ShotComes
  <2> QED BY <2>1, <2>2
<1> QED BY <1>1, <1>3, <1>5, <1>6

LEMMA BootstrapComes ==
  ASSUME StartupInv, Bootstrap, ~orphan
  PROVE  StateComes' /\ BootComes' /\ ShotComes' /\ wire' \in Seq(Events)
<1> DEFINE e == [kind |-> "boot", value |-> engineState, path |-> pendingOpenPath]
<1>1. /\ asking /\ ~asking' /\ pendingOpenPath' = NoShot
      /\ wire' = IF webContents = "none" THEN wire ELSE Append(wire, e)
      /\ UNCHANGED <<orphan, lost, engineState, webContents, mounted, shownState, opened, latest>>
  BY DEF Bootstrap, Send
<1>2. /\ StateComes /\ BootComes /\ ShotComes /\ pendingOpenPath \in {NoShot, latest}
      /\ wire \in Seq(Events) /\ mounted /\ webContents # "none"
      /\ engineState \in EngineStates /\ pendingOpenPath \in Shots \cup {NoShot}
  BY <1>1 DEF StartupInv, StartupTypeOK
<1>3. /\ e \in Events /\ e.kind = "boot" /\ e.value = engineState /\ e.path = pendingOpenPath
      /\ wire' = Append(wire, e)
  BY <1>1, <1>2 DEF Events
<1> HIDE DEF e
<1>4. /\ SaysState(e) /\ Told(e) = pendingOpenPath /\ (TellsToOpen(e) <=> BringsPath(e))
      /\ BringsPath(e) <=> pendingOpenPath # NoShot
  BY <1>3, EventsAre DEF SaysState, BringsPath
<1>5. /\ wire' \in Seq(Events) /\ Len(wire) + 1 \in DOMAIN wire' /\ wire'[Len(wire) + 1] = e
      /\ \A i \in DOMAIN wire : i \in DOMAIN wire' /\ wire'[i] = wire[i] /\ i < Len(wire) + 1
      /\ \A i \in DOMAIN wire' : i \in DOMAIN wire \/ i = Len(wire) + 1
      /\ \A i \in DOMAIN wire' : i \in Nat /\ i <= Len(wire) + 1
      /\ Len(wire) \in Nat
  BY <1>2, <1>3, WireAppended
<1>6. StateComes'
  BY <1>1, <1>2, <1>3, <1>4, StateAppended
<1>7. \A i \in DOMAIN wire : wire[i].kind # "boot"
  BY <1>1, <1>2 DEF BootComes
<1>8. PICK n \in DOMAIN wire' : n = Len(wire) + 1
  BY <1>5
<1>9. BootComes'
  <2>1. \A i \in DOMAIN wire' : wire'[i].kind = "boot" => i = n
    BY <1>5, <1>7, <1>8
  <2>2. wire'[n].path \in {NoShot, latest'} /\ mounted'
    BY <1>1, <1>2, <1>3, <1>5, <1>8
  <2>3. ASSUME NEW i \in DOMAIN wire', wire'[i].kind = "open", LastPath(i)'
        PROVE  lost' = latest'
    <3>1. i \in DOMAIN wire /\ wire[i].kind = "open" /\ n > i
      BY <2>3, <1>3, <1>5, <1>8
    <3>2. ~ BringsPath(wire'[n])
      BY <2>3, <3>1, <1>8 DEF LastPath
    <3>3. pendingOpenPath = NoShot
      BY <3>2, <1>4, <1>5, <1>8
    <3>4. LastPath(i)
      BY <1>7 DEF LastPath, BringsPath
    <3>5. ~ Parked
      BY <3>3 DEF Parked
    <3> QED BY <3>1, <3>4, <3>5, <1>1, <1>2 DEF BootComes
  <2>4. ~asking' /\ ~orphan'
    BY <1>1
  <2> QED BY <2>1, <2>2, <2>3, <2>4 DEF BootComes
<1>10. ShotComes'
  <2>1. CASE pendingOpenPath = NoShot
    <3>1. ~ Parked /\ ~ TellsToOpen(e)
      BY <2>1, <1>4 DEF Parked
    <3> QED BY <3>1, <1>1, <1>2, <1>3, OpenStillLast
  <2>2. CASE pendingOpenPath # NoShot
    <3>1. TellsToOpen(wire'[n]) /\ Told(wire'[n]) = latest'
      BY <2>2, <1>1, <1>2, <1>4, <1>5, <1>8
    <3>2. \A j \in DOMAIN wire' : ~ (j > n)
      BY <1>5, <1>8
    <3>3. LastOpen(n)'
      BY <3>1, <3>2 DEF LastOpen
    <3> QED BY <3>1, <3>3, <1>1, <1>2 DEF ShotComes
  <2> QED BY <2>1, <2>2
<1> QED BY <1>5, <1>6, <1>9, <1>10

LEMMA DeliverComes ==
  ASSUME StartupInv, Deliver
  PROVE  StateComes' /\ BootComes' /\ ShotComes' /\ wire' \in Seq(Events)
<1>1. /\ wire # <<>> /\ wire' = Tail(wire)
      /\ opened' = IF mounted /\ Head(wire).kind = "open" THEN Head(wire).value
                   ELSE IF Head(wire).kind = "boot" /\ Head(wire).path # NoShot THEN Head(wire).path
                   ELSE opened
      /\ UNCHANGED <<pendingOpenPath, engineState, webContents, asking, orphan, mounted, latest, lost>>
  BY DEF Deliver, mainVars, historyVars
<1>2. /\ StateComes /\ BootComes /\ ShotComes /\ wire \in Seq(Events)
  BY DEF StartupInv
<1>3. /\ wire' \in Seq(Events) /\ 1 \in DOMAIN wire /\ Head(wire) = wire[1] /\ wire[1] \in Events
      /\ \A i \in DOMAIN wire' : i \in Nat /\ i + 1 \in DOMAIN wire /\ wire'[i] = wire[i + 1]
      /\ \A i \in DOMAIN wire :
           i \in Nat /\ 1 <= i /\ (i # 1 => i - 1 \in DOMAIN wire' /\ wire'[i - 1] = wire[i])
  BY <1>1, <1>2, WireTail
<1>4. StateComes'
  BY <1>2, StateDelivered
<1>5. Parked' = Parked
  BY <1>1 DEF Parked
<1>6. BootComes'
  <2>1. asking' \/ orphan' => \A i \in DOMAIN wire' : wire'[i].kind # "boot"
    BY <1>1, <1>2, <1>3 DEF BootComes
  <2>2. \A i \in DOMAIN wire' : wire'[i].kind = "boot" =>
          mounted' /\ (wire'[i].path = NoShot \/ wire'[i].path = latest' \/ Parked')
    BY <1>1, <1>2, <1>3, <1>5 DEF BootComes
  <2>3. ASSUME NEW i \in DOMAIN wire', wire'[i].kind = "open", LastPath(i)'
        PROVE  Parked' \/ lost' = latest'
    <3>1. \A j \in DOMAIN wire' : j > i => ~ BringsPath(wire'[j])
      BY <2>3 DEF LastPath
    <3>2. ASSUME NEW j \in DOMAIN wire, j > i + 1 PROVE ~ BringsPath(wire[j])
      <4>1. j - 1 \in DOMAIN wire' /\ wire'[j - 1] = wire[j] /\ j - 1 > i
        BY <1>3, <3>2
      <4> QED BY <4>1, <3>1
    <3>3. LastPath(i + 1) /\ i + 1 \in DOMAIN wire /\ wire[i + 1].kind = "open"
      BY <1>3, <2>3, <3>2 DEF LastPath
    <3> QED BY <3>3, <1>1, <1>2, <1>5 DEF BootComes
  <2> QED BY <2>1, <2>2, <2>3 DEF BootComes
<1>7. ASSUME NEW i \in DOMAIN wire, LastOpen(i), Told(wire[i]) = latest, mounted
      PROVE  ShotComes'
  <2>0. TellsToOpen(wire[i]) /\ \A j \in DOMAIN wire : j > i => ~ TellsToOpen(wire[j])
    BY <1>7 DEF LastOpen
  <2>1. CASE i = 1
    <3>1. opened' = latest'
      BY <2>0, <2>1, <1>1, <1>3, <1>7 DEF TellsToOpen, BringsPath, Told
    <3>2. ASSUME NEW j \in DOMAIN wire' PROVE ~ TellsToOpen(wire'[j])
      <4>1. j + 1 \in DOMAIN wire /\ wire'[j] = wire[j + 1] /\ j \in Nat
        BY <1>3
      <4>2. j + 1 > i \/ j + 1 = 1
        BY <4>1, <2>1
      <4>3. 1 <= j
        BY <1>3
      <4> QED BY <4>1, <4>2, <4>3, <2>0
    <3> QED BY <3>1, <3>2 DEF ShotComes
  <2>2. CASE i # 1
    <3>0. PICK k \in DOMAIN wire' : k = i - 1
      BY <2>2, <1>3
    <3>1. wire'[k] = wire[i] /\ i \in Nat
      BY <2>2, <3>0, <1>3
    <3>2. ASSUME NEW j \in DOMAIN wire', j > k PROVE ~ TellsToOpen(wire'[j])
      <4>1. j + 1 \in DOMAIN wire /\ wire'[j] = wire[j + 1] /\ j + 1 > i
        BY <1>3, <3>0, <3>1, <3>2
      <4> QED BY <4>1, <2>0
    <3>3. LastOpen(k)'
      BY <3>1, <3>2, <2>0 DEF LastOpen
    <3>4. Told(wire'[k]) = latest' /\ mounted'
      BY <1>1, <1>7, <3>1
    <3> QED BY <3>3, <3>4 DEF ShotComes
  <2> QED BY <2>1, <2>2
<1>8. ASSUME opened = latest, \A i \in DOMAIN wire : ~ TellsToOpen(wire[i])
      PROVE  ShotComes'
  <2>1. opened' = opened
    BY <1>1, <1>3, <1>8 DEF TellsToOpen, BringsPath
  <2>2. \A i \in DOMAIN wire' : ~ TellsToOpen(wire'[i])
    BY <1>3, <1>8
  <2> QED BY <2>1, <2>2, <1>1, <1>8 DEF ShotComes
<1>9. ASSUME lost = latest \/ (Parked /\ (~mounted \/ asking \/ orphan)) PROVE ShotComes'
  <2>1. CASE lost = latest
    <3>1. lost' = latest'
      BY <2>1, <1>1
    <3> QED BY <3>1, ShotLost
  <2>2. CASE Parked /\ (~mounted \/ asking \/ orphan)
    <3>1. Parked' /\ (~mounted' \/ asking' \/ orphan')
      BY <2>2, <1>1, <1>5
    <3> QED BY <3>1, ShotParked
  <2> QED BY <1>9, <2>1, <2>2
<1> QED BY <1>2, <1>3, <1>4, <1>6, <1>7, <1>8, <1>9 DEF ShotComes

LEMMA LoadAgainComes ==
  ASSUME StartupInv, LoadAgain
  PROVE  StateComes' /\ BootComes' /\ ShotComes' /\ wire' \in Seq(Events)
<1> DEFINE boots == {i \in DOMAIN wire : wire[i].kind = "boot" /\ wire[i].path # NoShot}
           b == CHOOSE i \in boots : TRUE
<1>1. /\ wire' = <<>> /\ ~mounted' /\ ~asking'
      /\ lost' = IF boots = {} THEN lost ELSE wire[b].path
      /\ UNCHANGED <<pendingOpenPath, engineState, opened, latest>>
  BY DEF LoadAgain
<1>2. StateComes /\ BootComes /\ ShotComes
  BY DEF StartupInv
<1>3. DOMAIN wire' = {} /\ wire' \in Seq(Events)
  BY <1>1
<1>4. StateComes' /\ BootComes'
  BY <1>1, <1>3 DEF StateComes, BootComes
<1>5. Parked' = Parked
  BY <1>1 DEF Parked
<1>6. ASSUME Parked PROVE ShotComes'
  <2>1. Parked' /\ ~mounted'
    BY <1>1, <1>5, <1>6
  <2> QED BY <2>1, ShotParked
<1>7. ASSUME ~ Parked /\ boots # {} PROVE ShotComes'
  <2>1. b \in boots
    BY <1>7
  <2> HIDE DEF b
  <2>2. wire[b].path = latest
    BY <2>1, <1>2, <1>7 DEF BootComes
  <2>3. lost' = latest'
    BY <2>2, <1>1, <1>7
  <2> QED BY <2>3, ShotLost
<1>8. ASSUME ~ Parked /\ boots = {} PROVE ShotComes'
  <2>1. lost' = lost
    BY <1>1, <1>8
  <2>2. CASE lost = latest
    <3>1. lost' = latest'
      BY <2>1, <2>2, <1>1
    <3> QED BY <3>1, ShotLost
  <2>3. CASE opened = latest
    <3>1. opened' = latest'
      BY <2>3, <1>1
    <3> QED BY <3>1, <1>3, ShotOpened
  <2>4. CASE \E i \in DOMAIN wire : LastOpen(i) /\ Told(wire[i]) = latest
    <3>1. PICK i \in DOMAIN wire : LastOpen(i) /\ Told(wire[i]) = latest
      BY <2>4
    <3>2. wire[i].kind = "open" /\ LastPath(i)
      BY <3>1, <1>8 DEF LastOpen, LastPath, TellsToOpen, BringsPath
    <3>3. lost = latest
      BY <3>2, <1>2, <1>8 DEF BootComes
    <3> QED BY <3>3, <2>2
  <2> QED BY <2>2, <2>3, <2>4, <1>2, <1>8 DEF ShotComes
<1> QED BY <1>3, <1>4, <1>6, <1>7, <1>8

LEMMA StartupTypesStep ==
  ASSUME StartupInv, StartupNext
  PROVE  /\ {pendingOpenPath', opened', latest', lost'} \subseteq Shots \cup {NoShot}
         /\ {engineState', shownState'} \subseteq EngineStates
         /\ webContents' \in {"none", "loading", "loaded"}
         /\ {asking', orphan', mounted'} \subseteq BOOLEAN
         /\ asking' => mounted'
         /\ webContents' = "none" => ~mounted' /\ ~asking' /\ ~orphan' /\ wire' = <<>>
         /\ pendingOpenPath' \in {NoShot, latest'}
<1>1. /\ {pendingOpenPath, opened, latest, lost} \subseteq Shots \cup {NoShot}
      /\ {engineState, shownState} \subseteq EngineStates
      /\ webContents \in {"none", "loading", "loaded"}
      /\ {asking, orphan, mounted} \subseteq BOOLEAN
      /\ asking => mounted
      /\ webContents = "none" => ~mounted /\ ~asking /\ ~orphan /\ wire = <<>>
      /\ pendingOpenPath \in {NoShot, latest} /\ wire \in Seq(Events)
  BY DEF StartupInv, StartupTypeOK
<1>2. CASE \E shot \in Shots \cup {NoShot} : Launch(shot)
  BY <1>1, <1>2 DEF Launch, EngineStates
<1>3. CASE \E shot \in Shots : HandOver(shot)
  BY <1>1, <1>3 DEF HandOver, Forward
<1>4. CASE \E state \in EngineStates : EngineTurns(state)
  BY <1>1, <1>4 DEF EngineTurns, historyVars, Send
<1>5. CASE PageLoads
  BY <1>1, <1>5 DEF PageLoads, historyVars
<1>6. CASE Mount
  BY <1>1, <1>6 DEF Mount, mainVars, historyVars
<1>7. CASE Bootstrap
  BY <1>1, <1>7 DEF Bootstrap
<1>8. CASE Deliver
  <2>1. Head(wire) \in Events
    BY <1>1, <1>8, WireTail DEF Deliver
  <2>2. /\ UNCHANGED <<pendingOpenPath, engineState, webContents, asking, orphan, mounted, latest, lost>>
        /\ wire # <<>>
        /\ shownState' = IF mounted /\ Head(wire).kind \in {"state", "boot"} THEN Head(wire).value
                         ELSE shownState
        /\ opened' = IF mounted /\ Head(wire).kind = "open" THEN Head(wire).value
                     ELSE IF Head(wire).kind = "boot" /\ Head(wire).path # NoShot THEN Head(wire).path
                     ELSE opened
    BY <1>8 DEF Deliver, mainVars, historyVars
  <2>3. shownState' \in EngineStates /\ opened' \in Shots \cup {NoShot}
    BY <1>1, <2>1, <2>2, EventsAre DEF SaysState
  <2> QED BY <1>1, <2>2, <2>3
<1>9. CASE LoadAgain
  <2>1. UNCHANGED <<pendingOpenPath, engineState, opened, latest>>
        /\ webContents' = "loading" /\ mounted' = FALSE /\ asking' = FALSE /\ orphan' = (orphan \/ asking)
        /\ shownState' = "starting"
    BY <1>9 DEF LoadAgain
  <2>2. lost' \in Shots \cup {NoShot}
    <3> DEFINE boots == {i \in DOMAIN wire : wire[i].kind = "boot" /\ wire[i].path # NoShot}
               b == CHOOSE i \in boots : TRUE
    <3>1. lost' = IF boots = {} THEN lost ELSE wire[b].path
      BY <1>9 DEF LoadAgain
    <3>2. CASE boots # {}
      <4>1. b \in boots
        BY <3>2
      <4> HIDE DEF b
      <4>2. wire[b] \in Events /\ wire[b].kind = "boot"
        BY <4>1, <1>1
      <4> QED BY <4>2, <3>1, <3>2, EventsAre
    <3> QED BY <3>1, <3>2, <1>1
  <2>3. "starting" \in EngineStates
    BY DEF EngineStates
  <2> QED BY <1>1, <2>1, <2>2, <2>3
<1> QED BY <1>2, <1>3, <1>4, <1>5, <1>6, <1>7, <1>8, <1>9 DEF StartupNext

LEMMA StartupStepInv == StartupInv /\ [StartupNext]_startupVars => StartupInv'
<1> SUFFICES ASSUME StartupInv, [StartupNext]_startupVars PROVE StartupInv'
  OBVIOUS
<1>1. CASE StartupNext
  <2>1. StateComes' /\ BootComes' /\ ShotComes' /\ wire' \in Seq(Events)
    <3>1. CASE PageLoads
      <4>1. UNCHANGED <<wire, mounted, asking, orphan, pendingOpenPath, latest, lost,
                        opened, engineState, shownState>>
        BY <3>1 DEF PageLoads, historyVars
      <4> QED BY <4>1, WireUnmoved DEF StartupInv
    <3>2. CASE Mount
      BY <3>2, MountComes DEF Mount, StartupInv
    <3>3. CASE Bootstrap
      BY <3>3, OrphanComes, BootstrapComes DEF StartupInv
    <3> QED BY <1>1, <3>1, <3>2, <3>3, HandOverComes, LaunchComes, EngineTurnsComes,
               DeliverComes, LoadAgainComes DEF StartupNext
  <2>2. \A i \in DOMAIN wire' : wire'[i].kind \in {"open", "state", "boot"}
    BY <2>1, EventsAre
  <2>3. StartupTypeOK'
    BY <1>1, <2>2, StartupTypesStep DEF StartupTypeOK
  <2> QED BY <1>1, <2>1, <2>3, StartupTypesStep DEF StartupInv
<1>2. CASE UNCHANGED startupVars
  BY <1>2 DEF startupVars, StartupInv, StartupTypeOK, StateComes, BootComes, ShotComes,
              LastState, LastPath, LastOpen, Parked
<1> QED BY <1>1, <1>2

LEMMA WindowComesUp == StartupInv => HandedIsOpened /\ EngineIsShown
<1> SUFFICES ASSUME StartupInv, Still
             PROVE  (opened = latest \/ lost = latest) /\ shownState = engineState
  BY DEF HandedIsOpened, EngineIsShown
<1>1. DOMAIN wire = {}
  BY DEF Still
<1> QED BY <1>1 DEF Still, StartupInv, ShotComes, StateComes

-----------------------------------------------------------------------------
(* The batch desk: its inductive invariant. *)

NoneOf(q, K) == \A i \in DOMAIN q : q[i] \notin K
OneOf(q, K) == \E i \in DOMAIN q : q[i] \in K /\ \A j \in DOMAIN q : j # i => q[j] \notin K

Orders == [call : {"run", "cancel"}, nth : 0 .. MaxRuns, page : 0 .. MaxReloads, paths : Seq(Shelf)]
Messages == [is : {"progress", "refused", "finished"}, done : Nat, total : Nat, items : Seq(Outcomes)]
RunType == [running : BOOLEAN, cancelling : 0 .. MaxRuns, nth : 0 .. MaxRuns, page : 0 .. MaxReloads,
            paths : Seq(Shelf), items : Seq(Outcomes), begun : Nat]
BatchType == [running : BOOLEAN, done : Nat, total : Nat, items : Seq(Outcomes)]

\* The calls for a run of the page that is shown, and the answers to one.
RunsFor(p) == {m \in Orders : m.call = "run" /\ m.page = p}
Verdicts == {m \in Messages : m.is # "progress"}

DeskTypes ==
  /\ shown \in DOMAIN Listing \cup {Nowhere} /\ opening \in DOMAIN Listing \cup {Nowhere}
  /\ passing \in Filters /\ target \in BOOLEAN /\ dialog \in BOOLEAN
  /\ batch \in BatchType /\ main \in RunType
  /\ toMain \in Seq(Orders) /\ toWindow \in Seq(Messages)
  /\ page \in 0 .. MaxReloads /\ runs \in 0 .. MaxRuns /\ stops \in 0 .. MaxStops

Browsed == selection \in Seq(Shelf) /\ SelectionIsOfTheFolder

\* No message is of a page to come.
OfPagesSoFar == main.page <= page /\ \A i \in DOMAIN toMain : toMain[i].page <= page

\* A window that waits waits for one thing.
WaitsForOne ==
  /\ batch.running =>
       \/ OneOf(toMain, RunsFor(page)) /\ NoneOf(toWindow, Verdicts) /\ ~ (main.running /\ main.page = page)
       \/ NoneOf(toMain, RunsFor(page)) /\ OneOf(toWindow, Verdicts) /\ ~ (main.running /\ main.page = page)
       \/ NoneOf(toMain, RunsFor(page)) /\ NoneOf(toWindow, Verdicts) /\ main.running /\ main.page = page
  /\ ~batch.running =>
       NoneOf(toMain, RunsFor(page)) /\ NoneOf(toWindow, Verdicts) /\ ~ (main.running /\ main.page = page)
  /\ batch.running => dialog
  /\ ~batch.running => batch.done = Len(batch.items)

\* The main process has the calls in the order in which the runs were asked for.
InOrderOfRuns ==
  /\ main.nth <= runs
  /\ \A i \in DOMAIN toMain : main.nth <= toMain[i].nth /\ toMain[i].nth <= runs
  /\ \A i, j \in DOMAIN toMain : i < j => toMain[i].nth <= toMain[j].nth

\* A run at work has a photograph in hand.
RunAtWork == main.running => Len(main.items) < Len(main.paths)

\* All but the grid.
DeskOrder ==
  DeskTypes /\ OfPagesSoFar /\ WaitsForOne /\ InOrderOfRuns /\ RunAtWork /\ StopWasPressed
DeskInv == DeskOrder /\ Browsed

-----------------------------------------------------------------------------
(* None, or one, of the messages of a queue is of a kind. *)

LEMMA NoneOfNothing == ASSUME NEW K PROVE NoneOf(<<>>, K)
<1>1. DOMAIN <<>> = {}
  OBVIOUS
<1> QED BY <1>1 DEF NoneOf

LEMMA OneOfItself == ASSUME NEW e, NEW K PROVE e \in K => OneOf(<<e>>, K)
<1>1. DOMAIN <<e>> = {1} /\ <<e>>[1] = e
  OBVIOUS
<1> QED BY <1>1 DEF OneOf

LEMMA NoneOfItself == ASSUME NEW e, NEW K PROVE e \notin K => NoneOf(<<e>>, K)
<1>1. DOMAIN <<e>> = {1} /\ <<e>>[1] = e
  OBVIOUS
<1> QED BY <1>1 DEF NoneOf

LEMMA JoinedQueues ==
  ASSUME NEW T, NEW a \in Seq(T), NEW b \in Seq(T), NEW K
  PROVE  /\ NoneOf(a, K) /\ NoneOf(b, K) => NoneOf(a \o b, K)
         /\ OneOf(a, K) /\ NoneOf(b, K) => OneOf(a \o b, K)
         /\ NoneOf(a, K) /\ OneOf(b, K) => OneOf(a \o b, K)
<1> DEFINE c == a \o b
<1>1. /\ c \in Seq(T) /\ Len(c) = Len(a) + Len(b) /\ Len(a) \in Nat /\ Len(b) \in Nat
      /\ DOMAIN a = 1 .. Len(a) /\ DOMAIN b = 1 .. Len(b) /\ DOMAIN c = 1 .. Len(c)
  OBVIOUS
<1>2. \A i \in DOMAIN a : i \in DOMAIN c /\ c[i] = a[i]
  BY <1>1
<1>3. \A i \in DOMAIN b : i + Len(a) \in DOMAIN c /\ c[i + Len(a)] = b[i]
  BY <1>1
<1>4. \A i \in DOMAIN c : i \in DOMAIN a \/ (i - Len(a) \in DOMAIN b /\ c[i] = b[i - Len(a)])
  BY <1>1
<1>5. \A i \in DOMAIN a : ~ (i - Len(a) \in DOMAIN b)
  BY <1>1
<1>6. \A i \in DOMAIN b : i + Len(a) \notin DOMAIN a /\ (i + Len(a)) - Len(a) = i
  BY <1>1
<1>i. \A i \in DOMAIN c : i \in Int
  BY <1>1
<1> HIDE DEF c
<1>7. NoneOf(a, K) /\ NoneOf(b, K) => NoneOf(c, K)
  BY <1>2, <1>4 DEF NoneOf
<1>8. ASSUME OneOf(a, K), NoneOf(b, K) PROVE OneOf(c, K)
  <2>1. PICK i \in DOMAIN a : a[i] \in K /\ \A j \in DOMAIN a : j # i => a[j] \notin K
    BY <1>8 DEF OneOf
  <2>2. i \in DOMAIN c /\ c[i] \in K
    BY <2>1, <1>2
  <2>3. \A j \in DOMAIN c : j # i => c[j] \notin K
    BY <2>1, <1>2, <1>4, <1>8 DEF NoneOf
  <2> QED BY <2>2, <2>3 DEF OneOf
<1>9. ASSUME NoneOf(a, K), OneOf(b, K) PROVE OneOf(c, K)
  <2>1. PICK i \in DOMAIN b : b[i] \in K /\ \A j \in DOMAIN b : j # i => b[j] \notin K
    BY <1>9 DEF OneOf
  <2>2. PICK k \in DOMAIN c : k = i + Len(a)
    BY <1>3
  <2>3. c[k] \in K
    BY <2>1, <2>2, <1>3
  <2>4. ASSUME NEW j \in DOMAIN c, j # k PROVE c[j] \notin K
    <3>1. CASE j \in DOMAIN a
      BY <3>1, <1>2, <1>9 DEF NoneOf
    <3>2. CASE j \notin DOMAIN a
      <4>1. j - Len(a) \in DOMAIN b /\ c[j] = b[j - Len(a)]
        BY <3>2, <1>4
      <4>2. j - Len(a) # i
        BY <2>4, <2>2, <1>i, <1>1
      <4> QED BY <4>1, <4>2, <2>1
    <3> QED BY <3>1, <3>2
  <2> QED BY <2>3, <2>4 DEF OneOf
<1> QED BY <1>7, <1>8, <1>9 DEF c

LEMMA TakenFromQueue ==
  ASSUME NEW T, NEW q \in Seq(T), q # <<>>, NEW K
  PROVE  /\ Head(q) = q[1] /\ Head(q) \in T /\ Tail(q) \in Seq(T) /\ 1 \in DOMAIN q
         /\ NoneOf(q, K) => Head(q) \notin K /\ NoneOf(Tail(q), K)
         /\ OneOf(q, K) /\ Head(q) \in K => NoneOf(Tail(q), K)
         /\ OneOf(q, K) /\ Head(q) \notin K => OneOf(Tail(q), K)
<1> DEFINE t == Tail(q)
<1>1. /\ t \in Seq(T) /\ Len(t) = Len(q) - 1 /\ Len(q) \in Nat \ {0} /\ Head(q) = q[1]
      /\ DOMAIN t = 1 .. Len(t) /\ DOMAIN q = 1 .. Len(q)
      /\ \A i \in 1 .. Len(t) : t[i] = q[i + 1]
  OBVIOUS
<1>2. 1 \in DOMAIN q /\ q[1] \in T
  BY <1>1
<1>3. \A i \in DOMAIN t : i + 1 \in DOMAIN q /\ t[i] = q[i + 1] /\ i + 1 # 1 /\ i \in Nat
  BY <1>1
<1>4. ASSUME NEW i \in DOMAIN q, i # 1 PROVE i - 1 \in DOMAIN t /\ t[i - 1] = q[i]
  <2>1. i - 1 \in 1 .. Len(t) /\ (i - 1) + 1 = i
    BY <1>1, <1>4
  <2>2. t[i - 1] = q[(i - 1) + 1]
    BY <2>1, <1>1
  <2> QED BY <2>1, <2>2, <1>1
<1> HIDE DEF t
<1>5. NoneOf(q, K) => q[1] \notin K /\ NoneOf(t, K)
  BY <1>2, <1>3 DEF NoneOf
<1>6. ASSUME OneOf(q, K), q[1] \in K PROVE NoneOf(t, K)
  <2>1. PICK i \in DOMAIN q : q[i] \in K /\ \A j \in DOMAIN q : j # i => q[j] \notin K
    BY <1>6 DEF OneOf
  <2>2. i = 1
    BY <2>1, <1>6, <1>2
  <2> QED BY <2>1, <2>2, <1>3 DEF NoneOf
<1>7. ASSUME OneOf(q, K), q[1] \notin K PROVE OneOf(t, K)
  <2>1. PICK i \in DOMAIN q : q[i] \in K /\ \A j \in DOMAIN q : j # i => q[j] \notin K
    BY <1>7 DEF OneOf
  <2>2. PICK k \in DOMAIN t : k = i - 1 /\ t[k] = q[i]
    BY <2>1, <1>4, <1>7
  <2>3. ASSUME NEW j \in DOMAIN t, j # k PROVE t[j] \notin K
    <3>1. j + 1 # i /\ j + 1 \in DOMAIN q /\ t[j] = q[j + 1]
      BY <2>2, <2>3, <1>3
    <3> QED BY <3>1, <2>1
  <2> QED BY <2>1, <2>2, <2>3 DEF OneOf
<1> QED BY <1>1, <1>2, <1>5, <1>6, <1>7 DEF t

\* One message more.
LEMMA AddedToQueue ==
  ASSUME NEW T, NEW q \in Seq(T), NEW e \in T, NEW K
  PROVE  /\ Append(q, e) \in Seq(T)
         /\ NoneOf(q, K) /\ e \notin K => NoneOf(Append(q, e), K)
         /\ OneOf(q, K) /\ e \notin K => OneOf(Append(q, e), K)
         /\ NoneOf(q, K) /\ e \in K => OneOf(Append(q, e), K)
<1>1. <<e>> \in Seq(T) /\ Append(q, e) = q \o <<e>> /\ Append(q, e) \in Seq(T)
  BY AppendIsConcat
<1>2. (e \in K => OneOf(<<e>>, K)) /\ (e \notin K => NoneOf(<<e>>, K))
  BY OneOfItself, NoneOfItself
<1>3. /\ NoneOf(q, K) /\ NoneOf(<<e>>, K) => NoneOf(q \o <<e>>, K)
      /\ OneOf(q, K) /\ NoneOf(<<e>>, K) => OneOf(q \o <<e>>, K)
      /\ NoneOf(q, K) /\ OneOf(<<e>>, K) => OneOf(q \o <<e>>, K)
  BY <1>1, JoinedQueues
<1> QED BY <1>1, <1>2, <1>3

\* How many they are.
LEMMA QueueCounts ==
  ASSUME NEW T, NEW q \in Seq(T), NEW K
  PROVE  LET at == {i \in 1 .. Len(q) : q[i] \in K}
         IN  /\ NoneOf(q, K) => Cardinality(at) = 0
             /\ OneOf(q, K) => Cardinality(at) = 1
<1> DEFINE at == {i \in 1 .. Len(q) : q[i] \in K}
<1>1. DOMAIN q = 1 .. Len(q)
  OBVIOUS
<1>2. ASSUME NoneOf(q, K) PROVE Cardinality(at) = 0
  <2>1. at = {}
    BY <1>1, <1>2 DEF NoneOf
  <2> QED BY <2>1, FS_EmptySet
<1>3. ASSUME OneOf(q, K) PROVE Cardinality(at) = 1
  <2>1. PICK i \in 1 .. Len(q) : q[i] \in K /\ \A j \in 1 .. Len(q) : j # i => q[j] \notin K
    BY <1>1, <1>3 DEF OneOf
  <2>2. at = {i}
    BY <2>1
  <2> QED BY <2>2, FS_Singleton
<1> QED BY <1>2, <1>3

\* What leaves the main process: nothing that ends a wait, or one answer.
NothingSaid ==
  /\ NoneOf(toWindow, Verdicts) => NoneOf(toWindow', Verdicts)
  /\ OneOf(toWindow, Verdicts) => OneOf(toWindow', Verdicts)
AnswerSaid == NoneOf(toWindow, Verdicts) => OneOf(toWindow', Verdicts)

LEMMA Reported ==
  ASSUME NEW run \in RunType, NEW es, es = Event(run)
  PROVE  es \in Seq(Messages) /\ NoneOf(es, Verdicts)
<1> DEFINE m == [is |-> "progress", done |-> Len(run.items), total |-> Len(run.paths), items |-> <<>>]
<1>1. run.items \in Seq(Outcomes) /\ run.paths \in Seq(Shelf)
  BY DEF RunType
<1>2. Len(run.items) \in Nat /\ Len(run.paths) \in Nat /\ <<>> \in Seq(Outcomes)
  BY <1>1
<1>3. m \in Messages /\ m.is = "progress"
  BY <1>2 DEF Messages
<1>4. es = <<m>>
  BY DEF Event
<1> HIDE DEF m
<1>5. m \notin Verdicts
  BY <1>3 DEF Verdicts
<1>6. es \in Seq(Messages)
  BY <1>3, <1>4
<1> QED BY <1>4, <1>5, <1>6, NoneOfItself

LEMMA Answered ==
  ASSUME NEW is \in {"refused", "finished"}, NEW to, NEW results \in Seq(Outcomes), NEW es,
         es = Answer(is, to, results)
  PROVE  /\ es \in Seq(Messages)
         /\ to = page => OneOf(es, Verdicts)
         /\ to # page => es = <<>> /\ NoneOf(es, Verdicts)
<1> DEFINE m == [is |-> is, done |-> 0, total |-> 0, items |-> results]
<1>1. m \in Messages /\ m.is # "progress"
  BY DEF Messages
<1>2. es = IF to = page THEN <<m>> ELSE <<>>
  BY DEF Answer
<1> HIDE DEF m
<1>3. m \in Verdicts
  BY <1>1 DEF Verdicts
<1>4. <<m>> \in Seq(Messages) /\ <<>> \in Seq(Messages)
  BY <1>1
<1> QED BY <1>2, <1>3, <1>4, OneOfItself, NoneOfNothing

\* Joined to what is on its way.
LEMMA SaidNothing ==
  ASSUME toWindow \in Seq(Messages), NEW es \in Seq(Messages), NoneOf(es, Verdicts),
         toWindow' = toWindow \o es
  PROVE  toWindow' \in Seq(Messages) /\ NothingSaid
BY JoinedQueues DEF NothingSaid

LEMMA SaidAnswer ==
  ASSUME toWindow \in Seq(Messages), NEW es \in Seq(Messages), OneOf(es, Verdicts),
         toWindow' = toWindow \o es
  PROVE  toWindow' \in Seq(Messages) /\ AnswerSaid
BY JoinedQueues DEF AnswerSaid

\* A stopped run names the rest cancelled.
LEMMA RestNamed ==
  ASSUME NEW run \in RunType, Len(run.items) <= Len(run.paths), NEW ended,
         ended = [run EXCEPT !.items = @ \o Rest(run, "cancelled")]
  PROVE  /\ ended \in RunType /\ Len(ended.items) = Len(run.paths)
         /\ ended.page = run.page /\ ended.nth = run.nth /\ ended.cancelling = run.cancelling
         /\ ended.paths = run.paths /\ ended.running = run.running /\ ended.begun = run.begun
<1> DEFINE rest == Rest(run, "cancelled")  k == Len(run.paths) - Len(run.items)
<1>1. run.items \in Seq(Outcomes) /\ run.paths \in Seq(Shelf)
  BY DEF RunType
<1>2. k \in Nat /\ Len(run.items) \in Nat /\ Len(run.paths) \in Nat
  BY <1>1
<1>3. rest = [i \in 1 .. k |-> "cancelled"]
  BY DEF Rest
<1> HIDE DEF k, rest
<1>4. rest \in [1 .. k -> Outcomes]
  BY <1>3 DEF Outcomes
<1>5. rest \in Seq(Outcomes) /\ Len(rest) = k
  BY <1>2, <1>4
<1>6. run.items \o rest \in Seq(Outcomes) /\ Len(run.items \o rest) = Len(run.items) + k
  BY <1>1, <1>5, ConcatProperties
<1>7. Len(run.items \o rest) = Len(run.paths)
  BY <1>2, <1>6 DEF k
<1>8. ended = [run EXCEPT !.items = run.items \o rest]
  BY DEF rest, RunType
<1> DEFINE all == run.items \o rest
<1>9. all \in Seq(Outcomes) /\ Len(all) = Len(run.paths) /\ ended = [run EXCEPT !.items = all]
  BY <1>6, <1>7, <1>8
<1> HIDE DEF all
<1> QED BY <1>9 DEF RunType

LEMMA GoesOn ==
  ASSUME NEW run \in RunType, run.running, Len(run.items) <= Len(run.paths),
         toWindow \in Seq(Messages), GoOn(run),
         run.cancelling # 0 \/ "cancelled" \in ToSet(run.items) => run.cancelling >= run.nth
  PROVE  /\ main' \in RunType /\ toWindow' \in Seq(Messages)
         /\ main'.nth = run.nth /\ main'.page = run.page
         /\ RunAtWork' /\ StopWasPressed'
         /\ run.cancelling # 0 => ~ main'.running
         /\ main'.running \/ run.page # page => NothingSaid
         /\ ~ main'.running /\ run.page = page => AnswerSaid
<1> DEFINE ended == IF run.cancelling = 0 THEN run
                    ELSE [run EXCEPT !.items = @ \o Rest(run, "cancelled")]
<1>1. /\ ended \in RunType /\ (run.cancelling # 0 => Len(ended.items) = Len(run.paths))
      /\ run.cancelling = 0 => ended = run
      /\ ended.page = run.page /\ ended.nth = run.nth /\ ended.cancelling = run.cancelling
      /\ ended.paths = run.paths /\ ended.running = run.running /\ ended.begun = run.begun
  BY RestNamed
<1>2. IF Len(ended.items) < Len(run.paths)
      THEN main' = [run EXCEPT !.begun = @ + 1] /\ toWindow' = toWindow \o Event(run)
      ELSE /\ main' = [ended EXCEPT !.running = FALSE]
           /\ toWindow' = toWindow \o Event(ended) \o Answer("finished", run.page, ended.items)
  BY DEF GoOn
<1> HIDE DEF ended
<1>3. CASE Len(ended.items) < Len(run.paths)
  <2>1. run.cancelling = 0 /\ ended = run
    <3>1. run.paths \in Seq(Shelf)
      BY DEF RunType
    <3>2. Len(run.paths) \in Nat
      BY <3>1
    <3> QED BY <1>1, <1>3, <3>2
  <2>2. main' = [run EXCEPT !.begun = @ + 1] /\ toWindow' = toWindow \o Event(run)
    BY <1>2, <1>3
  <2>r. run.begun + 1 \in Nat /\ main' = [run EXCEPT !.begun = run.begun + 1]
    BY <2>2 DEF RunType
  <2>3. /\ main' \in RunType /\ main'.nth = run.nth /\ main'.page = run.page /\ main'.running
        /\ main'.items = run.items /\ main'.paths = run.paths /\ main'.cancelling = run.cancelling
    BY <2>r DEF RunType
  <2>4. RunAtWork' /\ StopWasPressed'
    BY <1>3, <2>1, <2>3 DEF RunAtWork, StopWasPressed
  <2>5. toWindow' \in Seq(Messages) /\ NothingSaid
    BY <2>2, Reported, SaidNothing
  <2> QED BY <2>1, <2>3, <2>4, <2>5
<1>4. CASE ~ (Len(ended.items) < Len(run.paths))
  <2>1. /\ main' = [ended EXCEPT !.running = FALSE]
        /\ toWindow' = toWindow \o Event(ended) \o Answer("finished", run.page, ended.items)
    BY <1>2, <1>4
  <2>2. /\ main' \in RunType /\ main'.nth = run.nth /\ main'.page = run.page /\ ~ main'.running
        /\ main'.items = ended.items /\ main'.cancelling = run.cancelling
    BY <1>1, <2>1 DEF RunType
  <2>3. RunAtWork' /\ StopWasPressed'
    BY <1>1, <2>2 DEF RunAtWork, StopWasPressed
  <2> DEFINE ev == Event(ended)  an == Answer("finished", run.page, ended.items)
  <2>4. ev \in Seq(Messages) /\ NoneOf(ev, Verdicts)
    BY <1>1, Reported
  <2>5. /\ an \in Seq(Messages)
        /\ run.page = page => OneOf(an, Verdicts)
        /\ run.page # page => NoneOf(an, Verdicts)
    <3>1. ended.items \in Seq(Outcomes)
      BY <1>1 DEF RunType
    <3> QED BY <3>1, Answered
  <2>6. toWindow' = (toWindow \o ev) \o an
    BY <2>1
  <2> HIDE DEF ev, an
  <2>7. toWindow' = toWindow \o (ev \o an)
    BY <2>4, <2>5, <2>6, ConcatAssociative
  <2>8. /\ ev \o an \in Seq(Messages)
        /\ run.page = page => OneOf(ev \o an, Verdicts)
        /\ run.page # page => NoneOf(ev \o an, Verdicts)
    BY <2>4, <2>5, JoinedQueues
  <2>9. toWindow' \in Seq(Messages) /\ (run.page = page => AnswerSaid) /\ (run.page # page => NothingSaid)
    BY <2>7, <2>8, SaidNothing, SaidAnswer
  <2> QED BY <2>2, <2>3, <2>9
<1> QED BY <1>3, <1>4

LEMMA StartedRun ==
  ASSUME NEW m \in Orders
  PROVE  /\ Started(m) \in RunType /\ Started(m).running /\ Started(m).nth = m.nth
         /\ Started(m).page = m.page /\ Started(m).items = <<>> /\ Started(m).cancelling = 0
         /\ Started(m).paths = m.paths
         /\ [Started(m) EXCEPT !.running = FALSE] \in RunType
         /\ [Started(m) EXCEPT !.running = FALSE].running = FALSE
         /\ [Started(m) EXCEPT !.running = FALSE].items = <<>>
         /\ [Started(m) EXCEPT !.running = FALSE].nth = m.nth
         /\ [Started(m) EXCEPT !.running = FALSE].page = m.page
<1> DEFINE s == Started(m)
<1>0. s = [Idle EXCEPT !.running = TRUE, !.nth = m.nth, !.page = m.page, !.paths = m.paths]
  BY DEF Started
<1> HIDE DEF s
<1>1. s = [running |-> TRUE, cancelling |-> 0, nth |-> m.nth, page |-> m.page,
           paths |-> m.paths, items |-> <<>>, begun |-> 0]
  BY <1>0, Zenon DEF Idle
<1>2. m.nth \in 0 .. MaxRuns /\ m.page \in 0 .. MaxReloads /\ m.paths \in Seq(Shelf)
      /\ <<>> \in Seq(Outcomes) /\ 0 \in 0 .. MaxRuns
  BY BatchDeskAssumption DEF Orders
<1>3. s \in RunType
  BY <1>1, <1>2 DEF RunType
<1>4. [s EXCEPT !.running = FALSE] \in RunType
  BY <1>3 DEF RunType
<1> QED BY <1>1, <1>3, <1>4 DEF s

LEMMA RefusalSent ==
  ASSUME NEW to, NEW es, es = Answer("refused", to, <<>>)
  PROVE  /\ es \in Seq(Messages)
         /\ to = page => OneOf(es, Verdicts)
         /\ to # page => NoneOf(es, Verdicts)
<1> DEFINE is == "refused"  none == <<>>
<1>1. is \in {"refused", "finished"} /\ none \in Seq(Outcomes) /\ es = Answer(is, to, none)
  OBVIOUS
<1> HIDE DEF is, none
<1> QED BY <1>1, Answered

\* A call reaches the main process.
LEMMA MainReceives ==
  ASSUME DeskTypes, RunAtWork, StopWasPressed, InOrderOfRuns, MainReceive,
         NEW m, m = Head(toMain)
  PROVE  /\ toMain # <<>> /\ toMain' = Tail(toMain) /\ m \in Orders
         /\ main' \in RunType /\ toWindow' \in Seq(Messages) /\ RunAtWork' /\ StopWasPressed'
         /\ main.running /\ main'.running => main'.begun = main.begun
         /\ main'.nth \in {main.nth, m.nth} /\ main'.page \in {main.page, m.page}
         /\ m.call = "cancel" => /\ main'.running = main.running /\ main'.page = main.page
                                 /\ NothingSaid
         /\ m.call = "run" /\ main.running =>
              main' = main /\ (m.page = page => AnswerSaid) /\ (m.page # page => NothingSaid)
         /\ m.call = "run" /\ ~main.running =>
              /\ main'.page = m.page
              /\ main'.running \/ m.page # page => NothingSaid
              /\ ~main'.running /\ m.page = page => AnswerSaid
<1>1. /\ toMain # <<>> /\ toMain' = Tail(toMain)
      /\ IF m.call = "run" THEN MainRun(m)
         ELSE main' = [main EXCEPT !.cancelling = m.nth] /\ UNCHANGED toWindow
  BY DEF MainReceive
<1>2. main \in RunType /\ toMain \in Seq(Orders) /\ toWindow \in Seq(Messages)
  BY DEF DeskTypes
<1>3. m \in Orders /\ m = toMain[1] /\ 1 \in DOMAIN toMain
  BY <1>1, <1>2, TakenFromQueue
<1>4. main.nth <= m.nth /\ m.nth \in 0 .. MaxRuns
  BY <1>3 DEF InOrderOfRuns, Orders
<1>5. m.call \in {"run", "cancel"}
  BY <1>3 DEF Orders
<1>6. CASE m.call = "cancel"
  <2>1. main' = [main EXCEPT !.cancelling = m.nth] /\ toWindow' = toWindow
    BY <1>1, <1>6
  <2>2. /\ main' \in RunType /\ main'.cancelling = m.nth /\ main'.running = main.running
        /\ main'.page = main.page /\ main'.nth = main.nth /\ main'.items = main.items
        /\ main'.paths = main.paths /\ main'.begun = main.begun
    BY <1>2, <1>4, <2>1 DEF RunType
  <2>3. RunAtWork'
    BY <2>2 DEF RunAtWork
  <2>4. main.nth \in Nat /\ m.nth \in Nat
    BY <1>2, <1>4 DEF RunType
  <2>5. StopWasPressed'
    BY <1>4, <2>2, <2>4 DEF StopWasPressed
  <2>6. NothingSaid
    BY <2>1 DEF NothingSaid
  <2> QED BY <1>1, <1>2, <1>3, <1>6, <2>1, <2>2, <2>3, <2>5, <2>6
<1>7. CASE m.call = "run" /\ main.running
  <2>1. toWindow' = toWindow \o Answer("refused", m.page, <<>>) /\ main' = main
    BY <1>1, <1>7 DEF MainRun
  <2> DEFINE an == Answer("refused", m.page, <<>>)
  <2>2. /\ an \in Seq(Messages) /\ (m.page = page => OneOf(an, Verdicts))
        /\ (m.page # page => NoneOf(an, Verdicts))
    BY RefusalSent
  <2>3. toWindow' = toWindow \o an
    BY <2>1
  <2> HIDE DEF an
  <2>4. /\ toWindow' \in Seq(Messages) /\ (m.page = page => AnswerSaid)
        /\ (m.page # page => NothingSaid)
    BY <1>2, <2>2, <2>3, SaidNothing, SaidAnswer
  <2>5. RunAtWork' /\ StopWasPressed'
    BY <2>1 DEF RunAtWork, StopWasPressed
  <2> QED BY <1>1, <1>2, <1>3, <1>7, <2>1, <2>4, <2>5
<1>8. CASE m.call = "run" /\ ~main.running
  <2> DEFINE s == Started(m)
  <2>1. /\ s \in RunType /\ s.running /\ s.nth = m.nth /\ s.page = m.page /\ s.items = <<>>
        /\ s.cancelling = 0
        /\ [s EXCEPT !.running = FALSE] \in RunType
        /\ [s EXCEPT !.running = FALSE].running = FALSE
        /\ [s EXCEPT !.running = FALSE].items = <<>>
        /\ [s EXCEPT !.running = FALSE].nth = m.nth
        /\ [s EXCEPT !.running = FALSE].page = m.page
    BY <1>3, StartedRun
  <2>2. \/ GoOn(s)
        \/ /\ main' = [s EXCEPT !.running = FALSE]
           /\ toWindow' = toWindow \o Answer("refused", m.page, <<>>)
    BY <1>1, <1>8 DEF MainRun
  <2> HIDE DEF s
  <2>3. Len(s.items) <= Len(s.paths) /\ "cancelled" \notin ToSet(s.items)
    <3>1. Len(<<>>) = 0 /\ ToSet(<<>>) = {}
      BY DEF ToSet
    <3>2. s.paths \in Seq(Shelf)
      BY <2>1 DEF RunType
    <3>3. Len(s.paths) \in Nat
      BY <3>2
    <3> QED BY <3>1, <3>3, <2>1
  <2>4. CASE GoOn(s)
    <3>1. /\ main' \in RunType /\ toWindow' \in Seq(Messages)
          /\ main'.nth = s.nth /\ main'.page = s.page /\ RunAtWork' /\ StopWasPressed'
          /\ main'.running \/ s.page # page => NothingSaid
          /\ ~ main'.running /\ s.page = page => AnswerSaid
      BY <1>2, <2>1, <2>3, <2>4, GoesOn
    <3> QED BY <1>1, <1>3, <1>8, <2>1, <3>1
  <2>5. CASE /\ main' = [s EXCEPT !.running = FALSE]
             /\ toWindow' = toWindow \o Answer("refused", m.page, <<>>)
    <3> DEFINE an == Answer("refused", m.page, <<>>)
    <3>1. /\ an \in Seq(Messages) /\ (m.page = page => OneOf(an, Verdicts))
          /\ (m.page # page => NoneOf(an, Verdicts))
      BY RefusalSent
    <3>2. toWindow' = toWindow \o an
      BY <2>5
    <3> HIDE DEF an
    <3>3. /\ toWindow' \in Seq(Messages) /\ (m.page = page => AnswerSaid)
          /\ (m.page # page => NothingSaid)
      BY <1>2, <3>1, <3>2, SaidNothing, SaidAnswer
    <3>4. /\ main' \in RunType /\ main'.running = FALSE /\ main'.items = <<>>
          /\ main'.nth = m.nth /\ main'.page = m.page
      BY <2>1, <2>5
    <3>5. RunAtWork' /\ StopWasPressed'
      <4>1. ToSet(<<>>) = {}
        BY DEF ToSet
      <4> QED BY <3>4, <4>1 DEF RunAtWork, StopWasPressed
    <3> QED BY <1>1, <1>3, <1>8, <3>3, <3>4, <3>5
  <2> QED BY <2>2, <2>4, <2>5
<1> QED BY <1>5, <1>6, <1>7, <1>8

\* The photograph in hand is through.
LEMMA PhotographIsDone ==
  ASSUME DeskTypes, RunAtWork, StopWasPressed,
         NEW outcome \in {"exported", "failed"}, PhotographDone(outcome)
  PROVE  /\ main.running /\ main' \in RunType /\ toWindow' \in Seq(Messages)
         /\ RunAtWork' /\ StopWasPressed'
         /\ main'.nth = main.nth /\ main'.page = main.page
         /\ main.cancelling # 0 => ~ main'.running
         /\ main'.running \/ main.page # page => NothingSaid
         /\ ~ main'.running /\ main.page = page => AnswerSaid
<1>1. main.running /\ GoOn([main EXCEPT !.items = Append(@, outcome)])
  BY DEF PhotographDone
<1>2. main \in RunType /\ toWindow \in Seq(Messages) /\ outcome \in Outcomes
  BY DEF DeskTypes, Outcomes
<1>3. main.items \in Seq(Outcomes) /\ main.paths \in Seq(Shelf) /\ Len(main.items) < Len(main.paths)
  BY <1>1, <1>2 DEF RunType, RunAtWork
<1> DEFINE all == Append(main.items, outcome)  run == [main EXCEPT !.items = all]
<1>4. /\ all \in Seq(Outcomes) /\ Len(all) = Len(main.items) + 1
      /\ \A i \in 1 .. Len(main.items) : all[i] = main.items[i]
      /\ all[Len(main.items) + 1] = outcome
      /\ Len(main.items) \in Nat /\ Len(main.paths) \in Nat
  BY <1>2, <1>3
<1>6. GoOn(run)
  BY <1>1, <1>2 DEF RunType
<1> HIDE DEF all
<1>m. /\ ToSet(all) = {all[i] : i \in 1 .. Len(all)}
      /\ ToSet(main.items) = {main.items[i] : i \in 1 .. Len(main.items)}
  BY <1>3, <1>4, Members
<1>5. "cancelled" \in ToSet(all) => "cancelled" \in ToSet(main.items)
  <2> SUFFICES ASSUME "cancelled" \in ToSet(all) PROVE "cancelled" \in ToSet(main.items)
    OBVIOUS
  <2>1. PICK i \in 1 .. Len(all) : all[i] = "cancelled"
    BY <1>m
  <2>2. i # Len(main.items) + 1
    BY <2>1, <1>4
  <2>3. i \in 1 .. Len(main.items)
    BY <2>2, <1>4
  <2> QED BY <2>1, <2>3, <1>4, <1>m
<1>7. /\ run \in RunType /\ run.running = main.running /\ run.items = all /\ run.paths = main.paths
      /\ run.cancelling = main.cancelling /\ run.nth = main.nth /\ run.page = main.page
  BY <1>2, <1>4 DEF RunType
<1> HIDE DEF run
<1>8. Len(run.items) <= Len(run.paths)
  BY <1>3, <1>4, <1>7
<1>9. run.cancelling # 0 \/ "cancelled" \in ToSet(run.items) => run.cancelling >= run.nth
  BY <1>1, <1>5, <1>7 DEF StopWasPressed
<1>10. /\ main' \in RunType /\ toWindow' \in Seq(Messages)
       /\ main'.nth = run.nth /\ main'.page = run.page
       /\ RunAtWork' /\ StopWasPressed'
       /\ run.cancelling # 0 => ~ main'.running
       /\ main'.running \/ run.page # page => NothingSaid
       /\ ~ main'.running /\ run.page = page => AnswerSaid
  BY <1>1, <1>2, <1>6, <1>7, <1>8, <1>9, GoesOn
<1> QED BY <1>1, <1>7, <1>10

LEMMA DeskInitInv == DeskInit => DeskInv
<1> SUFFICES ASSUME DeskInit PROVE DeskInv
  OBVIOUS
<1>1. /\ shown = Nowhere /\ opening = Nowhere /\ passing = Shelf /\ selection = <<>>
      /\ target = FALSE /\ dialog = FALSE /\ batch = IDLE_BATCH /\ toMain = <<>> /\ toWindow = <<>>
      /\ main = Idle /\ page = 0 /\ runs = 0 /\ stops = 0
  BY DEF DeskInit
<1>2. 0 \in 0 .. MaxRuns /\ 0 \in 0 .. MaxReloads /\ 0 \in 0 .. MaxStops /\ Shelf \in Filters
  BY BatchDeskAssumption
<1>3. main \in RunType /\ batch \in BatchType
  BY <1>1, <1>2 DEF RunType, BatchType, Idle, IDLE_BATCH
<1>4. <<>> \in Seq(Orders) /\ <<>> \in Seq(Messages) /\ <<>> \in Seq(Shelf) /\ DOMAIN <<>> = {}
  OBVIOUS
<1>5. DeskTypes
  BY <1>1, <1>2, <1>3, <1>4 DEF DeskTypes
<1>6. Browsed
  BY <1>1, <1>4 DEF Browsed, SelectionIsOfTheFolder, ToSet, IsInjective
<1>7. main.running = FALSE /\ main.nth = 0 /\ main.page = 0 /\ main.items = <<>> /\ main.cancelling = 0
  BY <1>1 DEF Idle
<1>8. OfPagesSoFar /\ InOrderOfRuns /\ RunAtWork
  BY <1>1, <1>4, <1>7 DEF OfPagesSoFar, InOrderOfRuns, RunAtWork
<1>9. StopWasPressed
  <2>1. ToSet(<<>>) = {}
    BY DEF ToSet
  <2> QED BY <2>1, <1>7 DEF StopWasPressed
<1>10. WaitsForOne
  <2>1. ~batch.running /\ batch.done = 0 /\ batch.items = <<>>
    BY <1>1 DEF IDLE_BATCH
  <2> QED BY <2>1, <1>1, <1>7, NoneOfNothing DEF WaitsForOne
<1> QED BY <1>5, <1>6, <1>8, <1>9, <1>10 DEF DeskInv, DeskOrder

-----------------------------------------------------------------------------
(* The grid and its selection.                                             *)

LEMMA ListedEntries ==
  ASSUME shown \in DOMAIN Listing \cup {Nowhere}
  PROVE  /\ Entries \in Seq(Shelf) /\ IsInjective(Entries)
         /\ Visible \in Seq(Shelf) /\ IsInjective(Visible) /\ ToSet(Visible) \subseteq ToSet(Entries)
<1>1. Entries \in Seq(Shelf) /\ IsInjective(Entries)
  <2>1. CASE shown = Nowhere
    <3>1. <<>> \in Seq(Shelf) /\ DOMAIN <<>> = {}
      OBVIOUS
    <3> QED BY <2>1, <3>1 DEF Entries, IsInjective
  <2>2. CASE shown # Nowhere
    BY <2>2, BatchDeskAssumption DEF Entries
  <2> QED BY <2>1, <2>2
<1>2. /\ Visible \in Seq(Shelf) /\ ToSet(Visible) = ToSet(Entries) \cap passing
      /\ IsInjective(Visible)
  BY <1>1, KeptOfAList, KeptIsInjective DEF Visible
<1> QED BY <1>1, <1>2

LEMMA OneMorePath ==
  ASSUME NEW list \in Seq(Shelf), IsInjective(list), NEW p \in Shelf, p \notin ToSet(list)
  PROVE  /\ Append(list, p) \in Seq(Shelf) /\ IsInjective(Append(list, p))
         /\ ToSet(Append(list, p)) = ToSet(list) \cup {p}
<1> DEFINE t == Append(list, p)
<1>1. /\ t \in Seq(Shelf) /\ Len(t) = Len(list) + 1 /\ Len(list) \in Nat
      /\ \A i \in 1 .. Len(list) : t[i] = list[i]
      /\ t[Len(list) + 1] = p /\ DOMAIN t = 1 .. Len(list) + 1 /\ DOMAIN list = 1 .. Len(list)
  OBVIOUS
<1> HIDE DEF t
<1>2. /\ ToSet(t) = {t[i] : i \in 1 .. Len(t)}
      /\ ToSet(list) = {list[i] : i \in 1 .. Len(list)}
  BY <1>1, Members
<1>3. \A i \in 1 .. Len(list) + 1 : i \in 1 .. Len(list) \/ i = Len(list) + 1
  BY <1>1
<1>4. \A i \in 1 .. Len(list) : list[i] # p /\ i \in 1 .. Len(list) + 1
  BY <1>1, <1>2
<1>5. IsInjective(t)
  <2>1. ASSUME NEW i \in 1 .. Len(list) + 1, NEW j \in 1 .. Len(list) + 1, t[i] = t[j]
        PROVE  i = j
    <3>1. CASE i \in 1 .. Len(list) /\ j \in 1 .. Len(list)
      BY <2>1, <3>1, <1>1 DEF IsInjective
    <3>2. CASE i = Len(list) + 1 \/ j = Len(list) + 1
      BY <2>1, <3>2, <1>1, <1>3, <1>4
    <3> QED BY <3>1, <3>2, <1>3
  <2> QED BY <2>1, <1>1 DEF IsInjective
<1>6. ToSet(t) = ToSet(list) \cup {p}
  <2>1. \A x \in ToSet(t) : x \in ToSet(list) \cup {p}
    BY <1>1, <1>2, <1>3
  <2>2. \A x \in ToSet(list) : x \in ToSet(t)
    BY <1>1, <1>2, <1>4
  <2>3. p \in ToSet(t)
    <3>1. Len(list) + 1 \in 1 .. Len(t)
      BY <1>1
    <3> QED BY <3>1, <1>1, <1>2
  <2> QED BY <2>1, <2>2, <2>3
<1> QED BY <1>1, <1>5, <1>6 DEF t

LEMMA OnePath ==
  ASSUME NEW p \in Shelf
  PROVE  <<p>> \in Seq(Shelf) /\ IsInjective(<<p>>) /\ ToSet(<<p>>) = {p}
<1>1. <<p>> \in Seq(Shelf) /\ DOMAIN <<p>> = {1} /\ <<p>>[1] = p /\ Len(<<p>>) = 1
  OBVIOUS
<1>2. IsInjective(<<p>>)
  BY <1>1 DEF IsInjective
<1>3. ToSet(<<p>>) = {p}
  BY <1>1 DEF ToSet
<1> QED BY <1>1, <1>2, <1>3

LEMMA NoPath == <<>> \in Seq(Shelf) /\ IsInjective(<<>>) /\ ToSet(<<>>) = {}
<1>1. <<>> \in Seq(Shelf) /\ DOMAIN <<>> = {}
  OBVIOUS
<1> QED BY <1>1 DEF IsInjective, ToSet

LEMMA SelectBrowsed ==
  ASSUME DeskInv, Select PROVE Browsed'
<1>1. /\ selection \in Seq(Shelf) /\ ToSet(selection) \subseteq ToSet(Entries)
      /\ IsInjective(selection) /\ shown \in DOMAIN Listing \cup {Nowhere}
  BY DEF DeskInv, DeskOrder, Browsed, SelectionIsOfTheFolder, DeskTypes
<1>2. shown' = shown /\ Entries' = Entries
  BY DEF Select, Entries
<1>3. /\ Visible \in Seq(Shelf) /\ IsInjective(Visible) /\ ToSet(Visible) \subseteq ToSet(Entries)
  BY <1>1, ListedEntries
<1>4. SUFFICES /\ selection' \in Seq(Shelf) /\ ToSet(selection') \subseteq ToSet(Entries)
               /\ IsInjective(selection')
  BY <1>2 DEF Browsed, SelectionIsOfTheFolder
<1>5. CASE \E p \in ToSet(Visible), extend \in BOOLEAN : selection' = Toggled(p, extend)
  <2>1. PICK p \in ToSet(Visible), extend \in BOOLEAN : selection' = Toggled(p, extend)
    BY <1>5
  <2>2. p \in Shelf /\ p \in ToSet(Entries)
    BY <1>3, Members
  <2>3. \/ selection' = Kept(selection, Shelf \ {p})
        \/ p \notin ToSet(selection) /\ selection' = Append(selection, p)
        \/ selection' = <<>>
        \/ selection' = <<p>>
    <3>1. CASE extend = TRUE /\ p \in ToSet(selection)
      BY <2>1, <3>1 DEF Toggled
    <3>2. CASE extend = TRUE /\ p \notin ToSet(selection)
      BY <2>1, <3>2 DEF Toggled
    <3>3. CASE extend = FALSE
      BY <2>1, <3>3 DEF Toggled
    <3> QED BY <3>1, <3>2, <3>3
  <2>4. CASE selection' = Kept(selection, Shelf \ {p})
    BY <1>1, <2>4, KeptOfAList, KeptIsInjective
  <2>5. CASE p \notin ToSet(selection) /\ selection' = Append(selection, p)
    BY <1>1, <2>2, <2>5, OneMorePath
  <2>6. CASE selection' = <<>> \/ selection' = <<p>>
    BY <2>2, <2>6, OnePath, NoPath
  <2> QED BY <2>3, <2>4, <2>5, <2>6
<1>6. CASE selection' \in {Visible, <<>>}
  BY <1>3, <1>6, NoPath
<1> QED BY <1>5, <1>6 DEF Select

LEMMA EmptiedBrowsed == selection' = <<>> => Browsed'
<1> SUFFICES ASSUME selection' = <<>> PROVE Browsed'
  OBVIOUS
<1>1. selection' \in Seq(Shelf) /\ IsInjective(selection') /\ ToSet(selection') = {}
  BY NoPath
<1> QED BY <1>1 DEF Browsed, SelectionIsOfTheFolder

LEMMA BrowsedStep == ASSUME DeskInv, DeskNext PROVE Browsed'
<1>1. CASE UNCHANGED <<shown, selection>>
  BY <1>1 DEF DeskInv, DeskOrder, Browsed, SelectionIsOfTheFolder, Entries
<1>2. CASE FolderAnswer
  <2>1. selection' = <<>> \/ UNCHANGED <<shown, selection>>
    BY <1>2 DEF FolderAnswer, Adopted
  <2> QED BY <1>1, <2>1, EmptiedBrowsed
<1>3. CASE Reload
  BY <1>3, EmptiedBrowsed DEF Reload
<1>4. CASE Select
  BY <1>4, SelectBrowsed
<1>5. CASE \/ \E f \in DOMAIN Listing : AskFolder(f)
           \/ Filter \/ OpenDialog \/ CloseDialog \/ ChooseDirectory \/ Run \/ Stop
           \/ Receive \/ MainReceive \/ \E outcome \in {"exported", "failed"} : PhotographDone(outcome)
  <2>1. UNCHANGED <<shown, selection>>
    BY <1>5 DEF AskFolder, Filter, OpenDialog, CloseDialog, ChooseDirectory, Run, Stop, Receive,
                MainReceive, PhotographDone, browseVars
  <2> QED BY <1>1, <2>1
<1> QED BY <1>2, <1>3, <1>4, <1>5 DEF DeskNext

-----------------------------------------------------------------------------
(* The dialog and its channel.                                             *)

LEMMA BatchesOfRuns ==
  /\ IDLE_BATCH \in BatchType /\ IDLE_BATCH.running = FALSE /\ IDLE_BATCH.done = 0
  /\ IDLE_BATCH.items = <<>> /\ Len(IDLE_BATCH.items) = 0
<1>1. <<>> \in Seq(Outcomes) /\ Len(<<>>) = 0
  OBVIOUS
<1> QED BY <1>1 DEF IDLE_BATCH, BatchType

\* Where no message moves.
LEMMA QuietOrder ==
  ASSUME DeskOrder, UNCHANGED <<toMain, toWindow, main, page, runs, stops>>,
         shown' \in DOMAIN Listing \cup {Nowhere}, opening' \in DOMAIN Listing \cup {Nowhere},
         passing' \in Filters, target' \in BOOLEAN, dialog' \in BOOLEAN, batch' \in BatchType,
         batch'.running = batch.running, batch.running => dialog',
         ~batch.running => batch'.done = Len(batch'.items)
  PROVE  DeskOrder'
<1>1. DeskTypes'
  BY DEF DeskOrder, DeskTypes
<1>2. OfPagesSoFar' /\ InOrderOfRuns'
  BY DEF DeskOrder, OfPagesSoFar, InOrderOfRuns
<1>3. RunAtWork' /\ StopWasPressed'
  BY DEF DeskOrder, RunAtWork, StopWasPressed
<1>4. WaitsForOne'
  <2>1. /\ NoneOf(toMain, RunsFor(page))' = NoneOf(toMain, RunsFor(page))
        /\ OneOf(toMain, RunsFor(page))' = OneOf(toMain, RunsFor(page))
        /\ NoneOf(toWindow, Verdicts)' = NoneOf(toWindow, Verdicts)
        /\ OneOf(toWindow, Verdicts)' = OneOf(toWindow, Verdicts)
    BY DEF RunsFor, Verdicts
  <2> QED BY <2>1 DEF DeskOrder, WaitsForOne
<1> QED BY <1>1, <1>2, <1>3, <1>4 DEF DeskOrder

LEMMA GridOrder ==
  ASSUME DeskInv,
         \/ \E f \in DOMAIN Listing : AskFolder(f)
         \/ FolderAnswer \/ Filter \/ Select \/ OpenDialog \/ ChooseDirectory
  PROVE  DeskOrder'
<1>1. DeskOrder /\ DeskTypes /\ WaitsForOne
  BY DEF DeskInv, DeskOrder
<1>2. UNCHANGED <<toMain, toWindow, main, page, runs, stops, batch>>
  BY DEF AskFolder, FolderAnswer, Filter, Select, OpenDialog, ChooseDirectory
<1>3. dialog' \in BOOLEAN /\ (dialog => dialog')
  BY <1>1 DEF DeskTypes, AskFolder, FolderAnswer, Filter, Select, OpenDialog, ChooseDirectory
<1>4. target' \in BOOLEAN
  BY <1>1 DEF DeskTypes, AskFolder, FolderAnswer, Filter, Select, OpenDialog, ChooseDirectory
<1>5. /\ shown' \in DOMAIN Listing \cup {Nowhere} /\ opening' \in DOMAIN Listing \cup {Nowhere}
      /\ passing' \in Filters
  BY <1>1 DEF DeskTypes, AskFolder, FolderAnswer, Adopted, Filter, Select, OpenDialog,
              ChooseDirectory, browseVars
<1>6. /\ batch' \in BatchType /\ batch'.running = batch.running /\ (batch.running => dialog')
      /\ ~batch.running => batch'.done = Len(batch'.items)
  BY <1>1, <1>2, <1>3 DEF DeskTypes, WaitsForOne
<1> QED BY <1>1, <1>2, <1>3, <1>4, <1>5, <1>6, QuietOrder

LEMMA CloseOrder == ASSUME DeskInv, CloseDialog PROVE DeskOrder'
<1>1. DeskOrder /\ DeskTypes /\ WaitsForOne
  BY DEF DeskInv, DeskOrder
<1>2. /\ UNCHANGED <<toMain, toWindow, main, page, runs, stops, browseVars, target>>
      /\ ~batch.running /\ dialog' = FALSE /\ batch' \in {batch, IDLE_BATCH}
  BY DEF CloseDialog
<1>3. /\ shown' \in DOMAIN Listing \cup {Nowhere} /\ opening' \in DOMAIN Listing \cup {Nowhere}
      /\ passing' \in Filters /\ target' \in BOOLEAN /\ dialog' \in BOOLEAN
  BY <1>1, <1>2 DEF DeskTypes, browseVars
<1>4. batch' \in BatchType /\ batch'.running \in BOOLEAN /\ batch.running \in BOOLEAN
  BY <1>1, <1>2, BatchesOfRuns DEF DeskTypes, BatchType
<1>5. batch'.running = batch.running /\ batch'.done = Len(batch'.items)
  <2>1. CASE batch' = batch
    BY <2>1, <1>1, <1>2 DEF WaitsForOne
  <2>2. CASE batch' = IDLE_BATCH
    BY <2>2, <1>2, <1>4, BatchesOfRuns
  <2> QED BY <1>2, <2>1, <2>2
<1> QED BY <1>1, <1>2, <1>3, <1>4, <1>5, QuietOrder

\* One call more.
LEMMA CallSent ==
  ASSUME DeskOrder, NEW m \in Orders, toMain' = Append(toMain, m), m.page = page,
         UNCHANGED <<main, page>>, runs \in 0 .. MaxRuns, runs' \in 0 .. MaxRuns,
         runs <= runs', m.nth = runs'
  PROVE  OfPagesSoFar' /\ InOrderOfRuns' /\ toMain' \in Seq(Orders)
<1>1. /\ toMain \in Seq(Orders) /\ toMain' \in Seq(Orders) /\ Len(toMain) \in Nat
      /\ Len(toMain') = Len(toMain) + 1
      /\ \A i \in 1 .. Len(toMain) : toMain'[i] = toMain[i]
      /\ toMain'[Len(toMain) + 1] = m
      /\ DOMAIN toMain = 1 .. Len(toMain) /\ DOMAIN toMain' = 1 .. Len(toMain) + 1
  BY DEF DeskOrder, DeskTypes
<1> DEFINE q == toMain  t == toMain'  n == Len(toMain)
<1>2. /\ n \in Nat /\ DOMAIN q = 1 .. n /\ DOMAIN t = 1 .. n + 1 /\ t[n + 1] = m
      /\ \A i \in 1 .. n : t[i] = q[i]
  BY <1>1
<1>3. /\ \A i \in 1 .. n : q[i].page <= page /\ main.nth <= q[i].nth /\ q[i].nth <= runs
      /\ \A i \in 1 .. n : q[i].nth \in 0 .. MaxRuns
      /\ \A i, j \in 1 .. n : i < j => q[i].nth <= q[j].nth
      /\ main.nth <= runs /\ main.page <= page
    <2>1. \A i \in 1 .. n : q[i] \in Orders
      BY <1>1
    <2> QED BY <1>1, <2>1 DEF DeskOrder, OfPagesSoFar, InOrderOfRuns, Orders
<1>4. main.nth \in 0 .. MaxRuns /\ main.page \in 0 .. MaxReloads /\ page \in 0 .. MaxReloads
      /\ MaxRuns \in Nat
  BY BatchDeskAssumption DEF DeskOrder, DeskTypes, RunType
<1>5. \A i \in 1 .. n + 1 : i \in 1 .. n \/ i = n + 1
  BY <1>2
<1> HIDE DEF q, t, n
<1>6. \A i \in 1 .. n + 1 : t[i].page <= page
  BY <1>2, <1>3, <1>4, <1>5
<1>7. \A i \in 1 .. n + 1 : main.nth <= t[i].nth /\ t[i].nth <= runs'
  BY <1>2, <1>3, <1>4, <1>5
<1>8. ASSUME NEW i \in 1 .. n + 1, NEW j \in 1 .. n + 1, i < j PROVE t[i].nth <= t[j].nth
  <2>1. i \in 1 .. n
    BY <1>2, <1>8
  <2>2. CASE j = n + 1
    <3>1. t[i] = q[i] /\ q[i].nth <= runs /\ q[i].nth \in 0 .. MaxRuns
      BY <2>1, <1>2, <1>3
    <3> QED BY <2>2, <3>1, <1>2, <1>4
  <2>3. CASE j \in 1 .. n
    BY <2>1, <2>3, <1>2, <1>3, <1>8
  <2> QED BY <2>2, <2>3, <1>5
<1>9. main.nth <= runs'
  BY <1>3, <1>4
<1>10. OfPagesSoFar'
  BY <1>2, <1>3, <1>6 DEF OfPagesSoFar, t
<1>11. InOrderOfRuns'
  BY <1>2, <1>7, <1>8, <1>9 DEF InOrderOfRuns, t
<1> QED BY <1>1, <1>10, <1>11

LEMMA RunOrder == ASSUME DeskInv, Run PROVE DeskOrder'
<1> DEFINE m == [call |-> "run", nth |-> runs + 1, page |-> page, paths |-> selection]
<1>1. /\ dialog /\ ~batch.running /\ runs < MaxRuns /\ runs' = runs + 1
      /\ batch' = [IDLE_BATCH EXCEPT !.running = TRUE, !.total = Len(selection)]
      /\ toMain' = Append(toMain, m)
      /\ UNCHANGED <<browseVars, target, dialog, toWindow, main, page, stops>>
  BY DEF Run
<1>2. DeskOrder /\ DeskTypes /\ WaitsForOne /\ RunAtWork /\ StopWasPressed /\ selection \in Seq(Shelf)
  BY DEF DeskInv, DeskOrder, Browsed
<1>3. runs \in 0 .. MaxRuns /\ MaxRuns \in Nat /\ page \in 0 .. MaxReloads /\ Len(selection) \in Nat
  BY <1>2, BatchDeskAssumption DEF DeskTypes
<1>4. runs + 1 \in 0 .. MaxRuns /\ runs <= runs'
  BY <1>1, <1>3
<1>5. m \in Orders /\ m.call = "run" /\ m.page = page /\ m.nth = runs'
  BY <1>1, <1>2, <1>3, <1>4 DEF Orders
<1>6. m \in RunsFor(page)
  BY <1>5 DEF RunsFor
<1> HIDE DEF m
<1>7. OfPagesSoFar' /\ InOrderOfRuns' /\ toMain' \in Seq(Orders)
  BY <1>1, <1>2, <1>3, <1>4, <1>5, CallSent
<1>8. batch' = [running |-> TRUE, done |-> 0, total |-> Len(selection), items |-> <<>>]
  BY <1>1, Zenon DEF IDLE_BATCH
<1>9. batch' \in BatchType /\ batch'.running
  <2>1. <<>> \in Seq(Outcomes)
    OBVIOUS
  <2> QED BY <2>1, <1>3, <1>8 DEF BatchType
<1>10. DeskTypes'
  BY <1>1, <1>2, <1>4, <1>7, <1>9 DEF DeskTypes, browseVars
<1>11. RunAtWork' /\ StopWasPressed'
  BY <1>1, <1>2 DEF RunAtWork, StopWasPressed
<1>12. WaitsForOne'
  <2>1. NoneOf(toMain, RunsFor(page)) /\ NoneOf(toWindow, Verdicts) /\ ~ (main.running /\ main.page = page)
    BY <1>1, <1>2 DEF WaitsForOne
  <2>2. OneOf(toMain', RunsFor(page))
    BY <1>1, <1>2, <1>5, <1>6, <2>1, AddedToQueue DEF DeskTypes
  <2>3. OneOf(toMain, RunsFor(page))' /\ NoneOf(toWindow, Verdicts)' /\ ~ (main.running /\ main.page = page)'
    BY <2>1, <2>2, <1>1 DEF RunsFor, Verdicts
  <2>4. dialog'
    BY <1>1
  <2> QED BY <2>3, <2>4, <1>9 DEF WaitsForOne
<1> QED BY <1>7, <1>10, <1>11, <1>12 DEF DeskOrder

LEMMA StopOrder == ASSUME DeskInv, Stop PROVE DeskOrder'
<1> DEFINE m == [call |-> "cancel", nth |-> runs, page |-> page, paths |-> <<>>]
<1>1. /\ dialog /\ batch.running /\ stops < MaxStops /\ stops' = stops + 1
      /\ toMain' = Append(toMain, m)
      /\ UNCHANGED <<browseVars, target, dialog, batch, toWindow, main, page, runs>>
  BY DEF Stop
<1>2. DeskOrder /\ DeskTypes /\ WaitsForOne /\ RunAtWork /\ StopWasPressed
  BY DEF DeskInv, DeskOrder
<1>3. runs \in 0 .. MaxRuns /\ MaxStops \in Nat /\ page \in 0 .. MaxReloads /\ stops \in 0 .. MaxStops
  BY <1>2, BatchDeskAssumption DEF DeskTypes
<1>4. stops + 1 \in 0 .. MaxStops /\ runs <= runs' /\ runs' = runs
  BY <1>1, <1>3, BatchDeskAssumption
<1>5. m \in Orders /\ m.call = "cancel" /\ m.page = page /\ m.nth = runs'
  <2>1. <<>> \in Seq(Shelf)
    OBVIOUS
  <2> QED BY <2>1, <1>3, <1>4 DEF Orders
<1>6. m \notin RunsFor(page)
  BY <1>5 DEF RunsFor
<1> HIDE DEF m
<1>7. OfPagesSoFar' /\ InOrderOfRuns' /\ toMain' \in Seq(Orders)
  BY <1>1, <1>2, <1>3, <1>4, <1>5, CallSent
<1>10. DeskTypes'
  BY <1>1, <1>2, <1>4, <1>7 DEF DeskTypes, browseVars
<1>11. RunAtWork' /\ StopWasPressed'
  BY <1>1, <1>2 DEF RunAtWork, StopWasPressed
<1>12. WaitsForOne'
  <2>1. /\ NoneOf(toMain, RunsFor(page)) => NoneOf(toMain', RunsFor(page))
        /\ OneOf(toMain, RunsFor(page)) => OneOf(toMain', RunsFor(page))
    BY <1>1, <1>2, <1>5, <1>6, AddedToQueue DEF DeskTypes
  <2>2. /\ NoneOf(toMain, RunsFor(page)) => NoneOf(toMain, RunsFor(page))'
        /\ OneOf(toMain, RunsFor(page)) => OneOf(toMain, RunsFor(page))'
        /\ NoneOf(toWindow, Verdicts) => NoneOf(toWindow, Verdicts)'
        /\ OneOf(toWindow, Verdicts) => OneOf(toWindow, Verdicts)'
    BY <2>1, <1>1 DEF RunsFor, Verdicts
  <2> QED BY <2>2, <1>1, <1>2 DEF WaitsForOne
<1> QED BY <1>7, <1>10, <1>11, <1>12 DEF DeskOrder

\* What no call is added to, or what is taken from its head.
LEMMA CallTaken ==
  ASSUME OfPagesSoFar, InOrderOfRuns, DeskTypes, toMain # <<>>, toMain' = Tail(toMain),
         UNCHANGED <<page, runs>>, main' \in RunType,
         main'.nth \in {main.nth, Head(toMain).nth}, main'.page \in {main.page, Head(toMain).page}
  PROVE  OfPagesSoFar' /\ InOrderOfRuns' /\ toMain' \in Seq(Orders)
<1> DEFINE q == toMain  t == toMain'
<1>1. /\ q \in Seq(Orders) /\ t \in Seq(Orders) /\ Len(q) \in Nat \ {0} /\ Head(q) = q[1]
      /\ Len(t) = Len(q) - 1 /\ DOMAIN q = 1 .. Len(q) /\ DOMAIN t = 1 .. Len(t)
      /\ \A i \in 1 .. Len(t) : t[i] = q[i + 1]
  BY DEF DeskTypes
<1>2. \A i \in DOMAIN t : i + 1 \in DOMAIN q /\ t[i] = q[i + 1] /\ 1 < i + 1 /\ i \in Int
  BY <1>1
<1>3. 1 \in DOMAIN q
  BY <1>1
<1>4. /\ \A i \in DOMAIN q : q[i].page <= page /\ main.nth <= q[i].nth /\ q[i].nth <= runs
      /\ \A i, j \in DOMAIN q : i < j => q[i].nth <= q[j].nth
      /\ main.nth <= runs /\ main.page <= page
  BY DEF OfPagesSoFar, InOrderOfRuns
<1>5. main'.nth \in {main.nth, q[1].nth} /\ main'.page \in {main.page, q[1].page}
  BY <1>1
<1> HIDE DEF q, t
<1>6. OfPagesSoFar'
  <2>1. \A i \in DOMAIN t : t[i].page <= page
    BY <1>2, <1>4
  <2>2. main'.page <= page
    BY <1>3, <1>4, <1>5
  <2> QED BY <2>1, <2>2 DEF OfPagesSoFar, t
<1>7. InOrderOfRuns'
  <2>1. \A i \in DOMAIN t : q[1].nth <= t[i].nth /\ main.nth <= t[i].nth /\ t[i].nth <= runs
    BY <1>2, <1>3, <1>4
  <2>2. main'.nth <= runs /\ \A i \in DOMAIN t : main'.nth <= t[i].nth
    BY <2>1, <1>3, <1>4, <1>5
  <2>3. ASSUME NEW i \in DOMAIN t, NEW j \in DOMAIN t, i < j PROVE t[i].nth <= t[j].nth
    BY <2>3, <1>2, <1>4
  <2> QED BY <2>1, <2>2, <2>3 DEF InOrderOfRuns, t
<1> QED BY <1>1, <1>6, <1>7 DEF t

LEMMA MainReceiveOrder == ASSUME DeskInv, MainReceive PROVE DeskOrder'
<1> DEFINE m == Head(toMain)
<1>1. DeskOrder /\ DeskTypes /\ WaitsForOne /\ RunAtWork /\ StopWasPressed /\ OfPagesSoFar /\ InOrderOfRuns
  BY DEF DeskInv, DeskOrder
<1>2. UNCHANGED <<browseVars, target, dialog, batch, page, runs, stops>>
  BY DEF MainReceive
<1>3. /\ toMain # <<>> /\ toMain' = Tail(toMain) /\ m \in Orders
      /\ main' \in RunType /\ toWindow' \in Seq(Messages) /\ RunAtWork' /\ StopWasPressed'
      /\ main'.nth \in {main.nth, m.nth} /\ main'.page \in {main.page, m.page}
      /\ m.call = "cancel" => /\ main'.running = main.running /\ main'.page = main.page
                              /\ NothingSaid
      /\ m.call = "run" /\ main.running =>
           main' = main /\ (m.page = page => AnswerSaid) /\ (m.page # page => NothingSaid)
      /\ m.call = "run" /\ ~main.running =>
           /\ main'.page = m.page
           /\ main'.running \/ m.page # page => NothingSaid
           /\ ~main'.running /\ m.page = page => AnswerSaid
  BY <1>1, MainReceives
<1>4. /\ NoneOf(toMain, RunsFor(page)) => m \notin RunsFor(page) /\ NoneOf(Tail(toMain), RunsFor(page))
      /\ OneOf(toMain, RunsFor(page)) /\ m \in RunsFor(page) => NoneOf(Tail(toMain), RunsFor(page))
      /\ OneOf(toMain, RunsFor(page)) /\ m \notin RunsFor(page) => OneOf(Tail(toMain), RunsFor(page))
  BY <1>1, <1>3, TakenFromQueue DEF DeskTypes
<1>5. m.call \in {"run", "cancel"} /\ (m \in RunsFor(page) <=> m.call = "run" /\ m.page = page)
  BY <1>3 DEF Orders, RunsFor
<1>6. OfPagesSoFar' /\ InOrderOfRuns' /\ toMain' \in Seq(Orders)
  BY <1>1, <1>2, <1>3, CallTaken
<1>7. DeskTypes'
  BY <1>1, <1>2, <1>3, <1>6 DEF DeskTypes, browseVars
<1>8. /\ NoneOf(toMain, RunsFor(page))' = NoneOf(Tail(toMain), RunsFor(page))
      /\ OneOf(toMain, RunsFor(page))' = OneOf(Tail(toMain), RunsFor(page))
      /\ NoneOf(toWindow, Verdicts)' = NoneOf(toWindow', Verdicts)
      /\ OneOf(toWindow, Verdicts)' = OneOf(toWindow', Verdicts)
  BY <1>2, <1>3 DEF RunsFor, Verdicts
<1>9. /\ main'.running \in BOOLEAN /\ main.running \in BOOLEAN /\ batch.running \in BOOLEAN
      /\ batch' = batch /\ dialog' = dialog /\ page' = page
  BY <1>1, <1>2, <1>3 DEF DeskTypes, RunType, BatchType
<1> HIDE DEF m
<1> DEFINE
      A == NoneOf(toMain, RunsFor(page))  B == OneOf(toMain, RunsFor(page))
      A1 == NoneOf(Tail(toMain), RunsFor(page))  B1 == OneOf(Tail(toMain), RunsFor(page))
      C == NoneOf(toWindow, Verdicts)  D == OneOf(toWindow, Verdicts)
      C1 == NoneOf(toWindow', Verdicts)  D1 == OneOf(toWindow', Verdicts)
      H == main.running /\ main.page = page
      H1 == main'.running /\ main'.page = page
      R == m \in RunsFor(page)
<1>10. /\ batch.running => (B /\ C /\ ~H) \/ (A /\ D /\ ~H) \/ (A /\ C /\ H)
       /\ ~batch.running => A /\ C /\ ~H
  BY <1>1 DEF WaitsForOne
<1>11. (A => ~R /\ A1) /\ (B /\ R => A1) /\ (B /\ ~R => B1)
  BY <1>4
<1>12. ~R => (C => C1) /\ (D => D1) /\ (H1 <=> H)
  <2>1. CASE m.call = "cancel"
    BY <2>1, <1>3 DEF NothingSaid
  <2>2. CASE m.call = "run" /\ m.page # page /\ main.running
    BY <2>2, <1>3 DEF NothingSaid
  <2>3. CASE m.call = "run" /\ m.page # page /\ ~main.running
    BY <2>3, <1>3 DEF NothingSaid
  <2> QED BY <1>5, <2>1, <2>2, <2>3
<1>13. R /\ ~H => (C => D1 /\ ~H1) \/ ((C => C1) /\ H1)
  <2> SUFFICES ASSUME R, ~H PROVE (C => D1 /\ ~H1) \/ ((C => C1) /\ H1)
    OBVIOUS
  <2>0. m.call = "run" /\ m.page = page
    BY <1>5
  <2>1. CASE main.running
    <3>1. AnswerSaid /\ main' = main
      BY <2>0, <2>1, <1>3
    <3>2. ~H1
      BY <3>1
    <3>3. C => D1
      BY <3>1 DEF AnswerSaid
    <3> QED BY <3>2, <3>3
  <2>2. CASE ~main.running /\ main'.running
    <3>1. NothingSaid /\ main'.page = page
      BY <2>0, <2>2, <1>3
    <3>2. C => C1
      BY <3>1 DEF NothingSaid
    <3> QED BY <3>1, <3>2, <2>2
  <2>3. CASE ~main.running /\ ~main'.running
    <3>1. AnswerSaid
      BY <2>0, <2>3, <1>3
    <3>2. C => D1
      BY <3>1 DEF AnswerSaid
    <3> QED BY <3>2, <2>3
  <2> QED BY <2>1, <2>2, <2>3
<1> HIDE DEF R
<1>14. /\ batch.running => (B1 /\ C1 /\ ~H1) \/ (A1 /\ D1 /\ ~H1) \/ (A1 /\ C1 /\ H1)
       /\ ~batch.running => A1 /\ C1 /\ ~H1
  <2> HIDE DEF A, B, A1, B1, C, D, C1, D1, H, H1
  <2>1. CASE ~R
    BY <2>1, <1>10, <1>11, <1>12
  <2>2. CASE R
    BY <2>2, <1>10, <1>11, <1>13
  <2> QED BY <2>1, <2>2
<1>15. WaitsForOne'
  <2>1. /\ batch'.running =>
            \/ OneOf(toMain, RunsFor(page))' /\ NoneOf(toWindow, Verdicts)' /\ ~H1
            \/ NoneOf(toMain, RunsFor(page))' /\ OneOf(toWindow, Verdicts)' /\ ~H1
            \/ NoneOf(toMain, RunsFor(page))' /\ NoneOf(toWindow, Verdicts)' /\ H1
        /\ ~batch'.running => NoneOf(toMain, RunsFor(page))' /\ NoneOf(toWindow, Verdicts)' /\ ~H1
    BY <1>8, <1>9, <1>14
  <2>2. (batch'.running => dialog') /\ (~batch'.running => batch'.done = Len(batch'.items))
    BY <1>1, <1>9 DEF WaitsForOne
  <2> QED BY <2>1, <2>2, <1>9 DEF WaitsForOne
<1> QED BY <1>3, <1>6, <1>7, <1>15 DEF DeskOrder

LEMMA PhotographOrder ==
  ASSUME DeskInv, NEW outcome \in {"exported", "failed"}, PhotographDone(outcome) PROVE DeskOrder'
<1>1. DeskOrder /\ DeskTypes /\ WaitsForOne /\ RunAtWork /\ StopWasPressed /\ OfPagesSoFar /\ InOrderOfRuns
  BY DEF DeskInv, DeskOrder
<1>2. UNCHANGED <<browseVars, target, dialog, batch, toMain, page, runs, stops>>
  BY DEF PhotographDone
<1>3. /\ main.running /\ main' \in RunType /\ toWindow' \in Seq(Messages)
      /\ RunAtWork' /\ StopWasPressed'
      /\ main'.nth = main.nth /\ main'.page = main.page
      /\ main'.running \/ main.page # page => NothingSaid
      /\ ~ main'.running /\ main.page = page => AnswerSaid
  BY <1>1, PhotographIsDone
<1>4. DeskTypes' /\ OfPagesSoFar' /\ InOrderOfRuns'
  BY <1>1, <1>2, <1>3 DEF DeskTypes, browseVars, OfPagesSoFar, InOrderOfRuns
<1>5. /\ NoneOf(toMain, RunsFor(page))' = NoneOf(toMain, RunsFor(page))
      /\ OneOf(toMain, RunsFor(page))' = OneOf(toMain, RunsFor(page))
      /\ NoneOf(toWindow, Verdicts)' = NoneOf(toWindow', Verdicts)
      /\ OneOf(toWindow, Verdicts)' = OneOf(toWindow', Verdicts)
      /\ batch' = batch /\ dialog' = dialog /\ page' = page
  BY <1>2 DEF RunsFor, Verdicts
<1>6. main'.running \in BOOLEAN /\ main.running \in BOOLEAN /\ batch.running \in BOOLEAN
  BY <1>1, <1>3 DEF DeskTypes, RunType, BatchType
<1>7. CASE main.page # page
  <2>1. NothingSaid /\ main'.page # page
    BY <1>3, <1>7
  <2> QED BY <2>1, <1>1, <1>3, <1>4, <1>5, <1>7 DEF NothingSaid, WaitsForOne, DeskOrder
<1>8. CASE main.page = page
  <2>1. batch.running /\ NoneOf(toMain, RunsFor(page)) /\ NoneOf(toWindow, Verdicts) /\ dialog
    BY <1>1, <1>3, <1>6, <1>8 DEF WaitsForOne
  <2>2. CASE main'.running
    <3>1. NothingSaid
      BY <2>2, <1>3
    <3> QED BY <2>1, <2>2, <3>1, <1>3, <1>4, <1>5, <1>8 DEF NothingSaid, WaitsForOne, DeskOrder
  <2>3. CASE ~main'.running
    <3>1. AnswerSaid
      BY <2>3, <1>3, <1>8
    <3> QED BY <2>1, <2>3, <3>1, <1>3, <1>4, <1>5, <1>8 DEF AnswerSaid, WaitsForOne, DeskOrder
  <2> QED BY <2>2, <2>3
<1> QED BY <1>7, <1>8

LEMMA ReceivedBatch ==
  ASSUME batch \in BatchType, toWindow \in Seq(Messages), Receive, NEW m, m = Head(toWindow)
  PROVE  /\ toWindow # <<>> /\ toWindow' = Tail(toWindow) /\ m \in Messages
         /\ batch' \in BatchType
         /\ m \notin Verdicts =>
              /\ batch'.running = batch.running
              /\ ~batch.running => batch' = batch
         /\ m \in Verdicts => batch'.running = FALSE /\ batch'.done = Len(batch'.items)
<1>1. /\ toWindow # <<>> /\ toWindow' = Tail(toWindow)
      /\ CASE m.is = "progress" -> SetProgress(m)
           [] m.is = "refused"  -> RunRefused
           [] m.is = "finished" ->
                batch' = [running |-> FALSE, done |-> Len(m.items), total |-> Len(m.items),
                          items |-> m.items]
  BY DEF Receive
<1>2. /\ m \in Messages /\ m.is \in {"progress", "refused", "finished"} /\ m.done \in Nat
      /\ m.total \in Nat /\ m.items \in Seq(Outcomes) /\ Len(m.items) \in Nat
  <2>1. m \in Messages
    BY <1>1, TakenFromQueue
  <2>2. m.items \in Seq(Outcomes)
    BY <2>1 DEF Messages
  <2> QED BY <2>1, <2>2 DEF Messages
<1>3. CASE m.is = "progress"
  <2>1. batch' = IF batch.running THEN [batch EXCEPT !.done = m.done, !.total = m.total] ELSE batch
    BY <1>1, <1>3 DEF SetProgress
  <2>2. batch' \in BatchType /\ batch'.running = batch.running /\ (~batch.running => batch' = batch)
    BY <2>1, <1>2 DEF BatchType
  <2>3. m \notin Verdicts
    BY <1>3 DEF Verdicts
  <2> QED BY <1>1, <1>2, <2>2, <2>3
<1>4. CASE m.is = "refused"
  <2>1. batch' = IDLE_BATCH
    BY <1>1, <1>4 DEF RunRefused
  <2>2. m \in Verdicts
    BY <1>2, <1>4 DEF Verdicts
  <2> QED BY <1>1, <1>2, <2>1, <2>2, BatchesOfRuns
<1>5. CASE m.is = "finished"
  <2>1. batch' = [running |-> FALSE, done |-> Len(m.items), total |-> Len(m.items), items |-> m.items]
    BY <1>1, <1>5
  <2>2. m \in Verdicts
    BY <1>2, <1>5 DEF Verdicts
  <2>3. batch' \in BatchType /\ batch'.running = FALSE /\ batch'.done = Len(batch'.items)
    BY <2>1, <1>2 DEF BatchType
  <2> QED BY <1>1, <1>2, <2>2, <2>3
<1> QED BY <1>2, <1>3, <1>4, <1>5

LEMMA ReceiveOrder == ASSUME DeskInv, Receive PROVE DeskOrder'
<1> DEFINE m == Head(toWindow)
<1>1. DeskOrder /\ DeskTypes /\ WaitsForOne /\ RunAtWork /\ StopWasPressed /\ OfPagesSoFar /\ InOrderOfRuns
  BY DEF DeskInv, DeskOrder
<1>2. UNCHANGED <<browseVars, target, dialog, toMain, main, page, runs, stops>>
  BY DEF Receive
<1>3. /\ toWindow # <<>> /\ toWindow' = Tail(toWindow) /\ m \in Messages
      /\ batch' \in BatchType
      /\ m \notin Verdicts =>
           /\ batch'.running = batch.running
           /\ ~batch.running => batch' = batch
      /\ m \in Verdicts => batch'.running = FALSE /\ batch'.done = Len(batch'.items)
  BY <1>1, ReceivedBatch DEF DeskTypes
<1>4. /\ Tail(toWindow) \in Seq(Messages)
      /\ NoneOf(toWindow, Verdicts) => m \notin Verdicts /\ NoneOf(Tail(toWindow), Verdicts)
      /\ OneOf(toWindow, Verdicts) /\ m \in Verdicts => NoneOf(Tail(toWindow), Verdicts)
      /\ OneOf(toWindow, Verdicts) /\ m \notin Verdicts => OneOf(Tail(toWindow), Verdicts)
  BY <1>1, <1>3, TakenFromQueue DEF DeskTypes
<1>5. DeskTypes' /\ OfPagesSoFar' /\ InOrderOfRuns' /\ RunAtWork' /\ StopWasPressed'
  BY <1>1, <1>2, <1>3, <1>4 DEF DeskTypes, browseVars, OfPagesSoFar, InOrderOfRuns, RunAtWork,
                                StopWasPressed
<1>6. /\ NoneOf(toMain, RunsFor(page))' = NoneOf(toMain, RunsFor(page))
      /\ OneOf(toMain, RunsFor(page))' = OneOf(toMain, RunsFor(page))
      /\ NoneOf(toWindow, Verdicts)' = NoneOf(Tail(toWindow), Verdicts)
      /\ OneOf(toWindow, Verdicts)' = OneOf(Tail(toWindow), Verdicts)
      /\ main' = main /\ page' = page /\ dialog' = dialog
  BY <1>2, <1>3 DEF RunsFor, Verdicts
<1>7. batch.running \in BOOLEAN /\ batch'.running \in BOOLEAN
  BY <1>1, <1>3 DEF DeskTypes, BatchType
<1> HIDE DEF m
<1>8. CASE m \in Verdicts
  <2>1. batch.running /\ NoneOf(toMain, RunsFor(page)) /\ OneOf(toWindow, Verdicts)
        /\ ~ (main.running /\ main.page = page)
    BY <1>1, <1>4, <1>7, <1>8 DEF WaitsForOne
  <2>2. WaitsForOne'
    BY <2>1, <1>3, <1>4, <1>6, <1>7, <1>8 DEF WaitsForOne
  <2> QED BY <2>2, <1>5 DEF DeskOrder
<1>9. CASE m \notin Verdicts
  <2>1. CASE batch.running
    <3>1. batch'.running /\ dialog'
      BY <2>1, <1>1, <1>3, <1>6, <1>9 DEF WaitsForOne
    <3>2. WaitsForOne'
      BY <2>1, <3>1, <1>1, <1>4, <1>6, <1>9 DEF WaitsForOne
    <3> QED BY <3>2, <1>5 DEF DeskOrder
  <2>2. CASE ~batch.running
    <3>1. batch' = batch
      BY <2>2, <1>3, <1>9
    <3>2. WaitsForOne'
      BY <2>2, <3>1, <1>1, <1>4, <1>6, <1>9 DEF WaitsForOne
    <3> QED BY <3>2, <1>5 DEF DeskOrder
  <2> QED BY <2>1, <2>2
<1> QED BY <1>8, <1>9

LEMMA ReloadOrder == ASSUME DeskInv, Reload PROVE DeskOrder'
<1>1. DeskOrder /\ DeskTypes /\ WaitsForOne /\ RunAtWork /\ StopWasPressed /\ OfPagesSoFar /\ InOrderOfRuns
  BY DEF DeskInv, DeskOrder
<1>2. /\ page < MaxReloads /\ page' = page + 1
      /\ shown' = Nowhere /\ opening' = Nowhere /\ passing' = Shelf
      /\ target' = FALSE /\ dialog' = FALSE /\ batch' = IDLE_BATCH /\ toWindow' = <<>>
      /\ UNCHANGED <<toMain, main, runs, stops>>
  BY DEF Reload
<1>3. page \in 0 .. MaxReloads /\ MaxReloads \in Nat /\ Shelf \in Filters /\ main.page \in 0 .. MaxReloads
  BY <1>1, BatchDeskAssumption DEF DeskTypes, RunType
<1>4. page + 1 \in 0 .. MaxReloads
  BY <1>2, <1>3
<1>5. DeskTypes'
  <2>1. <<>> \in Seq(Messages)
    OBVIOUS
  <2> QED BY <2>1, <1>1, <1>2, <1>3, <1>4, BatchesOfRuns DEF DeskTypes
<1>6. \A i \in DOMAIN toMain : toMain[i] \in Orders /\ toMain[i].page \in 0 .. MaxReloads
  <2>1. \A i \in DOMAIN toMain : toMain[i] \in Orders
    BY <1>1 DEF DeskTypes
  <2> QED BY <2>1 DEF Orders
<1>7. \A i \in DOMAIN toMain : toMain[i].page <= page + 1 /\ toMain[i].page # page + 1
  BY <1>1, <1>3, <1>6 DEF OfPagesSoFar
<1>8. main.page <= page + 1 /\ main.page # page + 1
  BY <1>1, <1>3 DEF OfPagesSoFar
<1>9. OfPagesSoFar' /\ InOrderOfRuns' /\ RunAtWork' /\ StopWasPressed'
  BY <1>1, <1>2, <1>7, <1>8 DEF OfPagesSoFar, InOrderOfRuns, RunAtWork, StopWasPressed
<1>10. WaitsForOne'
  <2>1. NoneOf(toMain, RunsFor(page))'
    BY <1>2, <1>7 DEF NoneOf, RunsFor
  <2>2. NoneOf(toWindow, Verdicts)'
    BY <1>2, NoneOfNothing DEF NoneOf
  <2> QED BY <2>1, <2>2, <1>2, <1>8, BatchesOfRuns DEF WaitsForOne
<1> QED BY <1>5, <1>9, <1>10 DEF DeskOrder

LEMMA DeskStepInv == DeskInv /\ [DeskNext]_deskVars => DeskInv'
<1> SUFFICES ASSUME DeskInv, [DeskNext]_deskVars PROVE DeskInv'
  OBVIOUS
<1>1. CASE DeskNext
  <2>1. Browsed'
    BY <1>1, BrowsedStep
  <2>2. CASE \/ \E f \in DOMAIN Listing : AskFolder(f)
             \/ FolderAnswer \/ Filter \/ Select \/ OpenDialog \/ ChooseDirectory
    BY <2>1, <2>2, GridOrder DEF DeskInv
  <2>3. CASE CloseDialog
    BY <2>1, <2>3, CloseOrder DEF DeskInv
  <2>4. CASE Run
    BY <2>1, <2>4, RunOrder DEF DeskInv
  <2>5. CASE Stop
    BY <2>1, <2>5, StopOrder DEF DeskInv
  <2>6. CASE Receive
    BY <2>1, <2>6, ReceiveOrder DEF DeskInv
  <2>7. CASE Reload
    BY <2>1, <2>7, ReloadOrder DEF DeskInv
  <2>8. CASE MainReceive
    BY <2>1, <2>8, MainReceiveOrder DEF DeskInv
  <2>9. CASE \E outcome \in {"exported", "failed"} : PhotographDone(outcome)
    BY <2>1, <2>9, PhotographOrder DEF DeskInv
  <2> QED BY <1>1, <2>2, <2>3, <2>4, <2>5, <2>6, <2>7, <2>8, <2>9 DEF DeskNext
<1>2. CASE UNCHANGED deskVars
  <2>1. UNCHANGED <<shown, opening, passing, selection, target, dialog, batch, toMain, toWindow,
                    main, page, runs, stops>>
    BY <1>2 DEF deskVars
  <2>2. DeskOrder'
    BY <2>1, QuietOrder DEF DeskInv, DeskOrder, DeskTypes, WaitsForOne
  <2>3. Browsed'
    BY <2>1 DEF DeskInv, Browsed, SelectionIsOfTheFolder, Entries
  <2> QED BY <2>2, <2>3 DEF DeskInv
<1> QED BY <1>1, <1>2

\* What it gives.
LEMMA DeskInOrder == DeskInv => DeskTypeOK /\ SelectionIsOfTheFolder /\ WindowWaitsForARun
<1> SUFFICES ASSUME DeskInv PROVE DeskTypeOK /\ SelectionIsOfTheFolder /\ WindowWaitsForARun
  OBVIOUS
<1>1. DeskTypes /\ WaitsForOne /\ Browsed
  BY DEF DeskInv, DeskOrder
<1>2. DeskTypeOK
  BY <1>1 DEF DeskTypes, Browsed, DeskTypeOK, BatchType, RunType
<1> DEFINE asked == {i \in 1 .. Len(toMain) : toMain[i].call = "run" /\ toMain[i].page = page}
           inHand == IF main.running /\ main.page = page THEN 1 ELSE 0
<1>3. asked = {i \in 1 .. Len(toMain) : toMain[i] \in RunsFor(page)}
  <2>1. \A i \in 1 .. Len(toMain) : toMain[i] \in Orders
    BY <1>1 DEF DeskTypes
  <2> QED BY <2>1 DEF RunsFor
<1>4. Answering = {i \in 1 .. Len(toWindow) : toWindow[i] \in Verdicts}
  <2>1. \A i \in 1 .. Len(toWindow) : toWindow[i] \in Messages
    BY <1>1 DEF DeskTypes
  <2> QED BY <2>1 DEF Verdicts, Answering
<1>5. /\ NoneOf(toMain, RunsFor(page)) => Cardinality(asked) = 0
      /\ OneOf(toMain, RunsFor(page)) => Cardinality(asked) = 1
  BY <1>1, <1>3, QueueCounts DEF DeskTypes
<1>6. /\ NoneOf(toWindow, Verdicts) => Cardinality(Answering) = 0
      /\ OneOf(toWindow, Verdicts) => Cardinality(Answering) = 1
  BY <1>1, <1>4, QueueCounts DEF DeskTypes
<1>7. Cardinality(asked) + Cardinality(Answering) + inHand = IF batch.running THEN 1 ELSE 0
  <2> HIDE DEF asked
  <2>1. CASE ~batch.running
    BY <2>1, <1>1, <1>5, <1>6 DEF WaitsForOne
  <2>2. CASE batch.running
    <3>1. CASE OneOf(toMain, RunsFor(page)) /\ NoneOf(toWindow, Verdicts)
               /\ ~ (main.running /\ main.page = page)
      BY <2>2, <3>1, <1>5, <1>6
    <3>2. CASE NoneOf(toMain, RunsFor(page)) /\ OneOf(toWindow, Verdicts)
               /\ ~ (main.running /\ main.page = page)
      BY <2>2, <3>2, <1>5, <1>6
    <3>3. CASE NoneOf(toMain, RunsFor(page)) /\ NoneOf(toWindow, Verdicts)
               /\ main.running /\ main.page = page
      BY <2>2, <3>3, <1>5, <1>6
    <3> QED BY <2>2, <3>1, <3>2, <3>3, <1>1 DEF WaitsForOne
  <2> QED BY <2>1, <2>2
<1>8. WindowWaitsForARun
  BY <1>1, <1>7 DEF WindowWaitsForARun, WaitsForOne
<1> QED BY <1>1, <1>2, <1>8 DEF Browsed

\* A run that was told to stop begins no other photograph.
LEMMA NoneBegun == DeskInv /\ [DeskNext]_deskVars => NoneIsBegun
<1> SUFFICES ASSUME DeskInv, [DeskNext]_deskVars, main.running, main'.running, main.cancelling # 0
             PROVE  main'.begun = main.begun
  BY DEF NoneIsBegun
<1>1. DeskTypes /\ RunAtWork /\ StopWasPressed /\ InOrderOfRuns
  BY DEF DeskInv, DeskOrder
<1>2. CASE MainReceive
  BY <1>1, <1>2, MainReceives
<1>3. CASE \E outcome \in {"exported", "failed"} : PhotographDone(outcome)
  BY <1>1, <1>3, PhotographIsDone
<1>4. CASE UNCHANGED main
  BY <1>4
<1> QED BY <1>2, <1>3, <1>4
        DEF DeskNext, deskVars, AskFolder, FolderAnswer, Filter, Select, OpenDialog, CloseDialog,
            ChooseDirectory, Run, Stop, Receive, Reload

-----------------------------------------------------------------------------
(* The tiles: their inductive invariant.                                   *)

CacheEntries == [file : Files, stamp : Versions, picture : Versions]
Listings == [at : Folders, listed : SUBSET Files, stars : SUBSET Files, since : [Files -> Versions]]
Stores == [inFlight : SUBSET Files, queue : Seq(Files), calls : SUBSET CallType,
           cache : Seq(CacheEntries), thumbs : [Files -> Versions], unreadable : SUBSET Files]

LibraryTypes ==
  /\ onDisk \in [Files -> [here : BOOLEAN, version : Versions]]
  /\ cache \in Seq(CacheEntries) /\ written \in 0 .. Interval /\ marked \in SUBSET Files
  /\ folder \in [at : Folders \cup {NoFolder}, nth : 0 .. MaxOpens, listed : SUBSET Files,
                stars : SUBSET Files, since : [Files -> Versions]]
  /\ watching \in SUBSET Files /\ thumbs \in [Files -> Versions] /\ unreadable \in SUBSET Files
  /\ inFlight \in SUBSET Files /\ queue \in Seq(Files) /\ calls \in SUBSET CallType
  /\ replies \in Seq(Listings)
  /\ adrift \in BOOLEAN /\ raced \in SUBSET Files /\ repicked \in BOOLEAN
  /\ spent \in [opens : 0 .. MaxOpens, changes : 0 .. MaxChanges, stars : 0 .. MaxStars,
                restarts : 0 .. MaxRestarts]

\* What is counted stays below the bounds.
WithinBounds ==
  /\ folder.nth + Len(replies) <= spent.opens
  /\ \A f \in Files : onDisk[f].version <= spent.changes + 1

\* What is listed is of the folder that was asked for.
ListedInPlace ==
  /\ \A f \in folder.listed : FolderOf[f] = folder.at
  /\ \A i \in DOMAIN replies : \A f \in replies[i].listed : FolderOf[f] = replies[i].at

\* The stars on screen and those of the listings on their way.
StarsAgree ==
  ~adrift => /\ replies = <<>> => folder.stars = folder.listed \cap marked
             /\ \A i \in DOMAIN replies : replies[i].stars = replies[i].listed \cap marked

\* No file is older than it was when it was listed.
ListedBefore ==
  \A f \in Files : /\ folder.since[f] <= onDisk[f].version
                   /\ \A i \in DOMAIN replies : replies[i].since[f] <= onDisk[f].version

AnswersCome(c, places) == \A f \in places : \E call \in c : call.file = f

\* An entry has the picture its name says.
CacheIsTrue(c) == \A e \in ToSet(c) : e.picture = e.stamp \/ e.file \in raced

\* A picture for this folder is not older than its listing.
CallsAreFresh(c) ==
  \A call \in c :
    /\ call.nth <= folder.nth
    /\ call.nth = folder.nth /\ call.picture # 0 =>
         call.picture >= folder.since[call.file] \/ call.file \in raced

TilesFresh == \A f \in Files : thumbs[f] # 0 => thumbs[f] >= folder.since[f] \/ f \in raced

CacheCounted == Len(cache) <= Budget + written

LibraryInv ==
  /\ LibraryTypes /\ WithinBounds /\ ListedInPlace /\ StarsAgree /\ ListedBefore
  /\ AnswersCome(calls, inFlight) /\ (queue # <<>> => Cardinality(inFlight) >= Limit)
  /\ NoTileForgotten
  /\ CacheIsTrue(cache) /\ CallsAreFresh(calls) /\ TilesFresh /\ CacheCounted

-----------------------------------------------------------------------------
(* The cache of pictures.                                                  *)

LEMMA JoinedMembers ==
  ASSUME NEW T, NEW a \in Seq(T), NEW b \in Seq(T)
  PROVE  /\ a \o b \in Seq(T) /\ Len(a \o b) = Len(a) + Len(b)
         /\ ToSet(a \o b) = ToSet(a) \cup ToSet(b)
<1> DEFINE c == a \o b
<1>1. /\ c \in Seq(T) /\ Len(c) = Len(a) + Len(b) /\ Len(a) \in Nat /\ Len(b) \in Nat
  OBVIOUS
<1>2. \A i \in 1 .. Len(a) : i \in 1 .. Len(c) /\ c[i] = a[i]
  BY <1>1
<1>3. \A i \in 1 .. Len(b) : i + Len(a) \in 1 .. Len(c) /\ c[i + Len(a)] = b[i]
  BY <1>1
<1>4. \A i \in 1 .. Len(c) :
        \/ i \in 1 .. Len(a) /\ c[i] = a[i]
        \/ i - Len(a) \in 1 .. Len(b) /\ c[i] = b[i - Len(a)]
  BY <1>1
<1> HIDE DEF c
<1>5. /\ ToSet(a) = {a[i] : i \in 1 .. Len(a)} /\ ToSet(b) = {b[i] : i \in 1 .. Len(b)}
      /\ ToSet(c) = {c[i] : i \in 1 .. Len(c)}
  BY <1>1, Members
<1>6. \A x \in ToSet(c) : x \in ToSet(a) \/ x \in ToSet(b)
  BY <1>4, <1>5
<1>7. \A x \in ToSet(a) : x \in ToSet(c)
  BY <1>2, <1>5
<1>8. \A x \in ToSet(b) : x \in ToSet(c)
  BY <1>3, <1>5
<1>9. ToSet(c) = ToSet(a) \cup ToSet(b)
  BY <1>6, <1>7, <1>8
<1> QED BY <1>1, <1>9 DEF c

\* A touched cache has the same entries.
LEMMA TouchedKeeps ==
  ASSUME NEW c \in Seq(CacheEntries), NEW f
  PROVE  /\ Touched(c, f) \in Seq(CacheEntries) /\ Len(Touched(c, f)) = Len(c)
         /\ ToSet(Touched(c, f)) \subseteq ToSet(c)
<1> DEFINE a == Others(c, f)  b == Hits(c, f)
<1>1. a \in Seq(CacheEntries) /\ ToSet(a) \subseteq ToSet(c)
  BY KeptOfAList DEF Others
<1>2. b \in Seq(CacheEntries) /\ ToSet(b) \subseteq ToSet(c)
  BY KeptOfAList DEF Hits
<1>3. Len(a) + Len(b) = Len(c)
  <2> DEFINE S == ToSet(c) \ Named(f)  U == Named(f)
  <2>1. \A x \in ToSet(c) : x \in S <=> x \notin U
    OBVIOUS
  <2>2. a = Kept(c, S) /\ b = Kept(c, U)
    BY DEF Others, Hits
  <2> HIDE DEF S, U
  <2> QED BY <2>1, <2>2, KeptAndTheRest
<1> HIDE DEF a, b
<1>4. /\ a \o b \in Seq(CacheEntries) /\ Len(a \o b) = Len(a) + Len(b)
      /\ ToSet(a \o b) = ToSet(a) \cup ToSet(b)
  BY <1>1, <1>2, JoinedMembers
<1> QED BY <1>1, <1>2, <1>3, <1>4 DEF Touched, a, b

\* A hit is an entry with the name the file has now.
LEMMA HitIsOfTheFile ==
  ASSUME NEW c \in Seq(CacheEntries), NEW f, NEW hits, hits = Hits(c, f), hits # <<>>
  PROVE  /\ hits[1] \in CacheEntries /\ hits[1] \in ToSet(c)
         /\ hits[1].file = f /\ hits[1].stamp = onDisk[f].version
<1>1. hits \in Seq(CacheEntries) /\ ToSet(hits) = ToSet(c) \cap Named(f)
  BY KeptOfAList DEF Hits
<1>2. 1 \in 1 .. Len(hits)
  BY <1>1
<1>3. hits[1] \in ToSet(hits) /\ hits[1] \in CacheEntries
  BY <1>1, <1>2, Members
<1> QED BY <1>1, <1>3 DEF Named

-----------------------------------------------------------------------------
(* The calls.                                                              *)

\* A call for this folder that has no picture yet, or a picture new enough.
FreshCall(c) ==
  /\ c \in CallType /\ c.nth = folder.nth
  /\ c.picture # 0 => c.picture >= folder.since[c.file] \/ c.file \in raced

LEMMA CallAdded ==
  ASSUME NEW cs \in SUBSET CallType, CallsAreFresh(cs), folder.nth \in Nat, NEW c, FreshCall(c)
  PROVE  cs \cup {c} \in SUBSET CallType /\ CallsAreFresh(cs \cup {c})
<1>1. c \in CallType /\ c.nth <= folder.nth
  BY DEF FreshCall
<1> QED BY <1>1 DEF CallsAreFresh, FreshCall

Doomed(c, f) == IF c.file = f /\ c.stage # "answered" THEN [c EXCEPT !.doomed = TRUE] ELSE c
AllDoomed(cs, f) == {Doomed(c, f) : c \in cs}

\* An older request for the file is doomed and is otherwise what it was.
LEMMA OlderAreDoomed ==
  ASSUME NEW cs \in SUBSET CallType, CallsAreFresh(cs), NEW f, NEW ds, ds = AllDoomed(cs, f)
  PROVE  /\ ds \in SUBSET CallType /\ CallsAreFresh(ds)
         /\ \A c \in cs : \E d \in ds : d.file = c.file
<1> DEFINE D(c) == Doomed(c, f)
<1>1. \A c \in CallType : /\ D(c) \in CallType /\ D(c).file = c.file /\ D(c).nth = c.nth
                          /\ D(c).picture = c.picture
  BY DEF CallType, Doomed
<1>2. ds = {D(c) : c \in cs}
  BY DEF AllDoomed
<1> HIDE DEF D
<1>3. \A d \in ds : \E c \in cs : d = D(c)
  BY <1>2
<1>4. \A d \in ds : \E c \in cs : /\ d \in CallType /\ d.file = c.file /\ d.nth = c.nth
                                  /\ d.picture = c.picture
  BY <1>1, <1>3
<1>5. CallsAreFresh(ds)
  BY <1>4 DEF CallsAreFresh
<1>6. \A c \in cs : D(c) \in ds /\ D(c).file = c.file
  BY <1>1, <1>2
<1> QED BY <1>4, <1>5, <1>6

\* What the store's two lists, its calls and the cache keep while the queue is worked.
StoreOK(s) ==
  /\ s \in Stores /\ AnswersCome(s.calls, s.inFlight)
  /\ CacheIsTrue(s.cache) /\ CallsAreFresh(s.calls)

Known(s, f) == s.thumbs[f] # 0 \/ f \in s.unreadable
Called(s, f) == \E c \in s.calls : c.file = f

\* t comes of s by sending.
Sends(s, t) ==
  /\ StoreOK(t) /\ t.thumbs = s.thumbs /\ t.unreadable = s.unreadable
  /\ Len(t.cache) = Len(s.cache)
  /\ \A f \in Files : Called(s, f) => Called(t, f)

LEMMA SentStore ==
  ASSUME LibraryTypes, ListedBefore, NEW f \in Files, NEW s, s \in Stores,
         CacheIsTrue(s.cache), CallsAreFresh(s.calls), NEW t, t = Sent(s, f)
  PROVE  /\ t \in Stores /\ t.inFlight = s.inFlight /\ t.queue = s.queue
         /\ t.thumbs = s.thumbs /\ t.unreadable = s.unreadable
         /\ Len(t.cache) = Len(s.cache) /\ CacheIsTrue(t.cache) /\ CallsAreFresh(t.calls)
         /\ Called(t, f) /\ \A g \in Files : Called(s, g) => Called(t, g)
<1> DEFINE call == [file |-> f, nth |-> folder.nth, stage |-> "answered",
                    picture |-> 0, doomed |-> FALSE]
           hits == Hits(s.cache, f)
<1>1. /\ folder.nth \in 0 .. MaxOpens /\ folder.since[f] \in Versions
      /\ onDisk[f].version \in Versions /\ folder.since[f] <= onDisk[f].version
      /\ 0 \in Versions
  BY LibraryAssumption DEF LibraryTypes, ListedBefore, Versions
<1>2. /\ call \in CallType /\ call.nth = folder.nth /\ call.picture = 0 /\ call.file = f
  BY <1>1 DEF CallType, Stages
<1>n. folder.nth \in Nat
  BY <1>1
<1>3. /\ s.calls \in SUBSET CallType /\ s.cache \in Seq(CacheEntries)
  BY DEF Stores
<1> HIDE DEF call
<1>4. CASE ~onDisk[f].here
  <2>1. FreshCall(call)
    BY <1>2 DEF FreshCall
  <2>2. t = [s EXCEPT !.calls = s.calls \cup {call}]
    BY <1>4 DEF Sent, call, Stores
  <2>3. s.calls \cup {call} \in SUBSET CallType /\ CallsAreFresh(s.calls \cup {call})
    BY <2>1, <1>3, <1>n, CallAdded
  <2> DEFINE cs == s.calls \cup {call}
  <2>4. cs \in SUBSET CallType /\ CallsAreFresh(cs) /\ t = [s EXCEPT !.calls = cs] /\ call \in cs /\ s.calls \subseteq cs
    BY <2>2, <2>3
  <2> HIDE DEF cs
  <2>5. /\ t \in Stores /\ t.inFlight = s.inFlight /\ t.queue = s.queue
        /\ t.thumbs = s.thumbs /\ t.unreadable = s.unreadable /\ t.cache = s.cache /\ t.calls = cs
    BY <2>4 DEF Stores
  <2> QED BY <2>4, <2>5, <1>2 DEF Called
<1>5. CASE onDisk[f].here /\ hits # <<>>
  <2> DEFINE answer == [call EXCEPT !.picture = hits[1].picture]
             cc == Touched(s.cache, f)
  <2>1. /\ hits[1] \in CacheEntries /\ hits[1] \in ToSet(s.cache)
        /\ hits[1].file = f /\ hits[1].stamp = onDisk[f].version
    BY <1>3, <1>5, HitIsOfTheFile
  <2>2. hits[1].picture \in Versions /\ (hits[1].picture = onDisk[f].version \/ f \in raced)
    BY <2>1 DEF CacheIsTrue, CacheEntries
  <2>3. /\ cc \in Seq(CacheEntries) /\ Len(cc) = Len(s.cache) /\ ToSet(cc) \subseteq ToSet(s.cache)
    BY <1>3, TouchedKeeps
  <2>4. answer \in CallType /\ answer.nth = folder.nth /\ answer.picture = hits[1].picture /\ answer.file = f
    <3> HIDE DEF hits
    <3> QED BY <2>2, <1>2 DEF CallType
  <2>5. t = [s EXCEPT !.calls = s.calls \cup {answer}, !.cache = cc]
    BY <1>5 DEF Sent, call, Stores
  <2> HIDE DEF answer, cc, hits
  <2>6. FreshCall(answer)
    BY <2>2, <2>4, <1>1 DEF FreshCall, Versions
  <2>7. s.calls \cup {answer} \in SUBSET CallType /\ CallsAreFresh(s.calls \cup {answer})
    BY <2>6, <1>3, <1>n, CallAdded
  <2> DEFINE cs == s.calls \cup {answer}
  <2>8. cs \in SUBSET CallType /\ CallsAreFresh(cs) /\ t = [s EXCEPT !.calls = cs, !.cache = cc]
        /\ answer \in cs /\ s.calls \subseteq cs
    BY <2>5, <2>7
  <2> HIDE DEF cs
  <2>9. /\ t \in Stores /\ t.inFlight = s.inFlight /\ t.queue = s.queue
        /\ t.thumbs = s.thumbs /\ t.unreadable = s.unreadable /\ t.cache = cc /\ t.calls = cs
    BY <2>3, <2>8 DEF Stores
  <2>10. CacheIsTrue(cc)
    BY <2>3 DEF CacheIsTrue
  <2> QED BY <2>3, <2>4, <2>8, <2>9, <2>10 DEF Called
<1>6. CASE onDisk[f].here /\ hits = <<>>
  <2> DEFINE answer == [call EXCEPT !.stage = "waiting"]
             ds == {IF c.file = f /\ c.stage # "answered" THEN [c EXCEPT !.doomed = TRUE] ELSE c
                      : c \in s.calls}
  <2>1. answer \in CallType /\ answer.nth = folder.nth /\ answer.picture = 0 /\ answer.file = f
    BY <1>2 DEF CallType, Stages
  <2>2. t = [s EXCEPT !.calls = ds \cup {answer}]
    BY <1>6 DEF Sent, call, Stores
  <2>d. ds = AllDoomed(s.calls, f)
    BY DEF Doomed, AllDoomed
  <2> HIDE DEF answer, ds, hits
  <2>3. ds \in SUBSET CallType /\ CallsAreFresh(ds) /\ \A c \in s.calls : \E d \in ds : d.file = c.file
    BY <1>3, <2>d, OlderAreDoomed
  <2>4. FreshCall(answer)
    BY <2>1 DEF FreshCall
  <2>5. ds \cup {answer} \in SUBSET CallType /\ CallsAreFresh(ds \cup {answer})
    BY <2>3, <2>4, <1>n, CallAdded
  <2> DEFINE cs == ds \cup {answer}
  <2>6. cs \in SUBSET CallType /\ CallsAreFresh(cs) /\ t = [s EXCEPT !.calls = cs] /\ answer \in cs /\ ds \subseteq cs
    BY <2>2, <2>5
  <2> HIDE DEF cs
  <2>7. /\ t \in Stores /\ t.inFlight = s.inFlight /\ t.queue = s.queue
        /\ t.thumbs = s.thumbs /\ t.unreadable = s.unreadable /\ t.cache = s.cache /\ t.calls = cs
    BY <2>6 DEF Stores
  <2>8. \A g \in Files : Called(s, g) => Called(t, g)
    BY <2>3, <2>6, <2>7 DEF Called
  <2> QED BY <2>1, <2>6, <2>7, <2>8 DEF Called
<1> QED BY <1>4, <1>5, <1>6

\* One turn, while a place is free: the head is passed over if it is known, and sent
\* otherwise.
LEMMA TurnSends ==
  ASSUME LibraryTypes, ListedBefore, NEW f \in Files, NEW s, StoreOK(s), s.queue # <<>>,
         ~ (Cardinality(s.inFlight) >= Limit), NEW t, t = Turned(s, f)
  PROVE  Sends(s, t) /\ t.queue = Tail(s.queue) /\ (Known(t, f) \/ Called(t, f))
<1>1. /\ s \in Stores /\ AnswersCome(s.calls, s.inFlight)
      /\ CacheIsTrue(s.cache) /\ CallsAreFresh(s.calls)
  BY DEF StoreOK
<1> DEFINE rest == Tail(s.queue)
<1>2. rest \in Seq(Files)
  <2>1. s.queue \in Seq(Files)
    BY <1>1 DEF Stores
  <2> QED BY <2>1
<1>3. CASE Known(s, f)
  <2>1. t = [s EXCEPT !.queue = rest]
    BY <1>1, <1>3 DEF Turned, Known, Stores
  <2> HIDE DEF rest
  <2>2. /\ t \in Stores /\ t.queue = rest /\ t.inFlight = s.inFlight /\ t.calls = s.calls
        /\ t.cache = s.cache /\ t.thumbs = s.thumbs /\ t.unreadable = s.unreadable
    BY <2>1, <1>1, <1>2 DEF Stores
  <2>3. StoreOK(t)
    BY <2>2, <1>1 DEF StoreOK
  <2>4. Known(t, f)
    BY <2>2, <1>3 DEF Known
  <2> QED BY <2>2, <2>3, <2>4 DEF Sends, Called, rest
<1>4. CASE ~Known(s, f)
  <2> DEFINE flying == s.inFlight \cup {f}
             u == [s EXCEPT !.queue = rest, !.inFlight = flying]
  <2>1. t = Sent(u, f)
    <3>1. u = [s EXCEPT !.queue = Tail(@), !.inFlight = @ \cup {f}]
      BY <1>1 DEF Stores
    <3> HIDE DEF u
    <3> QED BY <3>1, <1>4 DEF Turned, Known
  <2>2. flying \in SUBSET Files
    BY <1>1 DEF Stores
  <2>f. flying = s.inFlight \cup {f}
    OBVIOUS
  <2> HIDE DEF rest, flying
  <2>3. /\ u \in Stores /\ u.queue = rest /\ u.inFlight = flying /\ u.calls = s.calls
        /\ u.cache = s.cache /\ u.thumbs = s.thumbs /\ u.unreadable = s.unreadable
    BY <2>2, <1>1, <1>2 DEF Stores
  <2> HIDE DEF u
  <2>4. CacheIsTrue(u.cache) /\ CallsAreFresh(u.calls)
    BY <2>3, <1>1
  <2>5. /\ t \in Stores /\ t.inFlight = u.inFlight /\ t.queue = u.queue
        /\ t.thumbs = u.thumbs /\ t.unreadable = u.unreadable
        /\ Len(t.cache) = Len(u.cache) /\ CacheIsTrue(t.cache) /\ CallsAreFresh(t.calls)
        /\ Called(t, f) /\ \A g \in Files : Called(u, g) => Called(t, g)
    BY <2>1, <2>3, <2>4, SentStore
  <2>6. \A g \in Files : Called(s, g) => Called(t, g)
    BY <2>3, <2>5 DEF Called
  <2>7. AnswersCome(t.calls, t.inFlight)
    <3> SUFFICES ASSUME NEW g \in t.inFlight PROVE \E c \in t.calls : c.file = g
      BY DEF AnswersCome
    <3>1. g \in s.inFlight \/ g = f
      BY <2>3, <2>5, <2>f
    <3>2. g \in Files
      BY <2>2, <2>3, <2>5
    <3>3. g \in s.inFlight => Called(s, g)
      BY <1>1 DEF AnswersCome, Called
    <3>4. Called(t, g)
      BY <3>1, <3>2, <3>3, <2>5, <2>6
    <3> QED BY <3>4 DEF Called
  <2>8. Sends(s, t)
    BY <2>3, <2>5, <2>6, <2>7 DEF Sends, StoreOK
  <2> QED BY <2>3, <2>5, <2>8 DEF rest
<1> QED BY <1>3, <1>4

LEMMA TurnFull ==
  ASSUME NEW f, NEW s, Cardinality(s.inFlight) >= Limit PROVE Turned(s, f) = s
BY DEF Turned

-----------------------------------------------------------------------------
(* The loop over the queue, turn after turn.                               *)

IsPumping(p, start, m) ==
  p = [n \in 0 .. m |-> IF n = 0 THEN start ELSE Turned(p[n - 1], start.queue[n])]

Pumping(start) == CHOOSE p : IsPumping(p, start, Len(start.queue))

LEMMA PumpedIsPumping ==
  ASSUME NEW start PROVE Pumped(start) = Pumping(start)[Len(start.queue)]
BY Zenon DEF Pumped, Pumping, IsPumping

LEMMA PumpingExists ==
  ASSUME NEW start, NEW m \in Nat
  PROVE  \E p : IsPumping(p, start, m)
<1> DEFINE T == {n \in Nat : ~ \E p : IsPumping(p, start, n)}
<1> SUFFICES ASSUME T # {} PROVE FALSE
  OBVIOUS
<1>1. PICK x \in T : \A y \in T : x <= y
  BY HasLeast
<1>2. x # 0
  <2>1. IsPumping([n \in 0 .. 0 |-> start], start, 0)
    BY DEF IsPumping
  <2> QED BY <2>1
<1>3. PICK p : IsPumping(p, start, x - 1)
  <2>1. x - 1 \in Nat /\ x - 1 \notin T
    BY <1>1, <1>2
  <2> QED BY <2>1
<1> DEFINE turn(n) == IF n = 0 THEN start ELSE Turned(p[n - 1], start.queue[n])
           g == [n \in 0 .. x |-> turn(n)]
<1>4. \A n \in 0 .. (x - 1) : p[n] = turn(n)
  BY <1>3, Zenon DEF IsPumping
<1>5. \A n \in 0 .. x : n # 0 => g[n - 1] = p[n - 1]
  <2> SUFFICES ASSUME NEW n \in 0 .. x, n # 0 PROVE g[n - 1] = p[n - 1]
    OBVIOUS
  <2>1. n - 1 \in 0 .. x /\ n - 1 \in 0 .. (x - 1)
    BY <1>2
  <2> HIDE DEF turn
  <2> QED BY <2>1, <1>4
<1>6. \A n \in 0 .. x :
        turn(n) = (IF n = 0 THEN start ELSE Turned(g[n - 1], start.queue[n]))
  BY <1>5, Zenon
<1>7. IsPumping(g, start, x)
  <2> HIDE DEF turn
  <2>1. g = [n \in 0 .. x |-> IF n = 0 THEN start ELSE Turned(g[n - 1], start.queue[n])]
    BY <1>6, Zenon
  <2> HIDE DEF g
  <2> QED BY <2>1, Zenon DEF IsPumping
<1> QED BY <1>7, <1>1

LEMMA PumpedByTurns ==
  ASSUME NEW start, Len(start.queue) \in Nat
  PROVE  \E p : /\ p[0] = start /\ p[Len(start.queue)] = Pumped(start)
                /\ \A n \in 1 .. Len(start.queue) : p[n] = Turned(p[n - 1], start.queue[n])
<1> DEFINE m == Len(start.queue)  p == Pumping(start)
<1>1. IsPumping(p, start, m)
  BY PumpingExists, Zenon DEF Pumping
<1>2. Pumped(start) = p[m]
  BY PumpedIsPumping
<1>3. m \in Nat
  OBVIOUS
<1> HIDE DEF p, m
<1>4. p[0] = start
  <2>1. 0 \in 0 .. m
    BY <1>3
  <2> QED BY <1>1, <2>1, Zenon DEF IsPumping
<1>5. ASSUME NEW n \in 1 .. m PROVE p[n] = Turned(p[n - 1], start.queue[n])
  <2>1. n \in 0 .. m /\ n # 0
    BY <1>3
  <2> QED BY <1>1, <2>1, Zenon DEF IsPumping
<1> QED BY <1>2, <1>4, <1>5 DEF m

\* After n turns: the queue is worked that far, or the places are full.
Dealt(t, f) == Known(t, f) \/ Called(t, f)
Worked(start, t, n) ==
  /\ Sends(start, t)
  /\ \/ /\ Len(t.queue) = Len(start.queue) - n
        /\ \A i \in 1 .. Len(t.queue) : t.queue[i] = start.queue[n + i]
        /\ \A i \in 1 .. n : Dealt(t, start.queue[i])
     \/ /\ Cardinality(t.inFlight) >= Limit
        /\ \A i \in 1 .. Len(start.queue) : Dealt(t, start.queue[i]) \/ Contains(t.queue, start.queue[i])

LEMMA SendsOn ==
  ASSUME NEW s, NEW t, NEW u, Sends(s, t), Sends(t, u)
  PROVE  Sends(s, u) /\ \A f \in Files : Dealt(t, f) => Dealt(u, f)
BY DEF Sends, Dealt, Known

LEMMA WorkedOn ==
  ASSUME LibraryTypes, ListedBefore, NEW start, StoreOK(start), NEW n \in Nat,
         n + 1 <= Len(start.queue), NEW t, Worked(start, t, n),
         NEW u, u = Turned(t, start.queue[n + 1])
  PROVE  Worked(start, u, n + 1)
<1> DEFINE q == start.queue  f == start.queue[n + 1]
<1>1. q \in Seq(Files) /\ Len(q) \in Nat /\ f \in Files /\ \A i \in 1 .. Len(q) : q[i] \in Files
  <2>1. start.queue \in Seq(Files)
    BY DEF StoreOK, Stores
  <2>2. Len(start.queue) \in Nat /\ n + 1 \in 1 .. Len(start.queue)
    BY <2>1
  <2> QED BY <2>1, <2>2
<1>2. StoreOK(t) /\ t.queue \in Seq(Files) /\ Len(t.queue) \in Nat
  <2>1. StoreOK(t)
    BY DEF Worked, Sends
  <2>2. t.queue \in Seq(Files)
    BY <2>1 DEF StoreOK, Stores
  <2> QED BY <2>1, <2>2
<1>3. Sends(start, t)
  BY DEF Worked
<1>4. CASE Cardinality(t.inFlight) >= Limit
  <2>1. u = t
    BY <1>4, TurnFull
  <2>2. \A i \in 1 .. Len(q) : Dealt(t, q[i]) \/ Contains(t.queue, q[i])
    <3>1. CASE /\ Len(t.queue) = Len(q) - n
               /\ \A i \in 1 .. Len(t.queue) : t.queue[i] = q[n + i]
               /\ \A i \in 1 .. n : Dealt(t, q[i])
      <4> SUFFICES ASSUME NEW i \in 1 .. Len(q), ~ (i \in 1 .. n) PROVE Contains(t.queue, q[i])
        BY <3>1
      <4>1. i - n \in 1 .. Len(t.queue) /\ n + (i - n) = i
        BY <3>1, <1>1, <1>2
      <4>2. t.queue[i - n] = q[n + (i - n)]
        BY <4>1, <3>1
      <4> QED BY <4>1, <4>2 DEF Contains
    <3>2. CASE \A i \in 1 .. Len(q) : Dealt(t, q[i]) \/ Contains(t.queue, q[i])
      BY <3>2
    <3> QED BY <3>1, <3>2 DEF Worked
  <2> QED BY <2>1, <2>2, <1>3, <1>4 DEF Worked
<1>5. CASE ~ (Cardinality(t.inFlight) >= Limit)
  <2>1. /\ Len(t.queue) = Len(q) - n
        /\ \A i \in 1 .. Len(t.queue) : t.queue[i] = q[n + i]
        /\ \A i \in 1 .. n : Dealt(t, q[i])
    BY <1>5 DEF Worked
  <2>2. t.queue # <<>>
    BY <2>1, <1>1, <1>2
  <2> DEFINE old == t.queue  new == u.queue
  <2>3. Sends(t, u) /\ u.queue = Tail(t.queue) /\ (Known(u, f) \/ Called(u, f))
    BY <1>1, <1>2, <1>5, <2>2, TurnSends
  <2>4. Sends(start, u) /\ \A g \in Files : Dealt(t, g) => Dealt(u, g)
    BY <1>3, <2>3, SendsOn
  <2>5. Len(new) = Len(old) - 1 /\ \A i \in 1 .. Len(new) : new[i] = old[i + 1]
    BY <1>2, <2>2, <2>3
  <2>6. Len(new) = Len(q) - (n + 1)
    BY <2>1, <2>5, <1>1
  <2>7. ASSUME NEW i \in 1 .. Len(new) PROVE new[i] = q[(n + 1) + i]
    <3>1. i + 1 \in 1 .. Len(old) /\ n + (i + 1) = (n + 1) + i
      BY <2>5, <2>6, <2>1, <1>1
    <3> QED BY <3>1, <2>1, <2>5
  <2>8. ASSUME NEW i \in 1 .. (n + 1) PROVE Dealt(u, q[i])
    <3>1. CASE i \in 1 .. n
      <4>1. i \in 1 .. Len(q)
        BY <1>1
      <4> QED BY <4>1, <3>1, <2>1, <2>4, <1>1
    <3>2. CASE i = n + 1
      BY <3>2, <2>3 DEF Dealt
    <3> QED BY <3>1, <3>2
  <2> QED BY <2>4, <2>6, <2>7, <2>8 DEF Worked
<1> QED BY <1>4, <1>5

\* The whole loop: it ends with an empty queue or with full places, and forgets none.
LEMMA PumpKeeps ==
  ASSUME LibraryTypes, ListedBefore, NEW start, StoreOK(start), NEW t, t = Pumped(start)
  PROVE  /\ Sends(start, t)
         /\ t.queue # <<>> => Cardinality(t.inFlight) >= Limit
         /\ \A i \in 1 .. Len(start.queue) :
              Dealt(t, start.queue[i]) \/ Contains(t.queue, start.queue[i])
<1> DEFINE m == Len(start.queue)
<1>1. start.queue \in Seq(Files) /\ m \in Nat
  <2>1. start.queue \in Seq(Files)
    BY DEF StoreOK, Stores
  <2> QED BY <2>1
<1>2. PICK p : /\ p[0] = start /\ p[m] = Pumped(start)
               /\ \A n \in 1 .. m : p[n] = Turned(p[n - 1], start.queue[n])
  BY <1>1, PumpedByTurns
<1> HIDE DEF m
<1> DEFINE G == {n \in 0 .. m : Worked(start, p[n], n)}
<1>3. 0 \in G
  <2>1. Sends(start, start)
    BY DEF Sends
  <2>2. Worked(start, start, 0)
    BY <1>1, <2>1 DEF Worked, m
  <2> QED BY <1>1, <1>2, <2>2
<1>4. ASSUME NEW n \in 1 .. m, n - 1 \in G PROVE n \in G
  <2> DEFINE k == n - 1
  <2>1. k \in Nat /\ k + 1 = n /\ k + 1 <= Len(start.queue) /\ Worked(start, p[k], k)
        /\ n \in 0 .. m /\ p[n] = Turned(p[k], start.queue[k + 1])
    BY <1>1, <1>2, <1>4 DEF m
  <2> HIDE DEF k
  <2>2. Worked(start, p[n], k + 1)
    BY <2>1, WorkedOn
  <2> QED BY <2>1, <2>2
<1>5. m \in G
  <2> HIDE DEF G
  <2>1. G \in SUBSET (0 .. m)
    BY DEF G
  <2> QED BY <1>1, <1>3, <1>4, <2>1, EveryPrefix
<1>6. Worked(start, t, m)
  BY <1>2, <1>5
<1>7. t.queue \in Seq(Files)
  BY <1>6 DEF Worked, Sends, StoreOK, Stores
<1>8. CASE /\ Len(t.queue) = Len(start.queue) - m
           /\ \A i \in 1 .. m : Dealt(t, start.queue[i])
  <2>1. t.queue = <<>>
    BY <1>1, <1>7, <1>8 DEF m
  <2> QED BY <2>1, <1>6, <1>8 DEF Worked, m
<1>9. CASE /\ Cardinality(t.inFlight) >= Limit
           /\ \A i \in 1 .. Len(start.queue) : Dealt(t, start.queue[i]) \/ Contains(t.queue, start.queue[i])
  BY <1>6, <1>9 DEF Worked
<1> QED BY <1>6, <1>8, <1>9 DEF Worked

LEMMA StoreIsOK ==
  ASSUME LibraryInv
  PROVE  /\ StoreOK(Store) /\ Store.inFlight = inFlight /\ Store.queue = queue
         /\ Store.calls = calls /\ Store.cache = cache /\ Store.thumbs = thumbs
         /\ Store.unreadable = unreadable
BY DEF LibraryInv, LibraryTypes, StoreOK, Store, Stores

LEMMA PumpStep ==
  ASSUME LibraryTypes, ListedBefore, NEW s, StoreOK(s), Pump(s)
  PROVE  /\ inFlight' \in SUBSET Files /\ queue' \in Seq(Files) /\ calls' \in SUBSET CallType
         /\ cache' \in Seq(CacheEntries) /\ Len(cache') = Len(s.cache)
         /\ thumbs' = s.thumbs /\ unreadable' = s.unreadable
         /\ AnswersCome(calls', inFlight') /\ CacheIsTrue(cache') /\ CallsAreFresh(calls')
         /\ queue' # <<>> => Cardinality(inFlight') >= Limit
         /\ \A f \in Files : (\E c \in s.calls : c.file = f) => \E c \in calls' : c.file = f
         /\ \A i \in 1 .. Len(s.queue) :
              \/ thumbs'[s.queue[i]] # 0 \/ s.queue[i] \in unreadable'
              \/ \E c \in calls' : c.file = s.queue[i]
              \/ Contains(queue', s.queue[i])
<1> DEFINE t == Pumped(s)
<1>1. /\ inFlight' = t.inFlight /\ queue' = t.queue /\ calls' = t.calls /\ cache' = t.cache
      /\ thumbs' = t.thumbs /\ unreadable' = t.unreadable
  BY DEF Pump
<1>2. /\ Sends(s, t)
      /\ t.queue # <<>> => Cardinality(t.inFlight) >= Limit
      /\ \A i \in 1 .. Len(s.queue) : Dealt(t, s.queue[i]) \/ Contains(t.queue, s.queue[i])
  BY PumpKeeps
<1> HIDE DEF t
<1>3. /\ t.inFlight \in SUBSET Files /\ t.queue \in Seq(Files) /\ t.calls \in SUBSET CallType
      /\ t.cache \in Seq(CacheEntries) /\ Len(t.cache) = Len(s.cache)
      /\ t.thumbs = s.thumbs /\ t.unreadable = s.unreadable
      /\ AnswersCome(t.calls, t.inFlight) /\ CacheIsTrue(t.cache) /\ CallsAreFresh(t.calls)
  BY <1>2 DEF Sends, StoreOK, Stores
<1>4. \A f \in Files : (\E c \in s.calls : c.file = f) => \E c \in calls' : c.file = f
  BY <1>1, <1>2 DEF Sends, Called
<1>5. ASSUME NEW i \in 1 .. Len(s.queue)
      PROVE  \/ thumbs'[s.queue[i]] # 0 \/ s.queue[i] \in unreadable'
             \/ \E c \in calls' : c.file = s.queue[i]
             \/ Contains(queue', s.queue[i])
  BY <1>1, <1>2 DEF Dealt, Known, Called
<1> QED BY <1>1, <1>2, <1>3, <1>4, <1>5

\* A tile that is not forgotten.
Minded(f) == Settled(f) \/ f \in watching \/ Contains(queue, f) \/ Waiting(f)

\* What a pump leaves to show.
LEMMA FoldersUnmoved ==
  ASSUME LibraryInv, UNCHANGED <<onDisk, marked, folder, replies, adrift, spent>>
  PROVE  WithinBounds' /\ ListedInPlace' /\ StarsAgree' /\ ListedBefore'
BY DEF LibraryInv, WithinBounds, ListedInPlace, StarsAgree, ListedBefore

LEMMA RacedGrows ==
  ASSUME raced \subseteq raced', UNCHANGED folder
  PROVE  /\ CacheIsTrue(cache') => CacheIsTrue(cache)'
         /\ CallsAreFresh(calls') => CallsAreFresh(calls)'
BY DEF CacheIsTrue, CallsAreFresh

LEMMA AskKeeps ==
  ASSUME LibraryInv, NEW f \in Files, Ask(f) PROVE LibraryInv'
<1>1. /\ f \in watching /\ watching' = watching \ {f}
      /\ UNCHANGED <<onDisk, written, marked, folder, replies, adrift, raced, repicked, spent>>
  BY DEF Ask
<1>2. WithinBounds' /\ ListedInPlace' /\ StarsAgree' /\ ListedBefore'
  BY <1>1, FoldersUnmoved
<1>t. LibraryTypes /\ ListedBefore /\ NoTileForgotten
  BY DEF LibraryInv
<1>3. CASE f \in inFlight \/ Contains(queue, f)
  <2>1. UNCHANGED <<inFlight, queue, calls, cache, thumbs, unreadable>>
    BY <1>3 DEF Ask
  <2>2. LibraryTypes'
    BY <1>1, <2>1 DEF LibraryInv, LibraryTypes
  <2>3. f \in inFlight => Waiting(f)
    BY DEF LibraryInv, AnswersCome, Waiting
  <2>4. \A g \in Files : Minded(g) => Minded(g)'
    BY <1>1, <1>3, <2>1, <2>3 DEF Minded, Settled, Waiting
  <2>5. NoTileForgotten'
    BY <1>1, <1>t, <2>4 DEF NoTileForgotten, Minded, LibraryTypes
  <2>6. /\ AnswersCome(calls, inFlight)' /\ (queue # <<>> => Cardinality(inFlight) >= Limit)'
        /\ CacheIsTrue(cache)' /\ CallsAreFresh(calls)' /\ TilesFresh' /\ CacheCounted'
    BY <1>1, <2>1 DEF LibraryInv, AnswersCome, CacheIsTrue, CallsAreFresh, TilesFresh, CacheCounted
  <2> QED BY <1>2, <2>2, <2>5, <2>6 DEF LibraryInv
<1>4. CASE ~ (f \in inFlight \/ Contains(queue, f))
  <2> DEFINE longer == Append(queue, f)  s == [Store EXCEPT !.queue = longer]
  <2>1. Pump(s)
    <3>1. s = [Store EXCEPT !.queue = Append(@, f)]
      BY StoreIsOK
    <3> HIDE DEF s
    <3> QED BY <3>1, <1>4 DEF Ask
  <2>2. /\ longer \in Seq(Files) /\ Len(longer) = Len(queue) + 1 /\ Len(queue) \in Nat
        /\ longer[Len(queue) + 1] = f
        /\ \A i \in 1 .. Len(queue) : longer[i] = queue[i]
    BY <1>t DEF LibraryTypes
  <2> HIDE DEF longer
  <2>3. /\ s.queue = longer /\ s.calls = calls /\ s.cache = cache /\ s.thumbs = thumbs
        /\ s.unreadable = unreadable /\ s.inFlight = inFlight /\ StoreOK(s)
    BY <2>2, StoreIsOK DEF StoreOK, Stores
  <2> HIDE DEF s
  <2>4. /\ inFlight' \in SUBSET Files /\ queue' \in Seq(Files) /\ calls' \in SUBSET CallType
        /\ cache' \in Seq(CacheEntries) /\ Len(cache') = Len(s.cache)
        /\ thumbs' = s.thumbs /\ unreadable' = s.unreadable
        /\ AnswersCome(calls', inFlight') /\ CacheIsTrue(cache') /\ CallsAreFresh(calls')
        /\ queue' # <<>> => Cardinality(inFlight') >= Limit
        /\ \A g \in Files : (\E c \in s.calls : c.file = g) => \E c \in calls' : c.file = g
        /\ \A i \in 1 .. Len(s.queue) :
             \/ thumbs'[s.queue[i]] # 0 \/ s.queue[i] \in unreadable'
             \/ \E c \in calls' : c.file = s.queue[i]
             \/ Contains(queue', s.queue[i])
    BY <1>t, <2>1, <2>3, PumpStep
  <2>5. LibraryTypes'
    BY <1>1, <1>t, <2>3, <2>4 DEF LibraryTypes
  <2>6. ASSUME NEW g \in Files, \E i \in 1 .. Len(longer) : longer[i] = g PROVE Minded(g)'
    BY <2>3, <2>4, <2>6 DEF Minded, Settled, Waiting
  <2>7. \A g \in Files : Minded(g) => Minded(g)'
    <3> SUFFICES ASSUME NEW g \in Files, Minded(g) PROVE Minded(g)'
      OBVIOUS
    <3>1. CASE Settled(g)
      BY <3>1, <2>3, <2>4 DEF Minded, Settled
    <3>2. CASE g \in watching
      <4>1. CASE g = f
        <5>1. Len(queue) + 1 \in 1 .. Len(longer)
          BY <2>2
        <5> QED BY <4>1, <5>1, <2>2, <2>6
      <4>2. CASE g # f
        BY <4>2, <3>2, <1>1 DEF Minded
      <4> QED BY <4>1, <4>2
    <3>3. CASE Contains(queue, g)
      <4>1. PICK i \in 1 .. Len(queue) : queue[i] = g
        BY <3>3 DEF Contains
      <4>2. i \in 1 .. Len(longer) /\ longer[i] = g
        BY <4>1, <2>2
      <4> QED BY <4>2, <2>6
    <3>4. CASE Waiting(g)
      BY <3>4, <2>3, <2>4 DEF Minded, Waiting
    <3> QED BY <3>1, <3>2, <3>3, <3>4 DEF Minded
  <2>8. NoTileForgotten'
    BY <1>1, <1>t, <2>7 DEF NoTileForgotten, Minded, LibraryTypes
  <2>9. CacheIsTrue(cache)' /\ CallsAreFresh(calls)'
    BY <1>1, <2>4, RacedGrows
  <2>10. TilesFresh' /\ CacheCounted'
    BY <1>1, <2>3, <2>4 DEF LibraryInv, TilesFresh, CacheCounted
  <2>11. AnswersCome(calls, inFlight)' /\ (queue # <<>> => Cardinality(inFlight) >= Limit)'
    BY <2>4 DEF AnswersCome
  <2> QED BY <1>2, <2>5, <2>8, <2>9, <2>10, <2>11 DEF LibraryInv
<1> QED BY <1>3, <1>4

\* The store once an answer is taken from it.
AnswerRemoved(c) == [Store EXCEPT !.calls = @ \ {c}, !.inFlight = @ \ {c.file},
                              !.thumbs[c.file] = IF c.picture # 0 THEN c.picture ELSE @,
                              !.unreadable = IF c.picture = 0 THEN @ \cup {c.file} ELSE @]

LEMMA AnswerTaken ==
  ASSUME LibraryInv, NEW c \in calls, NEW s, s = AnswerRemoved(c)
  PROVE  /\ StoreOK(s) /\ s.calls = calls \ {c} /\ s.inFlight = inFlight \ {c.file}
         /\ s.queue = queue /\ s.cache = cache
         /\ s.thumbs = [thumbs EXCEPT ![c.file] = IF c.picture # 0 THEN c.picture ELSE thumbs[c.file]]
         /\ s.unreadable = IF c.picture = 0 THEN unreadable \cup {c.file} ELSE unreadable
<1> DEFINE cs == calls \ {c}  fl == inFlight \ {c.file}
           th == [thumbs EXCEPT ![c.file] = IF c.picture # 0 THEN c.picture ELSE thumbs[c.file]]
           un == IF c.picture = 0 THEN unreadable \cup {c.file} ELSE unreadable
<1>1. Store = [inFlight |-> inFlight, queue |-> queue, calls |-> calls, cache |-> cache,
               thumbs |-> thumbs, unreadable |-> unreadable]
  BY DEF Store
<1>2. s = [inFlight |-> fl, queue |-> queue, calls |-> cs, cache |-> cache,
           thumbs |-> th, unreadable |-> un]
  BY <1>1 DEF AnswerRemoved
<1>3. c \in CallType /\ c.file \in Files /\ c.picture \in Versions
  BY DEF LibraryInv, LibraryTypes, CallType
<1>4. cs \in SUBSET CallType /\ fl \in SUBSET Files /\ th \in [Files -> Versions] /\ un \in SUBSET Files
  BY <1>3 DEF LibraryInv, LibraryTypes
<1>5. AnswersCome(cs, fl)
  BY DEF LibraryInv, AnswersCome
<1>6. CacheIsTrue(cache) /\ CallsAreFresh(cs)
  BY DEF LibraryInv, CallsAreFresh
<1> HIDE DEF cs, fl, th, un
<1>7. s \in Stores
  BY <1>2, <1>4 DEF LibraryInv, LibraryTypes, Stores
<1>8. StoreOK(s)
  BY <1>2, <1>5, <1>6, <1>7 DEF StoreOK
<1> QED BY <1>2, <1>8 DEF cs, fl, th, un

LEMMA ArriveKeeps ==
  ASSUME LibraryInv, NEW c \in calls, Arrive(c) PROVE LibraryInv'
<1> DEFINE s == AnswerRemoved(c)
<1>1. /\ Pump(s) /\ watching' = watching \ {c.file}
      /\ raced' = IF c.nth # folder.nth THEN raced \cup {c.file} ELSE raced
      /\ UNCHANGED <<onDisk, written, marked, folder, replies, adrift, repicked, spent>>
  BY DEF Arrive, AnswerRemoved
<1>2. WithinBounds' /\ ListedInPlace' /\ StarsAgree' /\ ListedBefore'
  BY <1>1, FoldersUnmoved
<1>3. LibraryTypes /\ ListedBefore /\ NoTileForgotten /\ CallsAreFresh(calls)
  BY DEF LibraryInv
<1>4. /\ StoreOK(s) /\ s.calls = calls \ {c} /\ s.inFlight = inFlight \ {c.file}
      /\ s.queue = queue /\ s.cache = cache
      /\ s.thumbs = [thumbs EXCEPT ![c.file] = IF c.picture # 0 THEN c.picture ELSE thumbs[c.file]]
      /\ s.unreadable = IF c.picture = 0 THEN unreadable \cup {c.file} ELSE unreadable
  BY AnswerTaken
<1> HIDE DEF s
<1>5. /\ inFlight' \in SUBSET Files /\ queue' \in Seq(Files) /\ calls' \in SUBSET CallType
      /\ cache' \in Seq(CacheEntries) /\ Len(cache') = Len(s.cache)
      /\ thumbs' = s.thumbs /\ unreadable' = s.unreadable
      /\ AnswersCome(calls', inFlight') /\ CacheIsTrue(cache') /\ CallsAreFresh(calls')
      /\ queue' # <<>> => Cardinality(inFlight') >= Limit
      /\ \A g \in Files : (\E d \in s.calls : d.file = g) => \E d \in calls' : d.file = g
      /\ \A i \in 1 .. Len(s.queue) :
           \/ thumbs'[s.queue[i]] # 0 \/ s.queue[i] \in unreadable'
           \/ \E d \in calls' : d.file = s.queue[i]
           \/ Contains(queue', s.queue[i])
  BY <1>1, <1>3, <1>4, PumpStep
<1>6. c \in CallType /\ c.file \in Files /\ c.picture \in Versions
  BY <1>3 DEF LibraryTypes, CallType
<1>7. s.thumbs \in [Files -> Versions] /\ s.unreadable \in SUBSET Files
  BY <1>4 DEF StoreOK, Stores
<1>8. LibraryTypes'
  BY <1>1, <1>3, <1>5, <1>6, <1>7 DEF LibraryTypes
<1>9. /\ \A g \in Files : g # c.file => thumbs'[g] = thumbs[g]
      /\ c.picture # 0 => thumbs'[c.file] = c.picture
      /\ c.picture = 0 => thumbs'[c.file] = thumbs[c.file] /\ c.file \in unreadable'
      /\ unreadable \subseteq unreadable'
  BY <1>3, <1>4, <1>5, <1>6 DEF LibraryTypes
<1>10. \A g \in Files : Minded(g) => Minded(g)'
  <2> SUFFICES ASSUME NEW g \in Files, Minded(g) PROVE Minded(g)'
    OBVIOUS
  <2>1. CASE g = c.file
    BY <2>1, <1>9 DEF Minded, Settled
  <2>2. CASE g # c.file
    <3>1. CASE Settled(g)
      BY <3>1, <2>2, <1>9 DEF Minded, Settled
    <3>2. CASE g \in watching
      BY <3>2, <2>2, <1>1 DEF Minded
    <3>3. CASE Contains(queue, g)
      <4>1. PICK i \in 1 .. Len(queue) : queue[i] = g
        BY <3>3 DEF Contains
      <4> QED BY <4>1, <1>4, <1>5 DEF Minded, Settled, Waiting
    <3>4. CASE Waiting(g)
      <4>1. PICK d \in calls : d.file = g
        BY <3>4 DEF Waiting
      <4>2. d \in s.calls
        BY <4>1, <2>2, <1>4
      <4> QED BY <4>1, <4>2, <1>5 DEF Minded, Waiting
    <3> QED BY <3>1, <3>2, <3>3, <3>4 DEF Minded
  <2> QED BY <2>1, <2>2
<1>11. NoTileForgotten'
  BY <1>1, <1>3, <1>10 DEF NoTileForgotten, Minded, LibraryTypes
<1>12. raced \subseteq raced' /\ UNCHANGED folder
  BY <1>1
<1>13. CacheIsTrue(cache)' /\ CallsAreFresh(calls)'
  BY <1>5, <1>12, RacedGrows
<1>14. TilesFresh'
  <2> SUFFICES ASSUME NEW g \in Files, thumbs'[g] # 0
               PROVE  thumbs'[g] >= folder.since[g] \/ g \in raced'
    BY <1>1 DEF TilesFresh
  <2>1. CASE g = c.file /\ c.picture # 0
    <3>1. thumbs'[g] = c.picture
      BY <2>1, <1>9
    <3> QED BY <2>1, <3>1, <1>1, <1>3 DEF CallsAreFresh
  <2>2. CASE ~ (g = c.file /\ c.picture # 0)
    <3>1. thumbs'[g] = thumbs[g]
      BY <2>2, <1>9
    <3> QED BY <3>1, <1>12 DEF LibraryInv, TilesFresh
  <2> QED BY <2>1, <2>2
<1>15. CacheCounted'
  BY <1>1, <1>4, <1>5 DEF LibraryInv, CacheCounted
<1>16. AnswersCome(calls, inFlight)' /\ (queue # <<>> => Cardinality(inFlight) >= Limit)'
  BY <1>5 DEF AnswersCome
<1> QED BY <1>2, <1>8, <1>11, <1>13, <1>14, <1>15, <1>16 DEF LibraryInv

-----------------------------------------------------------------------------
(* The engine's turn: one call is replaced by what becomes of it.          *)

LEMMA CallReplaced ==
  ASSUME LibraryInv, NEW c \in calls, NEW d \in CallType, d.file = c.file, d.nth = c.nth,
         calls' = (calls \ {c}) \cup {d},
         d.picture = c.picture \/ d.picture = 0 \/ d.picture = onDisk[c.file].version,
         UNCHANGED <<onDisk, marked, storeVars, replies, adrift, repicked, spent>>,
         cache' \in Seq(CacheEntries), written' \in 0 .. Interval, CacheCounted', CacheIsTrue(cache)',
         raced' \in SUBSET Files, raced \subseteq raced'
  PROVE  LibraryInv'
<1>0. UNCHANGED <<folder, watching, thumbs, unreadable, inFlight, queue>>
  BY DEF storeVars
<1>1. WithinBounds' /\ ListedInPlace' /\ StarsAgree' /\ ListedBefore'
  BY <1>0, FoldersUnmoved
<1>2. LibraryTypes'
  BY <1>0 DEF LibraryInv, LibraryTypes
<1>3. \A g \in Files : (\E e \in calls : e.file = g) => \E e \in calls' : e.file = g
  <2> SUFFICES ASSUME NEW e \in calls PROVE \E x \in calls' : x.file = e.file
    OBVIOUS
  <2>1. CASE e = c
    <3>1. d \in calls' /\ d.file = e.file
      BY <2>1
    <3> QED BY <3>1
  <2>2. CASE e # c
    BY <2>2
  <2> QED BY <2>1, <2>2
<1>4. AnswersCome(calls, inFlight)'
  <2>1. inFlight \subseteq Files
    BY DEF LibraryInv, LibraryTypes
  <2> QED BY <2>1, <1>0, <1>3 DEF LibraryInv, AnswersCome
<1>5. NoTileForgotten'
  <2>1. \A g \in Files : Minded(g) => Minded(g)'
    BY <1>0, <1>3 DEF Minded, Settled, Waiting
  <2> QED BY <2>1, <1>0 DEF LibraryInv, LibraryTypes, NoTileForgotten, Minded
<1>6. CallsAreFresh(calls)'
  <2>1. c.file \in Files /\ onDisk[c.file].version >= folder.since[c.file]
    <3>1. c.file \in Files
      BY DEF LibraryInv, LibraryTypes, CallType
    <3>2. folder.since[c.file] \in Versions /\ onDisk[c.file].version \in Versions
      BY <3>1 DEF LibraryInv, LibraryTypes
    <3>3. folder.since[c.file] <= onDisk[c.file].version
      BY <3>1 DEF LibraryInv, ListedBefore
    <3> QED BY <3>1, <3>2, <3>3 DEF Versions
  <2>2. \A e \in calls : /\ e.nth <= folder.nth
                         /\ e.nth = folder.nth /\ e.picture # 0 =>
                              e.picture >= folder.since[e.file] \/ e.file \in raced
    BY DEF LibraryInv, CallsAreFresh
  <2>3. /\ d.nth <= folder.nth
        /\ d.nth = folder.nth /\ d.picture # 0 => d.picture >= folder.since[d.file] \/ d.file \in raced
    BY <2>1, <2>2
  <2>4. \A e \in calls' : e \in calls \/ e = d
    OBVIOUS
  <2> QED BY <2>2, <2>3, <2>4, <1>0 DEF CallsAreFresh
<1>7. TilesFresh'
  BY <1>0 DEF LibraryInv, TilesFresh
<1>8. (queue # <<>> => Cardinality(inFlight) >= Limit)'
  BY <1>0 DEF LibraryInv
<1> QED BY <1>1, <1>2, <1>4, <1>5, <1>6, <1>7, <1>8 DEF LibraryInv

LEMMA DecodeKeeps ==
  ASSUME LibraryInv, NEW c \in calls, Decode(c) PROVE LibraryInv'
<1>1. PICK picture \in {0, IF onDisk[c.file].here /\ c.file \notin Undecodable
                           THEN onDisk[c.file].version ELSE 0} :
        calls' = (calls \ {c}) \cup {[c EXCEPT !.stage = "decoded", !.picture = picture]}
  BY DEF Decode
<1>2. UNCHANGED <<diskVars, storeVars, replies, adrift, raced, repicked, spent>>
  BY DEF Decode
<1> DEFINE d == [c EXCEPT !.stage = "decoded", !.picture = picture]
<1>3. c \in CallType /\ c.file \in Files
  BY DEF LibraryInv, LibraryTypes, CallType
<1>4. picture \in Versions /\ (picture = 0 \/ picture = onDisk[c.file].version)
  <2>1. onDisk[c.file].version \in Versions /\ 0 \in Versions
    BY <1>3, LibraryAssumption DEF LibraryInv, LibraryTypes, Versions
  <2> QED BY <2>1, <1>1
<1>5. d \in CallType /\ d.file = c.file /\ d.nth = c.nth /\ d.picture = picture
  BY <1>3, <1>4 DEF CallType, Stages
<1>6. calls' = (calls \ {c}) \cup {d}
  BY <1>1
<1> HIDE DEF d
<1>7. /\ UNCHANGED <<onDisk, marked, storeVars, replies, adrift, repicked, spent>>
      /\ cache' = cache /\ written' = written /\ raced' = raced
  BY <1>2 DEF diskVars
<1>8. /\ cache' \in Seq(CacheEntries) /\ written' \in 0 .. Interval /\ CacheCounted'
      /\ CacheIsTrue(cache)' /\ raced' \in SUBSET Files /\ raced \subseteq raced'
  BY <1>7 DEF LibraryInv, LibraryTypes, CacheCounted, CacheIsTrue
<1> QED BY <1>4, <1>5, <1>6, <1>7, <1>8, CallReplaced

LEMMA PrunedKeeps ==
  ASSUME NEW c \in Seq(CacheEntries)
  PROVE  /\ Pruned(c) \in Seq(CacheEntries) /\ Len(Pruned(c)) <= Budget /\ Len(Pruned(c)) \in Nat
         /\ ToSet(Pruned(c)) \subseteq ToSet(c)
<1>1. Len(c) \in Nat /\ Budget \in Nat \ {0}
  BY LibraryAssumption
<1>2. CASE Len(c) <= Budget
  BY <1>1, <1>2 DEF Pruned
<1>3. CASE ~ (Len(c) <= Budget)
  <2> DEFINE from == Len(c) - Budget + 1  t == SubSeq(c, from, Len(c))
  <2>1. from \in 1 .. Len(c)
    BY <1>1, <1>3
  <2>2. /\ t \in Seq(CacheEntries) /\ Len(t) = Len(c) - from + 1
        /\ \A i \in 1 .. Len(t) : t[i] = c[from + i - 1] /\ from + i - 1 \in 1 .. Len(c)
    <3> HIDE DEF from
    <3> QED BY <1>1, <2>1
  <2>3. Len(t) = Budget
    BY <1>1, <2>2
  <2>4. Pruned(c) = t
    BY <1>3 DEF Pruned
  <2> HIDE DEF t, from
  <2>5. ToSet(t) = {t[i] : i \in 1 .. Len(t)} /\ ToSet(c) = {c[i] : i \in 1 .. Len(c)}
    BY <2>2, Members
  <2>6. ToSet(t) \subseteq ToSet(c)
    BY <2>2, <2>5
  <2> QED BY <1>1, <2>2, <2>3, <2>4, <2>6
<1> QED BY <1>2, <1>3

LEMMA WriteKeeps ==
  ASSUME LibraryInv, NEW f \in Files, NEW picture \in Versions, Write(f, picture)
  PROVE  /\ cache' \in Seq(CacheEntries) /\ written' \in 0 .. Interval /\ CacheCounted'
         /\ \A e \in ToSet(cache') :
              \/ e \in ToSet(cache)
              \/ e.file = f /\ e.stamp = onDisk[f].version /\ e.picture = picture
<1> DEFINE entry == [file |-> f, stamp |-> onDisk[f].version, picture |-> picture]
           rest == Others(cache, f)
           stored == Append(rest, entry)
<1>1. /\ cache \in Seq(CacheEntries) /\ written \in 0 .. Interval /\ onDisk[f].version \in Versions
      /\ Len(cache) <= Budget + written /\ Budget \in Nat /\ Interval \in Nat /\ Len(cache) \in Nat
  BY LibraryAssumption DEF LibraryInv, LibraryTypes, CacheCounted
<1>2. entry \in CacheEntries
  BY <1>1 DEF CacheEntries
<1>3. rest \in Seq(CacheEntries) /\ Len(rest) <= Len(cache) /\ ToSet(rest) \subseteq ToSet(cache)
  BY <1>1, KeptOfAList DEF Others
<1>4. /\ ~onDisk[f].here => cache' = cache /\ written' = written
      /\ onDisk[f].here => /\ cache' = IF written + 1 > Interval THEN Pruned(stored) ELSE stored
                           /\ written' = IF written + 1 > Interval THEN 0 ELSE written + 1
  BY DEF Write
<1>5. /\ stored \in Seq(CacheEntries) /\ Len(stored) = Len(rest) + 1 /\ Len(rest) \in Nat
      /\ ToSet(stored) = ToSet(rest) \cup {entry}
  <2> HIDE DEF rest, entry
  <2>1. <<entry>> \in Seq(CacheEntries) /\ ToSet(<<entry>>) = {entry} /\ Len(<<entry>>) = 1
    <3>1. <<entry>> \in Seq(CacheEntries) /\ DOMAIN <<entry>> = {1} /\ <<entry>>[1] = entry /\ Len(<<entry>>) = 1
      BY <1>2
    <3> QED BY <3>1 DEF ToSet
  <2>2. stored = rest \o <<entry>>
    BY <1>2, <1>3, AppendIsConcat
  <2> DEFINE one == <<entry>>
  <2>3. one \in Seq(CacheEntries) /\ ToSet(one) = {entry} /\ Len(one) = 1 /\ stored = rest \o one
    BY <2>1, <2>2
  <2> HIDE DEF one
  <2>4. /\ rest \o one \in Seq(CacheEntries) /\ Len(rest \o one) = Len(rest) + Len(one)
        /\ ToSet(rest \o one) = ToSet(rest) \cup ToSet(one)
    BY <2>3, <1>3, JoinedMembers
  <2>5. Len(rest) \in Nat
    BY <1>3
  <2> QED BY <2>3, <2>4, <2>5
<1>e. entry.file = f /\ entry.stamp = onDisk[f].version /\ entry.picture = picture
  OBVIOUS
<1> HIDE DEF entry, stored, rest
<1>6. CASE ~onDisk[f].here
  BY <1>1, <1>4, <1>6 DEF CacheCounted
<1>7. CASE onDisk[f].here /\ written + 1 > Interval
  <2>1. cache' = Pruned(stored) /\ written' = 0
    BY <1>4, <1>7
  <2>2. /\ Pruned(stored) \in Seq(CacheEntries) /\ Len(Pruned(stored)) <= Budget
        /\ ToSet(Pruned(stored)) \subseteq ToSet(stored)
    BY <1>5, PrunedKeeps
  <2> QED BY <2>1, <2>2, <1>1, <1>3, <1>5, <1>e DEF CacheCounted
<1>8. CASE onDisk[f].here /\ ~ (written + 1 > Interval)
  <2>1. cache' = stored /\ written' = written + 1
    BY <1>4, <1>8
  <2> QED BY <2>1, <1>1, <1>3, <1>5, <1>8, <1>e DEF CacheCounted
<1> QED BY <1>6, <1>7, <1>8

LEMMA ReplyKeeps ==
  ASSUME LibraryInv, NEW c \in calls, Reply(c) PROVE LibraryInv'
<1> DEFINE d == [c EXCEPT !.stage = "answered"]
<1>1. /\ calls' = (calls \ {c}) \cup {d}
      /\ IF c.picture = 0 THEN UNCHANGED <<cache, written, raced>>
         ELSE /\ Write(c.file, c.picture)
              /\ raced' = IF c.picture # onDisk[c.file].version THEN raced \cup {c.file} ELSE raced
      /\ UNCHANGED <<onDisk, marked, storeVars, replies, adrift, repicked, spent>>
  BY DEF Reply
<1>2. c \in CallType /\ c.file \in Files /\ c.picture \in Versions
  BY DEF LibraryInv, LibraryTypes, CallType
<1>3. d \in CallType /\ d.file = c.file /\ d.nth = c.nth /\ d.picture = c.picture
  BY <1>2 DEF CallType, Stages
<1> HIDE DEF d
<1>4. CASE c.picture = 0
  <2>1. cache' = cache /\ written' = written /\ raced' = raced
    BY <1>1, <1>4
  <2>2. /\ cache' \in Seq(CacheEntries) /\ written' \in 0 .. Interval /\ CacheCounted'
        /\ CacheIsTrue(cache)' /\ raced' \in SUBSET Files /\ raced \subseteq raced'
    BY <2>1 DEF LibraryInv, LibraryTypes, CacheCounted, CacheIsTrue
  <2> QED BY <1>1, <1>3, <2>2, CallReplaced
<1>5. CASE c.picture # 0
  <2>1. /\ Write(c.file, c.picture)
        /\ raced' = IF c.picture # onDisk[c.file].version THEN raced \cup {c.file} ELSE raced
    BY <1>1, <1>5
  <2>2. /\ cache' \in Seq(CacheEntries) /\ written' \in 0 .. Interval /\ CacheCounted'
        /\ \A e \in ToSet(cache') :
             \/ e \in ToSet(cache)
             \/ e.file = c.file /\ e.stamp = onDisk[c.file].version /\ e.picture = c.picture
    BY <1>2, <2>1, WriteKeeps
  <2>3. raced' \in SUBSET Files /\ raced \subseteq raced'
    BY <1>2, <2>1 DEF LibraryInv, LibraryTypes
  <2>4. CacheIsTrue(cache)'
    BY <2>1, <2>2, <2>3 DEF LibraryInv, CacheIsTrue
  <2> QED BY <1>1, <1>3, <2>2, <2>3, <2>4, CallReplaced
<1> QED BY <1>4, <1>5

-----------------------------------------------------------------------------
(* Stars, and other programs.                                              *)

\* What only the disk, the stars or the listings on their way change.
LEMMA TilesUnmoved ==
  ASSUME LibraryInv, UNCHANGED <<cache, written, watching, thumbs, unreadable, inFlight, queue,
                                 calls, raced, repicked>>,
         folder'.nth = folder.nth, folder'.listed = folder.listed, folder'.since = folder.since
  PROVE  /\ AnswersCome(calls, inFlight)' /\ (queue # <<>> => Cardinality(inFlight) >= Limit)'
         /\ NoTileForgotten' /\ CacheIsTrue(cache)' /\ CallsAreFresh(calls)' /\ TilesFresh'
         /\ CacheCounted'
BY DEF LibraryInv, AnswersCome, NoTileForgotten, Settled, Waiting, CacheIsTrue, CallsAreFresh,
       TilesFresh, CacheCounted

LEMMA ToggleKeeps ==
  ASSUME LibraryInv, NEW f \in Files, Toggle(f) PROVE LibraryInv'
<1> DEFINE on == f \notin folder.stars
           stars == IF on THEN folder.stars \cup {f} ELSE folder.stars \ {f}
<1>t. LibraryTypes
  BY DEF LibraryInv
<1>1. /\ f \in folder.listed /\ spent.stars < MaxStars
      /\ spent' = [spent EXCEPT !.stars = spent.stars + 1]
      /\ folder' = [folder EXCEPT !.stars = stars]
      /\ marked' = IF ~onDisk[f].here THEN marked ELSE IF on THEN marked \cup {f} ELSE marked \ {f}
      /\ adrift' = (adrift \/ ~onDisk[f].here \/ replies # <<>>)
      /\ UNCHANGED <<onDisk, cache, written, watching, thumbs, unreadable, inFlight, queue,
                     calls, replies, raced, repicked>>
  BY <1>t DEF Toggle, SetFavourite, LibraryTypes
<1>2. stars \in SUBSET Files
  BY <1>t DEF LibraryTypes
<1>s. \A g \in Files : g \in stars <=> IF g = f THEN on ELSE g \in folder.stars
  OBVIOUS
<1> HIDE DEF stars
<1>3. /\ folder'.at = folder.at /\ folder'.nth = folder.nth /\ folder'.listed = folder.listed
      /\ folder'.since = folder.since /\ folder'.stars = stars
      /\ folder' \in [at : Folders \cup {NoFolder}, nth : 0 .. MaxOpens, listed : SUBSET Files,
                      stars : SUBSET Files, since : [Files -> Versions]]
  BY <1>1, <1>2, <1>t DEF LibraryTypes
<1>4. /\ spent' \in [opens : 0 .. MaxOpens, changes : 0 .. MaxChanges, stars : 0 .. MaxStars,
                     restarts : 0 .. MaxRestarts]
      /\ spent'.opens = spent.opens /\ spent'.changes = spent.changes
  <2>1. spent.stars + 1 \in 0 .. MaxStars
    <3>1. spent.stars \in 0 .. MaxStars /\ MaxStars \in Nat
      BY <1>t, LibraryAssumption DEF LibraryTypes
    <3> QED BY <3>1, <1>1
  <2> QED BY <2>1, <1>1, <1>t DEF LibraryTypes
<1>5. marked' \in SUBSET Files /\ adrift' \in BOOLEAN
  BY <1>1, <1>t DEF LibraryTypes
<1>6. LibraryTypes'
  BY <1>1, <1>3, <1>4, <1>5, <1>t DEF LibraryTypes
<1>7. WithinBounds' /\ ListedInPlace' /\ ListedBefore'
  BY <1>1, <1>3, <1>4 DEF LibraryInv, WithinBounds, ListedInPlace, ListedBefore
<1>8. StarsAgree'
  <2> SUFFICES ASSUME ~adrift' PROVE (replies' = <<>> => folder'.stars = folder'.listed \cap marked')
                                     /\ \A i \in DOMAIN replies' : replies'[i].stars = replies'[i].listed \cap marked'
    BY DEF StarsAgree
  <2>1. ~adrift /\ onDisk[f].here /\ replies = <<>> /\ replies' = <<>>
    BY <1>1
  <2>2. folder.stars = folder.listed \cap marked
    BY <2>1 DEF LibraryInv, StarsAgree
  <2>3. marked' = IF on THEN marked \cup {f} ELSE marked \ {f}
    BY <1>1, <2>1
  <2>4. folder.listed \subseteq Files
    BY <1>t DEF LibraryTypes
  <2>5. stars = folder.listed \cap marked'
    <3>1. \A g \in stars : g \in folder.listed \cap marked'
      BY <1>1, <1>2, <1>s, <2>2, <2>3
    <3>2. \A g \in folder.listed \cap marked' : g \in stars
      BY <1>1, <1>s, <2>2, <2>3, <2>4
    <3> QED BY <3>1, <3>2
  <2>6. DOMAIN replies' = {}
    BY <2>1
  <2> QED BY <2>5, <2>6, <1>3
<1> QED BY <1>1, <1>3, <1>6, <1>7, <1>8, TilesUnmoved DEF LibraryInv

LEMMA ChangeKeeps ==
  ASSUME LibraryInv, NEW f \in Files, Change(f) PROVE LibraryInv'
<1>t. LibraryTypes
  BY DEF LibraryInv
<1>1. PICK here \in BOOLEAN :
        onDisk' = [onDisk EXCEPT ![f] = [here |-> here, version |-> @.version + (IF here THEN 1 ELSE 0)]]
  BY DEF Change
<1>2. /\ spent.changes < MaxChanges /\ spent' = [spent EXCEPT !.changes = spent.changes + 1]
      /\ UNCHANGED <<cache, written, marked, storeVars, calls, replies, adrift, raced, repicked>>
  BY <1>t DEF Change, LibraryTypes
<1>3. /\ spent.changes \in 0 .. MaxChanges /\ MaxChanges \in Nat
      /\ \A g \in Files : onDisk[g].version \in Versions /\ onDisk[g].version <= spent.changes + 1
      /\ \A g \in Files : onDisk[g].version \in Nat
  <2>1. spent.changes \in 0 .. MaxChanges /\ MaxChanges \in Nat
    BY <1>t, LibraryAssumption DEF LibraryTypes
  <2>2. \A g \in Files : onDisk[g].version \in Versions
    BY <1>t DEF LibraryTypes
  <2>3. \A g \in Files : onDisk[g].version <= spent.changes + 1
    BY DEF LibraryInv, WithinBounds
  <2> QED BY <2>1, <2>2, <2>3 DEF Versions
<1> DEFINE v == onDisk[f].version + (IF here THEN 1 ELSE 0)
<1>4. v \in Nat /\ v <= spent.changes + 2 /\ onDisk[f].version <= v
  BY <1>3
<1>5. v \in Versions
  BY <1>2, <1>3, <1>4 DEF Versions
<1>6. onDisk' = [onDisk EXCEPT ![f] = [here |-> here, version |-> v]]
  BY <1>1
<1> HIDE DEF v
<1>7. /\ onDisk' \in [Files -> [here : BOOLEAN, version : Versions]]
      /\ onDisk'[f].version = v /\ \A g \in Files : g # f => onDisk'[g] = onDisk[g]
  BY <1>5, <1>6, <1>t DEF LibraryTypes
<1>8. \A g \in Files : onDisk[g].version <= onDisk'[g].version /\ onDisk'[g].version <= spent.changes + 2
                       /\ onDisk'[g].version \in Nat
  <2> SUFFICES ASSUME NEW g \in Files
               PROVE onDisk[g].version <= onDisk'[g].version /\ onDisk'[g].version <= spent.changes + 2
                     /\ onDisk'[g].version \in Nat
    OBVIOUS
  <2>1. CASE g = f
    BY <2>1, <1>4, <1>7
  <2>2. CASE g # f
    BY <2>2, <1>3, <1>7
  <2> QED BY <2>1, <2>2
<1>9. /\ spent' \in [opens : 0 .. MaxOpens, changes : 0 .. MaxChanges, stars : 0 .. MaxStars,
                     restarts : 0 .. MaxRestarts]
      /\ spent'.opens = spent.opens /\ spent'.changes = spent.changes + 1
  <2>1. spent.changes + 1 \in 0 .. MaxChanges
    BY <1>2, <1>3
  <2> QED BY <2>1, <1>2, <1>t DEF LibraryTypes
<1>10. UNCHANGED <<folder, watching, thumbs, unreadable, inFlight, queue>>
  BY <1>2 DEF storeVars
<1>11. LibraryTypes'
  BY <1>2, <1>7, <1>9, <1>10, <1>t DEF LibraryTypes
<1>12. WithinBounds'
  BY <1>2, <1>3, <1>8, <1>9, <1>10 DEF LibraryInv, WithinBounds
<1>13. ListedInPlace' /\ StarsAgree'
  BY <1>2, <1>10 DEF LibraryInv, ListedInPlace, StarsAgree
<1>14. ListedBefore'
  <2>1. \A g \in Files : folder.since[g] \in Nat /\ \A i \in DOMAIN replies : replies[i].since[g] \in Nat
    <3>1. \A i \in DOMAIN replies : replies[i] \in Listings
      BY <1>t DEF LibraryTypes
    <3> QED BY <3>1, <1>t DEF LibraryTypes, Listings, Versions
  <2> QED BY <2>1, <1>2, <1>3, <1>8, <1>10 DEF LibraryInv, ListedBefore
<1> QED BY <1>2, <1>10, <1>11, <1>12, <1>13, <1>14, TilesUnmoved DEF LibraryInv

-----------------------------------------------------------------------------
(* Folders.                                                                *)

LEMMA OpenKeeps ==
  ASSUME LibraryInv, NEW d \in Folders, Open(d) PROVE LibraryInv'
<1> DEFINE r == [at |-> d, listed |-> Listed(d), stars |-> Marked(Listed(d)), since |-> Versioned]
<1>t. LibraryTypes
  BY DEF LibraryInv
<1>1. /\ spent.opens < MaxOpens /\ spent' = [spent EXCEPT !.opens = spent.opens + 1]
      /\ replies' = Append(replies, r)
      /\ UNCHANGED <<diskVars, storeVars, calls, adrift, raced, repicked>>
  BY <1>t DEF Open, LibraryTypes
<1>2. UNCHANGED <<onDisk, cache, written, marked, folder, watching, thumbs, unreadable, inFlight, queue>>
  BY <1>1 DEF diskVars, storeVars
<1>3. /\ r \in Listings /\ \A f \in r.listed : FolderOf[f] = r.at
      /\ r.stars = r.listed \cap marked /\ \A f \in Files : r.since[f] = onDisk[f].version
  <2>1. Listed(d) \in SUBSET Files /\ \A f \in Listed(d) : FolderOf[f] = d
    BY DEF Listed
  <2>2. Versioned \in [Files -> Versions] /\ \A f \in Files : Versioned[f] = onDisk[f].version
    BY <1>t DEF Versioned, LibraryTypes
  <2>3. Marked(Listed(d)) = Listed(d) \cap marked
    BY DEF Marked
  <2> QED BY <2>1, <2>2, <2>3 DEF Listings
<1> HIDE DEF r
<1> DEFINE q == replies  t == replies'  n == Len(replies)
<1>4. /\ q \in Seq(Listings) /\ t \in Seq(Listings) /\ n \in Nat /\ Len(t) = n + 1 /\ t[n + 1] = r
      /\ DOMAIN q = 1 .. n /\ DOMAIN t = 1 .. n + 1 /\ \A i \in 1 .. n : t[i] = q[i]
  BY <1>1, <1>3, <1>t DEF LibraryTypes
<1>5. \A i \in 1 .. n + 1 : i \in 1 .. n \/ i = n + 1
  BY <1>4
<1>6. t # <<>>
  BY <1>4
<1>7. /\ spent' \in [opens : 0 .. MaxOpens, changes : 0 .. MaxChanges, stars : 0 .. MaxStars,
                     restarts : 0 .. MaxRestarts]
      /\ spent'.opens = spent.opens + 1 /\ spent'.changes = spent.changes
  <2>1. spent.opens + 1 \in 0 .. MaxOpens
    <3>1. spent.opens \in 0 .. MaxOpens /\ MaxOpens \in Nat
      BY <1>t, LibraryAssumption DEF LibraryTypes
    <3> QED BY <3>1, <1>1
  <2> QED BY <2>1, <1>1, <1>t DEF LibraryTypes
<1>8. LibraryTypes'
  BY <1>1, <1>2, <1>4, <1>7, <1>t DEF LibraryTypes
<1>9. /\ \A i \in 1 .. n : \A f \in q[i].listed : FolderOf[f] = q[i].at
      /\ \A f \in Files : \A i \in 1 .. n : q[i].since[f] <= onDisk[f].version
      /\ ~adrift => \A i \in 1 .. n : q[i].stars = q[i].listed \cap marked
      /\ folder.nth + n <= spent.opens
      /\ \A f \in folder.listed : FolderOf[f] = folder.at
      /\ \A f \in Files : folder.since[f] <= onDisk[f].version
      /\ \A f \in Files : onDisk[f].version <= spent.changes + 1
  BY <1>4 DEF LibraryInv, ListedInPlace, ListedBefore, StarsAgree, WithinBounds
<1>v. \A f \in Files : onDisk[f].version \in Nat
  BY <1>t DEF LibraryTypes, Versions
<1>w. folder.nth \in Nat /\ spent.opens \in Nat
  BY <1>t DEF LibraryTypes
<1> HIDE DEF q, t, n
<1>10. WithinBounds'
  <2>1. Len(t) = n + 1 /\ folder.nth + (n + 1) <= spent.opens + 1
    BY <1>4, <1>9, <1>w
  <2> QED BY <2>1, <1>2, <1>7, <1>9 DEF WithinBounds, t
<1>11. ListedInPlace'
  <2>1. \A i \in DOMAIN t : \A f \in t[i].listed : FolderOf[f] = t[i].at
    BY <1>3, <1>4, <1>5, <1>9
  <2> QED BY <2>1, <1>2, <1>9 DEF ListedInPlace, t
<1>12. StarsAgree'
  <2>1. ~adrift => \A i \in DOMAIN t : t[i].stars = t[i].listed \cap marked
    BY <1>3, <1>4, <1>5, <1>9
  <2> QED BY <2>1, <1>1, <1>2, <1>6 DEF StarsAgree, t
<1>13. ListedBefore'
  <2>1. \A f \in Files : \A i \in DOMAIN t : t[i].since[f] <= onDisk[f].version
    BY <1>3, <1>4, <1>5, <1>9, <1>v
  <2> QED BY <2>1, <1>2, <1>9 DEF ListedBefore, t
<1> QED BY <1>1, <1>2, <1>8, <1>10, <1>11, <1>12, <1>13, TilesUnmoved DEF LibraryInv

LEMMA AdoptKeeps ==
  ASSUME LibraryInv, Adopt PROVE LibraryInv'
<1> DEFINE r == Head(replies)
<1>t. LibraryTypes
  BY DEF LibraryInv
<1>1. /\ replies # <<>> /\ replies' = Tail(replies)
      /\ folder' = [at |-> r.at, nth |-> folder.nth + 1, listed |-> r.listed, stars |-> r.stars,
                    since |-> r.since]
      /\ watching' = Watched(r.listed)
      /\ repicked' = (repicked \/ r.at = folder.at)
      /\ thumbs' = [f \in Files |-> 0] /\ unreadable' = {} /\ inFlight' = {} /\ queue' = <<>>
      /\ UNCHANGED <<onDisk, cache, written, marked, calls, adrift, raced, spent>>
  BY DEF Adopt, diskVars
<1> DEFINE q == replies  t == Tail(replies)
<1>2. /\ q \in Seq(Listings) /\ t \in Seq(Listings) /\ r = q[1] /\ r \in Listings
      /\ Len(q) \in Nat \ {0} /\ Len(t) = Len(q) - 1 /\ 1 \in DOMAIN q
      /\ \A i \in DOMAIN t : i + 1 \in DOMAIN q /\ t[i] = q[i + 1]
  <2>1. q \in Seq(Listings)
    BY <1>t DEF LibraryTypes
  <2>2. /\ t \in Seq(Listings) /\ r = q[1] /\ Len(q) \in Nat \ {0} /\ Len(t) = Len(q) - 1
        /\ DOMAIN q = 1 .. Len(q) /\ DOMAIN t = 1 .. Len(t)
        /\ \A i \in 1 .. Len(t) : t[i] = q[i + 1]
    BY <2>1, <1>1
  <2>3. 1 \in DOMAIN q /\ \A i \in DOMAIN t : i + 1 \in DOMAIN q
    BY <2>2
  <2>4. q[1] \in Listings
    BY <2>1, <2>3
  <2> QED BY <2>1, <2>2, <2>3, <2>4
<1> HIDE DEF r
<1>3. /\ r.at \in Folders /\ r.listed \in SUBSET Files /\ r.stars \in SUBSET Files
      /\ r.since \in [Files -> Versions]
  BY <1>2 DEF Listings
<1>4. /\ \A i \in DOMAIN q : \A f \in q[i].listed : FolderOf[f] = q[i].at
      /\ \A f \in Files : \A i \in DOMAIN q : q[i].since[f] <= onDisk[f].version
      /\ ~adrift => \A i \in DOMAIN q : q[i].stars = q[i].listed \cap marked
      /\ folder.nth + Len(q) <= spent.opens
      /\ \A f \in folder.listed : FolderOf[f] = folder.at
      /\ \A f \in Files : onDisk[f].version <= spent.changes + 1
  BY DEF LibraryInv, ListedInPlace, ListedBefore, StarsAgree, WithinBounds
<1>5. folder.nth \in Nat /\ spent.opens \in 0 .. MaxOpens /\ MaxOpens \in Nat /\ folder.nth + 1 \in 0 .. MaxOpens
  <2>1. folder.nth \in 0 .. MaxOpens /\ spent.opens \in 0 .. MaxOpens /\ MaxOpens \in Nat
    BY <1>t, LibraryAssumption DEF LibraryTypes
  <2> QED BY <2>1, <1>2, <1>4
<1>6. /\ folder'.at = r.at /\ folder'.nth = folder.nth + 1 /\ folder'.listed = r.listed
      /\ folder'.stars = r.stars /\ folder'.since = r.since
      /\ folder' \in [at : Folders \cup {NoFolder}, nth : 0 .. MaxOpens, listed : SUBSET Files,
                      stars : SUBSET Files, since : [Files -> Versions]]
  BY <1>1, <1>3, <1>5
<1>7. watching' \in SUBSET Files
  BY <1>1, <1>3 DEF Watched
<1>8. thumbs' \in [Files -> Versions] /\ \A f \in Files : thumbs'[f] = 0
  <2>1. 0 \in Versions
    BY LibraryAssumption DEF Versions
  <2> QED BY <2>1, <1>1
<1>9. <<>> \in Seq(Files)
  OBVIOUS
<1>10. LibraryTypes'
  BY <1>1, <1>2, <1>6, <1>7, <1>8, <1>9, <1>t DEF LibraryTypes
<1> HIDE DEF q, t
<1>11. replies' = t
  BY <1>1 DEF t
<1>12. WithinBounds'
  <2>1. (folder.nth + 1) + Len(t) <= spent.opens
    BY <1>2, <1>4, <1>5
  <2> QED BY <2>1, <1>1, <1>4, <1>6, <1>11 DEF WithinBounds
<1>13. ListedInPlace'
  <2>1. \A i \in DOMAIN t : \A f \in t[i].listed : FolderOf[f] = t[i].at
    BY <1>2, <1>4
  <2>2. \A f \in r.listed : FolderOf[f] = r.at
    BY <1>2, <1>4
  <2> QED BY <2>1, <2>2, <1>6, <1>11 DEF ListedInPlace
<1>14. StarsAgree'
  <2>1. ~adrift => \A i \in DOMAIN t : t[i].stars = t[i].listed \cap marked
    BY <1>2, <1>4
  <2>2. ~adrift => r.stars = r.listed \cap marked
    BY <1>2, <1>4
  <2> QED BY <2>1, <2>2, <1>1, <1>6, <1>11 DEF StarsAgree
<1>15. ListedBefore'
  <2>1. \A f \in Files : \A i \in DOMAIN t : t[i].since[f] <= onDisk[f].version
    BY <1>2, <1>4
  <2>2. \A f \in Files : r.since[f] <= onDisk[f].version
    BY <1>2, <1>4
  <2> QED BY <2>1, <2>2, <1>1, <1>6, <1>11 DEF ListedBefore
<1>16. AnswersCome(calls, inFlight)' /\ (queue # <<>> => Cardinality(inFlight) >= Limit)'
  BY <1>1 DEF AnswersCome
<1>17. NoTileForgotten'
  <2>1. CASE repicked'
    BY <2>1 DEF NoTileForgotten
  <2>2. CASE ~repicked'
    <3>1. ~repicked /\ r.at # folder.at
      BY <1>1, <2>2
    <3>2. \A f \in r.listed : f \notin folder.listed
      BY <3>1, <1>2, <1>4
    <3>3. \A f \in r.listed : f \in watching'
      BY <1>1, <3>2 DEF Watched
    <3> QED BY <3>3, <1>6 DEF NoTileForgotten
  <2> QED BY <2>1, <2>2
<1>18. CacheIsTrue(cache)' /\ CacheCounted'
  BY <1>1 DEF LibraryInv, CacheIsTrue, CacheCounted
<1>19. CallsAreFresh(calls)'
  <2>1. \A c \in calls : c.nth \in Nat /\ c.nth <= folder.nth
    BY <1>t DEF LibraryInv, CallsAreFresh, LibraryTypes, CallType
  <2>2. \A c \in calls : c.nth <= folder.nth + 1 /\ c.nth # folder.nth + 1
    BY <2>1, <1>5
  <2> QED BY <2>2, <1>1, <1>6 DEF CallsAreFresh
<1>20. TilesFresh'
  BY <1>8 DEF TilesFresh
<1> QED BY <1>10, <1>12, <1>13, <1>14, <1>15, <1>16, <1>17, <1>18, <1>19, <1>20 DEF LibraryInv

\* No folder, no tile, no call: as the application starts.
Emptied ==
  /\ folder = Nothing /\ watching = {} /\ thumbs = [f \in Files |-> 0] /\ unreadable = {}
  /\ inFlight = {} /\ queue = <<>> /\ calls = {} /\ replies = <<>>
  /\ onDisk \in [Files -> [here : BOOLEAN, version : Versions]]
  /\ cache \in Seq(CacheEntries) /\ written \in 0 .. Interval /\ marked \in SUBSET Files
  /\ adrift \in BOOLEAN /\ raced \in SUBSET Files /\ repicked \in BOOLEAN
  /\ spent \in [opens : 0 .. MaxOpens, changes : 0 .. MaxChanges, stars : 0 .. MaxStars,
                restarts : 0 .. MaxRestarts]
  /\ \A f \in Files : onDisk[f].version <= spent.changes + 1
  /\ CacheIsTrue(cache) /\ CacheCounted

LEMMA StartedEmpty == Emptied => LibraryInv
<1> SUFFICES ASSUME Emptied PROVE LibraryInv
  OBVIOUS
<1>0. /\ folder = Nothing /\ watching = {} /\ thumbs = [f \in Files |-> 0] /\ unreadable = {}
      /\ inFlight = {} /\ queue = <<>> /\ calls = {} /\ replies = <<>>
      /\ onDisk \in [Files -> [here : BOOLEAN, version : Versions]]
      /\ cache \in Seq(CacheEntries) /\ written \in 0 .. Interval /\ marked \in SUBSET Files
      /\ adrift \in BOOLEAN /\ raced \in SUBSET Files /\ repicked \in BOOLEAN
      /\ spent \in [opens : 0 .. MaxOpens, changes : 0 .. MaxChanges, stars : 0 .. MaxStars,
                    restarts : 0 .. MaxRestarts]
      /\ \A f \in Files : onDisk[f].version <= spent.changes + 1
      /\ CacheIsTrue(cache) /\ CacheCounted
  BY DEF Emptied
<1>1. /\ 0 \in Versions /\ 0 \in 0 .. MaxOpens /\ spent.opens \in Nat
      /\ \A f \in Files : onDisk[f].version \in Nat
  BY <1>0, LibraryAssumption DEF Versions
<1>2. folder = [at |-> NoFolder, nth |-> 0, listed |-> {}, stars |-> {}, since |-> [f \in Files |-> 0]]
  BY <1>0 DEF Nothing
<1>3. /\ folder.at = NoFolder /\ folder.nth = 0 /\ folder.listed = {} /\ folder.stars = {}
      /\ folder.since \in [Files -> Versions] /\ \A f \in Files : folder.since[f] = 0
      /\ folder \in [at : Folders \cup {NoFolder}, nth : 0 .. MaxOpens, listed : SUBSET Files,
                     stars : SUBSET Files, since : [Files -> Versions]]
  BY <1>1, <1>2
<1>4. <<>> \in Seq(Files) /\ <<>> \in Seq(Listings) /\ Len(<<>>) = 0 /\ DOMAIN <<>> = {}
  OBVIOUS
<1>5. LibraryTypes
  BY <1>0, <1>1, <1>3, <1>4 DEF LibraryTypes
<1>6. WithinBounds
  BY <1>0, <1>1, <1>3, <1>4 DEF WithinBounds
<1>7. ListedInPlace /\ StarsAgree /\ ListedBefore
  BY <1>0, <1>1, <1>3, <1>4 DEF ListedInPlace, StarsAgree, ListedBefore
<1>8. AnswersCome(calls, inFlight) /\ CallsAreFresh(calls)
  BY <1>0 DEF AnswersCome, CallsAreFresh
<1>9. NoTileForgotten /\ TilesFresh
  BY <1>0, <1>3 DEF NoTileForgotten, TilesFresh
<1> QED BY <1>0, <1>5, <1>6, <1>7, <1>8, <1>9 DEF LibraryInv

LEMMA LibraryInitInv == LibraryInit => LibraryInv
<1> SUFFICES ASSUME LibraryInit PROVE LibraryInv
  OBVIOUS
<1>1. 1 \in Versions /\ 0 \in 0 .. Interval /\ Budget \in Nat
  BY LibraryAssumption DEF Versions
<1>2. onDisk \in [Files -> [here : BOOLEAN, version : Versions]] /\ \A f \in Files : onDisk[f].version = 1
  BY <1>1 DEF LibraryInit
<1>3. /\ spent \in [opens : 0 .. MaxOpens, changes : 0 .. MaxChanges, stars : 0 .. MaxStars,
                    restarts : 0 .. MaxRestarts]
      /\ spent.changes = 0
  BY LibraryAssumption DEF LibraryInit, Unspent
<1>4. cache = <<>> /\ cache \in Seq(CacheEntries) /\ Len(cache) = 0 /\ ToSet(cache) = {}
  BY DEF LibraryInit, ToSet
<1>5. CacheIsTrue(cache) /\ CacheCounted
  BY <1>1, <1>4 DEF CacheIsTrue, CacheCounted, LibraryInit
<1>7. /\ folder = Nothing /\ watching = {} /\ thumbs = [f \in Files |-> 0] /\ unreadable = {}
      /\ inFlight = {} /\ queue = <<>> /\ calls = {} /\ replies = <<>>
      /\ written \in 0 .. Interval /\ marked \in SUBSET Files
      /\ adrift \in BOOLEAN /\ raced \in SUBSET Files /\ repicked \in BOOLEAN
  BY <1>1 DEF LibraryInit
<1>8. \A f \in Files : onDisk[f].version <= spent.changes + 1
  BY <1>2, <1>3
<1>6. Emptied
  BY <1>2, <1>3, <1>4, <1>5, <1>7, <1>8 DEF Emptied
<1> QED BY <1>6, StartedEmpty

LEMMA RestartKeeps == ASSUME LibraryInv, Restart PROVE LibraryInv'
<1>t. LibraryTypes
  BY DEF LibraryInv
<1>1. /\ spent.restarts < MaxRestarts /\ spent' = [spent EXCEPT !.restarts = spent.restarts + 1]
      /\ cache' = Pruned(cache) /\ written' = 0 /\ folder' = Nothing /\ watching' = {}
      /\ thumbs' = [f \in Files |-> 0] /\ unreadable' = {} /\ inFlight' = {} /\ queue' = <<>>
      /\ calls' = {} /\ replies' = <<>>
      /\ UNCHANGED <<onDisk, marked, adrift, raced, repicked>>
  BY <1>t DEF Restart, LibraryTypes
<1>2. /\ spent' \in [opens : 0 .. MaxOpens, changes : 0 .. MaxChanges, stars : 0 .. MaxStars,
                     restarts : 0 .. MaxRestarts]
      /\ spent'.changes = spent.changes
  <2>1. spent.restarts + 1 \in 0 .. MaxRestarts
    <3>1. spent.restarts \in 0 .. MaxRestarts /\ MaxRestarts \in Nat
      BY <1>t, LibraryAssumption DEF LibraryTypes
    <3> QED BY <3>1, <1>1
  <2> QED BY <2>1, <1>1, <1>t DEF LibraryTypes
<1>3. /\ cache' \in Seq(CacheEntries) /\ Len(cache') <= Budget + 0 /\ ToSet(cache') \subseteq ToSet(cache)
      /\ Budget \in Nat /\ 0 \in 0 .. Interval
  <2>1. cache \in Seq(CacheEntries) /\ Budget \in Nat /\ Interval \in Nat
    BY <1>t, LibraryAssumption DEF LibraryTypes
  <2> QED BY <2>1, <1>1, PrunedKeeps
<1>4. CacheIsTrue(cache)' /\ CacheCounted'
  BY <1>1, <1>3 DEF LibraryInv, CacheIsTrue, CacheCounted
<1>5. \A f \in Files : onDisk'[f].version <= spent'.changes + 1
  BY <1>1, <1>2 DEF LibraryInv, WithinBounds
<1>6. Emptied'
  BY <1>1, <1>2, <1>3, <1>4, <1>5, <1>t DEF LibraryTypes, Emptied
<1>7. (Emptied => LibraryInv)'
  BY StartedEmpty, PTL
<1> QED BY <1>6, <1>7

LEMMA LibraryStepInv == LibraryInv /\ [LibraryNext]_libraryVars => LibraryInv'
<1> SUFFICES ASSUME LibraryInv, [LibraryNext]_libraryVars PROVE LibraryInv'
  OBVIOUS
<1>1. CASE \E f \in Files : Ask(f) \/ Toggle(f) \/ Change(f)
  BY <1>1, AskKeeps, ToggleKeeps, ChangeKeeps
<1>2. CASE \E c \in calls : Decode(c) \/ Reply(c) \/ Arrive(c)
  BY <1>2, DecodeKeeps, ReplyKeeps, ArriveKeeps
<1>3. CASE \E d \in Folders : Open(d)
  BY <1>3, OpenKeeps
<1>4. CASE Adopt
  BY <1>4, AdoptKeeps
<1>5. CASE Restart
  BY <1>5, RestartKeeps
<1>6. CASE UNCHANGED libraryVars
  <2>1. UNCHANGED <<onDisk, cache, written, marked, folder, watching, thumbs, unreadable, inFlight,
                    queue, calls, replies, adrift, raced, repicked, spent>>
    BY <1>6 DEF libraryVars
  <2>2. LibraryTypes'
    BY <2>1 DEF LibraryInv, LibraryTypes
  <2> QED BY <2>1, <2>2, FoldersUnmoved, TilesUnmoved DEF LibraryInv
<1> QED BY <1>1, <1>2, <1>3, <1>4, <1>5, <1>6 DEF LibraryNext

LEMMA LibraryInOrder ==
  LibraryInv => /\ LibraryTypeOK /\ QueueIsWorked /\ NoTileForgotten /\ CacheIsBounded
                /\ StarsAreTheFavourites /\ TilesAreFresh
<1> SUFFICES ASSUME LibraryInv
             PROVE  /\ LibraryTypeOK /\ QueueIsWorked /\ NoTileForgotten /\ CacheIsBounded
                    /\ StarsAreTheFavourites /\ TilesAreFresh
  OBVIOUS
<1>t. LibraryTypes
  BY DEF LibraryInv
<1>1. LibraryTypeOK
  BY <1>t DEF LibraryTypes, LibraryTypeOK, CacheEntries, Listings
<1>2. QueueIsWorked
  BY DEF LibraryInv, QueueIsWorked, AnswersCome, Waiting
<1>3. CacheIsBounded
  <2>1. /\ Len(cache) \in Nat /\ written \in 0 .. Interval /\ Budget \in Nat /\ Interval \in Nat
        /\ Len(cache) <= Budget + written
    BY <1>t, LibraryAssumption DEF LibraryTypes, LibraryInv, CacheCounted
  <2> QED BY <2>1 DEF CacheIsBounded
<1>4. StarsAreTheFavourites
  BY DEF LibraryInv, StarsAgree, StarsAreTheFavourites
<1>5. TilesAreFresh
  BY <1>t DEF LibraryInv, TilesFresh, TilesAreFresh, LibraryTypes
<1> QED BY <1>1, <1>2, <1>3, <1>4, <1>5 DEF LibraryInv

-----------------------------------------------------------------------------
(* The window.                                                             *)

WindowInv == LibraryInv /\ DeskInv /\ CatalogueInv /\ StartupInv

LEMMA WindowInitInv == WindowInit => WindowInv
BY LibraryInitInv, DeskInitInv, CatalogueInitInv, StartupInitInv DEF WindowInit, WindowInv

LEMMA WindowSplits ==
  [WindowNext]_windowVars =>
    /\ [LibraryNext]_libraryVars /\ [DeskNext]_deskVars
    /\ [CatalogueNext]_catalogueVars /\ [StartupNext]_startupVars
BY DEF WindowNext, windowVars, TilesStep, OfTiles, BatchStep, RecentStep, StartStep

LEMMA WindowStepInv == WindowInv /\ [WindowNext]_windowVars => WindowInv'
BY WindowSplits, LibraryStepInv, DeskStepInv, CatalogueStepInv, StartupStepInv DEF WindowInv

LEMMA WindowOrdered == WindowInv => WindowInOrder /\ TilesAreFresh
<1> SUFFICES ASSUME WindowInv PROVE WindowInOrder /\ TilesAreFresh
  OBVIOUS
<1>1. /\ LibraryTypeOK /\ QueueIsWorked /\ NoTileForgotten /\ CacheIsBounded
      /\ StarsAreTheFavourites /\ TilesAreFresh
  BY LibraryInOrder DEF WindowInv
<1>2. DeskTypeOK /\ SelectionIsOfTheFolder /\ WindowWaitsForARun
  BY DeskInOrder DEF WindowInv
<1>3. CatalogueTypeOK /\ WorkReplacesItsSource /\ CleanWorkIsOnDisk
  BY DEF WindowInv, CatalogueInv
<1>4. HandedIsOpened /\ EngineIsShown
  BY WindowComesUp DEF WindowInv
<1>5. StartupTypeOK
  BY DEF WindowInv, StartupInv
<1> QED BY <1>1, <1>2, <1>3, <1>4, <1>5 DEF WindowInOrder

LEMMA StopsAreForTheirRun == WindowInv /\ [WindowNext]_windowVars => NoneIsBegun /\ StopWasPressed'
<1> SUFFICES ASSUME WindowInv, [WindowNext]_windowVars PROVE NoneIsBegun /\ StopWasPressed'
  OBVIOUS
<1>1. NoneIsBegun
  BY WindowSplits, NoneBegun DEF WindowInv
<1>2. StopWasPressed'
  BY WindowStepInv DEF WindowInv, DeskInv, DeskOrder
<1> QED BY <1>1, <1>2

\* Whatever is clicked, listed, changed on the disk, exported, stopped, saved, handed
\* over, reloaded or restarted, each part of the window is in order: no tile of the
\* folder on screen is forgotten and no place is held by a call that will not answer,
\* the cache is bounded, the stars are the favourites, the selection is of the folder,
\* a window that shows a run has one to wait for, work stands in the lists in its
\* photograph's stead, and what the shell handed over is opened.
THEOREM ThePartsAreInOrder == WindowSpec => []WindowInOrder
<1>1. WindowSpec => []WindowInv
  BY WindowInitInv, WindowStepInv, PTL DEF WindowSpec
<1> QED BY <1>1, WindowOrdered, PTL

\* No tile shows a picture older than the listing it belongs to, unless the file changed
\* in the middle of its decode or the picture was asked for by a folder left behind.
THEOREM TilesShowTheirFiles == WindowSpec => []TilesAreFresh
<1>1. WindowSpec => []WindowInv
  BY WindowInitInv, WindowStepInv, PTL DEF WindowSpec
<1> QED BY <1>1, WindowOrdered, PTL

\* What stops a batch was pressed since that batch was asked for, over however many
\* batches, refusals and reloads, and a batch told to stop begins no photograph.
THEOREM StopsAreTheirRuns == WindowSpec => StopIsForItsRun
<1>1. WindowSpec => []WindowInv
  BY WindowInitInv, WindowStepInv, PTL DEF WindowSpec
<1>2. WindowInv /\ [WindowNext]_windowVars => [NoneIsBegun /\ StopWasPressed']_deskVars
  BY StopsAreForTheirRun
<1> QED BY <1>1, <1>2, PTL DEF WindowSpec, StopIsForItsRun

LEMMA ListsKept ==
  WindowInv /\ [WindowNext]_windowVars =>
    [/\ \A p \in Photos : ties'[p] # ties[p] /\ ~saving.crossed =>
          ties'[p] = saving.to /\ saving.of = p
     /\ \A x \in ToSet(recent) \ ToSet(recent') :
          \/ x \notin there
          \/ x = session.source /\ ties'[x] # Null
          \/ Len(recent) = RECENT_LIMIT /\ x = Last(recent)]_catalogueVars
<1> SUFFICES ASSUME WindowInv, CatalogueNext
             PROVE  /\ \A p \in Photos : ties'[p] # ties[p] /\ ~saving.crossed =>
                         ties'[p] = saving.to /\ saving.of = p
                    /\ \A x \in ToSet(recent) \ ToSet(recent') :
                         \/ x \notin there
                         \/ x = session.source /\ ties'[x] # Null
                         \/ Len(recent) = RECENT_LIMIT /\ x = Last(recent)
  BY WindowSplits
<1> QED BY TablesKept DEF WindowInv

\* A photograph is tied to a project by a save of its own work only, and the list of
\* recent files loses a path for one of three reasons and for no other.
THEOREM TablesLoseNothing == WindowSpec => TablesAreKept
<1>1. WindowSpec => []WindowInv
  BY WindowInitInv, WindowStepInv, PTL DEF WindowSpec
<1> QED BY <1>1, ListsKept, PTL DEF WindowSpec, TablesAreKept

================================================================================
