-------------------------------- MODULE Library --------------------------------
(***************************************************************************)
(* Browsing a folder: the tiles and the queue of thumbnails they ask for   *)
(* (components/LibraryTile.tsx, store/library.ts), the main process's      *)
(* thumbnail handler with its cache on disk (ipc/library.ts,               *)
(* store/thumbnail-cache.ts), the favourites in the database, and the      *)
(* engine, which cancels a thumbnail whose file is asked for again, while   *)
(* other programs change the files and the application is restarted.       *)
(*                                                                         *)
(* The main process handles a call without an await up to the engine, and  *)
(* its replies keep the order of the calls it handles itself.              *)
(*                                                                         *)
(* Abstracted: pixels.  A picture is the version of the file it was made   *)
(* from; every entry of the cache is one unit of the budget.               *)
(***************************************************************************)
EXTENDS Integers, Sequences, FiniteSets, SequencesExt, Lists

CONSTANTS
  Files,        \* photographs
  FolderOf,     \* the folder each is in
  Undecodable,  \* those no decoder takes
  Limit,        \* IN_FLIGHT_LIMIT
  Budget,       \* BUDGET_BYTES
  Interval,     \* PRUNE_INTERVAL_BYTES
  NoFolder,     \* no folder
  MaxOpens,     \* bound: folders opened
  MaxChanges,   \* bound: changes other programs make to the files
  MaxStars,     \* bound: stars clicked
  MaxRestarts   \* bound: restarts

ASSUME LibraryAssumption ==
  /\ FolderOf \in [Files -> Range(FolderOf)] /\ NoFolder \notin Range(FolderOf)
  /\ Limit \in Nat \ {0} /\ Budget \in Nat \ {0} /\ Interval \in Nat
  /\ {MaxOpens, MaxChanges, MaxStars, MaxRestarts} \subseteq Nat

VARIABLES
  onDisk,      \* each file: here, and its version (size and time of change)
  cache,       \* entries of the cache, least recently used first
  written,     \* what was written since the last pruning
  marked,      \* favourites in the database
  folder,      \* what the store shows: where, the files listed, the stars
  watching,    \* tiles that wait to come into view
  thumbs,      \* version of the picture each tile shows, 0 for none
  unreadable,  \* files that failed
  inFlight, queue,   \* the store's two lists
  calls,       \* thumbnails asked for and not heard of by the store
  replies,     \* listings on their way to the store, oldest first
  adrift,      \* history: a star could not be saved, or was clicked while a
               \* listing was on its way
  raced,       \* history: files that changed between their decode and its write,
               \* or whose picture came for a folder left behind
  repicked,    \* history: the folder on screen was opened again
  spent        \* what is used of the bounds

diskVars == <<onDisk, cache, written, marked>>
storeVars == <<folder, watching, thumbs, unreadable, inFlight, queue>>
libraryVars == <<onDisk, cache, written, marked, folder, watching, thumbs, unreadable, inFlight,
          queue, calls, replies, adrift, raced, repicked, spent>>

Folders == Range(FolderOf)
Versions == 0 .. MaxChanges + 1
Stages == {"waiting", "decoded", "answered"}
CallType == [file : Files, nth : 0 .. MaxOpens, stage : Stages,
             picture : Versions, doomed : BOOLEAN]

\* nth: how many folders were shown before it.  since (history): the files as
\* they were when it was listed.
Nothing == [at |-> NoFolder, nth |-> 0, listed |-> {}, stars |-> {}, since |-> [f \in Files |-> 0]]
Unspent == [opens |-> 0, changes |-> 0, stars |-> 0, restarts |-> 0]

LibraryInit ==
  /\ onDisk = [f \in Files |-> [here |-> TRUE, version |-> 1]]
  /\ cache = <<>> /\ written = 0 /\ marked = {}
  /\ folder = Nothing /\ watching = {}
  /\ thumbs = [f \in Files |-> 0] /\ unreadable = {} /\ inFlight = {} /\ queue = <<>>
  /\ calls = {} /\ replies = <<>>
  /\ adrift = FALSE /\ raced = {} /\ repicked = FALSE /\ spent = Unspent

-----------------------------------------------------------------------------
(* The cache.                                                              *)

\* The entries with the name the file has now.
Named(f) == [file : {f}, stamp : {onDisk[f].version}, picture : Versions]

\* Broken variant: the time of change is not in the name.
HitsOfAnyAge(c, f) == Kept(c, [file : {f}, stamp : Versions, picture : Versions])

\* read
Hits(c, f) == Kept(c, Named(f))

Others(c, f) == Kept(c, ToSet(c) \ Named(f))

\* A read touches the entry, so that what nobody looks at goes first.
Touched(c, f) == Others(c, f) \o Hits(c, f)

\* Broken variant: pruning stops where it starts.
UnprunedAt(c) == c

\* prune
Pruned(c) == IF Len(c) <= Budget THEN c ELSE SubSeq(c, Len(c) - Budget + 1, Len(c))

\* write: under the name the file has when the picture is ready. A file that is
\* gone has no name.
Write(f, picture) ==
  LET stored == Append(Others(cache, f), [file |-> f, stamp |-> onDisk[f].version, picture |-> picture])
      full   == written + 1 > Interval
  IN  IF ~onDisk[f].here THEN UNCHANGED <<cache, written>>
      ELSE /\ cache' = IF full THEN Pruned(stored) ELSE stored
           /\ written' = IF full THEN 0 ELSE written + 1

-----------------------------------------------------------------------------
(* The store's queue.                                                      *)

\* The thumbnail handler up to the engine: a file that is gone is refused, a
\* stored picture is the answer, and the engine is asked otherwise, which
\* dooms an older request for the same file.
Sent(s, f) ==
  LET call == [file |-> f, nth |-> folder.nth, stage |-> "answered",
               picture |-> 0, doomed |-> FALSE]
      hits == Hits(s.cache, f)
  IN  IF ~onDisk[f].here THEN [s EXCEPT !.calls = @ \cup {call}]
      ELSE IF hits # <<>>
      THEN [s EXCEPT !.calls = @ \cup {[call EXCEPT !.picture = hits[1].picture]},
                     !.cache = Touched(@, f)]
      ELSE [s EXCEPT !.calls = {IF c.file = f /\ c.stage # "answered" THEN [c EXCEPT !.doomed = TRUE]
                                ELSE c : c \in @}
                               \cup {[call EXCEPT !.stage = "waiting"]}]

Settled(f) == thumbs[f] # 0 \/ f \in unreadable

\* One turn of pump: what is known by now is passed over.
Turned(s, f) ==
  IF Cardinality(s.inFlight) >= Limit THEN s
  ELSE IF s.thumbs[f] # 0 \/ f \in s.unreadable THEN [s EXCEPT !.queue = Tail(@)]
  ELSE Sent([s EXCEPT !.queue = Tail(@), !.inFlight = @ \cup {f}], f)

\* Its loop, over the queue as it stands.
Pumped(start) ==
  LET pumped[n \in 0 .. Len(start.queue)] ==
        IF n = 0 THEN start ELSE Turned(pumped[n - 1], start.queue[n])
  IN  pumped[Len(start.queue)]

Store == [inFlight |-> inFlight, queue |-> queue, calls |-> calls, cache |-> cache,
          thumbs |-> thumbs, unreadable |-> unreadable]

Pump(s) ==
  LET t == Pumped(s)
  IN  /\ inFlight' = t.inFlight /\ queue' = t.queue /\ calls' = t.calls /\ cache' = t.cache
      /\ thumbs' = t.thumbs /\ unreadable' = t.unreadable

\* A tile comes into view: requestThumbnail, once.
Ask(f) ==
  /\ f \in watching /\ ~Settled(f)
  /\ watching' = watching \ {f}
  /\ IF f \in inFlight \/ Contains(queue, f)
     THEN UNCHANGED <<inFlight, queue, calls, cache, thumbs, unreadable>>
     ELSE Pump([Store EXCEPT !.queue = Append(@, f)])
  /\ UNCHANGED <<onDisk, written, marked, folder, replies, adrift, raced, repicked, spent>>

\* Broken variant: nothing is sent in the place of what has arrived.
ArriveWithoutPump(c) ==
  /\ c.stage = "answered"
  /\ calls' = calls \ {c}
  /\ thumbs' = [thumbs EXCEPT ![c.file] = IF c.picture # 0 THEN c.picture ELSE @]
  /\ unreadable' = IF c.picture = 0 THEN unreadable \cup {c.file} ELSE unreadable
  /\ inFlight' = inFlight \ {c.file}
  /\ watching' = watching \ {c.file}
  /\ UNCHANGED <<onDisk, cache, written, marked, folder, queue, replies,
                 adrift, raced, repicked, spent>>

\* Broken variant: a failure is not remembered.
ArriveUnremembered(c) ==
  /\ c.stage = "answered"
  /\ Pump([Store EXCEPT !.calls = @ \ {c}, !.inFlight = @ \ {c.file},
                        !.thumbs[c.file] = IF c.picture # 0 THEN c.picture ELSE @])
  /\ watching' = watching \ {c.file}
  /\ raced' = IF c.nth # folder.nth THEN raced \cup {c.file} ELSE raced
  /\ UNCHANGED <<onDisk, written, marked, folder, replies, adrift, repicked, spent>>

\* An answer: the picture or the failure is remembered, whatever folder is on
\* screen by now, and the next one is sent.
Arrive(c) ==
  /\ c.stage = "answered"
  /\ Pump([Store EXCEPT !.calls = @ \ {c}, !.inFlight = @ \ {c.file},
                        !.thumbs[c.file] = IF c.picture # 0 THEN c.picture ELSE @,
                        !.unreadable = IF c.picture = 0 THEN @ \cup {c.file} ELSE @])
  /\ watching' = watching \ {c.file}
  /\ raced' = IF c.nth # folder.nth THEN raced \cup {c.file} ELSE raced
  /\ UNCHANGED <<onDisk, written, marked, folder, replies, adrift, repicked, spent>>

-----------------------------------------------------------------------------
(* The engine, and the handler when it answers.                            *)

Decode(c) ==
  /\ c.stage = "waiting"
  /\ \E picture \in {0, IF onDisk[c.file].here /\ c.file \notin Undecodable
                         THEN onDisk[c.file].version ELSE 0} :
        /\ picture # 0 \/ c.doomed \/ c.file \in Undecodable \/ ~onDisk[c.file].here
        /\ calls' = (calls \ {c}) \cup {[c EXCEPT !.stage = "decoded", !.picture = picture]}
  /\ UNCHANGED <<diskVars, storeVars, replies, adrift, raced, repicked, spent>>

\* A failure goes straight to the store.
Reply(c) ==
  /\ c.stage = "decoded"
  /\ calls' = (calls \ {c}) \cup {[c EXCEPT !.stage = "answered"]}
  /\ IF c.picture = 0 THEN UNCHANGED <<cache, written, raced>>
     ELSE /\ Write(c.file, c.picture)
          /\ raced' = IF c.picture # onDisk[c.file].version THEN raced \cup {c.file} ELSE raced
  /\ UNCHANGED <<onDisk, marked, storeVars, replies, adrift, repicked, spent>>

-----------------------------------------------------------------------------
(* Folders and stars.                                                      *)

Listed(d) == {f \in Files : FolderOf[f] = d /\ onDisk[f].here}

\* Broken variant: the listing comes without its stars.
NoneMarked(files) == {}

\* withFavourites
Marked(files) == files \cap marked

Versioned == [f \in Files |-> onDisk[f].version]

\* chooseFolder, openFolder: listed and marked before anything else is handled.
Open(d) ==
  /\ spent.opens < MaxOpens
  /\ spent' = [spent EXCEPT !.opens = @ + 1]
  /\ replies' = Append(replies, [at |-> d, listed |-> Listed(d), stars |-> Marked(Listed(d)),
                                 since |-> Versioned])
  /\ UNCHANGED <<diskVars, storeVars, calls, adrift, raced, repicked>>

\* A tile that stays on the page is watched again only if the picture or the
\* failure it showed is gone: its effect does not run otherwise.
Watched(files) == {f \in files : f \notin folder.listed \/ Settled(f) \/ f \in watching}

\* adopt
Adopt ==
  /\ replies # <<>>
  /\ LET r == Head(replies)
     IN  /\ folder' = [at |-> r.at, nth |-> folder.nth + 1, listed |-> r.listed, stars |-> r.stars,
                      since |-> r.since]
         /\ watching' = Watched(r.listed)
         /\ repicked' = (repicked \/ r.at = folder.at)
  /\ thumbs' = [f \in Files |-> 0] /\ unreadable' = {}
  /\ inFlight' = {} /\ queue' = <<>>
  /\ replies' = Tail(replies)
  /\ UNCHANGED <<diskVars, calls, adrift, raced, spent>>

\* setFavourite, past the handler, which refuses a file that is gone.
SetFavourite(f, on) ==
  marked' = IF ~onDisk[f].here THEN marked ELSE IF on THEN marked \cup {f} ELSE marked \ {f}

\* toggleFavourite: the star is drawn at once.
Toggle(f) ==
  LET on == f \notin folder.stars
  IN  /\ f \in folder.listed /\ spent.stars < MaxStars
      /\ spent' = [spent EXCEPT !.stars = @ + 1]
      /\ folder' = [folder EXCEPT !.stars = IF on THEN @ \cup {f} ELSE @ \ {f}]
      /\ SetFavourite(f, on)
      /\ adrift' = (adrift \/ ~onDisk[f].here \/ replies # <<>>)
      /\ UNCHANGED <<onDisk, cache, written, watching, thumbs, unreadable, inFlight, queue,
                     calls, replies, raced, repicked>>

\* Another program saves, removes or restores a photograph.
Change(f) ==
  /\ spent.changes < MaxChanges
  /\ spent' = [spent EXCEPT !.changes = @ + 1]
  /\ \E here \in BOOLEAN :
        onDisk' = [onDisk EXCEPT ![f] = [here |-> here, version |-> @.version + (IF here THEN 1 ELSE 0)]]
  /\ UNCHANGED <<cache, written, marked, storeVars, calls, replies, adrift, raced, repicked>>

\* The application is closed and started: the disk is what is left, and the
\* cache is pruned at start.
Restart ==
  /\ spent.restarts < MaxRestarts
  /\ spent' = [spent EXCEPT !.restarts = @ + 1]
  /\ cache' = Pruned(cache) /\ written' = 0
  /\ folder' = Nothing /\ watching' = {}
  /\ thumbs' = [f \in Files |-> 0] /\ unreadable' = {} /\ inFlight' = {} /\ queue' = <<>>
  /\ calls' = {} /\ replies' = <<>>
  /\ UNCHANGED <<onDisk, marked, adrift, raced, repicked>>

LibraryNext ==
  \/ \E f \in Files : Ask(f) \/ Toggle(f) \/ Change(f)
  \/ \E c \in calls : Decode(c) \/ Reply(c) \/ Arrive(c)
  \/ \E d \in Folders : Open(d)
  \/ Adopt \/ Restart

\* The engine answers, and an answer reaches the store.
Answers == \E c \in calls : Decode(c) \/ Reply(c) \/ Arrive(c)

-----------------------------------------------------------------------------
(* Properties.                                                             *)

\* Type invariant.
LibraryTypeOK ==
  /\ onDisk \in [Files -> [here : BOOLEAN, version : Versions]]
  /\ cache \in Seq([file : Files, stamp : Versions, picture : Versions]) /\ written \in 0 .. Interval
  /\ marked \subseteq Files
  /\ folder \in [at : Folders \cup {NoFolder}, nth : 0 .. MaxOpens, listed : SUBSET Files,
                stars : SUBSET Files, since : [Files -> Versions]]
  /\ watching \subseteq Files /\ thumbs \in [Files -> Versions]
  /\ {unreadable, inFlight, raced} \subseteq SUBSET Files /\ queue \in Seq(Files)
  /\ calls \subseteq CallType
  /\ replies \in Seq([at : Folders, listed : SUBSET Files, stars : SUBSET Files,
                       since : [Files -> Versions]])
  /\ {adrift, repicked} \subseteq BOOLEAN

Waiting(f) == \E c \in calls : c.file = f

\* Nothing stands in the queue while a place is free, and a place is taken only
\* for a call that will answer: so the queue moves for as long as it is not
\* empty, though folders are left with calls in flight and late answers free the
\* places of newer ones (pump, release).
QueueIsWorked ==
  /\ queue # <<>> => Cardinality(inFlight) >= Limit
  /\ \A f \in inFlight : Waiting(f)

\* A tile of the folder on screen has its picture or its failure, or is watched,
\* queued or asked for, unless the folder was opened over itself
\* (LibraryTile.tsx, adopt).
NoTileForgotten ==
  repicked \/ \A f \in folder.listed :
                 Settled(f) \/ f \in watching \/ Contains(queue, f) \/ Waiting(f)

\* A tile that asked gets its picture or its failure, if the folder stays.
AskedIsAnswered ==
  \A f \in Files : Contains(queue, f) \/ f \in inFlight
                     ~> Settled(f) \/ f \notin folder.listed \/ repicked

\* A tile shows its photograph as it was when the folder was listed, or newer,
\* whatever the cache has from before (thumbnail-cache.ts:38-41), unless the
\* file changed between the decode and the write, or the picture was asked for
\* by a folder left behind.
TilesAreFresh ==
  \A f \in folder.listed : thumbs[f] # 0 => thumbs[f] >= folder.since[f] \/ f \in raced

\* The cache never takes more than the budget and what may be written between
\* two prunings, restarts included: the count is lost with the process, and the
\* cache is pruned when it starts (main.ts:165).
CacheIsBounded == Len(cache) <= Budget + Interval

\* Once no listing is on its way, the stars on screen are the favourites in the
\* database, for the files that are listed (toggleFavourite, withFavourites),
\* unless a star could not be saved or was clicked over a newer listing.
StarsAreTheFavourites ==
  replies = <<>> /\ ~adrift => folder.stars = folder.listed \cap marked

===============================================================================
