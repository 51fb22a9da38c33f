------------------------------ MODULE PresetShelf ------------------------------
(***************************************************************************)
(* Saved looks: the panel that names, applies and deletes them             *)
(* (components/PresetsPanel.tsx), the store between it and the main        *)
(* process (store/editor.ts, ipc/handlers.ts), and the table they are kept *)
(* in, whose rows are read back field by field (store/database.ts), some   *)
(* of them written by an older build or by hand.                           *)
(*                                                                         *)
(* Abstracted: a look is a slider and a curve.  What applying one does to  *)
(* the stack is EditStack's and EditorStore's.                             *)
(***************************************************************************)
EXTENDS Integers, Sequences, SequencesExt

CONSTANTS
  Amounts,     \* what a slider, or a curve, can be; 0 is neutral
  Junk,        \* a stored value that is no number, or not there
  Garbled,     \* a text that is no JSON
  Categories, Unknown,  \* PRESET_CATEGORIES, and a category that is none of them
  Made,        \* bound: the looks made by hand
  Found,       \* bound: tables there may be already, of [id, category, text]
  MaxSaves, MaxAsked   \* bounds: presets saved, calls and answers on their way

Looks == [slider : Amounts, curve : Amounts]
Neutral == [slider |-> 0, curve |-> 0]
Texts == [slider : Amounts \cup {Junk}, curve : Amounts \cup {Junk}] \cup {Garbled}

ASSUME ShelfAssumption ==
  /\ 0 \in Amounts /\ Junk \notin Amounts /\ Garbled \notin Looks
  /\ "colour" \in Categories /\ Unknown \notin Categories
  /\ \A table \in Found : \A i \in DOMAIN table :
       /\ table[i].id \notin 1 .. MaxSaves
       /\ table[i].category \in Categories \cup {Unknown} /\ table[i].text \in Texts
  /\ Made \subseteq Looks /\ MaxSaves \in Nat /\ MaxAsked \in Nat

VARIABLES
  rows,       \* the table, the last updated first
  presets,    \* the store's list, as it last came back
  category, naming, blank,  \* the panel: its chip, the field, whether it says nothing
  look,       \* currentAdjustments
  asked,      \* calls on their way to the main process
  told,       \* lists on their way back
  listed,     \* history: a list has come back
  halfway,    \* history: a table was written and then could not be read
  made        \* history: what was on screen when each preset was named

shelfVars == <<rows, presets, category, naming, blank, look, asked, told, listed,
               halfway, made>>
panelVars == <<category, naming, blank>>

ShelfInit ==
  /\ rows \in Found /\ presets = <<>>
  /\ category = "colour" /\ naming = FALSE /\ blank = TRUE
  /\ look = Neutral
  /\ asked = <<>> /\ told = <<>> /\ listed = FALSE /\ halfway = FALSE /\ made = <<>>

-----------------------------------------------------------------------------
(* The table.                                                              *)

\* asCategory
AsCategory(value) == IF value \in Categories THEN value ELSE "colour"

\* readCurves
ReadCurve(text) == IF text.curve = Junk THEN 0 ELSE text.curve

\* Broken variant: a field that is not a number is taken as it is, and the curve
\* stays with the text.
ReadWithoutCurve(text) ==
  IF text = Garbled THEN Neutral
  ELSE [slider |-> IF text.slider = Junk THEN 0 ELSE text.slider, curve |-> 0]

\* readAdjustments: every field is checked on the way out.
ReadAdjustments(text) ==
  IF text = Garbled THEN Neutral
  ELSE [slider |-> IF text.slider = Junk THEN 0 ELSE text.slider, curve |-> ReadCurve(text)]

\* listPresets
ListPresets(table) ==
  [i \in DOMAIN table |-> [id |-> table[i].id, category |-> AsCategory(table[i].category),
                           adjustments |-> ReadAdjustments(table[i].text)]]

\* savePreset: the identifier is new (a time and a random tail), so nothing is
\* written over.
Inserted(call) ==
  <<[id |-> call.id, category |-> call.category, text |-> call.look]>> \o rows

\* deletePreset
Deleted(id) == SelectSeq(rows, LAMBDA row : row.id # id)

Written(call) ==
  CASE call.op = "list"   -> rows
    [] call.op = "save"   -> Inserted(call)
    [] call.op = "delete" -> Deleted(call.id)

\* Broken variant: the list is read before the table is written.
HandledBeforeWriting(call) ==
  rows' = Written(call) /\ told' = Append(told, ListPresets(rows)) /\ UNCHANGED halfway

\* A handler: the table is written and read, or it fails before or between.
Handled(call) ==
  \/ /\ rows' = Written(call) /\ told' = Append(told, ListPresets(Written(call)))
     /\ UNCHANGED halfway
  \/ UNCHANGED <<rows, told, halfway>>
  \/ rows' = Written(call) /\ rows' # rows /\ halfway' = TRUE /\ UNCHANGED told

HandlePresets ==
  /\ asked # <<>>
  /\ asked' = Tail(asked)
  /\ Handled(Head(asked))
  /\ UNCHANGED <<presets, panelVars, look, listed, made>>

-----------------------------------------------------------------------------
(* The store.                                                              *)

\* loadPresets, savePreset, deletePreset: a list that came back is adopted; a
\* failure leaves the one there is.
AdoptPresets ==
  /\ told # <<>>
  /\ presets' = Head(told) /\ told' = Tail(told) /\ listed' = TRUE
  /\ UNCHANGED <<rows, panelVars, look, asked, halfway, made>>

\* loadPresets, when the panel appears, which it does with an empty field.
ShowShelf ==
  /\ Len(asked) + Len(told) < MaxAsked
  /\ asked' = Append(asked, [op |-> "list"])
  /\ category' = "colour" /\ naming' = FALSE /\ blank' = TRUE
  /\ UNCHANGED <<rows, presets, look, told, listed, halfway, made>>

\* savePreset, and commit in the panel: a name that says nothing saves nothing,
\* and the field goes either way.
CommitName ==
  /\ blank' = TRUE
  /\ IF blank THEN UNCHANGED <<asked, made>>
     ELSE /\ Len(asked) + Len(told) < MaxAsked /\ Len(made) < MaxSaves
          /\ asked' = Append(asked, [op |-> "save", id |-> Len(made) + 1,
                                     category |-> category, look |-> look])
          /\ made' = Append(made, [category |-> category, look |-> look])

-----------------------------------------------------------------------------
(* The panel.  Whatever is pressed outside the field commits it first.     *)

Blurred == IF naming THEN CommitName ELSE UNCHANGED <<blank, asked, made>>

\* "Save", offered whether or not anything was touched; pressed with the field
\* open it commits the name and opens the field again.
PressSave ==
  /\ Blurred
  /\ naming' = TRUE
  /\ UNCHANGED <<rows, presets, category, look, told, listed, halfway>>

TypeName ==
  /\ naming
  /\ blank' = ~blank
  /\ UNCHANGED <<rows, presets, category, naming, look, asked, told, listed,
                 halfway, made>>

\* Enter, or the field loses the focus to something else in the window.
LeaveName ==
  /\ naming
  /\ CommitName
  /\ naming' = FALSE
  /\ UNCHANGED <<rows, presets, category, look, told, listed, halfway>>

\* Escape
DropName ==
  /\ naming
  /\ naming' = FALSE /\ blank' = TRUE
  /\ UNCHANGED <<rows, presets, category, look, asked, told, listed, halfway, made>>

ChooseCategory(c) ==
  /\ Blurred
  /\ naming' = FALSE /\ category' = c
  /\ UNCHANGED <<rows, presets, look, told, listed, halfway>>

\* applyPreset, on a row of the chosen category.
ApplyPreset ==
  /\ \E i \in DOMAIN presets :
       presets[i].category = category /\ look' = presets[i].adjustments
  /\ Blurred /\ naming' = FALSE
  /\ UNCHANGED <<rows, presets, category, told, listed, halfway>>

DeletePreset ==
  /\ ~naming /\ Len(asked) + Len(told) < MaxAsked
  /\ \E i \in DOMAIN presets :
       /\ presets[i].category = category
       /\ asked' = Append(asked, [op |-> "delete", id |-> presets[i].id])
  /\ UNCHANGED <<rows, presets, panelVars, look, told, listed, halfway, made>>

\* A slider or a curve is moved, or a look is pasted.
AdjustLook ==
  /\ ~naming /\ look' \in Made \ {look}
  /\ UNCHANGED <<rows, presets, panelVars, asked, told, listed, halfway, made>>

ShelfNext ==
  \/ HandlePresets \/ AdoptPresets \/ ShowShelf
  \/ PressSave \/ TypeName \/ LeaveName \/ DropName
  \/ \E c \in Categories : ChooseCategory(c)
  \/ ApplyPreset \/ DeletePreset \/ AdjustLook

-----------------------------------------------------------------------------
ShelfTypeOK ==
  /\ \A i \in DOMAIN rows : rows[i].text \in Texts
  /\ category \in Categories /\ {naming, blank, listed, halfway} \subseteq BOOLEAN
  /\ look \in Looks
  /\ \A i \in DOMAIN presets :
       presets[i].category \in Categories /\ presets[i].adjustments \in Looks

\* With nothing on its way the panel's list is the table's, the last saved first,
\* whatever was saved and deleted in a hurry - unless the table could be written
\* and then not read, which leaves a row the panel does not show.
ShelfShowsTheTable ==
  listed /\ ~halfway /\ asked = <<>> /\ told = <<>> => presets = ListPresets(rows)

\* A preset is, whenever it is listed, the look and the category that were on
\* screen when it was named, however the panel moved on before it was saved.
PresetsAreWhatWasNamed ==
  \A i \in DOMAIN presets :
    LET id == presets[i].id
    IN  id \in DOMAIN made =>
          presets[i].adjustments = made[id].look /\ presets[i].category = made[id].category
=============================================================================
