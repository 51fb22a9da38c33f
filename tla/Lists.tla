---------------------------------- MODULE Lists ----------------------------------
(***************************************************************************)
(* What filter() keeps of a list, and what a DELETE leaves of a table, one *)
(* element after the other, in their order.                                *)
(***************************************************************************)
EXTENDS Naturals, Sequences

Kept(list, S) ==
  LET kept[n \in 0 .. Len(list)] ==
        IF n = 0 THEN <<>>
        ELSE IF list[n] \in S THEN Append(kept[n - 1], list[n]) ELSE kept[n - 1]
  IN  kept[Len(list)]
==================================================================================
