--------------------------- MODULE MCUndoJournal ---------------------------
(***************************************************************************)
(* Instances of UndoJournal: what each operation looks up in the Recycle   *)
(* Bin, and the symmetry of its windows, walks and items.                  *)
(***************************************************************************)
EXTENDS UndoJournal, TLC

CONSTANTS Copy, Trash, Rename

\* A copy of two items, so that a reversal may be partial; others of one.
MCItems == [o \in Operations |-> IF o = Copy THEN {"c1", "c2"} ELSE {"i"}]

\* Undo of a deletion restores it, Redo of an undone copy restores the copy.
MCLists == [o \in Operations |-> IF o = Trash THEN {"undo"} ELSE IF o = Copy THEN {"redo"} ELSE {}]

Symmetry == Permutations(Windows) \union Permutations(Walks)
=============================================================================
