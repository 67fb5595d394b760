------------------------- MODULE MCUnfinishedMarks -------------------------
(***************************************************************************)
(* Two copies into one folder, by any of two processes.                    *)
(***************************************************************************)
EXTENDS UnfinishedMarks, TLC

CONSTANTS target, inner

MCDest == [r \in Runs |-> target]
Flat == [r \in Runs |-> {}]
WithInner == [r \in Runs |-> {inner}]

Symmetry == Permutations(Processes) \cup Permutations(Runs)
=============================================================================
