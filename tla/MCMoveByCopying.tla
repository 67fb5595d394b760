--------------------------- MODULE MCMoveByCopying ---------------------------
(***************************************************************************)
(* Two small trees to move: one with a folder in it, where an error inside *)
(* passes two levels, and a flat one.                                      *)
(***************************************************************************)
EXTENDS MoveByCopying

NestedParent == [d |-> "top", f |-> "top", g |-> "d", n |-> "d"]
NestedFolders == {"top", "d"}
FlatParent == [f |-> "top", g |-> "top", u |-> "top"]
FlatFolders == {"top"}
=============================================================================
