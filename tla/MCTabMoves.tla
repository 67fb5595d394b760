---------------------------- MODULE MCTabMoves -----------------------------
(***************************************************************************)
(* Three windows, two tabs that start together in one window, two moves,   *)
(* both of which may wait at the same time. A tab can move on to the third *)
(* window or back to the one it came from.                                 *)
(***************************************************************************)
EXTENDS TabMoves

CONSTANTS w1, w2, w3, t1, t2, k1, k2

MCWindows == {w1, w2, w3}
MCTabs == {t1, t2}
MCTokens == {k1, k2}
MCHome == [w \in MCWindows |-> IF w = w1 THEN MCTabs ELSE {}]
=============================================================================
