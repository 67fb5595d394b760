----------------------------- MODULE TabOwners -----------------------------
(***************************************************************************)
(* What moving a tab between windows promises, without tokens, messages or *)
(* timeouts: every tab belongs to exactly one window, moves to another     *)
(* window in one step, and ends only with the window it belongs to.        *)
(***************************************************************************)
CONSTANTS Windows,      \* the windows of the process
          Tabs,         \* the tabs that may move
          NoWindow,     \* the owner of a tab that closed with its window
          FirstOwner    \* where each tab is at the start

VARIABLES owner,        \* the window each tab belongs to
          closed        \* the windows that closed

vars == <<owner, closed>>

Init == owner = FirstOwner /\ closed = {}

\* A tab changes its window. Nothing is ever between two windows.
Move(tab, window) ==
    /\ owner[tab] \in Windows
    /\ window \in Windows \ closed
    /\ owner' = [owner EXCEPT ![tab] = window]
    /\ UNCHANGED closed

\* A window closes with the tabs that belong to it, and with no other.
Close(window) ==
    /\ window \in Windows \ closed
    /\ closed' = closed \union {window}
    /\ owner' = [tab \in Tabs |-> IF owner[tab] = window THEN NoWindow ELSE owner[tab]]

Next == (\E tab \in Tabs, window \in Windows : Move(tab, window))
        \/ (\E window \in Windows : Close(window))

Spec == Init /\ [][Next]_vars
=============================================================================
