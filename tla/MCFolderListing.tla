-------------------------- MODULE MCFolderListing --------------------------
(***************************************************************************)
(* A home folder, a folder in it that changes, a share that changes, and   *)
(* the Network page.                                                       *)
(***************************************************************************)
EXTENDS FolderListing

CONSTANTS home, docs, share, network

MCLocations == {home, docs, share, network}
MCShares == {share}
MCChanging == {docs, share}

\* Bound: the tab has the folder or the share in its history, not both, and
\* only that one changes.  Both together are five times the states.
Visits(l) == \E i \in DOMAIN tab.steps : tab.steps[i] = l
OneOfThem ==
    /\ Visits(docs) => disk[share] = [is |-> "folder", version |-> 0]
                       /\ ~Visits(share) /\ ~signingOut /\ ~removed
    /\ Visits(share) => disk[docs].version = 0

\* Above the share is only the server, which is not mounted as a folder.
MCAbove == [l \in MCLocations |-> IF l = docs THEN <<home>> ELSE <<>>]
=============================================================================
