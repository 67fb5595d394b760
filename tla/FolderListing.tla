--------------------------- MODULE FolderListing ---------------------------
(***************************************************************************)
(* One tab of a window listing its folder and keeping it current: the      *)
(* load, the reload after a change, the folder watch, the share that has   *)
(* to be mounted first, the folder that was removed, denied or is a file,  *)
(* Stop, and a server being signed out                                     *)
(* (crates/ox-app/src/window/loading.rs and loading/, listing_state.rs,    *)
(* stop_listing.rs, session.rs, navigation.rs, folder_view/watch.rs).      *)
(*                                                                         *)
(* Everything here runs on the window's main loop except the disk, the     *)
(* monitor thread and the answers of a mount or of a lookup, so each       *)
(* action is one handler of the loop or one event outside it.  Dropping a  *)
(* Listing aborts its task (folder_view/loader.rs), so the tab's one       *)
(* `listing` is all that may still deliver: the load generation, which     *)
(* rejects the same results a second time, is left out.                    *)
(*                                                                         *)
(* The rows of a folder are the version of the folder they were read at.   *)
(***************************************************************************)
EXTENDS Naturals, Sequences

CONSTANTS
    Locations,    \* the locations the tab can show
    Home,         \* the home folder
    Network,      \* the Network page, listed like a folder but not watched
    Shares,       \* the locations on the SMB share
    Changing,     \* the folders whose content or kind changes
    Above,        \* the folders above each location, the nearest first
    MaxSteps,     \* bound: the steps of the tab's history
    MaxChanges,   \* bound: the changes made on the disk
    MaxSearches   \* bound: the lookups in flight of one removed folder

ASSUME ListingAssumption ==
    /\ Home \in Locations \ Shares
    /\ Network \in Locations \ Shares
    /\ Shares \subseteq Locations
    /\ Changing \subseteq Locations
    /\ Above \in [Locations -> Seq(Locations)]
    /\ MaxSteps \in Nat \ {0}
    /\ MaxChanges \in Nat
    /\ MaxSearches \in Nat

VARIABLES
    tab,        \* the tab
    disk,       \* what each location is, and the version of its content
    changes,    \* how many changes the disk has had
    searches,   \* lookups in flight of the nearest folder above a removed one
    signingOut, \* the server is being signed out
    removed     \* the volume monitor has yet to report the share's unmount

vars == <<tab, disk, changes, searches, signingOut, removed>>

(***************************************************************************)
(* The data of the tab.                                                    *)
(***************************************************************************)

Modes == {"Navigate", "Reload"}
Kinds == {"folder", "file", "missing", "denied", "unmounted"}

\* Why a listing failed.
Reasons == {"missing", "denied", "unmounted", "refused"}

Rows == [of : Locations, version : 0..MaxChanges]

\* A listing: what it is doing, how it ended, and the rows a reload holds
\* back.  `front` remembers whether the tab was in front when it began.
Listings == [is : {"none", "reading", "ended", "mounting"}, mode : Modes,
             wasShown : BOOLEAN, retry : {"Allowed", "Used"}, read : BOOLEAN,
             found : Kinds, held : SUBSET Rows, front : BOOLEAN]

NoListing == [is |-> "none", mode |-> "Navigate", wasShown |-> FALSE,
              retry |-> "Used", read |-> FALSE, found |-> "folder",
              held |-> {}, front |-> FALSE]

\* A watch is being created on its thread, sees changes, has ended with the
\* unmount of its folder, or could not be created and is a timer instead.
Watches == [is : {"none", "starting", "live", "ended", "polling"},
            on : Locations, changed : BOOLEAN, gone : BOOLEAN]

NoWatch == [is |-> "none", on |-> Home, changed |-> FALSE, gone |-> FALSE]

WatchOf(l) == [is |-> "starting", on |-> l, changed |-> FALSE, gone |-> FALSE]

NotListed == [is |-> "NotListed", listedBefore |-> FALSE, reloadPending |-> FALSE]
Listed == [is |-> "Listed", listedBefore |-> TRUE, reloadPending |-> FALSE]

\* ListingState: a reload can be pending only while a listing runs.
States == {NotListed, Listed}
          \cup [is : {"Listing"}, listedBefore : BOOLEAN, reloadPending : BOOLEAN]

(***************************************************************************)
(* The tab's fields; three are the model's own: `asked` is who asked last  *)
(* for the location, `interrupted` that the last listing was stopped or    *)
(* its sign-in declined, and `unseen` that the folder changed after the    *)
(* last load began and before its watch existed.                           *)
(***************************************************************************)
Tabs == [steps : Seq(Locations), at : 1..MaxSteps, front : BOOLEAN,
         state : States, rows : SUBSET Rows,
         error : SUBSET [about : Locations, why : Reasons],
         listing : Listings, watch : Watches,
         changedWhileHidden : BOOLEAN, waitsToMount : BOOLEAN,
         asked : {"user", "application"}, interrupted : BOOLEAN, unseen : BOOLEAN]

NewTab(l, front) ==
    [steps |-> <<l>>, at |-> 1, front |-> front, state |-> NotListed,
     rows |-> {}, error |-> {}, listing |-> NoListing, watch |-> NoWatch,
     changedWhileHidden |-> FALSE, waitsToMount |-> FALSE,
     asked |-> "user", interrupted |-> FALSE, unseen |-> FALSE]

Uri(t) == t.steps[t.at]

(***************************************************************************)
(* ListingState.                                                           *)
(***************************************************************************)
Begun(s) ==
    [is |-> "Listing", reloadPending |-> FALSE,
     listedBefore |-> \/ s.is = "Listed"
                      \/ s.is = "Listing" /\ s.listedBefore]

\* Mutant: a listing that is stopped leaves the tab listing.
StaysListing(s) == s

Stopped(s) ==
    IF s.is = "Listed" \/ (s.is = "Listing" /\ s.listedBefore)
    THEN Listed ELSE NotListed

ListsAgain(s) == s.is = "Listing" /\ s.reloadPending

(***************************************************************************)
(* Loads.                                                                  *)
(***************************************************************************)

\* fail_load: a failed reload empties the rows, a first listing keeps what
\* arrived; the folder is no longer watched.
Failed(t, mode, why) ==
    [t EXCEPT !.rows = IF mode = "Reload" THEN {} ELSE @,
              !.error = {[about |-> Uri(t), why |-> why]},
              !.watch = NoWatch]

\* Mutant: the end of a listing leaves the reload pending.
EndedPending(t) == [t EXCEPT !.state.is = "Listed", !.listing = NoListing]

\* end_listing
Ended(t) == [t EXCEPT !.state = Listed, !.listing = NoListing]

\* keep_watching
Watched(t) ==
    [t EXCEPT !.watch = IF Uri(t) = Network THEN NoWatch
                        ELSE IF @.is # "none" /\ @.on = Uri(t) THEN @
                        ELSE WatchOf(Uri(t))]

\* begin_load
BegunLoad(t) ==
    [t EXCEPT !.listing = NoListing, !.state = Begun(@), !.error = {},
              !.interrupted = FALSE, !.unseen = FALSE]

Started(t, mode, wasShown, retry) ==
    [t EXCEPT !.listing = [NoListing EXCEPT !.is = "reading", !.mode = mode,
                              !.wasShown = wasShown, !.retry = retry,
                              !.front = t.front]]

\* Mutant: a navigation leaves the rows of the folder the tab left.
KeepRows(t) == t

\* clear_rows
Cleared(t) == [t EXCEPT !.rows = {}]

\* refuse_listing
Refused(t, mode, why) == Ended(Failed(t, mode, why))

\* load_tab: list the tab's location, from empty rows or over the old ones.
Loaded(t, mode) ==
    LET begun == BegunLoad(IF mode = "Navigate"
                           THEN [t EXCEPT !.waitsToMount = FALSE] ELSE t)
        shown == IF mode = "Navigate" THEN Cleared(begun) ELSE begun
    IN  IF signingOut /\ Uri(t) \in Shares
        THEN Refused(shown, mode, "refused")
        ELSE Started(Watched(shown), mode, t.error = {}, "Allowed")

\* Mutant: a change during a listing does not list the folder again.
ForgetReload(t) == t

\* The change waits for the listing that runs.
ReloadScheduled(t) == [t EXCEPT !.state.reloadPending = TRUE]

WaitsUntilShown(t) == ~t.front /\ Uri(t) \in Shares

\* folder_changed
FolderChanged(t) ==
    IF WaitsUntilShown(t) THEN [t EXCEPT !.changedWhileHidden = TRUE]
    ELSE IF t.state.is = "Listing" THEN ReloadScheduled(t)
    ELSE Loaded(t, "Reload")

\* The end of a listing: list once more when the folder changed meanwhile.
EndedListing(t) ==
    IF ListsAgain(t.state) THEN FolderChanged(Ended(t)) ELSE Ended(t)

\* Session::stop_reading and mark_stale
StoppedReading(t) ==
    [t EXCEPT !.listing = NoListing, !.watch = NoWatch, !.state = Stopped(@)]

MarkedStale(t) ==
    [StoppedReading(t) EXCEPT !.state = NotListed, !.error = {}, !.rows = {}]

\* show_disconnected: drop the rows of a listed tab whose share went away.
Disconnected(t) ==
    IF t.error = {} /\ t.state.is # "NotListed"
    THEN [StoppedReading(t) EXCEPT
             !.state = Listed, !.changedWhileHidden = FALSE, !.rows = {},
             !.error = {[about |-> Uri(t), why |-> "unmounted"]}]
    ELSE t

\* History::push, and the load of the location the tab moved to.
Pushed(t, l) ==
    IF Uri(t) = l THEN t
    ELSE [t EXCEPT !.steps = Append(SubSeq(t.steps, 1, t.at), l), !.at = t.at + 1]

Gone(t, l) == Loaded(Pushed(t, l), "Navigate")

\* There is room for one more step.
Room(t) == t.at < MaxSteps

(***************************************************************************)
(* The user, and another application.                                      *)
(***************************************************************************)

\* A tab was opened: in front, when it is listed at once, for the user or
\* for an application that asked to show the folder; or behind, when it is
\* listed once it is shown.
Init ==
    /\ disk \in [Locations -> [is : {"folder", "unmounted"}, version : {0}]]
    /\ \A l \in Locations : disk[l].is = "unmounted" => l \in Shares
    /\ \A l, m \in Shares : disk[l].is = disk[m].is
    /\ changes = 0
    /\ searches = [l \in Locations |-> 0]
    /\ signingOut = FALSE
    /\ removed = FALSE
    /\ \E l \in Locations :
          \/ tab = NewTab(l, FALSE)
          \/ tab = Started(Watched(BegunLoad(NewTab(l, TRUE))), "Navigate", TRUE, "Allowed")
          \/ tab = [Started(Watched(BegunLoad(NewTab(l, TRUE))), "Navigate", TRUE, "Allowed")
                       EXCEPT !.waitsToMount = TRUE, !.asked = "application"]

OnlyTab == UNCHANGED <<disk, changes, searches, signingOut, removed>>

\* navigate: the tab in front goes to l.
Navigate(l) ==
    /\ tab.front
    /\ Room(tab)
    /\ tab' = [Gone(tab, l) EXCEPT !.asked = "user"]
    /\ OnlyTab

\* go_history_steps: Back, Forward, or an entry of their menus.
Step(at) ==
    /\ tab.front
    /\ at \in DOMAIN tab.steps \ {tab.at}
    /\ tab' = [Loaded([tab EXCEPT !.at = at], "Navigate") EXCEPT !.asked = "user"]
    /\ OnlyTab

\* refresh: F5, and Try again.
Refresh ==
    /\ tab.front
    /\ tab' = [Loaded([tab EXCEPT !.waitsToMount = FALSE], "Reload")
                  EXCEPT !.asked = "user"]
    /\ OnlyTab

\* stop_listing: what arrived stays, and a reload that was pending is lost.
StopListing ==
    /\ tab.front
    /\ tab.state.is = "Listing"
    /\ tab' = [Ended(tab) EXCEPT !.interrupted = TRUE]
    /\ OnlyTab

\* Another tab comes to the front.
Leave ==
    /\ tab.front
    /\ tab' = [tab EXCEPT !.front = FALSE]
    /\ OnlyTab

\* show_tab: a tab that was never listed, or is stale, goes to its location;
\* one whose share changed behind is listed again.
Shown(t) ==
    LET shown == [t EXCEPT !.front = TRUE, !.changedWhileHidden = FALSE]
    IN  IF t.state.is = "NotListed"
        THEN [Loaded(shown, "Navigate") EXCEPT !.asked = "user"]
        ELSE IF t.changedWhileHidden THEN FolderChanged(shown) ELSE shown

ShowTab ==
    /\ ~tab.front
    /\ tab' = Shown(tab)
    /\ OnlyTab

\* reveal_items: an application asks to show items of the folder the tab
\* shows; the tab comes to the front and is listed again, but not mounted.
RevealItems ==
    /\ LET shown == IF tab.front THEN tab ELSE Shown(tab)
       IN  tab' = [Loaded([shown EXCEPT !.waitsToMount = TRUE], "Reload")
                      EXCEPT !.asked = "application"]
    /\ OnlyTab

(***************************************************************************)
(* The listing that runs.                                                  *)
(***************************************************************************)

\* receive_batch: the enumerator delivers what the folder holds.
ReceiveBatch ==
    LET l == Uri(tab)
        row == [of |-> l, version |-> disk[l].version]
    IN  /\ tab.listing.is = "reading"
        /\ ~tab.listing.read
        /\ disk[l].is = "folder"
        /\ tab' = IF tab.listing.mode = "Reload"
                  THEN [tab EXCEPT !.listing.read = TRUE, !.listing.held = tab.listing.held \cup {row}]
                  ELSE [tab EXCEPT !.listing.read = TRUE, !.rows = @ \cup {row}]
        /\ OnlyTab

\* The enumeration ends: with the rows of a folder, or with an error.
EnumerationEnds ==
    /\ tab.listing.is = "reading"
    /\ tab.listing.read \/ disk[Uri(tab)].is # "folder"
    /\ tab' = [tab EXCEPT !.listing.is = "ended", !.listing.found = disk[Uri(tab)].is]
    /\ OnlyTab

Ends(found) ==
    /\ tab.listing.is = "ended"
    /\ tab.listing.found = found

\* finish_load of a listing that succeeded; a reload takes the place of the
\* old rows.
FinishListed ==
    /\ Ends("folder")
    /\ tab' = EndedListing(IF tab.listing.mode = "Reload"
                           THEN [tab EXCEPT !.rows = tab.listing.held] ELSE tab)
    /\ OnlyTab

\* open_folder_of_file: the location is a file, so its folder is shown.
Folder(l) == IF Above[l] = <<>> THEN Home ELSE Head(Above[l])

FinishFile ==
    /\ Ends("file")
    /\ tab' = Loaded([tab EXCEPT !.steps[tab.at] = Folder(Uri(tab)),
                                 !.state = Stopped(@), !.watch = NoWatch], "Navigate")
    /\ OnlyTab

LeavesRemoved == tab.listing.mode = "Reload" /\ tab.listing.wasShown

\* leave_removed_folder: the folder was shown and is gone, so the nearest
\* folder above it is looked up.
FinishRemoved ==
    LET l == Uri(tab)
    IN  /\ Ends("missing")
        /\ LeavesRemoved
        /\ searches[l] < MaxSearches
        /\ tab' = Ended(tab)
        /\ searches' = [searches EXCEPT ![l] = @ + 1]
        /\ UNCHANGED <<disk, changes, signingOut, removed>>

\* Mutant: an application's request does not hold back the mount.
MountsAnyway == tab.listing.retry = "Allowed"

MayMount == tab.listing.retry = "Allowed" /\ ~tab.waitsToMount

\* mount_and_list_again
FinishUnmounted ==
    /\ Ends("unmounted")
    /\ MayMount
    /\ tab' = [tab EXCEPT !.listing.is = "mounting"]
    /\ OnlyTab

MayLeaveDenied ==
    /\ tab.listing.mode = "Navigate"
    /\ Uri(tab) \notin Shares
    /\ tab.front
    /\ tab.at > 1
    /\ tab.at = Len(tab.steps)

\* leave_denied_folder: back to the folder the tab came from, unless a
\* dialog is open.
FinishDenied ==
    /\ Ends("denied")
    /\ MayLeaveDenied
    /\ tab' = Loaded([Ended(tab) EXCEPT !.steps = SubSeq(tab.steps, 1, tab.at - 1),
                                        !.at = tab.at - 1], "Navigate")
    /\ OnlyTab

\* Every other failure, with a dialog open that of a denied folder too.
FinishFailed ==
    /\ \/ Ends("missing") /\ ~LeavesRemoved
       \/ Ends("unmounted") /\ ~MayMount
       \/ Ends("denied")
    /\ tab' = EndedListing(Failed(tab, tab.listing.mode, tab.listing.found))
    /\ OnlyTab

MountedDisk ==
    [l \in Locations |-> IF disk[l].is = "unmounted" THEN [disk[l] EXCEPT !.is = "folder"]
                         ELSE disk[l]]

\* list_after_mount: the share is mounted and is listed from empty rows.
Mounted ==
    /\ tab.listing.is = "mounting"
    /\ disk' = MountedDisk
    /\ tab' = [Started(Cleared(tab), "Navigate", tab.listing.wasShown, "Used")
                  EXCEPT !.listing.front = tab.listing.front]
    /\ UNCHANGED <<changes, searches, signingOut, removed>>

\* The mount failed, or a server being signed out refused it.
MountFailed ==
    /\ tab.listing.is = "mounting"
    /\ tab' = Refused(tab, tab.listing.mode, "refused")
    /\ OnlyTab

\* The user declined the sign-in: the listing ends without a message.
MountCancelled ==
    /\ tab.listing.is = "mounting"
    /\ tab' = [Ended(tab) EXCEPT !.interrupted = TRUE]
    /\ OnlyTab

(***************************************************************************)
(* The lookup for a removed folder.                                        *)
(***************************************************************************)
FoldersAbove(l) == {i \in DOMAIN Above[l] : disk[Above[l][i]].is = "folder"}

\* move_tab_out_of_removed_folder: only while the tab is still there.
NearestFound(l, folder) ==
    LET nearest == CHOOSE i \in FoldersAbove(l) : \A j \in FoldersAbove(l) : i <= j
    IN  /\ searches[l] > 0
        /\ FoldersAbove(l) # {}
        /\ folder = Above[l][nearest]
        /\ Uri(tab) = l => Room(tab)
        /\ tab' = IF Uri(tab) = l THEN Gone(tab, folder) ELSE tab
        /\ searches' = [searches EXCEPT ![l] = @ - 1]
        /\ UNCHANGED <<disk, changes, signingOut, removed>>

\* show_load_error: there is no folder above; the error is shown wherever
\* the tab is by now.
NoneFound(l) ==
    /\ searches[l] > 0
    /\ FoldersAbove(l) = {}
    /\ tab' = [Failed(tab, "Reload", "missing") EXCEPT
                  !.error = {[about |-> l, why |-> "missing"]}]
    /\ searches' = [searches EXCEPT ![l] = @ - 1]
    /\ UNCHANGED <<disk, changes, signingOut, removed>>

(***************************************************************************)
(* The disk and the folder watch.                                          *)
(***************************************************************************)

\* What a watch hears of a change of l, and what it misses.
Heard(t, l) ==
    IF t.watch.is = "live" /\ t.watch.on = l THEN [t EXCEPT !.watch.changed = TRUE]
    ELSE IF t.watch.is = "starting" /\ t.watch.on = l THEN [t EXCEPT !.unseen = TRUE]
    ELSE t

\* A folder changes, or is removed, denied, replaced by a file or is back.
\* The share itself is never a file, and nothing changes where it is not
\* mounted.
DiskChanges(l, kind) ==
    /\ changes < MaxChanges
    /\ kind = disk[l].is => kind = "folder"
    /\ kind = "file" => Above[l] # <<>>
    /\ disk[l].is # "unmounted"
    /\ changes' = changes + 1
    /\ disk' = [disk EXCEPT ![l] = [is |-> kind, version |-> changes + 1]]
    /\ tab' = Heard(tab, l)
    /\ UNCHANGED <<searches, signingOut, removed>>

\* The monitor of an unmounted folder says so and ends.
HeardUnmount(t) ==
    IF t.watch.on \notin Shares THEN t
    ELSE IF t.watch.is = "live" THEN [t EXCEPT !.watch.is = "ended", !.watch.gone = TRUE]
    ELSE IF t.watch.is = "starting" THEN [t EXCEPT !.unseen = TRUE]
    ELSE t

UnmountedDisk ==
    [l \in Locations |-> IF l \in Shares THEN [disk[l] EXCEPT !.is = "unmounted"]
                         ELSE disk[l]]

\* The server, or another program, unmounts the share.
ShareUnmounts ==
    /\ changes < MaxChanges
    /\ \E l \in Shares : disk[l].is # "unmounted"
    /\ changes' = changes + 1
    /\ disk' = UnmountedDisk
    /\ tab' = HeardUnmount(tab)
    /\ removed' = TRUE
    /\ UNCHANGED <<searches, signingOut>>

\* Another program mounts the share, with whatever it holds by then.
ShareMounts ==
    /\ changes < MaxChanges
    /\ \E l \in Shares : disk[l].is = "unmounted"
    /\ changes' = changes + 1
    /\ disk' = [l \in Locations |-> IF disk[l].is = "unmounted"
                                   THEN [is |-> "folder", version |-> changes + 1]
                                   ELSE disk[l]]
    /\ tab' = IF tab.watch.on \in Shares THEN Heard(tab, tab.watch.on) ELSE tab
    /\ UNCHANGED <<searches, signingOut, removed>>

\* monitor_until_stopped: the monitor exists, or cannot be created, as that
\* of a share often cannot and that of an unmounted one never.
WatchStarts(is) ==
    /\ tab.watch.is = "starting"
    /\ is = "polling" => tab.watch.on \in Shares
    /\ is = "live" => disk[tab.watch.on].is # "unmounted"
    /\ tab' = [tab EXCEPT !.watch.is = is]
    /\ OnlyTab

\* debounce_elapsed: the changes have settled.
ChangesSettle ==
    /\ tab.watch.changed
    /\ tab' = FolderChanged([tab EXCEPT !.watch.changed = FALSE])
    /\ OnlyTab

\* The refresh interval of a folder that cannot be watched has passed.
IntervalPasses ==
    /\ tab.watch.is = "polling"
    /\ tab' = FolderChanged(tab)
    /\ OnlyTab

\* folder_gone, then folder_unmounted: pending changes no longer matter.
FolderUnmounted ==
    /\ tab.watch.gone
    /\ tab' = Disconnected([tab EXCEPT !.watch.gone = FALSE, !.watch.changed = FALSE])
    /\ OnlyTab

\* mount_removed: the volume monitor reports the unmount.
MountRemoved ==
    /\ removed
    /\ removed' = FALSE
    /\ tab' = IF Uri(tab) \in Shares THEN Disconnected(tab) ELSE tab
    /\ UNCHANGED <<disk, changes, searches, signingOut>>

(***************************************************************************)
(* The server is signed out, in this window or in another one.             *)
(***************************************************************************)

\* leave_server: every window stops reading the server.
SignOutBegins ==
    /\ ~signingOut
    /\ signingOut' = TRUE
    /\ tab' = IF Uri(tab) \in Shares THEN StoppedReading(tab) ELSE tab
    /\ UNCHANGED <<disk, changes, searches, removed>>

SignOutFails ==
    /\ signingOut
    /\ signingOut' = FALSE
    /\ UNCHANGED <<tab, disk, changes, searches, removed>>

\* The server is signed out by another window: it is unmounted, and no
\* watch of this window is on it any more.
SignedOutElsewhere ==
    /\ signingOut
    /\ signingOut' = FALSE
    /\ disk' = UnmountedDisk
    /\ removed' = TRUE
    /\ UNCHANGED <<tab, changes, searches>>

\* finish_sign_out in this window: the tabs on the server are marked to be
\* listed again, and the tab in front goes to Network.
SignedOutHere ==
    LET stale == IF Uri(tab) \in Shares THEN MarkedStale(tab) ELSE tab
    IN  /\ signingOut
        /\ tab.front => Room(tab)
        /\ signingOut' = FALSE
        /\ disk' = UnmountedDisk
        /\ removed' = TRUE
        /\ tab' = IF tab.front THEN [Gone(stale, Network) EXCEPT !.asked = "user"]
                  ELSE stale
        /\ UNCHANGED <<changes, searches>>

(***************************************************************************)
(* The specification.                                                      *)
(***************************************************************************)
UserActs ==
    \/ \E l \in Locations : Navigate(l)
    \/ \E at \in 1..MaxSteps : Step(at)
    \/ Refresh
    \/ StopListing
    \/ Leave
    \/ ShowTab
    \/ RevealItems
    \/ SignOutBegins

Finish ==
    \/ FinishListed
    \/ FinishFile
    \/ FinishRemoved
    \/ FinishUnmounted
    \/ FinishDenied
    \/ FinishFailed

MountAnswers == Mounted \/ MountFailed \/ MountCancelled

SearchEnds == \E l \in Locations :
    \/ \E folder \in Locations : NearestFound(l, folder)
    \/ NoneFound(l)

DiskActs ==
    \/ \E l \in Changing, kind \in Kinds \ {"unmounted"} : DiskChanges(l, kind)
    \/ ShareUnmounts
    \/ ShareMounts

SignOutEnds == SignOutFails \/ SignedOutElsewhere \/ SignedOutHere

Next ==
    \/ UserActs
    \/ ReceiveBatch
    \/ EnumerationEnds
    \/ Finish
    \/ MountAnswers
    \/ SearchEnds
    \/ DiskActs
    \/ \E is \in {"live", "polling"} : WatchStarts(is)
    \/ ChangesSettle
    \/ IntervalPasses
    \/ FolderUnmounted
    \/ MountRemoved
    \/ SignOutEnds

Spec == Init /\ [][Next]_vars

(***************************************************************************)
(* Properties.                                                             *)
(***************************************************************************)

\* Every variable keeps its type, and a reload is pending only while a
\* listing runs (listing_state.rs: "One enum holds what were three flags").
TypeOK ==
    /\ tab \in Tabs
    /\ tab.at \in DOMAIN tab.steps
    /\ disk \in [Locations -> [is : Kinds, version : 0..MaxChanges]]
    /\ changes \in 0..MaxChanges
    /\ searches \in [Locations -> 0..MaxSearches]
    /\ signingOut \in BOOLEAN
    /\ removed \in BOOLEAN

\* The rows on screen, and those a reload holds back, are of the location
\* the tab shows: whatever was being listed, looked up or mounted when the
\* tab went elsewhere, nothing of it lands there (load_tab, receive_batch).
RowsBelong ==
    /\ \A row \in tab.rows : row.of = Uri(tab)
    /\ \A row \in tab.listing.held : row.of = Uri(tab)

\* A tab says that it lists its location exactly while something runs that
\* ends it: an enumeration or a mount, and nothing of a load it left behind.
BusyWhileListing == tab.state.is = "Listing" <=> tab.listing.is # "none"

\* Nothing is under way that would still change what the tab shows.
Settled ==
    /\ tab.state.is = "Listed"
    /\ tab.error = {}
    /\ ~tab.interrupted
    /\ searches[Uri(tab)] = 0

Current ==
    /\ disk[Uri(tab)].is = "folder"
    /\ tab.rows = {[of |-> Uri(tab), version |-> disk[Uri(tab)].version]}

\* "changes made while a listing runs are not lost" (loading.rs): a tab at
\* rest that says its folder is watched shows the folder as it is, or
\* remembers, behind another tab, that its share changed.
UpToDate ==
    \/ ~Settled
    \/ tab.watch.is # "live" \/ tab.watch.changed \/ tab.unseen
    \/ Current
    \/ ~tab.front /\ tab.changedWhileHidden

\* A share is mounted, which may ask for a sign-in, only for a listing that
\* began in front, and not while an application's request is the last thing
\* that was asked of the tab (waits_until_shown; Tab::waits_to_mount).
MountOnlyWhenAsked ==
    [][tab.listing.is # "mounting" /\ tab'.listing.is = "mounting"
       => tab.listing.front /\ tab.asked = "user"]_vars
=============================================================================
