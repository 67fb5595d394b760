-------------------------- MODULE UnfinishedMarks --------------------------
(***************************************************************************)
(* What remains known of a copy or move when the application dies in it    *)
(* (ox-core ops/unfinished.rs; ox-app window/file_ops/unfinished.rs,       *)
(* running.rs, transfer.rs and application.rs).                            *)
(*                                                                         *)
(* A run writes a mark that names its destination folder and holds a lock  *)
(* on it until it ends. A process that starts collects the marks nobody    *)
(* has locked: it searches the folder each one names for private staging   *)
(* items, removes the mark, and shows the user the items. A process may    *)
(* die at any step, which releases its locks and leaves its marks and its  *)
(* private items. Collecting runs on a worker, next to the copies of its   *)
(* own process and of others, which share the cache folder.                *)
(*                                                                         *)
(* A mark is named after its run. The private item of a run is the one     *)
(* StagedCopy builds; a run has at most one at a time.                     *)
(***************************************************************************)
EXTENDS Naturals

CONSTANTS
    Processes,       \* the processes that use one cache folder
    Runs,            \* bound: the copies and moves started
    Dest,            \* the destination folder of each run, which its mark names
    Merged,          \* the folders in it that an incoming folder is merged into
    MaxLaunches,     \* bound: the processes started
    MarksOverlap,    \* a collection may open a mark that is not locked yet
    EndsOverlap,     \* a run may end between a collection's opening its mark and trying its lock
    DiesBeforeShown, \* a process may die between removing marks and its dialog
    Unreachable      \* the folders that a later start may not be able to list

None == "none"
NoLook == [at |-> "idle", due |-> {}, seen |-> {}, cur |-> None, found |-> {}]

ASSUME MarksAssumption ==
    /\ Processes \cap Runs = {} /\ None \notin Processes \cup Runs
    /\ DOMAIN Dest = Runs /\ None \notin {Dest[r] : r \in Runs}
    /\ DOMAIN Merged = Runs /\ \A r \in Runs : None \notin Merged[r]
    /\ MaxLaunches \in Nat
    /\ MarksOverlap \in BOOLEAN /\ EndsOverlap \in BOOLEAN /\ DiesBeforeShown \in BOOLEAN

VARIABLES
    up,       \* the processes that run
    launches, \* how many were started
    run,      \* how far each run is, and its process
    item,     \* the folder with the private item of each run
    mark,     \* the mark of each run: in the folder?, its text, who has locked it
    look,     \* the collection of each process
    shown     \* the runs whose item the user was shown

vars == <<up, launches, run, item, mark, look, shown>>

Folders == {Dest[r] : r \in Runs} \cup UNION {Merged[r] : r \in Runs}

\* Where the engine stages the items of a run (PlannedItem.destination_folder).
Places(r) == {Dest[r]} \cup Merged[r]

Linked == {r \in Runs : mark[r].linked}

\* The run died and left its private item; it had made its mark.
Left(r) == run[r].is = "dead" /\ item[r] # None /\ mark[r].text # None

\* The run holds the lock on its mark.
Marked(r) == \/ run[r].is = "locked"
             \/ run[r].is = "going" /\ mark[r].text # None

\* Whoever is past try_lock or lock() has the lock, and nobody else has it.
Locks ==
    /\ \A p \in Processes : look[p].at \in {"locked", "searched"} => mark[look[p].cur].lock = p
    /\ \A r \in Runs : mark[r].lock = r <=> Marked(r)

TypeOK ==
    /\ up \subseteq Processes /\ launches \in 0..MaxLaunches
    /\ run \in [Runs -> [is : {"new", "created", "locked", "going", "ended", "dead"},
                         by : Processes \cup {None}]]
    /\ item \in [Runs -> Folders \cup {None}]
    /\ mark \in [Runs -> [linked : BOOLEAN, text : Folders \cup {None},
                          lock : Processes \cup Runs \cup {None}]]
    /\ look \in [Processes -> [at : {"idle", "start", "next", "opened", "locked", "searched", "show"},
                               due : SUBSET Runs, seen : SUBSET Runs,
                               cur : Runs \cup {None}, found : SUBSET Runs]]
    /\ shown \subseteq Runs
    /\ Locks

Init ==
    /\ up = {} /\ launches = 0
    /\ run = [r \in Runs |-> [is |-> "new", by |-> None]]
    /\ item = [r \in Runs |-> None]
    /\ mark = [r \in Runs |-> [linked |-> FALSE, text |-> None, lock |-> None]]
    /\ look = [p \in Processes |-> NoLook]
    /\ shown = {}

(***************************************************************************)
(* Processes                                                               *)
(***************************************************************************)
\* Application::startup asks for a report, which begins on the main loop.
Launch(p) ==
    /\ p \notin up /\ launches < MaxLaunches
    /\ up' = up \cup {p} /\ launches' = launches + 1
    /\ look' = [look EXCEPT ![p].at = "start"]
    /\ UNCHANGED <<run, item, mark, shown>>

Active(r) == run[r].is \in {"created", "locked", "going"}

\* The process dies: a crash, a kill, a power cut, or its last window closing
\* during a collection. The kernel releases its locks.
Crash(p) ==
    /\ p \in up
    /\ DiesBeforeShown \/ \A r \in look[p].found : Left(r) => r \in Linked
    /\ LET Dead == {r \in Runs : Active(r) /\ run[r].by = p} IN
        /\ run' = [r \in Runs |-> IF r \in Dead THEN [run[r] EXCEPT !.is = "dead"] ELSE run[r]]
        /\ mark' = [r \in Runs |-> IF mark[r].lock \in Dead \cup {p}
                                   THEN [mark[r] EXCEPT !.lock = None] ELSE mark[r]]
    /\ up' = up \ {p} /\ look' = [look EXCEPT ![p] = NoLook]
    /\ UNCHANGED <<launches, item, shown>>

(***************************************************************************)
(* Runs.  mark_unfinished runs on the main thread, so a process makes one  *)
(* mark at a time; a mark that cannot be made does not stop the run.       *)
(***************************************************************************)
Marking(p) == \E r \in Runs : run[r].by = p /\ run[r].is \in {"created", "locked"}

\* create_new makes the mark, empty; or it cannot, and the run goes on without.
CreateMark(r, p) ==
    /\ run[r].is = "new" /\ p \in up /\ ~Marking(p)
    /\ \/ /\ run' = [run EXCEPT ![r] = [is |-> "created", by |-> p]]
          /\ mark' = [mark EXCEPT ![r].linked = TRUE]
       \/ /\ run' = [run EXCEPT ![r] = [is |-> "going", by |-> p]]
          /\ UNCHANGED mark
    /\ UNCHANGED <<up, launches, item, look, shown>>

\* lock() waits while a collection has the mark.
LockMark(r) ==
    /\ run[r].is = "created" /\ mark[r].lock = None
    /\ run' = [run EXCEPT ![r].is = "locked"]
    /\ mark' = [mark EXCEPT ![r].lock = r]
    /\ UNCHANGED <<up, launches, item, look, shown>>

WriteMark(r) ==
    /\ run[r].is = "locked"
    /\ run' = [run EXCEPT ![r].is = "going"]
    /\ mark' = [mark EXCEPT ![r].text = Dest[r]]
    /\ UNCHANGED <<up, launches, item, look, shown>>

\* Locking or writing fails: the file is closed, and stays without a text.
MarkFails(r) ==
    /\ run[r].is \in {"created", "locked"}
    /\ run' = [run EXCEPT ![r].is = "going"]
    /\ mark' = [mark EXCEPT ![r].lock = IF @ = r THEN None ELSE @]
    /\ UNCHANGED <<up, launches, item, look, shown>>

\* The engine builds an item under a private name, and publishes it.
Stage(r) ==
    /\ run[r].is = "going" /\ item[r] = None
    /\ \E folder \in Places(r) : item' = [item EXCEPT ![r] = folder]
    /\ UNCHANGED <<up, launches, run, mark, look, shown>>

Publish(r) ==
    /\ run[r].is = "going" /\ item[r] # None
    /\ item' = [item EXCEPT ![r] = None]
    /\ UNCHANGED <<up, launches, run, mark, look, shown>>

\* Mutant: the file is removed and never closed.
UnmarkedOpen(m, r) == IF m.lock = r THEN [m EXCEPT !.linked = FALSE] ELSE m

\* The run ends in any other way than a crash: dropping the UnfinishedMark
\* removes the file by its path and closes it; a collection that has opened the
\* file can lock it from then on. An item its cleanup could not remove stays,
\* and is in the run's own report.
Unmarked(m, r) == IF m.lock = r THEN [m EXCEPT !.linked = FALSE, !.lock = None] ELSE m

EndRun(r) ==
    /\ run[r].is = "going"
    /\ EndsOverlap \/ \A p \in Processes : ~(look[p].at = "opened" /\ look[p].cur = r)
    /\ run' = [run EXCEPT ![r].is = "ended"]
    /\ mark' = [mark EXCEPT ![r] = Unmarked(@, r)]
    /\ UNCHANGED <<up, launches, item, look, shown>>

(***************************************************************************)
(* The collection (collect_leftovers_blocking)                             *)
(***************************************************************************)
\* read_dir; without a window, or when the folder cannot be read, nothing.
ReadMarks(p) ==
    /\ look[p].at = "start"
    /\ \/ look' = [look EXCEPT ![p].at = "next", ![p].due = Linked]
       \/ look' = [look EXCEPT ![p].at = "idle"]
    /\ UNCHANGED <<up, launches, run, item, mark, shown>>

\* The next entry, opened. A mark created since may or may not be listed.
MayOpen(r) == MarksOverlap \/ run[r].is # "created"

OpenMark(p) ==
    /\ look[p].at = "next"
    /\ \E r \in Linked \ look[p].seen :
        /\ MayOpen(r)
        /\ look' = [look EXCEPT ![p].at = "opened", ![p].cur = r, ![p].seen = @ \cup {r}]
    /\ UNCHANGED <<up, launches, run, item, mark, shown>>

\* Mutant: the answer of try_lock is dropped.
TryLockIgnored(p) ==
    /\ look[p].at = "opened"
    /\ LET r == look[p].cur IN
        mark' = [mark EXCEPT ![r].lock = IF @ = None THEN p ELSE @]
    /\ look' = [look EXCEPT ![p].at = "locked"]
    /\ UNCHANGED <<up, launches, run, item, shown>>

\* try_lock: a mark somebody has locked belongs to a run still going.
TryLock(p) ==
    /\ look[p].at = "opened"
    /\ LET r == look[p].cur IN
        IF mark[r].lock = None
        THEN /\ mark' = [mark EXCEPT ![r].lock = p]
             /\ look' = [look EXCEPT ![p].at = "locked"]
        ELSE /\ look' = [look EXCEPT ![p].at = "next", ![p].cur = None]
             /\ UNCHANGED mark
    /\ UNCHANGED <<up, launches, run, item, shown>>

\* own_leftovers_in the folder the mark names: every private item directly in
\* it, whichever run it is of; nothing when the folder cannot be listed.
LeftoversIn(folder) == {q \in Runs : item[q] = folder}

Search(p) ==
    /\ look[p].at = "locked"
    /\ LET folder == mark[look[p].cur].text IN
        \E items \in {IF folder = None THEN {} ELSE LeftoversIn(folder)}
                     \cup (IF folder \in Unreachable THEN {{}} ELSE {}) :
            look' = [look EXCEPT ![p].at = "searched", ![p].found = @ \cup items]
    /\ UNCHANGED <<up, launches, run, item, mark, shown>>

\* remove_file, and the file is closed.
RemoveMark(p) ==
    /\ look[p].at = "searched"
    /\ mark' = [mark EXCEPT ![look[p].cur].linked = FALSE, ![look[p].cur].lock = None]
    /\ look' = [look EXCEPT ![p].at = "next", ![p].cur = None]
    /\ UNCHANGED <<up, launches, run, item, shown>>

EndOfMarks(p) ==
    /\ look[p].at = "next" /\ \A r \in look[p].due \cap Linked : r \in look[p].seen \/ ~MayOpen(r)
    /\ look' = [look EXCEPT ![p].at = "show"]
    /\ UNCHANGED <<up, launches, run, item, mark, shown>>

\* Mutant: like Sign out, the dialog gives way to a window that writes files.
ShowUnlessWriting(p) ==
    /\ look[p].at = "show" /\ ~Marking(p)
    /\ shown' = IF \E r \in Runs : run[r].by = p /\ Active(r) THEN shown ELSE shown \cup look[p].found
    /\ look' = [look EXCEPT ![p] = NoLook]
    /\ UNCHANGED <<up, launches, run, item, mark>>

\* report_unfinished_operations shows the dialog, on the main loop.
Show(p) ==
    /\ look[p].at = "show" /\ ~Marking(p)
    /\ shown' = shown \cup look[p].found
    /\ look' = [look EXCEPT ![p] = NoLook]
    /\ UNCHANGED <<up, launches, run, item, mark>>

CollectLeftovers(p) ==
    ReadMarks(p) \/ OpenMark(p) \/ TryLock(p) \/ Search(p) \/ RemoveMark(p) \/ EndOfMarks(p) \/ Show(p)

RunTransfer(r) ==
    \/ \E p \in Processes : CreateMark(r, p)
    \/ LockMark(r) \/ WriteMark(r) \/ MarkFails(r)
    \/ Stage(r) \/ Publish(r) \/ EndRun(r)

Next ==
    \/ \E p \in Processes : Launch(p) \/ Crash(p) \/ CollectLeftovers(p)
    \/ \E r \in Runs : RunTransfer(r)

Spec == Init /\ [][Next]_vars

(***************************************************************************)
(* Properties                                                              *)
(***************************************************************************)
\* "While a copy or move runs, a mark in the cache directory names its
\* destination folders": the item of a run that died is never forgotten. The
\* user was shown it, or will be: a collection has it in hand, or its mark
\* waits for the next start, and the folder the mark names is where it is.
LeftoversNamed ==
    \A r \in Runs : Left(r) =>
        \/ r \in shown
        \/ \E p \in up : r \in look[p].found
        \/ r \in Linked /\ mark[r].text = item[r]

\* "A mark that can be locked on the next start belongs to a run that never
\* finished": a collection names the item of a run only when that run is over, by
\* a death or with the item in its own report, or when a run has died that was to
\* write to the folder the item is in.
ShownByRight(r) ==
    \/ run[r].is \in {"dead", "ended"}
    \/ \E q \in Runs : run[q].is = "dead" /\ Dest[q] = item[r]
RunningNotShown == [][\A p \in Processes, r \in Runs : r \in look'[p].found \ look[p].found => ShownByRight(r)]_vars
=============================================================================
