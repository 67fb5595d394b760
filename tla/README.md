# OpenXplorer: verification project

OpenXplorer is a file manager in Rust on GTK 4. `ox-core`
(`src/native/crates/ox-core/src`) holds the logic without widgets, `ox-app`
(`src/native/crates/ox-app/src`) the windows. This directory holds TLA+ models of
the parts of the program whose correctness depends on what happens between two
steps: other programs, backends that fail or lie, answers of the user, other
windows, worker threads, a crash. Paths below are relative to `ox-core/src` unless
they say otherwise.

Contents: [The system](#the-system), [Modules](#modules),
[Runs](#runs), [Fairness](#fairness), [Proofs](#proofs),
[Disagreements found](#disagreements-found), [Known windows](#known-windows),
[Only model-checked](#only-model-checked), [Not modelled](#not-modelled).

## The system

What each part keeps, does, and must guarantee. **M** is modelled,
**-** left out (see [Not modelled](#not-modelled)).

### Writing the user's files

| Part | State | Operations | What is hard | What must hold | |
|---|---|---|---|---|---|
| Staged copy and Replace (`transfer/staged_copy.rs`, `commit.rs`, `staging.rs`) | the hidden staging and backup names it owns, the layout | build, publish, set aside, install, verify, restore, drop, clean up | devices lose answers and report false successes and absences; other programs write to the same folder; cancellation at any point | a replaced file exists under one of two names until the new one is in place; only complete items get the final name; what remains is reported; others' items stay | M |
| Move by copying (`transfer/copy.rs`, `item_failure.rs`, `source_removal.rs`, `move_by_copying.rs`) | records of what was copied, what is left out, remembered answers | copy a tree, ask, retry, skip, publish, inspect, remove | an error passes several levels; retries start over; the source changes meanwhile | nothing is removed whose content was not published; the report is true; answers do what they say | M |
| Batch engine (`transfer/engine.rs`) | attempts and report of each item | run_item, settle, finish | an answer about an inner entry is carried out by the item's loop | each item ends, once, with a true report | M (one item) |
| File system adapter (`gio_node/*`) | none | GIO calls behind the `Node` trait | what a failed call has done | (its answers are the environment of the modules above) | - |
| Operations (`ops/*`: conflicts, delete plan, Recycle Bin, rename, create, links, templates) | none of their own | plan, then run through the engine | partial failure of a plan | | - |
| Undo journal (`ops/journal.rs`, `undo.rs`, `undo_apply.rs`, `changed_copies.rs`) | two bounded stacks | record, take, put back, record a reversal | a reversal in flight while another operation records | a step is reversed once and names only what it can reverse; a failed reversal is not lost | M |
| Unfinished copies (`ops/unfinished.rs`) | marks in the cache folder, a lock on each | mark, unmark, find | crashes; several processes start at once | what a crash left is named, a running copy's item is not | M |
| Administrator copy and delete (`admin_copy*`, `admin_delete*`) | descriptors | walk, copy, delete | the kernel's path resolution | | - |

### Network

| Part | State | Operations | What is hard | What must hold | |
|---|---|---|---|---|---|
| Credentials (`network/session_credentials.rs`, `credential_store.rs`) | memory per window, one generation and one lock per host, the keyring | load, accept, persist, forget | three threads of control over three stores | a forgotten password never returns; the account saved last is used | M |
| Prompts (`network/prompts/*`, `mounting.rs`) | mounts in progress, their challenge | ask, answer, cancel, expire, close | answers that arrive after the mount ended | an account outlives its mount only if the mount succeeded | M |
| Sign-out (`network/sign_out.rs`, ox-app `window/network_sign_out.rs`, `mount_first.rs`) | the registry of servers being signed out | begin, unmount, forget, give up | a keyring that hangs; mounts that start meanwhile | the keyring cannot keep it from ending; nothing it forgets is left | M |
| Mount helper, mount table, discovery, volumes (`network/mount_*`, `discovery.rs`) | records of mounts of its own | mount, roll back, list | a step of several fails | what was mounted is recorded or unmounted | - |

### Services and windows

| Part | State | What is hard | |
|---|---|---|---|
| Search index (`search/*`) | one database, an owner elected by a file lock | an owner dies; changes arrive during a crawl | - |
| Update service (`update/*`) | stage of an update, windows that hold it up | checks, installs and restarts race with windows closing | - |
| Settings (`settings/*`) | one file under a lock | two processes save at once | - |
| Tab moves (`ops/tab_transfer.rs`) | pending moves | a tab has one owner although messages are refused, late or expired | M |
| Folder listing of a tab (ox-app `window/loading.rs`, `loading/*`, `listing_state.rs`) | rows, listing, watch, flags of a tab | listings, mounts, lookups and changes answer after the user moved on | M |
| Session, clipboard, drives, service menus, locations, formats, archives, checksums, permissions, translations | values and files read and written in one call | parsing and formatting | - |
| Dialogs, panes, theme, thumbnails, application start; web site, packaging, tools | | widgets, drawing, build scripts | - |

How they interact. A window plans an operation with `ops`, and runs it on a worker
with the engine; the worker calls back with questions and progress, and the user's
answers and cancellation reach it through shared state (`Cancellation`,
`FailureAnswer`). Its report becomes an entry of the undo journal. A location on a
server is mounted first: the window's `MountPrompts` answers GVfs from the
credentials of the session or asks the user. A sign-out goes from the window
through the registry, which all windows share, to GVfs and to a keyring worker. A copy or
move holds a mark in the cache folder while it runs, which the next start of the
application collects. Tabs list folders and watch them; a listing that finds its share
unmounted mounts it, and a sign-out stops the tabs that show the server.

## Modules

Seven components that share no state; no module composes them. The publication, one
step in `MoveByCopying`, is what `StagedCopy` models in detail, and the private item
of `UnfinishedMarks` is the one `StagedCopy` builds. `StagedCopy` implements
the abstract specification `Publication`, and `TabMoves` implements `TabOwners`.

| Module | Models |
|---|---|
| `StagedCopy` | one file built under a hidden name and published, in the four layouts of `StagedCopy::layout`, on a local folder, a network share or an MTP device |
| `Publication` | what copying or moving one file promises to whoever looks at the two names and reads the result |
| `StagedCopyProofs` | theorems about the two |
| `MoveByCopying` | one folder moved by copying: the walk, the questions, the removal of the source |
| `MoveByCopyingProofs` | theorems about it |
| `MCMoveByCopying` | the two trees TLC moves |
| `Credentials` | signing in to and out of one SMB host with its ports: windows, workers, keyring |
| `CredentialsProofs` | theorems about it: the keyring |
| `CredentialsMemoryProofs` | theorems about it: what windows remember, and which entry is preferred |
| `MCCredentials` | the symmetries of its constants |
| `UndoJournal` | the Undo and Redo stacks, and the windows that walk them while operations are recorded |
| `UndoJournalProofs` | theorems about it |
| `MCUndoJournal` | the items of three operations |
| `UnfinishedMarks` | the marks of running copies, processes that die, and the collection at the next start |
| `UnfinishedMarksProofs` | theorems about it |
| `MCUnfinishedMarks` | two copies into one folder |
| `TabMoves` | the broker that moves a tab to another window, its messages and timeouts |
| `TabOwners` | what moving a tab promises: one owner, moved in one step |
| `TabMovesProofs` | theorems about the two |
| `MCTabMoves` | three windows and two tabs |
| `FolderListing` | one tab listing its folder and keeping it current |
| `FolderListingProofs` | theorems about it |
| `MCFolderListing` | the locations of its run |

### StagedCopy

`fs` maps the six names the operation touches to a class of content: the old file,
the complete new one, a part of it, the staging folder, another program's item.
`pc` is the next call of the engine, and each action is one call with the branch the
code takes on its answer: `MoveAside`, `VerifyAside` and `JudgeAside` are
`commit::move_aside` and `AsideOutcome::of`; `Install`, `VerifyInstall`,
`RestoreBackup` and `DropBackup` are `Replacement::replace`; `DiscardStage` and
`DiscardFails` are the attempts of `clean_staging`. `MoveOutcomes` says what a
rename may have done when it answers (`move_item`, `move_on_device`,
`settle_failed_rename`), with the faults this takes from the budget `mishaps`. A
device resolves an item's old path to the published item for a while (`stale`), which
is why the code may not clean up by path. `Intrude` is the other program, `Cancel`
the user.

`Publication` knows no layouts, backends, faults, staging or cleanup, only what is under the
final name, what is set aside, whether an item to move is still at its origin, and the
result. The complete item appears in one step (`Publish`), which takes a moved item from its
origin; what it replaces is set aside, comes back to a free name, or is given up once the
complete item is there; a result is "done" only if it is, and points out what stays aside
even when the user cancelled. `Published` in `StagedCopy` is the mapping: the contents of
`fs["final"]`, `fs["backup"]` and `fs["origin"]`, and the report once `pc` is "finished".

### MoveByCopying

A path holds the version of its content, 0 when nothing is there and `Part` for a
part of a file. `frames` is the recursion of `copy_directory` and `copy_entry`, the
innermost folder first; a frame remembers how long the list of records was, to which
a failed attempt truncates it. `copied` holds the records that authorise a removal,
`landed` every content published at the destination: `RemovedWasCopied` compares
the two worlds. `step = "failed"` is `entry_failed` asking about an entry;
`SettleItem` is the loop of `run_item`. `Edit` is another program saving over,
removing or creating files in the source.

### Credentials

`memory[w][e]` is what the window `w` keeps for the port `e` and the generation it was
kept under; `saved` is the keyring with its two scopes; `lock` is the server's mutex
in `credential_store.rs`. A mount (`op`) goes from the request through GVfs's
questions to its end; `MountSucceeds` and `Accept` are two steps because
`keep_signed_in_account` compares the generation and `accept_memory` reads it again,
and the worker of a sign-out may advance it in between. While `main` names a mount,
the main thread is between the two, and no other step of the main thread happens.
`loads` and `saves` are the workers of `load` and `persist`, one step per keyring
call; `out` holds the sign-outs and their workers. An account has the name of
the mount it was typed in for, so two accounts are equal only if they are the same.

The operations of one port, `forget` and `forget_memory`, are not here: only tests
call them. GVfs keeps passwords of its own
(`org.gnome.keyring.NetworkPassword`), which the sign-out's worker deletes last; they
are not modelled. Disconnecting newest first, the refusal while files are being
written, and the questions about certificates and busy mounts are not modelled
either.

### UndoJournal

`undo` and `redo` are the stacks of `ops/journal.rs`; a step names an operation and the
parts (items) of it that the step reverses. `walk` holds the calls of `walk_journal`
(ox-app `window/file_ops/journal.rs`) under way: `Take` pops the step, `Refuse` and
`FailWhole` give it back, `Proceed` is the answered question about changed copies,
`Reverse` the worker, `Finish` the record of the inverse. Between two of these the
journal is not borrowed, so the other window's walks and `Conclude`, the end of any
operation, interleave. `MayBegin` is `begin_transfer`'s and `begin_operation`'s
refusal while something else writes.

`write_refusal` is a choice: it looks at operations and updates that are not in the
model. A reversal reverses any subset of the parts of its step, and an error of it
means that nothing changed, which is what `undo_apply.rs` does: only the look-ups in the
Recycle Bin before the first change can end in `Err`. Which paths a reversal touches is
left out, so two operations that touch the same file are independent.

### UnfinishedMarks

`mark[r]` is the file of the run `r`: whether the folder still has it, its text, and the
holder of its lock. `CreateMark`, `LockMark`, `WriteMark` are the three calls of
`UnfinishedMarks::mark`, which may fail at each (`MarkFails`), and the run goes on without
it. `ReadMarks` to `EndOfMarks` are `collect_leftovers_blocking`, one step per system call
on the worker; `Show` is the dialog on the main loop, which therefore is not between the
calls of `mark` on the same thread. `Crash` ends a process at any step: its locks go, its
marks and private items stay. It stands for every death of the process, also a regular
quit during a collection.

A run has one private item at a time. The engine's publication is one step. That the
application is unique on the session bus means that two processes are two application
IDs (a development build, a Flatpak) sharing one cache folder, or an old process that is
still dying.

### TabMoves and TabOwners

`pending` and `transfer` are `TabTransfers::pending`, an action is a call of it: `Offer`,
`Claim`, `Commit` and `RollBack` (the two answers to `acknowledge`), `Cancel`, `Expire`,
`WindowClosed`. The calls that expire first do so in the same step (`due` holds the
moves whose time is up). `mail` holds the messages queued for each window. The
windows' half of the protocol (`HandleReceive`, `HandleSettled`, `HandleDone`) is external:
at this commit ox-app moves tabs within the process in one call
(`window/tab_moves.rs`) and only the broker's tests play the windows; the model does what
the messages ask for. A window offers a tab only if it has no `Done` about it unread;
messages about one move arrive in their order, those about different moves in any; a
window that is gone is never ready. `TabOwners` knows neither tokens nor messages: a tab
belongs to one window, moves in one step, closes with its window. `KeepsTheTab` is
`Owners!Spec` under the mapping `OwnerOf`: the owner is the window that keeps the tab
and was not told to remove it, or was told to keep a copy it received. So the move
happens, abstractly, in the step in which the broker commits it.

### FolderListing

`tab` is a record of a tab's fields (ox-app `window/session.rs`, `window/listing_state.rs`)
with the listing it runs and its watch; `disk` says what each location is; `searches`
counts the look-ups of the nearest folder above a removed one, which nothing cancels. Every
handler of the main loop is one action: the user's (go to, back, Refresh, Stop, another
tab in front), a batch, the end of an enumeration (`Finish`, by kind: rows, file,
missing, unmounted, denied, failed), the mount's answers, a watch's report, the volume
monitor's, the refresh interval, a sign-out from its start to its end, an application's
request (ox-app `application.rs`) that shows the tab without the right to ask for a
sign-in.

Left out: the load generation and the location of a listing, because dropping a `Listing`
aborts its task and nothing else delivers rows, so a listing's rows are stamped with the
tab's location and a stale delivery is not expressible (`RowsBelong` is about the rows a tab
keeps when it moves); the landing pages, ZIP files, Recent, split panes and searches, which
list nothing on disk; `slow_location` and the commands Disconnect and Eject, which move the
tab as any navigation; and the steps of the look-up of the nearest folder, which is one
step. Three fields are not the code's: who asked last, whether the last listing was
interrupted, and whether a change fell into the gap before the watch exists.

## Runs

Every module has one type invariant, checked in its first run. PROJECT.json names,
for each property of each passing run, a plausible bug (an operator of the module
marked "Mutant") under which TLC finds the property violated.

| Run | Distinct states | Bounds | Shows |
|---|---|---|---|
| `staged_copy_flaky` | 21 823 | all layouts, 6 faults, false absences, another program under the final and the backup name | nothing of the user's or of the other program's is lost, what remains is reported, a report of success is true; the visible steps are those of `Publication`; the run ends |
| `move_nested` | 25 765 | a folder with a folder in it, 2 faults, 1 edit, 1 repetition | nothing that was not copied is removed; the move ends moved or kept |
| `move_flat` | 46 910 | a flat folder with an unstorable entry, 2 faults, 1 edit, 2 repetitions, Continue as administrator | a move reported done is complete; what is left out stays, Try again included |
| `credentials_keyring` | 1 077 597 | 1 window, 1 port, 2 mounts, 1 sign-out, failing keyring calls, the deadline, another process | no forgotten password returns to the keyring; only an unanswered unmount keeps a sign-out from its end |
| `credentials_windows` | 1 515 599 | 2 windows, 2 ports, 2 mounts, 1 sign-out | no window reuses a forgotten account; the account saved last is preferred |
| `undo_journal` | 49 245 | 2 windows, 3 operations (a copy of two items, a deletion, a rename), 2 walks, stacks of 2 | a step is held once, is true, is in order, and is not forgotten |
| `unfinished_marks` | 1 512 899 | 2 processes, 2 copies into one folder, 3 starts | what a dead copy left is named; a running copy's item only where another copy died |
| `tab_moves` | 32 395 | 3 windows, 2 tabs of one window, 2 moves | one owner, no stray copies, the abstract specification, copies are settled |
| `folder_listing` | 1 057 421 | Home, a folder or a share that changes, Network; 2 steps of history, 2 changes, 1 look-up | rows are of the location shown; busy exactly while listing; no change a watch heard is lost; mounts only when asked |
| `move_cancel_ignored`, `credentials_reused`, `unfinished_merged` | | | three [disagreements](#disagreements-found) |

Why the bounds are enough. In StagedCopy the longest rollback has five calls that can
fail (set aside, verify, install, verify, restore), so six faults leave one for the
cleanup; each name can be intruded once per fault. A device says a false "not found" in this
run, and another program takes the final name, before a publication, while the old file is
aside and after it came back, but not the first while the second lasts
(`FalseMissing = "apart"`): that window is [known](#known-windows). In MoveByCopying two levels are
enough for an error that passes a level, and three entries for one that fails between
one that was copied and one that was not; two repetitions let an attempt fail after a
retry. In Credentials two accounts and one sign-out give a forgotten and a surviving
account; two windows a stale memory; two ports the difference between clearing an
entry and clearing a host. In UndoJournal two walks and three operations let one walk take
the step another gave back while a third operation is recorded, and two steps fill a
stack. In UnfinishedMarks three starts are a process that crashes in a copy, one that
dies in a collection, and one that collects what both left, next to each other's
runs. In TabMoves three windows let a tab that was moved go on to a third or back, with
an older move still unsettled. In FolderListing two steps of history let a late answer
find the tab elsewhere, two changes let one fall into the listing that the other
caused; without the constraint that only the folder or the share is visited
(`OneOfThem`) the run has 5.7 million states and passes too, in about four minutes.
What is proved (see below) holds for every bound.

Deadlock is checked in `folder_listing`: a tab can always be refreshed or left. The other
models stop when their runs, mounts, moves or starts are used up, and in Credentials a
keyring call may hang.

## Fairness

- StagedCopy and MoveByCopying: `WF_vars(EngineStep)`. The worker runs until its item
  ends; that a backend call returns and that the user answers a question are assumed. Nothing is
  assumed of `Cancel`, `Intrude` and `Edit`.
- Credentials: weak fairness of `Accept` and of `SignOutStep`, the steps of a sign-out
  that wait for nobody (begin, start the worker, end, give up): the main loop goes on with
  what it has to do, which GLib guarantees. `Unmount`, the answer of GVfs to one unmount, is
  not among them, because `disconnect` awaits it without a deadline
  (`network/sign_out.rs:250`); nothing is assumed of GVfs, of workers or of the user.
  `SignOutEnds` says what follows: nothing but an unanswered unmount keeps a sign-out from
  its end, and past its unmounts it ends because its deadline passes, never because the
  keyring answers.
- TabMoves: for each window, weak fairness of handling a queued message, which the main
  loop does as long as the window exists. No timer, answer or user is assumed.
- UndoJournal, UnfinishedMarks and FolderListing state safety only: a question may stay
  open, a copy may run, a server may be silent for ever.

## Proofs

`tlapm` proves about 13 700 obligations in eight modules, for every value of the
constants that satisfies the assumptions named in the modules, with the conditions
stated. Every inductive invariant was checked by TLC under the configurations of the
passing runs before it was proved. A condition is never a convenience: without it the
property fails (see [Known windows](#known-windows) and
[Disagreements found](#disagreements-found)).

**StagedCopyProofs**, from `ConstantsAssumption`. `TypeOK` needs `TriesLeft`: an
attempt of the cleanup counts down, so it must have one left. The properties need an
invariant that says, for each step of the engine, where the files are: `ItemNamed`
(which name the item has in each layout), `ItemComplete` (once the upload is
finished, the item is complete under that name or published), `ReplacedKept` (what
the final name may hold at each step of a Replace) and `OldPlaced` (where the old
file is). Their conjunction is `Inv`; each is preserved by each action because the
one before it fixes the step. From it:

| Theorem | Property | Under |
|---|---|---|
| `TypeCorrect` | `TypeOK` | |
| `OldFileNeverLost` | `OldFileKept` | |
| `MovedItemNeverLost` | `MovedItemKept` | |
| `NoPartialPublished` | `OnlyCompleteItemsPublished` | |
| `PublishedForever` | `PublishedStays`, which the run checks as a part of `Publication` | |
| `OthersNeverRemoved` | `OthersKept` | nobody else writes the random sibling name |
| `HiddenOldAlwaysReported` | `HiddenOldReported` | no "not found" is false while another program's item has the final name |
| `LeftoverAlwaysReported` | `LeftoverReported` | |
| `DoneIsAlwaysTrue` | `DoneIsTrue` | nobody else writes the random sibling name |
| `EnginePublishes` | `PublishesAsPromised` | the conditions of `HiddenOldAlwaysReported` and `DoneIsAlwaysTrue` |
| `StepsRunOut` | `StepTaken`, a part of `RunEnds` | |

`HiddenOldAlwaysReported` and the theorems below it need what `Inv` does not say.
`HiddenOld`: what was set aside is hidden only while the Replace goes on, or with an error
that says so. `Staged`: an item the engine made under a staging name is recorded until it is
gone or reported. `Delivered`: where a report of success is still to be verified, the item
is under its hidden or its final name, and after that under the final one only. `Promising`:
only a Replace sets something aside, it is given up only next to the complete item, and
every report says how the run ended. From these, `PublicationStep` maps each step: the
renames of `Publish` and `Install` are `Publication`'s `Publish`, the other renames of a
Replace its `SetAside`, `PutBack` and `Discard`, an intruder its `Occupy`, `Finish` its
`Tell`; every other step is a stutter. With a false
"not found" while an intruder has the final name TLC finds a run that is none of
`Publication`. `StepsRunOut` needs
`TypeOK` and `TriesLeft` alone: each step of the engine lowers `StepsLeft`, which is at most
19 and which neither the user nor another program changes, so the engine never goes round in
a circle.

**MoveByCopyingProofs**, from `ConstantsAssumption` and `TreeAssumption` (`Parent` makes
the entries a tree below `Top`), for every tree, set of answers and number of faults,
repetitions and edits:

| Theorem | Property | Under |
|---|---|---|
| `TypeCorrect` | `TypeOK` | |
| `NothingUncopiedRemoved` | `RemovedWasCopied` | no edit between the last inspection and the removal (`LateEdits = FALSE`) |
| `NoPartEverLands` | `NoPartLands` | `exists()` answers truly (`FalseAbsence = FALSE`) |
| `DoneBringsAll` | `DoneIsComplete` | |
| `MovedOrKeptAlways` | `MovedOrKept` | Continue as administrator is not answered |
| `NothingLeftOutRemoved` | `LeftOutStays` | a flat tree, or Try again is not answered |

That a removal is authorised rests on the records: an attempt at a folder that fails
discards what it staged, so it must discard its records too, and none may remain of an
entry that can be copied again. `Walk` says that the frames are a path of the tree, each
entry still to do in the frame above it; `Kept` that the records below a frame's mark are
of entries outside the folder; `Faithful` that a record's version is what is staged, or
older than the source's; `Queued` the same of the removals that remain; `Parts` where
a part of a file may be. A second invariant, `EndInv`, accounts for every file:
while the copy goes on it is staged, landed, left out or below a folder still open
(`Complete`), and every record stays in the queue of removals until the source no longer
has its version (`StaleOrQueued`). A third, `LeftInv`, says that what is left out is done
with: nothing outside the frames can open a folder again (`ThroughOpens`), so what was
passed over is in no frame, no queue and no record, and the removals reach only entries
with nothing left out below them. Try again opens a folder of the tree once more, which
is where the condition comes from.

**CredentialsProofs**, from `ConstantsAssumption`, for any number of windows, ports,
mounts and sign-outs and without conditions on the other constants.
`ForgottenStaysForgotten` (`ForgottenNeverSaved`) is not inductive: a save that has passed its
check could write what a sign-out has just forgotten. The invariant says why it does
not. A save holds the lock from its check to its end, and the worker of a sign-out
holds it while it clears (`LockHeld`), so no save is between check and write when the
keyring is cleared. A sign-out knows only accounts of mounts that are older than the
generation it begins (`KnownOld`), so a save that has not checked yet will be dropped.
`GoneForGood` states the result: an old account that is neither in the keyring nor
being written never comes back. `ClearedGone` and `ForgottenGone` carry it from the
worker that cleared to the sign-out that reports. `Placed`, `Aged`, `Settled`,
`SavedBy` and `Begun` tie the records to each other: a mount that has not started has
no save, an entry was written by the save of its account in the scope the user chose.
The proof goes through what one step may do to a mount (`Moved`), to a sign-out
(`SignOutMoved`), to a save (`SaveMoves`) and to an entry (`EntryMoves`), so that
only these lemmas look at the actions one by one.

**CredentialsMemoryProofs**, on top of that invariant.

| Theorem | Property | Under |
|---|---|---|
| `ForgottenStaysUnused` | `ForgottenNeverReused` | no other thread runs between the worker's new generation and its clear (`ClearOverlaps = FALSE`) |
| `SavedLastIsPreferred` | `LastSavedIsPreferred` | no keyring call fails (`KeyringFails = FALSE`), no other process signs out (`OtherProcesses = FALSE`) |

The first follows an account through everything that can hold it: the windows' memory,
the loads, the mounts. When the worker advances the generation, all of them are older
(`BegunUnknown`); until the keyring is cleared no load begins (`StaleLoads`) and no
mount is between its check and its acceptance (`InTime`), which is where the condition
is used; once it is cleared a load finds nothing (`Gone`). `UnknownStep` is the one lemma
about a step, and the three parts `ForgettingUnknown`, `ClearedUnknown` and
`ForgottenUnknown` carry it from the worker to the report. An account whose scope
changes after the clear is still in its dialog, and known to its own mount only
(`Private`). For the second, `LatestKept` says that the preference is the last save's
except at the port whose save holds the lock, and that the keyring has that save's
entry.

**UndoJournalProofs**, from the assumptions in the module. All five properties are
proved without further conditions: `TypeCorrect`, `StepHasOneHolder`,
`StepsStayTrue`, `StaysInOrder`, `NothingIsForgotten`. `Ended` is the key: an operation
in the journal or in a walk's hands has ended, so what is recorded next is nowhere yet,
and a reversal changes only parts no other step names. For the order, `Ordered` says
that without an overlap one walk at a time holds a step, and that its place is between
the two stacks, so giving it back, or recording its inverse, keeps both sorted.

**UnfinishedMarksProofs**, from `MarksAssumption`. `TypeCorrect` (with the locks: `Texts`
and `Opened` say which run has written a text and which mark a collection has open) holds with
every window open. `NoRunningCopyNamed` (`RunningNotShown`) needs that no run ends between a
collection's opening its mark and trying its lock (`EndsOverlap = FALSE`). Then
`EndedUnmarked`: the mark of a run that ended is unlinked and no collection has it open or
locked, so what a collection reads is the text of a run that died. `NothingLeftIsForgotten`
(`LeftoversNamed`) needs `Closed`: no collection between the creation of a mark and its
lock, no death between the removal of the marks and the dialog, folders that can be
listed, no merged folders. Each of the four breaks it alone. `Kept`: a marked run's file
is in the folder and was not opened before it was locked; `Found`: an item lies where
its mark says, and who has searched has found it.

**TabMovesProofs**, from the assumptions in the module, for any number of windows, tabs
and moves: `TypeCorrect`, `CopiesAreSettled` (`NoStrayCopy`), `TabHasOneOwner`
(`OneOwner`) and `MovesKeepTheTab` (`KeepsTheTab`), the refinement: the initial states map
to those of `TabOwners`, a commit with an open destination is its `Move`, a window that
goes its `Close`, every other step a stutter. The invariant follows the messages:
`PendingQuiet` (nobody was told the end of a pending move), `OneEnding` (all that is
said about the end of one move agrees), `CommittedReceived` (who is told to keep a copy
has it), `SourceKeeps`, `FirmSettled` and `DoneSettled` (a tab moves on only when its last
move is settled).

**FolderListingProofs**, from `ListingAssumption`, for any locations, history and number
of changes: `TypeCorrect`, `RowsAlwaysBelong`, `BusyOnlyWhileListing`, `StaysUpToDate`.
`Shape` is what every handler keeps whatever the disk does (the tab is busy exactly while
something runs, rows and watch are of its location, nothing reads a server being signed
out); `Content` is what it knows of the disk: what was read and what is shown at rest
is the folder as it is, or a reload is pending, or the tab is excused.

`MountsWhenAsked` proves `MountOnlyWhenAsked` where the moves the tab makes by itself lead
to folders that are on no share and stay folders (`OwnMovesStayCalm`); without it TLC finds
the run described under [Known windows](#known-windows). `Tame` is what every handler keeps:
an application's request is held back by the flag, or the tab has since moved to a folder
that needs no mount (`HeldBack`); a listing of the share that may mount it began in front
(`BeganInFront`); what it found fits its location (`FoundRightly`). That a denied folder is
left only by a tab the user moved needs `NothingBehind`: while the flag holds, a first load
is the only one that goes back, and it has nothing to go back to. Each handler either keeps
the listing (`Kept`) or loads anew (`NoMount`), and only `FinishUnmounted` begins a mount.

## Disagreements found

Each is a run that fails, because the code does not do what a comment or a rule says.

- `move_cancel_ignored` (`transfer/engine.rs:577`). Continue as administrator is
  answered about an inner entry; the error passes on to its folder, which asks again
  although "the item runs again as administrator without asking twice"; the user answers
  Cancel; the item runs again as administrator all the same. When the second answer is
  Skip and a source cannot be removed, the same stale elevation runs an item again
  whose originals may be half removed.
- `credentials_reused` (`network/session_credentials.rs:169`). `forget_host` makes a
  new generation, and only then waits for the lock and clears the keyring. `load`
  takes no lock: a lookup in between finds the password that is about to be deleted
  and keeps it under the new generation; the window signs in with it after the
  sign-out. `ClearOverlaps = FALSE` closes this window for the run
  `credentials_windows`, in which nothing else reuses a forgotten account.
- `unfinished_merged` (ox-app `window/file_ops/transfer.rs:213`). A mark "names its
  destination folders", which the next start searches. It names the folder the user
  pasted into; a folder merged into an existing one stages its items in the inner folder
  (`ops/conflicts.rs:273`), which is not searched. After a crash the mark is removed and
  the item, for a move perhaps the only copy, is named nowhere.

## Known windows

Constants switch these on. Each needs another program, a backend or a death to act within
one round trip, or a random name to be guessed, and breaks the named property as soon as it
is open; the runs keep them closed to see what else could break it.

| Constant | Where | What happens | Breaks |
|---|---|---|---|
| `IntruderNames = {"stage"}` | `transfer/staged_copy.rs:264` | another program takes the sibling name (128 random bits) between its check and the upload, which is then cancelled: the cleanup deletes its item | `OthersKept` |
| `FalseMissing = "always"` with `IntruderNames = {"final"}` | `transfer/commit.rs:335` | a device says "not found" of the backup and another program's item has the final name: the old file is judged not to have been moved, and nothing names its backup | `HiddenOldReported` |
| `LateEdits` | `transfer/source_removal.rs:137` | a file saved between its last inspection and its removal is lost | `RemovedWasCopied` |
| `FalseAbsence` | `transfer/copy.rs:331` | `exists()` cannot answer, so the part of a skipped file stays in staging and is published with its folder | `NoPartLands` |
| `MarksOverlap` | `ops/unfinished.rs:82` | a collection locks a mark between its creation and its lock, finds it empty and removes it; the run goes on with a mark nobody can find | `LeftoversNamed` |
| `DiesBeforeShown` | `ops/unfinished.rs:124` | the process dies after the marks were removed and before the dialog | `LeftoversNamed` |
| `EndsOverlap` | `ops/unfinished.rs:109` | a run ends, and unlinks its mark (`:46`), between a collection's opening that mark and trying its lock: the lock is taken on the unlinked file, against "A mark that can be locked on the next start belongs to a run that never finished" (`:11`), the folder is searched although nothing died, and another copy's running item in it is named | `RunningNotShown` |
| `Unreachable` | `ops/unfinished.rs:165` | the folder cannot be listed at the next start (a share not mounted yet): nothing is found and the mark is removed | `LeftoversNamed` |

Reading the code showed more, of which no run is kept.

- What is left out is forgotten per item, not per attempt at a folder
  (`transfer/item_failure.rs:275`, against `:23`): an entry left out in an attempt that
  is retried is copied and removed, and still reported as left where it was. This is why
  `LeftOutStays` is checked, and proved, without Try again in a tree of folders.
- A tab that another application asked for mounts no share "until the user asks to connect
  with Try again (or F5), or takes the tab elsewhere" (ox-app `window/session.rs:149`). Every
  navigation clears the flag, as "the user took the tab elsewhere" (`window/loading.rs:117`),
  and so do those the tab makes itself: from a file to its folder, out of a removed folder,
  back from a denied one. When the share goes away before the next listing, it is mounted
  again, and the sign-in appears unasked. With a folder on the share (`Shares` with `docs`,
  `Above` leading from `docs` to `share`) this breaks `MountOnlyWhenAsked`.
- The description of the tab moves lists "an acknowledgement from the wrong window" among the
  endings that keep the source tab and "discard the capability" (`ops/tab_transfer.rs:9`); the code
  answers `NotPending` and changes nothing (`:214`), so the move stays pending. The model
  follows the code.
- An unmount that GVfs never answers (`network/sign_out.rs:250`) leaves the server marked as
  being signed out until the application ends: no window lists or mounts it, and a further
  sign-out is refused. `SignOutEnds` excepts this wait (`WaitsForUnmount`).
- After the deadline of a sign-out (`network/sign_out.rs:269`) the user is told that the
  saved credentials remain; the worker then deletes them, and those of a sign-in made
  since (against `network/error.rs:95`).
- Reads such as Open and Properties mount a share without asking the registry (ox-app
  `window/mount_first.rs:44`), although it promises that "no window mounts it again
  halfway through" (`network/sign_out.rs:50`).
- A window that once reused an account from the keyring goes on using it from memory after
  another process signed out, although `session_credentials.rs:212` says that the next
  challenge reads the keyring again (this holds only after a save).
- A Redo that fails as a whole (Cancel while the Recycle Bin is listed) after another
  window recorded an operation puts its step back on the Redo stack that the record had
  emptied (ox-app `window/file_ops/journal.rs:67`), against `ops/journal.rs:93`: "A new
  operation makes the undone ones impossible to redo". `InOrder` and `NothingForgotten`
  hold around it.
- A copy that is changed after the question about changed copies, or within the second its
  time was recorded in, is moved to the Recycle Bin unasked (ox-app
  `window/file_ops/journal.rs:46`).
- The look-up of the nearest folder above a removed one shows its error over whatever the
  tab shows by then, and drops its rows and watch (ox-app `window/loading/removed_folder.rs:54`),
  against `window/session.rs:2`: "Stable IDs and load generations reject stale callbacks."
- The same look-up takes the tab out of the folder although the folder is back and listed
  again by then: only the location is compared (`window/loading/removed_folder.rs:67`).
- A change between the end of a folder's listing and the existence of its watch is not seen
  (ox-app `window/loading.rs:227`; `folder_view/watch.rs` documents it): `unseen` excuses it.
- A failed sign-out leaves the tabs of the server unwatched or blank (ox-app
  `window/network_sign_out.rs:160`), and a declined sign-in is asked again by the refresh
  interval (`window/loading/mount_retry.rs:81`).
- The dialog about unfinished copies names ten items, though all their marks are removed;
  an item of a running copy in the folder of a crashed one is called left behind, and so is
  one in the folder of a copy that ended and whose mark could not be removed, which
  `ops/unfinished.rs:48` calls a false alarm that "lists nothing";
  Duplicate, the restores of Undo and of old versions make no mark; a mark is not synced, so
  a power cut may lose it.

## Only model-checked

- Liveness (`RunEnds`, `MoveEnds`, `SignOutEnds`, `CopySettles`) is beyond the prover,
  which reasons about neither fairness nor `ENABLED`. Of `RunEnds`, `StepsRunOut` proves for
  every layout and bound that the steps of the engine run out; that one is always possible
  until the run has ended is what TLC adds.

Every other property the passing runs check is proved, each under the condition its theorem
names.

## Not modelled

In the modelled parts:

- StagedCopy: a folder replaced by a folder (`Replacement::merge`), permission bits, the
  publication by the administrator helper, the identity check of a local staging
  folder, a device that completes a request after all answers. The success a device
  reports of a plain native move is trusted by the engine, so `DoneIsTrue` leaves it out.
- MoveByCopying: the nesting limit and the stop at aliases, renaming of entries the
  destination cannot store, modes and times, a change that leaves the metadata as it
  was; the batch around the one item.
- The others: see their sections.

Of the rest of the program, most of its 229 000 lines are widgets, parsing, formatting
and generated data, each handled in one call on one thread, with nothing between two
steps for a model to find:

- widgets and drawing: dialogs, menus, panes, the picker, theme, thumbnails,
  properties, the settings page, the folder view below the rows it is given, and tabs dragged between
  windows, which ox-app moves in one call;
- values read, checked and written in one call: the session snapshot, clipboard formats,
  drives, service menus, locations, entries, formats, grouping, translations, checksums,
  permissions, archives, versions;
- plans that run once through the engine modelled here: delete plan, Recycle Bin,
  restore, create, rename, batch rename, templates, links. What Undo sees of them is
  in `UndoJournal`;
- calls whose interesting half is the kernel's or a service's: the file system adapter,
  administrator copy and delete, private storage, mounts and discovery;
- components with a protocol of their own, which this project does not reach: the
  search index (one owner among processes, changes during a crawl), the update service
  (checks, installs and restarts against windows that hold them up), the settings file
  saved by two processes, and the mount helper's rollback;
- the web site, packaging, tools and the parity inventories.
