----------------------------- MODULE StagedCopy -----------------------------
(***************************************************************************)
(* One file copied, or moved natively, to its final name: the staging of   *)
(* transfer/staged_copy.rs, the Replace commit of transfer/commit.rs, the  *)
(* cleanup of transfer/staging.rs and the end of run_item in               *)
(* transfer/engine.rs, over a folder another program also writes to and a  *)
(* backend that may fail, report a success it did not deliver, or lose the *)
(* answer to a rename it finished.                                         *)
(*                                                                         *)
(* The folder is a function from the names the operation touches to what   *)
(* is stored there.  Contents are classes: the user's old file, the        *)
(* complete incoming file, a part of it, the private staging folder, and   *)
(* the items of another program.                                           *)
(***************************************************************************)
EXTENDS Naturals

CONSTANTS
    Layouts,       \* the ways a run may build the item
    MaxMishaps,    \* bound: backend faults and foreign writes in one run
    IntruderNames, \* the names another program may create an item under
    FalseMissing   \* when a device may say "not found" of a path it failed to look up

LayoutKind == {"payload", "sibling", "sameDevice", "native"}

\* "final" is the requested name; "stage" the hidden sibling name, which is
\* the item itself or the private folder; "landed" and "renamed" are names in
\* that folder; "backup" holds a replaced file; "origin" is where an item
\* that is moved natively comes from.
Name == {"final", "stage", "landed", "renamed", "backup", "origin"}
Content == {"none", "old", "new", "partial", "folder", "other", "foreign"}

ASSUME ConstantsAssumption ==
    /\ Layouts \subseteq LayoutKind
    /\ MaxMishaps \in Nat
    /\ IntruderNames \subseteq {"final", "stage", "backup"}
    /\ FalseMissing \in {"never", "apart", "always"}

VARIABLES
    run,        \* what was chosen before the run: layout, backend, policy
    fs,         \* what is stored under each name
    stale,      \* a device still resolves the item's old path to "final"
    pc,         \* the next step of the engine
    item,       \* the name of the item to publish
    recorded,   \* ItemStaging.stage is set: cleanup may remove it
    cause,      \* the error a Replace reports once it has rolled back
    err,        \* the error the attempt ended with
    tries,      \* cleanup attempts left
    report,     \* what TransferResult says
    cancelled,  \* the user cancelled
    mishaps     \* backend faults and foreign writes still to come

vars == <<run, fs, stale, pc, item, recorded, cause, err, tries, report, cancelled, mishaps>>

Step == {"reserve", "upload", "uploading", "place", "publish", "reserveBackup", "aside",
         "verifyAside", "judge", "install", "verifyInstall", "restore", "dropBackup", "verify",
         "removeFolder", "record", "cleanup", "finished"}
Reply == {"none", "failed", "exists", "cancelled", "recovery"}
Report == [done : BOOLEAN, errors : BOOLEAN, cancelled : BOOLEAN, recovery : BOOLEAN, leftover : BOOLEAN]

-----------------------------------------------------------------------------
(* What the backend answers                                                *)

Device == run.place = "device"
Budget(n) == n <= mishaps /\ mishaps' = mishaps - n

\* Names of one folder: a device renames within a folder and settles a failed
\* rename by looking; between folders it moves and reports what it was told.
SameFolder(a, b) == {a, b} \subseteq {"final", "stage", "backup"} \/ {a, b} \subseteq {"landed", "renamed"}
Moved(a, b) == [fs EXCEPT ![a] = "none", ![b] = fs[a]]

\* The outcomes of Node::move_native(a, b): the reply, the folder afterwards
\* and the faults it takes.  A move never overwrites.  A device may report
\* success without moving; a rename may be finished although an error came
\* back, which on a device takes a failed relisting too.
MoveOutcomes(a, b) ==
    IF fs[a] = "none" THEN {<<"failed", fs, 0>>}
    ELSE IF fs[b] # "none" THEN {<<"exists", fs, 0>>, <<"failed", fs, 1>>}
    ELSE {<<"ok", Moved(a, b), 0>>, <<"failed", fs, 1>>}
         \cup (IF Device THEN {<<"ok", fs, 1>>} ELSE {})
         \cup (IF Device /\ SameFolder(a, b) THEN {<<"failed", Moved(a, b), 2>>} ELSE {})
         \cup (IF run.place = "network" \/ (Device /\ ~SameFolder(a, b))
               THEN {<<"failed", Moved(a, b), 1>>} ELSE {})

\* "apart": not while another program's item has the final name.
MayMislead == Device /\ \/ FalseMissing = "always"
                        \/ FalseMissing = "apart" /\ fs["final"] # "other"

\* The answers of Node::info(n) and the faults they take.  "missing" is
\* definite, except that a device says it of a path it failed to look up.
Answers(n) ==
    {<<IF fs[n] = "none" THEN "missing" ELSE "present", 0>>, <<"unknown", 1>>}
    \cup (IF MayMislead THEN {<<"missing", 1>>} ELSE {})

\* verify_installation: both folders are relisted, so only a failure to ask
\* can be wrong, and it never counts as success.
IsInstalled(from, to) == fs[to] # "none" /\ fs[from] = "none"
VerifyInstallation(from, to, installed) ==
    \/ installed = IsInstalled(from, to) /\ stale' = FALSE /\ UNCHANGED mishaps
    \/ ~installed /\ Budget(1) /\ UNCHANGED stale

-----------------------------------------------------------------------------
(* Initial states: the item to copy or move is chosen, nothing is built    *)

Runs == {r \in [layout : Layouts, place : {"local", "network", "device"}, replace : BOOLEAN,
                oneStep : BOOLEAN, sameName : BOOLEAN, had : BOOLEAN] :
            /\ r.layout \in {"sibling", "sameDevice"} => r.place = "device"
            /\ r.layout = "payload" => r.place # "device"
            /\ r.place = "device" => ~r.oneStep
            /\ r.place = "local" => r.oneStep
            /\ r.layout # "sameDevice" => r.sameName
            \* Without Replace the name was free when it was chosen.
            /\ ~r.replace => ~r.had}

FirstName(layout) == CASE layout = "native" -> "origin" [] layout = "sibling" -> "stage" [] OTHER -> "landed"

Init ==
    /\ run \in Runs
    /\ fs = [n \in Name |-> CASE n = "final" /\ run.had -> "old"
                              [] n = "origin" /\ run.layout = "native" -> "new"
                              [] OTHER -> "none"]
    /\ stale = FALSE
    /\ pc = IF run.layout = "native" THEN "publish" ELSE "reserve"
    /\ item = FirstName(run.layout)
    /\ recorded = FALSE
    /\ cause = "none"
    /\ err = "none"
    /\ tries = IF run.place = "device" THEN 3 ELSE 1
    /\ report = [done |-> FALSE, errors |-> FALSE, cancelled |-> FALSE, recovery |-> FALSE,
                 leftover |-> FALSE]
    /\ cancelled = FALSE
    /\ mishaps = MaxMishaps

Goto(step) == pc' = step /\ UNCHANGED err
Fail(reply) == pc' = "record" /\ err' = reply
Put(n, content) == fs' = [fs EXCEPT ![n] = content]
UNCHANGED_RUN == UNCHANGED <<run, report, tries, cancelled>>

-----------------------------------------------------------------------------
(* Building the staging                                                    *)

\* build_sibling: the name must be free; it is recorded before the upload.
ReserveSibling ==
    /\ pc = "reserve" /\ run.layout = "sibling"
    /\ \/ fs["stage"] # "none" /\ Fail("failed") /\ UNCHANGED <<recorded, mishaps>>
       \/ fs["stage"] = "none" /\ Goto("upload") /\ recorded' = TRUE /\ UNCHANGED mishaps
       \* exists() is also false when the backend cannot answer.
       \/ fs["stage"] # "none" /\ Budget(1) /\ Goto("upload") /\ recorded' = TRUE
    /\ UNCHANGED <<fs, stale, item, cause>> /\ UNCHANGED_RUN

\* build_in_folder: an exclusive create_directory, made private at once.
CreateFolder ==
    /\ pc = "reserve" /\ run.layout \in {"payload", "sameDevice"}
    /\ \/ cancelled /\ Fail("cancelled") /\ UNCHANGED <<fs, recorded, mishaps>>
       \/ ~cancelled /\ fs["stage"] # "none" /\ Fail("exists") /\ UNCHANGED <<fs, recorded, mishaps>>
       \/ ~cancelled /\ Budget(1) /\ Fail("failed") /\ UNCHANGED <<fs, recorded>>
       \/ /\ ~cancelled /\ fs["stage"] = "none" /\ Put("stage", "folder") /\ recorded' = TRUE
          /\ \/ Goto("upload") /\ UNCHANGED mishaps
             \/ Budget(1) /\ Fail("failed")  \* secure_local_staging
    /\ UNCHANGED <<stale, item, cause>> /\ UNCHANGED_RUN

\* Copier::copy before the first byte: the cancellation, the source, and the
\* target's name, which copy_file never overwrites.
StartUpload ==
    /\ pc = "upload"
    /\ \/ cancelled /\ Fail("cancelled") /\ UNCHANGED <<fs, recorded, mishaps>>
       \/ ~cancelled /\ Budget(1) /\ Fail("failed") /\ UNCHANGED <<fs, recorded>>
       \/ /\ ~cancelled /\ fs[item] # "none" /\ Fail("exists")
          /\ recorded' = (recorded /\ run.layout # "sibling")
          /\ UNCHANGED <<fs, mishaps>>
       \/ /\ ~cancelled /\ fs[item] = "none" /\ Put(item, "partial") /\ Goto("uploading")
          /\ UNCHANGED <<recorded, mishaps>>
    /\ UNCHANGED <<stale, item, cause>> /\ UNCHANGED_RUN

FinishUpload ==
    /\ pc = "uploading"
    /\ \/ Put(item, "new") /\ UNCHANGED mishaps
       \* CopyObject reported success but the copy is not where it was asked.
       \/ /\ run.layout = "sameDevice"
          /\ Put(item, "none") /\ Budget(1)
    /\ Goto(IF run.layout = "sameDevice" THEN "place" ELSE "publish")
    /\ UNCHANGED <<stale, item, recorded, cause>> /\ UNCHANGED_RUN

\* Mutant: the error of the copy is ignored and its part is published.
AbortIgnored ==
    /\ pc = "uploading" /\ Budget(1) /\ Goto("publish")
    /\ UNCHANGED <<fs, stale, item, recorded, cause>> /\ UNCHANGED_RUN

\* The copy stops: cancelled, or failed; the backend may discard the part.
AbortUpload ==
    /\ pc = "uploading"
    /\ \/ cancelled /\ Fail("cancelled") /\ UNCHANGED mishaps
       \/ Budget(1) /\ Fail("failed")
    /\ \E content \in {"partial", "none"} : Put(item, content)
    /\ UNCHANGED <<stale, item, recorded, cause>> /\ UNCHANGED_RUN

\* rename_device_copy: the copy must be in the folder; it gets its final name.
PlaceDeviceCopy ==
    /\ pc = "place"
    /\ \/ fs[item] = "none" /\ Fail("failed") /\ UNCHANGED <<fs, item, mishaps>>
       \/ Budget(1) /\ Fail("failed") /\ UNCHANGED <<fs, item>>
       \/ fs[item] # "none" /\ run.sameName /\ Goto("publish") /\ UNCHANGED <<fs, item, mishaps>>
       \/ /\ fs[item] # "none" /\ ~run.sameName
          /\ \/ cancelled /\ Fail("cancelled") /\ UNCHANGED <<fs, item, mishaps>>
             \/ ~cancelled /\ \E outcome \in MoveOutcomes(item, "renamed") :
                  /\ Budget(outcome[3])
                  /\ fs' = outcome[2]
                  /\ IF outcome[1] = "ok" THEN item' = "renamed" /\ Goto("publish")
                                          ELSE Fail(outcome[1]) /\ UNCHANGED item
    /\ UNCHANGED <<stale, recorded, cause>> /\ UNCHANGED_RUN

-----------------------------------------------------------------------------
(* Publishing and replacing                                                *)

AfterInstall == Goto(IF run.layout \in {"sibling", "sameDevice"} THEN "verify" ELSE "removeFolder")
BecomesStale(outcome) == stale' = (stale \/ (run.layout = "sameDevice" /\ outcome[2] # fs))

\* publish_staged, or the native move: a rename that never overwrites.
InstallFree ==
    \E outcome \in MoveOutcomes(item, "final") :
        /\ Budget(outcome[3])
        /\ fs' = outcome[2]
        /\ BecomesStale(outcome)
        /\ IF outcome[1] = "ok" THEN AfterInstall ELSE Fail(outcome[1])

\* replace_native over an existing file, in one step.
ReplaceInOneStep ==
    \/ fs' = Moved(item, "final") /\ AfterInstall /\ UNCHANGED mishaps
    \/ UNCHANGED fs /\ Budget(1) /\ Fail("failed")
    \/ run.place = "network" /\ fs' = Moved(item, "final") /\ Budget(1) /\ Fail("failed")

\* StagedCopy::publish and Replacement::replace.
Publish ==
    /\ pc = "publish"
    /\ \/ cancelled /\ Fail("cancelled") /\ UNCHANGED <<fs, stale, mishaps>>
       \/ ~cancelled /\ (~run.replace \/ fs["final"] = "none") /\ InstallFree
       \* The kinds of both items are read before anything is replaced.
       \/ /\ ~cancelled /\ run.replace /\ fs["final"] # "none"
          /\ \/ fs[item] = "none" /\ UNCHANGED mishaps
             \/ Budget(1)
          /\ Fail("failed") /\ UNCHANGED <<fs, stale>>
       \/ /\ ~cancelled /\ run.replace /\ fs["final"] # "none" /\ fs[item] # "none"
          /\ IF run.oneStep THEN ReplaceInOneStep /\ UNCHANGED stale
                            ELSE Goto("reserveBackup") /\ UNCHANGED <<fs, stale, mishaps>>
    /\ UNCHANGED <<item, recorded, cause>> /\ UNCHANGED_RUN

\* reserve_backup_name, then the last chance to stop.
ReserveBackup ==
    /\ pc = "reserveBackup"
    /\ IF cancelled THEN Fail("cancelled") ELSE Goto("aside")
    /\ UNCHANGED <<fs, stale, item, recorded, cause, mishaps>> /\ UNCHANGED_RUN

\* move_aside: the rename, without cancellation.
MoveAside ==
    /\ pc = "aside"
    /\ \E outcome \in MoveOutcomes("final", "backup") :
        /\ Budget(outcome[3])
        /\ fs' = outcome[2]
        /\ IF outcome[1] = "ok" THEN Goto("verifyAside") /\ UNCHANGED cause
                                ELSE Goto("judge") /\ cause' = outcome[1]
    /\ UNCHANGED <<stale, item, recorded>> /\ UNCHANGED_RUN

VerifyAside ==
    /\ pc = "verifyAside"
    /\ \E installed \in BOOLEAN :
        /\ VerifyInstallation("final", "backup", installed)
        /\ IF installed THEN Goto("install") /\ UNCHANGED cause
                        ELSE Goto("judge") /\ cause' = "failed"
    /\ UNCHANGED <<fs, item, recorded>> /\ UNCHANGED_RUN

\* Mutant: what cannot be told apart counts as not moved.
AsideGuessed(backup, final) == IF backup = "present" /\ final = "missing" THEN "Finished" ELSE "NotMoved"

\* AsideOutcome::of, judged from what both names answer.
AsideOutcome(backup, final) ==
    CASE backup = "present" /\ final = "missing" -> "Finished"
      [] backup = "missing" /\ final = "present" -> "NotMoved"
      [] OTHER -> "Unknown"

JudgeAside ==
    /\ pc = "judge"
    /\ \E backup \in Answers("backup"), final \in Answers("final") :
        /\ Budget(backup[2] + final[2])
        /\ CASE AsideOutcome(backup[1], final[1]) = "Finished" -> Goto("restore")
             [] AsideOutcome(backup[1], final[1]) = "NotMoved" -> Fail(cause)
             [] OTHER -> Fail(IF cause = "exists" THEN "exists" ELSE "recovery")
    /\ UNCHANGED <<fs, stale, item, recorded, cause>> /\ UNCHANGED_RUN

\* The install step of replace_via_backup, without cancellation.
Install ==
    /\ pc = "install"
    /\ \E outcome \in MoveOutcomes(item, "final") :
        /\ Budget(outcome[3])
        /\ fs' = outcome[2]
        /\ BecomesStale(outcome)
        /\ IF outcome[1] = "ok" THEN Goto("verifyInstall") /\ UNCHANGED cause
                                ELSE Goto("restore") /\ cause' = outcome[1]
    /\ UNCHANGED <<item, recorded>> /\ UNCHANGED_RUN

\* Mutant: the reply of the rename is believed.
InstallTrusted ==
    /\ pc = "verifyInstall" /\ Goto("dropBackup")
    /\ UNCHANGED <<fs, stale, item, recorded, cause, mishaps>> /\ UNCHANGED_RUN

VerifyInstall ==
    /\ pc = "verifyInstall"
    /\ \E installed \in BOOLEAN :
        /\ VerifyInstallation(item, "final", installed)
        /\ IF installed THEN Goto("dropBackup") /\ UNCHANGED cause
                        ELSE Goto("restore") /\ cause' = "failed"
    /\ UNCHANGED <<fs, item, recorded>> /\ UNCHANGED_RUN

\* Mutants: the backup is moved back over what has the name meanwhile; the
\* move back is tried until it works.
RestoreOver ==
    /\ pc = "restore" /\ fs["backup"] # "none" /\ fs' = Moved("backup", "final") /\ Fail(cause)
    /\ UNCHANGED <<stale, item, recorded, cause, mishaps>> /\ UNCHANGED_RUN
RestoreUntilDone ==
    /\ pc = "restore" /\ fs["final"] = "none" /\ fs' = Moved("backup", "final") /\ Fail(cause)
    /\ UNCHANGED <<stale, item, recorded, cause, mishaps>> /\ UNCHANGED_RUN

\* restore_backup: a non-overwriting move back that must be verified.
RestoreBackup ==
    /\ pc = "restore"
    /\ \E outcome \in MoveOutcomes("backup", "final") :
        /\ fs' = outcome[2]
        /\ \/ /\ outcome[1] = "ok" /\ outcome[2] # fs /\ Budget(outcome[3])
              /\ Fail(cause) /\ stale' = FALSE
           \* Not verified: the move failed, did nothing, or the names could
           \* not be asked about.
           \/ /\ outcome[1] # "ok" \/ outcome[2] = fs
              /\ Budget(outcome[3])
              /\ Fail("recovery") /\ UNCHANGED stale
           \/ outcome[1] = "ok" /\ Budget(outcome[3] + 1) /\ Fail("recovery") /\ UNCHANGED stale
    /\ UNCHANGED <<item, recorded, cause>> /\ UNCHANGED_RUN

\* The old file is discarded only now.
DropBackup ==
    /\ pc = "dropBackup"
    /\ \/ Put("backup", "none") /\ AfterInstall /\ UNCHANGED mishaps
       \/ Budget(1) /\ Fail("recovery") /\ (UNCHANGED fs \/ Put("backup", "none"))
    /\ UNCHANGED <<stale, item, recorded, cause>> /\ UNCHANGED_RUN

\* Mutant: a device's report of a published item is believed.
PublicationTrusted ==
    /\ pc = "verify" /\ Goto("removeFolder")
    /\ recorded' = (recorded /\ run.layout # "sibling")
    /\ UNCHANGED <<fs, stale, item, cause, mishaps>> /\ UNCHANGED_RUN

\* verify_device_publication; a published sibling leaves nothing to clean up.
VerifyPublication ==
    /\ pc = "verify"
    /\ \E installed \in BOOLEAN :
        /\ VerifyInstallation(item, "final", installed)
        /\ IF installed THEN Goto("removeFolder") ELSE Fail("failed")
        /\ recorded' = (recorded /\ (installed => run.layout # "sibling"))
    /\ UNCHANGED <<fs, item, cause>> /\ UNCHANGED_RUN

-----------------------------------------------------------------------------
(* The end of run_item: the report and the cleanup                         *)

\* record_failure: a cancellation hides an error, never one that needs recovery.
Recorded(error) ==
    LET explained == error = "cancelled" \/ cancelled IN
    [report EXCEPT !.cancelled = explained,
                   !.recovery = (error = "recovery"),
                   !.errors = (error = "recovery" \/ ~explained)]

\* ItemOutcome::Done: the private folder, empty by now, goes by a plain delete.
FolderIsEmpty == fs["landed"] = "none" /\ fs["renamed"] = "none"
RemoveEmptyFolder ==
    /\ pc = "removeFolder"
    /\ \/ /\ ~recorded
          /\ report' = [report EXCEPT !.done = TRUE]
          /\ UNCHANGED <<fs, recorded, mishaps>>
       \/ /\ recorded /\ FolderIsEmpty
          /\ Put("stage", "none") /\ recorded' = FALSE
          /\ report' = [report EXCEPT !.done = TRUE]
          /\ UNCHANGED mishaps
       \/ /\ recorded
          /\ IF FolderIsEmpty THEN Budget(1) ELSE UNCHANGED mishaps
          /\ report' = [Recorded("failed") EXCEPT !.done = TRUE]
          /\ UNCHANGED <<fs, recorded>>
    /\ Goto("cleanup")
    /\ UNCHANGED <<run, stale, item, cause, tries, cancelled>>

Record ==
    /\ pc = "record"
    /\ report' = Recorded(err)
    /\ Goto("cleanup")
    /\ UNCHANGED <<run, fs, stale, item, recorded, cause, tries, cancelled, mishaps>>

\* Mutant: the stage is removed by the path the device resolves it to.
RemovedByPath == [fs EXCEPT !["stage"] = "none", !["final"] = IF stale THEN "none" ELSE @]

\* clean_staging: folders are listed, and what a listing shows is removed.
StagingRemoved == [fs EXCEPT !["stage"] = "none", !["landed"] = "none", !["renamed"] = "none"]

\* Mutant: "not found" is believed without a listing.
DiscardBelieved ==
    /\ pc = "cleanup" /\ recorded
    /\ \E answer \in Answers("stage") : answer[1] = "missing" /\ Budget(answer[2])
    /\ recorded' = FALSE /\ Goto("cleanup")
    /\ UNCHANGED <<run, fs, stale, item, cause, tries, report, cancelled>>

\* One attempt of discard_stage.  A device stage the query does not find
\* counts as gone only if a listing of its folder confirms it.
DiscardStage ==
    /\ pc = "cleanup" /\ recorded
    /\ \E answer \in Answers("stage") :
        \/ /\ answer[1] = "present" /\ Budget(answer[2])
           /\ fs' = StagingRemoved /\ stale' = FALSE /\ recorded' = FALSE
        \/ /\ answer[1] = "missing" /\ Device /\ fs["stage"] = "none" /\ Budget(answer[2])
           /\ recorded' = FALSE /\ UNCHANGED <<fs, stale>>
    /\ Goto("cleanup")
    /\ UNCHANGED <<run, item, cause, tries, report, cancelled>>

\* Mutant: the attempts are not counted out.
DiscardForever ==
    /\ pc = "cleanup" /\ recorded /\ Budget(1)
    /\ tries' = tries - 1 /\ Goto("cleanup")
    /\ UNCHANGED <<run, fs, stale, item, recorded, cause, report, cancelled>>

\* An attempt that fails, perhaps after removing the folder's contents.
DiscardFails ==
    /\ pc = "cleanup" /\ recorded
    /\ \/ /\ ~Device /\ fs["stage"] = "none" /\ UNCHANGED <<fs, mishaps>>
       \/ Budget(1) /\ (UNCHANGED fs \/ fs' = [StagingRemoved EXCEPT !["stage"] = fs["stage"]])
    /\ tries' = tries - 1
    /\ recorded' = (tries > 1)
    /\ report' = IF tries > 1 THEN report
                 ELSE [report EXCEPT !.leftover = TRUE, !.recovery = TRUE, !.errors = TRUE]
    /\ Goto("cleanup")
    /\ UNCHANGED <<run, stale, item, cause, cancelled>>

Finish ==
    /\ pc = "cleanup" /\ ~recorded
    /\ Goto("finished")
    /\ UNCHANGED <<run, fs, stale, item, recorded, cause, tries, report, cancelled, mishaps>>

-----------------------------------------------------------------------------
(* The user and other programs                                             *)

Cancel ==
    /\ ~cancelled /\ pc # "finished"
    /\ cancelled' = TRUE
    /\ UNCHANGED <<run, fs, stale, pc, item, recorded, cause, err, tries, report, mishaps>>

\* Another program creates an item under a name that is free.
Intrude(n) ==
    /\ pc # "finished" /\ fs[n] = "none" /\ Budget(1)
    /\ Put(n, IF n = "final" THEN "other" ELSE "foreign")
    /\ UNCHANGED <<run, stale, pc, item, recorded, cause, err, tries, report, cancelled>>

EngineStep ==
    \/ ReserveSibling \/ CreateFolder \/ StartUpload \/ FinishUpload \/ AbortUpload
    \/ PlaceDeviceCopy \/ Publish \/ ReserveBackup \/ MoveAside \/ VerifyAside \/ JudgeAside
    \/ Install \/ VerifyInstall \/ RestoreBackup \/ DropBackup \/ VerifyPublication
    \/ RemoveEmptyFolder \/ Record \/ DiscardStage \/ DiscardFails \/ Finish

Next == EngineStep \/ Cancel \/ \E n \in IntruderNames : Intrude(n)

Spec == Init /\ [][Next]_vars
FairSpec == Spec /\ WF_vars(EngineStep)

-----------------------------------------------------------------------------
(* Properties                                                              *)

TypeOK ==
    /\ run \in Runs
    /\ fs \in [Name -> Content]
    /\ stale \in BOOLEAN
    /\ pc \in Step
    /\ item \in {"stage", "landed", "renamed", "origin"}
    /\ recorded \in BOOLEAN
    /\ cause \in Reply
    /\ err \in Reply
    /\ tries \in 0 .. 3
    /\ report \in Report
    /\ cancelled \in BOOLEAN
    /\ mishaps \in 0 .. MaxMishaps

\* The file a Replace was to overwrite exists, under its own name or the
\* backup's, until the complete incoming file is under its name (XFER-009,
\* XFER-010).
OldFileKept ==
    run.had => \/ "old" \in {fs["final"], fs["backup"]}
               \/ fs["final"] = "new"

\* A run never ends with the old file left under its hidden name and the
\* user not told so, cancelled or not (commit.rs move_aside, record_failure).
HiddenOldReported ==
    pc = "finished" /\ fs["backup"] = "old" => report.recovery /\ report.errors

\* A partial or foreign upload is never visible under the final name (XFER-001).
OnlyCompleteItemsPublished ==
    fs["final"] \in {"none", "old", "new", "other"}

\* What is published stays: no rollback and no cleanup takes the incoming
\* item away again, not even through a device's stale path (XFER-025).
PublishedStays == [][fs["final"] = "new" => fs'["final"] = "new"]_vars

\* A natively moved item is at its origin or under its final name, always.
MovedItemKept == run.layout = "native" => "new" \in {fs["origin"], fs["final"]}

\* An item reported done is there, complete, and gone from where it came.
\* (A device's report of a plain native move is trusted, so it is left out.)
DoneIsTrue ==
    report.done /\ ~(Device /\ run.layout = "native") => fs["final"] = "new" /\ fs[item] = "none"

\* Staging of the engine that is still there at the end is reported (XFER-003).
LeftoverReported ==
    pc = "finished" /\ (\E n \in {"stage", "landed", "renamed"} : fs[n] \in {"folder", "partial", "new"})
        => report.leftover

\* The steps of a Replace that take what has the final name.
Replacing == run.replace /\ pc \in {"publish", "aside"}

\* An item of another program is never removed or overwritten under a hidden
\* name, and under the final name only by the Replace the user chose, as it
\* replaces it: no publication, no install over a name that was freed and taken
\* again, no rollback and no cleanup takes it (XFER-002, XFER-007).
OthersKept ==
    [][/\ \A n \in Name : fs[n] = "foreign" => fs'[n] = "foreign"
       /\ fs["final"] = "other" /\ ~Replacing => fs'["final"] = "other"]_vars

\* The visible steps of the engine are those of Publication: the complete item
\* gets its name in one step, which takes a moved item from its origin; the file
\* it replaces is set aside, put back or given up, each in one step, and is given
\* up only for the complete item; what the user is told at the end is true.
Published == INSTANCE Publication WITH
    job <- [replaces |-> run.replace, moves |-> run.layout = "native",
            trusted |-> Device /\ run.layout = "native"],
    shown <- fs["final"],
    aside <- IF fs["backup"] \in {"old", "other"} THEN fs["backup"] ELSE "none",
    source <- fs["origin"] = "new",
    told <- IF pc = "finished"
            THEN {[done |-> report.done, error |-> report.errors,
                   cancelled |-> report.cancelled, recovery |-> report.recovery]}
            ELSE {}
PublishesAsPromised == Published!Spec

\* A run with a result ends once the backend answers.
RunEnds == <>(pc = "finished")
=============================================================================
