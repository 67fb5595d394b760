-------------------------- MODULE StagedCopyProofs --------------------------
(***************************************************************************)
(* Proofs about StagedCopy for every choice of layouts, every bound on the *)
(* mishaps and every set of intruded names.                                *)
(***************************************************************************)
EXTENDS StagedCopy, TLAPS

-----------------------------------------------------------------------------
(* Types                                                                   *)

\* What an answer to a move may be: a move that happened had a source and a
\* free target.
LEMMA MoveOutcomeFacts ==
    ASSUME NEW a \in Name, NEW b \in Name, NEW o \in MoveOutcomes(a, b)
    PROVE  /\ o[1] \in {"ok", "failed", "exists"}
           /\ o[3] \in Nat
           /\ o[2] = fs \/ (fs[a] # "none" /\ fs[b] = "none" /\ o[2] = Moved(a, b))
           /\ o[1] = "ok" => fs[a] # "none" /\ fs[b] = "none"
           /\ o[1] = "exists" => fs[b] # "none" /\ o[2] = fs
    BY DEF MoveOutcomes

\* A fault taken from the budget leaves a budget.
LEMMA BudgetFacts ==
    ASSUME mishaps \in 0 .. MaxMishaps, NEW n \in Nat, Budget(n)
    PROVE  mishaps' \in 0 .. MaxMishaps
    BY ConstantsAssumption DEF Budget

\* The fields of the chosen run.
LEMMA RunFacts ==
    ASSUME run \in Runs
    PROVE  /\ run.layout \in LayoutKind
           /\ run.place \in {"local", "network", "device"}
           /\ run.replace \in BOOLEAN /\ run.oneStep \in BOOLEAN /\ run.sameName \in BOOLEAN /\ run.had \in BOOLEAN
           /\ ~run.replace => ~run.had
           /\ run.layout = "payload" => run.place # "device"
    BY ConstantsAssumption DEF Runs

\* Moving keeps the folder a function from names to contents.
LEMMA MovedType ==
    ASSUME fs \in [Name -> Content], NEW a \in Name, NEW b \in Name
    PROVE  Moved(a, b) \in [Name -> Content]
    BY DEF Moved, Name, Content

\* TypeOK alone is not inductive: an attempt of the cleanup that fails takes
\* one of the tries, so there must be one left.
TriesLeft == tries = 0 => ~recorded /\ pc \in {"cleanup", "finished"}
TypeInv == TypeOK /\ TriesLeft

LEMMA TypeInit == Init => TypeOK
<1> SUFFICES ASSUME Init PROVE TypeOK
    OBVIOUS
<1>1. run \in Runs /\ stale \in BOOLEAN /\ recorded \in BOOLEAN /\ cancelled \in BOOLEAN
    BY DEF Init
<1>2. cause \in Reply /\ err \in Reply /\ tries \in 0 .. 3 /\ mishaps \in 0 .. MaxMishaps
    BY ConstantsAssumption DEF Init, Reply
<1>3. pc \in Step
    BY DEF Init, Step
<1>4. item \in {"stage", "landed", "renamed", "origin"}
    BY DEF Init, FirstName
<1>5. fs \in [Name -> Content]
    BY DEF Init, Name, Content
<1>6. report \in Report
    BY DEF Init, Report
<1> QED
    BY <1>1, <1>2, <1>3, <1>4, <1>5, <1>6 DEF TypeOK

LEMMA TypeStep == TypeInv /\ [Next]_vars => TypeOK'
<1> SUFFICES ASSUME TypeOK, TriesLeft, [Next]_vars PROVE TypeOK'
    BY DEF TypeInv
<1> USE ConstantsAssumption, RunFacts
<1> USE DEF TypeOK, Goto, Fail, Put, UNCHANGED_RUN, Name, Content, Step, Reply, Report
<1>1. CASE ReserveSibling
  <2>1. mishaps' \in 0 .. MaxMishaps
    BY <1>1, BudgetFacts DEF ReserveSibling
  <2>2. pc' \in Step /\ err' \in Reply /\ cause' \in Reply
    BY <1>1 DEF ReserveSibling
  <2>3. recorded' \in BOOLEAN
    BY <1>1 DEF ReserveSibling
  <2> QED
    BY <2>1, <2>2, <2>3, <1>1 DEF ReserveSibling
<1>2. CASE CreateFolder
  <2>1. mishaps' \in 0 .. MaxMishaps
    BY <1>2, BudgetFacts DEF CreateFolder
  <2>2. pc' \in Step /\ err' \in Reply /\ cause' \in Reply
    BY <1>2 DEF CreateFolder
  <2>3. recorded' \in BOOLEAN
    BY <1>2 DEF CreateFolder
  <2>4. fs' \in [Name -> Content]
    BY <1>2 DEF CreateFolder
  <2> QED
    BY <2>1, <2>2, <2>3, <2>4, <1>2 DEF CreateFolder
<1>3. CASE StartUpload
    BY <1>3, BudgetFacts DEF StartUpload
<1>4. CASE FinishUpload
    BY <1>4, BudgetFacts DEF FinishUpload
<1>5. CASE AbortUpload
    BY <1>5, BudgetFacts DEF AbortUpload
<1>6. CASE PlaceDeviceCopy
    BY <1>6, BudgetFacts, MoveOutcomeFacts, MovedType DEF PlaceDeviceCopy
<1>7. CASE Publish
  <2>1. mishaps' \in 0 .. MaxMishaps
    BY <1>7, BudgetFacts, MoveOutcomeFacts DEF Publish, InstallFree, ReplaceInOneStep, AfterInstall
  <2>2. pc' \in Step /\ err' \in Reply /\ cause' \in Reply
    BY <1>7, MoveOutcomeFacts DEF Publish, InstallFree, ReplaceInOneStep, AfterInstall
  <2>3. stale' \in BOOLEAN
    BY <1>7 DEF Publish, InstallFree, BecomesStale
  <2>4. fs' \in [Name -> Content]
    BY <1>7, MoveOutcomeFacts, MovedType DEF Publish, InstallFree, ReplaceInOneStep
  <2> QED
    BY <2>1, <2>2, <2>3, <2>4, <1>7 DEF Publish, InstallFree, ReplaceInOneStep, AfterInstall
<1>8. CASE ReserveBackup
    BY <1>8 DEF ReserveBackup
<1>9. CASE MoveAside
    BY <1>9, BudgetFacts, MoveOutcomeFacts, MovedType DEF MoveAside
<1>10. CASE VerifyAside
  <2>1. mishaps' \in 0 .. MaxMishaps
    BY <1>10, BudgetFacts DEF VerifyAside, VerifyInstallation
  <2>2. pc' \in Step /\ err' \in Reply /\ cause' \in Reply
    BY <1>10 DEF VerifyAside, VerifyInstallation
  <2>3. stale' \in BOOLEAN
    BY <1>10 DEF VerifyAside, VerifyInstallation
  <2> QED
    BY <2>1, <2>2, <2>3, <1>10 DEF VerifyAside, VerifyInstallation
<1>11. CASE JudgeAside
    BY <1>11, BudgetFacts DEF JudgeAside, Answers
<1>12. CASE Install
    BY <1>12, BudgetFacts, MoveOutcomeFacts, MovedType DEF Install, BecomesStale
<1>13. CASE VerifyInstall
  <2>1. mishaps' \in 0 .. MaxMishaps
    BY <1>13, BudgetFacts DEF VerifyInstall, VerifyInstallation
  <2>2. pc' \in Step /\ err' \in Reply /\ cause' \in Reply
    BY <1>13 DEF VerifyInstall, VerifyInstallation
  <2>3. stale' \in BOOLEAN
    BY <1>13 DEF VerifyInstall, VerifyInstallation
  <2> QED
    BY <2>1, <2>2, <2>3, <1>13 DEF VerifyInstall, VerifyInstallation
<1>14. CASE RestoreBackup
  <2>1. mishaps' \in 0 .. MaxMishaps
    BY <1>14, BudgetFacts, MoveOutcomeFacts DEF RestoreBackup
  <2>2. pc' \in Step /\ err' \in Reply /\ cause' \in Reply
    BY <1>14 DEF RestoreBackup
  <2>3. stale' \in BOOLEAN
    BY <1>14 DEF RestoreBackup
  <2>4. fs' \in [Name -> Content]
    BY <1>14, MoveOutcomeFacts, MovedType DEF RestoreBackup
  <2> QED
    BY <2>1, <2>2, <2>3, <2>4, <1>14 DEF RestoreBackup
<1>15. CASE DropBackup
    BY <1>15, BudgetFacts DEF DropBackup, AfterInstall
<1>16. CASE VerifyPublication
  <2>1. mishaps' \in 0 .. MaxMishaps
    BY <1>16, BudgetFacts DEF VerifyPublication, VerifyInstallation
  <2>2. pc' \in Step /\ err' \in Reply /\ cause' \in Reply
    BY <1>16 DEF VerifyPublication, VerifyInstallation
  <2>3. recorded' \in BOOLEAN
    BY <1>16 DEF VerifyPublication
  <2>4. stale' \in BOOLEAN
    BY <1>16 DEF VerifyPublication, VerifyInstallation
  <2> QED
    BY <2>1, <2>2, <2>3, <2>4, <1>16 DEF VerifyPublication, VerifyInstallation
<1>17. CASE RemoveEmptyFolder
  <2>1. mishaps' \in 0 .. MaxMishaps
    BY <1>17, BudgetFacts DEF RemoveEmptyFolder
  <2>2. pc' \in Step /\ err' \in Reply /\ cause' \in Reply
    BY <1>17 DEF RemoveEmptyFolder
  <2>3. recorded' \in BOOLEAN
    BY <1>17 DEF RemoveEmptyFolder
  <2>4. fs' \in [Name -> Content]
    BY <1>17 DEF RemoveEmptyFolder
  <2>5. report' \in Report
    BY <1>17 DEF RemoveEmptyFolder, Recorded
  <2> QED
    BY <2>1, <2>2, <2>3, <2>4, <2>5, <1>17 DEF RemoveEmptyFolder
<1>18. CASE Record
  <2>1. mishaps' \in 0 .. MaxMishaps
    BY <1>18, BudgetFacts DEF Record
  <2>2. pc' \in Step /\ err' \in Reply /\ cause' \in Reply
    BY <1>18 DEF Record
  <2>3. report' \in Report
    BY <1>18 DEF Record, Recorded
  <2> QED
    BY <2>1, <2>2, <2>3, <1>18 DEF Record
<1>19. CASE DiscardStage
  <2>1. mishaps' \in 0 .. MaxMishaps
    BY <1>19, BudgetFacts DEF DiscardStage, Answers
  <2>2. pc' \in Step /\ err' \in Reply /\ cause' \in Reply
    BY <1>19 DEF DiscardStage, Answers
  <2>3. recorded' \in BOOLEAN
    BY <1>19 DEF DiscardStage
  <2>4. stale' \in BOOLEAN
    BY <1>19 DEF DiscardStage
  <2>5. fs' \in [Name -> Content]
    BY <1>19 DEF DiscardStage, StagingRemoved
  <2> QED
    BY <2>1, <2>2, <2>3, <2>4, <2>5, <1>19 DEF DiscardStage, Answers
<1>20. CASE DiscardFails
  <2>1. mishaps' \in 0 .. MaxMishaps
    BY <1>20, BudgetFacts DEF DiscardFails
  <2>2. tries' \in 0 .. 3
    BY <1>20 DEF DiscardFails, TriesLeft
  <2>3. recorded' = (tries > 1) /\ pc' = "cleanup" /\ err' = err
    BY <1>20 DEF DiscardFails
  <2>4. recorded' \in BOOLEAN
    BY <2>3
  <2>5. fs' \in [Name -> Content]
    BY <1>20 DEF DiscardFails, StagingRemoved
  <2>6. report' \in Report
    BY <1>20 DEF DiscardFails
  <2> QED
    BY <2>1, <2>2, <2>3, <2>4, <2>5, <2>6, <1>20 DEF DiscardFails
<1>21. CASE Finish
    BY <1>21 DEF Finish
<1>22. CASE Cancel
    BY <1>22 DEF Cancel
<1>23. ASSUME NEW n \in IntruderNames, Intrude(n) PROVE TypeOK'
    BY <1>23, BudgetFacts DEF Intrude
<1>24. CASE UNCHANGED vars
    BY <1>24 DEF vars
<1> QED
    BY <1>1, <1>2, <1>3, <1>4, <1>5, <1>6, <1>7, <1>8, <1>9, <1>10, <1>11, <1>12, <1>13, <1>14, <1>15,
       <1>16, <1>17, <1>18, <1>19, <1>20, <1>21, <1>22, <1>23, <1>24 DEF Next, EngineStep

LEMMA TriesStep == TypeInv /\ [Next]_vars => TriesLeft'
<1> SUFFICES ASSUME TypeOK, TriesLeft, [Next]_vars PROVE TriesLeft'
    BY DEF TypeInv
<1>1. CASE DiscardFails
  <2>1. tries \in 0 .. 3 /\ tries # 0 /\ tries' = tries - 1 /\ pc' = "cleanup"
    BY <1>1 DEF DiscardFails, TypeOK, TriesLeft, Goto
  <2>2. tries' = 0 => ~recorded'
    <3>1. recorded' = (tries > 1)
      BY <1>1, Zenon DEF DiscardFails
    <3>2. tries' = 0 => ~(tries > 1)
      BY <2>1
    <3> QED
      BY <3>1, <3>2, Zenon
  <2> QED
    BY <2>1, <2>2 DEF TriesLeft
<1>2. CASE EngineStep /\ ~DiscardFails
  <2>1. tries' = tries
    BY <1>2 DEF EngineStep, UNCHANGED_RUN, ReserveSibling, CreateFolder, StartUpload, FinishUpload, AbortUpload,
       PlaceDeviceCopy, Publish, ReserveBackup, MoveAside, VerifyAside, JudgeAside, Install, VerifyInstall,
       RestoreBackup, DropBackup, VerifyPublication, RemoveEmptyFolder, Record, DiscardStage, Finish
  <2>2. tries = 0 => Finish
    BY <1>2 DEF TriesLeft, EngineStep, ReserveSibling, CreateFolder, StartUpload, FinishUpload, AbortUpload,
       PlaceDeviceCopy, Publish, ReserveBackup, MoveAside, VerifyAside, JudgeAside, Install, VerifyInstall,
       RestoreBackup, DropBackup, VerifyPublication, RemoveEmptyFolder, Record, DiscardStage
  <2> QED
    BY <2>1, <2>2 DEF Finish, Goto, TriesLeft
<1>3. CASE Cancel
    BY <1>3 DEF Cancel, TriesLeft
<1>4. ASSUME NEW n \in IntruderNames, Intrude(n) PROVE TriesLeft'
    BY <1>4 DEF Intrude, TriesLeft
<1>5. CASE UNCHANGED vars
    BY <1>5 DEF vars, TriesLeft
<1> QED
    BY <1>1, <1>2, <1>3, <1>4, <1>5 DEF Next

\* Every variable keeps its type: the cleanup attempts never run below zero,
\* and the engine never leaves its steps.
THEOREM TypeCorrect == Spec => []TypeOK
<1>1. Init => TypeInv
    BY TypeInit DEF TypeInv, Init, TriesLeft
<1>2. TypeInv /\ [Next]_vars => TypeInv'
    BY TypeStep, TriesStep DEF TypeInv
<1>3. TypeInv => TypeOK
    BY DEF TypeInv
<1> QED
    BY <1>1, <1>2, <1>3, PTL DEF Spec

-----------------------------------------------------------------------------
(* The inductive invariant                                                 *)

\* The steps at which nothing was installed yet, those between the check of
\* what is replaced and its restoration, and those that follow an item
\* verified to be installed.
BeforeInstall == {"reserve", "upload", "uploading", "place", "publish", "reserveBackup", "aside",
                  "verifyAside", "judge", "install"}
Aside == {"reserveBackup", "aside", "verifyAside", "judge", "install", "verifyInstall", "restore"}
Installed == {"dropBackup", "verify", "removeFolder"}
OldUntouched == {"reserve", "upload", "uploading", "place", "publish", "reserveBackup", "aside"}

\* Which name the item has follows from the layout.
ItemNamed ==
    /\ run.layout = "native" => item = "origin" /\ pc \notin {"reserve", "upload", "uploading", "place", "verify"}
    /\ run.layout = "sibling" => item = "stage" /\ pc # "place"
    /\ run.layout \in {"payload", "sameDevice"} => item \in {"landed", "renamed"}
    /\ run.layout = "payload" => pc # "place"

\* What is stored under that name: a part only while it is uploaded.
ItemComplete ==
    /\ pc = "uploading" => fs[item] = "partial"
    /\ pc \in {"place", "publish"} => fs[item] = "new" \/ (fs[item] = "none" /\ run.layout = "sameDevice")
    /\ pc \in {"reserveBackup", "aside", "verifyAside", "install"} => fs[item] = "new"
    /\ pc = "verifyInstall" => "new" \in {fs[item], fs["final"]}
    /\ MovedItemKept

\* What a Replace found under the final name is there or under the backup's.
ReplacedKept ==
    /\ OnlyCompleteItemsPublished
    /\ pc \in BeforeInstall => fs["final"] # "new"
    /\ pc \in Aside => fs["final"] # "none" \/ fs["backup"] \in {"old", "other"}
    /\ pc \in {"reserveBackup", "aside"} => fs["final"] # "none"
    /\ pc \in {"install", "verifyInstall", "dropBackup"} => fs["backup"] \in {"old", "other"}

\* Where the old file is at each step.
OldPlaced ==
    run.had =>
        /\ pc \in OldUntouched => fs["final"] = "old"
        /\ pc \in {"verifyAside", "judge", "restore"} => "old" \in {fs["final"], fs["backup"]}
        /\ pc \in {"install", "verifyInstall"} => fs["backup"] = "old"
        /\ pc \in Installed => fs["final"] = "new"
        /\ OldFileKept

Inv == TypeOK /\ TriesLeft /\ ItemNamed /\ ItemComplete /\ ReplacedKept /\ OldPlaced
\* What a folder holds after a move.
LEMMA MovedFacts ==
    ASSUME fs \in [Name -> Content], NEW a \in Name, NEW b \in Name, a # b, NEW n \in Name
    PROVE  Moved(a, b)[n] = IF n = a THEN "none" ELSE IF n = b THEN fs[a] ELSE fs[n]
    BY DEF Moved

LEMMA ItemNamedStep == Inv /\ [Next]_vars => ItemNamed'
<1> SUFFICES ASSUME Inv, [Next]_vars PROVE ItemNamed'
    OBVIOUS
<1> USE DEF Inv, TypeOK, ItemNamed, Goto, Fail, UNCHANGED_RUN
<1>1. CASE ReserveSibling
    BY <1>1 DEF ReserveSibling
<1>2. CASE CreateFolder
    BY <1>2 DEF CreateFolder
<1>3. CASE StartUpload
    BY <1>3 DEF StartUpload
<1>4. CASE FinishUpload
    BY <1>4 DEF FinishUpload
<1>5. CASE AbortUpload
    BY <1>5 DEF AbortUpload
<1>6. CASE PlaceDeviceCopy
    BY <1>6, MoveOutcomeFacts, MovedFacts DEF PlaceDeviceCopy
<1>7. CASE Publish
    BY <1>7, MoveOutcomeFacts, MovedFacts DEF Publish, InstallFree, ReplaceInOneStep, AfterInstall
<1>8. CASE ReserveBackup
    BY <1>8 DEF ReserveBackup
<1>9. CASE MoveAside
    BY <1>9, MoveOutcomeFacts, MovedFacts DEF MoveAside
<1>10. CASE VerifyAside
    BY <1>10 DEF VerifyAside, VerifyInstallation, IsInstalled
<1>11. CASE JudgeAside
    BY <1>11 DEF JudgeAside
<1>12. CASE Install
    BY <1>12, MoveOutcomeFacts, MovedFacts DEF Install
<1>13. CASE VerifyInstall
    BY <1>13 DEF VerifyInstall, VerifyInstallation, IsInstalled
<1>14. CASE RestoreBackup
    BY <1>14, MoveOutcomeFacts, MovedFacts DEF RestoreBackup
<1>15. CASE DropBackup
    BY <1>15 DEF DropBackup, AfterInstall
<1>16. CASE VerifyPublication
    BY <1>16 DEF VerifyPublication, VerifyInstallation, IsInstalled
<1>17. CASE RemoveEmptyFolder
    BY <1>17 DEF RemoveEmptyFolder
<1>18. CASE Record
    BY <1>18 DEF Record
<1>19. CASE DiscardStage
    BY <1>19 DEF DiscardStage, StagingRemoved
<1>20. CASE DiscardFails
    BY <1>20 DEF DiscardFails, StagingRemoved
<1>21. CASE Finish
    BY <1>21 DEF Finish
<1>22. CASE Cancel
    BY <1>22 DEF Cancel
<1>23. ASSUME NEW n \in IntruderNames, Intrude(n) PROVE ItemNamed'
    BY <1>23 DEF Intrude
<1>24. CASE UNCHANGED vars
    BY <1>24 DEF vars
<1> QED
    BY <1>1, <1>2, <1>3, <1>4, <1>5, <1>6, <1>7, <1>8, <1>9, <1>10, <1>11, <1>12, <1>13, <1>14, <1>15, <1>16, <1>17, <1>18, <1>19, <1>20, <1>21, <1>22, <1>23, <1>24 DEF Next, EngineStep

LEMMA ItemCompleteStep == Inv /\ [Next]_vars => ItemComplete'
<1> SUFFICES ASSUME Inv, [Next]_vars PROVE ItemComplete'
    OBVIOUS
<1> USE DEF Inv, BeforeInstall, Aside, TypeOK, ItemNamed, ItemComplete, MovedItemKept, ReplacedKept, OnlyCompleteItemsPublished, Goto, Fail, Put, UNCHANGED_RUN, Name, Content, LayoutKind
<1>1. CASE ReserveSibling
    BY <1>1 DEF ReserveSibling
<1>2. CASE CreateFolder
    BY <1>2 DEF CreateFolder
<1>3. CASE StartUpload
    BY <1>3 DEF StartUpload
<1>4. CASE FinishUpload
    BY <1>4 DEF FinishUpload
<1>5. CASE AbortUpload
    BY <1>5 DEF AbortUpload
<1>6. CASE PlaceDeviceCopy
  <2>1. run.layout = "sameDevice" /\ item \in Name /\ fs[item] \in {"none", "new"}
    BY <1>6, RunFacts DEF PlaceDeviceCopy
  <2>2. CASE fs' = fs /\ item' = item
    BY <1>6, <2>1, <2>2 DEF PlaceDeviceCopy
  <2>3. ASSUME NEW o \in MoveOutcomes(item, "renamed"), fs' = o[2], fs[item] # "none", run' = run,
               IF o[1] = "ok" THEN item' = "renamed" /\ Goto("publish") ELSE Fail(o[1]) /\ UNCHANGED item
        PROVE  ItemComplete'
    BY <2>1, <2>3, MoveOutcomeFacts, MovedFacts
  <2> QED
    BY <1>6, <2>2, <2>3 DEF PlaceDeviceCopy
<1>7. CASE Publish
    BY <1>7, MoveOutcomeFacts, MovedFacts DEF Publish, InstallFree, ReplaceInOneStep, AfterInstall
<1>8. CASE ReserveBackup
    BY <1>8 DEF ReserveBackup
<1>9. CASE MoveAside
    BY <1>9, MoveOutcomeFacts, MovedFacts DEF MoveAside
<1>10. CASE VerifyAside
    BY <1>10 DEF VerifyAside, VerifyInstallation, IsInstalled
<1>11. CASE JudgeAside
    BY <1>11 DEF JudgeAside
<1>12. CASE Install
    BY <1>12, MoveOutcomeFacts, MovedFacts DEF Install
<1>13. CASE VerifyInstall
    BY <1>13 DEF VerifyInstall, VerifyInstallation, IsInstalled
<1>14. CASE RestoreBackup
    BY <1>14, MoveOutcomeFacts, MovedFacts DEF RestoreBackup
<1>15. CASE DropBackup
    BY <1>15 DEF DropBackup, AfterInstall
<1>16. CASE VerifyPublication
    BY <1>16 DEF VerifyPublication, VerifyInstallation, IsInstalled
<1>17. CASE RemoveEmptyFolder
    BY <1>17 DEF RemoveEmptyFolder
<1>18. CASE Record
    BY <1>18 DEF Record
<1>19. CASE DiscardStage
    BY <1>19 DEF DiscardStage, StagingRemoved
<1>20. CASE DiscardFails
    BY <1>20 DEF DiscardFails, StagingRemoved
<1>21. CASE Finish
    BY <1>21 DEF Finish
<1>22. CASE Cancel
    BY <1>22 DEF Cancel
<1>23. ASSUME NEW n \in IntruderNames, Intrude(n) PROVE ItemComplete'
  <2>1. n \in {"final", "stage", "backup"} /\ fs[n] = "none" /\ fs' = [fs EXCEPT ![n] = IF n = "final" THEN "other" ELSE "foreign"]
    BY <1>23, ConstantsAssumption DEF Intrude
  <2>2. item = n => fs[item] = "none"
    BY <2>1
  <2>3. fs'["origin"] = fs["origin"] /\ (fs["final"] = "new" => fs'["final"] = "new")
    BY <2>1
  <2>4. item # n => fs'[item] = fs[item]
    BY <2>1
  <2> QED
    BY <1>23, <2>1, <2>2, <2>3, <2>4, RunFacts DEF Intrude
<1>24. CASE UNCHANGED vars
    BY <1>24 DEF vars
<1> QED
    BY <1>1, <1>2, <1>3, <1>4, <1>5, <1>6, <1>7, <1>8, <1>9, <1>10, <1>11, <1>12, <1>13, <1>14, <1>15, <1>16, <1>17, <1>18, <1>19, <1>20, <1>21, <1>22, <1>23, <1>24 DEF Next, EngineStep

LEMMA ReplacedKeptStep == Inv /\ [Next]_vars => ReplacedKept'
<1> SUFFICES ASSUME Inv, [Next]_vars PROVE ReplacedKept'
    OBVIOUS
<1> USE DEF Inv, BeforeInstall, Aside, TypeOK, ItemNamed, ItemComplete, MovedItemKept, ReplacedKept, OnlyCompleteItemsPublished, Goto, Fail, Put, UNCHANGED_RUN, Name, Content, LayoutKind
<1>1. CASE ReserveSibling
    BY <1>1 DEF ReserveSibling
<1>2. CASE CreateFolder
    BY <1>2 DEF CreateFolder
<1>3. CASE StartUpload
    BY <1>3 DEF StartUpload
<1>4. CASE FinishUpload
    BY <1>4 DEF FinishUpload
<1>5. CASE AbortUpload
    BY <1>5 DEF AbortUpload
<1>6. CASE PlaceDeviceCopy
    BY <1>6, MoveOutcomeFacts, MovedFacts DEF PlaceDeviceCopy
<1>7. CASE Publish
    BY <1>7, MoveOutcomeFacts, MovedFacts DEF Publish, InstallFree, ReplaceInOneStep, AfterInstall
<1>8. CASE ReserveBackup
    BY <1>8 DEF ReserveBackup
<1>9. CASE MoveAside
    BY <1>9, MoveOutcomeFacts, MovedFacts DEF MoveAside
<1>10. CASE VerifyAside
    BY <1>10 DEF VerifyAside, VerifyInstallation, IsInstalled
<1>11. CASE JudgeAside
    BY <1>11 DEF JudgeAside
<1>12. CASE Install
    BY <1>12, MoveOutcomeFacts, MovedFacts DEF Install
<1>13. CASE VerifyInstall
    BY <1>13 DEF VerifyInstall, VerifyInstallation, IsInstalled
<1>14. CASE RestoreBackup
    BY <1>14, MoveOutcomeFacts, MovedFacts DEF RestoreBackup
<1>15. CASE DropBackup
    BY <1>15 DEF DropBackup, AfterInstall
<1>16. CASE VerifyPublication
    BY <1>16 DEF VerifyPublication, VerifyInstallation, IsInstalled
<1>17. CASE RemoveEmptyFolder
    BY <1>17 DEF RemoveEmptyFolder
<1>18. CASE Record
    BY <1>18 DEF Record
<1>19. CASE DiscardStage
    BY <1>19 DEF DiscardStage, StagingRemoved
<1>20. CASE DiscardFails
    BY <1>20 DEF DiscardFails, StagingRemoved
<1>21. CASE Finish
    BY <1>21 DEF Finish
<1>22. CASE Cancel
    BY <1>22 DEF Cancel
<1>23. ASSUME NEW n \in IntruderNames, Intrude(n) PROVE ReplacedKept'
    BY <1>23 DEF Intrude
<1>24. CASE UNCHANGED vars
    BY <1>24 DEF vars
<1> QED
    BY <1>1, <1>2, <1>3, <1>4, <1>5, <1>6, <1>7, <1>8, <1>9, <1>10, <1>11, <1>12, <1>13, <1>14, <1>15, <1>16, <1>17, <1>18, <1>19, <1>20, <1>21, <1>22, <1>23, <1>24 DEF Next, EngineStep

LEMMA OldPlacedStep == Inv /\ [Next]_vars => OldPlaced'
<1> SUFFICES ASSUME Inv, [Next]_vars PROVE OldPlaced'
    OBVIOUS
<1> USE DEF Inv, OldPlaced, OldFileKept, BeforeInstall, Aside, Installed, OldUntouched, TypeOK, ItemNamed, ItemComplete, MovedItemKept, ReplacedKept, OnlyCompleteItemsPublished, Goto, Fail, Put, UNCHANGED_RUN, Name, Content, LayoutKind
<1>1. CASE ReserveSibling
    BY <1>1 DEF ReserveSibling
<1>2. CASE CreateFolder
    BY <1>2 DEF CreateFolder
<1>3. CASE StartUpload
    BY <1>3 DEF StartUpload
<1>4. CASE FinishUpload
    BY <1>4 DEF FinishUpload
<1>5. CASE AbortUpload
    BY <1>5 DEF AbortUpload
<1>6. CASE PlaceDeviceCopy
    BY <1>6, MoveOutcomeFacts, MovedFacts DEF PlaceDeviceCopy
<1>7. CASE Publish
    BY <1>7, RunFacts, MoveOutcomeFacts, MovedFacts DEF Publish, InstallFree, ReplaceInOneStep, AfterInstall
<1>8. CASE ReserveBackup
    BY <1>8 DEF ReserveBackup
<1>9. CASE MoveAside
    BY <1>9, MoveOutcomeFacts, MovedFacts DEF MoveAside
<1>10. CASE VerifyAside
    BY <1>10 DEF VerifyAside, VerifyInstallation, IsInstalled
<1>11. CASE JudgeAside
    BY <1>11 DEF JudgeAside
<1>12. CASE Install
    BY <1>12, MoveOutcomeFacts, MovedFacts DEF Install
<1>13. CASE VerifyInstall
    BY <1>13 DEF VerifyInstall, VerifyInstallation, IsInstalled
<1>14. CASE RestoreBackup
    BY <1>14, MoveOutcomeFacts, MovedFacts DEF RestoreBackup
<1>15. CASE DropBackup
    BY <1>15 DEF DropBackup, AfterInstall
<1>16. CASE VerifyPublication
    BY <1>16 DEF VerifyPublication, VerifyInstallation, IsInstalled
<1>17. CASE RemoveEmptyFolder
    BY <1>17 DEF RemoveEmptyFolder
<1>18. CASE Record
    BY <1>18 DEF Record
<1>19. CASE DiscardStage
    BY <1>19 DEF DiscardStage, StagingRemoved
<1>20. CASE DiscardFails
    BY <1>20 DEF DiscardFails, StagingRemoved
<1>21. CASE Finish
    BY <1>21 DEF Finish
<1>22. CASE Cancel
    BY <1>22 DEF Cancel
<1>23. ASSUME NEW n \in IntruderNames, Intrude(n) PROVE OldPlaced'
    BY <1>23 DEF Intrude
<1>24. CASE UNCHANGED vars
    BY <1>24 DEF vars
<1> QED
    BY <1>1, <1>2, <1>3, <1>4, <1>5, <1>6, <1>7, <1>8, <1>9, <1>10, <1>11, <1>12, <1>13, <1>14, <1>15, <1>16, <1>17, <1>18, <1>19, <1>20, <1>21, <1>22, <1>23, <1>24 DEF Next, EngineStep

LEMMA InvInit == Init => Inv
<1> SUFFICES ASSUME Init PROVE Inv
    OBVIOUS
<1>1. TypeOK /\ TriesLeft
    BY TypeInit DEF Init, TriesLeft
<1>2. ItemNamed
    BY RunFacts DEF Init, ItemNamed, FirstName, LayoutKind
<1>3. fs["final"] = (IF run.had THEN "old" ELSE "none")
    BY DEF Init, Name
<1>4. run.layout = "native" => fs["origin"] = "new" /\ fs[item] = "new"
    BY DEF Init, Name, FirstName
<1>5. pc = IF run.layout = "native" THEN "publish" ELSE "reserve"
    BY DEF Init
<1>6. ItemComplete
    BY <1>4, <1>5 DEF ItemComplete, MovedItemKept
<1>7. ReplacedKept
    BY <1>3, <1>5 DEF ReplacedKept, OnlyCompleteItemsPublished, Aside
<1>8. OldPlaced
    BY <1>3, <1>5 DEF OldPlaced, OldFileKept, OldUntouched, Installed
<1> QED
    BY <1>1, <1>2, <1>6, <1>7, <1>8 DEF Inv

LEMMA InvStep == Inv /\ [Next]_vars => Inv'
<1> SUFFICES ASSUME Inv, [Next]_vars PROVE Inv'
    OBVIOUS
<1>1. TypeOK' /\ TriesLeft'
    BY TypeStep, TriesStep DEF Inv, TypeInv
<1>2. ItemNamed' /\ ItemComplete' /\ ReplacedKept' /\ OldPlaced'
    BY ItemNamedStep, ItemCompleteStep, ReplacedKeptStep, OldPlacedStep
<1> QED
    BY <1>1, <1>2 DEF Inv

-----------------------------------------------------------------------------
(* What a run promises                                                     *)

\* The file a Replace was to overwrite is never lost: it is under its own name
\* or the backup's until the complete incoming file has its name, whatever the
\* backend answers and whatever other programs create (replace_via_backup).
THEOREM OldFileNeverLost == Spec => []OldFileKept
<1>1. Inv => OldFileKept
    BY DEF Inv, OldPlaced, OldFileKept
<1> QED
    BY <1>1, InvInit, InvStep, PTL DEF Spec

\* Neither the install step nor the restoration of a Replace loses an item that
\* is moved natively (commit_replace, restore_backup).
THEOREM MovedItemNeverLost == Spec => []MovedItemKept
<1>1. Inv => MovedItemKept
    BY DEF Inv, ItemComplete
<1> QED
    BY <1>1, InvInit, InvStep, PTL DEF Spec

\* A part of an upload, or an item another program put under one of the hidden
\* names, is never visible under the final name (publish_staged, restore_backup).
THEOREM NoPartialPublished == Spec => []OnlyCompleteItemsPublished
<1>1. Inv => OnlyCompleteItemsPublished
    BY DEF Inv, ReplacedKept
<1> QED
    BY <1>1, InvInit, InvStep, PTL DEF Spec

PublishedNext == fs["final"] = "new" => fs'["final"] = "new"

LEMMA PublishedStep == Inv /\ [Next]_vars => PublishedNext
<1> SUFFICES ASSUME Inv, [Next]_vars PROVE PublishedNext
    OBVIOUS
<1> USE DEF PublishedNext, Inv, BeforeInstall, Aside, TypeOK, ItemNamed, ItemComplete, ReplacedKept, Goto, Fail, Put, UNCHANGED_RUN, Name
<1>1. CASE ReserveSibling
    BY <1>1 DEF ReserveSibling
<1>2. CASE CreateFolder
    BY <1>2 DEF CreateFolder
<1>3. CASE StartUpload
    BY <1>3 DEF StartUpload
<1>4. CASE FinishUpload
    BY <1>4 DEF FinishUpload
<1>5. CASE AbortUpload
    BY <1>5 DEF AbortUpload
<1>6. CASE PlaceDeviceCopy
    BY <1>6, MoveOutcomeFacts, MovedFacts DEF PlaceDeviceCopy
<1>7. CASE Publish
    BY <1>7, MoveOutcomeFacts, MovedFacts DEF Publish, InstallFree, ReplaceInOneStep, AfterInstall
<1>8. CASE ReserveBackup
    BY <1>8 DEF ReserveBackup
<1>9. CASE MoveAside
    BY <1>9, MoveOutcomeFacts, MovedFacts DEF MoveAside
<1>10. CASE VerifyAside
    BY <1>10 DEF VerifyAside, VerifyInstallation, IsInstalled
<1>11. CASE JudgeAside
    BY <1>11 DEF JudgeAside
<1>12. CASE Install
    BY <1>12, MoveOutcomeFacts, MovedFacts DEF Install
<1>13. CASE VerifyInstall
    BY <1>13 DEF VerifyInstall, VerifyInstallation, IsInstalled
<1>14. CASE RestoreBackup
    BY <1>14, MoveOutcomeFacts, MovedFacts DEF RestoreBackup
<1>15. CASE DropBackup
    BY <1>15 DEF DropBackup, AfterInstall
<1>16. CASE VerifyPublication
    BY <1>16 DEF VerifyPublication, VerifyInstallation, IsInstalled
<1>17. CASE RemoveEmptyFolder
    BY <1>17 DEF RemoveEmptyFolder
<1>18. CASE Record
    BY <1>18 DEF Record
<1>19. CASE DiscardStage
    BY <1>19 DEF DiscardStage, StagingRemoved
<1>20. CASE DiscardFails
    BY <1>20 DEF DiscardFails, StagingRemoved
<1>21. CASE Finish
    BY <1>21 DEF Finish
<1>22. CASE Cancel
    BY <1>22 DEF Cancel
<1>23. ASSUME NEW n \in IntruderNames, Intrude(n) PROVE PublishedNext
    BY <1>23 DEF Intrude
<1>24. CASE UNCHANGED vars
    BY <1>24 DEF vars
<1> QED
    BY <1>1, <1>2, <1>3, <1>4, <1>5, <1>6, <1>7, <1>8, <1>9, <1>10, <1>11, <1>12, <1>13, <1>14, <1>15, <1>16, <1>17, <1>18, <1>19, <1>20, <1>21, <1>22, <1>23, <1>24 DEF Next, EngineStep

\* What is published is never taken away: the restoration never overwrites it
\* and the cleanup never reaches it (restore_backup, discard_stage).
THEOREM PublishedForever == Spec => PublishedStays
<1>1. Inv /\ [Next]_vars => [PublishedNext]_vars
    BY PublishedStep
<1> QED
    BY <1>1, InvInit, InvStep, PTL DEF Spec, PublishedStays, PublishedNext

-----------------------------------------------------------------------------
(* What other programs and the user can rely on                            *)

\* Items of other programs are hidden only under the backup's name, unless the
\* hidden sibling name was guessed; and only a Replace sets something aside.
ForeignHidden ==
    /\ \A n \in Name : fs[n] = "foreign" => n = "backup"
    /\ pc \in Aside => run.replace

LEMMA ForeignStep ==
    ASSUME "stage" \notin IntruderNames, Inv, ForeignHidden, [Next]_vars
    PROVE  ForeignHidden'
<1> USE DEF Inv, BeforeInstall, Aside, TypeOK, ItemNamed, ItemComplete, ReplacedKept, OnlyCompleteItemsPublished, Goto, Fail, Put, UNCHANGED_RUN, Name, ForeignHidden
<1>1. CASE ReserveSibling
    BY <1>1 DEF ReserveSibling
<1>2. CASE CreateFolder
    BY <1>2 DEF CreateFolder
<1>3. CASE StartUpload
    BY <1>3 DEF StartUpload
<1>4. CASE FinishUpload
    BY <1>4 DEF FinishUpload
<1>5. CASE AbortUpload
    BY <1>5 DEF AbortUpload
<1>6. CASE PlaceDeviceCopy
    BY <1>6, MoveOutcomeFacts, MovedFacts DEF PlaceDeviceCopy
<1>7. CASE Publish
    BY <1>7, MoveOutcomeFacts, MovedFacts DEF Publish, InstallFree, ReplaceInOneStep, AfterInstall
<1>8. CASE ReserveBackup
    BY <1>8 DEF ReserveBackup
<1>9. CASE MoveAside
    BY <1>9, MoveOutcomeFacts, MovedFacts DEF MoveAside
<1>10. CASE VerifyAside
    BY <1>10 DEF VerifyAside, VerifyInstallation, IsInstalled
<1>11. CASE JudgeAside
    BY <1>11 DEF JudgeAside
<1>12. CASE Install
    BY <1>12, MoveOutcomeFacts, MovedFacts DEF Install
<1>13. CASE VerifyInstall
    BY <1>13 DEF VerifyInstall, VerifyInstallation, IsInstalled
<1>14. CASE RestoreBackup
    BY <1>14, MoveOutcomeFacts, MovedFacts DEF RestoreBackup
<1>15. CASE DropBackup
    BY <1>15 DEF DropBackup, AfterInstall
<1>16. CASE VerifyPublication
    BY <1>16 DEF VerifyPublication, VerifyInstallation, IsInstalled
<1>17. CASE RemoveEmptyFolder
    BY <1>17 DEF RemoveEmptyFolder
<1>18. CASE Record
    BY <1>18 DEF Record
<1>19. CASE DiscardStage
    BY <1>19 DEF DiscardStage, StagingRemoved
<1>20. CASE DiscardFails
    BY <1>20 DEF DiscardFails, StagingRemoved
<1>21. CASE Finish
    BY <1>21 DEF Finish
<1>22. CASE Cancel
    BY <1>22 DEF Cancel
<1>23. ASSUME NEW n \in IntruderNames, Intrude(n) PROVE ForeignHidden'
    BY <1>23, ConstantsAssumption DEF Intrude
<1>24. CASE UNCHANGED vars
    BY <1>24 DEF vars
<1> QED
    BY <1>1, <1>2, <1>3, <1>4, <1>5, <1>6, <1>7, <1>8, <1>9, <1>10, <1>11, <1>12, <1>13, <1>14, <1>15, <1>16, <1>17, <1>18, <1>19, <1>20, <1>21, <1>22, <1>23, <1>24 DEF Next, EngineStep

OthersNext ==
    /\ \A n \in Name : fs[n] = "foreign" => fs'[n] = "foreign"
    /\ fs["final"] = "other" /\ ~Replacing => fs'["final"] = "other"

LEMMA OthersStep == Inv /\ ForeignHidden /\ [Next]_vars => OthersNext
<1> SUFFICES ASSUME Inv, ForeignHidden, [Next]_vars PROVE OthersNext
    OBVIOUS
<1> USE DEF Inv, BeforeInstall, Aside, TypeOK, ItemNamed, ItemComplete, ReplacedKept, OnlyCompleteItemsPublished, Goto, Fail, Put, UNCHANGED_RUN, Name, ForeignHidden, OthersNext, Replacing
<1>1. CASE ReserveSibling
    BY <1>1 DEF ReserveSibling
<1>2. CASE CreateFolder
    BY <1>2 DEF CreateFolder
<1>3. CASE StartUpload
    BY <1>3 DEF StartUpload
<1>4. CASE FinishUpload
    BY <1>4 DEF FinishUpload
<1>5. CASE AbortUpload
    BY <1>5 DEF AbortUpload
<1>6. CASE PlaceDeviceCopy
    BY <1>6, MoveOutcomeFacts, MovedFacts DEF PlaceDeviceCopy
<1>7. CASE Publish
    BY <1>7, MoveOutcomeFacts, MovedFacts DEF Publish, InstallFree, ReplaceInOneStep, AfterInstall
<1>8. CASE ReserveBackup
    BY <1>8 DEF ReserveBackup
<1>9. CASE MoveAside
    BY <1>9, MoveOutcomeFacts, MovedFacts DEF MoveAside
<1>10. CASE VerifyAside
    BY <1>10 DEF VerifyAside, VerifyInstallation, IsInstalled
<1>11. CASE JudgeAside
    BY <1>11 DEF JudgeAside
<1>12. CASE Install
    BY <1>12, MoveOutcomeFacts, MovedFacts DEF Install
<1>13. CASE VerifyInstall
    BY <1>13 DEF VerifyInstall, VerifyInstallation, IsInstalled
<1>14. CASE RestoreBackup
    BY <1>14, MoveOutcomeFacts, MovedFacts DEF RestoreBackup
<1>15. CASE DropBackup
    BY <1>15 DEF DropBackup, AfterInstall
<1>16. CASE VerifyPublication
    BY <1>16 DEF VerifyPublication, VerifyInstallation, IsInstalled
<1>17. CASE RemoveEmptyFolder
    BY <1>17 DEF RemoveEmptyFolder
<1>18. CASE Record
    BY <1>18 DEF Record
<1>19. CASE DiscardStage
    BY <1>19 DEF DiscardStage, StagingRemoved
<1>20. CASE DiscardFails
    BY <1>20 DEF DiscardFails, StagingRemoved
<1>21. CASE Finish
    BY <1>21 DEF Finish
<1>22. CASE Cancel
    BY <1>22 DEF Cancel
<1>23. ASSUME NEW n \in IntruderNames, Intrude(n) PROVE OthersNext
    BY <1>23 DEF Intrude
<1>24. CASE UNCHANGED vars
    BY <1>24 DEF vars
<1> QED
    BY <1>1, <1>2, <1>3, <1>4, <1>5, <1>6, <1>7, <1>8, <1>9, <1>10, <1>11, <1>12, <1>13, <1>14, <1>15, <1>16, <1>17, <1>18, <1>19, <1>20, <1>21, <1>22, <1>23, <1>24 DEF Next, EngineStep

\* As long as nobody guesses the random sibling name, no item of another
\* program is removed or overwritten: only the Replace the user chose takes one,
\* from the final name, when it begins (publish_staged, move_aside,
\* restore_backup, discard_stage).
THEOREM OthersNeverRemoved ==
    ASSUME "stage" \notin IntruderNames
    PROVE  Spec => OthersKept
<1>1. Init => ForeignHidden
    BY DEF Init, ForeignHidden, Aside, Name
<1>2. Inv /\ ForeignHidden /\ [Next]_vars => ForeignHidden'
    BY ForeignStep
<1>3. Inv /\ ForeignHidden /\ [Next]_vars => [OthersNext]_vars
    BY OthersStep
<1> QED
    BY <1>1, <1>2, <1>3, InvInit, InvStep, PTL DEF Spec, OthersKept, OthersNext

\* A "not found" that may be false is not about the backup of a file whose name
\* another program took.
AbsenceIsClear == FalseMissing \in {"never", "apart"} \/ "final" \notin IntruderNames

\* What was set aside is under the backup's name only while the Replace goes on,
\* or with an error that says so.
HiddenAside == fs["backup"] \in {"old", "other"}
HiddenOld ==
    /\ HiddenAside =>
        \/ pc \in {"verifyAside", "judge", "install", "verifyInstall", "restore", "dropBackup"}
        \/ pc = "record" /\ err = "recovery"
        \/ pc \in {"cleanup", "finished"} /\ report.recovery /\ report.errors
    /\ pc = "judge" /\ cause = "exists" => ~HiddenAside
    /\ pc \in {"verifyAside", "judge"} /\ HiddenAside =>
        \/ fs["final"] = "none"
        \/ fs["final"] = "other" /\ "final" \in IntruderNames

LEMMA HiddenStep ==
    ASSUME AbsenceIsClear, Inv, HiddenOld, [Next]_vars
    PROVE  HiddenOld'
<1> USE DEF Inv, BeforeInstall, Aside, TypeOK, ItemNamed, ItemComplete, ReplacedKept, OnlyCompleteItemsPublished, Goto, Fail, Put, UNCHANGED_RUN, Name, HiddenOld, HiddenAside, Report, Recorded, Reply
<1>1. CASE ReserveSibling
    BY <1>1 DEF ReserveSibling
<1>2. CASE CreateFolder
    BY <1>2 DEF CreateFolder
<1>3. CASE StartUpload
    BY <1>3 DEF StartUpload
<1>4. CASE FinishUpload
    BY <1>4 DEF FinishUpload
<1>5. CASE AbortUpload
    BY <1>5 DEF AbortUpload
<1>6. CASE PlaceDeviceCopy
    BY <1>6, MoveOutcomeFacts, MovedFacts DEF PlaceDeviceCopy
<1>7. CASE Publish
    BY <1>7, MoveOutcomeFacts, MovedFacts DEF Publish, InstallFree, ReplaceInOneStep, AfterInstall
<1>8. CASE ReserveBackup
    BY <1>8 DEF ReserveBackup
<1>9. CASE MoveAside
    BY <1>9, MoveOutcomeFacts, MovedFacts DEF MoveAside
<1>10. CASE VerifyAside
    BY <1>10 DEF VerifyAside, VerifyInstallation, IsInstalled
<1>11. CASE JudgeAside
    BY <1>11 DEF JudgeAside, Answers, MayMislead, AsideOutcome, AbsenceIsClear
<1>12. CASE Install
    BY <1>12, MoveOutcomeFacts, MovedFacts DEF Install
<1>13. CASE VerifyInstall
    BY <1>13 DEF VerifyInstall, VerifyInstallation, IsInstalled
<1>14. CASE RestoreBackup
    BY <1>14, MoveOutcomeFacts, MovedFacts DEF RestoreBackup
<1>15. CASE DropBackup
    BY <1>15 DEF DropBackup, AfterInstall
<1>16. CASE VerifyPublication
    BY <1>16 DEF VerifyPublication, VerifyInstallation, IsInstalled
<1>17. CASE RemoveEmptyFolder
    BY <1>17 DEF RemoveEmptyFolder
<1>18. CASE Record
    BY <1>18 DEF Record
<1>19. CASE DiscardStage
    BY <1>19 DEF DiscardStage, StagingRemoved
<1>20. CASE DiscardFails
    BY <1>20 DEF DiscardFails, StagingRemoved
<1>21. CASE Finish
    BY <1>21 DEF Finish
<1>22. CASE Cancel
    BY <1>22 DEF Cancel
<1>23. ASSUME NEW n \in IntruderNames, Intrude(n) PROVE HiddenOld'
    BY <1>23 DEF Intrude
<1>24. CASE UNCHANGED vars
    BY <1>24 DEF vars
<1> QED
    BY <1>1, <1>2, <1>3, <1>4, <1>5, <1>6, <1>7, <1>8, <1>9, <1>10, <1>11, <1>12, <1>13, <1>14, <1>15, <1>16, <1>17, <1>18, <1>19, <1>20, <1>21, <1>22, <1>23, <1>24 DEF Next, EngineStep

\* Unless a "not found" may be false while another program's item has the final
\* name, the user is always told of an old file that stays under its hidden name,
\* cancelled or not (move_aside, restore_backup, record_failure).
THEOREM HiddenOldAlwaysReported ==
    ASSUME AbsenceIsClear
    PROVE  Spec => []HiddenOldReported
<1>1. Init => HiddenOld
    BY DEF Init, HiddenOld, HiddenAside, Name
<1>2. Inv /\ HiddenOld /\ [Next]_vars => HiddenOld'
    BY HiddenStep
<1>3. HiddenOld => HiddenOldReported
    BY DEF HiddenOld, HiddenAside, HiddenOldReported
<1> QED
    BY <1>1, <1>2, <1>3, InvInit, InvStep, PTL DEF Spec

-----------------------------------------------------------------------------
(* What an ended run leaves behind                                         *)

\* What the engine makes while it stages, and the layouts with a private folder.
EngineMade == {"folder", "partial", "new"}
StagingName == {"stage", "landed", "renamed"}
Private == run.layout \in {"payload", "sameDevice"}
Building == {"upload", "uploading", "place", "publish", "reserveBackup", "aside", "verifyAside", "judge",
             "install", "verifyInstall", "restore", "dropBackup", "verify"}

\* What is staged is recorded until it is gone, or reported as left over.
Staged ==
    /\ ~Private => fs["landed"] = "none" /\ fs["renamed"] = "none"
    /\ run.layout = "native" => fs["stage"] \notin EngineMade /\ ~recorded
    /\ run.layout = "sibling" /\ pc \in {"reserve", "upload"} => fs["stage"] \notin EngineMade
    /\ Private /\ pc = "reserve" => fs["landed"] = "none" /\ fs["renamed"] = "none"
    /\ pc = "reserve" => ~recorded
    /\ Private /\ recorded => fs["stage"] = "folder"
    /\ run.layout # "native" /\ pc \in Building => recorded
    /\ recorded \/ report.leftover \/ \A n \in StagingName : fs[n] \notin EngineMade
    /\ pc = "finished" => ~recorded

LEMMA StagedStep == Inv /\ Staged /\ [Next]_vars => Staged'
<1> SUFFICES ASSUME Inv, Staged, [Next]_vars PROVE Staged'
    OBVIOUS
<1> USE RunFacts DEF EngineMade, StagingName, Private, Building, Staged, Inv, TypeOK, ItemNamed, Goto, Fail, Put,
        UNCHANGED_RUN, Name, Recorded, Report, LayoutKind
<1>1. CASE ReserveSibling
    BY <1>1 DEF ReserveSibling
<1>2. CASE CreateFolder
    BY <1>2 DEF CreateFolder
<1>3. CASE StartUpload
    BY <1>3 DEF StartUpload
<1>4. CASE FinishUpload
    BY <1>4 DEF FinishUpload
<1>5. CASE AbortUpload
    BY <1>5 DEF AbortUpload
<1>6. CASE PlaceDeviceCopy
    BY <1>6, MoveOutcomeFacts, MovedFacts DEF PlaceDeviceCopy
<1>7. CASE Publish
    BY <1>7, MoveOutcomeFacts, MovedFacts DEF Publish, InstallFree, ReplaceInOneStep, AfterInstall
<1>8. CASE ReserveBackup
    BY <1>8 DEF ReserveBackup
<1>9. CASE MoveAside
    BY <1>9, MoveOutcomeFacts, MovedFacts DEF MoveAside
<1>10. CASE VerifyAside
    BY <1>10 DEF VerifyAside, VerifyInstallation, IsInstalled
<1>11. CASE JudgeAside
    BY <1>11 DEF JudgeAside
<1>12. CASE Install
    BY <1>12, MoveOutcomeFacts, MovedFacts DEF Install
<1>13. CASE VerifyInstall
    BY <1>13 DEF VerifyInstall, VerifyInstallation, IsInstalled
<1>14. CASE RestoreBackup
    BY <1>14, MoveOutcomeFacts, MovedFacts DEF RestoreBackup
<1>15. CASE DropBackup
    BY <1>15 DEF DropBackup, AfterInstall
<1>16. CASE VerifyPublication
    BY <1>16 DEF VerifyPublication, VerifyInstallation, IsInstalled
<1>17. CASE RemoveEmptyFolder
    BY <1>17 DEF RemoveEmptyFolder, FolderIsEmpty
<1>18. CASE Record
    BY <1>18 DEF Record
<1>19. CASE DiscardStage
    BY <1>19 DEF DiscardStage, StagingRemoved, Answers
<1>20. CASE DiscardFails
    BY <1>20 DEF DiscardFails, StagingRemoved
<1>21. CASE Finish
    BY <1>21 DEF Finish
<1>22. CASE Cancel
    BY <1>22 DEF Cancel
<1>23. ASSUME NEW n \in IntruderNames, Intrude(n) PROVE Staged'
    BY <1>23, ConstantsAssumption DEF Intrude
<1>24. CASE UNCHANGED vars
    BY <1>24 DEF vars
<1> QED
    BY <1>1, <1>2, <1>3, <1>4, <1>5, <1>6, <1>7, <1>8, <1>9, <1>10, <1>11, <1>12, <1>13, <1>14, <1>15,
       <1>16, <1>17, <1>18, <1>19, <1>20, <1>21, <1>22, <1>23, <1>24 DEF Next, EngineStep

\* For every layout, backend, number of faults and set of intruded names:
\* staging of the engine that is still there when the run has ended is reported
\* (discard_stage, keep_stage).
THEOREM LeftoverAlwaysReported == Spec => []LeftoverReported
<1>1. Init => Staged
    BY DEF Init, Staged, Private, Building, EngineMade, StagingName, Name
<1>2. Inv /\ Staged /\ [Next]_vars => Staged'
    BY StagedStep
<1>3. Staged => LeftoverReported
    BY DEF Staged, StagingName, EngineMade, LeftoverReported
<1> QED
    BY <1>1, <1>2, <1>3, InvInit, InvStep, PTL DEF Spec

\* An item verified to be installed, or reported done, is.
Delivered ==
    /\ pc = "verify" => "new" \in {fs[item], fs["final"]}
    /\ report.done => pc \in {"cleanup", "finished"}
    /\ (pc \in {"dropBackup", "removeFolder"} \/ report.done) /\ ~(Device /\ run.layout = "native") =>
          fs["final"] = "new" /\ fs[item] = "none"

LEMMA DeliveredStep ==
    ASSUME "stage" \notin IntruderNames, Inv, Delivered, [Next]_vars
    PROVE  Delivered'
<1> USE RunFacts DEF Device, Delivered, Inv, TypeOK, ItemNamed, ItemComplete, ReplacedKept, OnlyCompleteItemsPublished,
        BeforeInstall, Aside, Goto, Fail, Put, UNCHANGED_RUN, Name, Recorded, Report, LayoutKind
<1>1. CASE ReserveSibling
    BY <1>1 DEF ReserveSibling
<1>2. CASE CreateFolder
    BY <1>2 DEF CreateFolder
<1>3. CASE StartUpload
    BY <1>3 DEF StartUpload
<1>4. CASE FinishUpload
    BY <1>4 DEF FinishUpload
<1>5. CASE AbortUpload
    BY <1>5 DEF AbortUpload
<1>6. CASE PlaceDeviceCopy
    BY <1>6, MoveOutcomeFacts, MovedFacts DEF PlaceDeviceCopy
<1>7. CASE Publish
  <2>1. ~report.done /\ report' = report /\ run' = run /\ item' = item /\ item \in Name /\ item # "final"
    BY <1>7 DEF Publish
  <2>2. fs[item] = "new" \/ (fs[item] = "none" /\ run.layout = "sameDevice")
    BY <1>7 DEF Publish
  <2>3. CASE InstallFree
    <3>1. PICK o \in MoveOutcomes(item, "final") :
             fs' = o[2] /\ IF o[1] = "ok" THEN AfterInstall ELSE Fail(o[1])
      BY <2>3 DEF InstallFree
    <3>2. CASE o[1] # "ok"
      BY <2>1, <3>1, <3>2
    <3>3. CASE o[1] = "ok"
      <4>1. fs[item] = "new" /\ (fs' = fs \/ fs' = Moved(item, "final")) /\ (~Device => fs' # fs)
        BY <2>1, <2>2, <3>1, <3>3, MoveOutcomeFacts, MovedFacts DEF MoveOutcomes
      <4>2. "new" \in {fs'[item], fs'["final"]} /\ (~Device => fs'["final"] = "new" /\ fs'[item] = "none")
        BY <2>1, <4>1, MovedFacts
      <4>3. pc' = IF run.layout \in {"sibling", "sameDevice"} THEN "verify" ELSE "removeFolder"
        BY <3>1, <3>3 DEF AfterInstall
      <4> QED
        BY <2>1, <4>2, <4>3
    <3> QED
      BY <3>2, <3>3
  <2>4. CASE fs[item] # "none" /\ ReplaceInOneStep
    <3>1. \/ pc' = "record"
          \/ fs' = Moved(item, "final") /\ AfterInstall
      BY <2>4 DEF ReplaceInOneStep
    <3>2. fs' = Moved(item, "final") => fs'["final"] = "new" /\ fs'[item] = "none"
      BY <2>1, <2>2, <2>4, MovedFacts
    <3> QED
      BY <2>1, <3>1, <3>2 DEF AfterInstall
  <2>5. CASE pc' \in {"record", "reserveBackup"}
    BY <2>1, <2>5
  <2> QED
    BY <1>7, <2>3, <2>4, <2>5 DEF Publish
<1>8. CASE ReserveBackup
    BY <1>8 DEF ReserveBackup
<1>9. CASE MoveAside
    BY <1>9, MoveOutcomeFacts, MovedFacts DEF MoveAside
<1>10. CASE VerifyAside
    BY <1>10 DEF VerifyAside, VerifyInstallation, IsInstalled
<1>11. CASE JudgeAside
    BY <1>11 DEF JudgeAside
<1>12. CASE Install
    BY <1>12, MoveOutcomeFacts, MovedFacts DEF Install
<1>13. CASE VerifyInstall
    BY <1>13 DEF VerifyInstall, VerifyInstallation, IsInstalled
<1>14. CASE RestoreBackup
    BY <1>14, MoveOutcomeFacts, MovedFacts DEF RestoreBackup
<1>15. CASE DropBackup
    BY <1>15 DEF DropBackup, AfterInstall
<1>16. CASE VerifyPublication
    BY <1>16 DEF VerifyPublication, VerifyInstallation, IsInstalled
<1>17. CASE RemoveEmptyFolder
    BY <1>17 DEF RemoveEmptyFolder, FolderIsEmpty
<1>18. CASE Record
    BY <1>18 DEF Record
<1>19. CASE DiscardStage
    BY <1>19 DEF DiscardStage, StagingRemoved, Answers
<1>20. CASE DiscardFails
    BY <1>20 DEF DiscardFails, StagingRemoved
<1>21. CASE Finish
    BY <1>21 DEF Finish
<1>22. CASE Cancel
    BY <1>22 DEF Cancel
<1>23. ASSUME NEW n \in IntruderNames, Intrude(n) PROVE Delivered'
    BY <1>23, ConstantsAssumption DEF Intrude
<1>24. CASE UNCHANGED vars
    BY <1>24 DEF vars
<1> QED
    BY <1>1, <1>2, <1>3, <1>4, <1>5, <1>6, <1>7, <1>8, <1>9, <1>10, <1>11, <1>12, <1>13, <1>14, <1>15,
       <1>16, <1>17, <1>18, <1>19, <1>20, <1>21, <1>22, <1>23, <1>24 DEF Next, EngineStep

\* As long as nobody guesses the random sibling name, an item reported done is
\* there, complete, and gone from where it was built or came from
\* (verify_installation, verify_device_publication).
THEOREM DoneIsAlwaysTrue ==
    ASSUME "stage" \notin IntruderNames
    PROVE  Spec => []DoneIsTrue
<1>1. Init => Delivered
    BY DEF Init, Delivered
<1>2. Inv /\ Delivered /\ [Next]_vars => Delivered'
    BY DeliveredStep
<1>3. Delivered => DoneIsTrue
    BY DEF Delivered, DoneIsTrue
<1> QED
    BY <1>1, <1>2, <1>3, InvInit, InvStep, PTL DEF Spec

-----------------------------------------------------------------------------
(* The engine implements Publication                                       *)

\* What the visible steps rest on besides the invariants above: only a Replace
\* sets something aside, only for an installed item is it given up, and every
\* report says how the run ended.
ReplaceSteps == Aside \cup {"dropBackup"}
Explained == report.done \/ report.errors \/ report.cancelled
Promising ==
    /\ run.layout # "native" => fs["origin"] = "none"
    /\ pc \in ReplaceSteps => run.replace
    /\ pc = "dropBackup" => fs["final"] = "new"
    /\ pc \in {"cleanup", "finished"} => Explained
    /\ report.recovery => report.errors

LEMMA PromisingStep == Inv /\ Promising /\ [Next]_vars => Promising'
<1> SUFFICES ASSUME Inv, Promising, [Next]_vars PROVE Promising'
    OBVIOUS
<1> USE DEF Promising, Explained, ReplaceSteps, Inv, TypeOK, ItemNamed, ItemComplete, ReplacedKept,
        OnlyCompleteItemsPublished, BeforeInstall, Aside, Goto, Fail, Put, UNCHANGED_RUN, Name, Report
<1>1. CASE ReserveSibling
    BY <1>1 DEF ReserveSibling
<1>2. CASE CreateFolder
    BY <1>2 DEF CreateFolder
<1>3. CASE StartUpload
  <2>1. item # "final" /\ item # "backup" /\ (run.layout # "native" => item # "origin")
    BY RunFacts DEF LayoutKind
  <2>2. fs' = fs \/ fs' = [fs EXCEPT ![item] = "partial"]
    BY <1>3 DEF StartUpload
  <2>3. fs'["final"] = fs["final"] /\ (run.layout # "native" => fs'["origin"] = fs["origin"])
    BY <2>1, <2>2
  <2>4. run' = run /\ report' = report /\ pc' \in {"record", "uploading"}
    BY <1>3 DEF StartUpload
  <2> QED
    BY <2>3, <2>4
<1>4. CASE FinishUpload
    BY <1>4 DEF FinishUpload
<1>5. CASE AbortUpload
    BY <1>5 DEF AbortUpload
<1>6. CASE PlaceDeviceCopy
    BY <1>6, MoveOutcomeFacts, MovedFacts DEF PlaceDeviceCopy
<1>7. CASE Publish
    BY <1>7, MoveOutcomeFacts, MovedFacts DEF Publish, InstallFree, ReplaceInOneStep, AfterInstall
<1>8. CASE ReserveBackup
    BY <1>8 DEF ReserveBackup
<1>9. CASE MoveAside
    BY <1>9, MoveOutcomeFacts, MovedFacts DEF MoveAside
<1>10. CASE VerifyAside
    BY <1>10 DEF VerifyAside, VerifyInstallation, IsInstalled
<1>11. CASE JudgeAside
    BY <1>11 DEF JudgeAside
<1>12. CASE Install
    BY <1>12, MoveOutcomeFacts, MovedFacts DEF Install
<1>13. CASE VerifyInstall
    BY <1>13 DEF VerifyInstall, VerifyInstallation, IsInstalled
<1>14. CASE RestoreBackup
    BY <1>14, MoveOutcomeFacts, MovedFacts DEF RestoreBackup
<1>15. CASE DropBackup
    BY <1>15 DEF DropBackup, AfterInstall
<1>16. CASE VerifyPublication
    BY <1>16 DEF VerifyPublication, VerifyInstallation, IsInstalled
<1>17. CASE RemoveEmptyFolder
  <2>1. run' = run /\ pc' = "cleanup" /\ fs'["origin"] = fs["origin"]
    BY <1>17 DEF RemoveEmptyFolder
  <2>2. \/ report' = [report EXCEPT !.done = TRUE]
        \/ report' = [Recorded("failed") EXCEPT !.done = TRUE]
    BY <1>17 DEF RemoveEmptyFolder
  <2>3. Explained' /\ (report'.recovery => report'.errors)
    BY <2>2 DEF Recorded
  <2> QED
    BY <2>1, <2>3
<1>18. CASE Record
    BY <1>18 DEF Record, Recorded
<1>19. CASE DiscardStage
    BY <1>19 DEF DiscardStage, StagingRemoved
<1>20. CASE DiscardFails
    BY <1>20 DEF DiscardFails, StagingRemoved
<1>21. CASE Finish
    BY <1>21 DEF Finish
<1>22. CASE Cancel
    BY <1>22 DEF Cancel
<1>23. ASSUME NEW n \in IntruderNames, Intrude(n) PROVE Promising'
    BY <1>23, ConstantsAssumption DEF Intrude
<1>24. CASE UNCHANGED vars
    BY <1>24 DEF vars
<1> QED
    BY <1>1, <1>2, <1>3, <1>4, <1>5, <1>6, <1>7, <1>8, <1>9, <1>10, <1>11, <1>12, <1>13, <1>14, <1>15,
       <1>16, <1>17, <1>18, <1>19, <1>20, <1>21, <1>22, <1>23, <1>24 DEF Next, EngineStep

\* A step that leaves what is seen alone, while the run goes on.
LEMMA UnseenStep ==
    ASSUME pc # "finished", pc' # "finished", run' = run,
           \A n \in {"final", "backup", "origin"} : fs'[n] = fs[n]
    PROVE  UNCHANGED Published!vars
    BY DEF Published!vars, Device

\* The item gets its name: what was at the final name is free, or replaced in
\* one step, and nothing is aside of a file that is replaced so.
LEMMA PublishingStep ==
    ASSUME Inv, Promising, pc \notin {"finished", "record"}, pc' # "finished", run' = run,
           fs[item] = "new", fs' = Moved(item, "final"),
           fs["final"] = "none" \/ (run.replace /\ fs["final"] # "new" /\ ~HiddenAside)
    PROVE  Published!Publish
<1>1. item \in Name /\ item # "final" /\ item # "backup"
    BY DEF Inv, TypeOK, Name
<1>2. /\ fs'["final"] = "new" /\ fs'["backup"] = fs["backup"]
      /\ fs'["origin"] = IF item = "origin" THEN "none" ELSE fs["origin"]
    BY <1>1, MovedFacts DEF Inv, TypeOK, Name
<1>3. /\ run.layout = "native" <=> item = "origin"
      /\ (fs["origin"] = "new") = (run.layout = "native")
      /\ fs'["origin"] # "new"
    <2>1. run.layout \in LayoutKind
        BY RunFacts DEF Inv, TypeOK
    <2> QED
        BY <1>2, <2>1 DEF Inv, TypeOK, ItemNamed, Promising, LayoutKind
<1>4. fs["final"] \in {"none", "old", "new", "other"}
    BY DEF Inv, ReplacedKept, OnlyCompleteItemsPublished
<1> QED
    BY <1>2, <1>3, <1>4 DEF Published!Publish, Published!Open, HiddenAside, Device

\* Every step is one of Publication, or changes nothing it shows.
LEMMA PublicationStep ==
    ASSUME Inv, HiddenOld, Delivered, Promising, [Next]_vars
    PROVE  [Published!Next]_Published!vars
<1> USE DEF Goto, Fail, Put, UNCHANGED_RUN
<1>0. /\ fs \in [Name -> Content] /\ item \in Name /\ item # "final" /\ item # "backup"
      /\ run.layout \in LayoutKind
      /\ run.layout # "native" => item # "origin"
      /\ pc \in {"upload", "uploading", "place"} => item # "origin"
    BY RunFacts DEF Inv, TypeOK, ItemNamed, Name, LayoutKind
<1>1. CASE ReserveSibling
    BY <1>0, <1>1, UnseenStep DEF ReserveSibling, Name
<1>2. CASE CreateFolder
    BY <1>0, <1>2, UnseenStep DEF CreateFolder, Name
<1>3. CASE StartUpload
  <2>1. /\ pc = "upload" /\ run' = run /\ pc' # "finished"
        /\ fs' = fs \/ fs' = [fs EXCEPT ![item] = "partial"]
    BY <1>3 DEF StartUpload
  <2>2. \A n \in {"final", "backup", "origin"} : fs'[n] = fs[n]
    BY <1>0, <2>1 DEF Name
  <2> QED
    BY <2>1, <2>2, UnseenStep
<1>4. CASE FinishUpload
    BY <1>0, <1>4, UnseenStep DEF FinishUpload, Name
<1>5. CASE AbortUpload
    BY <1>0, <1>5, UnseenStep DEF AbortUpload, Name
<1>6. CASE PlaceDeviceCopy
    BY <1>0, <1>6, MoveOutcomeFacts, MovedFacts, UnseenStep DEF PlaceDeviceCopy, Name
<1>7. CASE Publish
  <2>1. pc = "publish" /\ run' = run /\ pc' # "finished"
    BY <1>7 DEF Publish, InstallFree, ReplaceInOneStep, AfterInstall
  <2>2. CASE fs' = fs
    BY <2>1, <2>2, UnseenStep
  <2>3. CASE fs' # fs
    <3>1. fs' = Moved(item, "final") /\ fs[item] # "none" /\ (fs["final"] = "none" \/ run.replace)
      BY <1>0, <1>7, <2>3, MoveOutcomeFacts DEF Publish, InstallFree, ReplaceInOneStep, AfterInstall, Name
    <3>2. fs[item] = "new" /\ fs["final"] # "new" /\ ~HiddenAside
      BY <2>1, <3>1 DEF Inv, ItemComplete, ReplacedKept, BeforeInstall, HiddenOld
    <3> QED
      BY <2>1, <3>1, <3>2, PublishingStep DEF Published!Next
  <2> QED
    BY <2>2, <2>3
<1>8. CASE ReserveBackup
    BY <1>0, <1>8, UnseenStep DEF ReserveBackup, Name
<1>9. CASE MoveAside
  <2>1. pc = "aside" /\ run' = run /\ pc' # "finished" /\ run.replace
    BY <1>9 DEF MoveAside, Promising, ReplaceSteps, Aside
  <2>2. CASE fs' = fs
    BY <2>1, <2>2, UnseenStep
  <2>3. CASE fs' # fs
    <3>1. fs' = Moved("final", "backup") /\ fs["final"] # "none" /\ fs["backup"] = "none"
      BY <1>9, <2>3, MoveOutcomeFacts DEF MoveAside, Name
    <3>2. fs["final"] \in {"old", "other"}
      BY <2>1, <3>1 DEF Inv, ReplacedKept, OnlyCompleteItemsPublished, BeforeInstall
    <3>3. fs'["final"] = "none" /\ fs'["backup"] = fs["final"] /\ fs'["origin"] = fs["origin"]
      BY <1>0, <3>1, MovedFacts DEF Name
    <3>4. Published!SetAside
      BY <2>1, <3>1, <3>2, <3>3 DEF Published!SetAside, Published!Open, Device
    <3> QED
      BY <3>4 DEF Published!Next
  <2> QED
    BY <2>2, <2>3
<1>10. CASE VerifyAside
    BY <1>0, <1>10, UnseenStep DEF VerifyAside, Name
<1>11. CASE JudgeAside
    BY <1>0, <1>11, UnseenStep DEF JudgeAside, Name
<1>12. CASE Install
  <2>1. pc = "install" /\ run' = run /\ pc' # "finished"
    BY <1>12 DEF Install
  <2>2. CASE fs' = fs
    BY <2>1, <2>2, UnseenStep
  <2>3. CASE fs' # fs
    <3>1. fs' = Moved(item, "final") /\ fs["final"] = "none"
      BY <1>0, <1>12, <2>3, MoveOutcomeFacts DEF Install, Name
    <3>2. fs[item] = "new"
      BY <2>1 DEF Inv, ItemComplete
    <3> QED
      BY <2>1, <3>1, <3>2, PublishingStep DEF Published!Next
  <2> QED
    BY <2>2, <2>3
<1>13. CASE VerifyInstall
    BY <1>0, <1>13, UnseenStep DEF VerifyInstall, Name
<1>14. CASE RestoreBackup
  <2>1. pc = "restore" /\ run' = run /\ pc' # "finished"
    BY <1>14 DEF RestoreBackup
  <2>2. CASE fs' = fs
    BY <2>1, <2>2, UnseenStep
  <2>3. CASE fs' # fs
    <3>1. fs' = Moved("backup", "final") /\ fs["final"] = "none"
      BY <1>14, <2>3, MoveOutcomeFacts DEF RestoreBackup, Name
    <3>2. fs["backup"] \in {"old", "other"}
      BY <2>1, <3>1 DEF Inv, ReplacedKept, Aside
    <3>3. fs'["final"] = fs["backup"] /\ fs'["backup"] = "none" /\ fs'["origin"] = fs["origin"]
      BY <1>0, <3>1, MovedFacts DEF Name
    <3>4. Published!PutBack
      BY <2>1, <3>1, <3>2, <3>3 DEF Published!PutBack, Published!Open, Device
    <3> QED
      BY <3>4 DEF Published!Next
  <2> QED
    BY <2>2, <2>3
<1>15. CASE DropBackup
  <2>1. pc = "dropBackup" /\ run' = run /\ pc' # "finished"
    BY <1>15 DEF DropBackup, AfterInstall
  <2>2. CASE fs' = fs
    BY <2>1, <2>2, UnseenStep
  <2>3. CASE fs' # fs
    <3>1. fs' = [fs EXCEPT !["backup"] = "none"]
      BY <1>15, <2>3 DEF DropBackup
    <3>2. fs["backup"] \in {"old", "other"} /\ fs["final"] = "new"
      BY <2>1 DEF Inv, ReplacedKept, Promising
    <3>3. fs'["final"] = fs["final"] /\ fs'["backup"] = "none" /\ fs'["origin"] = fs["origin"]
      BY <1>0, <3>1 DEF Name
    <3>4. Published!Discard
      BY <2>1, <3>2, <3>3 DEF Published!Discard, Published!Open, Device
    <3> QED
      BY <3>4 DEF Published!Next
  <2> QED
    BY <2>2, <2>3
<1>16. CASE VerifyPublication
    BY <1>0, <1>16, UnseenStep DEF VerifyPublication, Name
<1>17. CASE RemoveEmptyFolder
    BY <1>0, <1>17, UnseenStep DEF RemoveEmptyFolder, Name
<1>18. CASE Record
    BY <1>0, <1>18, UnseenStep DEF Record, Name
<1>19. CASE DiscardStage
    BY <1>0, <1>19, UnseenStep DEF DiscardStage, StagingRemoved, Name
<1>20. CASE DiscardFails
    BY <1>0, <1>20, UnseenStep DEF DiscardFails, StagingRemoved, Name
<1>21. CASE Finish
  <2> DEFINE result == [done |-> report.done, error |-> report.errors,
                        cancelled |-> report.cancelled, recovery |-> report.recovery]
  <2>1. pc = "cleanup" /\ pc' = "finished" /\ UNCHANGED <<run, fs, report>>
    BY <1>21 DEF Finish
  <2>2. result \in Published!Result
    BY DEF Inv, TypeOK, Report, Published!Result
  <2>3. result.done => fs["final"] = "new" \/ (Device /\ run.layout = "native")
    BY DEF Delivered
  <2>4. HiddenAside => result.recovery
    BY <2>1 DEF HiddenOld
  <2>5. result.recovery => result.error
    BY DEF Promising
  <2>6. result.done \/ result.error \/ result.cancelled
    BY <2>1 DEF Promising, Explained
  <2>7. Published!Tell(result)
    BY <2>1, <2>3, <2>4, <2>5, <2>6 DEF Published!Tell, HiddenAside, Device
  <2> QED
    BY <2>2, <2>7 DEF Published!Next
<1>22. CASE Cancel
    BY <1>22, UnseenStep DEF Cancel
<1>23. ASSUME NEW n \in IntruderNames, Intrude(n) PROVE [Published!Next]_Published!vars
  <2>1. /\ pc # "finished" /\ UNCHANGED <<run, pc>> /\ fs[n] = "none" /\ n \in {"final", "stage", "backup"}
        /\ fs' = [fs EXCEPT ![n] = IF n = "final" THEN "other" ELSE "foreign"]
    BY <1>23, ConstantsAssumption DEF Intrude
  <2>2. CASE n = "final"
    <3>1. Published!Occupy
      BY <1>0, <2>1, <2>2 DEF Published!Occupy, Published!Open, Device, Name
    <3> QED
      BY <3>1 DEF Published!Next
  <2>3. CASE n # "final"
    BY <1>0, <2>1, <2>3 DEF Published!vars, Device, Name
  <2> QED
    BY <2>2, <2>3
<1>24. CASE UNCHANGED vars
    BY <1>24 DEF vars, Published!vars, Device
<1> QED
    BY <1>1, <1>2, <1>3, <1>4, <1>5, <1>6, <1>7, <1>8, <1>9, <1>10, <1>11, <1>12, <1>13, <1>14, <1>15,
       <1>16, <1>17, <1>18, <1>19, <1>20, <1>21, <1>22, <1>23, <1>24 DEF Next, EngineStep

LEMMA PublicationInit == Init => Published!Init
<1> SUFFICES ASSUME Init PROVE Published!Init
    OBVIOUS
<1>1. /\ run \in Runs /\ pc # "finished"
      /\ fs["final"] = IF run.had THEN "old" ELSE "none"
      /\ fs["backup"] = "none"
      /\ fs["origin"] = IF run.layout = "native" THEN "new" ELSE "none"
    BY DEF Init, Name
<1>2. run.replace \in BOOLEAN /\ (~run.replace => ~run.had)
    BY <1>1, RunFacts
<1> QED
    BY <1>1, <1>2 DEF Published!Init, Published!Job, Device

\* As long as nobody guesses the random sibling name, and no "not found" is false
\* while another program's item has the final name: every run, on every layout and backend, whatever
\* fails, is a run of Publication.
THEOREM EnginePublishes ==
    ASSUME "stage" \notin IntruderNames, AbsenceIsClear
    PROVE  Spec => PublishesAsPromised
<1> DEFINE All == Inv /\ HiddenOld /\ Delivered /\ Promising
<1>1. Init => HiddenOld /\ Delivered /\ Promising
  <2> SUFFICES ASSUME Init PROVE HiddenOld /\ Delivered /\ Promising
    OBVIOUS
  <2>1. HiddenOld /\ Delivered
    BY DEF Init, HiddenOld, HiddenAside, Delivered, Name
  <2>2. Promising
    BY DEF Init, Promising, ReplaceSteps, Aside, Name
  <2> QED
    BY <2>1, <2>2
<1>2. All /\ [Next]_vars => HiddenOld' /\ Delivered' /\ Promising'
    BY HiddenStep, DeliveredStep, PromisingStep
<1>3. All /\ [Next]_vars => [Published!Next]_Published!vars
    BY PublicationStep
<1> QED
    BY <1>1, <1>2, <1>3, InvInit, InvStep, PublicationInit, PTL DEF Spec, PublishesAsPromised, Published!Spec

-----------------------------------------------------------------------------
(* A run ends: what of RunEnds needs no fairness                           *)

\* The steps of the engine in the order of a run, the last first.
Ahead(step) ==
    CASE step \in {"record", "removeFolder"} -> 0
      [] step = "verify" -> 1
      [] step = "dropBackup" -> 2
      [] step = "restore" -> 3
      [] step = "verifyInstall" -> 4
      [] step = "install" -> 5
      [] step = "judge" -> 6
      [] step = "verifyAside" -> 7
      [] step = "aside" -> 8
      [] step = "reserveBackup" -> 9
      [] step = "publish" -> 10
      [] step = "place" -> 11
      [] step = "uploading" -> 12
      [] step = "upload" -> 13
      [] OTHER -> 14

\* A bound on the steps the engine has still to make: the cleanup takes one for
\* each of its attempts and one to end.
StepsLeft ==
    CASE pc = "finished" -> 0
      [] pc = "cleanup" -> IF recorded THEN 1 + tries ELSE 1
      [] OTHER -> 5 + Ahead(pc)

StepTaken == IF EngineStep THEN StepsLeft' < StepsLeft ELSE StepsLeft' = StepsLeft

\* The steps up to the cleanup go forward.
LEMMA GoesAhead ==
    ASSUME pc \in Step \ {"cleanup", "finished"}, pc' \in Step \ {"cleanup", "finished"}, Ahead(pc') < Ahead(pc)
    PROVE  StepsLeft' < StepsLeft
<1>1. Ahead(pc) \in Nat /\ Ahead(pc') \in Nat
    BY DEF Ahead
<1> HIDE DEF Ahead
<1> QED
    BY <1>1 DEF StepsLeft

\* The cleanup takes one of its attempts, or has nothing more to do.
LEMMA StepsOfCleanup ==
    ASSUME TypeInv, pc = "cleanup",
           \/ pc' = "finished"
           \/ pc' = "cleanup" /\ recorded /\ ~recorded'
           \/ pc' = "cleanup" /\ recorded /\ tries' = tries - 1
    PROVE  StepsLeft' < StepsLeft
<1>1. tries \in Nat /\ (recorded => tries > 0) /\ recorded \in BOOLEAN
    BY DEF TypeInv, TypeOK, TriesLeft
<1> QED
    BY <1>1 DEF StepsLeft

LEMMA EngineTakesStep ==
    ASSUME TypeInv, EngineStep
    PROVE  StepsLeft' < StepsLeft
<1> USE DEF Goto, Fail
<1>1. CASE ReserveSibling
  <2>1. pc = "reserve" /\ pc' \in {"record", "upload"}
    BY <1>1 DEF ReserveSibling
  <2> QED
    BY <2>1, GoesAhead DEF Ahead, Step
<1>2. CASE CreateFolder
  <2>1. pc = "reserve" /\ pc' \in {"record", "upload"}
    BY <1>2 DEF CreateFolder
  <2> QED
    BY <2>1, GoesAhead DEF Ahead, Step
<1>3. CASE StartUpload
  <2>1. pc = "upload" /\ pc' \in {"record", "uploading"}
    BY <1>3 DEF StartUpload
  <2> QED
    BY <2>1, GoesAhead DEF Ahead, Step
<1>4. CASE FinishUpload
  <2>1. pc = "uploading" /\ pc' \in {"place", "publish"}
    BY <1>4 DEF FinishUpload
  <2> QED
    BY <2>1, GoesAhead DEF Ahead, Step
<1>5. CASE AbortUpload
  <2>1. pc = "uploading" /\ pc' = "record"
    BY <1>5 DEF AbortUpload
  <2> QED
    BY <2>1, GoesAhead DEF Ahead, Step
<1>6. CASE PlaceDeviceCopy
  <2>1. pc = "place" /\ pc' \in {"publish", "record"}
    BY <1>6 DEF PlaceDeviceCopy
  <2> QED
    BY <2>1, GoesAhead DEF Ahead, Step
<1>7. CASE Publish
  <2>1. pc = "publish" /\ pc' \in {"record", "verify", "removeFolder", "reserveBackup"}
    BY <1>7 DEF Publish, InstallFree, ReplaceInOneStep, AfterInstall
  <2> QED
    BY <2>1, GoesAhead DEF Ahead, Step
<1>8. CASE ReserveBackup
  <2>1. pc = "reserveBackup" /\ pc' \in {"record", "aside"}
    BY <1>8 DEF ReserveBackup
  <2> QED
    BY <2>1, GoesAhead DEF Ahead, Step
<1>9. CASE MoveAside
  <2>1. pc = "aside" /\ pc' \in {"verifyAside", "judge"}
    BY <1>9 DEF MoveAside
  <2> QED
    BY <2>1, GoesAhead DEF Ahead, Step
<1>10. CASE VerifyAside
  <2>1. pc = "verifyAside" /\ pc' \in {"install", "judge"}
    BY <1>10 DEF VerifyAside
  <2> QED
    BY <2>1, GoesAhead DEF Ahead, Step
<1>11. CASE JudgeAside
  <2>1. pc = "judge" /\ pc' \in {"restore", "record"}
    BY <1>11 DEF JudgeAside
  <2> QED
    BY <2>1, GoesAhead DEF Ahead, Step
<1>12. CASE Install
  <2>1. pc = "install" /\ pc' \in {"verifyInstall", "restore"}
    BY <1>12 DEF Install
  <2> QED
    BY <2>1, GoesAhead DEF Ahead, Step
<1>13. CASE VerifyInstall
  <2>1. pc = "verifyInstall" /\ pc' \in {"dropBackup", "restore"}
    BY <1>13 DEF VerifyInstall
  <2> QED
    BY <2>1, GoesAhead DEF Ahead, Step
<1>14. CASE RestoreBackup
  <2>1. pc = "restore" /\ pc' = "record"
    BY <1>14 DEF RestoreBackup
  <2> QED
    BY <2>1, GoesAhead DEF Ahead, Step
<1>15. CASE DropBackup
  <2>1. pc = "dropBackup" /\ pc' \in {"record", "verify", "removeFolder"}
    BY <1>15 DEF DropBackup, AfterInstall
  <2> QED
    BY <2>1, GoesAhead DEF Ahead, Step
<1>16. CASE VerifyPublication
  <2>1. pc = "verify" /\ pc' \in {"record", "removeFolder"}
    BY <1>16 DEF VerifyPublication
  <2> QED
    BY <2>1, GoesAhead DEF Ahead, Step
<1>17. CASE RemoveEmptyFolder \/ Record
  <2>1. pc \in {"removeFolder", "record"} /\ pc' = "cleanup" /\ tries' = tries
    BY <1>17 DEF RemoveEmptyFolder, Record
  <2>2. tries \in 0 .. 3
    BY DEF TypeInv, TypeOK
  <2> QED
    BY <2>1, <2>2 DEF StepsLeft, Ahead
<1>18. CASE DiscardStage
    BY <1>18, StepsOfCleanup DEF DiscardStage
<1>19. CASE DiscardFails
    BY <1>19, StepsOfCleanup DEF DiscardFails
<1>20. CASE Finish
    BY <1>20, StepsOfCleanup DEF Finish
<1> QED
    BY <1>1, <1>2, <1>3, <1>4, <1>5, <1>6, <1>7, <1>8, <1>9, <1>10, <1>11, <1>12, <1>13, <1>14, <1>15,
       <1>16, <1>17, <1>18, <1>19, <1>20 DEF EngineStep

LEMMA StepsBounded == ASSUME TypeOK PROVE StepsLeft \in 0 .. 19
<1>1. Ahead(pc) \in 0 .. 14
    BY DEF Ahead
<1>2. tries \in 0 .. 3
    BY DEF TypeOK
<1> QED
    BY <1>1, <1>2 DEF StepsLeft

\* For every layout and backend, whatever fails and whatever others do: the
\* engine makes at most nineteen steps. No rollback, no judgement of a lost
\* answer and no attempt of the cleanup leads back to an earlier step
\* (replace_via_backup, discard_stage).
THEOREM StepsRunOut == Spec => [](StepsLeft \in 0 .. 19) /\ [][StepTaken]_vars
<1>1. Init => TypeInv
    BY TypeInit DEF TypeInv, Init, TriesLeft
<1>2. TypeInv /\ [Next]_vars => TypeInv'
    BY TypeStep, TriesStep DEF TypeInv
<1>3. TypeInv => StepsLeft \in 0 .. 19
    BY StepsBounded DEF TypeInv
<1>4. TypeInv /\ [Next]_vars => [StepTaken]_vars
  <2> SUFFICES ASSUME TypeInv, [Next]_vars PROVE StepTaken
    OBVIOUS
  <2>1. CASE EngineStep
    BY <2>1, EngineTakesStep DEF StepTaken
  <2>2. CASE ~EngineStep
    <3>1. UNCHANGED <<pc, recorded, tries>>
      BY <2>2 DEF Next, Cancel, Intrude, vars
    <3>2. StepsLeft' = StepsLeft
      BY <3>1 DEF StepsLeft, Ahead
    <3> QED
      BY <2>2, <3>2 DEF StepTaken
  <2> QED
    BY <2>1, <2>2
<1> QED
    BY <1>1, <1>2, <1>3, <1>4, PTL DEF Spec
=============================================================================
