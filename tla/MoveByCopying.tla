---------------------------- MODULE MoveByCopying ----------------------------
(***************************************************************************)
(* A folder moved to a place its backend cannot move it to: the engine     *)
(* copies the tree into staging entry by entry (transfer/copy.rs), asks    *)
(* about every entry that fails (transfer/item_failure.rs), publishes the  *)
(* copy, and only then removes from the source what it copied              *)
(* (transfer/source_removal.rs), while another program goes on working in  *)
(* the source.  The attempts of the item, the questions about it and the   *)
(* report are run_item of transfer/engine.rs.                              *)
(*                                                                         *)
(* A path holds the version of its content; a folder has version 1.  How   *)
(* staging is published and cleaned up is the subject of StagedCopy.       *)
(***************************************************************************)
EXTENDS Integers, Sequences

CONSTANTS
    Top,          \* the folder the user moves
    Parent,       \* the folder each entry below Top is in
    Folders,      \* the folders, Top among them
    Fresh,        \* entries that do not exist when the move starts
    Unstorable,   \* entries whose name the destination cannot store
    Answers,      \* the answers the user gives
    MaxRepeats,   \* bound: times the user repeats Try Again or Continue
    MaxFaults,    \* bound: backend failures
    MaxEdits,     \* bound: changes another program makes in the source
    LateEdits,    \* a change may fall between an inspection and its removal
    FalseAbsence  \* exists() may be false because the backend cannot answer

Entries == DOMAIN Parent
Paths == Entries \cup {Top}
Answer == {"retry", "skip", "skipAll", "elevate", "cancel"}

ASSUME ConstantsAssumption ==
    /\ Top \notin Entries /\ Top \in Folders
    /\ Folders \subseteq Paths
    /\ \A p \in Entries : Parent[p] \in Folders
    /\ Fresh \subseteq Entries \ Folders
    /\ Unstorable \subseteq Entries \ Fresh
    /\ Answers \subseteq Answer /\ "skip" \in Answers
    /\ MaxRepeats \in Nat /\ MaxFaults \in Nat /\ MaxEdits \in Nat
    /\ LateEdits \in BOOLEAN /\ FalseAbsence \in BOOLEAN

VARIABLES
    src,        \* the version under each path of the source, 0 when nothing is there
    stage,      \* what was copied into staging
    landed,     \* every content published below the destination
    step,       \* the next step of the worker
    frames,     \* the folders being copied, the innermost first
    entry,      \* the entry being copied or asked about, or None
    seen,       \* the version its metadata described
    copied,     \* the records that authorise a removal
    queue,      \* the records still to remove
    error,      \* the error being handled
    failures,   \* ItemFailures: what is left out, Skip all, a Continue to carry out
    unstored,   \* an entry the destination cannot store was left out
    report,     \* what TransferResult says of the item
    cancelled,  \* the user cancelled the operation
    repeats,    \* times the user may still answer Try Again or Continue
    faults,     \* backend failures still to come
    edits       \* changes of the other program still to come

vars == <<src, stage, landed, step, frames, entry, seen, copied, queue, error, failures, unstored,
          report, cancelled, repeats, faults, edits>>
sourceVars == <<src, edits>>
copyVars == <<frames, entry, seen, copied>>
endVars == <<landed, queue, report>>
userVars == <<cancelled, repeats>>

None == "none"
Part == -1
Content == -1 .. MaxEdits + 1
Error == {"none", "denied", "unmounted", "exists", "cancelled", "recovery"}
Step == {"start", "walk", "reading", "failed", "publish", "inspect", "delete", "settle", "finished"}

Children(folder) == {p \in Entries : Parent[p] = folder /\ src[p] # 0}

\* A path and the folders it is in: what every set with the path that is
\* closed under Parent contains.
ClosedUp(set) == \A p \in set \cap Entries : Parent[p] \in set
Above == [p \in Paths |-> {c \in Paths : \A set \in SUBSET Paths : p \in set /\ ClosedUp(set) => c \in set}]

ASSUME TreeAssumption == \A p \in Entries : Top \in Above[p]

Frame(folder, version, mark) == [entry |-> folder, seen |-> version, todo |-> Children(folder), mark |-> mark]
\* The entry c of the innermost folder is through.
Through(walk, c) == [walk EXCEPT ![1] = [walk[1] EXCEPT !.todo = walk[1].todo \ {c}]]

Fault == faults > 0 /\ faults' = faults - 1
Empty == [p \in Paths |-> 0]

Init ==
    /\ src = [p \in Paths |-> IF p \in Fresh THEN 0 ELSE 1]
    /\ stage = Empty
    /\ landed = [p \in Paths |-> {}]
    /\ step = "start"
    /\ frames = <<>> /\ entry = None /\ seen = 0
    /\ copied = <<>> /\ queue = <<>>
    /\ error = "none"
    /\ failures = [leftOut |-> {}, skipAll |-> FALSE, elevation |-> FALSE]
    /\ unstored = FALSE
    /\ report = [done |-> FALSE, recovery |-> FALSE, leftOut |-> {}]
    /\ cancelled = FALSE
    /\ repeats = MaxRepeats /\ faults = MaxFaults /\ edits = MaxEdits

-----------------------------------------------------------------------------
(* One attempt: copying the tree                                           *)

\* Mutant: a new attempt forgets nothing of the last one.
StaleFailures == failures

\* ItemFailures::start_item: nothing is left out yet, Skip all goes on.
FreshFailures == [failures EXCEPT !.leftOut = {}, !.elevation = FALSE]

\* run_item and transfer: Top is created in staging and listed.
StartAttempt ==
    /\ step = "start"
    /\ failures' = FreshFailures
    /\ unstored' = FALSE
    /\ copied' = <<>>
    /\ \/ /\ cancelled /\ step' = "settle" /\ error' = "cancelled"
          /\ UNCHANGED <<stage, frames, faults>>
       \/ /\ ~cancelled /\ Fault /\ step' = "settle" /\ error' = "denied"
          /\ UNCHANGED <<stage, frames>>
       \/ /\ ~cancelled /\ step' = "walk" /\ error' = "none"
          /\ stage' = [Empty EXCEPT ![Top] = 1]
          /\ frames' = <<Frame(Top, 1, 0)>>
          /\ UNCHANGED faults
    /\ entry' = None /\ seen' = 0
    /\ UNCHANGED sourceVars /\ UNCHANGED endVars /\ UNCHANGED userVars

\* Mutants: the records of a discarded attempt stay; all records are dropped.
EntryFailsKeeping(c, reason, mark) ==
    step' = "failed" /\ entry' = c /\ error' = reason /\ UNCHANGED copied
EntryFailsDropping(c, reason, mark) ==
    step' = "failed" /\ entry' = c /\ error' = reason /\ copied' = <<>>

\* copy_entry ends with an error of the entry c: what was copied below it no
\* longer authorises a removal.
EntryFails(c, reason, mark) ==
    /\ step' = "failed" /\ entry' = c /\ error' = reason
    /\ copied' = SubSeq(copied, 1, mark)

\* copy_children with the next entry: metadata, the name the destination can
\* store, and the start of the copy.  A retried entry is the next one.
CopyEntry(c) ==
    /\ step = "walk" /\ frames # <<>> /\ c \in Head(frames).todo /\ entry \in {None, c}
    /\ ~cancelled
    /\ seen' = src[c]
    /\ \/ /\ src[c] = 0 /\ EntryFails(c, "denied", Len(copied))
          /\ UNCHANGED <<stage, frames, unstored, faults>>
       \/ /\ Fault /\ \E reason \in {"denied", "unmounted"} : EntryFails(c, reason, Len(copied))
          /\ UNCHANGED <<stage, frames, unstored>>
       \/ /\ src[c] # 0 /\ c \in Unstorable
          /\ unstored' = TRUE /\ frames' = Through(frames, c)
          /\ entry' = None
          /\ UNCHANGED <<stage, step, copied, error, faults>>
       \/ /\ src[c] # 0 /\ c \notin Unstorable /\ stage[c] # 0
          /\ EntryFails(c, "exists", Len(copied))
          /\ UNCHANGED <<stage, frames, unstored, faults>>
       \/ /\ src[c] # 0 /\ c \notin Unstorable /\ stage[c] = 0 /\ c \in Folders
          /\ stage' = [stage EXCEPT ![c] = 1]
          /\ frames' = <<Frame(c, src[c], Len(copied))>> \o frames
          /\ entry' = None
          /\ UNCHANGED <<step, copied, error, unstored, faults>>
       \/ /\ src[c] # 0 /\ c \notin Unstorable /\ stage[c] = 0 /\ c \notin Folders
          /\ stage' = [stage EXCEPT ![c] = Part]
          /\ step' = "reading" /\ entry' = c
          /\ UNCHANGED <<frames, copied, error, unstored, faults>>
    /\ UNCHANGED failures
    /\ UNCHANGED sourceVars /\ UNCHANGED endVars /\ UNCHANGED userVars

\* copy_file: the content is read after the metadata, perhaps a newer one.
ReadFile ==
    /\ step = "reading"
    /\ \/ /\ stage' = [stage EXCEPT ![entry] = IF src[entry] = 0 THEN seen ELSE src[entry]]
          /\ copied' = Append(copied, [entry |-> entry, seen |-> seen])
          /\ frames' = Through(frames, entry)
          /\ step' = "walk" /\ entry' = None
          /\ UNCHANGED <<error, faults>>
       \* The part stays in staging, or the backend removed it itself.
       \/ /\ Fault \/ (cancelled /\ UNCHANGED faults)
          /\ \E reason \in {"denied", "unmounted"} : EntryFails(entry, reason, Len(copied))
          /\ stage' \in {stage, [stage EXCEPT ![entry] = 0]}
          /\ UNCHANGED frames
    /\ UNCHANGED <<seen, failures, unstored>>
    /\ UNCHANGED sourceVars /\ UNCHANGED endVars /\ UNCHANGED userVars

\* A folder whose entries are through is recorded after them.
FinishFolder ==
    /\ step = "walk" /\ frames # <<>> /\ Head(frames).todo = {} /\ ~cancelled
    /\ IF Len(frames) = 1
       THEN step' = "publish" /\ UNCHANGED <<frames, copied>>
       ELSE /\ copied' = Append(copied, [entry |-> Head(frames).entry, seen |-> Head(frames).seen])
            /\ frames' = Through(Tail(frames), Head(frames).entry)
            /\ UNCHANGED step
    /\ UNCHANGED <<stage, entry, seen, error, failures, unstored, faults>>
    /\ UNCHANGED sourceVars /\ UNCHANGED endVars /\ UNCHANGED userVars

\* Mutant: a cancellation also stops the removal of the source.
StopAnywhere ==
    /\ step \in {"walk", "publish", "inspect"} /\ cancelled
    /\ step' = "settle" /\ error' = "cancelled" /\ frames' = <<>> /\ entry' = None
    /\ UNCHANGED <<stage, seen, copied, failures, unstored, faults>>
    /\ UNCHANGED sourceVars /\ UNCHANGED endVars /\ UNCHANGED userVars

\* Cancellation::check between two entries: every folder above fails with it.
StopWalk ==
    /\ step \in {"walk", "publish"} /\ cancelled
    /\ step' = "settle" /\ error' = "cancelled" /\ frames' = <<>> /\ entry' = None
    /\ UNCHANGED <<stage, seen, copied, failures, unstored, faults>>
    /\ UNCHANGED sourceVars /\ UNCHANGED endVars /\ UNCHANGED userVars

-----------------------------------------------------------------------------
(* An entry that failed                                                    *)

\* The error goes to the folder the entry is in, or to run_item.
Propagate(reason) ==
    IF Len(frames) = 1
    THEN /\ step' = "settle" /\ error' = reason /\ frames' = <<>> /\ entry' = None
         /\ UNCHANGED copied
    ELSE EntryFails(Head(frames).entry, reason, Head(frames).mark) /\ frames' = Tail(frames)

PerEntry == error = "denied" /\ ~cancelled
Ask(answer) ==
    /\ answer \in Answers
    /\ IF answer \in {"retry", "elevate"} THEN repeats > 0 /\ repeats' = repeats - 1 ELSE UNCHANGED repeats

\* entry_failed where nobody is asked, or the user stops the item.
EntryStopsItem ==
    /\ step = "failed"
    /\ \/ ~PerEntry /\ Propagate(error) /\ UNCHANGED <<failures, repeats>>
       \/ PerEntry /\ ~failures.skipAll /\ Ask("cancel") /\ Propagate("cancelled") /\ UNCHANGED failures
       \* Continue: the whole item is to run again as administrator.
       \/ /\ PerEntry /\ ~failures.skipAll /\ Ask("elevate")
          /\ failures' = [failures EXCEPT !.elevation = TRUE]
          /\ Propagate(error)
    /\ UNCHANGED <<stage, seen, unstored, cancelled, faults>>
    /\ UNCHANGED sourceVars /\ UNCHANGED endVars

Discarded(c) == [p \in Paths |-> IF c \in Above[p] THEN 0 ELSE stage[p]]

\* Mutant: what the failed entry left in staging stays there.
LeaveThen(retry) ==
    /\ step' = "walk" /\ error' = "none" /\ entry' = IF retry THEN entry ELSE None
    /\ frames' = IF retry THEN frames ELSE Through(frames, entry)
    /\ UNCHANGED <<copied, stage, faults>>

\* discard_partial, then the entry is copied again or the walk goes on.
DiscardThen(retry) ==
    LET goesOn == /\ step' = "walk" /\ error' = "none" /\ UNCHANGED copied
                  /\ entry' = IF retry THEN entry ELSE None
                  /\ frames' = IF retry THEN frames ELSE Through(frames, entry)
    IN \/ goesOn /\ stage' = Discarded(entry) /\ UNCHANGED faults
       \/ FalseAbsence /\ stage[entry] # 0 /\ Fault /\ goesOn /\ UNCHANGED stage
       \/ stage[entry] # 0 /\ Fault /\ Propagate("denied") /\ UNCHANGED stage

\* Mutant: a failed entry is tried again without asking.
RetryUnasked ==
    /\ step = "failed" /\ PerEntry /\ DiscardThen(TRUE)
    /\ UNCHANGED <<seen, failures, unstored, cancelled, repeats>>
    /\ UNCHANGED sourceVars /\ UNCHANGED endVars

RetryEntry ==
    /\ step = "failed" /\ PerEntry /\ ~failures.skipAll /\ Ask("retry")
    /\ DiscardThen(TRUE)
    /\ UNCHANGED <<seen, failures, unstored, cancelled>>
    /\ UNCHANGED sourceVars /\ UNCHANGED endVars

\* Mutant: an entry is left out and nobody is told.
SkipSilently ==
    /\ step = "failed" /\ PerEntry /\ DiscardThen(FALSE)
    /\ UNCHANGED <<seen, failures, unstored, cancelled, repeats>>
    /\ UNCHANGED sourceVars /\ UNCHANGED endVars

\* Without a question, or after Skip all, the entry is left out too.
SkipEntry ==
    /\ step = "failed" /\ PerEntry
    /\ \/ failures.skipAll /\ UNCHANGED repeats /\ failures' = [failures EXCEPT !.leftOut = @ \cup {entry}]
       \/ \E answer \in {"skip", "skipAll"} :
            /\ ~failures.skipAll /\ Ask(answer)
            /\ failures' = [failures EXCEPT !.leftOut = @ \cup {entry}, !.skipAll = (answer = "skipAll")]
    /\ DiscardThen(FALSE)
    /\ UNCHANGED <<seen, unstored, cancelled>>
    /\ UNCHANGED sourceVars /\ UNCHANGED endVars

-----------------------------------------------------------------------------
(* Publishing and removing the source                                      *)

\* The copy is published whole; an entry that could not be stored keeps the
\* source.
Publish ==
    /\ step = "publish" /\ ~cancelled
    /\ \/ /\ Fault /\ error' \in {"denied", "exists"} /\ step' = "settle"
          /\ UNCHANGED <<landed, queue>>
       \/ /\ landed' = [p \in Paths |-> landed[p] \cup ({stage[p]} \ {0})]
          /\ IF unstored THEN step' = "settle" /\ error' = "recovery" /\ UNCHANGED queue
                         ELSE /\ step' = "inspect" /\ UNCHANGED error
                              /\ queue' = Append(copied, [entry |-> Top, seen |-> 1])
          /\ UNCHANGED faults
    /\ frames' = <<>>
    /\ UNCHANGED <<stage, entry, seen, copied, failures, unstored, report>>
    /\ UNCHANGED sourceVars /\ UNCHANGED userVars

\* What is inspected was removed meanwhile, changed, or is a folder with
\* entries: it stays.
StaysBehind(item) ==
    \/ src[item.entry] = 0
    \/ src[item.entry] # item.seen
    \/ item.entry \in Folders /\ Children(item.entry) # {}

InspectSource ==
    /\ step = "inspect"
    /\ \/ /\ queue = <<>> /\ step' = "finished"
          /\ report' = [done |-> TRUE, recovery |-> FALSE, leftOut |-> failures.leftOut]
          /\ UNCHANGED <<queue, error, faults>>
       \/ /\ queue # <<>> /\ StaysBehind(Head(queue)) /\ queue' = Tail(queue)
          /\ UNCHANGED <<step, error, report, faults>>
       \/ /\ queue # <<>> /\ ~StaysBehind(Head(queue)) /\ step' = "delete"
          /\ UNCHANGED <<queue, error, report, faults>>
       \/ /\ queue # <<>> /\ Fault /\ step' = "settle" /\ error' = "recovery"
          /\ UNCHANGED <<queue, report>>
    /\ UNCHANGED <<stage, landed, frames, entry, seen, copied, failures, unstored>>
    /\ UNCHANGED sourceVars /\ UNCHANGED userVars

\* A single-item delete: a folder goes only when it is empty.
DeleteSource ==
    /\ step = "delete"
    /\ LET item == Head(queue).entry
           deletes == src[item] # 0 /\ (item \in Folders => Children(item) = {})
       IN \/ /\ deletes /\ src' = [src EXCEPT ![item] = 0]
             /\ queue' = Tail(queue) /\ step' = "inspect"
             /\ UNCHANGED <<error, faults>>
          \/ /\ IF deletes THEN Fault ELSE UNCHANGED faults
             /\ step' = "settle" /\ error' = "recovery"
             /\ UNCHANGED <<src, queue>>
    /\ UNCHANGED <<stage, landed, frames, entry, seen, copied, failures, unstored, report, edits>>
    /\ UNCHANGED userVars

-----------------------------------------------------------------------------
(* The item failed                                                         *)

Askable == error \in {"denied", "unmounted"}
Finish(recovery) ==
    /\ step' = "finished"
    /\ report' = [done |-> FALSE, recovery |-> recovery, leftOut |-> failures.leftOut]
    /\ UNCHANGED <<stage, error>>
RunAgain == step' = "start" /\ stage' = Empty /\ error' = "none" /\ UNCHANGED report

\* The loop of run_item.  A Continue answered inside the item is carried out
\* first; the staging of the failed attempt is discarded.
SettleItem ==
    /\ step = "settle"
    /\ \/ /\ cancelled \/ (~failures.elevation /\ (~Askable \/ failures.skipAll))
          /\ Finish(error = "recovery") /\ UNCHANGED <<repeats, failures>>
       \/ /\ ~cancelled /\ failures.elevation
          /\ failures' = [failures EXCEPT !.elevation = FALSE]
          /\ RunAgain /\ UNCHANGED repeats
       \/ /\ ~cancelled /\ ~failures.elevation /\ Askable /\ ~failures.skipAll
          /\ \E answer \in Answer :
               /\ Ask(answer)
               /\ failures' = [failures EXCEPT !.skipAll = (answer = "skipAll")]
               /\ IF answer \in {"retry", "elevate"} THEN RunAgain ELSE Finish(FALSE)
    /\ copied' = <<>> /\ queue' = <<>>
    /\ UNCHANGED <<landed, frames, entry, seen, unstored, cancelled, faults>>
    /\ UNCHANGED sourceVars

-----------------------------------------------------------------------------
(* The user and the other program                                          *)

Cancel ==
    /\ ~cancelled /\ step # "finished"
    /\ cancelled' = TRUE
    /\ UNCHANGED <<src, stage, landed, step, frames, entry, seen, copied, queue, error, failures,
                   unstored, report, repeats, faults, edits>>

\* The other program saves over a file, removes one, or creates one.
Edit(p) ==
    /\ edits > 0 /\ edits' = edits - 1
    /\ step # "finished" /\ (step = "delete" => LateEdits)
    /\ src[Parent[p]] # 0
    /\ src' \in {[src EXCEPT ![p] = MaxEdits - edits + 2]} \cup
               (IF src[p] # 0 THEN {[src EXCEPT ![p] = 0]} ELSE {})
    /\ UNCHANGED <<stage, landed, step, frames, entry, seen, copied, queue, error, failures, unstored,
                   report, cancelled, repeats, faults>>

EngineStep ==
    \/ StartAttempt \/ (\E c \in Entries : CopyEntry(c)) \/ ReadFile \/ FinishFolder \/ StopWalk
    \/ EntryStopsItem \/ RetryEntry \/ SkipEntry
    \/ Publish \/ InspectSource \/ DeleteSource \/ SettleItem

Next == EngineStep \/ Cancel \/ \E p \in Entries \ Folders : Edit(p)

Spec == Init /\ [][Next]_vars
FairSpec == Spec /\ WF_vars(EngineStep)

-----------------------------------------------------------------------------
(* Properties                                                              *)

Files == Entries \ Folders
Record == [entry : Paths, seen : Content]

TypeOK ==
    /\ src \in [Paths -> Content] /\ stage \in [Paths -> Content]
    /\ landed \in [Paths -> SUBSET Content]
    /\ step \in Step /\ error \in Error
    /\ \A i \in DOMAIN frames : frames[i].entry \in Folders /\ frames[i].mark \in 0 .. Len(copied)
    /\ entry \in Entries \cup {None} /\ seen \in Content
    /\ copied \in Seq(Record) /\ queue \in Seq(Record)
    /\ failures \in [leftOut : SUBSET Entries, skipAll : BOOLEAN, elevation : BOOLEAN]
    /\ unstored \in BOOLEAN /\ cancelled \in BOOLEAN
    /\ report \in [done : BOOLEAN, recovery : BOOLEAN, leftOut : SUBSET Entries]
    /\ repeats \in 0 .. MaxRepeats /\ faults \in 0 .. MaxFaults /\ edits \in 0 .. MaxEdits

EngineDeletes(p) == step = "delete" /\ edits' = edits /\ src[p] # 0 /\ src'[p] = 0

\* A file is removed from the source only if exactly its content was published:
\* no version another program wrote, and no entry that was discarded, retried or
\* left out, is lost (XFER-013, the truncation in copy_entry).
RemovedWasCopied == [][\A p \in Files : EngineDeletes(p) => src[p] \in landed[p]]_vars

\* What was left out, and everything in a folder left out, is never removed from
\* the source (entry_failed, the records remove_copied_source goes by).
LeftOut(p) == Above[p] \cap failures.leftOut # {}
LeftOutStays == [][\A p \in Paths : LeftOut(p) => ~EngineDeletes(p)]_vars

\* No part of a file is ever published (XFER-001, discard_partial).
NoPartLands == \A p \in Paths : Part \notin landed[p]

\* A move reported done, with nothing changed by others, brought over
\* everything it does not name as left out.
DoneIsComplete ==
    report.done /\ edits = MaxEdits =>
        \A p \in Files \ Fresh : landed[p] # {} \/ Above[p] \cap report.leftOut # {}

\* A move ends either moved or kept, however late the user cancels: done, each
\* copied file is gone or changed; otherwise, unless the user is told to check,
\* the source is as it was (move_by_copying).
MovedOrKept ==
    step = "finished" /\ ~report.recovery =>
        IF report.done
        THEN \A i \in DOMAIN copied : copied[i].entry \in Files => src[copied[i].entry] # copied[i].seen
        ELSE edits = MaxEdits => \A p \in Paths \ Fresh : src[p] = 1

\* Cancel stops the item: it does not run again.
CancelStops == [][step = "settle" /\ error = "cancelled" => step' # "start"]_vars

\* The move ends once the backend and the user answer.
MoveEnds == <>(step = "finished")
=============================================================================
