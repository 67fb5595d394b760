---------------------------- MODULE UndoJournal ----------------------------
(***************************************************************************)
(* The journal Undo and Redo walk (ox-core ops/journal.rs), shared by the  *)
(* windows of the application, and the commands that walk it (ox-app       *)
(* window/file_ops/journal.rs and running.rs).                             *)
(*                                                                         *)
(* A walk takes the newest step of a stack, asks about changed copies when *)
(* it undoes, reverses the step on a worker and records the inverse on the *)
(* other stack; a reversal refused before it changed anything gives the    *)
(* step back. The journal is borrowed for one call at a time, so between   *)
(* the calls of one walk other operations may be recorded and other walks  *)
(* may take and give back steps.                                           *)
(*                                                                         *)
(* What an operation did is the set of its parts (items) that took effect. *)
(* A reversal reverses some of the parts its step names: items may fail,   *)
(* be skipped, or be left when the user cancels.                           *)
(***************************************************************************)
EXTENDS Naturals, Sequences

CONSTANTS Windows,      \* the windows that share the journal
          Operations,   \* the operations ever started
          Items,        \* the items of each operation
          Walks,        \* the Undo and Redo commands that may be under way
          Exclusive,    \* the operations begin_operation starts
          Jobs,         \* the ones begin_transfer starts; others hold_write
          Lists,        \* the directions in which a step of an operation
                        \* looks items up in the Recycle Bin
          NoWindow, NoStep,
          UndoLimit     \* UNDO_LIMIT (100)

ASSUME LimitAssumption == UndoLimit \in Nat \ {0}
ASSUME OperationsAssumption == Exclusive \subseteq Operations /\ Jobs \subseteq Operations
ASSUME ListsAssumption == Lists \in [Operations -> SUBSET {"undo", "redo"}]
ASSUME ItemsAssumption == \A o \in Operations : Items[o] # {}
ASSUME NoneAssumption == NoWindow \notin Windows

VARIABLES undo, redo,   \* UndoJournal: the stacks, newest last
          run,          \* each operation: new, running or ended
          place,        \* the window a running operation counts in
          applied,      \* the parts of each operation in effect on the disk
          walk,         \* the commands under way
          order,        \* history: which record each operation was, or 0
          records,      \* history: how many operations were recorded
          overlapped    \* history: the journal changed while a step was taken

journal == <<undo, redo>>
history == <<order, records, overlapped>>
vars == <<undo, redo, run, place, applied, walk, order, records, overlapped>>

Directions == {"undo", "redo"}
Opposite(direction) == IF direction = "undo" THEN "redo" ELSE "undo"

Parts == UNION {Items[o] : o \in Operations}

\* JournalEntry: the operation that names it, and the parts its record
\* reverses.
Step == [op : Operations, parts : SUBSET Parts]

\* A call of walk_journal and the step it took.
Walk == [state : {"idle", "asking", "reversing", "reversed"}, window : Windows \union {NoWindow},
         direction : Directions, step : Step \union {NoStep}, done : SUBSET Parts]

Idle == [state |-> "idle", window |-> NoWindow, direction |-> "undo", step |-> NoStep, done |-> {}]

Stack(direction) == IF direction = "undo" THEN undo ELSE redo
InHand(k) == walk[k].state # "idle"

\* Mutant: the journal never forgets a step.
PushUnbounded(stack, step) == Append(stack, step)

\* push_bounded: the oldest step goes when the stack is full.
PushBounded(stack, step) ==
    IF Len(stack) = UndoLimit THEN Append(Tail(stack), step) ELSE Append(stack, step)

\* The stacks once "step" is pushed on the one of "direction".
Push(direction, step) ==
    /\ undo' = IF direction = "undo" THEN PushBounded(undo, step) ELSE undo
    /\ redo' = IF direction = "redo" THEN PushBounded(redo, step) ELSE redo

\* Mutant: the step stays on its stack while it is reversed.
TopOnly(stack) == stack

\* What take leaves of a stack.
WithoutTop(stack) == SubSeq(stack, 1, Len(stack) - 1)

-----------------------------------------------------------------------------
\* Operations

\* is_busy: an operation that runs alone, or a reversal, runs in w.
Busy(w) ==
    \/ \E o \in Exclusive : run[o] = "running" /\ place[o] = w
    \/ \E k \in Walks : walk[k].state \in {"reversing", "reversed"} /\ walk[k].window = w

\* is_writing_files: it, or a transfer job.
Writing(w) == Busy(w) \/ \E o \in Jobs : run[o] = "running" /\ place[o] = w

\* begin_operation, begin_transfer (its limit and overlaps aside) and
\* hold_write: a short write starts whatever runs. An update or a drive
\* being formatted may refuse any of them (write_refusal), so none has to
\* begin.
MayBegin(o, w) ==
    /\ o \in Exclusive => ~Writing(w)
    /\ o \in Jobs => ~Busy(w)

Begin(o, w) ==
    /\ run[o] = "new" /\ MayBegin(o, w)
    /\ run' = [run EXCEPT ![o] = "running"]
    /\ place' = [place EXCEPT ![o] = IF o \in Exclusive \union Jobs THEN w ELSE NoWindow]
    /\ UNCHANGED <<journal, applied, walk, history>>

\* Mutant: Redo survives a new operation.
RedoAfterRecord == redo

\* record: a new operation empties the Redo stack.
EmptiedRedo == <<>>

\* The worker is done and some of the items took effect; its window
\* concludes it (conclude_operation): recorded when anything was done, in
\* the turn of the main loop in which it stops counting as running.
Conclude(o, done) ==
    /\ run[o] = "running"
    /\ run' = [run EXCEPT ![o] = "ended"]
    /\ place' = [place EXCEPT ![o] = NoWindow]
    /\ applied' = [applied EXCEPT ![o] = done]
    /\ IF done = {}
       THEN UNCHANGED <<journal, history>>
       ELSE /\ records' = records + 1
            /\ order' = [order EXCEPT ![o] = records + 1]
            /\ undo' = PushBounded(undo, [op |-> o, parts |-> done])
            /\ redo' = EmptiedRedo
            /\ overlapped' = (overlapped \/ \E k \in Walks : InHand(k))
    /\ UNCHANGED walk

-----------------------------------------------------------------------------
\* Undo and Redo

\* walk_journal up to its first await. The command waits while its window
\* writes files, but not for a step another walk took. Redo asks nothing
\* and begins at once; refused, its step is back in the same turn.
Take(k, w, direction) ==
    /\ ~InHand(k) /\ Stack(direction) # <<>> /\ ~Writing(w)
    /\ undo' = IF direction = "undo" THEN WithoutTop(undo) ELSE undo
    /\ redo' = IF direction = "redo" THEN WithoutTop(redo) ELSE redo
    /\ walk' = [walk EXCEPT ![k] =
                  [state |-> IF direction = "undo" THEN "asking" ELSE "reversing", window |-> w,
                   direction |-> direction, step |-> Stack(direction)[Len(Stack(direction))], done |-> {}]]
    /\ overlapped' = (overlapped \/ \E l \in Walks : InHand(l))
    /\ UNCHANGED <<run, place, applied, order, records>>

\* Mutant: a step refused when it was to begin is gone.
PutBackUnlessAsked(k) ==
    IF walk[k].state = "asking" THEN UNCHANGED journal ELSE Push(walk[k].direction, walk[k].step)

\* put_back_journal_step
PutBack(k) == Push(walk[k].direction, walk[k].step)

\* The user keeps the changed copies, or begin_operation refuses because
\* the window began to write, or no write may begin.
Refuse(k) ==
    /\ walk[k].state = "asking"
    /\ PutBack(k)
    /\ walk' = [walk EXCEPT ![k] = Idle]
    /\ UNCHANGED <<run, place, applied, history>>

\* No copy changed, or the user agreed, and begin_operation starts.
Proceed(k) ==
    /\ walk[k].state = "asking" /\ ~Writing(walk[k].window)
    /\ walk' = [walk EXCEPT ![k].state = "reversing"]
    /\ UNCHANGED <<journal, run, place, applied, history>>

\* The worker reverses some of the step's parts.
Reverse(k, done) ==
    /\ walk[k].state = "reversing" /\ done \subseteq walk[k].step.parts
    /\ applied' = [applied EXCEPT ![walk[k].step.op] =
                     IF walk[k].direction = "undo" THEN @ \ done ELSE @ \union done]
    /\ walk' = [walk EXCEPT ![k].state = "reversed", ![k].done = done]
    /\ UNCHANGED <<journal, run, place, history>>

\* Mutant: the inverse names every part of the step.
InverseOfAll(k) == walk[k].step.parts

\* UndoRecord::inverse: only the items the reversal finished count.
Reversed(k) == walk[k].done

\* record_reversal: the inverse goes onto the other stack, unless nothing
\* was reversed.
Finish(k) ==
    /\ walk[k].state = "reversed"
    /\ IF walk[k].done = {}
       THEN UNCHANGED journal
       ELSE Push(Opposite(walk[k].direction),
                 [op |-> walk[k].step.op, parts |-> Reversed(k)])
    /\ walk' = [walk EXCEPT ![k] = Idle]
    /\ UNCHANGED <<run, place, applied, history>>

\* reverse fails as a whole: the Recycle Bin could not be listed, or the
\* user cancelled meanwhile. Only the first look-up fails so, and it comes
\* before anything is changed (undo_replace).
FailWhole(k) ==
    /\ walk[k].state = "reversing"
    /\ walk[k].direction \in Lists[walk[k].step.op]
    /\ PutBack(k)
    /\ walk' = [walk EXCEPT ![k] = Idle]
    /\ UNCHANGED <<run, place, applied, history>>

-----------------------------------------------------------------------------
Init ==
    /\ undo = <<>> /\ redo = <<>>
    /\ run = [o \in Operations |-> "new"]
    /\ place = [o \in Operations |-> NoWindow]
    /\ applied = [o \in Operations |-> {}]
    /\ walk = [k \in Walks |-> Idle]
    /\ order = [o \in Operations |-> 0]
    /\ records = 0
    /\ overlapped = FALSE

Operate ==
    \E o \in Operations :
        \/ \E w \in Windows : Begin(o, w)
        \/ \E done \in SUBSET Items[o] : Conclude(o, done)

WalkJournal ==
    \E k \in Walks :
        \/ \E w \in Windows, direction \in Directions : Take(k, w, direction)
        \/ Refuse(k)
        \/ Proceed(k)
        \/ \E done \in SUBSET Parts : Reverse(k, done)
        \/ Finish(k)
        \/ FailWhole(k)

Next == Operate \/ WalkJournal

Spec == Init /\ [][Next]_vars

-----------------------------------------------------------------------------
\* Properties

\* The variables hold what the code's types allow; no stack exceeds
\* UNDO_LIMIT.
TypeOK ==
    /\ undo \in Seq(Step) /\ Len(undo) <= UndoLimit
    /\ redo \in Seq(Step) /\ Len(redo) <= UndoLimit
    /\ run \in [Operations -> {"new", "running", "ended"}]
    /\ place \in [Operations -> Windows \union {NoWindow}]
    /\ applied \in [Operations -> SUBSET Parts]
    /\ walk \in [Walks -> Walk]
    /\ \A k \in Walks : InHand(k) => walk[k].step \in Step
    /\ overlapped \in BOOLEAN
    /\ order \in [Operations -> Nat] /\ records \in Nat

\* A step is in one place: an operation is on one stack, once, or in the
\* hands of one walk, so no two windows reverse it (file_ops/journal.rs:
\* "two windows can never take the same one").
OneHolder ==
    /\ \A i, j \in DOMAIN undo : undo[i].op = undo[j].op => i = j
    /\ \A i, j \in DOMAIN redo : redo[i].op = redo[j].op => i = j
    /\ \A i \in DOMAIN undo, j \in DOMAIN redo : undo[i].op # redo[j].op
    /\ \A k \in Walks : InHand(k) =>
          /\ \A i \in DOMAIN undo : undo[i].op # walk[k].step.op
          /\ \A i \in DOMAIN redo : redo[i].op # walk[k].step.op
          /\ \A l \in Walks \ {k} : InHand(l) => walk[l].step.op # walk[k].step.op

\* What a walk has still to reverse, or has reversed.
TakenIsTrue(k) ==
    LET pending == IF walk[k].state = "reversed" THEN walk[k].step.parts \ walk[k].done
                                                 ELSE walk[k].step.parts
    IN IF walk[k].direction = "undo"
       THEN pending \subseteq applied[walk[k].step.op] /\ walk[k].done \intersect applied[walk[k].step.op] = {}
       ELSE pending \intersect applied[walk[k].step.op] = {} /\ walk[k].done \subseteq applied[walk[k].step.op]

\* A step of Undo names only parts that are in effect and a step of Redo
\* only parts that are not, whatever failed, was skipped or was given back
\* (UndoRecord::inverse: "a Redo never touches an item its Undo left
\* alone").
StepsAreTrue ==
    /\ \A i \in DOMAIN undo : undo[i].parts \subseteq applied[undo[i].op]
    /\ \A i \in DOMAIN redo : redo[i].parts \intersect applied[redo[i].op] = {}
    /\ \A k \in Walks : InHand(k) => TakenIsTrue(k)

\* As long as the journal did not change while a step was taken, Undo
\* reverses the newest operation in effect and Redo takes the oldest one
\* undone, however often both are used and whatever is given back.
InOrder ==
    ~overlapped =>
        /\ \A i, j \in DOMAIN undo : i < j => order[undo[i].op] < order[undo[j].op]
        /\ \A i, j \in DOMAIN redo : i < j => order[redo[i].op] > order[redo[j].op]
        /\ \A i \in DOMAIN undo, j \in DOMAIN redo : order[undo[i].op] < order[redo[j].op]

CanUndo(o, p) ==
    \/ \E i \in DOMAIN undo : undo[i].op = o /\ p \in undo[i].parts
    \/ \E k \in Walks :
          /\ InHand(k) /\ walk[k].step.op = o
          /\ IF walk[k].direction = "undo" THEN p \in walk[k].step.parts \ walk[k].done ELSE p \in walk[k].done

CanRedo(o, p) ==
    \/ \E i \in DOMAIN redo : redo[i].op = o /\ p \in redo[i].parts
    \/ \E k \in Walks :
          /\ InHand(k) /\ walk[k].step.op = o
          /\ IF walk[k].direction = "redo" THEN p \in walk[k].step.parts \ walk[k].done ELSE p \in walk[k].done

\* A reversal that ends leaves part p of o as it was.
LeavesAlone(o, p) ==
    \E k \in Walks : /\ walk[k].state = "reversed" /\ walk'[k].state = "idle"
                     /\ walk[k].step.op = o /\ p \in walk[k].step.parts \ walk[k].done

Drops(stack, o) == Len(stack) = UndoLimit /\ Head(stack).op = o

\* What can be undone stays so until it is undone and can be redone,
\* unless the journal is full and it is the oldest, or its own reversal
\* left it alone; what can be redone stays so until it is redone, unless
\* one of these happens or a new operation is recorded.
NothingForgotten ==
    [][\A o \in Operations, p \in Parts :
          /\ CanUndo(o, p) => \/ CanUndo(o, p)' \/ CanRedo(o, p)'
                              \/ Drops(undo, o) \/ LeavesAlone(o, p)
          /\ CanRedo(o, p) => \/ CanRedo(o, p)' \/ CanUndo(o, p)'
                              \/ Drops(redo, o) \/ LeavesAlone(o, p)
                              \/ records' # records]_vars
=============================================================================
