------------------------- MODULE UndoJournalProofs -------------------------
(***************************************************************************)
(* What UndoJournal guarantees for any number of windows, walks and        *)
(* operations, any items and any limit. The inductive invariant adds to    *)
(* the properties that an operation is in the journal, or in the hands of  *)
(* a walk, only once it ended: what is recorded next is therefore nowhere  *)
(* yet, and a reversal changes no items another step names.                *)
(***************************************************************************)
EXTENDS UndoJournal, SequenceTheorems, TLAPS

\* An operation that a step names has ended.
Ended ==
    /\ \A i \in DOMAIN undo : run[undo[i].op] = "ended"
    /\ \A i \in DOMAIN redo : run[redo[i].op] = "ended"
    /\ \A k \in Walks : InHand(k) => run[walk[k].step.op] = "ended"

Inv == TypeOK /\ Ended /\ OneHolder /\ StepsAreTrue

-----------------------------------------------------------------------------
\* The stacks

\* How many of the oldest steps push_bounded drops.
Dropped(stack) == IF Len(stack) = UndoLimit THEN 1 ELSE 0

\* push_bounded keeps the type and the limit of a stack; the new step is
\* on top, the others are the old ones in their order, the oldest aside.
LEMMA PushBoundedIs ==
    ASSUME NEW stack \in Seq(Step), Len(stack) <= UndoLimit, NEW step \in Step
    PROVE  LET new == PushBounded(stack, step)
           IN /\ new \in Seq(Step) /\ Len(new) <= UndoLimit
              /\ Len(new) = Len(stack) + 1 - Dropped(stack)
              /\ new[Len(new)] = step
              /\ \A i \in 1 .. Len(new) - 1 : /\ i + Dropped(stack) \in DOMAIN stack
                                              /\ new[i] = stack[i + Dropped(stack)]
<1> DEFINE new == PushBounded(stack, step)
<1>1. CASE Len(stack) = UndoLimit
  <2>1. stack # <<>>
    BY <1>1, LimitAssumption
  <2>2. Tail(stack) \in Seq(Step) /\ Len(Tail(stack)) = Len(stack) - 1
    BY <2>1
  <2>3. \A i \in 1 .. Len(stack) - 1 : Tail(stack)[i] = stack[i + 1]
    BY <2>1
  <2>4. new = Append(Tail(stack), step)
    BY <1>1 DEF PushBounded
  <2>5. new \in Seq(Step) /\ Len(new) = Len(stack) /\ new[Len(new)] = step
    BY <2>2, <2>4
  <2>6. \A i \in 1 .. Len(new) - 1 : new[i] = Tail(stack)[i]
    BY <2>2, <2>4, <2>5
  <2> QED
    BY <1>1, <2>3, <2>5, <2>6, LimitAssumption DEF Dropped
<1>2. CASE Len(stack) # UndoLimit
  <2>1. new = Append(stack, step)
    BY <1>2 DEF PushBounded
  <2>2. new \in Seq(Step) /\ Len(new) = Len(stack) + 1 /\ new[Len(new)] = step
    BY <2>1
  <2>3. \A i \in 1 .. Len(new) - 1 : new[i] = stack[i]
    BY <2>1, <2>2
  <2> QED
    BY <1>2, <2>2, <2>3, LimitAssumption DEF Dropped
<1> QED
  BY <1>1, <1>2

\* take leaves the other steps of a stack as they were.
LEMMA WithoutTopIs ==
    ASSUME NEW stack \in Seq(Step), Len(stack) <= UndoLimit, stack # <<>>
    PROVE  /\ WithoutTop(stack) \in Seq(Step)
           /\ Len(WithoutTop(stack)) = Len(stack) - 1
           /\ \A i \in 1 .. Len(stack) - 1 : WithoutTop(stack)[i] = stack[i]
           /\ stack[Len(stack)] \in Step
<1>1. Len(stack) \in Nat \ {0}
  OBVIOUS
<1>2. WithoutTop(stack) = SubSeq(stack, 1, Len(stack) - 1)
  BY DEF WithoutTop
<1>4. \A i \in 1 .. Len(stack) - 1 : stack[i] \in Step
  BY <1>1
<1>3. WithoutTop(stack) \in Seq(Step) /\ Len(WithoutTop(stack)) = Len(stack) - 1
  <2>1. SubSeq(stack, 1, Len(stack) - 1) \in Seq(Step)
        /\ Len(SubSeq(stack, 1, Len(stack) - 1)) = IF 1 <= Len(stack) - 1 THEN Len(stack) - 1 - 1 + 1 ELSE 0
    BY <1>1, <1>4, SubSeqProperties
  <2>2. (IF 1 <= Len(stack) - 1 THEN Len(stack) - 1 - 1 + 1 ELSE 0) = Len(stack) - 1
    <3>1. \A n \in Nat \ {0} : (IF 1 <= n - 1 THEN n - 1 - 1 + 1 ELSE 0) = n - 1
      OBVIOUS
    <3> QED
      BY <1>1, <3>1, Zenon
  <2> QED
    BY <1>2, <2>1, <2>2, Zenon
<1>5. \A i \in 1 .. Len(stack) - 1 : WithoutTop(stack)[i] = stack[i]
  BY <1>1, <1>2
<1> QED
  BY <1>1, <1>3, <1>5

-----------------------------------------------------------------------------
\* Type correctness

\* The empty stack.
LEMMA EmptyIs == <<>> \in Seq(Step) /\ Len(<<>>) = 0 /\ DOMAIN <<>> = {}
  OBVIOUS

LEMMA IdleType == Idle \in Walk
  BY DEF Idle, Walk, Directions

LEMMA InitTypeOK == Init => TypeOK
<1> SUFFICES ASSUME Init
             PROVE  TypeOK
  OBVIOUS
<1>1. undo \in Seq(Step) /\ Len(undo) <= UndoLimit /\ redo \in Seq(Step) /\ Len(redo) <= UndoLimit
  BY EmptyIs, LimitAssumption DEF Init
<1>2. walk \in [Walks -> Walk] /\ \A k \in Walks : ~InHand(k)
  BY IdleType DEF Init, InHand, Idle
<1>3. run \in [Operations -> {"new", "running", "ended"}] /\ place \in [Operations -> Windows \union {NoWindow}]
      /\ applied \in [Operations -> SUBSET Parts]
  BY DEF Init
<1>4. overlapped \in BOOLEAN /\ order \in [Operations -> Nat] /\ records \in Nat
  BY DEF Init
<1> QED
  BY <1>1, <1>2, <1>3, <1>4 DEF TypeOK

\* A push keeps both stacks well typed.
LEMMA PushType ==
    ASSUME TypeOK, NEW direction \in Directions, NEW step \in Step, Push(direction, step)
    PROVE  undo' \in Seq(Step) /\ Len(undo') <= UndoLimit /\ redo' \in Seq(Step) /\ Len(redo') <= UndoLimit
  BY PushBoundedIs DEF TypeOK, Push, Directions

\* A walk that ends, or moves on with what it holds.
LEMMA WalkType ==
    ASSUME TypeOK, NEW k \in Walks, NEW next \in Walk,
           next.state # "idle" => next.step \in Step,
           walk' = [walk EXCEPT ![k] = next]
    PROVE  walk' \in [Walks -> Walk] /\ \A l \in Walks : InHand(l)' => walk'[l].step \in Step
  BY DEF TypeOK, InHand

\* What a walk holds, typed.
LEMMA HeldType ==
    ASSUME TypeOK, NEW k \in Walks, InHand(k)
    PROVE  /\ walk[k] \in Walk /\ walk[k].step \in Step
           /\ walk[k].direction \in Directions /\ Opposite(walk[k].direction) \in Directions
           /\ walk[k].done \in SUBSET Parts /\ walk[k].window \in Windows \union {NoWindow}
           /\ walk[k].step.op \in Operations /\ walk[k].step.parts \in SUBSET Parts
<1>1. walk[k] \in Walk /\ walk[k].step \in Step
  BY DEF TypeOK
<1>2. walk[k].direction \in Directions /\ walk[k].done \in SUBSET Parts
      /\ walk[k].window \in Windows \union {NoWindow}
  BY <1>1 DEF Walk
<1>3. walk[k].step.op \in Operations /\ walk[k].step.parts \in SUBSET Parts
  BY <1>1 DEF Step
<1> QED
  BY <1>1, <1>2, <1>3 DEF Opposite, Directions

LEMMA TypeStep == TypeOK /\ [Next]_vars => TypeOK'
<1> SUFFICES ASSUME TypeOK, [Next]_vars
             PROVE  TypeOK'
  OBVIOUS
<1>1. ASSUME NEW o \in Operations, NEW w \in Windows, Begin(o, w)
      PROVE  TypeOK'
  <2>1. run' \in [Operations -> {"new", "running", "ended"}] /\ place' \in [Operations -> Windows \union {NoWindow}]
    BY <1>1 DEF Begin, TypeOK
  <2>2. UNCHANGED <<undo, redo, applied, walk, order, records, overlapped>>
    BY <1>1 DEF Begin, journal, history
  <2> QED
    BY <2>1, <2>2 DEF TypeOK, InHand
<1>2. ASSUME NEW o \in Operations, NEW done \in SUBSET Items[o], Conclude(o, done)
      PROVE  TypeOK'
  <2>1. done \in SUBSET Parts
    BY DEF Parts
  <2>2. run' \in [Operations -> {"new", "running", "ended"}] /\ place' \in [Operations -> Windows \union {NoWindow}]
        /\ applied' \in [Operations -> SUBSET Parts] /\ walk' = walk
    BY <1>2, <2>1 DEF Conclude, TypeOK
  <2>3. CASE done = {}
    BY <1>2, <2>2, <2>3 DEF Conclude, TypeOK, InHand, journal, history
  <2>4. CASE done # {}
    <3>1. [op |-> o, parts |-> done] \in Step
      BY <2>1 DEF TypeOK, Step
    <3>2. undo' \in Seq(Step) /\ Len(undo') <= UndoLimit
      BY <1>2, <2>4, <3>1, PushBoundedIs DEF Conclude, TypeOK
    <3>3. redo' \in Seq(Step) /\ Len(redo') <= UndoLimit
      <4>1. redo' = <<>>
        BY <1>2, <2>4 DEF Conclude, EmptiedRedo
      <4> QED
        BY <4>1, EmptyIs, LimitAssumption
    <3>4. records' \in Nat /\ order' \in [Operations -> Nat]
      <4>1. records' = records + 1 /\ order' = [order EXCEPT ![o] = records + 1]
        BY <1>2, <2>4 DEF Conclude
      <4>2. records \in Nat /\ order \in [Operations -> Nat]
        BY DEF TypeOK
      <4> QED
        BY <4>1, <4>2
    <3>5. overlapped' \in BOOLEAN
      BY <1>2, <2>4, Zenon DEF Conclude
    <3> QED
      BY <2>2, <3>2, <3>3, <3>4, <3>5 DEF TypeOK, InHand
  <2> QED
    BY <2>3, <2>4
<1>3. ASSUME NEW k \in Walks, NEW w \in Windows, NEW direction \in Directions, Take(k, w, direction)
      PROVE  TypeOK'
  <2> DEFINE stack == Stack(direction)
  <2>1. stack \in Seq(Step) /\ Len(stack) <= UndoLimit /\ stack # <<>>
    BY <1>3 DEF Take, Stack, TypeOK
  <2>2. WithoutTop(stack) \in Seq(Step) /\ Len(WithoutTop(stack)) <= UndoLimit /\ stack[Len(stack)] \in Step
    BY <2>1, WithoutTopIs, LimitAssumption
  <2>3. undo' \in Seq(Step) /\ Len(undo') <= UndoLimit /\ redo' \in Seq(Step) /\ Len(redo') <= UndoLimit
    BY <1>3, <2>2 DEF Take, Stack, TypeOK, Directions
  <2> DEFINE next == [state |-> IF direction = "undo" THEN "asking" ELSE "reversing", window |-> w,
                      direction |-> direction, step |-> stack[Len(stack)], done |-> {}]
  <2>4. next \in Walk /\ next.step \in Step
    BY <2>2 DEF Walk
  <2>5. walk' = [walk EXCEPT ![k] = next]
    BY <1>3 DEF Take
  <2>6. walk' \in [Walks -> Walk] /\ \A l \in Walks : InHand(l)' => walk'[l].step \in Step
    BY <2>4, <2>5, WalkType
  <2>7. overlapped' \in BOOLEAN /\ UNCHANGED <<run, place, applied, order, records>>
    BY <1>3, Zenon DEF Take
  <2> QED
    BY <2>3, <2>6, <2>7 DEF TypeOK
<1>4. ASSUME NEW k \in Walks, Refuse(k) \/ FailWhole(k)
      PROVE  TypeOK'
  <2>1. InHand(k)
    BY <1>4 DEF Refuse, FailWhole, InHand
  <2>2. Push(walk[k].direction, walk[k].step) /\ walk' = [walk EXCEPT ![k] = Idle]
        /\ UNCHANGED <<run, place, applied, order, records, overlapped>>
    BY <1>4 DEF Refuse, FailWhole, PutBack, history
  <2>3. undo' \in Seq(Step) /\ Len(undo') <= UndoLimit /\ redo' \in Seq(Step) /\ Len(redo') <= UndoLimit
    BY <2>1, <2>2, HeldType, PushType
  <2>4. walk' \in [Walks -> Walk] /\ \A l \in Walks : InHand(l)' => walk'[l].step \in Step
    BY <2>2, IdleType, WalkType DEF Idle
  <2> QED
    BY <2>2, <2>3, <2>4 DEF TypeOK
<1>5. ASSUME NEW k \in Walks, Proceed(k)
      PROVE  TypeOK'
  <2>1. InHand(k)
    BY <1>5 DEF Proceed, InHand
  <2> DEFINE next == [walk[k] EXCEPT !.state = "reversing"]
  <2>2. next \in Walk /\ next.step \in Step
    BY <2>1, HeldType DEF Walk
  <2>3. walk' = [walk EXCEPT ![k] = next]
    BY <1>5 DEF Proceed, TypeOK
  <2>4. walk' \in [Walks -> Walk] /\ \A l \in Walks : InHand(l)' => walk'[l].step \in Step
    BY <2>2, <2>3, WalkType
  <2> QED
    BY <1>5, <2>4 DEF Proceed, TypeOK, journal, history
<1>6. ASSUME NEW k \in Walks, NEW done \in SUBSET Parts, Reverse(k, done)
      PROVE  TypeOK'
  <2>1. InHand(k)
    BY <1>6 DEF Reverse, InHand
  <2> DEFINE next == [walk[k] EXCEPT !.state = "reversed", !.done = done]
  <2>2. next \in Walk /\ next.step \in Step
    BY <2>1, HeldType DEF Walk
  <2>3. walk' = [walk EXCEPT ![k] = next]
    BY <1>6 DEF Reverse, TypeOK
  <2>4. walk' \in [Walks -> Walk] /\ \A l \in Walks : InHand(l)' => walk'[l].step \in Step
    BY <2>2, <2>3, WalkType
  <2>5. applied' \in [Operations -> SUBSET Parts]
    BY <1>6, <2>1, HeldType DEF Reverse, TypeOK
  <2> QED
    BY <1>6, <2>4, <2>5 DEF Reverse, TypeOK, journal, history
<1>7. ASSUME NEW k \in Walks, Finish(k)
      PROVE  TypeOK'
  <2>1. InHand(k)
    BY <1>7 DEF Finish, InHand
  <2>2. walk' = [walk EXCEPT ![k] = Idle] /\ UNCHANGED <<run, place, applied, order, records, overlapped>>
    BY <1>7 DEF Finish, history
  <2>3. walk' \in [Walks -> Walk] /\ \A l \in Walks : InHand(l)' => walk'[l].step \in Step
    BY <2>2, IdleType, WalkType DEF Idle
  <2>4. [op |-> walk[k].step.op, parts |-> Reversed(k)] \in Step
    BY <2>1, HeldType DEF Step, Reversed, TypeOK
  <2>5. undo' \in Seq(Step) /\ Len(undo') <= UndoLimit /\ redo' \in Seq(Step) /\ Len(redo') <= UndoLimit
    <3>1. CASE walk[k].done = {}
      BY <1>7, <3>1 DEF Finish, TypeOK, journal
    <3>2. CASE walk[k].done # {}
      BY <1>7, <2>1, <2>4, <3>2, HeldType, PushType DEF Finish
    <3> QED
      BY <3>1, <3>2
  <2> QED
    BY <2>2, <2>3, <2>5 DEF TypeOK
<1>8. CASE UNCHANGED vars
  BY <1>8 DEF vars, TypeOK, InHand
<1> QED
  BY <1>1, <1>2, <1>3, <1>4, <1>5, <1>6, <1>7, <1>8 DEF Next, Operate, WalkJournal

\* The variables hold what the code's types allow, and no stack exceeds
\* UNDO_LIMIT (journal.rs, push_bounded).
THEOREM TypeCorrect == Spec => []TypeOK
  BY InitTypeOK, TypeStep, PTL DEF Spec

-----------------------------------------------------------------------------
\* The invariant

\* push_bounded on a stack without the step's operation.
LEMMA PushBoundedOps ==
    ASSUME NEW stack \in Seq(Step), Len(stack) <= UndoLimit, NEW step \in Step,
           \A i, j \in DOMAIN stack : stack[i].op = stack[j].op => i = j,
           \A i \in DOMAIN stack : stack[i].op # step.op
    PROVE  LET new == PushBounded(stack, step)
           IN /\ \A i, j \in DOMAIN new : new[i].op = new[j].op => i = j
              /\ \A i \in DOMAIN new : new[i] = step \/ \E j \in DOMAIN stack : new[i] = stack[j]
<1> DEFINE new == PushBounded(stack, step)
<1>1. /\ new \in Seq(Step)
      /\ Len(new) = Len(stack) + 1 - Dropped(stack)
      /\ new[Len(new)] = step
      /\ \A i \in 1 .. Len(new) - 1 : i + Dropped(stack) \in DOMAIN stack /\ new[i] = stack[i + Dropped(stack)]
  BY PushBoundedIs
<1>2. Dropped(stack) \in {0, 1}
  BY DEF Dropped
<1> HIDE DEF new
<1>3. DOMAIN new = 1 .. Len(new) /\ Len(new) \in Nat
  BY <1>1
<1>4. ASSUME NEW i \in DOMAIN new
      PROVE  \/ i = Len(new) /\ new[i] = step
             \/ i # Len(new) /\ i + Dropped(stack) \in DOMAIN stack /\ new[i] = stack[i + Dropped(stack)]
  BY <1>1, <1>3
<1>5. ASSUME NEW i \in DOMAIN new, NEW j \in DOMAIN new, new[i].op = new[j].op
      PROVE  i = j
  <2>1. CASE i = Len(new)
    BY <1>4, <1>5, <2>1
  <2>2. CASE j = Len(new)
    BY <1>4, <1>5, <2>2
  <2>3. CASE i # Len(new) /\ j # Len(new)
    <3>1. i + Dropped(stack) = j + Dropped(stack)
      BY <1>4, <1>5, <2>3
    <3> QED
      BY <1>2, <1>3, <3>1
  <2> QED
    BY <2>1, <2>2, <2>3
<1>6. \A i \in DOMAIN new : new[i] = step \/ \E j \in DOMAIN stack : new[i] = stack[j]
  BY <1>4
<1> QED
  BY <1>5, <1>6 DEF new

\* "step" is true on the stack of "direction".
IsTrue(direction, step) ==
    IF direction = "undo" THEN step.parts \subseteq applied[step.op]
                          ELSE step.parts \intersect applied[step.op] = {}

\* Every step names an operation.
LEMMA StepOps ==
    ASSUME TypeOK
    PROVE  /\ \A i \in DOMAIN undo : undo[i] \in Step /\ undo[i].op \in Operations
           /\ \A i \in DOMAIN redo : redo[i] \in Step /\ redo[i].op \in Operations
           /\ \A k \in Walks : InHand(k) => walk[k].step \in Step /\ walk[k].step.op \in Operations
<1>1. \A step \in Step : step.op \in Operations
  BY DEF Step
<1>2. /\ \A i \in DOMAIN undo : undo[i] \in Step
      /\ \A i \in DOMAIN redo : redo[i] \in Step
  BY DEF TypeOK
<1>3. \A k \in Walks : InHand(k) => walk[k].step \in Step
  BY DEF TypeOK
<1> QED
  BY <1>1, <1>2, <1>3

LEMMA InitInv == Init => Inv
<1> SUFFICES ASSUME Init
             PROVE  Inv
  OBVIOUS
<1>1. DOMAIN undo = {} /\ DOMAIN redo = {} /\ \A k \in Walks : ~InHand(k)
  BY EmptyIs DEF Init, InHand, Idle
<1> QED
  BY <1>1, InitTypeOK DEF Inv, Ended, OneHolder, StepsAreTrue

\* Walk k gives its operation back to a stack, in a step that is true there.
LEMMA GivesBack ==
    ASSUME Inv, TypeOK', NEW k \in Walks, InHand(k), NEW direction \in Directions, NEW step \in Step,
           step.op = walk[k].step.op, IsTrue(direction, step), Push(direction, step),
           walk' = [walk EXCEPT ![k] = Idle], UNCHANGED <<run, applied>>
    PROVE  Inv'
<1> USE DEF Inv
<1>1. \A l \in Walks : InHand(l)' => l # k /\ InHand(l) /\ walk'[l] = walk[l]
  BY DEF TypeOK, InHand, Idle
<1>2. run[step.op] = "ended"
  BY DEF Ended
<1>3. /\ \A i \in DOMAIN undo : undo[i].op # step.op
      /\ \A i \in DOMAIN redo : redo[i].op # step.op
      /\ \A l \in Walks \ {k} : InHand(l) => walk[l].step.op # step.op
  BY DEF OneHolder
<1>4. \A l \in Walks : InHand(l)' => TakenIsTrue(l)'
  BY <1>1 DEF StepsAreTrue, TakenIsTrue
<1>5. CASE direction = "undo"
  <2>1. undo' = PushBounded(undo, step) /\ redo' = redo
    BY <1>5 DEF Push
  <2>2. /\ \A i, j \in DOMAIN undo' : undo'[i].op = undo'[j].op => i = j
        /\ \A i \in DOMAIN undo' : undo'[i] = step \/ \E j \in DOMAIN undo : undo'[i] = undo[j]
    <3>1. undo \in Seq(Step) /\ Len(undo) <= UndoLimit /\ \A i, j \in DOMAIN undo : undo[i].op = undo[j].op => i = j
      BY DEF TypeOK, OneHolder
    <3>2. \A i \in DOMAIN undo : undo[i].op # step.op
      BY <1>3
    <3> QED
      BY <2>1, <3>1, <3>2, PushBoundedOps
  <2>3. Ended'
    BY <1>1, <1>2, <2>1, <2>2 DEF Ended
  <2>4. OneHolder'
    BY <1>1, <1>3, <2>1, <2>2 DEF OneHolder
  <2>5. StepsAreTrue'
    BY <1>4, <1>5, <2>1, <2>2 DEF StepsAreTrue, IsTrue
  <2> QED
    BY <2>3, <2>4, <2>5
<1>6. CASE direction = "redo"
  <2>1. redo' = PushBounded(redo, step) /\ undo' = undo
    BY <1>6 DEF Push
  <2>2. /\ \A i, j \in DOMAIN redo' : redo'[i].op = redo'[j].op => i = j
        /\ \A i \in DOMAIN redo' : redo'[i] = step \/ \E j \in DOMAIN redo : redo'[i] = redo[j]
    <3>1. redo \in Seq(Step) /\ Len(redo) <= UndoLimit /\ \A i, j \in DOMAIN redo : redo[i].op = redo[j].op => i = j
      BY DEF TypeOK, OneHolder
    <3>2. \A i \in DOMAIN redo : redo[i].op # step.op
      BY <1>3
    <3> QED
      BY <2>1, <3>1, <3>2, PushBoundedOps
  <2>3. Ended'
    BY <1>1, <1>2, <2>1, <2>2 DEF Ended
  <2>4. OneHolder'
    BY <1>1, <1>3, <2>1, <2>2 DEF OneHolder
  <2>5. StepsAreTrue'
    BY <1>4, <1>6, <2>1, <2>2 DEF StepsAreTrue, IsTrue
  <2> QED
    BY <2>3, <2>4, <2>5
<1> QED
  BY <1>5, <1>6 DEF Directions

\* A recorded operation was nowhere before, and Redo is empty after.
LEMMA ConcludeInv ==
    ASSUME Inv, TypeOK', NEW o \in Operations, NEW done \in SUBSET Items[o], Conclude(o, done)
    PROVE  Inv'
<1> USE DEF Inv
<1>1. run[o] = "running" /\ run' = [run EXCEPT ![o] = "ended"] /\ applied' = [applied EXCEPT ![o] = done]
      /\ walk' = walk
  BY DEF Conclude
<1>2. /\ \A i \in DOMAIN undo : undo[i].op # o
      /\ \A i \in DOMAIN redo : redo[i].op # o
      /\ \A k \in Walks : InHand(k) => walk[k].step.op # o
  BY <1>1 DEF Ended
<1>3. \A other \in Operations \ {o} : run'[other] = run[other] /\ applied'[other] = applied[other]
  BY <1>1 DEF TypeOK
<1>4. run'[o] = "ended" /\ applied'[o] = done
  BY <1>1 DEF TypeOK
<1>5. /\ \A i \in DOMAIN undo : undo[i].op \in Operations
      /\ \A i \in DOMAIN redo : redo[i].op \in Operations
      /\ \A k \in Walks : InHand(k) => walk[k].step.op \in Operations
  BY StepOps
<1>6. \A k \in Walks : InHand(k)' => InHand(k) /\ run'[walk[k].step.op] = "ended" /\ TakenIsTrue(k)'
  BY <1>1, <1>2, <1>3, <1>5 DEF InHand, Ended, StepsAreTrue, TakenIsTrue
<1>7. CASE done = {}
  <2>1. undo' = undo /\ redo' = redo
    BY <1>7 DEF Conclude, journal
  <2> QED
    BY <1>1, <1>2, <1>3, <1>5, <1>6, <2>1 DEF Ended, OneHolder, StepsAreTrue, InHand
<1>8. CASE done # {}
  <2> DEFINE step == [op |-> o, parts |-> done]
  <2>1. step \in Step
    BY DEF TypeOK, Step, Parts
  <2>2. undo' = PushBounded(undo, step) /\ redo' = <<>>
    BY <1>8 DEF Conclude, EmptiedRedo
  <2>3. /\ \A i, j \in DOMAIN undo' : undo'[i].op = undo'[j].op => i = j
        /\ \A i \in DOMAIN undo' : undo'[i] = step \/ \E j \in DOMAIN undo : undo'[i] = undo[j]
    <3>1. undo \in Seq(Step) /\ Len(undo) <= UndoLimit /\ \A i, j \in DOMAIN undo : undo[i].op = undo[j].op => i = j
      BY DEF TypeOK, OneHolder
    <3>2. \A i \in DOMAIN undo : undo[i].op # step.op
      BY <1>2
    <3> HIDE DEF step
    <3> QED
      BY <2>1, <2>2, <3>1, <3>2, PushBoundedOps
  <2>4. DOMAIN redo' = {}
    BY <2>2, EmptyIs
  <2>5. Ended'
    BY <1>1, <1>2, <1>3, <1>4, <1>5, <1>6, <2>3, <2>4 DEF Ended
  <2>6. OneHolder'
    BY <1>1, <1>2, <2>3, <2>4 DEF OneHolder, InHand
  <2>7. StepsAreTrue'
    BY <1>2, <1>3, <1>4, <1>5, <1>6, <2>3, <2>4 DEF StepsAreTrue
  <2> QED
    BY <2>5, <2>6, <2>7
<1> QED
  BY <1>7, <1>8

\* The taken step leaves its stack for the hands of the walk.
LEMMA TakeInv ==
    ASSUME Inv, TypeOK', NEW k \in Walks, NEW w \in Windows, NEW direction \in Directions, Take(k, w, direction)
    PROVE  Inv'
<1> USE DEF Inv
<1> DEFINE stack == Stack(direction)
           top == stack[Len(stack)]
<1>1. stack \in Seq(Step) /\ Len(stack) <= UndoLimit /\ stack # <<>> /\ ~InHand(k)
  BY DEF Take, Stack, TypeOK
<1>2. Len(stack) \in DOMAIN stack
  BY <1>1
<1>3. /\ WithoutTop(stack) \in Seq(Step) /\ Len(WithoutTop(stack)) = Len(stack) - 1
      /\ \A i \in 1 .. Len(stack) - 1 : WithoutTop(stack)[i] = stack[i]
  BY <1>1, WithoutTopIs
<1>4. \A i \in DOMAIN WithoutTop(stack) : i \in DOMAIN stack /\ i # Len(stack) /\ WithoutTop(stack)[i] = stack[i]
  BY <1>1, <1>3
<1>5. walk'[k].step = top /\ walk'[k].direction = direction /\ walk'[k].done = {}
      /\ walk'[k].state \in {"asking", "reversing"} /\ \A l \in Walks \ {k} : walk'[l] = walk[l]
  BY DEF Take, TypeOK
<1>6. UNCHANGED <<run, applied>>
  BY DEF Take
<1>7. \A l \in Walks \ {k} : InHand(l)' => InHand(l) /\ TakenIsTrue(l)'
  BY <1>5, <1>6 DEF InHand, StepsAreTrue, TakenIsTrue
<1>8. CASE direction = "undo"
  <2>1. undo' = WithoutTop(stack) /\ redo' = redo /\ stack = undo
    BY <1>8 DEF Take, Stack
  <2>2. Ended'
    BY <1>2, <1>4, <1>5, <1>6, <1>7, <2>1 DEF Ended
  <2>3. OneHolder'
    BY <1>1, <1>2, <1>4, <1>5, <1>7, <2>1 DEF OneHolder, InHand
  <2>4. TakenIsTrue(k)'
    BY <1>2, <1>5, <1>6, <1>8, <2>1 DEF StepsAreTrue, TakenIsTrue
  <2>5. StepsAreTrue'
    BY <1>4, <1>6, <1>7, <2>1, <2>4 DEF StepsAreTrue
  <2> QED
    BY <2>2, <2>3, <2>5
<1>9. CASE direction = "redo"
  <2>1. redo' = WithoutTop(stack) /\ undo' = undo /\ stack = redo
    BY <1>9 DEF Take, Stack
  <2>2. Ended'
    BY <1>2, <1>4, <1>5, <1>6, <1>7, <2>1 DEF Ended
  <2>3. OneHolder'
    BY <1>1, <1>2, <1>4, <1>5, <1>7, <2>1 DEF OneHolder, InHand
  <2>4. TakenIsTrue(k)'
    BY <1>2, <1>5, <1>6, <1>9, <2>1 DEF StepsAreTrue, TakenIsTrue
  <2>5. StepsAreTrue'
    BY <1>4, <1>6, <1>7, <2>1, <2>4 DEF StepsAreTrue
  <2> QED
    BY <2>2, <2>3, <2>5
<1> QED
  BY <1>8, <1>9 DEF Directions

\* A reversal changes the parts of its own operation only.
LEMMA ReverseInv ==
    ASSUME Inv, TypeOK', NEW k \in Walks, NEW done \in SUBSET Parts, Reverse(k, done)
    PROVE  Inv'
<1> USE DEF Inv
<1> DEFINE o == walk[k].step.op
<1>1. InHand(k) /\ walk[k].state = "reversing" /\ done \subseteq walk[k].step.parts
  BY DEF Reverse, InHand
<1>2. o \in Operations /\ walk[k].direction \in Directions /\ walk[k].step \in Step
  BY <1>1, HeldType
<1>3. walk'[k] = [walk[k] EXCEPT !.state = "reversed", !.done = done] /\ \A l \in Walks \ {k} : walk'[l] = walk[l]
  BY DEF Reverse, TypeOK
<1>4. walk'[k].state = "reversed" /\ walk'[k].done = done /\ walk'[k].step = walk[k].step
      /\ walk'[k].direction = walk[k].direction
  BY <1>1, <1>3, HeldType DEF Walk
<1>5. /\ applied'[o] = IF walk[k].direction = "undo" THEN applied[o] \ done ELSE applied[o] \union done
      /\ \A other \in Operations \ {o} : applied'[other] = applied[other]
  BY <1>2 DEF Reverse, TypeOK
<1>6. UNCHANGED <<undo, redo, run>>
  BY DEF Reverse, journal
<1>7. /\ \A i \in DOMAIN undo : undo[i].op \in Operations \ {o}
      /\ \A i \in DOMAIN redo : redo[i].op \in Operations \ {o}
      /\ \A l \in Walks \ {k} : InHand(l) => walk[l].step.op \in Operations \ {o}
  BY <1>1, StepOps DEF OneHolder
<1>8. \A l \in Walks : InHand(l)' => InHand(l) /\ walk'[l].step = walk[l].step
  BY <1>1, <1>3, <1>4 DEF InHand
<1>9. Ended'
  BY <1>6, <1>8 DEF Ended
<1>10. OneHolder'
  BY <1>6, <1>8 DEF OneHolder
<1>11. TakenIsTrue(k)'
  <2>1. IF walk[k].direction = "undo" THEN walk[k].step.parts \subseteq applied[o]
                                      ELSE walk[k].step.parts \intersect applied[o] = {}
    BY <1>1 DEF StepsAreTrue, TakenIsTrue
  <2> QED
    BY <1>1, <1>4, <1>5, <2>1 DEF TakenIsTrue
<1>12. \A l \in Walks \ {k} : InHand(l)' => TakenIsTrue(l)'
  BY <1>3, <1>5, <1>7, <1>8 DEF StepsAreTrue, TakenIsTrue, InHand
<1>13. StepsAreTrue'
  BY <1>5, <1>6, <1>7, <1>11, <1>12 DEF StepsAreTrue
<1> QED
  BY <1>9, <1>10, <1>13

LEMMA InvStep == Inv /\ [Next]_vars => Inv'
<1> SUFFICES ASSUME Inv, [Next]_vars
             PROVE  Inv'
  OBVIOUS
<1> USE DEF Inv
<1>0. TypeOK'
  BY TypeStep
<1>1. ASSUME NEW o \in Operations, NEW w \in Windows, Begin(o, w)
      PROVE  Inv'
  <2>1. run[o] = "new" /\ run' = [run EXCEPT ![o] = "running"] /\ UNCHANGED <<undo, redo, applied, walk>>
    BY <1>1 DEF Begin, journal
  <2>2. \A other \in Operations : run[other] = "ended" => run'[other] = "ended"
    BY <2>1 DEF TypeOK
  <2>3. /\ \A i \in DOMAIN undo : undo[i].op \in Operations
        /\ \A i \in DOMAIN redo : redo[i].op \in Operations
        /\ \A k \in Walks : InHand(k) => walk[k].step.op \in Operations
    BY StepOps
  <2>4. Ended'
    BY <2>1, <2>2, <2>3 DEF Ended, InHand
  <2> QED
    BY <1>0, <2>1, <2>4 DEF OneHolder, StepsAreTrue, TakenIsTrue, InHand
<1>2. ASSUME NEW o \in Operations, NEW done \in SUBSET Items[o], Conclude(o, done)
      PROVE  Inv'
  BY <1>0, <1>2, ConcludeInv
<1>3. ASSUME NEW k \in Walks, NEW w \in Windows, NEW direction \in Directions, Take(k, w, direction)
      PROVE  Inv'
  BY <1>0, <1>3, TakeInv
<1>4. ASSUME NEW k \in Walks, Refuse(k) \/ FailWhole(k)
      PROVE  Inv'
  <2>1. InHand(k) /\ walk[k].state # "reversed"
    BY <1>4 DEF Refuse, FailWhole, InHand
  <2>2. IsTrue(walk[k].direction, walk[k].step)
    BY <2>1 DEF StepsAreTrue, TakenIsTrue, IsTrue
  <2>3. Push(walk[k].direction, walk[k].step) /\ walk' = [walk EXCEPT ![k] = Idle] /\ UNCHANGED <<run, applied>>
    BY <1>4 DEF Refuse, FailWhole, PutBack
  <2> QED
    BY <1>0, <2>1, <2>2, <2>3, HeldType, GivesBack
<1>5. ASSUME NEW k \in Walks, Proceed(k)
      PROVE  Inv'
  <2>1. InHand(k) /\ walk[k].state = "asking" /\ UNCHANGED <<undo, redo, run, applied>>
    BY <1>5 DEF Proceed, InHand, journal
  <2>2. walk'[k] = [walk[k] EXCEPT !.state = "reversing"] /\ \A l \in Walks \ {k} : walk'[l] = walk[l]
    BY <1>5 DEF Proceed, TypeOK
  <2>3. walk'[k].state = "reversing" /\ walk'[k].done = walk[k].done /\ walk'[k].step = walk[k].step
        /\ walk'[k].direction = walk[k].direction
    BY <2>1, <2>2, HeldType DEF Walk
  <2>4. \A l \in Walks : InHand(l)' => InHand(l) /\ walk'[l].step = walk[l].step
    BY <2>1, <2>2, <2>3 DEF InHand
  <2>5. TakenIsTrue(k)'
    <3>1. TakenIsTrue(k)
      BY <2>1 DEF StepsAreTrue
    <3> QED
      BY <2>1, <2>3, <3>1 DEF TakenIsTrue
  <2>6. \A l \in Walks \ {k} : InHand(l)' => TakenIsTrue(l)'
    BY <2>1, <2>2, <2>4 DEF StepsAreTrue, TakenIsTrue
  <2> QED
    BY <1>0, <2>1, <2>4, <2>5, <2>6 DEF Ended, OneHolder, StepsAreTrue
<1>6. ASSUME NEW k \in Walks, NEW done \in SUBSET Parts, Reverse(k, done)
      PROVE  Inv'
  BY <1>0, <1>6, ReverseInv
<1>7. ASSUME NEW k \in Walks, Finish(k)
      PROVE  Inv'
  <2>1. InHand(k) /\ walk[k].state = "reversed" /\ walk' = [walk EXCEPT ![k] = Idle] /\ UNCHANGED <<run, applied>>
    BY <1>7 DEF Finish, InHand
  <2>2. CASE walk[k].done = {}
    <3>1. UNCHANGED <<undo, redo>>
      BY <1>7, <2>2 DEF Finish, journal
    <3>2. \A l \in Walks : InHand(l)' => InHand(l) /\ walk'[l] = walk[l]
      BY <2>1 DEF TypeOK, InHand, Idle
    <3> QED
      BY <1>0, <2>1, <3>1, <3>2 DEF Ended, OneHolder, StepsAreTrue, TakenIsTrue
  <2>3. CASE walk[k].done # {}
    <3> DEFINE step == [op |-> walk[k].step.op, parts |-> Reversed(k)]
               direction == Opposite(walk[k].direction)
    <3>1. step \in Step /\ direction \in Directions
      BY <2>1, HeldType DEF Step, Reversed, TypeOK
    <3>2. IsTrue(direction, step)
      BY <2>1, HeldType DEF StepsAreTrue, TakenIsTrue, IsTrue, Opposite, Directions, Reversed
    <3>3. Push(direction, step)
      BY <1>7, <2>3 DEF Finish
    <3> HIDE DEF direction
    <3> QED
      BY <1>0, <2>1, <3>1, <3>2, <3>3, GivesBack
  <2> QED
    BY <2>2, <2>3
<1>8. CASE UNCHANGED vars
  BY <1>0, <1>8 DEF vars, Ended, OneHolder, StepsAreTrue, TakenIsTrue, InHand
<1> QED
  BY <1>1, <1>2, <1>3, <1>4, <1>5, <1>6, <1>7, <1>8 DEF Next, Operate, WalkJournal

LEMMA InvAlways == Spec => []Inv
  BY InitInv, InvStep, PTL DEF Spec

\* A step is on one stack, once, or in the hands of one walk: no two
\* windows reverse it (file_ops/journal.rs).
THEOREM StepHasOneHolder == Spec => []OneHolder
<1>1. Inv => OneHolder
  BY DEF Inv
<1> QED
  BY <1>1, InvAlways, PTL

\* Whatever fails, is skipped, refused or given back, Undo holds only what
\* is in effect and Redo only what is not (UndoRecord::inverse).
THEOREM StepsStayTrue == Spec => []StepsAreTrue
<1>1. Inv => StepsAreTrue
  BY DEF Inv
<1> QED
  BY <1>1, InvAlways, PTL

-----------------------------------------------------------------------------
\* The order of the steps

\* The operation of "step" is newer than every one that Undo holds and older
\* than every one that Redo holds.
Between(step) ==
    /\ \A i \in DOMAIN undo : order[undo[i].op] < order[step.op]
    /\ \A i \in DOMAIN redo : order[step.op] < order[redo[i].op]

Sorted ==
    /\ \A i, j \in DOMAIN undo : i < j => order[undo[i].op] < order[undo[j].op]
    /\ \A i, j \in DOMAIN redo : i < j => order[redo[i].op] > order[redo[j].op]
    /\ \A i \in DOMAIN undo, j \in DOMAIN redo : order[undo[i].op] < order[redo[j].op]

OneWalk == \A k, l \in Walks : InHand(k) /\ InHand(l) => k = l

HeldBetween == \A k \in Walks : InHand(k) => Between(walk[k].step)

\* Without an overlap one walk at a time holds a step, and its place is
\* between the stacks.
Ordered ==
    /\ ~overlapped => Sorted /\ OneWalk /\ HeldBetween
    /\ \A o \in Operations : order[o] <= records

\* push_bounded keeps a stack sorted when the step belongs on top of it.
LEMMA PushBoundedOrder ==
    ASSUME NEW stack \in Seq(Step), Len(stack) <= UndoLimit, NEW step \in Step,
           NEW rank \in [Operations -> Int],
           \A i, j \in DOMAIN stack : i < j => rank[stack[i].op] < rank[stack[j].op],
           \A i \in DOMAIN stack : rank[stack[i].op] < rank[step.op]
    PROVE  LET new == PushBounded(stack, step)
           IN \A i, j \in DOMAIN new : i < j => rank[new[i].op] < rank[new[j].op]
<1> DEFINE new == PushBounded(stack, step)
<1>1. /\ new \in Seq(Step)
      /\ new[Len(new)] = step
      /\ \A i \in 1 .. Len(new) - 1 : i + Dropped(stack) \in DOMAIN stack /\ new[i] = stack[i + Dropped(stack)]
  BY PushBoundedIs
<1>2. Dropped(stack) \in {0, 1}
  BY DEF Dropped
<1> HIDE DEF new
<1>3. DOMAIN new = 1 .. Len(new) /\ Len(new) \in Nat
  BY <1>1
<1>4. ASSUME NEW i \in DOMAIN new, NEW j \in DOMAIN new, i < j
      PROVE  rank[new[i].op] < rank[new[j].op]
  <2>1. i \in 1 .. Len(new) - 1
    BY <1>3, <1>4
  <2>2. CASE j = Len(new)
    BY <1>1, <2>1, <2>2
  <2>3. CASE j # Len(new)
    <3>1. j \in 1 .. Len(new) - 1
      BY <1>3, <2>3
    <3>2. i + Dropped(stack) < j + Dropped(stack)
      BY <1>2, <1>3, <1>4
    <3> QED
      BY <1>1, <2>1, <3>1, <3>2
  <2> QED
    BY <2>2, <2>3
<1> QED
  BY <1>4 DEF new

\* What push_bounded leaves is the step or was there.
LEMMA PushBoundedHas ==
    ASSUME NEW stack \in Seq(Step), Len(stack) <= UndoLimit, NEW step \in Step
    PROVE  LET new == PushBounded(stack, step)
           IN \A i \in DOMAIN new : new[i] = step \/ \E j \in DOMAIN stack : new[i] = stack[j]
<1> DEFINE new == PushBounded(stack, step)
<1>1. /\ new \in Seq(Step)
      /\ new[Len(new)] = step
      /\ \A i \in 1 .. Len(new) - 1 : i + Dropped(stack) \in DOMAIN stack /\ new[i] = stack[i + Dropped(stack)]
  BY PushBoundedIs
<1> HIDE DEF new
<1>2. ASSUME NEW i \in DOMAIN new
      PROVE  new[i] = step \/ \E j \in DOMAIN stack : new[i] = stack[j]
  <2>1. i = Len(new) \/ i \in 1 .. Len(new) - 1
    BY <1>1
  <2> QED
    BY <1>1, <2>1
<1> QED
  BY <1>2 DEF new

\* A step between the stacks may go onto either.
LEMMA PushSorted ==
    ASSUME TypeOK, Sorted, NEW step \in Step, Between(step),
           NEW direction \in Directions, Push(direction, step), order' = order
    PROVE  Sorted'
<1>1. /\ undo \in Seq(Step) /\ Len(undo) <= UndoLimit /\ redo \in Seq(Step) /\ Len(redo) <= UndoLimit
      /\ order \in [Operations -> Int]
  BY DEF TypeOK
<1>2. /\ \A i \in DOMAIN undo : undo[i].op \in Operations
      /\ \A i \in DOMAIN redo : redo[i].op \in Operations
      /\ step.op \in Operations
  BY StepOps DEF Step
<1>3. CASE direction = "undo"
  <2>1. undo' = PushBounded(undo, step) /\ redo' = redo
    BY <1>3 DEF Push
  <2>2. \A i, j \in DOMAIN undo' : i < j => order[undo'[i].op] < order[undo'[j].op]
    <3>1. /\ \A i, j \in DOMAIN undo : i < j => order[undo[i].op] < order[undo[j].op]
          /\ \A i \in DOMAIN undo : order[undo[i].op] < order[step.op]
      BY DEF Sorted, Between
    <3> QED
      BY <1>1, <2>1, <3>1, PushBoundedOrder
  <2>3. \A i \in DOMAIN undo' : undo'[i] = step \/ \E j \in DOMAIN undo : undo'[i] = undo[j]
    BY <1>1, <2>1, PushBoundedHas
  <2>4. \A i \in DOMAIN undo', j \in DOMAIN redo' : order[undo'[i].op] < order[redo'[j].op]
    BY <2>1, <2>3 DEF Sorted, Between
  <2> QED
    BY <2>1, <2>2, <2>4 DEF Sorted
<1>4. CASE direction = "redo"
  <2>1. redo' = PushBounded(redo, step) /\ undo' = undo
    BY <1>4 DEF Push, Directions
  <2> DEFINE rank == [o \in Operations |-> 0 - order[o]]
  <2>2. rank \in [Operations -> Int]
    BY <1>1
  <2>3. /\ \A i, j \in DOMAIN redo : i < j => rank[redo[i].op] < rank[redo[j].op]
        /\ \A i \in DOMAIN redo : rank[redo[i].op] < rank[step.op]
    BY <1>1, <1>2 DEF Sorted, Between
  <2>4. \A o \in Operations : rank[o] = 0 - order[o]
    OBVIOUS
  <2> HIDE DEF rank
  <2>5. \A i, j \in DOMAIN redo' : i < j => rank[redo'[i].op] < rank[redo'[j].op]
    BY <1>1, <2>1, <2>2, <2>3, PushBoundedOrder
  <2>6. \A i \in DOMAIN redo' : redo'[i] = step \/ \E j \in DOMAIN redo : redo'[i] = redo[j]
    BY <1>1, <2>1, PushBoundedHas
  <2>7. \A i \in DOMAIN redo' : redo'[i].op \in Operations
    BY <1>2, <2>6
  <2>8. \A i, j \in DOMAIN redo' : i < j => order[redo'[i].op] > order[redo'[j].op]
    <3>1. \A a, b \in Operations : rank[a] < rank[b] => order[a] > order[b]
      BY <1>1, <2>4
    <3> QED
      BY <2>5, <2>7, <3>1
  <2>9. \A i \in DOMAIN undo', j \in DOMAIN redo' : order[undo'[i].op] < order[redo'[j].op]
    BY <2>1, <2>6 DEF Sorted, Between
  <2> QED
    BY <2>1, <2>8, <2>9 DEF Sorted
<1> QED
  BY <1>3, <1>4 DEF Directions

\* The only walk in hand gives its operation back.
LEMMA GivesBackOrdered ==
    ASSUME Inv, Ordered, NEW k \in Walks, InHand(k), NEW direction \in Directions, NEW step \in Step,
           step.op = walk[k].step.op, Push(direction, step),
           walk' = [walk EXCEPT ![k] = Idle], UNCHANGED history
    PROVE  Ordered'
<1>1. /\ TypeOK /\ UNCHANGED <<order, records, overlapped>>
  BY DEF Inv, history
<1>2. \A l \in Walks : InHand(l)' => l # k /\ InHand(l)
  BY <1>1 DEF TypeOK, InHand, Idle
<1>3. ASSUME ~overlapped
      PROVE  Sorted' /\ OneWalk' /\ HeldBetween'
  <2>1. Sorted /\ OneWalk /\ Between(step)
    BY <1>3 DEF Ordered, HeldBetween, Between
  <2>2. Sorted'
    BY <1>1, <2>1, PushSorted
  <2>3. \A l \in Walks : ~InHand(l)'
    BY <1>2, <2>1 DEF OneWalk
  <2> QED
    BY <2>2, <2>3 DEF OneWalk, HeldBetween
<1> QED
  BY <1>1, <1>3 DEF Ordered

\* A recorded operation is newer than all others, and Redo is empty.
LEMMA ConcludeOrdered ==
    ASSUME Inv, Ordered, NEW o \in Operations, NEW done \in SUBSET Items[o], Conclude(o, done)
    PROVE  Ordered'
<1>1. TypeOK /\ run[o] = "running" /\ walk' = walk
  BY DEF Inv, Conclude
<1>2. CASE done = {}
  <2>1. UNCHANGED <<undo, redo, order, records, overlapped, walk>>
    BY <1>1, <1>2 DEF Conclude, journal, history
  <2> QED
    BY <2>1 DEF Ordered, Sorted, OneWalk, HeldBetween, Between, InHand
<1>3. CASE done # {}
  <2> DEFINE step == [op |-> o, parts |-> done]
  <2>1. step \in Step /\ step.op = o
    BY <1>1 DEF TypeOK, Step, Parts
  <2>2. /\ records' = records + 1 /\ order' = [order EXCEPT ![o] = records + 1]
        /\ undo' = PushBounded(undo, step) /\ redo' = <<>>
    BY <1>3 DEF Conclude, EmptiedRedo
  <2>3. overlapped' = (overlapped \/ \E k \in Walks : InHand(k))
    BY <1>3, Zenon DEF Conclude
  <2>4. /\ undo \in Seq(Step) /\ Len(undo) <= UndoLimit
        /\ order' \in [Operations -> Int]
    BY <1>1, <2>2 DEF TypeOK
  <2>5. \A p \in Operations : order'[p] <= records' /\ (p # o => order'[p] = order[p] /\ order'[p] < order'[o])
    BY <1>1, <2>2 DEF TypeOK, Ordered
  <2>6. \A i \in DOMAIN undo : undo[i].op \in Operations \ {o}
    BY <1>1, StepOps DEF Inv, Ended
  <2>7. DOMAIN redo' = {}
    BY <2>2, EmptyIs
  <2> HIDE DEF step
  <2>8. ASSUME ~overlapped'
        PROVE  Sorted' /\ OneWalk' /\ HeldBetween'
    <3>1. Sorted /\ \A k \in Walks : ~InHand(k)
      BY <2>3, <2>8 DEF Ordered
    <3>2. /\ \A i, j \in DOMAIN undo : i < j => order'[undo[i].op] < order'[undo[j].op]
          /\ \A i \in DOMAIN undo : order'[undo[i].op] < order'[step.op]
      BY <2>1, <2>5, <2>6, <3>1 DEF Sorted
    <3>3. \A i, j \in DOMAIN undo' : i < j => order'[undo'[i].op] < order'[undo'[j].op]
      BY <2>1, <2>2, <2>4, <3>2, PushBoundedOrder
    <3>4. \A k \in Walks : ~InHand(k)'
      BY <1>1, <3>1 DEF InHand
    <3> QED
      BY <2>7, <3>3, <3>4 DEF Sorted, OneWalk, HeldBetween
  <2> QED
    BY <2>5, <2>8 DEF Ordered
<1> QED
  BY <1>2, <1>3

\* The newest step of a stack is between the rest of it and the other one.
LEMMA TakeOrdered ==
    ASSUME Inv, Ordered, NEW k \in Walks, NEW w \in Windows, NEW direction \in Directions, Take(k, w, direction)
    PROVE  Ordered'
<1> DEFINE stack == Stack(direction)
           top == stack[Len(stack)]
<1>1. stack \in Seq(Step) /\ Len(stack) <= UndoLimit /\ stack # <<>> /\ ~InHand(k)
  BY DEF Inv, Take, Stack, TypeOK
<1>2. Len(stack) \in DOMAIN stack /\ Len(stack) \in Nat /\ DOMAIN stack = 1 .. Len(stack)
  BY <1>1
<1>3. /\ WithoutTop(stack) \in Seq(Step) /\ Len(WithoutTop(stack)) = Len(stack) - 1
      /\ \A i \in 1 .. Len(stack) - 1 : WithoutTop(stack)[i] = stack[i]
  BY <1>1, WithoutTopIs
<1>4. \A i \in DOMAIN WithoutTop(stack) : i \in DOMAIN stack /\ i < Len(stack) /\ WithoutTop(stack)[i] = stack[i]
  BY <1>1, <1>3
<1>5. walk'[k].step = top /\ \A l \in Walks \ {k} : walk'[l] = walk[l]
  BY DEF Inv, Take, TypeOK
<1>6. UNCHANGED <<order, records>>
  BY DEF Take
<1>7. overlapped' = (overlapped \/ \E l \in Walks : InHand(l))
  BY Zenon DEF Take
<1>8. ASSUME ~overlapped'
      PROVE  Sorted' /\ OneWalk' /\ HeldBetween'
  <2>1. Sorted /\ \A l \in Walks : ~InHand(l)
    BY <1>7, <1>8 DEF Ordered
  <2>2. \A l \in Walks : InHand(l)' => l = k
    BY <1>5, <2>1 DEF InHand
  <2>3. CASE direction = "undo"
    <3>1. undo' = WithoutTop(stack) /\ redo' = redo /\ stack = undo
      BY <2>3 DEF Take, Stack
    <3> HIDE DEF stack
    <3>2. Sorted'
      BY <1>4, <1>6, <2>1, <3>1 DEF Sorted
    <3>3. Between(walk[k].step)'
      BY <1>2, <1>4, <1>5, <1>6, <2>1, <3>1 DEF Sorted, Between
    <3> QED
      BY <2>2, <3>2, <3>3 DEF OneWalk, HeldBetween
  <2>4. CASE direction = "redo"
    <3>1. redo' = WithoutTop(stack) /\ undo' = undo /\ stack = redo
      BY <2>4 DEF Take, Stack
    <3> HIDE DEF stack
    <3>2. Sorted'
      BY <1>4, <1>6, <2>1, <3>1 DEF Sorted
    <3>3. Between(walk[k].step)'
      BY <1>2, <1>4, <1>5, <1>6, <2>1, <3>1 DEF Sorted, Between
    <3> QED
      BY <2>2, <3>2, <3>3 DEF OneWalk, HeldBetween
  <2> QED
    BY <2>3, <2>4 DEF Directions
<1> QED
  BY <1>6, <1>8 DEF Ordered

\* A step that touches neither the journal nor what the walks hold.
LEMMA HeldOrdered ==
    ASSUME Ordered, UNCHANGED journal, UNCHANGED history,
           \A l \in Walks : InHand(l)' => InHand(l) /\ walk'[l].step = walk[l].step
    PROVE  Ordered'
BY DEF Ordered, Sorted, OneWalk, HeldBetween, Between, journal, history

LEMMA OrderedStep == Inv /\ Ordered /\ [Next]_vars => Ordered'
<1> SUFFICES ASSUME Inv, Ordered, [Next]_vars
             PROVE  Ordered'
  OBVIOUS
<1>0. TypeOK
  BY DEF Inv
<1>1. ASSUME NEW o \in Operations, NEW w \in Windows, Begin(o, w)
      PROVE  Ordered'
  BY <1>1, HeldOrdered DEF Begin, InHand
<1>2. ASSUME NEW o \in Operations, NEW done \in SUBSET Items[o], Conclude(o, done)
      PROVE  Ordered'
  BY <1>2, ConcludeOrdered
<1>3. ASSUME NEW k \in Walks, NEW w \in Windows, NEW direction \in Directions, Take(k, w, direction)
      PROVE  Ordered'
  BY <1>3, TakeOrdered
<1>4. ASSUME NEW k \in Walks, Refuse(k) \/ FailWhole(k)
      PROVE  Ordered'
  <2>1. /\ InHand(k) /\ Push(walk[k].direction, walk[k].step) /\ walk' = [walk EXCEPT ![k] = Idle]
        /\ UNCHANGED history
    BY <1>4 DEF Refuse, FailWhole, PutBack, InHand
  <2> QED
    BY <1>0, <2>1, HeldType, GivesBackOrdered
<1>5. ASSUME NEW k \in Walks, Proceed(k)
      PROVE  Ordered'
  <2>1. \A l \in Walks : InHand(l)' => InHand(l) /\ walk'[l].step = walk[l].step
    BY <1>0, <1>5 DEF Proceed, InHand, TypeOK, Walk
  <2> QED
    BY <1>5, <2>1, HeldOrdered DEF Proceed
<1>6. ASSUME NEW k \in Walks, NEW done \in SUBSET Parts, Reverse(k, done)
      PROVE  Ordered'
  <2>1. \A l \in Walks : InHand(l)' => InHand(l) /\ walk'[l].step = walk[l].step
    BY <1>0, <1>6 DEF Reverse, InHand, TypeOK, Walk
  <2> QED
    BY <1>6, <2>1, HeldOrdered DEF Reverse
<1>7. ASSUME NEW k \in Walks, Finish(k)
      PROVE  Ordered'
  <2>1. InHand(k) /\ walk' = [walk EXCEPT ![k] = Idle] /\ UNCHANGED history
    BY <1>7 DEF Finish, InHand
  <2>2. CASE walk[k].done = {}
    <3>1. \A l \in Walks : InHand(l)' => InHand(l) /\ walk'[l].step = walk[l].step
      BY <1>0, <2>1 DEF TypeOK, InHand, Idle
    <3> QED
      BY <1>7, <2>2, <3>1, HeldOrdered DEF Finish
  <2>3. CASE walk[k].done # {}
    <3> DEFINE step == [op |-> walk[k].step.op, parts |-> Reversed(k)]
               direction == Opposite(walk[k].direction)
    <3>1. step \in Step /\ direction \in Directions
      BY <1>0, <2>1, HeldType DEF Step, Reversed, TypeOK
    <3>2. Push(direction, step)
      BY <1>7, <2>3 DEF Finish
    <3>3. step.op = walk[k].step.op
      OBVIOUS
    <3> HIDE DEF direction, step
    <3> QED
      BY <2>1, <3>1, <3>2, <3>3, GivesBackOrdered
  <2> QED
    BY <2>2, <2>3
<1>8. CASE UNCHANGED vars
  BY <1>8, HeldOrdered DEF vars, journal, history, InHand
<1> QED
  BY <1>1, <1>2, <1>3, <1>4, <1>5, <1>6, <1>7, <1>8 DEF Next, Operate, WalkJournal

\* As long as nothing overlapped a step that was taken, Undo reverses the
\* newest operation in effect and Redo takes the oldest one undone, for any
\* number of steps and whatever is given back or dropped.
THEOREM StaysInOrder == Spec => []InOrder
<1>1. Init => Ordered
  <2> SUFFICES ASSUME Init
               PROVE  Ordered
    OBVIOUS
  <2>1. DOMAIN undo = {} /\ DOMAIN redo = {} /\ \A k \in Walks : ~InHand(k)
    BY EmptyIs DEF Init, InHand, Idle
  <2> QED
    BY <2>1 DEF Init, Ordered, Sorted, OneWalk, HeldBetween
<1>2. Ordered => InOrder
  BY DEF Ordered, Sorted, InOrder
<1> QED
  BY <1>1, <1>2, InvAlways, OrderedStep, PTL DEF Spec

-----------------------------------------------------------------------------
\* Nothing is forgotten

\* A walk that has not reversed its step yet has reversed no part of it.
Untouched == \A k \in Walks : walk[k].state \in {"asking", "reversing"} => walk[k].done = {}

\* What NothingForgotten says of a step.
KeptByStep ==
    \A o \in Operations, p \in Parts :
        /\ CanUndo(o, p) => \/ CanUndo(o, p)' \/ CanRedo(o, p)'
                            \/ Drops(undo, o) \/ LeavesAlone(o, p)
        /\ CanRedo(o, p) => \/ CanRedo(o, p)' \/ CanUndo(o, p)'
                            \/ Drops(redo, o) \/ LeavesAlone(o, p)
                            \/ records' # records

LEMMA UntouchedStep == TypeOK /\ Untouched /\ [Next]_vars => Untouched'
<1> SUFFICES ASSUME TypeOK, Untouched, [Next]_vars
             PROVE  Untouched'
  OBVIOUS
<1>1. ASSUME NEW o \in Operations, NEW w \in Windows, Begin(o, w)
      PROVE  Untouched'
  BY <1>1 DEF Begin, Untouched
<1>2. ASSUME NEW o \in Operations, NEW done \in SUBSET Items[o], Conclude(o, done)
      PROVE  Untouched'
  BY <1>2 DEF Conclude, Untouched
<1>3. ASSUME NEW k \in Walks, NEW w \in Windows, NEW direction \in Directions, Take(k, w, direction)
      PROVE  Untouched'
  BY <1>3 DEF Take, Untouched, TypeOK
<1>4. ASSUME NEW k \in Walks, Refuse(k) \/ FailWhole(k)
      PROVE  Untouched'
  <2>1. walk' = [walk EXCEPT ![k] = Idle] /\ Idle.state = "idle"
    BY <1>4 DEF Refuse, FailWhole, Idle
  <2> QED
    BY <2>1 DEF Untouched, TypeOK
<1>5. ASSUME NEW k \in Walks, Proceed(k)
      PROVE  Untouched'
  BY <1>5 DEF Proceed, Untouched, TypeOK, Walk
<1>6. ASSUME NEW k \in Walks, NEW done \in SUBSET Parts, Reverse(k, done)
      PROVE  Untouched'
  BY <1>6 DEF Reverse, Untouched, TypeOK, Walk
<1>7. ASSUME NEW k \in Walks, Finish(k)
      PROVE  Untouched'
  BY <1>7 DEF Finish, Untouched, TypeOK, Idle
<1>8. CASE UNCHANGED vars
  BY <1>8 DEF vars, Untouched
<1> QED
  BY <1>1, <1>2, <1>3, <1>4, <1>5, <1>6, <1>7, <1>8 DEF Next, Operate, WalkJournal

\* push_bounded keeps every step but the oldest of a full stack.
LEMMA PushBoundedKeeps ==
    ASSUME NEW stack \in Seq(Step), Len(stack) <= UndoLimit, NEW step \in Step
    PROVE  LET new == PushBounded(stack, step)
           IN /\ \E j \in DOMAIN new : new[j] = step
              /\ \A i \in DOMAIN stack : Drops(stack, stack[i].op) \/ \E j \in DOMAIN new : new[j] = stack[i]
<1> DEFINE new == PushBounded(stack, step)
<1>1. /\ new \in Seq(Step)
      /\ Len(new) = Len(stack) + 1 - Dropped(stack)
      /\ new[Len(new)] = step
      /\ \A i \in 1 .. Len(new) - 1 : new[i] = stack[i + Dropped(stack)]
  BY PushBoundedIs
<1> HIDE DEF new
<1>2. /\ DOMAIN new = 1 .. Len(new) /\ Len(new) \in Nat
      /\ DOMAIN stack = 1 .. Len(stack) /\ Len(stack) \in Nat
  BY <1>1
<1>3. Len(new) \in DOMAIN new
  <2>1. Len(new) >= 1
    <3>1. CASE Len(stack) = UndoLimit
      BY <1>1, <1>2, <3>1, LimitAssumption DEF Dropped
    <3>2. CASE Len(stack) # UndoLimit
      BY <1>1, <1>2, <3>2 DEF Dropped
    <3> QED
      BY <3>1, <3>2
  <2> QED
    BY <1>2, <2>1
<1>4. ASSUME NEW i \in DOMAIN stack
      PROVE  Drops(stack, stack[i].op) \/ \E j \in DOMAIN new : new[j] = stack[i]
  <2>1. CASE Len(stack) = UndoLimit /\ i = 1
    BY <1>2, <2>1 DEF Drops
  <2>2. CASE Len(stack) = UndoLimit /\ i # 1
    <3>1. Dropped(stack) = 1 /\ i - 1 \in 1 .. Len(new) - 1 /\ i - 1 \in DOMAIN new
      BY <1>1, <1>2, <2>2 DEF Dropped
    <3>2. new[i - 1] = stack[i]
      BY <1>1, <1>2, <3>1
    <3> QED
      BY <3>1, <3>2
  <2>3. CASE Len(stack) # UndoLimit
    <3>1. Dropped(stack) = 0 /\ i \in 1 .. Len(new) - 1 /\ i \in DOMAIN new
      BY <1>1, <1>2, <2>3 DEF Dropped
    <3>2. new[i] = stack[i]
      BY <1>1, <1>2, <3>1
    <3> QED
      BY <3>1, <3>2
  <2> QED
    BY <2>1, <2>2, <2>3
<1> QED
  BY <1>1, <1>3, <1>4 DEF new

OnStack(stack, o, p) == \E i \in DOMAIN stack : stack[i].op = o /\ p \in stack[i].parts

UndoneByWalk(k, o, p) ==
    /\ InHand(k) /\ walk[k].step.op = o
    /\ IF walk[k].direction = "undo" THEN p \in walk[k].step.parts \ walk[k].done ELSE p \in walk[k].done

RedoneByWalk(k, o, p) ==
    /\ InHand(k) /\ walk[k].step.op = o
    /\ IF walk[k].direction = "redo" THEN p \in walk[k].step.parts \ walk[k].done ELSE p \in walk[k].done

LEMMA CanIs ==
    ASSUME NEW o, NEW p
    PROVE  /\ CanUndo(o, p) <=> OnStack(undo, o, p) \/ \E k \in Walks : UndoneByWalk(k, o, p)
           /\ CanRedo(o, p) <=> OnStack(redo, o, p) \/ \E k \in Walks : RedoneByWalk(k, o, p)
           /\ CanUndo(o, p)' <=> OnStack(undo', o, p) \/ \E k \in Walks : UndoneByWalk(k, o, p)'
           /\ CanRedo(o, p)' <=> OnStack(redo', o, p) \/ \E k \in Walks : RedoneByWalk(k, o, p)'
BY DEF CanUndo, CanRedo, OnStack, UndoneByWalk, RedoneByWalk

\* A push keeps what is on the stacks, the oldest step aside.
LEMMA PushKeeps ==
    ASSUME TypeOK, NEW direction \in Directions, NEW step \in Step, Push(direction, step), NEW o, NEW p
    PROVE  /\ OnStack(undo, o, p) => OnStack(undo', o, p) \/ Drops(undo, o)
           /\ OnStack(redo, o, p) => OnStack(redo', o, p) \/ Drops(redo, o)
           /\ step.op = o /\ p \in step.parts =>
                 IF direction = "undo" THEN OnStack(undo', o, p) ELSE OnStack(redo', o, p)
<1>1. undo \in Seq(Step) /\ Len(undo) <= UndoLimit /\ redo \in Seq(Step) /\ Len(redo) <= UndoLimit
  BY DEF TypeOK
<1>2. CASE direction = "undo"
  <2>1. undo' = PushBounded(undo, step) /\ redo' = redo
    BY <1>2 DEF Push
  <2>2. /\ \E j \in DOMAIN undo' : undo'[j] = step
        /\ \A i \in DOMAIN undo : Drops(undo, undo[i].op) \/ \E j \in DOMAIN undo' : undo'[j] = undo[i]
    BY <1>1, <2>1, PushBoundedKeeps
  <2> QED
    BY <1>2, <2>1, <2>2 DEF OnStack
<1>3. CASE direction = "redo"
  <2>1. redo' = PushBounded(redo, step) /\ undo' = undo
    BY <1>3 DEF Push
  <2>2. /\ \E j \in DOMAIN redo' : redo'[j] = step
        /\ \A i \in DOMAIN redo : Drops(redo, redo[i].op) \/ \E j \in DOMAIN redo' : redo'[j] = redo[i]
    BY <1>1, <2>1, PushBoundedKeeps
  <2> QED
    BY <1>3, <2>1, <2>2 DEF OnStack
<1> QED
  BY <1>2, <1>3 DEF Directions

\* The other walks are as they were.
LEMMA OtherWalks ==
    ASSUME NEW k \in Walks, NEW o, NEW p, \A l \in Walks \ {k} : walk'[l] = walk[l]
    PROVE  \A l \in Walks \ {k} : /\ UndoneByWalk(l, o, p) => UndoneByWalk(l, o, p)'
                                  /\ RedoneByWalk(l, o, p) => RedoneByWalk(l, o, p)'
BY DEF UndoneByWalk, RedoneByWalk, InHand

LEMMA ConcludeKeeps ==
    ASSUME TypeOK, NEW x \in Operations, NEW done \in SUBSET Items[x], Conclude(x, done),
           NEW o \in Operations, NEW p \in Parts
    PROVE  /\ CanUndo(o, p) => CanUndo(o, p)' \/ Drops(undo, o)
           /\ CanRedo(o, p) => CanRedo(o, p)' \/ records' # records
<1>1. walk' = walk
  BY DEF Conclude
<1>2. CASE done = {}
  BY <1>1, <1>2 DEF Conclude, journal, history, CanUndo, CanRedo, InHand
<1>3. CASE done # {}
  <2> DEFINE step == [op |-> x, parts |-> done]
  <2>1. step \in Step
    BY DEF TypeOK, Step, Parts
  <2>2. undo' = PushBounded(undo, step) /\ records' = records + 1 /\ records \in Nat
    BY <1>3 DEF Conclude, TypeOK
  <2> HIDE DEF step
  <2>3. \A i \in DOMAIN undo : Drops(undo, undo[i].op) \/ \E j \in DOMAIN undo' : undo'[j] = undo[i]
    BY <2>1, <2>2, PushBoundedKeeps DEF TypeOK
  <2>4. OnStack(undo, o, p) => OnStack(undo', o, p) \/ Drops(undo, o)
    BY <2>3 DEF OnStack
  <2>5. \A k \in Walks : UndoneByWalk(k, o, p) => UndoneByWalk(k, o, p)'
    BY <1>1 DEF UndoneByWalk, InHand
  <2> QED
    BY <2>2, <2>4, <2>5, CanIs
<1> QED
  BY <1>2, <1>3

LEMMA TakeKeeps ==
    ASSUME TypeOK, NEW k \in Walks, NEW w \in Windows, NEW direction \in Directions, Take(k, w, direction),
           NEW o \in Operations, NEW p \in Parts
    PROVE  /\ CanUndo(o, p) => CanUndo(o, p)'
           /\ CanRedo(o, p) => CanRedo(o, p)'
<1> DEFINE stack == Stack(direction)
           top == stack[Len(stack)]
<1>1. stack \in Seq(Step) /\ Len(stack) <= UndoLimit /\ stack # <<>> /\ ~InHand(k)
  BY DEF Take, Stack, TypeOK
<1>2. /\ WithoutTop(stack) \in Seq(Step) /\ Len(WithoutTop(stack)) = Len(stack) - 1
      /\ \A i \in 1 .. Len(stack) - 1 : WithoutTop(stack)[i] = stack[i]
  BY <1>1, WithoutTopIs
<1>3. \A i \in DOMAIN stack : i = Len(stack) \/ (i \in DOMAIN WithoutTop(stack) /\ WithoutTop(stack)[i] = stack[i])
  BY <1>1, <1>2
<1>4. /\ walk'[k].step = top /\ walk'[k].direction = direction /\ walk'[k].done = {} /\ InHand(k)'
      /\ \A l \in Walks \ {k} : walk'[l] = walk[l]
  BY DEF Take, TypeOK, InHand
<1>5. \A l \in Walks : /\ UndoneByWalk(l, o, p) => UndoneByWalk(l, o, p)'
                       /\ RedoneByWalk(l, o, p) => RedoneByWalk(l, o, p)'
  <2>1. ~UndoneByWalk(k, o, p) /\ ~RedoneByWalk(k, o, p)
    BY <1>1 DEF UndoneByWalk, RedoneByWalk
  <2> QED
    BY <1>4, <2>1, OtherWalks
<1>6. CASE direction = "undo"
  <2>1. undo' = WithoutTop(stack) /\ redo' = redo /\ stack = undo
    BY <1>6 DEF Take, Stack
  <2>2. OnStack(undo, o, p) => OnStack(undo', o, p) \/ UndoneByWalk(k, o, p)'
    BY <1>3, <1>4, <1>6, <2>1 DEF OnStack, UndoneByWalk
  <2> QED
    BY <1>5, <2>1, <2>2, CanIs
<1>7. CASE direction = "redo"
  <2>1. redo' = WithoutTop(stack) /\ undo' = undo /\ stack = redo
    BY <1>7 DEF Take, Stack
  <2>2. OnStack(redo, o, p) => OnStack(redo', o, p) \/ RedoneByWalk(k, o, p)'
    BY <1>3, <1>4, <1>7, <2>1 DEF OnStack, RedoneByWalk
  <2> QED
    BY <1>5, <2>1, <2>2, CanIs
<1> QED
  BY <1>6, <1>7 DEF Directions

LEMMA PutBackKeeps ==
    ASSUME TypeOK, Untouched, NEW k \in Walks, Refuse(k) \/ FailWhole(k), NEW o \in Operations, NEW p \in Parts
    PROVE  /\ CanUndo(o, p) => CanUndo(o, p)' \/ Drops(undo, o)
           /\ CanRedo(o, p) => CanRedo(o, p)' \/ Drops(redo, o)
<1>1. /\ InHand(k) /\ walk[k].state \in {"asking", "reversing"}
      /\ Push(walk[k].direction, walk[k].step) /\ walk' = [walk EXCEPT ![k] = Idle]
  BY DEF Refuse, FailWhole, PutBack, InHand
<1>2. walk[k].done = {} /\ walk[k].direction \in Directions /\ walk[k].step \in Step
  BY <1>1, HeldType DEF Untouched
<1>3. /\ OnStack(undo, o, p) => OnStack(undo', o, p) \/ Drops(undo, o)
      /\ OnStack(redo, o, p) => OnStack(redo', o, p) \/ Drops(redo, o)
      /\ walk[k].step.op = o /\ p \in walk[k].step.parts =>
            IF walk[k].direction = "undo" THEN OnStack(undo', o, p) ELSE OnStack(redo', o, p)
  BY <1>1, <1>2, PushKeeps
<1>4. \A l \in Walks \ {k} : walk'[l] = walk[l]
  BY <1>1 DEF TypeOK
<1>5. /\ UndoneByWalk(k, o, p) => OnStack(undo', o, p)
      /\ RedoneByWalk(k, o, p) => OnStack(redo', o, p)
  BY <1>2, <1>3 DEF UndoneByWalk, RedoneByWalk, Directions
<1> QED
  BY <1>3, <1>4, <1>5, CanIs, OtherWalks

LEMMA ReverseKeeps ==
    ASSUME TypeOK, Untouched, NEW k \in Walks, NEW done \in SUBSET Parts, Reverse(k, done),
           NEW o \in Operations, NEW p \in Parts
    PROVE  /\ CanUndo(o, p) => CanUndo(o, p)' \/ CanRedo(o, p)'
           /\ CanRedo(o, p) => CanRedo(o, p)' \/ CanUndo(o, p)'
<1>1. InHand(k) /\ walk[k].done = {}
  BY DEF Reverse, InHand, Untouched
<1>2. /\ walk'[k].state = "reversed" /\ walk'[k].done = done /\ walk'[k].step = walk[k].step
      /\ walk'[k].direction = walk[k].direction /\ walk[k].direction \in Directions
      /\ \A l \in Walks \ {k} : walk'[l] = walk[l]
  BY <1>1, HeldType DEF Reverse, TypeOK, Walk
<1>3. undo' = undo /\ redo' = redo
  BY DEF Reverse, journal
<1>4. /\ UndoneByWalk(k, o, p) => UndoneByWalk(k, o, p)' \/ RedoneByWalk(k, o, p)'
      /\ RedoneByWalk(k, o, p) => UndoneByWalk(k, o, p)' \/ RedoneByWalk(k, o, p)'
  BY <1>1, <1>2 DEF UndoneByWalk, RedoneByWalk, InHand, Directions
<1> QED
  BY <1>2, <1>3, <1>4, CanIs, OtherWalks

LEMMA FinishKeeps ==
    ASSUME TypeOK, NEW k \in Walks, Finish(k), NEW o \in Operations, NEW p \in Parts
    PROVE  /\ CanUndo(o, p) => CanUndo(o, p)' \/ Drops(undo, o) \/ LeavesAlone(o, p)
           /\ CanRedo(o, p) => CanRedo(o, p)' \/ Drops(redo, o) \/ LeavesAlone(o, p)
<1>1. InHand(k) /\ walk[k].state = "reversed" /\ walk' = [walk EXCEPT ![k] = Idle]
  BY DEF Finish, InHand
<1>2. walk'[k].state = "idle" /\ \A l \in Walks \ {k} : walk'[l] = walk[l]
  BY <1>1 DEF TypeOK, Idle
<1>3. walk[k].step.op = o /\ p \in walk[k].step.parts \ walk[k].done => LeavesAlone(o, p)
  BY <1>1, <1>2 DEF LeavesAlone
<1>4. /\ UndoneByWalk(k, o, p) =>
            LeavesAlone(o, p) \/ (walk[k].direction = "redo" /\ walk[k].step.op = o /\ p \in walk[k].done)
      /\ RedoneByWalk(k, o, p) =>
            LeavesAlone(o, p) \/ (walk[k].direction = "undo" /\ walk[k].step.op = o /\ p \in walk[k].done)
  BY <1>1, <1>3, HeldType DEF UndoneByWalk, RedoneByWalk, Directions
<1>5. CASE walk[k].done = {}
  <2>1. undo' = undo /\ redo' = redo
    BY <1>5 DEF Finish, journal
  <2> QED
    BY <1>2, <1>4, <1>5, <2>1, CanIs, OtherWalks
<1>6. CASE walk[k].done # {}
  <2> DEFINE step == [op |-> walk[k].step.op, parts |-> Reversed(k)]
             direction == Opposite(walk[k].direction)
  <2>1. step \in Step /\ direction \in Directions
    BY <1>1, HeldType DEF Step, Reversed, TypeOK
  <2>2. Push(direction, step)
    BY <1>6 DEF Finish
  <2>3. step.op = walk[k].step.op /\ step.parts = walk[k].done
    BY DEF Reversed
  <2>4. /\ walk[k].direction = "redo" => direction = "undo"
        /\ walk[k].direction = "undo" => direction # "undo"
    BY DEF Opposite
  <2> HIDE DEF step, direction
  <2>5. /\ OnStack(undo, o, p) => OnStack(undo', o, p) \/ Drops(undo, o)
        /\ OnStack(redo, o, p) => OnStack(redo', o, p) \/ Drops(redo, o)
        /\ step.op = o /\ p \in step.parts =>
              IF direction = "undo" THEN OnStack(undo', o, p) ELSE OnStack(redo', o, p)
    BY <2>1, <2>2, PushKeeps
  <2> QED
    BY <1>2, <1>4, <2>3, <2>4, <2>5, CanIs, OtherWalks
<1> QED
  BY <1>5, <1>6

LEMMA KeepsStep == TypeOK /\ Untouched /\ [Next]_vars => [KeptByStep]_vars
<1> SUFFICES ASSUME TypeOK, Untouched, Next, NEW o \in Operations, NEW p \in Parts
             PROVE  /\ CanUndo(o, p) => \/ CanUndo(o, p)' \/ CanRedo(o, p)'
                                        \/ Drops(undo, o) \/ LeavesAlone(o, p)
                    /\ CanRedo(o, p) => \/ CanRedo(o, p)' \/ CanUndo(o, p)'
                                        \/ Drops(redo, o) \/ LeavesAlone(o, p)
                                        \/ records' # records
  BY Zenon DEF KeptByStep
<1> DEFINE Goal == /\ CanUndo(o, p) => \/ CanUndo(o, p)' \/ CanRedo(o, p)'
                                       \/ Drops(undo, o) \/ LeavesAlone(o, p)
                   /\ CanRedo(o, p) => \/ CanRedo(o, p)' \/ CanUndo(o, p)'
                                       \/ Drops(redo, o) \/ LeavesAlone(o, p)
                                       \/ records' # records
<1>1. ASSUME NEW x \in Operations, NEW w \in Windows, Begin(x, w)
      PROVE  Goal
  BY <1>1 DEF Begin, journal, CanUndo, CanRedo, InHand
<1>2. ASSUME NEW x \in Operations, NEW done \in SUBSET Items[x], Conclude(x, done)
      PROVE  Goal
  BY <1>2, ConcludeKeeps
<1>3. ASSUME NEW k \in Walks, NEW w \in Windows, NEW direction \in Directions, Take(k, w, direction)
      PROVE  Goal
  BY <1>3, TakeKeeps
<1>4. ASSUME NEW k \in Walks, Refuse(k) \/ FailWhole(k)
      PROVE  Goal
  BY <1>4, PutBackKeeps
<1>5. ASSUME NEW k \in Walks, Proceed(k)
      PROVE  Goal
  <2>1. /\ InHand(k) /\ walk' = [walk EXCEPT ![k].state = "reversing"] /\ undo' = undo /\ redo' = redo
    BY <1>5 DEF Proceed, InHand, journal
  <2>2. /\ walk'[k].state = "reversing" /\ walk'[k].done = walk[k].done /\ walk'[k].step = walk[k].step
        /\ walk'[k].direction = walk[k].direction /\ \A l \in Walks \ {k} : walk'[l] = walk[l]
    BY <2>1, HeldType DEF TypeOK, Walk
  <2>3. /\ UndoneByWalk(k, o, p) => UndoneByWalk(k, o, p)'
        /\ RedoneByWalk(k, o, p) => RedoneByWalk(k, o, p)'
    BY <2>2 DEF UndoneByWalk, RedoneByWalk, InHand
  <2> QED
    BY <2>1, <2>2, <2>3, CanIs, OtherWalks
<1>6. ASSUME NEW k \in Walks, NEW done \in SUBSET Parts, Reverse(k, done)
      PROVE  Goal
  BY <1>6, ReverseKeeps
<1>7. ASSUME NEW k \in Walks, Finish(k)
      PROVE  Goal
  BY <1>7, FinishKeeps
<1> QED
  BY <1>1, <1>2, <1>3, <1>4, <1>5, <1>6, <1>7 DEF Next, Operate, WalkJournal

\* What can be undone stays so until it is undone, and what can be redone
\* until it is redone or a new operation is recorded, for any limit: only
\* the oldest step of a full journal goes (journal.rs, push_bounded).
THEOREM NothingIsForgotten == Spec => NothingForgotten
<1>1. Init => Untouched
  BY DEF Init, Untouched, Idle
<1> QED
  BY <1>1, InitTypeOK, TypeStep, UntouchedStep, KeepsStep, PTL DEF Spec, NothingForgotten, KeptByStep
=============================================================================
