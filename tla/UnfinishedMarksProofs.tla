----------------------- MODULE UnfinishedMarksProofs -----------------------
(***************************************************************************)
(* What UnfinishedMarks guarantees for any number of processes and runs.   *)
(***************************************************************************)
EXTENDS UnfinishedMarks, TLAPS

RunStates == {"new", "created", "locked", "going", "ended", "dead"}
Run == [is : RunStates, by : Processes \cup {None}]
Mark == [linked : BOOLEAN, text : Folders \cup {None}, lock : Processes \cup Runs \cup {None}]
Looks == [at : {"idle", "start", "next", "opened", "locked", "searched", "show"},
          due : SUBSET Runs, seen : SUBSET Runs, cur : Runs \cup {None}, found : SUBSET Runs]
Shapes ==
    /\ up \subseteq Processes /\ launches \in 0..MaxLaunches
    /\ run \in [Runs -> Run] /\ item \in [Runs -> Folders \cup {None}]
    /\ mark \in [Runs -> Mark] /\ look \in [Processes -> Looks]
    /\ shown \subseteq Runs

\* Only a run that got its lock has written its text.
Texts == \A r \in Runs : mark[r].text # None =>
            mark[r].text = Dest[r] /\ run[r].is \in {"going", "ended", "dead"}

\* A collection that is past the listing has a mark open, and is of a process
\* that runs.
Opened ==
    \A p \in Processes :
        /\ look[p].at \in {"opened", "locked", "searched"} => look[p].cur \in Runs
        /\ look[p].at # "idle" => p \in up

TInv == Shapes /\ Locks /\ Texts /\ Opened

LEMMA TypesAreShapes == TypeOK <=> Shapes /\ Locks
  BY DEF TypeOK, Shapes, Run, RunStates, Mark, Looks

LEMMA Names == /\ None \notin Processes /\ None \notin Runs
               /\ \A p \in Processes, r \in Runs : p # r
               /\ \A r \in Runs : Dest[r] \in Folders /\ Dest[r] # None
               /\ \A r \in Runs : Places(r) \subseteq Folders /\ None \notin Places(r)
  BY MarksAssumption DEF Folders, Places

\* Changing fields keeps the types.
LEMMA RunFields == ASSUME NEW m \in Run, NEW is \in RunStates PROVE [m EXCEPT !.is = is] \in Run
  BY DEF Run
LEMMA MarkLock == ASSUME NEW m \in Mark, NEW lock \in Processes \cup Runs \cup {None}
                  PROVE [m EXCEPT !.lock = lock] \in Mark
  BY DEF Mark
LEMMA MarkText == ASSUME NEW m \in Mark, NEW text \in Folders PROVE [m EXCEPT !.text = text] \in Mark
  BY DEF Mark
LEMMA MarkRemoved == ASSUME NEW m \in Mark PROVE [m EXCEPT !.linked = FALSE, !.lock = None] \in Mark
  BY DEF Mark

-----------------------------------------------------------------------------
\* What the actions do to the types, the locks and the texts

LEMMA InitTInv == Init => TInv
<1> SUFFICES ASSUME Init PROVE TInv
  OBVIOUS
<1>1. Shapes
  BY MarksAssumption DEF Init, Shapes, Run, RunStates, Mark, Looks, NoLook
<1>2. Locks /\ Texts /\ Opened
  BY Names DEF Init, Locks, Marked, Texts, Opened, NoLook, None
<1> QED
  BY <1>1, <1>2 DEF TInv

\* A process that starts.
LEMMA LaunchTInv == ASSUME TInv, NEW p \in Processes, Launch(p) PROVE TInv'
<1>1. Shapes'
  BY MarksAssumption DEF TInv, Launch, Shapes, Looks
<1>2. Locks' /\ Texts' /\ Opened'
  BY DEF TInv, Shapes, Looks, Launch, Locks, Marked, Texts, Opened
<1> QED
  BY <1>1, <1>2 DEF TInv

\* A process that dies gives back its locks, and those of its runs.
LEMMA CrashTInv == ASSUME TInv, NEW p \in Processes, Crash(p) PROVE TInv'
<1> DEFINE Dead == {r \in Runs : Active(r) /\ run[r].by = p}
<1>0. /\ run' = [r \in Runs |-> IF r \in Dead THEN [run[r] EXCEPT !.is = "dead"] ELSE run[r]]
      /\ mark' = [r \in Runs |-> IF mark[r].lock \in Dead \cup {p} THEN [mark[r] EXCEPT !.lock = None] ELSE mark[r]]
      /\ up' = up \ {p} /\ look' = [look EXCEPT ![p] = NoLook]
      /\ UNCHANGED <<launches, item, shown>>
  BY DEF Crash
<1> HIDE DEF Dead
<1>d. \A r \in Dead : r \in Runs /\ Active(r)
  BY DEF Dead
<1>1. Shapes'
  <2>1. NoLook \in Looks
    BY DEF NoLook, Looks
  <2>2. run' \in [Runs -> Run]
    <3>1. \A r \in Runs : run[r] \in Run /\ [run[r] EXCEPT !.is = "dead"] \in Run
      BY RunFields DEF TInv, Shapes, RunStates
    <3> QED
      BY <1>0, <3>1
  <2>3. mark' \in [Runs -> Mark]
    <3>1. \A r \in Runs : mark[r] \in Mark /\ [mark[r] EXCEPT !.lock = None] \in Mark
      BY MarkLock DEF TInv, Shapes
    <3> QED
      BY <1>0, <3>1
  <2> QED
    BY <1>0, <2>1, <2>2, <2>3 DEF TInv, Shapes
<1>2. \A q \in Processes : look'[q].at \in {"locked", "searched"} => mark'[look'[q].cur].lock = q
  BY <1>0, <1>d, Names DEF TInv, Shapes, Looks, Mark, Locks, Opened, NoLook
<1>3. \A r \in Runs : mark'[r].lock = r <=> Marked(r)'
  BY <1>0, <1>d, Names DEF TInv, Shapes, Run, Mark, Locks, Marked, Active
<1>4. Texts'
  BY <1>0, <1>d DEF TInv, Shapes, Run, Mark, Texts, Active
<1>5. Opened'
  BY <1>0 DEF TInv, Shapes, Looks, Opened, NoLook
<1> QED
  BY <1>1, <1>2, <1>3, <1>4, <1>5 DEF TInv, Locks

\* A step of one run leaves the collections and the other runs alone.
LEMMA RunTInv == ASSUME TInv, NEW r \in Runs, RunTransfer(r) PROVE TInv'
<1>0. UNCHANGED <<up, launches, look, shown>>
  BY DEF RunTransfer, CreateMark, LockMark, WriteMark, MarkFails, Stage, Publish, EndRun
<1>1. ASSUME NEW p \in Processes, CreateMark(r, p) PROVE TInv'
  <2>0. PICK is \in {"created", "going"} :
             /\ run' = [run EXCEPT ![r] = [is |-> is, by |-> p]]
             /\ \/ mark' = [mark EXCEPT ![r].linked = TRUE]
                \/ mark' = mark
    BY <1>1 DEF CreateMark
  <2>i. UNCHANGED item /\ run[r].is = "new"
    BY <1>1 DEF CreateMark
  <2>a. run' \in [Runs -> Run]
    <3>1. [is |-> is, by |-> p] \in Run
      BY DEF Run, RunStates
    <3> QED
      BY <2>0, <3>1 DEF TInv, Shapes
  <2>b. mark' \in [Runs -> Mark]
    <3>1. mark[r] \in Mark /\ [mark[r] EXCEPT !.linked = TRUE] \in Mark
      BY DEF TInv, Shapes, Mark
    <3>2. [mark EXCEPT ![r].linked = TRUE] = [mark EXCEPT ![r] = [mark[r] EXCEPT !.linked = TRUE]]
      BY Zenon
    <3> QED
      BY <2>0, <3>1, <3>2 DEF TInv, Shapes
  <2>1. Shapes'
    BY <1>0, <2>i, <2>a, <2>b DEF TInv, Shapes
  <2>l. \A q \in Runs : mark'[q].lock = mark[q].lock /\ mark'[q].text = mark[q].text
    BY <2>0 DEF TInv, Shapes, Mark
  <2>m. mark[r].text = None
    BY <2>i DEF TInv, Texts
  <2>2. Locks'
    BY <1>0, <2>0, <2>i, <2>l, <2>m, Names DEF TInv, Shapes, Run, Looks, Locks, Marked, Opened
  <2>3. Texts' /\ Opened'
    BY <1>1 DEF CreateMark, TInv, Shapes, Run, Mark, Texts, Opened
  <2> QED
    BY <2>1, <2>2, <2>3 DEF TInv
<1>2. CASE LockMark(r)
  <2>a. run[r] \in Run /\ [run[r] EXCEPT !.is = "locked"] \in Run
        /\ mark[r] \in Mark /\ [mark[r] EXCEPT !.lock = r] \in Mark
    BY RunFields, MarkLock DEF TInv, Shapes, RunStates
  <2>1. Shapes'
    BY <1>0, <1>2, <2>a DEF LockMark, TInv, Shapes
  <2>2. Locks'
    BY <1>2, Names DEF LockMark, TInv, Shapes, Run, Mark, Looks, Locks, Marked, Texts, Opened
  <2>3. Texts' /\ Opened'
    BY <1>2 DEF LockMark, TInv, Shapes, Run, Mark, Texts, Opened
  <2> QED
    BY <2>1, <2>2, <2>3 DEF TInv
<1>3. CASE WriteMark(r)
  <2>a. run[r] \in Run /\ [run[r] EXCEPT !.is = "going"] \in Run
        /\ mark[r] \in Mark /\ [mark[r] EXCEPT !.text = Dest[r]] \in Mark
    BY Names, RunFields, MarkText DEF TInv, Shapes, RunStates
  <2>1. Shapes'
    BY <1>0, <1>3, <2>a DEF WriteMark, TInv, Shapes
  <2>2. Locks'
    BY <1>3, Names DEF WriteMark, TInv, Shapes, Run, Mark, Looks, Locks, Marked, Texts, Opened
  <2>3. Texts' /\ Opened'
    BY <1>3 DEF WriteMark, TInv, Shapes, Run, Mark, Texts, Opened
  <2> QED
    BY <2>1, <2>2, <2>3 DEF TInv
<1>4. CASE MarkFails(r)
  <2>a. run[r] \in Run /\ [run[r] EXCEPT !.is = "going"] \in Run
        /\ mark[r] \in Mark /\ mark[r].lock \in Processes \cup Runs \cup {None}
    BY RunFields DEF TInv, Shapes, RunStates, Mark
  <2>b. mark' = [mark EXCEPT ![r] = [mark[r] EXCEPT !.lock = IF mark[r].lock = r THEN None ELSE mark[r].lock]]
    BY <1>4 DEF MarkFails
  <2>c. [mark[r] EXCEPT !.lock = IF mark[r].lock = r THEN None ELSE mark[r].lock] \in Mark
    <3>1. (IF mark[r].lock = r THEN None ELSE mark[r].lock) \in Processes \cup Runs \cup {None}
      BY <2>a
    <3> QED
      BY <2>a, <3>1, MarkLock
  <2>1. Shapes'
    BY <1>0, <1>4, <2>a, <2>b, <2>c DEF MarkFails, TInv, Shapes
  <2>2. Locks'
    BY <1>4, Names DEF MarkFails, TInv, Shapes, Run, Mark, Looks, Locks, Marked, Texts, Opened
  <2>3. Texts' /\ Opened'
    BY <1>4 DEF MarkFails, TInv, Shapes, Run, Mark, Texts, Opened
  <2> QED
    BY <2>1, <2>2, <2>3 DEF TInv
<1>5. CASE Stage(r) \/ Publish(r)
  <2>1. Shapes'
    BY <1>5, Names DEF Stage, Publish, TInv, Shapes
  <2>2. Locks' /\ Texts' /\ Opened'
    BY <1>5 DEF Stage, Publish, TInv, Locks, Marked, Texts, Opened
  <2> QED
    BY <2>1, <2>2 DEF TInv
<1>6. CASE EndRun(r)
  <2>a. run[r] \in Run /\ [run[r] EXCEPT !.is = "ended"] \in Run
        /\ mark[r] \in Mark /\ Unmarked(mark[r], r) \in Mark
    BY RunFields, MarkRemoved DEF TInv, Shapes, RunStates, Unmarked
  <2>b. /\ run' = [run EXCEPT ![r] = [run[r] EXCEPT !.is = "ended"]]
        /\ mark' = [mark EXCEPT ![r] = Unmarked(mark[r], r)]
        /\ item' = item
    BY <1>6 DEF EndRun
  <2>1. Shapes'
    BY <1>0, <2>a, <2>b DEF TInv, Shapes
  <2>2. Locks'
    BY <1>6, Names DEF EndRun, Unmarked, TInv, Shapes, Run, Mark, Looks, Locks, Marked, Texts, Opened
  <2>3. Texts' /\ Opened'
    BY <1>6 DEF EndRun, Unmarked, TInv, Shapes, Run, Mark, Texts, Opened
  <2> QED
    BY <2>1, <2>2, <2>3 DEF TInv
<1> QED
  BY <1>1, <1>2, <1>3, <1>4, <1>5, <1>6 DEF RunTransfer

\* A step of one collection leaves the runs and the other collections alone.
LEMMA LookTInv == ASSUME TInv, NEW p \in Processes, CollectLeftovers(p) PROVE TInv'
<1>0. UNCHANGED <<up, launches, run, item>>
  BY DEF CollectLeftovers, ReadMarks, OpenMark, TryLock, Search, RemoveMark, EndOfMarks, Show
<1>1. ASSUME NEW to \in Looks, look' = [look EXCEPT ![p] = to], UNCHANGED <<mark, shown>>,
             to.at \in {"opened", "locked", "searched"} => to.cur \in Runs,
             to.at \in {"locked", "searched"} => mark[to.cur].lock = p,
             to.at # "idle" => p \in up
      PROVE  TInv'
  <2>1. look' \in [Processes -> Looks] /\ look'[p] = to /\ \A q \in Processes \ {p} : look'[q] = look[q]
    BY <1>1 DEF TInv, Shapes
  <2> QED
    BY <1>0, <1>1, <2>1 DEF TInv, Shapes, Locks, Marked, Texts, Opened
<1>2. CASE ReadMarks(p)
  <2> DEFINE next == [look[p] EXCEPT !.at = "next", !.due = Linked]
             idle == [look[p] EXCEPT !.at = "idle"]
  <2>1. look[p] \in Looks /\ next \in Looks /\ idle \in Looks /\ next.at = "next" /\ idle.at = "idle"
    BY DEF TInv, Shapes, Looks, Linked
  <2>2. look' = [look EXCEPT ![p] = next] \/ look' = [look EXCEPT ![p] = idle]
    BY <1>2 DEF ReadMarks
  <2>3. p \in up /\ UNCHANGED <<mark, shown>>
    BY <1>2 DEF ReadMarks, TInv, Opened
  <2> HIDE DEF next, idle
  <2> QED
    BY <1>1, <2>1, <2>2, <2>3
<1>3. CASE OpenMark(p)
  <2>1. PICK r \in Runs : look' = [look EXCEPT ![p].at = "opened", ![p].cur = r, ![p].seen = @ \cup {r}]
    BY <1>3 DEF OpenMark, Linked
  <2> DEFINE next == [look[p] EXCEPT !.at = "opened", !.cur = r, !.seen = @ \cup {r}]
  <2>2. look[p] \in Looks /\ next \in Looks /\ next.at = "opened" /\ next.cur = r
    BY DEF TInv, Shapes, Looks
  <2>3. look' = [look EXCEPT ![p] = next]
    BY <2>1
  <2>4. p \in up /\ UNCHANGED <<mark, shown>>
    BY <1>3 DEF OpenMark, TInv, Opened
  <2> HIDE DEF next
  <2> QED
    BY <1>1, <2>2, <2>3, <2>4
<1>4. CASE EndOfMarks(p)
  <2> DEFINE next == [look[p] EXCEPT !.at = "show"]
  <2>1. look[p] \in Looks /\ next \in Looks /\ next.at = "show"
    BY DEF TInv, Shapes, Looks
  <2>2. look' = [look EXCEPT ![p] = next]
    BY <1>4 DEF EndOfMarks
  <2>3. p \in up /\ UNCHANGED <<mark, shown>>
    BY <1>4 DEF EndOfMarks, TInv, Opened
  <2> HIDE DEF next
  <2> QED
    BY <1>1, <2>1, <2>2, <2>3
<1>5. CASE Show(p)
  <2>1. NoLook \in Looks /\ NoLook.at = "idle"
    BY DEF NoLook, Looks
  <2>2. look' = [look EXCEPT ![p] = NoLook] /\ UNCHANGED mark
    BY <1>5 DEF Show
  <2>3. look' \in [Processes -> Looks] /\ look'[p] = NoLook /\ \A q \in Processes \ {p} : look'[q] = look[q]
    BY <2>1, <2>2 DEF TInv, Shapes
  <2>4. shown' \subseteq Runs
    BY <1>5 DEF Show, TInv, Shapes, Looks
  <2> QED
    BY <1>0, <2>1, <2>2, <2>3, <2>4 DEF TInv, Shapes, Locks, Marked, Texts, Opened
<1>6. CASE TryLock(p)
  <2> DEFINE r == look[p].cur
             got == [look[p] EXCEPT !.at = "locked"]
             skipped == [look[p] EXCEPT !.at = "next", !.cur = None]
  <2>0. r \in Runs /\ p \in up /\ look[p] \in Looks
    BY <1>6 DEF TryLock, TInv, Opened, Shapes
  <2>1. got \in Looks /\ got.at = "locked" /\ got.cur = r /\ skipped \in Looks /\ skipped.at = "next"
    BY <2>0 DEF Looks
  <2>2. CASE mark[r].lock # None
    <3>1. look' = [look EXCEPT ![p] = skipped] /\ UNCHANGED <<mark, shown>>
      BY <1>6, <2>2 DEF TryLock
    <3> HIDE DEF got, skipped, r
    <3> QED
      BY <1>1, <2>0, <2>1, <3>1
  <2>3. CASE mark[r].lock = None
    <3>1. look' = [look EXCEPT ![p] = got] /\ mark' = [mark EXCEPT ![r] = [mark[r] EXCEPT !.lock = p]]
          /\ UNCHANGED shown
      BY <1>6, <2>3 DEF TryLock
    <3>2. mark[r] \in Mark /\ [mark[r] EXCEPT !.lock = p] \in Mark
      BY <2>0, MarkLock DEF TInv, Shapes
    <3>3. look' \in [Processes -> Looks] /\ look'[p] = got /\ \A q \in Processes \ {p} : look'[q] = look[q]
      BY <2>1, <3>1 DEF TInv, Shapes
    <3>4. /\ mark' \in [Runs -> Mark] /\ mark'[r].lock = p
          /\ \A q \in Runs : mark'[q].text = mark[q].text
          /\ \A q \in Runs \ {r} : mark'[q] = mark[q]
      BY <2>0, <3>1, <3>2 DEF TInv, Shapes, Mark
    <3> HIDE DEF got, skipped, r
    <3>5. Shapes' /\ Texts' /\ Opened'
      BY <1>0, <2>0, <2>1, <3>1, <3>3, <3>4 DEF TInv, Shapes, Texts, Opened
    <3>6. Locks'
      BY <1>0, <2>0, <2>1, <2>3, <3>3, <3>4, Names DEF TInv, Shapes, Locks, Marked, Opened
    <3> QED
      BY <3>5, <3>6 DEF TInv
  <2> QED
    BY <2>2, <2>3
<1>7. CASE Search(p)
  <2>1. PICK items \in SUBSET Runs : look' = [look EXCEPT ![p].at = "searched", ![p].found = @ \cup items]
    BY <1>7 DEF Search, LeftoversIn
  <2> DEFINE next == [look[p] EXCEPT !.at = "searched", !.found = @ \cup items]
  <2>2. look[p] \in Looks /\ next \in Looks /\ next.at = "searched" /\ next.cur = look[p].cur
    BY DEF TInv, Shapes, Looks
  <2>3. look' = [look EXCEPT ![p] = next]
    BY <2>1
  <2>4. p \in up /\ UNCHANGED <<mark, shown>> /\ look[p].cur \in Runs /\ mark[look[p].cur].lock = p
    BY <1>7 DEF Search, TInv, Opened, Locks
  <2> HIDE DEF next
  <2> QED
    BY <1>1, <2>2, <2>3, <2>4
<1>8. CASE RemoveMark(p)
  <2> DEFINE r == look[p].cur
             next == [look[p] EXCEPT !.at = "next", !.cur = None]
  <2>0. r \in Runs /\ mark[r].lock = p /\ p \in up /\ look[p] \in Looks /\ mark[r] \in Mark
    BY <1>8 DEF RemoveMark, TInv, Opened, Locks, Shapes
  <2>1. next \in Looks /\ next.at = "next"
    BY <2>0 DEF Looks
  <2>2. look' = [look EXCEPT ![p] = next] /\ UNCHANGED shown
        /\ mark' = [mark EXCEPT ![r] = [mark[r] EXCEPT !.linked = FALSE, !.lock = None]]
    BY <1>8 DEF RemoveMark
  <2>3. look' \in [Processes -> Looks] /\ look'[p] = next /\ \A q \in Processes \ {p} : look'[q] = look[q]
    BY <2>1, <2>2 DEF TInv, Shapes
  <2>4. /\ mark' \in [Runs -> Mark] /\ mark'[r].lock = None
        /\ \A q \in Runs : mark'[q].text = mark[q].text
        /\ \A q \in Runs \ {r} : mark'[q] = mark[q]
    BY <2>0, <2>2, MarkRemoved DEF TInv, Shapes, Mark
  <2> HIDE DEF next, r
  <2>5. Shapes' /\ Texts' /\ Opened'
    BY <1>0, <2>0, <2>1, <2>2, <2>3, <2>4 DEF TInv, Shapes, Texts, Opened
  <2>6. ASSUME NEW q \in Processes, look'[q].at \in {"locked", "searched"}
        PROVE mark'[look'[q].cur].lock = q
    <3>1. q # p /\ look'[q] = look[q]
      BY <2>1, <2>3, <2>6
    <3>2. look[q].cur \in Runs /\ mark[look[q].cur].lock = q
      BY <2>6, <3>1 DEF TInv, Locks, Opened
    <3> QED
      BY <2>0, <2>4, <3>1, <3>2
  <2>7. ASSUME NEW q \in Runs
        PROVE mark'[q].lock = q <=> Marked(q)'
    <3>1. mark'[q].text = mark[q].text /\ run' = run
      BY <1>0, <2>4
    <3>2. Marked(q)' <=> Marked(q)
      BY <3>1 DEF Marked
    <3>3. mark[q].lock = q <=> Marked(q)
      BY DEF TInv, Locks
    <3>4. CASE q = r
      <4>1. mark[q].lock # q /\ mark'[q].lock # q
        BY <2>0, <2>4, <3>4, Names
      <4> QED
        BY <3>2, <3>3, <4>1
    <3>5. CASE q # r
      BY <2>4, <3>2, <3>3, <3>5
    <3> QED
      BY <3>4, <3>5
  <2>8. Locks'
    BY <2>6, <2>7 DEF Locks
  <2> QED
    BY <2>5, <2>8 DEF TInv
<1> QED
  BY <1>2, <1>3, <1>4, <1>5, <1>6, <1>7, <1>8 DEF CollectLeftovers

LEMMA NextTInv == TInv /\ [Next]_vars => TInv'
<1> SUFFICES ASSUME TInv, [Next]_vars PROVE TInv'
  OBVIOUS
<1>1. CASE Next
  BY <1>1, LaunchTInv, CrashTInv, RunTInv, LookTInv DEF Next
<1>2. CASE UNCHANGED vars
  BY <1>2 DEF vars, TInv, Shapes, Locks, Marked, Texts, Opened
<1> QED
  BY <1>1, <1>2

\* The types, and the locks: a collection and a run never have the same mark.
THEOREM TypeCorrect == Spec => []TypeOK
<1>1. Spec => []TInv
  BY InitTInv, NextTInv, PTL DEF Spec
<1>2. TInv => TypeOK
  BY TypesAreShapes DEF TInv
<1> QED
  BY <1>1, <1>2, PTL

-----------------------------------------------------------------------------
\* A collection names no running copy

Holding(p, r) == look[p].at \in {"opened", "locked", "searched"} /\ look[p].cur = r

\* The mark of a run that ended is gone, and no collection has it open.
EndedUnmarked ==
    \A r \in Runs : run[r].is = "ended" /\ mark[r].text # None =>
        r \notin Linked /\ \A p \in Processes : ~Holding(p, r)

\* A run's own end unlinks its mark: it has the lock, so no collection has, and
\* none has the mark open.
LEMMA EndRunUnmarks ==
    ASSUME TInv, EndedUnmarked, ~EndsOverlap, NEW q \in Runs, EndRun(q)
    PROVE  EndedUnmarked'
<1> SUFFICES ASSUME NEW r \in Runs, run'[r].is = "ended", mark'[r].text # None
             PROVE  ~mark'[r].linked /\ \A p \in Processes : ~Holding(p, r)
  BY DEF EndedUnmarked, Linked, Holding, EndRun
<1>1. CASE r # q
  BY <1>1 DEF EndRun, EndedUnmarked, Linked, TInv, Shapes
<1>2. CASE r = q
  <2>1. mark[r] \in Mark
    BY DEF TInv, Shapes
  <2>2. mark[r].text # None
    BY <1>2, <2>1 DEF EndRun, Unmarked, Mark, TInv, Shapes
  <2>3. Marked(r)
    BY <1>2, <2>2 DEF EndRun, Marked
  <2>4. mark[r].lock = r
    BY <2>3 DEF TInv, Locks
  <2>5. ~mark'[r].linked
    BY <1>2, <2>1, <2>4 DEF EndRun, Unmarked, Mark, TInv, Shapes
  <2>6. \A p \in Processes : ~Holding(p, r)
    BY <1>2, <2>4, Names DEF EndRun, Holding, TInv, Locks
  <2> QED
    BY <2>5, <2>6
<1> QED
  BY <1>1, <1>2

LEMMA RunEndedUnmarked ==
    ASSUME TInv, EndedUnmarked, ~EndsOverlap, NEW q \in Runs, RunTransfer(q)
    PROVE  EndedUnmarked'
<1> USE DEF TInv, Shapes, Run, Mark, EndedUnmarked, Linked, Holding
<1>1. ASSUME NEW p \in Processes, CreateMark(q, p) PROVE EndedUnmarked'
  BY <1>1 DEF CreateMark
<1>2. CASE LockMark(q) \/ WriteMark(q) \/ MarkFails(q)
  BY <1>2 DEF LockMark, WriteMark, MarkFails
<1>3. CASE Stage(q) \/ Publish(q)
  BY <1>3 DEF Stage, Publish
<1>4. CASE EndRun(q)
  BY <1>4, EndRunUnmarks
<1> QED
  BY <1>1, <1>2, <1>3, <1>4 DEF RunTransfer

\* A collection opens only marks in the folder.
LEMMA LookEndedUnmarked ==
    ASSUME TInv, EndedUnmarked, NEW p \in Processes, CollectLeftovers(p)
    PROVE  EndedUnmarked'
<1>a. /\ look \in [Processes -> Looks] /\ mark \in [Runs -> Mark]
      /\ UNCHANGED run
  BY DEF TInv, Shapes, CollectLeftovers, ReadMarks, OpenMark, TryLock, Search, RemoveMark, EndOfMarks, Show
<1>1. \A r \in Runs : mark'[r].text = mark[r].text /\ (mark'[r].linked => mark[r].linked)
  <2>1. CASE ReadMarks(p) \/ OpenMark(p) \/ Search(p) \/ EndOfMarks(p) \/ Show(p)
    BY <2>1 DEF ReadMarks, OpenMark, Search, EndOfMarks, Show
  <2>2. CASE TryLock(p)
    BY <1>a, <2>2 DEF TryLock, Mark
  <2>3. CASE RemoveMark(p)
    BY <1>a, <2>3 DEF RemoveMark, Mark
  <2> QED
    BY <2>1, <2>2, <2>3 DEF CollectLeftovers
<1>2. ASSUME NEW r \in Runs, NEW x \in Processes, Holding(x, r)'
      PROVE  Holding(x, r) \/ r \in Linked
  <2> USE <1>a, <1>2 DEF Holding, Looks
  <2>1. CASE ReadMarks(p) \/ EndOfMarks(p)
    BY <2>1 DEF ReadMarks, EndOfMarks
  <2>2. CASE OpenMark(p)
    BY <2>2 DEF OpenMark
  <2>3. CASE TryLock(p)
    BY <2>3 DEF TryLock
  <2>4. CASE Search(p)
    BY <2>4 DEF Search
  <2>5. CASE RemoveMark(p)
    BY <2>5 DEF RemoveMark
  <2>6. CASE Show(p)
    BY <2>6 DEF Show, NoLook
  <2> QED
    BY <2>1, <2>2, <2>3, <2>4, <2>5, <2>6 DEF CollectLeftovers
<1> QED
  BY <1>a, <1>1, <1>2 DEF EndedUnmarked, Linked

LEMMA NextEndedUnmarked ==
    ASSUME ~EndsOverlap
    PROVE  TInv /\ EndedUnmarked /\ [Next]_vars => EndedUnmarked'
<1> SUFFICES ASSUME TInv, EndedUnmarked, [Next]_vars PROVE EndedUnmarked'
  OBVIOUS
<1>1. ASSUME NEW p \in Processes, Launch(p) PROVE EndedUnmarked'
  BY <1>1 DEF Launch, EndedUnmarked, Linked, Holding, TInv, Shapes, Looks
<1>2. ASSUME NEW p \in Processes, Crash(p) PROVE EndedUnmarked'
  <2>1. \A r \in Runs : /\ run'[r].is = "ended" => run[r].is = "ended"
                        /\ mark'[r].linked = mark[r].linked /\ mark'[r].text = mark[r].text
    BY <1>2 DEF Crash, TInv, Shapes, Run, Mark
  <2>2. \A r \in Runs, x \in Processes : Holding(x, r)' => Holding(x, r)
    BY <1>2 DEF Crash, Holding, NoLook, TInv, Shapes
  <2> QED
    BY <2>1, <2>2 DEF EndedUnmarked, Linked
<1>3. CASE UNCHANGED vars
  BY <1>3 DEF vars, EndedUnmarked, Linked, Holding
<1> QED
  BY <1>1, <1>2, <1>3, RunEndedUnmarked, LookEndedUnmarked DEF Next

\* A collection that has the lock of a mark with a text has it because the run
\* died. So whatever it finds in the folder is there by right.
LEMMA StepShowsByRight ==
    ASSUME TInv, EndedUnmarked, [Next]_vars,
           NEW p \in Processes, NEW r \in Runs, r \in look'[p].found \ look[p].found
    PROVE  ShownByRight(r)
<1>1. Search(p)
  <2>1. ASSUME UNCHANGED look PROVE FALSE
    BY <2>1
  <2>2. ASSUME NEW q \in Processes, NEW to, look' = [look EXCEPT ![q] = to], to.found \subseteq look[q].found
        PROVE  FALSE
    BY <2>2 DEF TInv, Shapes
  <2>3. \A q \in Processes : look[q] \in Looks
    BY DEF TInv, Shapes
  <2>4. ASSUME NEW q \in Processes, Launch(q) PROVE FALSE
    <3>1. look' = [look EXCEPT ![q] = [look[q] EXCEPT !.at = "start"]]
      BY <2>4 DEF Launch
    <3> QED
      BY <2>2, <2>3, <3>1 DEF Looks
  <2>5. ASSUME NEW q \in Processes, Crash(q) PROVE FALSE
    <3>1. look' = [look EXCEPT ![q] = NoLook] /\ NoLook.found = {}
      BY <2>5 DEF Crash, NoLook
    <3> QED
      BY <2>2, <3>1
  <2>6. ASSUME NEW q \in Processes, Show(q) PROVE FALSE
    <3>1. look' = [look EXCEPT ![q] = NoLook] /\ NoLook.found = {}
      BY <2>6 DEF Show, NoLook
    <3> QED
      BY <2>2, <3>1
  <2>7. ASSUME NEW q \in Processes,
               ReadMarks(q) \/ OpenMark(q) \/ TryLock(q) \/ RemoveMark(q) \/ EndOfMarks(q)
        PROVE  FALSE
    <3>1. CASE ReadMarks(q) \/ EndOfMarks(q)
      BY <2>3, <3>1 DEF ReadMarks, EndOfMarks, TInv, Shapes, Looks
    <3>2. CASE OpenMark(q)
      BY <2>3, <3>2 DEF OpenMark, TInv, Shapes, Looks
    <3>3. CASE TryLock(q)
      BY <2>3, <3>3 DEF TryLock, TInv, Shapes, Looks
    <3>4. CASE RemoveMark(q)
      BY <2>3, <3>4 DEF RemoveMark, TInv, Shapes, Looks
    <3> QED
      BY <2>7, <3>1, <3>2, <3>3, <3>4
  <2>8. ASSUME NEW q \in Runs, RunTransfer(q) PROVE FALSE
    BY <2>8, <2>1 DEF RunTransfer, CreateMark, LockMark, WriteMark, MarkFails, Stage, Publish, EndRun
  <2>9. ASSUME NEW q \in Processes, Search(q) PROVE q = p
    BY <2>3, <2>9 DEF Search, TInv, Shapes, Looks
  <2> QED
    BY <2>1, <2>4, <2>5, <2>6, <2>7, <2>8, <2>9 DEF Next, CollectLeftovers, vars
<1> DEFINE q == look[p].cur
<1>2. q \in Runs /\ mark[q].lock = p
  BY <1>1 DEF Search, TInv, Opened, Locks
<1>3. mark[q].text # None /\ item[r] = mark[q].text
  <2>1. look[p] \in Looks
    BY DEF TInv, Shapes
  <2> QED
    BY <1>1, <2>1 DEF Search, LeftoversIn, TInv, Shapes, Looks
<1>4. ~Marked(q)
  BY <1>2, Names DEF TInv, Locks
<1>5. run[q].is \in {"ended", "dead"} /\ mark[q].text = Dest[q]
  BY <1>2, <1>3, <1>4 DEF Marked, TInv, Texts
<1>6. Holding(p, q)
  BY <1>1 DEF Search, Holding
<1>7. run[q].is = "dead"
  BY <1>2, <1>3, <1>5, <1>6 DEF EndedUnmarked
<1> QED
  BY <1>2, <1>3, <1>5, <1>7 DEF ShownByRight

\* As long as no run ends between a collection's opening its mark and trying its
\* lock, what the dialog calls left is of a run that is over, or lies in the folder
\* a run that died wrote to; where nothing died, no running copy is named
\* (collect_leftovers_blocking).
THEOREM NoRunningCopyNamed ==
    ASSUME ~EndsOverlap
    PROVE  Spec => RunningNotShown
<1>1. TInv /\ EndedUnmarked /\ [Next]_vars =>
        [\A p \in Processes, r \in Runs :
            r \in look'[p].found \ look[p].found => ShownByRight(r)]_vars
  BY StepShowsByRight
<1>2. Init => EndedUnmarked
  BY DEF Init, EndedUnmarked
<1>3. TInv /\ EndedUnmarked /\ [Next]_vars => EndedUnmarked'
  BY NextEndedUnmarked
<1> QED
  BY <1>1, <1>2, <1>3, InitTInv, NextTInv, PTL DEF Spec, RunningNotShown

-----------------------------------------------------------------------------
\* No item of a run that died is forgotten

\* A run that has locked its mark, or is about to, finds it in the folder,
\* and no collection has opened it before.
Kept ==
    /\ \A r \in Runs : run[r].is = "new" => r \notin Linked
    /\ \A r \in Runs : run[r].is = "created" \/ Marked(r) => r \in Linked
    /\ \A p \in Processes : look[p].at \in {"opened", "locked", "searched"} =>
            run[look[p].cur].is \notin {"new", "created"}

\* A private item lies where the mark says, and the search has found it.
Found ==
    /\ \A r \in Runs : item[r] # None => item[r] = Dest[r]
    /\ \A p \in Processes : look[p].at = "searched" /\ Left(look[p].cur) => look[p].cur \in look[p].found

NInv == TInv /\ Kept /\ Found /\ LeftoversNamed

Closed ==
    /\ ~MarksOverlap /\ ~DiesBeforeShown /\ Unreachable = {}
    /\ \A r \in Runs : Merged[r] = {}

LEMMA InitNInv == Init => NInv
  BY InitTInv, Names DEF Init, NInv, Kept, Found, LeftoversNamed, Linked, Left, Marked, NoLook

\* Nothing is found or shown by a process that starts.
LEMMA LaunchNInv == ASSUME NInv, NEW p \in Processes, Launch(p) PROVE Kept' /\ Found' /\ LeftoversNamed'
<1>1. /\ UNCHANGED <<run, item, mark, shown>> /\ up' = up \cup {p}
      /\ \A q \in Processes : look'[q].found = look[q].found /\ look'[q].cur = look[q].cur
      /\ \A q \in Processes : look'[q].at = look[q].at \/ look'[q].at = "start"
  BY DEF Launch, NInv, TInv, Shapes, Looks
<1>2. Kept' /\ Found'
  BY <1>1 DEF NInv, Kept, Found, Linked, Left, Marked
<1>3. LeftoversNamed'
  <2>1. \A r \in Runs : Left(r)' => Left(r)
    BY <1>1 DEF Left
  <2> SUFFICES ASSUME NEW r \in Runs, Left(r)
               PROVE  \/ r \in shown
                      \/ \E q \in up' : r \in look'[q].found
                      \/ mark[r].linked /\ mark[r].text = item[r]
    BY <1>1, <2>1 DEF LeftoversNamed, Linked
  <2>2. CASE \E q \in up : r \in look[q].found
    BY <1>1, <2>2 DEF NInv, TInv, Shapes
  <2> QED
    BY <2>2 DEF NInv, LeftoversNamed, Linked
<1> QED
  BY <1>2, <1>3

\* A run that dies was marked, or nothing is promised of it. What the dead
\* process had found is marked still.
LEMMA CrashNInv == ASSUME NInv, Closed, NEW p \in Processes, Crash(p)
                   PROVE  Kept' /\ Found' /\ LeftoversNamed'
<1>1. /\ UNCHANGED <<item, shown>> /\ up' = up \ {p}
      /\ look'[p] = NoLook /\ \A q \in Processes \ {p} : look'[q] = look[q]
      /\ \A r \in Runs : mark'[r].linked = mark[r].linked /\ mark'[r].text = mark[r].text
      /\ \A r \in Runs : run'[r].is = run[r].is \/ (Active(r) /\ run'[r].is = "dead")
      /\ \A r \in look[p].found : Left(r) => r \in Linked
  <2> DEFINE Dead == {r \in Runs : Active(r) /\ run[r].by = p}
  <2>1. /\ run' = [r \in Runs |-> IF r \in Dead THEN [run[r] EXCEPT !.is = "dead"] ELSE run[r]]
        /\ mark' = [r \in Runs |-> IF mark[r].lock \in Dead \cup {p} THEN [mark[r] EXCEPT !.lock = None] ELSE mark[r]]
        /\ up' = up \ {p} /\ look' = [look EXCEPT ![p] = NoLook]
        /\ UNCHANGED <<item, shown>>
    BY DEF Crash
  <2>2. \A r \in Dead : Active(r)
    OBVIOUS
  <2>3. \A r \in look[p].found : Left(r) => r \in Linked
    BY DEF Crash, Closed
  <2> HIDE DEF Dead
  <2>4. \A r \in Runs : mark'[r].linked = mark[r].linked /\ mark'[r].text = mark[r].text
    BY <2>1 DEF NInv, TInv, Shapes, Mark
  <2>5. \A r \in Runs : run'[r].is = run[r].is \/ (Active(r) /\ run'[r].is = "dead")
    <3> TAKE r \in Runs
    <3>1. run[r] \in Run
      BY DEF NInv, TInv, Shapes
    <3>2. CASE r \in Dead
      BY <2>1, <2>2, <3>1, <3>2 DEF Run
    <3>3. CASE r \notin Dead
      <4>1. run'[r] = run[r]
        BY <2>1, <3>3, Zenon
      <4> QED
        BY <4>1
    <3> QED
      BY <3>2, <3>3
  <2>6. look'[p] = NoLook /\ \A q \in Processes \ {p} : look'[q] = look[q]
    BY <2>1 DEF NInv, TInv, Shapes
  <2> QED
    BY <2>1, <2>3, <2>4, <2>5, <2>6
<1>2. Kept'
  <2>1. \A r \in Runs : Marked(r)' => Marked(r)
    BY <1>1 DEF Marked
  <2>2. \A q \in Processes : look'[q].at \in {"opened", "locked", "searched"} =>
            look[q].at \in {"opened", "locked", "searched"} /\ look'[q].cur = look[q].cur /\ look[q].cur \in Runs
    BY <1>1 DEF NoLook, NInv, TInv, Opened
  <2>3. \A r \in Runs : r \in Linked' <=> r \in Linked
    BY <1>1 DEF Linked
  <2> QED
    BY <1>1, <2>1, <2>2, <2>3 DEF NInv, Kept, Active
<1>3. Found'
  <2>1. ASSUME NEW q \in Processes, look'[q].at = "searched", Left(look[q].cur)'
        PROVE  look'[q].cur \in look'[q].found
    <3>1. q # p /\ look'[q] = look[q]
      BY <1>1, <2>1 DEF NoLook
    <3> DEFINE r == look[q].cur
    <3>2. r \in Runs /\ mark[r].lock = q
      BY <2>1, <3>1 DEF NInv, TInv, Opened, Locks
    <3>a. ~Marked(r)
      BY <3>2, Names DEF NInv, TInv, Locks
    <3>b. mark[r].text # None
      BY <1>1, <2>1, <3>1, <3>2 DEF Left
    <3>3. ~Marked(r) /\ mark[r].text # None
      BY <3>a, <3>b
    <3>4. run[r].is = "dead"
      BY <1>1, <2>1, <3>1, <3>2, <3>3 DEF Left, Marked, Active, NInv, TInv, Texts
    <3>5. Left(r)
      BY <1>1, <2>1, <3>1, <3>2, <3>4 DEF Left
    <3>6. look[q].at = "searched"
      BY <2>1, <3>1
    <3> QED
      BY <3>1, <3>5, <3>6 DEF NInv, Found
  <2>2. \A r \in Runs : item'[r] # None => item'[r] = Dest[r]
    BY <1>1 DEF NInv, Found
  <2> QED
    BY <2>1, <2>2 DEF Found
<1>4. LeftoversNamed'
  <2> SUFFICES ASSUME NEW r \in Runs, Left(r)'
               PROVE  \/ r \in shown
                      \/ \E q \in up' : r \in look'[q].found
                      \/ mark[r].linked /\ mark[r].text = item[r]
    BY <1>1 DEF LeftoversNamed, Linked
  <2>1. CASE Left(r)
    BY <1>1, <2>1 DEF NInv, LeftoversNamed, Linked, Found, TInv, Texts, Left, Shapes
  <2>2. CASE ~Left(r)
    <3>1. run[r].is = "going" /\ mark[r].text # None /\ item[r] # None
      BY <1>1, <2>2 DEF Left, Active, NInv, TInv, Texts
    <3>2. mark[r].linked /\ mark[r].text = Dest[r] /\ item[r] = Dest[r]
      BY <3>1 DEF NInv, TInv, Texts, Kept, Marked, Linked, Found
    <3> QED
      BY <3>2
  <2> QED
    BY <2>1, <2>2
<1> QED
  BY <1>2, <1>3, <1>4

\* A run changes nothing that is known of the ones that died.
LEMMA RunNInv == ASSUME NInv, Closed, NEW r \in Runs, RunTransfer(r)
                 PROVE  Kept' /\ Found' /\ LeftoversNamed'
<1>1. /\ UNCHANGED <<up, look, shown>>
      /\ \A q \in Runs \ {r} : run'[q] = run[q] /\ mark'[q] = mark[q] /\ item'[q] = item[q]
      /\ run[r].is \notin {"dead", "ended"} /\ run'[r].is # "dead"
  BY DEF RunTransfer, CreateMark, LockMark, WriteMark, MarkFails, Stage, Publish, EndRun,
         NInv, TInv, Shapes, Run, Mark
<1>2. run'[r].is = "new" => FALSE
  BY DEF RunTransfer, CreateMark, LockMark, WriteMark, MarkFails, Stage, Publish, EndRun,
         NInv, TInv, Shapes, Run, Mark
<1>3. run'[r].is = "created" \/ Marked(r)' => mark'[r].linked
  <2>1. ASSUME NEW p \in Processes, CreateMark(r, p) PROVE run'[r].is = "created" \/ Marked(r)' => mark'[r].linked
    <3>1. mark[r].text = None /\ mark'[r].text = mark[r].text
      BY <2>1 DEF CreateMark, NInv, TInv, Texts, Shapes, Mark
    <3> QED
      BY <2>1, <3>1 DEF CreateMark, Marked, NInv, TInv, Shapes, Run, Mark
  <2>2. CASE LockMark(r)
    BY <2>2 DEF LockMark, Marked, NInv, TInv, Shapes, Mark, Kept, Linked
  <2>3. CASE WriteMark(r)
    BY <2>3 DEF WriteMark, Marked, NInv, TInv, Shapes, Mark, Kept, Linked
  <2>4. CASE MarkFails(r)
    BY <2>4 DEF MarkFails, Marked, NInv, TInv, Shapes, Run, Mark, Kept, Linked, Texts
  <2>5. CASE Stage(r) \/ Publish(r)
    BY <2>5 DEF Stage, Publish, Marked, NInv, Kept, Linked
  <2>6. CASE EndRun(r)
    BY <2>6 DEF EndRun, Marked, NInv, TInv, Shapes, Run
  <2> QED
    BY <2>1, <2>2, <2>3, <2>4, <2>5, <2>6 DEF RunTransfer
<1>4. \A p \in Processes : look[p].at \in {"opened", "locked", "searched"} =>
          run'[look[p].cur].is \notin {"new", "created"}
  <2>1. run'[r].is = "created" => run[r].is = "new"
    BY DEF RunTransfer, CreateMark, LockMark, WriteMark, MarkFails, Stage, Publish, EndRun,
           NInv, TInv, Shapes, Run, Kept
  <2> QED
    BY <1>1, <1>2, <2>1 DEF NInv, Kept, TInv, Opened
<1>5. item'[r] # None => item'[r] = Dest[r]
  BY DEF RunTransfer, CreateMark, LockMark, WriteMark, MarkFails, Stage, Publish, EndRun,
         NInv, TInv, Shapes, Found, Places, Closed
<1>6. \A q \in Runs : Left(q)' => q # r /\ Left(q)
  BY <1>1 DEF Left
<1>7. Kept'
  BY <1>1, <1>2, <1>3, <1>4 DEF NInv, Kept, Linked, Marked
<1>8. Found'
  BY <1>1, <1>5, <1>6 DEF NInv, Found, TInv, Opened
<1>9. LeftoversNamed'
  BY <1>1, <1>6 DEF NInv, LeftoversNamed, Linked
<1> QED
  BY <1>7, <1>8, <1>9

\* A collection removes a mark only once it has the item in hand, and gives
\* up what it has in hand only to the dialog.
LEMMA LookNInv == ASSUME NInv, Closed, NEW p \in Processes, CollectLeftovers(p)
                  PROVE  Kept' /\ Found' /\ LeftoversNamed'
<1>0. UNCHANGED <<up, run, item>> /\ look[p] \in Looks
      /\ \A q \in Processes \ {p} : look'[q] = look[q]
  BY DEF CollectLeftovers, ReadMarks, OpenMark, TryLock, Search, RemoveMark, EndOfMarks, Show,
         NInv, TInv, Shapes
<1>p. p \in up
  BY DEF CollectLeftovers, ReadMarks, OpenMark, TryLock, Search, RemoveMark, EndOfMarks, Show,
         NInv, TInv, Opened
<1>1. ASSUME \A r \in Runs : mark'[r].linked = mark[r].linked /\ mark'[r].text = mark[r].text,
             shown \subseteq shown', look[p].found \subseteq look'[p].found \cup shown',
             look'[p].at \in {"opened", "locked", "searched"} =>
                look'[p].cur \in Runs /\ run[look'[p].cur].is \notin {"new", "created"},
             look'[p].at = "searched" /\ Left(look[p].cur)' => look'[p].cur \in look'[p].found
      PROVE  Kept' /\ Found' /\ LeftoversNamed'
  <2>1. Kept'
    BY <1>0, <1>1 DEF NInv, Kept, Linked, Marked
  <2>2. \A r \in Runs : Left(r)' <=> Left(r)
    BY <1>0, <1>1 DEF Left
  <2>3. Found'
    <3>1. ASSUME NEW q \in Processes, q # p, look'[q].at = "searched", Left(look[q].cur)'
          PROVE  look'[q].cur \in look'[q].found
      <4>1. look'[q] = look[q] /\ look[q].cur \in Runs
        BY <1>0, <3>1 DEF NInv, TInv, Opened
      <4>2. Left(look[q].cur)
        BY <2>2, <3>1, <4>1
      <4> QED
        BY <3>1, <4>1, <4>2 DEF NInv, Found
    <3>2. \A r \in Runs : item'[r] # None => item'[r] = Dest[r]
      BY <1>0 DEF NInv, Found
    <3> QED
      BY <1>1, <3>1, <3>2 DEF Found
  <2>4. LeftoversNamed'
    <3> SUFFICES ASSUME NEW r \in Runs, Left(r)
                 PROVE  \/ r \in shown'
                        \/ \E q \in up : r \in look'[q].found
                        \/ mark[r].linked /\ mark[r].text = item[r]
      BY <1>0, <1>1, <2>2 DEF LeftoversNamed, Linked
    <3>1. CASE \E q \in up : r \in look[q].found
      BY <1>0, <1>p, <1>1, <3>1 DEF NInv, TInv, Shapes
    <3> QED
      BY <1>1, <3>1 DEF NInv, LeftoversNamed, Linked
  <2> QED
    BY <2>1, <2>3, <2>4
<1>2. CASE ReadMarks(p) \/ EndOfMarks(p)
  <2>1. UNCHANGED <<mark, shown>> /\ look'[p].found = look[p].found
        /\ look'[p].at \in {"next", "idle", "show"}
    BY <1>0, <1>2 DEF ReadMarks, EndOfMarks, NInv, TInv, Shapes, Looks
  <2> QED
    BY <1>1, <2>1
<1>3. CASE OpenMark(p)
  <2>1. PICK r \in Linked \ look[p].seen :
            MayOpen(r) /\ look' = [look EXCEPT ![p].at = "opened", ![p].cur = r, ![p].seen = @ \cup {r}]
    BY <1>3 DEF OpenMark
  <2>2. UNCHANGED <<mark, shown>> /\ look'[p].found = look[p].found
        /\ look'[p].at = "opened" /\ look'[p].cur = r
    BY <1>0, <1>3, <2>1 DEF OpenMark, NInv, TInv, Shapes, Looks
  <2>3. r \in Runs /\ run[r].is \notin {"new", "created"}
    BY <2>1 DEF MayOpen, Closed, Linked, NInv, Kept
  <2>4. look'[p].at # "searched" /\ (look'[p].at \in {"opened", "locked", "searched"} => look'[p].cur = r)
    BY <2>2
  <2> QED
    BY <1>1, <2>2, <2>3, <2>4
<1>4. CASE TryLock(p)
  <2>1. UNCHANGED shown /\ look'[p].found = look[p].found
        /\ look'[p].at \in {"next", "locked"}
        /\ (look'[p].at = "locked" => look'[p].cur = look[p].cur)
    BY <1>0, <1>4 DEF TryLock, NInv, TInv, Shapes, Looks
  <2>2. look[p].at = "opened" /\ look[p].cur \in Runs /\ run[look[p].cur].is \notin {"new", "created"}
    BY <1>4 DEF TryLock, NInv, TInv, Opened, Kept
  <2>3. \A r \in Runs : mark'[r].linked = mark[r].linked /\ mark'[r].text = mark[r].text
    BY <1>4, <2>2 DEF TryLock, NInv, TInv, Shapes, Mark
  <2>4. look'[p].at # "searched"
        /\ (look'[p].at \in {"opened", "locked", "searched"} => look'[p].cur = look[p].cur)
    <3>1. CASE look'[p].at = "next"
      BY <3>1
    <3>2. CASE look'[p].at = "locked"
      BY <2>1, <3>2
    <3> QED
      BY <2>1, <3>1, <3>2
  <2> QED
    BY <1>1, <2>1, <2>2, <2>3, <2>4
<1>5. CASE Search(p)
  <2>0. PICK r \in Runs : r = look[p].cur /\ run[r].is \notin {"new", "created"}
    BY <1>5 DEF Search, NInv, TInv, Opened, Kept
  <2> DEFINE items == IF mark[r].text = None THEN {} ELSE LeftoversIn(mark[r].text)
  <2>1. UNCHANGED <<mark, shown>> /\ look'[p].found = look[p].found \cup items
        /\ look'[p].at = "searched" /\ look'[p].cur = r
    BY <1>0, <1>5, <2>0 DEF Search, Closed, NInv, TInv, Shapes, Looks
  <2>3. Left(r)' => r \in items
    BY <1>0, <2>1 DEF Left, LeftoversIn, NInv, TInv, Texts, Found
  <2> HIDE DEF items
  <2>4. Left(look[p].cur)' => look'[p].cur \in look'[p].found
    BY <2>1, <2>3 DEF Left
  <2> QED
    BY <1>1, <2>0, <2>1, <2>4
<1>6. CASE RemoveMark(p)
  <2> DEFINE r == look[p].cur
  <2>1. UNCHANGED shown /\ look'[p].found = look[p].found /\ look'[p].at = "next"
    BY <1>0, <1>6 DEF RemoveMark, NInv, TInv, Shapes, Looks
  <2>2. r \in Runs /\ mark[r].lock = p /\ run[r].is \notin {"new", "created"}
        /\ (Left(r) => r \in look[p].found)
    BY <1>6 DEF RemoveMark, NInv, TInv, Opened, Locks, Kept, Found
  <2>3. ~Marked(r)
    BY <2>2, Names DEF NInv, TInv, Locks
  <2>4. /\ \A q \in Runs : mark'[q].text = mark[q].text
        /\ \A q \in Runs \ {r} : mark'[q].linked = mark[q].linked
        /\ ~mark'[r].linked
    BY <1>6, <2>2 DEF RemoveMark, NInv, TInv, Shapes, Mark
  <2> HIDE DEF r
  <2>5. \A q \in Runs : (Left(q)' <=> Left(q)) /\ (Marked(q)' <=> Marked(q))
    BY <1>0, <2>4 DEF Left, Marked
  <2>6. Kept'
    BY <1>0, <2>1, <2>2, <2>3, <2>4, <2>5 DEF NInv, Kept, Linked
  <2>7. Found'
    BY <1>0, <2>1, <2>5 DEF NInv, Found, TInv, Opened
  <2>8. LeftoversNamed'
    <3> SUFFICES ASSUME NEW q \in Runs, Left(q)
                 PROVE  \/ q \in shown
                        \/ \E o \in up : q \in look'[o].found
                        \/ mark'[q].linked /\ mark'[q].text = item[q]
      BY <1>0, <2>1, <2>5 DEF LeftoversNamed, Linked
    <3>1. CASE q = r
      BY <1>p, <2>1, <2>2, <3>1
    <3>2. CASE \E o \in up : q \in look[o].found
      BY <1>0, <2>1, <3>2 DEF NInv, TInv, Shapes
    <3> QED
      BY <2>4, <3>1, <3>2 DEF NInv, LeftoversNamed, Linked
  <2> QED
    BY <2>6, <2>7, <2>8
<1>7. CASE Show(p)
  <2>1. UNCHANGED mark /\ shown' = shown \cup look[p].found /\ look'[p].at = "idle"
    BY <1>0, <1>7 DEF Show, NoLook, NInv, TInv, Shapes
  <2> QED
    BY <1>1, <2>1
<1> QED
  BY <1>2, <1>3, <1>4, <1>5, <1>6, <1>7 DEF CollectLeftovers

LEMMA NextNInv == ASSUME Closed PROVE NInv /\ [Next]_vars => NInv'
<1> SUFFICES ASSUME NInv, [Next]_vars PROVE NInv'
  OBVIOUS
<1>1. TInv'
  BY NextTInv DEF NInv
<1>2. CASE Next
  <2>1. Kept' /\ Found' /\ LeftoversNamed'
    BY <1>2, LaunchNInv, CrashNInv, RunNInv, LookNInv DEF Next
  <2> QED
    BY <1>1, <2>1 DEF NInv
<1>3. CASE UNCHANGED vars
  BY <1>1, <1>3 DEF vars, NInv, Kept, Found, LeftoversNamed, Linked, Left, Marked
<1> QED
  BY <1>2, <1>3

\* A private item whose run died is named by its mark until a collection has
\* it in hand, and by the collection until the user is shown it. It needs the
\* four windows to be closed: each of them loses an item.
THEOREM NothingLeftIsForgotten ==
    ASSUME Closed PROVE Spec => []LeftoversNamed
<1>1. Spec => []NInv
  BY InitNInv, NextNInv, PTL DEF Spec
<1>2. NInv => LeftoversNamed
  BY DEF NInv
<1> QED
  BY <1>1, <1>2, PTL
=============================================================================
