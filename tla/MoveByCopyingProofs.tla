------------------------- MODULE MoveByCopyingProofs -------------------------
(***************************************************************************)
(* Theorems about MoveByCopying for every tree, every set of answers and   *)
(* any number of repetitions, faults and edits.                            *)
(*                                                                         *)
(* That a removal is authorised rests on the records: a failed attempt may *)
(* discard what it had copied, so no record may be left of anything that   *)
(* can still be copied again.  The first lemmas are about the folders      *)
(* being copied, the next about the records, then each action is shown to  *)
(* keep the invariant.  On it rests a second one, of what a finished move  *)
(* promises: every file is accounted for while the copy goes on, and every *)
(* record stays in the queue until the source no longer has its version;   *)
(* and a third, of what is left out: it is through for good.               *)
(***************************************************************************)
EXTENDS MoveByCopying, SequenceTheorems, TLAPS

-----------------------------------------------------------------------------
(* The invariant                                                           *)

(* The folders being copied: each is an entry of the next one that is not  *)
(* through yet, the last is Top, and all folders above one come after it.  *)

FrameRec == [entry : Folders, seen : Content, todo : SUBSET Entries, mark : Nat]

TodoBelow(fs) == \A i \in DOMAIN fs : \A t \in fs[i].todo : Parent[t] = fs[i].entry
Linked(fs) == \A i \in DOMAIN fs : i < Len(fs) => fs[i].entry \in fs[i + 1].todo
Rooted(fs) == fs # <<>> => fs[Len(fs)].entry = Top
NoneTwice(fs) == \A i, j \in DOMAIN fs : fs[i].entry = fs[j].entry => i = j
AllAbove(fs) == \A i \in DOMAIN fs : \A p \in Above[fs[i].entry] :
                    \E k \in DOMAIN fs : i <= k /\ fs[k].entry = p
Walk(fs) == /\ fs \in Seq(FrameRec) /\ TodoBelow(fs) /\ Linked(fs) /\ Rooted(fs)
            /\ NoneTwice(fs) /\ AllAbove(fs)

(* The records: what still has to be copied is above none of them, and     *)
(* neither is a folder being copied above those that are older than it.    *)

Marked(fs, cp) == \A i \in DOMAIN fs :
    fs[i].mark \in 0 .. Len(cp) /\ \A j \in DOMAIN fs : i < j => fs[j].mark <= fs[i].mark
Open(fs, t) == \E j \in DOMAIN fs : t \in fs[j].todo /\ (j = 1 \/ t # fs[j - 1].entry)
Apart(fs, cp) == \A t \in Entries : Open(fs, t) => \A i \in DOMAIN cp : t \notin Above[cp[i].entry]
Before(fs, cp) == \A j \in DOMAIN fs : \A i \in DOMAIN cp :
    i <= fs[j].mark => fs[j].entry \notin Above[cp[i].entry]
Kept(fs, cp) == Marked(fs, cp) /\ Apart(fs, cp) /\ Before(fs, cp)

(* The contents: a record of a file is true of staging, and one in the     *)
(* queue of what was published, as long as the source has its version.     *)

Newest == MaxEdits - edits + 1
Faithful(cp, st, sr, newest) == \A i \in DOMAIN cp : cp[i].entry \in Files =>
    /\ cp[i].seen \in 1 .. newest
    /\ st[cp[i].entry] = cp[i].seen \/ sr[cp[i].entry] # cp[i].seen
Queued(qu, ld, sr, newest) == \A i \in DOMAIN qu : qu[i].entry \in Files =>
    /\ qu[i].seen \in 1 .. newest
    /\ qu[i].seen \in ld[qu[i].entry] \/ sr[qu[i].entry] # qu[i].seen
Deleting == step = "delete" =>
    queue # <<>> /\ (LateEdits = FALSE \/ edits = MaxEdits => src[Head(queue).entry] = Head(queue).seen)

Versions == src \in [Paths -> 0 .. Newest] /\ edits \in 0 .. MaxEdits
Walking == step \in {"walk", "reading", "failed", "publish"} \/ frames = <<>>
AtEntry ==
    /\ step \in {"reading", "failed"} => frames # <<>> /\ entry \in Head(frames).todo
    /\ step = "reading" => entry \in Files /\ stage[entry] = Part /\ seen \in 1 .. Newest

\* Where parts of files may be in staging.
PartOf(p) == \/ step \in {"settle", "start", "finished"}
             \/ step \in {"reading", "failed"} /\ entry \in Above[p]
Parts == /\ \A p \in Paths : stage[p] = Part => PartOf(p)
         /\ NoPartLands

Inv ==
    /\ TypeOK /\ Versions
    /\ Walk(frames) /\ Walking /\ AtEntry
    /\ Kept(frames, copied)
    /\ Faithful(copied, stage, src, Newest)
    /\ Queued(queue, landed, src, Newest) /\ Deleting
    /\ FalseAbsence = FALSE => Parts

-----------------------------------------------------------------------------
(* The tree                                                                *)

\* Every entry is in a folder, which is a path.
LEMMA ParentIsFolder == ASSUME NEW p \in Entries PROVE Parent[p] \in Folders /\ Parent[p] \in Paths
BY ConstantsAssumption DEF Paths

\* A path is one of those above itself.
LEMMA AboveSelf == ASSUME NEW p \in Paths PROVE p \in Above[p]
BY DEF Above

LEMMA AboveArePaths == ASSUME NEW p \in Paths PROVE Above[p] \subseteq Paths
BY DEF Above

\* With an entry, the folder it is in is above a path.
LEMMA AboveParent ==
    ASSUME NEW p \in Paths, NEW c \in Above[p], c \in Entries
    PROVE  Parent[c] \in Above[p]
<1>1. Parent[c] \in Paths
    BY ParentIsFolder
<1>2. ASSUME NEW set \in SUBSET Paths, p \in set, ClosedUp(set)
      PROVE  Parent[c] \in set
    <2>1. c \in set
        BY <1>2 DEF Above
    <2> QED
        BY <1>2, <2>1 DEF ClosedUp
<1> QED
    BY <1>1, <1>2 DEF Above

\* What is above an entry is the entry or above the folder it is in.
LEMMA AboveStep ==
    ASSUME NEW p \in Entries, NEW c \in Above[p]
    PROVE  c = p \/ c \in Above[Parent[p]]
<1> DEFINE set == {p} \cup Above[Parent[p]]
<1>1. p \in Paths /\ Parent[p] \in Paths
    BY ParentIsFolder DEF Paths
<1>2. set \in SUBSET Paths /\ p \in set
    BY <1>1, AboveArePaths
<1>3. ASSUME NEW q \in set \cap Entries PROVE Parent[q] \in set
    <2>1. CASE q = p
        BY <2>1, <1>1, AboveSelf
    <2>2. CASE q # p
        <3>1. q \in Above[Parent[p]]
            BY <2>2
        <3> QED
            BY <1>1, <1>3, <3>1, AboveParent
    <2> QED
        BY <2>1, <2>2
<1>4. ClosedUp(set)
    BY <1>3 DEF ClosedUp
<1> HIDE DEF set
<1>5. c \in set
    BY <1>1, <1>2, <1>4 DEF Above
<1> QED
    BY <1>5 DEF set

\* Nothing is above Top but Top.
LEMMA AboveTop == ASSUME NEW c \in Above[Top] PROVE c = Top
<1>1. Top \in Paths /\ {Top} \in SUBSET Paths /\ Top \notin Entries
    BY ConstantsAssumption DEF Paths
<1>2. ClosedUp({Top})
    BY <1>1 DEF ClosedUp
<1> QED
    BY <1>1, <1>2 DEF Above

\* A file is above itself only: a path below it would be in it.
LEMMA FileAboveItself ==
    ASSUME NEW p \in Paths, NEW c \in Files, c \in Above[p]
    PROVE  c = p
<1>1. c \in Entries /\ c \notin Folders /\ c # Top
    BY ConstantsAssumption DEF Files
<1>2. CASE p \notin Entries
    BY <1>1, <1>2, AboveTop DEF Paths
<1>3. CASE p \in Entries /\ c # p
    <2> DEFINE set == Above[p] \ {c}
    <2>1. set \in SUBSET Paths /\ p \in set
        BY <1>3, AboveArePaths, AboveSelf
    <2>2. ASSUME NEW q \in set \cap Entries PROVE Parent[q] \in set
        BY <1>1, <2>2, AboveParent, ParentIsFolder
    <2>3. ClosedUp(set)
        BY <2>2 DEF ClosedUp
    <2> HIDE DEF set
    <2>4. c \in set
        BY <2>1, <2>3 DEF Above
    <2> QED
        BY <2>4 DEF set
<1> QED
    BY <1>2, <1>3

-----------------------------------------------------------------------------
(* The folders being copied                                                *)

\* What a walk that is not empty says of its frames.
LEMMA WalkFrames ==
    ASSUME NEW fs, Walk(fs)
    PROVE  /\ Len(fs) \in Nat /\ DOMAIN fs = 1 .. Len(fs)
           /\ \A i \in DOMAIN fs : /\ fs[i] \in FrameRec /\ fs[i].entry \in Folders /\ fs[i].entry \in Paths
                                   /\ fs[i].todo \subseteq Entries /\ fs[i].mark \in Nat /\ fs[i].seen \in Content
           /\ fs # <<>> => 1 \in DOMAIN fs /\ Len(fs) > 0 /\ Head(fs) = fs[1]
<1>1. fs \in Seq(FrameRec)
    BY DEF Walk
<1>2. Len(fs) \in Nat /\ DOMAIN fs = 1 .. Len(fs)
    BY <1>1, LenProperties
<1>3. ASSUME NEW i \in DOMAIN fs
      PROVE  /\ fs[i] \in FrameRec /\ fs[i].entry \in Folders /\ fs[i].entry \in Paths
             /\ fs[i].todo \subseteq Entries /\ fs[i].mark \in Nat /\ fs[i].seen \in Content
    <2>1. fs[i] \in FrameRec
        BY <1>1, <1>2, <1>3, ElementOfSeq
    <2> QED
        BY <2>1, ConstantsAssumption DEF FrameRec
<1>4. ASSUME fs # <<>> PROVE 1 \in DOMAIN fs /\ Len(fs) > 0 /\ Head(fs) = fs[1]
    <2>1. Len(fs) > 0
        BY <1>1, <1>2, <1>4, EmptySeq
    <2> QED
        BY <1>1, <1>2, <2>1
<1> QED
    BY <1>2, <1>3, <1>4

\* An entry that is open in one of the folders is none of the folders.
LEMMA OpenIsNoFrame ==
    ASSUME NEW fs, Walk(fs), NEW t \in Entries, Open(fs, t), NEW k \in DOMAIN fs
    PROVE  fs[k].entry # t
<1> USE WalkFrames
<1>1. PICK j \in DOMAIN fs : t \in fs[j].todo /\ (j = 1 \/ t # fs[j - 1].entry)
    BY DEF Open
<1>2. SUFFICES ASSUME fs[k].entry = t PROVE FALSE
    OBVIOUS
<1>3. Len(fs) \in Nat /\ DOMAIN fs = 1 .. Len(fs)
    OBVIOUS
<1>4. k # Len(fs)
    <2>1. fs # <<>>
        BY <1>3
    <2>2. fs[Len(fs)].entry = Top
        BY <2>1 DEF Walk, Rooted
    <2> QED
        BY <1>2, <2>2, ConstantsAssumption
<1>5. k + 1 \in DOMAIN fs /\ t \in fs[k + 1].todo
    BY <1>2, <1>3, <1>4 DEF Walk, Linked
<1>6. fs[k + 1].entry = fs[j].entry
    BY <1>1, <1>5 DEF Walk, TodoBelow
<1>7. k + 1 = j
    BY <1>1, <1>5, <1>6 DEF Walk, NoneTwice
<1> QED
    BY <1>1, <1>2, <1>3, <1>7

\* It is above none of the folders either.
LEMMA OpenNotAbove ==
    ASSUME NEW fs, Walk(fs), NEW t \in Entries, Open(fs, t), NEW i \in DOMAIN fs
    PROVE  t \notin Above[fs[i].entry]
<1>1. SUFFICES ASSUME t \in Above[fs[i].entry] PROVE FALSE
    OBVIOUS
<1>2. AllAbove(fs)
    BY DEF Walk
<1>3. PICK k \in DOMAIN fs : fs[k].entry = t
    BY <1>1, <1>2 DEF AllAbove
<1>4. fs[k].entry # t
    BY OpenIsNoFrame
<1> QED
    BY <1>3, <1>4

\* What is to be copied in the innermost folder is open.
LEMMA HeadOpen ==
    ASSUME NEW fs, Walk(fs), fs # <<>>, NEW t \in fs[1].todo
    PROVE  t \in Entries /\ Open(fs, t) /\ Parent[t] = fs[1].entry
BY WalkFrames DEF Walk, TodoBelow, Open

\* The walk new is fs with the entry c of the innermost folder through.
IsThrough(new, fs, c) ==
    /\ new \in Seq(FrameRec) /\ new # <<>> /\ Len(new) = Len(fs) /\ DOMAIN new = DOMAIN fs
    /\ \A i \in DOMAIN fs :
         /\ new[i].entry = fs[i].entry /\ new[i].mark = fs[i].mark /\ new[i].seen = fs[i].seen
         /\ new[i].todo = IF i = 1 THEN fs[1].todo \ {c} ELSE fs[i].todo

LEMMA ThroughFrames ==
    ASSUME NEW fs, Walk(fs), fs # <<>>, NEW c
    PROVE  IsThrough(Through(fs, c), fs, c)
<1> DEFINE new == [fs[1] EXCEPT !.todo = fs[1].todo \ {c}]
<1>1. fs[1] \in FrameRec /\ 1 \in DOMAIN fs /\ fs[1].todo \subseteq Entries
    BY WalkFrames
<1>2. /\ new \in FrameRec /\ new.entry = fs[1].entry /\ new.mark = fs[1].mark
      /\ new.seen = fs[1].seen /\ new.todo = fs[1].todo \ {c}
    BY <1>1 DEF FrameRec
<1> HIDE DEF new
<1>3. Through(fs, c) = [fs EXCEPT ![1] = new]
    BY DEF Through, new
<1>4. fs \in Seq(FrameRec) /\ 1 \in 1 .. Len(fs)
    BY <1>1, WalkFrames DEF Walk
<1>5. /\ Through(fs, c) \in Seq(FrameRec) /\ Len(Through(fs, c)) = Len(fs)
      /\ \A i \in 1 .. Len(fs) : Through(fs, c)[i] = IF i = 1 THEN new ELSE fs[i]
    BY <1>2, <1>3, <1>4, ExceptSeq
<1>6. DOMAIN Through(fs, c) = DOMAIN fs
    BY <1>3
<1>7. Through(fs, c) # <<>>
    BY <1>4, <1>5, EmptySeq, WalkFrames
<1> QED
    BY <1>2, <1>4, <1>5, <1>6, <1>7, WalkFrames DEF IsThrough

\* With an entry of the innermost folder through, the walk is one.
LEMMA ThroughWalk ==
    ASSUME NEW fs, Walk(fs), fs # <<>>, NEW c
    PROVE  Walk(Through(fs, c))
<1> DEFINE new == Through(fs, c)
<1>0. IsThrough(new, fs, c)
    BY ThroughFrames
<1> HIDE DEF new
<1>1. /\ new \in Seq(FrameRec) /\ new # <<>> /\ Len(new) = Len(fs) /\ DOMAIN new = DOMAIN fs
      /\ \A i \in DOMAIN fs :
           /\ new[i].entry = fs[i].entry
           /\ new[i].todo = IF i = 1 THEN fs[1].todo \ {c} ELSE fs[i].todo
    BY <1>0 DEF IsThrough
<1>2. Len(fs) \in Nat /\ Len(fs) > 0 /\ DOMAIN fs = 1 .. Len(fs)
    BY WalkFrames
<1>3. TodoBelow(new)
    BY <1>1 DEF Walk, TodoBelow
<1>4. Linked(new)
    <2>1. ASSUME NEW i \in DOMAIN new, i < Len(new) PROVE new[i].entry \in new[i + 1].todo
        <3>1. i + 1 \in DOMAIN fs /\ i \in DOMAIN fs /\ i + 1 # 1 /\ i < Len(fs)
            BY <1>1, <1>2, <2>1
        <3>2. fs[i].entry \in fs[i + 1].todo
            BY <3>1 DEF Walk, Linked
        <3> QED
            BY <1>1, <3>1, <3>2
    <2> QED
        BY <2>1 DEF Linked
<1>5. Rooted(new)
    <2>1. Len(fs) \in DOMAIN fs
        BY <1>2
    <2>2. fs[Len(fs)].entry = Top
        BY DEF Walk, Rooted
    <2> QED
        BY <1>1, <2>1, <2>2 DEF Rooted
<1>6. NoneTwice(new)
    BY <1>1 DEF Walk, NoneTwice
<1>7. AllAbove(new)
    <2>1. ASSUME NEW i \in DOMAIN new, NEW p \in Above[new[i].entry]
          PROVE  \E k \in DOMAIN new : i <= k /\ new[k].entry = p
        <3>1. PICK k \in DOMAIN fs : i <= k /\ fs[k].entry = p
            BY <1>1, <2>1 DEF Walk, AllAbove
        <3> QED
            BY <1>1, <3>1
    <2> QED
        BY <2>1 DEF AllAbove
<1>8. Walk(new)
    BY <1>1, <1>3, <1>4, <1>5, <1>6, <1>7 DEF Walk
<1> QED
    BY <1>8 DEF new

\* The frames after a folder is entered.
LEMMA PushFrames ==
    ASSUME NEW fs, Walk(fs), NEW f \in FrameRec
    PROVE  /\ <<f>> \o fs \in Seq(FrameRec) /\ <<f>> \o fs # <<>> /\ Len(<<f>> \o fs) = Len(fs) + 1
           /\ DOMAIN (<<f>> \o fs) = 1 .. Len(fs) + 1
           /\ (<<f>> \o fs)[1] = f
           /\ \A i \in DOMAIN fs : (<<f>> \o fs)[i + 1] = fs[i]
           /\ \A i \in DOMAIN (<<f>> \o fs) : i # 1 => i - 1 \in DOMAIN fs /\ (<<f>> \o fs)[i] = fs[i - 1]
<1>1. fs \in Seq(FrameRec) /\ <<f>> \in Seq(FrameRec) /\ Len(<<f>>) = 1 /\ <<f>>[1] = f
    BY DEF Walk
<1>2. Len(fs) \in Nat /\ DOMAIN fs = 1 .. Len(fs)
    BY WalkFrames
<1> DEFINE new == <<f>> \o fs
<1>3. /\ new \in Seq(FrameRec) /\ Len(new) = 1 + Len(fs)
      /\ \A i \in 1 .. 1 + Len(fs) : new[i] = IF i <= 1 THEN <<f>>[i] ELSE fs[i - 1]
    BY <1>1, ConcatProperties
<1> HIDE DEF new
<1>4. DOMAIN new = 1 .. Len(fs) + 1
    BY <1>2, <1>3, LenProperties
<1>5. new # <<>>
    BY <1>2, <1>3, EmptySeq
<1>6. new[1] = f
    BY <1>1, <1>2, <1>3
<1>7. ASSUME NEW i \in DOMAIN new, i # 1 PROVE i - 1 \in DOMAIN fs /\ new[i] = fs[i - 1]
    BY <1>2, <1>3, <1>4, <1>7
<1>8. ASSUME NEW i \in DOMAIN fs PROVE new[i + 1] = fs[i]
    <2>1. i + 1 \in 1 .. 1 + Len(fs) /\ ~(i + 1 <= 1) /\ (i + 1) - 1 = i
        BY <1>2, <1>8
    <2> QED
        BY <1>3, <2>1
<1>9. Len(new) = Len(fs) + 1
    BY <1>2, <1>3
<1> QED
    BY <1>3, <1>4, <1>5, <1>6, <1>7, <1>8, <1>9 DEF new

\* Entering a folder of the innermost one.
LEMMA PushWalk ==
    ASSUME NEW fs, Walk(fs), fs # <<>>, NEW f \in FrameRec, f.entry \in fs[1].todo,
           \A t \in f.todo : Parent[t] = f.entry
    PROVE  Walk(<<f>> \o fs)
<1> DEFINE new == <<f>> \o fs
<1>1. /\ new \in Seq(FrameRec) /\ new # <<>> /\ Len(new) = Len(fs) + 1 /\ DOMAIN new = 1 .. Len(fs) + 1
      /\ new[1] = f
      /\ \A i \in DOMAIN fs : new[i + 1] = fs[i]
      /\ \A i \in DOMAIN new : i # 1 => i - 1 \in DOMAIN fs /\ new[i] = fs[i - 1]
    BY PushFrames
<1> HIDE DEF new
<1>2. Len(fs) \in Nat /\ Len(fs) > 0 /\ DOMAIN fs = 1 .. Len(fs) /\ 1 \in DOMAIN fs
    BY WalkFrames
<1>3. f.entry \in Entries /\ Open(fs, f.entry) /\ Parent[f.entry] = fs[1].entry
    BY HeadOpen
<1>4. ASSUME NEW k \in DOMAIN fs PROVE fs[k].entry # f.entry
    BY <1>3, OpenIsNoFrame
<1>5. TodoBelow(new)
    <2>1. ASSUME NEW i \in DOMAIN new, NEW t \in new[i].todo PROVE Parent[t] = new[i].entry
        BY <1>1 DEF Walk, TodoBelow
    <2> QED
        BY <2>1 DEF TodoBelow
<1>6. Linked(new)
    <2>1. ASSUME NEW i \in DOMAIN new, i < Len(new) PROVE new[i].entry \in new[i + 1].todo
        <3>1. CASE i = 1
            <4>1. new[i + 1] = fs[1] /\ new[i] = f
                BY <1>1, <1>2, <3>1
            <4> QED
                BY <4>1
        <3>2. CASE i # 1
            <4>1. i - 1 \in DOMAIN fs /\ new[i] = fs[i - 1]
                BY <1>1, <3>2
            <4>2. i \in DOMAIN fs /\ i - 1 < Len(fs) /\ (i - 1) + 1 = i
                BY <1>1, <1>2, <2>1, <4>1
            <4>3. new[i + 1] = fs[i]
                BY <1>1, <4>2
            <4>4. fs[i - 1].entry \in fs[(i - 1) + 1].todo
                BY <4>1, <4>2 DEF Walk, Linked
            <4> QED
                BY <4>1, <4>2, <4>3, <4>4
        <3> QED
            BY <3>1, <3>2
    <2> QED
        BY <2>1 DEF Linked
<1>7. Rooted(new)
    <2>1. fs[Len(fs)].entry = Top
        BY DEF Walk, Rooted
    <2>2. new[Len(fs) + 1] = fs[Len(fs)]
        BY <1>1, <1>2
    <2> QED
        BY <1>1, <2>1, <2>2 DEF Rooted
<1>8. NoneTwice(new)
    <2>1. ASSUME NEW i \in DOMAIN new, NEW j \in DOMAIN new, new[i].entry = new[j].entry PROVE i = j
        <3>1. CASE i = 1 \/ j = 1
            BY <1>1, <1>4, <2>1, <3>1
        <3>2. CASE i # 1 /\ j # 1
            <4>1. i - 1 \in DOMAIN fs /\ j - 1 \in DOMAIN fs /\ fs[i - 1].entry = fs[j - 1].entry
                BY <1>1, <2>1, <3>2
            <4>2. i - 1 = j - 1
                BY <4>1 DEF Walk, NoneTwice
            <4> QED
                BY <1>1, <1>2, <4>2
        <3> QED
            BY <3>1, <3>2
    <2> QED
        BY <2>1 DEF NoneTwice
<1>9. AllAbove(new)
    <2>1. ASSUME NEW i \in DOMAIN new, NEW p \in Above[new[i].entry]
          PROVE  \E k \in DOMAIN new : i <= k /\ new[k].entry = p
        <3>1. ASSUME NEW h \in DOMAIN fs, p \in Above[fs[h].entry], i <= h + 1
              PROVE  \E k \in DOMAIN new : i <= k /\ new[k].entry = p
            <4>1. PICK k \in DOMAIN fs : h <= k /\ fs[k].entry = p
                BY <3>1 DEF Walk, AllAbove
            <4>2. k + 1 \in DOMAIN new /\ i <= k + 1 /\ new[k + 1] = fs[k]
                BY <1>1, <1>2, <3>1, <4>1
            <4> QED
                BY <4>1, <4>2
        <3>2. CASE i = 1
            <4>1. p = f.entry \/ p \in Above[fs[1].entry]
                BY <1>1, <1>3, <2>1, <3>2, AboveStep
            <4>2. CASE p = f.entry
                BY <1>1, <3>2, <4>2
            <4>3. CASE p \in Above[fs[1].entry]
                BY <1>2, <3>1, <3>2, <4>3
            <4> QED
                BY <4>1, <4>2, <4>3
        <3>3. CASE i # 1
            <4>1. i - 1 \in DOMAIN fs /\ new[i] = fs[i - 1] /\ i <= (i - 1) + 1
                BY <1>1, <3>3
            <4> QED
                BY <2>1, <3>1, <4>1
        <3> QED
            BY <3>2, <3>3
    <2> QED
        BY <2>1 DEF AllAbove
<1>10. Walk(new)
    BY <1>1, <1>5, <1>6, <1>7, <1>8, <1>9 DEF Walk
<1> QED
    BY <1>10 DEF new

\* The frames after a folder is left.
LEMMA TailFrames ==
    ASSUME NEW fs, Walk(fs), fs # <<>>
    PROVE  /\ Tail(fs) \in Seq(FrameRec) /\ Len(Tail(fs)) = Len(fs) - 1
           /\ DOMAIN Tail(fs) = 1 .. Len(fs) - 1
           /\ \A i \in DOMAIN Tail(fs) : i + 1 \in DOMAIN fs /\ Tail(fs)[i] = fs[i + 1]
<1>1. fs \in Seq(FrameRec)
    BY DEF Walk
<1>2. Len(fs) \in Nat /\ Len(fs) > 0 /\ DOMAIN fs = 1 .. Len(fs)
    BY WalkFrames
<1>3. /\ Tail(fs) \in Seq(FrameRec) /\ Len(Tail(fs)) = Len(fs) - 1
      /\ \A i \in 1 .. Len(Tail(fs)) : Tail(fs)[i] = fs[i + 1]
    BY <1>1, HeadTailProperties
<1>4. DOMAIN Tail(fs) = 1 .. Len(fs) - 1
    BY <1>3, LenProperties
<1> QED
    BY <1>2, <1>3, <1>4

\* Without its innermost folder a walk is one.
LEMMA TailWalk ==
    ASSUME NEW fs, Walk(fs), fs # <<>>
    PROVE  Walk(Tail(fs))
<1> DEFINE new == Tail(fs)
<1>1. /\ new \in Seq(FrameRec) /\ Len(new) = Len(fs) - 1 /\ DOMAIN new = 1 .. Len(fs) - 1
      /\ \A i \in DOMAIN new : i + 1 \in DOMAIN fs /\ new[i] = fs[i + 1]
    BY TailFrames
<1> HIDE DEF new
<1>2. Len(fs) \in Nat /\ Len(fs) > 0 /\ DOMAIN fs = 1 .. Len(fs)
    BY WalkFrames
<1>3. TodoBelow(new)
    BY <1>1 DEF Walk, TodoBelow
<1>4. Linked(new)
    <2>1. ASSUME NEW i \in DOMAIN new, i < Len(new) PROVE new[i].entry \in new[i + 1].todo
        <3>1. i + 1 \in DOMAIN new /\ i + 1 \in DOMAIN fs /\ i + 1 < Len(fs)
            BY <1>1, <1>2, <2>1
        <3>2. fs[i + 1].entry \in fs[(i + 1) + 1].todo
            BY <3>1 DEF Walk, Linked
        <3> QED
            BY <1>1, <3>1, <3>2
    <2> QED
        BY <2>1 DEF Linked
<1>5. Rooted(new)
    <2>1. ASSUME new # <<>> PROVE new[Len(new)].entry = Top
        <3>1. Len(new) > 0
            BY <1>1, <1>2, <2>1, EmptySeq
        <3>2. Len(new) \in DOMAIN new /\ Len(new) + 1 = Len(fs)
            BY <1>1, <1>2, <3>1
        <3>3. fs[Len(fs)].entry = Top
            BY DEF Walk, Rooted
        <3> QED
            BY <1>1, <3>2, <3>3
    <2> QED
        BY <2>1 DEF Rooted
<1>6. NoneTwice(new)
    <2>1. ASSUME NEW i \in DOMAIN new, NEW j \in DOMAIN new, new[i].entry = new[j].entry PROVE i = j
        <3>1. i + 1 = j + 1
            BY <1>1, <2>1 DEF Walk, NoneTwice
        <3> QED
            BY <1>1, <1>2, <3>1
    <2> QED
        BY <2>1 DEF NoneTwice
<1>7. AllAbove(new)
    <2>1. ASSUME NEW i \in DOMAIN new, NEW p \in Above[new[i].entry]
          PROVE  \E k \in DOMAIN new : i <= k /\ new[k].entry = p
        <3>1. i + 1 \in DOMAIN fs /\ p \in Above[fs[i + 1].entry]
            BY <1>1, <2>1
        <3>2. PICK k \in DOMAIN fs : i + 1 <= k /\ fs[k].entry = p
            BY <3>1 DEF Walk, AllAbove
        <3>3. k - 1 \in DOMAIN new /\ i <= k - 1 /\ (k - 1) + 1 = k
            BY <1>1, <1>2, <3>2
        <3> QED
            BY <1>1, <3>2, <3>3
    <2> QED
        BY <2>1 DEF AllAbove
<1>8. Walk(new)
    BY <1>1, <1>3, <1>4, <1>5, <1>6, <1>7 DEF Walk
<1> QED
    BY <1>8 DEF new

-----------------------------------------------------------------------------
(* The records                                                             *)

\* The records up to a mark.
LEMMA Truncated ==
    ASSUME NEW cp \in Seq(Record), NEW m \in 0 .. Len(cp)
    PROVE  /\ SubSeq(cp, 1, m) \in Seq(Record) /\ Len(SubSeq(cp, 1, m)) = m
           /\ DOMAIN SubSeq(cp, 1, m) = 1 .. m
           /\ \A i \in DOMAIN SubSeq(cp, 1, m) : i \in DOMAIN cp /\ SubSeq(cp, 1, m)[i] = cp[i]
<1>1. Len(cp) \in Nat /\ DOMAIN cp = 1 .. Len(cp)
    BY LenProperties
<1>2. m \in Nat /\ \A i \in 1 .. m : i \in DOMAIN cp /\ (1 + i) - 1 = i
    BY <1>1
<1>3. 1 \in 1 .. Len(cp) + 1 /\ m \in (1 - 1) .. Len(cp) /\ m - 1 + 1 = m
    BY <1>1
<1>4. /\ SubSeq(cp, 1, m) \in Seq(Record) /\ Len(SubSeq(cp, 1, m)) = m
      /\ \A i \in 1 .. m : SubSeq(cp, 1, m)[i] = cp[i]
    BY <1>1, <1>2, <1>3
<1>5. DOMAIN SubSeq(cp, 1, m) = 1 .. m
    BY <1>4, LenProperties
<1> QED
    BY <1>2, <1>4, <1>5

\* The records after one was added.
LEMMA Recorded ==
    ASSUME NEW cp \in Seq(Record), NEW r \in Record
    PROVE  /\ Append(cp, r) \in Seq(Record) /\ Len(Append(cp, r)) = Len(cp) + 1
           /\ \A i \in DOMAIN Append(cp, r) :
                \/ i \in DOMAIN cp /\ i <= Len(cp) /\ Append(cp, r)[i] = cp[i]
                \/ i = Len(cp) + 1 /\ Append(cp, r)[i] = r
<1>1. Len(cp) \in Nat /\ DOMAIN cp = 1 .. Len(cp)
    BY LenProperties
<1>2. /\ Append(cp, r) \in Seq(Record) /\ Len(Append(cp, r)) = Len(cp) + 1
      /\ \A i \in 1 .. Len(cp) : Append(cp, r)[i] = cp[i]
      /\ Append(cp, r)[Len(cp) + 1] = r
    BY AppendProperties
<1>3. DOMAIN Append(cp, r) = 1 .. Len(cp) + 1
    BY <1>1, <1>2, LenProperties
<1>4. ASSUME NEW i \in DOMAIN Append(cp, r)
      PROVE  \/ i \in DOMAIN cp /\ i <= Len(cp) /\ Append(cp, r)[i] = cp[i]
             \/ i = Len(cp) + 1 /\ Append(cp, r)[i] = r
    <2>1. i \in 1 .. Len(cp) \/ i = Len(cp) + 1
        BY <1>1, <1>3
    <2> QED
        BY <1>1, <1>2, <2>1
<1> QED
    BY <1>2, <1>4

\* Each record of cq is the record of cp at its place.
Prefix(cq, cp) == \A i \in DOMAIN cq : i \in DOMAIN cp /\ cq[i] = cp[i]

\* A file of the innermost folder is recorded, and is through.
LEMMA KeptFile ==
    ASSUME NEW fs, Walk(fs), fs # <<>>, NEW cp \in Seq(Record), Kept(fs, cp),
           NEW r \in Record, r.entry \in fs[1].todo
    PROVE  Kept(Through(fs, r.entry), Append(cp, r))
<1> DEFINE new == Through(fs, r.entry)  more == Append(cp, r)
<1>0. IsThrough(new, fs, r.entry)
    BY ThroughFrames
<1> HIDE DEF new
<1>1. /\ new \in Seq(FrameRec) /\ new # <<>> /\ Len(new) = Len(fs) /\ DOMAIN new = DOMAIN fs
      /\ \A i \in DOMAIN fs :
           /\ new[i].entry = fs[i].entry /\ new[i].mark = fs[i].mark /\ new[i].seen = fs[i].seen
           /\ new[i].todo = IF i = 1 THEN fs[1].todo \ {r.entry} ELSE fs[i].todo
    BY <1>0 DEF IsThrough
<1>2. /\ more \in Seq(Record) /\ Len(more) = Len(cp) + 1
      /\ \A i \in DOMAIN more : \/ i \in DOMAIN cp /\ i <= Len(cp) /\ more[i] = cp[i]
                                \/ i = Len(cp) + 1 /\ more[i] = r
    BY Recorded
<1> HIDE DEF more
<1>3. Len(fs) \in Nat /\ Len(fs) > 0 /\ DOMAIN fs = 1 .. Len(fs) /\ 1 \in DOMAIN fs /\ Len(cp) \in Nat
    BY WalkFrames, LenProperties
<1>4. r.entry \in Entries /\ Open(fs, r.entry) /\ Parent[r.entry] = fs[1].entry
    BY HeadOpen
<1>5. Marked(new, more)
    <2>1. ASSUME NEW i \in DOMAIN new
          PROVE  new[i].mark \in 0 .. Len(more) /\ \A j \in DOMAIN new : i < j => new[j].mark <= new[i].mark
        BY <1>1, <1>2, <1>3 DEF Kept, Marked
    <2> QED
        BY <2>1 DEF Marked
<1>6. Apart(new, more)
    <2>1. ASSUME NEW t \in Entries, Open(new, t), NEW i \in DOMAIN more PROVE t \notin Above[more[i].entry]
        <3>1. PICK j \in DOMAIN new : t \in new[j].todo /\ (j = 1 \/ t # new[j - 1].entry)
            BY <2>1 DEF Open
        <3>2. t \in fs[j].todo /\ (j = 1 \/ t # fs[j - 1].entry) /\ (j = 1 => t # r.entry)
            BY <1>1, <1>3, <3>1
        <3>3. Open(fs, t)
            BY <1>1, <3>2 DEF Open
        <3>4. t # r.entry
            <4>1. CASE j = 1
                BY <3>2, <4>1
            <4>2. CASE j # 1
                <5>1. fs[j].entry # fs[1].entry
                    BY <1>1, <1>3, <4>2 DEF Walk, NoneTwice
                <5>2. Parent[t] = fs[j].entry
                    BY <1>1, <3>2 DEF Walk, TodoBelow
                <5> QED
                    BY <1>4, <5>1, <5>2
            <4> QED
                BY <4>1, <4>2
        <3>5. t \notin Above[fs[1].entry]
            BY <1>3, <3>3, OpenNotAbove
        <3>6. t \notin Above[r.entry]
            BY <1>4, <3>4, <3>5, AboveStep
        <3> QED
            BY <1>2, <3>3, <3>6 DEF Kept, Apart
    <2> QED
        BY <2>1 DEF Apart
<1>7. Before(new, more)
    <2>1. ASSUME NEW j \in DOMAIN new, NEW i \in DOMAIN more, i <= new[j].mark
          PROVE  new[j].entry \notin Above[more[i].entry]
        <3>1. fs[j].mark <= Len(cp) /\ fs[j].mark \in Nat
            BY <1>1, <1>3 DEF Kept, Marked
        <3>2. i \in DOMAIN cp /\ more[i] = cp[i]
            BY <1>1, <1>2, <1>3, <2>1, <3>1
        <3> QED
            BY <1>1, <2>1, <3>2 DEF Kept, Before
    <2> QED
        BY <2>1 DEF Before
<1>8. Kept(new, more)
    BY <1>5, <1>6, <1>7 DEF Kept
<1> QED
    BY <1>8 DEF new, more

\* Without a record the next entry is through.
LEMMA KeptThrough ==
    ASSUME NEW fs, Walk(fs), fs # <<>>, NEW c, NEW cp, Kept(fs, cp)
    PROVE  Kept(Through(fs, c), cp)
<1> DEFINE new == Through(fs, c)
<1>0. IsThrough(new, fs, c)
    BY ThroughFrames
<1> HIDE DEF new
<1>1. /\ new \in Seq(FrameRec) /\ new # <<>> /\ Len(new) = Len(fs) /\ DOMAIN new = DOMAIN fs
      /\ \A i \in DOMAIN fs :
           /\ new[i].entry = fs[i].entry /\ new[i].mark = fs[i].mark /\ new[i].seen = fs[i].seen
           /\ new[i].todo = IF i = 1 THEN fs[1].todo \ {c} ELSE fs[i].todo
    BY <1>0 DEF IsThrough
<1>2. Len(fs) \in Nat /\ Len(fs) > 0 /\ DOMAIN fs = 1 .. Len(fs)
    BY WalkFrames
<1>3. Marked(new, cp)
    BY <1>1 DEF Kept, Marked
<1>4. ASSUME NEW t \in Entries, Open(new, t) PROVE Open(fs, t)
    <2>1. PICK j \in DOMAIN new : t \in new[j].todo /\ (j = 1 \/ t # new[j - 1].entry)
        BY <1>4 DEF Open
    <2>2. t \in fs[j].todo /\ (j = 1 \/ t # fs[j - 1].entry)
        BY <1>1, <1>2, <2>1
    <2> QED
        BY <1>1, <2>2 DEF Open
<1>5. Apart(new, cp)
    BY <1>4 DEF Kept, Apart
<1>6. Before(new, cp)
    BY <1>1 DEF Kept, Before
<1>7. Kept(new, cp)
    BY <1>3, <1>5, <1>6 DEF Kept
<1> QED
    BY <1>7 DEF new

\* A folder of the innermost one is entered.
LEMMA KeptPush ==
    ASSUME NEW fs, Walk(fs), fs # <<>>, NEW cp \in Seq(Record), Kept(fs, cp),
           NEW f \in FrameRec, f.entry \in fs[1].todo, f.mark = Len(cp),
           \A t \in f.todo : Parent[t] = f.entry
    PROVE  Kept(<<f>> \o fs, cp)
<1> DEFINE new == <<f>> \o fs
<1>1. /\ new \in Seq(FrameRec) /\ new # <<>> /\ Len(new) = Len(fs) + 1 /\ DOMAIN new = 1 .. Len(fs) + 1
      /\ new[1] = f
      /\ \A i \in DOMAIN fs : new[i + 1] = fs[i]
      /\ \A i \in DOMAIN new : i # 1 => i - 1 \in DOMAIN fs /\ new[i] = fs[i - 1]
    BY PushFrames
<1> HIDE DEF new
<1>2. Len(fs) \in Nat /\ Len(fs) > 0 /\ DOMAIN fs = 1 .. Len(fs) /\ 1 \in DOMAIN fs /\ Len(cp) \in Nat
    BY WalkFrames, LenProperties
<1>3. f.entry \in Entries /\ Open(fs, f.entry) /\ Parent[f.entry] = fs[1].entry
    BY HeadOpen
<1>4. \A i \in DOMAIN cp : cp[i].entry \in Paths
    <2>1. ASSUME NEW i \in DOMAIN cp PROVE cp[i].entry \in Paths
        <3>1. cp[i] \in Record
            BY ElementOfSeq, LenProperties
        <3> QED
            BY <3>1 DEF Record
    <2> QED
        BY <2>1
<1>5. Marked(new, cp)
    <2>1. ASSUME NEW i \in DOMAIN new PROVE new[i].mark \in 0 .. Len(cp)
        BY <1>1, <1>2 DEF Kept, Marked
    <2>2. ASSUME NEW i \in DOMAIN new, NEW j \in DOMAIN new, i < j PROVE new[j].mark <= new[i].mark
        <3>1. j - 1 \in DOMAIN fs /\ new[j] = fs[j - 1]
            BY <1>1, <2>2
        <3>2. CASE i = 1
            BY <1>1, <1>2, <3>1, <3>2 DEF Kept, Marked
        <3>3. CASE i # 1
            <4>1. i - 1 \in DOMAIN fs /\ new[i] = fs[i - 1] /\ i - 1 < j - 1
                BY <1>1, <1>2, <2>2, <3>3
            <4> QED
                BY <3>1, <4>1 DEF Kept, Marked
        <3> QED
            BY <3>2, <3>3
    <2> QED
        BY <2>1, <2>2 DEF Marked
<1>6. Apart(new, cp)
    <2>1. ASSUME NEW t \in Entries, Open(new, t), NEW i \in DOMAIN cp PROVE t \notin Above[cp[i].entry]
        <3>1. PICK j \in DOMAIN new : t \in new[j].todo /\ (j = 1 \/ t # new[j - 1].entry)
            BY <2>1 DEF Open
        <3>2. CASE j = 1
            <4>1. Parent[t] = f.entry
                BY <1>1, <3>1, <3>2
            <4>2. f.entry \notin Above[cp[i].entry]
                BY <1>3 DEF Kept, Apart
            <4> QED
                BY <1>4, <4>1, <4>2, AboveParent
        <3>3. CASE j # 1
            <4>1. j - 1 \in DOMAIN fs /\ t \in fs[j - 1].todo
                BY <1>1, <3>1, <3>3
            <4>2. j - 1 = 1 \/ t # fs[(j - 1) - 1].entry
                <5>1. CASE j - 1 # 1
                    <6>1. (j - 1) \in DOMAIN new /\ new[j - 1] = fs[(j - 1) - 1]
                        BY <1>1, <1>2, <4>1, <5>1
                    <6> QED
                        BY <3>1, <3>3, <6>1
                <5> QED
                    BY <5>1
            <4>3. Open(fs, t)
                BY <4>1, <4>2 DEF Open
            <4> QED
                BY <4>3 DEF Kept, Apart
        <3> QED
            BY <3>2, <3>3
    <2> QED
        BY <2>1 DEF Apart
<1>7. Before(new, cp)
    <2>1. ASSUME NEW j \in DOMAIN new, NEW i \in DOMAIN cp, i <= new[j].mark
          PROVE  new[j].entry \notin Above[cp[i].entry]
        <3>1. CASE j = 1
            BY <1>1, <1>3, <3>1 DEF Kept, Apart
        <3>2. CASE j # 1
            BY <1>1, <2>1, <3>2 DEF Kept, Before
        <3> QED
            BY <3>1, <3>2
    <2> QED
        BY <2>1 DEF Before
<1>8. Kept(new, cp)
    BY <1>5, <1>6, <1>7 DEF Kept
<1> QED
    BY <1>8 DEF new

\* The innermost folder is recorded and is through in the one it is in.
LEMMA KeptFolder ==
    ASSUME NEW fs, Walk(fs), fs # <<>>, Len(fs) # 1, NEW cp \in Seq(Record), Kept(fs, cp),
           NEW r \in Record, r.entry = fs[1].entry
    PROVE  Walk(Through(Tail(fs), r.entry)) /\ Kept(Through(Tail(fs), r.entry), Append(cp, r))
<1> DEFINE rest == Tail(fs)  new == Through(rest, r.entry)  more == Append(cp, r)
<1>1. /\ Walk(rest) /\ Len(rest) = Len(fs) - 1 /\ DOMAIN rest = 1 .. Len(fs) - 1
      /\ \A i \in DOMAIN rest : i + 1 \in DOMAIN fs /\ rest[i] = fs[i + 1]
    BY TailWalk, TailFrames
<1>2. Len(fs) \in Nat /\ Len(fs) > 1 /\ DOMAIN fs = 1 .. Len(fs) /\ 1 \in DOMAIN fs /\ Len(cp) \in Nat
    <2>1. Len(fs) \in Nat /\ Len(fs) > 0 /\ DOMAIN fs = 1 .. Len(fs) /\ 1 \in DOMAIN fs
        BY WalkFrames
    <2>2. Len(cp) \in Nat
        BY LenProperties
    <2> QED
        BY <2>1, <2>2
<1> HIDE DEF rest
<1>3. rest # <<>>
    BY <1>1, <1>2, EmptySeq
<1>0. IsThrough(new, rest, r.entry) /\ Walk(new)
    BY <1>1, <1>3, ThroughFrames, ThroughWalk
<1> HIDE DEF new
<1>4. /\ Walk(new) /\ DOMAIN new = DOMAIN rest
      /\ \A i \in DOMAIN rest :
           /\ new[i].entry = rest[i].entry /\ new[i].mark = rest[i].mark
           /\ new[i].todo = IF i = 1 THEN rest[1].todo \ {r.entry} ELSE rest[i].todo
    BY <1>0 DEF IsThrough
<1>5. /\ more \in Seq(Record) /\ Len(more) = Len(cp) + 1
      /\ \A i \in DOMAIN more : \/ i \in DOMAIN cp /\ i <= Len(cp) /\ more[i] = cp[i]
                                \/ i = Len(cp) + 1 /\ more[i] = r
    BY Recorded
<1> HIDE DEF more
<1>6. ASSUME NEW i \in DOMAIN new
      PROVE  i + 1 \in DOMAIN fs /\ i \in DOMAIN rest /\ new[i].entry = fs[i + 1].entry /\ new[i].mark = fs[i + 1].mark
    BY <1>1, <1>4
<1>7. Marked(new, more)
    <2>1. ASSUME NEW i \in DOMAIN new, NEW j \in DOMAIN new, i < j PROVE new[j].mark <= new[i].mark
        <3>1. i + 1 < j + 1
            BY <1>1, <1>4, <2>1
        <3> QED
            BY <1>6, <3>1 DEF Kept, Marked
    <2>2. ASSUME NEW i \in DOMAIN new PROVE new[i].mark \in 0 .. Len(more)
        BY <1>2, <1>5, <1>6 DEF Kept, Marked
    <2> QED
        BY <2>1, <2>2 DEF Marked
<1>8. Apart(new, more)
    <2>1. ASSUME NEW t \in Entries, Open(new, t), NEW i \in DOMAIN more PROVE t \notin Above[more[i].entry]
        <3>1. PICK j \in DOMAIN new : t \in new[j].todo /\ (j = 1 \/ t # new[j - 1].entry)
            BY <2>1 DEF Open
        <3>2. j + 1 \in DOMAIN fs /\ t \in fs[j + 1].todo
            BY <1>1, <1>4, <3>1
        <3>3. (j + 1) - 1 \in DOMAIN fs /\ (j + 1) - 1 = j
            BY <1>1, <1>2, <1>4, <3>1
        <3>4. t # fs[j].entry
            <4>1. CASE j = 1
                BY <1>4, <3>1, <4>1
            <4>2. CASE j # 1
                <5>1. j - 1 \in DOMAIN rest /\ (j - 1) + 1 = j
                    BY <1>1, <1>2, <1>4, <4>2
                <5> QED
                    BY <1>1, <1>4, <3>1, <4>2, <5>1
            <4> QED
                BY <4>1, <4>2
        <3>5. Open(fs, t)
            BY <3>2, <3>3, <3>4 DEF Open
        <3>6. t \notin Above[r.entry]
            BY <1>2, <3>5, OpenNotAbove
        <3> QED
            BY <1>5, <3>5, <3>6 DEF Kept, Apart
    <2> QED
        BY <2>1 DEF Apart
<1>9. Before(new, more)
    <2>1. ASSUME NEW j \in DOMAIN new, NEW i \in DOMAIN more, i <= new[j].mark
          PROVE  new[j].entry \notin Above[more[i].entry]
        <3>1. fs[j + 1].mark <= Len(cp) /\ fs[j + 1].mark \in Nat
            BY <1>2, <1>6 DEF Kept, Marked
        <3>2. i \in DOMAIN cp /\ more[i] = cp[i]
            BY <1>2, <1>5, <1>6, <2>1, <3>1
        <3> QED
            BY <1>6, <2>1, <3>2 DEF Kept, Before
    <2> QED
        BY <2>1 DEF Before
<1>10. Walk(new) /\ Kept(new, more)
    BY <1>4, <1>7, <1>8, <1>9 DEF Kept
<1> QED
    BY <1>10 DEF new, more, rest

\* The innermost folder fails: it is to be copied again, and the records made
\* since it was entered are gone.
LEMMA KeptFailed ==
    ASSUME NEW fs, Walk(fs), fs # <<>>, Len(fs) # 1, NEW cp \in Seq(Record), Kept(fs, cp)
    PROVE  /\ Walk(Tail(fs)) /\ Tail(fs) # <<>> /\ fs[1].entry \in Tail(fs)[1].todo
           /\ fs[1].mark \in 0 .. Len(cp)
           /\ Kept(Tail(fs), SubSeq(cp, 1, fs[1].mark))
<1> DEFINE rest == Tail(fs)  less == SubSeq(cp, 1, fs[1].mark)
<1>1. /\ Walk(rest) /\ Len(rest) = Len(fs) - 1 /\ DOMAIN rest = 1 .. Len(fs) - 1
      /\ \A i \in DOMAIN rest : i + 1 \in DOMAIN fs /\ rest[i] = fs[i + 1]
    BY TailWalk, TailFrames
<1>2. Len(fs) \in Nat /\ Len(fs) > 1 /\ DOMAIN fs = 1 .. Len(fs) /\ 1 \in DOMAIN fs /\ Len(cp) \in Nat
    <2>1. Len(fs) \in Nat /\ Len(fs) > 0 /\ DOMAIN fs = 1 .. Len(fs) /\ 1 \in DOMAIN fs
        BY WalkFrames
    <2>2. Len(cp) \in Nat
        BY LenProperties
    <2> QED
        BY <2>1, <2>2
<1>3. fs[1].mark \in 0 .. Len(cp)
    BY <1>2 DEF Kept, Marked
<1>4. /\ Len(less) = fs[1].mark /\ DOMAIN less = 1 .. fs[1].mark
      /\ \A i \in DOMAIN less : i \in DOMAIN cp /\ less[i] = cp[i]
    BY <1>3, Truncated
<1> HIDE DEF rest, less
<1>5. rest # <<>> /\ 1 \in DOMAIN rest
    BY <1>1, <1>2, EmptySeq
<1>6. fs[1].entry \in rest[1].todo
    <2>1. fs[1].entry \in fs[1 + 1].todo
        BY <1>2 DEF Walk, Linked
    <2> QED
        BY <1>1, <1>5, <2>1
<1>7. Marked(rest, less)
    <2>1. ASSUME NEW i \in DOMAIN rest, NEW j \in DOMAIN rest, i < j PROVE rest[j].mark <= rest[i].mark
        <3>1. i + 1 < j + 1
            BY <1>1, <2>1
        <3> QED
            BY <1>1, <3>1 DEF Kept, Marked
    <2>2. ASSUME NEW i \in DOMAIN rest PROVE rest[i].mark \in 0 .. Len(less)
        <3>1. 1 < i + 1 /\ fs[i + 1].mark \in 0 .. Len(cp)
            BY <1>1, <1>2 DEF Kept, Marked
        <3>2. fs[i + 1].mark <= fs[1].mark
            BY <1>1, <1>2, <3>1 DEF Kept, Marked
        <3> QED
            BY <1>1, <1>3, <1>4, <3>1, <3>2
    <2> QED
        BY <2>1, <2>2 DEF Marked
<1>8. Apart(rest, less)
    <2>1. ASSUME NEW t \in Entries, Open(rest, t), NEW i \in DOMAIN less PROVE t \notin Above[less[i].entry]
        <3>1. CASE t = fs[1].entry
            <4>1. i <= fs[1].mark /\ i \in DOMAIN cp /\ less[i] = cp[i]
                BY <1>3, <1>4
            <4> QED
                BY <1>2, <3>1, <4>1 DEF Kept, Before
        <3>2. CASE t # fs[1].entry
            <4>1. PICK j \in DOMAIN rest : t \in rest[j].todo /\ (j = 1 \/ t # rest[j - 1].entry)
                BY <2>1 DEF Open
            <4>2. j + 1 \in DOMAIN fs /\ t \in fs[j + 1].todo /\ (j + 1) - 1 = j
                BY <1>1, <4>1
            <4>3. t # fs[j].entry
                <5>1. CASE j = 1
                    BY <3>2, <5>1
                <5>2. CASE j # 1
                    <6>1. j - 1 \in DOMAIN rest /\ (j - 1) + 1 = j
                        BY <1>1, <1>2, <5>2
                    <6> QED
                        BY <1>1, <4>1, <5>2, <6>1
                <5> QED
                    BY <5>1, <5>2
            <4>4. Open(fs, t)
                BY <4>2, <4>3 DEF Open
            <4> QED
                BY <1>4, <4>4 DEF Kept, Apart
        <3> QED
            BY <3>1, <3>2
    <2> QED
        BY <2>1 DEF Apart
<1>9. Before(rest, less)
    <2>1. ASSUME NEW j \in DOMAIN rest, NEW i \in DOMAIN less, i <= rest[j].mark
          PROVE  rest[j].entry \notin Above[less[i].entry]
        BY <1>1, <1>4, <2>1 DEF Kept, Before
    <2> QED
        BY <2>1 DEF Before
<1>10. Walk(rest) /\ rest # <<>> /\ fs[1].entry \in rest[1].todo /\ Kept(rest, less)
    BY <1>1, <1>5, <1>6, <1>7, <1>8, <1>9 DEF Kept
<1> QED
    BY <1>3, <1>10 DEF rest, less

-----------------------------------------------------------------------------
(* The contents                                                            *)

LEMMA FilesArePaths == ASSUME NEW p \in Files PROVE p \in Entries /\ p \in Paths /\ p \notin Folders
BY DEF Files, Paths

\* The versions are contents.
LEMMA VersionsAreContent ==
    ASSUME Versions
    PROVE  /\ Newest \in 1 .. MaxEdits + 1
           /\ \A k \in 0 .. Newest : k \in Content /\ k # Part
           /\ Part \in Content /\ 1 \in Content /\ 0 \in Content
BY ConstantsAssumption DEF Versions, Newest, Content, Part

\* What is open has no record, and nothing below it has.
LEMMA OpenUnrecorded ==
    ASSUME NEW fs, NEW cp \in Seq(Record), Kept(fs, cp), NEW c \in Entries, Open(fs, c), NEW i \in DOMAIN cp
    PROVE  cp[i] \in Record /\ cp[i].entry \in Paths /\ c \notin Above[cp[i].entry] /\ cp[i].entry # c
<1>1. cp[i] \in Record
    BY ElementOfSeq, LenProperties
<1>2. cp[i].entry \in Paths
    BY <1>1 DEF Record
<1>3. c \notin Above[cp[i].entry]
    BY DEF Kept, Apart
<1> QED
    BY <1>1, <1>2, <1>3, AboveSelf

\* Records that are dropped cannot be wrong.
LEMMA FaithfulPrefix ==
    ASSUME NEW cp, NEW cq, Prefix(cq, cp), NEW st, NEW sr, NEW n, Faithful(cp, st, sr, n)
    PROVE  Faithful(cq, st, sr, n)
BY DEF Prefix, Faithful

\* What happens in staging to unrecorded files is nothing to the records.
LEMMA FaithfulStaging ==
    ASSUME NEW cp, NEW st, NEW su, NEW sr, NEW n, Faithful(cp, st, sr, n),
           \A i \in DOMAIN cp : cp[i].entry \in Files => su[cp[i].entry] = st[cp[i].entry]
    PROVE  Faithful(cp, su, sr, n)
BY DEF Faithful

\* An empty walk and an empty list of records keep everything.
LEMMA NothingKept ==
    ASSUME NEW cp
    PROVE  Walk(<<>>) /\ Kept(<<>>, cp) /\ (\A st, sr, n : Faithful(<<>>, st, sr, n) /\ Queued(<<>>, st, sr, n))
<1>1. <<>> \in Seq(FrameRec) /\ DOMAIN <<>> = {}
    BY EmptySeq
<1>2. Walk(<<>>)
    BY <1>1 DEF Walk, TodoBelow, Linked, Rooted, NoneTwice, AllAbove
<1>3. Kept(<<>>, cp)
    BY <1>1 DEF Kept, Marked, Apart, Open, Before
<1> QED
    BY <1>1, <1>2, <1>3 DEF Faithful, Queued

\* What there is to copy in a folder.
LEMMA ChildrenBelow ==
    ASSUME NEW folder PROVE Children(folder) \subseteq Entries /\ \A t \in Children(folder) : Parent[t] = folder
BY DEF Children

\* The frame of a folder.
LEMMA FrameIsFrame ==
    ASSUME NEW folder \in Folders, NEW version \in Content, NEW m \in Nat
    PROVE  /\ Frame(folder, version, m) \in FrameRec
           /\ Frame(folder, version, m).entry = folder /\ Frame(folder, version, m).mark = m
           /\ \A t \in Frame(folder, version, m).todo : Parent[t] = folder
BY ChildrenBelow DEF Frame, FrameRec

\* A walk begins with Top.
LEMMA FirstWalk ==
    ASSUME NEW f \in FrameRec, f.entry = Top, f.mark = 0, \A t \in f.todo : Parent[t] = Top
    PROVE  Walk(<<f>>) /\ Kept(<<f>>, <<>>) /\ <<f>> # <<>>
<1> DEFINE fs == <<f>>
<1>1. fs \in Seq(FrameRec) /\ Len(fs) = 1 /\ fs[1] = f /\ DOMAIN fs = {1} /\ fs # <<>>
    OBVIOUS
<1>2. DOMAIN <<>> = {} /\ Len(<<>>) = 0
    OBVIOUS
<1> HIDE DEF fs
<1>3. TodoBelow(fs)
    BY <1>1 DEF TodoBelow
<1>4. Linked(fs) /\ Rooted(fs) /\ NoneTwice(fs)
    BY <1>1 DEF Linked, Rooted, NoneTwice
<1>5. AllAbove(fs)
    <2>1. ASSUME NEW i \in DOMAIN fs, NEW p \in Above[fs[i].entry]
          PROVE  \E k \in DOMAIN fs : i <= k /\ fs[k].entry = p
        BY <1>1, <2>1, AboveTop
    <2> QED
        BY <2>1 DEF AllAbove
<1>6. Kept(fs, <<>>)
    BY <1>1, <1>2 DEF Kept, Marked, Apart, Before
<1>7. Walk(fs) /\ Kept(fs, <<>>) /\ fs # <<>>
    BY <1>1, <1>3, <1>4, <1>5, <1>6 DEF Walk
<1> QED
    BY <1>7 DEF fs

\* What the type invariant says of the frames.
LEMMA FrameTypes ==
    ASSUME NEW fs, NEW cp, Walk(fs), Kept(fs, cp)
    PROVE  \A i \in DOMAIN fs : fs[i].entry \in Folders /\ fs[i].mark \in 0 .. Len(cp)
BY WalkFrames DEF Kept, Marked

-----------------------------------------------------------------------------
(* The steps                                                               *)

\* A step that leaves the source and what was published alone.
LEMMA SourceKept ==
    ASSUME Inv, UNCHANGED <<src, edits, landed, queue>>
    PROVE  /\ Versions' /\ Newest' = Newest /\ src' = src /\ edits' = edits
           /\ Queued(queue', landed', src', Newest')
           /\ FalseAbsence = FALSE => NoPartLands'
BY DEF Inv, Versions, Newest, Parts, NoPartLands

\* Nothing is copied when the move starts.
LEMMA InitInv == ASSUME Init PROVE Inv
<1> USE ConstantsAssumption DEF Init
<1>1. Versions /\ Newest = 1
    BY DEF Versions, Newest
<1>2. src \in [Paths -> Content] /\ stage \in [Paths -> Content] /\ \A p \in Paths : stage[p] = 0
    BY <1>1, VersionsAreContent DEF Empty
<1>3. landed \in [Paths -> SUBSET Content] /\ \A p \in Paths : landed[p] = {}
    OBVIOUS
<1>4. frames = <<>> /\ copied = <<>> /\ queue = <<>> /\ copied \in Seq(Record) /\ queue \in Seq(Record)
    BY EmptySeq
<1>5. Walk(frames) /\ Kept(frames, copied) /\ Faithful(copied, stage, src, Newest) /\ Queued(queue, landed, src, Newest)
    BY <1>4, NothingKept
<1>6. TypeOK
    <2>1. \A i \in DOMAIN frames : frames[i].entry \in Folders /\ frames[i].mark \in 0 .. Len(copied)
        BY <1>5, FrameTypes
    <2>2. failures \in [leftOut : SUBSET Entries, skipAll : BOOLEAN, elevation : BOOLEAN]
        OBVIOUS
    <2>3. report \in [done : BOOLEAN, recovery : BOOLEAN, leftOut : SUBSET Entries]
        OBVIOUS
    <2>4. step \in Step /\ error \in Error /\ entry \in Entries \cup {None} /\ unstored \in BOOLEAN /\ cancelled \in BOOLEAN
        BY DEF Step, Error
    <2>5. seen \in Content /\ repeats \in 0 .. MaxRepeats /\ faults \in 0 .. MaxFaults /\ edits \in 0 .. MaxEdits
        BY <1>1, VersionsAreContent
    <2> QED
        BY <1>2, <1>3, <1>4, <2>1, <2>2, <2>3, <2>4, <2>5 DEF TypeOK
<1>7. Walking /\ AtEntry /\ Deleting
    BY <1>4 DEF Walking, AtEntry, Deleting
<1>8. Parts
    BY <1>2, <1>3 DEF Parts, PartOf, NoPartLands, Part
<1> QED
    BY <1>1, <1>5, <1>6, <1>7, <1>8 DEF Inv

LEMMA StartAttemptInv == ASSUME Inv, StartAttempt PROVE Inv'
<1> DEFINE first == Frame(Top, 1, 0)
<1>1. UNCHANGED <<src, edits, landed, queue, report, cancelled, repeats>> /\ step = "start"
    BY DEF StartAttempt, sourceVars, endVars, userVars
<1>2. Versions' /\ Newest' = Newest /\ Queued(queue', landed', src', Newest') /\ (FalseAbsence = FALSE => NoPartLands')
    BY <1>1, SourceKept
<1>3. copied' = <<>> /\ copied' \in Seq(Record) /\ entry' = None /\ seen' = 0
    BY EmptySeq DEF StartAttempt
<1>4. Faithful(copied', stage', src', Newest')
    BY <1>3, NothingKept
<1>5. failures' \in [leftOut : SUBSET Entries, skipAll : BOOLEAN, elevation : BOOLEAN] /\ unstored' \in BOOLEAN
    BY DEF StartAttempt, FreshFailures, Inv, TypeOK
<1>6. CASE step' = "settle" /\ error' \in {"cancelled", "denied"} /\ UNCHANGED <<stage, frames>>
                /\ faults' \in {faults, faults - 1} /\ (faults' # faults => faults > 0)
    <2>1. frames' = <<>>
        BY <1>1, <1>6 DEF Inv, Walking
    <2>2. Walk(frames') /\ Kept(frames', copied')
        BY <2>1, NothingKept
    <2>3. Walking' /\ AtEntry' /\ Deleting'
        BY <1>6, <2>1 DEF Walking, AtEntry, Deleting
    <2>4. TypeOK'
        <3>1. \A i \in DOMAIN frames' : frames'[i].entry \in Folders /\ frames'[i].mark \in 0 .. Len(copied')
            BY <2>2, FrameTypes
        <3>2. faults' \in 0 .. MaxFaults /\ seen' \in Content
            BY <1>3, <1>6, VersionsAreContent, ConstantsAssumption DEF Inv, TypeOK
        <3>3. step' \in Step /\ error' \in Error
            BY <1>6 DEF Step, Error
        <3> QED
            BY <1>1, <1>3, <1>5, <1>6, <3>1, <3>2, <3>3 DEF Inv, TypeOK
    <2>5. FalseAbsence = FALSE => Parts'
        BY <1>2, <1>6 DEF Parts, PartOf
    <2> QED
        BY <1>2, <1>4, <2>2, <2>3, <2>4, <2>5 DEF Inv
<1>7. CASE /\ step' = "walk" /\ error' = "none" /\ stage' = [Empty EXCEPT ![Top] = 1]
           /\ frames' = <<first>> /\ UNCHANGED faults
    <2>1. Top \in Folders /\ 1 \in Content /\ 0 \in Content /\ Part \in Content /\ Top \in Paths
        BY ConstantsAssumption, VersionsAreContent DEF Inv, Paths
    <2>2. first \in FrameRec /\ first.entry = Top /\ first.mark = 0 /\ \A t \in first.todo : Parent[t] = Top
        BY <2>1, FrameIsFrame
    <2> HIDE DEF first
    <2>3. Walk(frames') /\ Kept(frames', copied')
        BY <1>3, <1>7, <2>2, FirstWalk
    <2>4. Walking' /\ AtEntry' /\ Deleting'
        BY <1>7 DEF Walking, AtEntry, Deleting
    <2>5. stage' \in [Paths -> Content] /\ \A p \in Paths : stage'[p] # Part
        BY <1>7, <2>1 DEF Empty, Part
    <2>6. TypeOK'
        <3>1. \A i \in DOMAIN frames' : frames'[i].entry \in Folders /\ frames'[i].mark \in 0 .. Len(copied')
            BY <2>3, FrameTypes
        <3>2. step' \in Step /\ error' \in Error
            BY <1>7 DEF Step, Error
        <3> QED
            BY <1>1, <1>3, <1>5, <1>7, <2>1, <2>5, <3>1, <3>2 DEF Inv, TypeOK
    <2>7. FalseAbsence = FALSE => Parts'
        BY <1>2, <2>5 DEF Parts
    <2> QED
        BY <1>2, <1>4, <2>3, <2>4, <2>6, <2>7 DEF Inv
<1> QED
    BY <1>6, <1>7 DEF StartAttempt, Fault

\* An entry of the innermost folder fails, before anything below it is recorded.
LEMMA EntryFailsHere ==
    ASSUME Inv, frames # <<>>, NEW c \in Head(frames).todo, NEW reason \in Error,
           EntryFails(c, reason, Len(copied)), UNCHANGED frames
    PROVE  copied' = copied
<1>1. copied \in Seq(Record)
    BY DEF Inv, TypeOK
<1> QED
    BY <1>1, SubSeqFull DEF EntryFails

LEMMA CopyEntryInv == ASSUME Inv, NEW c \in Entries, CopyEntry(c) PROVE Inv'
<1>1. /\ UNCHANGED <<src, edits, landed, queue, report, cancelled, repeats, failures>> /\ step = "walk"
      /\ frames # <<>> /\ c \in Head(frames).todo /\ seen' = src[c]
    BY DEF CopyEntry, sourceVars, endVars, userVars
<1>2. /\ Versions' /\ Newest' = Newest /\ Queued(queue', landed', src', Newest')
      /\ (FalseAbsence = FALSE => NoPartLands') /\ src' = src
    BY <1>1, SourceKept
<1>3. Walk(frames) /\ Kept(frames, copied) /\ copied \in Seq(Record) /\ Faithful(copied, stage, src, Newest) /\ Versions
    BY DEF Inv, TypeOK
<1>4. c \in frames[1].todo /\ Head(frames) = frames[1] /\ Open(frames, c) /\ c \in Paths
    BY <1>1, <1>3, WalkFrames, HeadOpen DEF Paths
<1>5. src[c] \in 0 .. Newest /\ src[c] \in Content
    BY <1>3, <1>4, VersionsAreContent DEF Versions
<1>6. FalseAbsence = FALSE => \A p \in Paths : stage[p] # Part
    BY <1>1 DEF Inv, Parts, PartOf
<1>7. CASE /\ \E reason \in Error : EntryFails(c, reason, Len(copied))
           /\ UNCHANGED <<stage, frames, unstored>> /\ (Fault \/ UNCHANGED faults)
    <2>1. copied' = copied /\ step' = "failed" /\ entry' = c /\ error' \in Error
        BY <1>1, <1>7, EntryFailsHere DEF EntryFails
    <2>2. Walk(frames') /\ Kept(frames', copied') /\ Faithful(copied', stage', src', Newest')
        BY <1>2, <1>3, <1>7, <2>1
    <2>3. Walking' /\ AtEntry' /\ Deleting'
        BY <1>1, <1>7, <2>1 DEF Walking, AtEntry, Deleting
    <2>4. TypeOK'
        <3>1. faults' \in 0 .. MaxFaults
            BY <1>7, ConstantsAssumption DEF Fault, Inv, TypeOK
        <3> QED
            BY <1>1, <1>5, <1>7, <2>1, <3>1 DEF Inv, TypeOK, Step
    <2>5. FalseAbsence = FALSE => Parts'
        BY <1>2, <1>6, <1>7 DEF Parts
    <2> QED
        BY <1>2, <2>2, <2>3, <2>4, <2>5 DEF Inv
<1>8. CASE /\ unstored' = TRUE /\ frames' = Through(frames, c) /\ entry' = None
           /\ UNCHANGED <<stage, step, copied, error, faults>>
    <2>1. Walk(frames') /\ Kept(frames', copied') /\ Faithful(copied', stage', src', Newest')
        BY <1>1, <1>2, <1>3, <1>8, ThroughWalk, KeptThrough
    <2>2. Walking' /\ AtEntry' /\ Deleting'
        BY <1>1, <1>8 DEF Walking, AtEntry, Deleting
    <2>3. TypeOK'
        <3>1. \A i \in DOMAIN frames' : frames'[i].entry \in Folders /\ frames'[i].mark \in 0 .. Len(copied')
            BY <2>1, FrameTypes
        <3> QED
            BY <1>1, <1>5, <1>8, <3>1 DEF Inv, TypeOK
    <2>4. FalseAbsence = FALSE => Parts'
        BY <1>2, <1>6, <1>8 DEF Parts
    <2> QED
        BY <1>2, <2>1, <2>2, <2>3, <2>4 DEF Inv
<1>9. CASE /\ src[c] # 0 /\ c \in Folders /\ stage' = [stage EXCEPT ![c] = 1]
           /\ frames' = <<Frame(c, src[c], Len(copied))>> \o frames /\ entry' = None
           /\ UNCHANGED <<step, copied, error, unstored, faults>>
    <2> DEFINE new == Frame(c, src[c], Len(copied))
    <2>1. /\ new \in FrameRec /\ new.entry = c /\ new.mark = Len(copied)
          /\ \A t \in new.todo : Parent[t] = c
        <3>1. Len(copied) \in Nat
            BY <1>3, LenProperties
        <3> QED
            BY <1>5, <1>9, <3>1, FrameIsFrame
    <2> HIDE DEF new
    <2>2. frames' = <<new>> \o frames
        BY <1>9 DEF new
    <2>3. Walk(frames') /\ Kept(frames', copied')
        BY <1>1, <1>3, <1>4, <1>9, <2>1, <2>2, PushWalk, KeptPush
    <2>4. stage' \in [Paths -> Content] /\ \A p \in Paths : p # c => stage'[p] = stage[p]
        BY <1>3, <1>9, VersionsAreContent DEF Inv, TypeOK
    <2>5. Faithful(copied', stage', src', Newest')
        <3>1. \A i \in DOMAIN copied : copied[i].entry \in Files => stage'[copied[i].entry] = stage[copied[i].entry]
            BY <1>9, <2>4, FilesArePaths
        <3> QED
            BY <1>2, <1>3, <1>9, <3>1, FaithfulStaging
    <2>6. Walking' /\ AtEntry' /\ Deleting'
        BY <1>1, <1>9 DEF Walking, AtEntry, Deleting
    <2>7. TypeOK'
        <3>1. \A i \in DOMAIN frames' : frames'[i].entry \in Folders /\ frames'[i].mark \in 0 .. Len(copied')
            BY <2>3, FrameTypes
        <3> QED
            BY <1>1, <1>5, <1>9, <2>4, <3>1 DEF Inv, TypeOK
    <2>8. FalseAbsence = FALSE => Parts'
        <3>1. FalseAbsence = FALSE => \A p \in Paths : stage'[p] # Part
            BY <1>4, <1>6, <1>9 DEF Part, Inv, TypeOK
        <3> QED
            BY <1>2, <3>1 DEF Parts
    <2> QED
        BY <1>2, <2>3, <2>5, <2>6, <2>7, <2>8 DEF Inv
<1>10. CASE /\ src[c] # 0 /\ c \notin Folders /\ stage' = [stage EXCEPT ![c] = Part]
            /\ step' = "reading" /\ entry' = c
            /\ UNCHANGED <<frames, copied, error, unstored, faults>>
    <2>1. stage' \in [Paths -> Content] /\ stage'[c] = Part /\ \A p \in Paths : p # c => stage'[p] = stage[p]
        BY <1>3, <1>4, <1>10, VersionsAreContent DEF Inv, TypeOK
    <2>2. Walk(frames') /\ Kept(frames', copied')
        BY <1>3, <1>10
    <2>3. Faithful(copied', stage', src', Newest')
        <3>1. ASSUME NEW i \in DOMAIN copied PROVE stage'[copied[i].entry] = stage[copied[i].entry]
            BY <1>3, <1>4, <2>1, OpenUnrecorded
        <3> QED
            BY <1>2, <1>3, <1>10, <3>1, FaithfulStaging
    <2>4. Walking' /\ Deleting'
        BY <1>10 DEF Walking, Deleting
    <2>5. AtEntry'
        <3>1. c \in Files /\ src[c] \in 1 .. Newest
            BY <1>2, <1>5, <1>10, VersionsAreContent, <1>3 DEF Files
        <3> QED
            BY <1>1, <1>2, <1>10, <2>1, <3>1 DEF AtEntry
    <2>6. TypeOK'
        BY <1>1, <1>5, <1>10, <2>1 DEF Inv, TypeOK, Step
    <2>7. FalseAbsence = FALSE => Parts'
        <3>1. ASSUME FalseAbsence = FALSE, NEW p \in Paths, stage'[p] = Part PROVE PartOf(p)'
            BY <1>4, <1>6, <1>10, <2>1, <3>1, AboveSelf DEF PartOf
        <3> QED
            BY <1>2, <3>1 DEF Parts
    <2> QED
        BY <1>2, <2>2, <2>3, <2>4, <2>5, <2>6, <2>7 DEF Inv
<1> QED
    BY <1>7, <1>8, <1>9, <1>10 DEF CopyEntry, Error

LEMMA ReadFileInv == ASSUME Inv, ReadFile PROVE Inv'
<1>1. /\ UNCHANGED <<src, edits, landed, queue, report, cancelled, repeats, failures, seen, unstored>>
      /\ step = "reading"
    BY DEF ReadFile, sourceVars, endVars, userVars
<1>2. /\ Versions' /\ Newest' = Newest /\ Queued(queue', landed', src', Newest')
      /\ (FalseAbsence = FALSE => NoPartLands') /\ src' = src
    BY <1>1, SourceKept
<1>3. Walk(frames) /\ Kept(frames, copied) /\ copied \in Seq(Record) /\ Faithful(copied, stage, src, Newest) /\ Versions
    BY DEF Inv, TypeOK
<1>4. /\ frames # <<>> /\ entry \in Head(frames).todo /\ entry \in Files /\ entry \in Paths /\ entry \in Entries
      /\ stage[entry] = Part /\ seen \in 1 .. Newest
    BY <1>1, FilesArePaths DEF Inv, AtEntry
<1>5. entry \in frames[1].todo /\ Head(frames) = frames[1] /\ Open(frames, entry)
    BY <1>3, <1>4, WalkFrames, HeadOpen
<1>6. ASSUME NEW i \in DOMAIN copied PROVE copied[i].entry # entry /\ copied[i].entry \in Paths
    BY <1>3, <1>4, <1>5, OpenUnrecorded
<1>7. FalseAbsence = FALSE => \A p \in Paths : stage[p] = Part => entry \in Above[p]
    BY <1>1 DEF Inv, Parts, PartOf
<1>8. seen \in Content /\ seen # Part /\ src[entry] \in 0 .. Newest /\ src[entry] \in Content /\ src[entry] # Part /\ 0 \in Content
    BY <1>3, <1>4, VersionsAreContent DEF Versions
<1>9. CASE /\ stage' = [stage EXCEPT ![entry] = IF src[entry] = 0 THEN seen ELSE src[entry]]
           /\ copied' = Append(copied, [entry |-> entry, seen |-> seen])
           /\ frames' = Through(frames, entry)
           /\ step' = "walk" /\ entry' = None
           /\ UNCHANGED <<error, faults>>
    <2> DEFINE r == [entry |-> entry, seen |-> seen]
    <2>1. r \in Record /\ r.entry = entry /\ r.seen = seen
        BY <1>4, <1>8 DEF Record
    <2> HIDE DEF r
    <2>2. copied' = Append(copied, r) /\ frames' = Through(frames, r.entry)
        BY <1>9, <2>1 DEF r
    <2>3. Walk(frames') /\ Kept(frames', copied')
        BY <1>3, <1>4, <1>5, <2>1, <2>2, ThroughWalk, KeptFile
    <2>4. /\ copied' \in Seq(Record)
          /\ \A i \in DOMAIN copied' : (i \in DOMAIN copied /\ copied'[i] = copied[i]) \/ copied'[i] = r
        BY <1>3, <2>1, <2>2, Recorded
    <2>5. /\ stage' \in [Paths -> Content] /\ \A p \in Paths : p # entry => stage'[p] = stage[p]
          /\ stage'[entry] = IF src[entry] = 0 THEN seen ELSE src[entry]
        BY <1>4, <1>8, <1>9 DEF Inv, TypeOK
    <2>6. Faithful(copied', stage', src', Newest')
        <3>1. ASSUME NEW i \in DOMAIN copied', copied'[i].entry \in Files
              PROVE  /\ copied'[i].seen \in 1 .. Newest
                     /\ stage'[copied'[i].entry] = copied'[i].seen \/ src[copied'[i].entry] # copied'[i].seen
            <4>1. CASE i \in DOMAIN copied /\ copied'[i] = copied[i]
                <5>1. copied[i].entry # entry /\ copied[i].entry \in Paths
                    BY <1>6, <4>1
                <5>2. stage'[copied[i].entry] = stage[copied[i].entry]
                    BY <2>5, <5>1
                <5> QED
                    BY <1>3, <3>1, <4>1, <5>2 DEF Faithful
            <4>2. CASE copied'[i] = r
                BY <1>4, <2>1, <2>5, <4>2
            <4> QED
                BY <2>4, <4>1, <4>2
        <3> QED
            BY <1>2, <3>1 DEF Faithful
    <2>7. Walking' /\ AtEntry' /\ Deleting'
        BY <1>9 DEF Walking, AtEntry, Deleting
    <2>8. TypeOK'
        <3>1. \A i \in DOMAIN frames' : frames'[i].entry \in Folders /\ frames'[i].mark \in 0 .. Len(copied')
            BY <2>3, FrameTypes
        <3> QED
            BY <1>1, <1>9, <2>4, <2>5, <3>1 DEF Inv, TypeOK, Step
    <2>9. FalseAbsence = FALSE => Parts'
        <3>1. ASSUME FalseAbsence = FALSE, NEW p \in Paths PROVE stage'[p] # Part
            <4>1. CASE p = entry
                BY <1>8, <2>5, <4>1
            <4>2. CASE p # entry
                \* A file is above no other path: a part elsewhere would be below it.
                <5>1. ASSUME stage[p] = Part PROVE FALSE
                    <6>1. entry \in Above[p]
                        BY <1>7, <3>1, <5>1
                    <6> QED
                        BY <1>4, <4>2, <6>1, FileAboveItself
                <5> QED
                    BY <2>5, <4>2, <5>1
            <4> QED
                BY <4>1, <4>2
        <3> QED
            BY <1>2, <3>1 DEF Parts
    <2> QED
        BY <1>2, <2>3, <2>6, <2>7, <2>8, <2>9 DEF Inv
<1>10. CASE /\ \E reason \in Error : EntryFails(entry, reason, Len(copied))
            /\ Fault \/ UNCHANGED faults
            /\ stage' \in {stage, [stage EXCEPT ![entry] = 0]}
            /\ UNCHANGED frames
    <2>1. copied' = copied /\ step' = "failed" /\ entry' = entry /\ error' \in Error
        BY <1>4, <1>10, EntryFailsHere DEF EntryFails
    <2>2. Walk(frames') /\ Kept(frames', copied')
        BY <1>3, <1>10, <2>1
    <2>3. stage' \in [Paths -> Content] /\ \A p \in Paths : p # entry => stage'[p] = stage[p]
        BY <1>4, <1>8, <1>10 DEF Inv, TypeOK
    <2>4. Faithful(copied', stage', src', Newest')
        <3>1. ASSUME NEW i \in DOMAIN copied PROVE stage'[copied[i].entry] = stage[copied[i].entry]
            BY <1>6, <2>3
        <3> QED
            BY <1>2, <1>3, <2>1, <3>1, FaithfulStaging
    <2>5. Walking' /\ AtEntry' /\ Deleting'
        BY <1>4, <1>10, <2>1 DEF Walking, AtEntry, Deleting
    <2>6. TypeOK'
        <3>1. faults' \in 0 .. MaxFaults
            BY <1>10, ConstantsAssumption DEF Fault, Inv, TypeOK
        <3> QED
            BY <1>1, <1>10, <2>1, <2>3, <3>1 DEF Inv, TypeOK, Step
    <2>7. FalseAbsence = FALSE => Parts'
        <3>1. ASSUME FalseAbsence = FALSE, NEW p \in Paths, stage'[p] = Part PROVE PartOf(p)'
            <4>1. entry \in Above[p]
                BY <1>4, <1>7, <2>3, <3>1, AboveSelf
            <4> QED
                BY <2>1, <4>1 DEF PartOf
        <3> QED
            BY <1>2, <3>1 DEF Parts
    <2> QED
        BY <1>2, <2>2, <2>4, <2>5, <2>6, <2>7 DEF Inv
<1> QED
    BY <1>9, <1>10 DEF ReadFile, Error

LEMMA FinishFolderInv == ASSUME Inv, FinishFolder PROVE Inv'
<1>1. /\ UNCHANGED <<src, edits, landed, queue, report, cancelled, repeats, failures, seen, unstored,
                     stage, entry, error, faults>>
      /\ step = "walk" /\ frames # <<>>
    BY DEF FinishFolder, sourceVars, endVars, userVars
<1>2. /\ Versions' /\ Newest' = Newest /\ Queued(queue', landed', src', Newest')
      /\ (FalseAbsence = FALSE => NoPartLands') /\ src' = src
    BY <1>1, SourceKept
<1>3. Walk(frames) /\ Kept(frames, copied) /\ copied \in Seq(Record) /\ Faithful(copied, stage, src, Newest) /\ Versions
    BY DEF Inv, TypeOK
<1>4. FalseAbsence = FALSE => Parts'
    <2>1. FalseAbsence = FALSE => \A p \in Paths : stage'[p] # Part
        BY <1>1 DEF Inv, Parts, PartOf
    <2> QED
        BY <1>2, <2>1 DEF Parts
<1>5. CASE Len(frames) = 1 /\ step' = "publish" /\ UNCHANGED <<frames, copied>>
    <2>1. Walking' /\ AtEntry' /\ Deleting'
        BY <1>5 DEF Walking, AtEntry, Deleting
    <2>2. TypeOK'
        BY <1>1, <1>5 DEF Inv, TypeOK, Step
    <2> QED
        BY <1>1, <1>2, <1>3, <1>4, <1>5, <2>1, <2>2 DEF Inv
<1>6. CASE /\ Len(frames) # 1 /\ UNCHANGED step
           /\ copied' = Append(copied, [entry |-> Head(frames).entry, seen |-> Head(frames).seen])
           /\ frames' = Through(Tail(frames), Head(frames).entry)
    <2> DEFINE r == [entry |-> Head(frames).entry, seen |-> Head(frames).seen]
    <2>1. Head(frames) = frames[1] /\ frames[1].entry \in Paths /\ frames[1].entry \in Folders /\ frames[1].seen \in Content
        BY <1>1, <1>3, WalkFrames
    <2>2. r \in Record /\ r.entry = frames[1].entry /\ r.entry \in Folders
        BY <2>1 DEF Record
    <2>3. copied' = Append(copied, r) /\ frames' = Through(Tail(frames), r.entry)
        BY <1>6
    <2> HIDE DEF r
    <2>4. Walk(frames') /\ Kept(frames', copied')
        BY <1>1, <1>3, <1>6, <2>2, <2>3, KeptFolder
    <2>5. /\ copied' \in Seq(Record)
          /\ \A i \in DOMAIN copied' : (i \in DOMAIN copied /\ copied'[i] = copied[i]) \/ copied'[i] = r
        BY <1>3, <2>2, <2>3, Recorded
    <2>6. Faithful(copied', stage', src', Newest')
        <3>1. ASSUME NEW i \in DOMAIN copied', copied'[i].entry \in Files
              PROVE  i \in DOMAIN copied /\ copied'[i] = copied[i]
            BY <2>2, <2>5, <3>1, FilesArePaths
        <3> QED
            BY <1>1, <1>2, <1>3, <3>1 DEF Faithful
    <2>7. Walking' /\ AtEntry' /\ Deleting'
        BY <1>1, <1>6 DEF Walking, AtEntry, Deleting
    <2>8. TypeOK'
        <3>1. \A i \in DOMAIN frames' : frames'[i].entry \in Folders /\ frames'[i].mark \in 0 .. Len(copied')
            BY <2>4, FrameTypes
        <3> QED
            BY <1>1, <1>6, <2>5, <3>1 DEF Inv, TypeOK
    <2> QED
        BY <1>2, <1>4, <2>4, <2>6, <2>7, <2>8 DEF Inv
<1> QED
    BY <1>5, <1>6 DEF FinishFolder

\* A step that ends the attempt, with an error or without.
LEMMA AttemptEnds ==
    ASSUME Inv, UNCHANGED <<src, edits, landed, queue, report, stage, seen, cancelled, repeats, failures, unstored, faults, copied>>,
           step' = "settle", error' \in Error, frames' = <<>>, entry' = None
    PROVE  Inv'
<1>1. /\ Versions' /\ Newest' = Newest /\ Queued(queue', landed', src', Newest')
      /\ (FalseAbsence = FALSE => NoPartLands') /\ src' = src
    BY SourceKept
<1>2. Walk(frames') /\ Kept(frames', copied') /\ DOMAIN frames' = {}
    BY NothingKept
<1>3. Walking' /\ AtEntry' /\ Deleting' /\ (FalseAbsence = FALSE => Parts')
    BY <1>1 DEF Walking, AtEntry, Deleting, Parts, PartOf
<1>4. TypeOK'
    BY <1>2 DEF Inv, TypeOK, Step
<1>5. Faithful(copied', stage', src', Newest')
    BY <1>1 DEF Inv
<1> QED
    BY <1>1, <1>2, <1>3, <1>4, <1>5 DEF Inv

LEMMA StopWalkInv == ASSUME Inv, StopWalk PROVE Inv'
BY AttemptEnds DEF StopWalk, sourceVars, endVars, userVars, Error

\* An error of the entry goes to the folder it is in, or ends the attempt.
LEMMA Propagated ==
    ASSUME Inv, step = "failed", NEW reason \in Error, Propagate(reason)
    PROVE  /\ Walk(frames') /\ Kept(frames', copied') /\ copied' \in Seq(Record) /\ Prefix(copied', copied)
           /\ error' \in Error /\ entry' \in Entries \cup {None}
           /\ \/ step' = "settle" /\ frames' = <<>>
              \/ /\ step' = "failed" /\ frames' # <<>> /\ entry' \in Head(frames').todo
                 /\ \A p \in Paths : entry \in Above[p] => entry' \in Above[p]
<1>1. Walk(frames) /\ Kept(frames, copied) /\ copied \in Seq(Record)
    BY DEF Inv, TypeOK
<1>2. frames # <<>> /\ entry \in Head(frames).todo
    BY DEF Inv, AtEntry
<1>3. /\ Head(frames) = frames[1] /\ entry \in Entries /\ Parent[entry] = frames[1].entry
      /\ 1 \in DOMAIN frames /\ Len(frames) \in Nat
    BY <1>1, <1>2, WalkFrames, HeadOpen
<1>4. CASE Len(frames) = 1
    <2>1. /\ step' = "settle" /\ error' = reason /\ frames' = <<>> /\ entry' = None /\ copied' = copied
        BY <1>4 DEF Propagate
    <2>2. Walk(frames') /\ Kept(frames', copied')
        BY <2>1, NothingKept
    <2> QED
        BY <1>1, <2>1, <2>2 DEF Prefix
<1>5. CASE Len(frames) # 1
    <2>1. /\ step' = "failed" /\ entry' = frames[1].entry /\ error' = reason
          /\ copied' = SubSeq(copied, 1, frames[1].mark) /\ frames' = Tail(frames)
        BY <1>3, <1>5 DEF Propagate, EntryFails
    <2>2. /\ Walk(frames') /\ frames' # <<>> /\ frames[1].entry \in frames'[1].todo
          /\ frames[1].mark \in 0 .. Len(copied) /\ Kept(frames', copied')
        BY <1>1, <1>2, <1>5, <2>1, KeptFailed
    <2>3. copied' \in Seq(Record) /\ Prefix(copied', copied)
        BY <1>1, <2>1, <2>2, Truncated DEF Prefix
    <2>4. Head(frames') = frames'[1] /\ entry' \in Head(frames').todo /\ entry' \in Entries
        BY <2>1, <2>2, WalkFrames
    <2>5. \A p \in Paths : entry \in Above[p] => entry' \in Above[p]
        BY <1>3, <2>1, AboveParent
    <2> QED
        BY <2>1, <2>2, <2>3, <2>4, <2>5
<1> QED
    BY <1>4, <1>5

\* The failures and bounds an answer leaves.
Answered ==
    /\ failures' \in [leftOut : SUBSET Entries, skipAll : BOOLEAN, elevation : BOOLEAN]
    /\ repeats' \in 0 .. MaxRepeats /\ faults' \in 0 .. MaxFaults

LEMMA PropagateInv ==
    ASSUME Inv, step = "failed", NEW reason \in Error, Propagate(reason), Answered,
           UNCHANGED <<src, edits, landed, queue, report, stage, seen, unstored, cancelled>>
    PROVE  Inv'
<1>1. /\ Versions' /\ Newest' = Newest /\ Queued(queue', landed', src', Newest')
      /\ (FalseAbsence = FALSE => NoPartLands') /\ src' = src
    BY SourceKept
<1>2. /\ Walk(frames') /\ Kept(frames', copied') /\ copied' \in Seq(Record) /\ Prefix(copied', copied)
      /\ error' \in Error /\ entry' \in Entries \cup {None}
      /\ \/ step' = "settle" /\ frames' = <<>>
         \/ /\ step' = "failed" /\ frames' # <<>> /\ entry' \in Head(frames').todo
            /\ \A p \in Paths : entry \in Above[p] => entry' \in Above[p]
    BY Propagated
<1>3. Faithful(copied', stage', src', Newest')
    <2>1. Faithful(copied, stage', src', Newest')
        BY <1>1 DEF Inv
    <2> QED
        BY <1>2, <2>1, FaithfulPrefix
<1>4. Walking' /\ AtEntry' /\ Deleting'
    BY <1>2 DEF Walking, AtEntry, Deleting
<1>5. TypeOK'
    <2>1. \A i \in DOMAIN frames' : frames'[i].entry \in Folders /\ frames'[i].mark \in 0 .. Len(copied')
        BY <1>2, FrameTypes
    <2>2. step' \in Step
        BY <1>2 DEF Step
    <2> QED
        BY <1>2, <2>1, <2>2 DEF Inv, TypeOK, Answered
<1>6. FalseAbsence = FALSE => Parts'
    <2>1. ASSUME FalseAbsence = FALSE, NEW p \in Paths, stage'[p] = Part PROVE PartOf(p)'
        <3>1. entry \in Above[p]
            BY <2>1 DEF Inv, Parts, PartOf
        <3> QED
            BY <1>2, <3>1 DEF PartOf
    <2> QED
        BY <1>1, <2>1 DEF Parts
<1> QED
    BY <1>1, <1>2, <1>3, <1>4, <1>5, <1>6 DEF Inv

\* A question leaves its bound in range.
LEMMA Asked ==
    ASSUME Inv, NEW answer, Ask(answer) \/ UNCHANGED repeats
    PROVE  repeats' \in 0 .. MaxRepeats
<1>1. repeats \in 0 .. MaxRepeats
    BY DEF Inv, TypeOK
<1> QED
    BY <1>1, ConstantsAssumption DEF Ask

FailureRec == [leftOut : SUBSET Entries, skipAll : BOOLEAN, elevation : BOOLEAN]

LEMMA FailureUpdates ==
    ASSUME NEW f \in FailureRec
    PROVE  /\ [f EXCEPT !.elevation = TRUE] \in FailureRec /\ [f EXCEPT !.elevation = FALSE] \in FailureRec
           /\ \A b \in BOOLEAN : [f EXCEPT !.skipAll = b] \in FailureRec
           /\ \A e \in Entries : [f EXCEPT !.leftOut = f.leftOut \cup {e}] \in FailureRec
           /\ \A e \in Entries, b \in BOOLEAN :
                [f EXCEPT !.leftOut = f.leftOut \cup {e}, !.skipAll = b] \in FailureRec
BY DEF FailureRec

LEMMA EntryStopsItemInv == ASSUME Inv, EntryStopsItem PROVE Inv'
<1>1. /\ UNCHANGED <<src, edits, landed, queue, report, stage, seen, unstored, cancelled, faults>>
      /\ step = "failed"
    BY DEF EntryStopsItem, sourceVars, endVars
<1>2. error \in Error /\ "cancelled" \in Error
    BY DEF Inv, TypeOK, Error
<1>3. \E reason \in Error : Propagate(reason)
    BY <1>2 DEF EntryStopsItem
<1>4. Answered
    <2>1. failures \in FailureRec /\ faults \in 0 .. MaxFaults
        BY DEF Inv, TypeOK, FailureRec
    <2>2. failures' \in FailureRec
        BY <2>1, FailureUpdates DEF EntryStopsItem
    <2>3. repeats' \in 0 .. MaxRepeats
        BY Asked DEF EntryStopsItem
    <2> QED
        BY <1>1, <2>1, <2>2, <2>3 DEF Answered, FailureRec
<1> QED
    BY <1>1, <1>3, <1>4, PropagateInv

LEMMA DiscardInv ==
    ASSUME Inv, step = "failed", NEW retry \in BOOLEAN, DiscardThen(retry),
           failures' \in [leftOut : SUBSET Entries, skipAll : BOOLEAN, elevation : BOOLEAN],
           repeats' \in 0 .. MaxRepeats,
           UNCHANGED <<src, edits, landed, queue, report, seen, unstored, cancelled>>
    PROVE  Inv'
<1>1. /\ Versions' /\ Newest' = Newest /\ Queued(queue', landed', src', Newest')
      /\ (FalseAbsence = FALSE => NoPartLands') /\ src' = src
    BY SourceKept
<1>2. Walk(frames) /\ Kept(frames, copied) /\ copied \in Seq(Record) /\ Faithful(copied, stage, src, Newest) /\ Versions
    BY DEF Inv, TypeOK
<1>3. frames # <<>> /\ entry \in Head(frames).todo
    BY DEF Inv, AtEntry
<1>4. entry \in frames[1].todo /\ entry \in Entries /\ Open(frames, entry)
    BY <1>2, <1>3, WalkFrames, HeadOpen
<1>5. faults' \in 0 .. MaxFaults
    BY ConstantsAssumption DEF DiscardThen, Fault, Inv, TypeOK
<1>6. CASE /\ step' = "walk" /\ error' = "none" /\ UNCHANGED copied
           /\ entry' = (IF retry THEN entry ELSE None)
           /\ frames' = (IF retry THEN frames ELSE Through(frames, entry))
           /\ stage' = Discarded(entry) \/ (FalseAbsence /\ UNCHANGED stage)
    <2>1. Walk(frames') /\ Kept(frames', copied')
        BY <1>2, <1>3, <1>6, ThroughWalk, KeptThrough
    <2>2. stage' \in [Paths -> Content]
        BY <1>2, <1>6, VersionsAreContent DEF Discarded, Inv, TypeOK
    <2>3. Faithful(copied', stage', src', Newest')
        <3>1. ASSUME NEW i \in DOMAIN copied PROVE stage'[copied[i].entry] = stage[copied[i].entry]
            <4>1. copied[i].entry \in Paths /\ entry \notin Above[copied[i].entry]
                BY <1>2, <1>4, OpenUnrecorded
            <4> QED
                BY <1>6, <4>1 DEF Discarded
        <3> QED
            BY <1>1, <1>2, <1>6, <3>1, FaithfulStaging
    <2>4. Walking' /\ AtEntry' /\ Deleting'
        BY <1>6 DEF Walking, AtEntry, Deleting
    <2>5. TypeOK'
        <3>1. \A i \in DOMAIN frames' : frames'[i].entry \in Folders /\ frames'[i].mark \in 0 .. Len(copied')
            BY <2>1, FrameTypes
        <3>2. step' \in Step /\ error' \in Error /\ entry' \in Entries \cup {None}
            BY <1>4, <1>6 DEF Step, Error
        <3> QED
            BY <1>2, <1>5, <1>6, <2>2, <3>1, <3>2 DEF Inv, TypeOK
    <2>6. FalseAbsence = FALSE => Parts'
        <3>1. ASSUME FalseAbsence = FALSE, NEW p \in Paths PROVE stage'[p] # Part
            <4>1. stage'[p] = IF entry \in Above[p] THEN 0 ELSE stage[p]
                BY <1>6, <3>1 DEF Discarded
            <4>2. stage[p] = Part => entry \in Above[p]
                BY <3>1 DEF Inv, Parts, PartOf
            <4> QED
                BY <4>1, <4>2 DEF Part
        <3> QED
            BY <1>1, <3>1 DEF Parts
    <2> QED
        BY <1>1, <2>1, <2>3, <2>4, <2>5, <2>6 DEF Inv
<1>7. CASE Propagate("denied") /\ UNCHANGED stage
    <2>1. Answered /\ "denied" \in Error
        BY <1>5 DEF Answered, Error
    <2> QED
        BY <1>7, <2>1, PropagateInv
<1> QED
    BY <1>6, <1>7 DEF DiscardThen

LEMMA RetryEntryInv == ASSUME Inv, RetryEntry PROVE Inv'
<1>1. UNCHANGED <<src, edits, landed, queue, report, seen, unstored, cancelled, failures>> /\ step = "failed"
    BY DEF RetryEntry, sourceVars, endVars
<1>2. repeats' \in 0 .. MaxRepeats /\ DiscardThen(TRUE)
    BY Asked DEF RetryEntry
<1>3. failures' \in [leftOut : SUBSET Entries, skipAll : BOOLEAN, elevation : BOOLEAN]
    BY <1>1 DEF Inv, TypeOK
<1> QED
    BY <1>1, <1>2, <1>3, DiscardInv

LEMMA SkipEntryInv == ASSUME Inv, SkipEntry PROVE Inv'
<1>1. UNCHANGED <<src, edits, landed, queue, report, seen, unstored, cancelled>> /\ step = "failed"
    BY DEF SkipEntry, sourceVars, endVars
<1>2. repeats' \in 0 .. MaxRepeats /\ DiscardThen(FALSE)
    BY Asked DEF SkipEntry
<1>3. entry \in Entries
    BY <1>1, WalkFrames DEF Inv, AtEntry
<1>4. failures' \in [leftOut : SUBSET Entries, skipAll : BOOLEAN, elevation : BOOLEAN]
    <2>1. failures \in FailureRec
        BY DEF Inv, TypeOK, FailureRec
    <2>2. failures' \in FailureRec
        BY <1>3, <2>1, FailureUpdates DEF SkipEntry
    <2> QED
        BY <2>2 DEF FailureRec
<1> QED
    BY <1>1, <1>2, <1>4, DiscardInv

LEMMA PublishInv == ASSUME Inv, Publish PROVE Inv'
<1>1. /\ UNCHANGED <<src, edits, stage, entry, seen, copied, failures, unstored, report, cancelled, repeats>>
      /\ step = "publish" /\ frames' = <<>>
    BY DEF Publish, sourceVars, userVars
<1>2. Versions' /\ Newest' = Newest /\ src' = src /\ edits' = edits /\ Versions
    BY <1>1 DEF Inv, Versions, Newest
<1>3. Walk(frames') /\ Kept(frames', copied') /\ DOMAIN frames' = {}
    BY <1>1, NothingKept
<1>4. copied \in Seq(Record) /\ Faithful(copied, stage, src, Newest) /\ Faithful(copied', stage', src', Newest')
    BY <1>1, <1>2 DEF Inv, TypeOK
<1>5. FalseAbsence = FALSE => \A p \in Paths : stage[p] # Part /\ Part \notin landed[p]
    BY <1>1 DEF Inv, Parts, PartOf, NoPartLands
<1>6. CASE Fault /\ error' \in {"denied", "exists"} /\ step' = "settle" /\ UNCHANGED <<landed, queue>>
    <2>1. Queued(queue', landed', src', Newest')
        BY <1>2, <1>6 DEF Inv
    <2>2. Walking' /\ AtEntry' /\ Deleting'
        BY <1>1, <1>6 DEF Walking, AtEntry, Deleting
    <2>3. TypeOK'
        <3>1. faults' \in 0 .. MaxFaults /\ error' \in Error /\ step' \in Step
            BY <1>6, ConstantsAssumption DEF Fault, Inv, TypeOK, Error, Step
        <3> QED
            BY <1>1, <1>3, <1>6, <3>1 DEF Inv, TypeOK
    <2>4. FalseAbsence = FALSE => Parts'
        BY <1>1, <1>5, <1>6 DEF Parts, NoPartLands
    <2> QED
        BY <1>2, <1>3, <1>4, <2>1, <2>2, <2>3, <2>4 DEF Inv
<1>7. CASE /\ landed' = [p \in Paths |-> landed[p] \cup ({stage[p]} \ {0})]
           /\ UNCHANGED faults
           /\ \/ step' = "settle" /\ error' = "recovery" /\ UNCHANGED queue
              \/ step' = "inspect" /\ UNCHANGED error /\ queue' = Append(copied, [entry |-> Top, seen |-> 1])
    <2> DEFINE r == [entry |-> Top, seen |-> 1]
    <2>1. Top \in Paths /\ Top \notin Files /\ 1 \in Content
        BY <1>2, VersionsAreContent, ConstantsAssumption DEF Paths, Files
    <2>2. r \in Record /\ r.entry = Top
        BY <2>1 DEF Record
    <2> HIDE DEF r
    <2>3. landed' \in [Paths -> SUBSET Content] /\ \A p \in Paths : landed[p] \subseteq landed'[p]
        BY <1>7 DEF Inv, TypeOK
    <2>4. /\ queue' \in Seq(Record)
          /\ \/ queue' = queue
             \/ \A i \in DOMAIN queue' : (i \in DOMAIN copied /\ queue'[i] = copied[i]) \/ queue'[i] = r
        <3>1. CASE queue' = queue
            BY <3>1 DEF Inv, TypeOK
        <3>2. CASE queue' = Append(copied, r)
            BY <1>4, <2>2, <3>2, Recorded
        <3> QED
            BY <1>7, <3>1, <3>2 DEF r
    <2>5. Queued(queue', landed', src', Newest')
        <3>1. ASSUME NEW i \in DOMAIN queue', queue'[i].entry \in Files
              PROVE  /\ queue'[i].seen \in 1 .. Newest
                     /\ queue'[i].seen \in landed'[queue'[i].entry] \/ src[queue'[i].entry] # queue'[i].seen
            <4>1. queue'[i].entry \in Paths
                BY <3>1, FilesArePaths
            <4>2. CASE queue' = queue
                BY <2>3, <3>1, <4>1, <4>2 DEF Inv, Queued
            <4>3. CASE i \in DOMAIN copied /\ queue'[i] = copied[i]
                <5>1. /\ copied[i].seen \in 1 .. Newest
                      /\ stage[copied[i].entry] = copied[i].seen \/ src[copied[i].entry] # copied[i].seen
                    BY <1>4, <3>1, <4>3 DEF Faithful
                <5>2. copied[i].seen # 0
                    BY <1>2, <5>1, VersionsAreContent
                <5> QED
                    BY <1>7, <4>1, <4>3, <5>1, <5>2
            <4> QED
                BY <2>1, <2>2, <2>4, <3>1, <4>2, <4>3
        <3> QED
            BY <1>2, <3>1 DEF Queued
    <2>6. Walking' /\ AtEntry' /\ Deleting'
        BY <1>1, <1>7 DEF Walking, AtEntry, Deleting
    <2>7. TypeOK'
        <3>1. error' \in Error /\ step' \in Step
            BY <1>7 DEF Inv, TypeOK, Error, Step
        <3> QED
            BY <1>1, <1>3, <1>7, <2>3, <2>4, <3>1 DEF Inv, TypeOK
    <2>8. FalseAbsence = FALSE => Parts'
        <3>1. FalseAbsence = FALSE => NoPartLands'
            BY <1>5, <1>7 DEF NoPartLands
        <3> QED
            BY <1>1, <1>5, <3>1 DEF Parts
    <2> QED
        BY <1>2, <1>3, <1>4, <2>5, <2>6, <2>7, <2>8 DEF Inv
<1> QED
    BY <1>6, <1>7 DEF Publish

\* The first of the records still to remove.
LEMMA QueueHead ==
    ASSUME Inv, queue # <<>>
    PROVE  /\ Head(queue) \in Record /\ Head(queue).entry \in Paths
           /\ Tail(queue) \in Seq(Record)
           /\ Queued(<<Head(queue)>>, landed, src, Newest)
           /\ \A ld, sr, n : Queued(queue, ld, sr, n) => Queued(Tail(queue), ld, sr, n)
<1>1. queue \in Seq(Record) /\ Queued(queue, landed, src, Newest)
    BY DEF Inv, TypeOK
<1>2. /\ Head(queue) = queue[1] /\ 1 \in DOMAIN queue /\ Len(queue) \in Nat /\ DOMAIN queue = 1 .. Len(queue)
      /\ queue[1] \in Record
    BY <1>1, EmptySeq, LenProperties, ElementOfSeq, HeadTailProperties
<1>3. /\ Tail(queue) \in Seq(Record) /\ DOMAIN Tail(queue) = 1 .. Len(queue) - 1
      /\ \A i \in DOMAIN Tail(queue) : i + 1 \in DOMAIN queue /\ Tail(queue)[i] = queue[i + 1]
    <2>1. /\ Tail(queue) \in Seq(Record) /\ Len(Tail(queue)) = Len(queue) - 1
          /\ \A i \in 1 .. Len(Tail(queue)) : Tail(queue)[i] = queue[i + 1]
        BY <1>1, HeadTailProperties
    <2>2. DOMAIN Tail(queue) = 1 .. Len(queue) - 1
        BY <2>1, LenProperties
    <2> QED
        BY <1>2, <2>1, <2>2
<1>4. Queued(<<Head(queue)>>, landed, src, Newest)
    BY <1>1, <1>2 DEF Queued
<1>5. ASSUME NEW ld, NEW sr, NEW n, Queued(queue, ld, sr, n) PROVE Queued(Tail(queue), ld, sr, n)
    BY <1>3, <1>5 DEF Queued
<1> QED
    BY <1>2, <1>3, <1>4, <1>5 DEF Record

\* A report of the item.
LEMMA ReportTypes ==
    ASSUME Inv, NEW d \in BOOLEAN, NEW r \in BOOLEAN
    PROVE  /\ [done |-> d, recovery |-> r, leftOut |-> failures.leftOut]
                 \in [done : BOOLEAN, recovery : BOOLEAN, leftOut : SUBSET Entries]
           /\ report \in [done : BOOLEAN, recovery : BOOLEAN, leftOut : SUBSET Entries]
BY DEF Inv, TypeOK

LEMMA InspectSourceInv == ASSUME Inv, InspectSource PROVE Inv'
<1>1. /\ UNCHANGED <<src, edits, landed, stage, frames, entry, seen, copied, failures, unstored, cancelled, repeats>>
      /\ step = "inspect"
    BY DEF InspectSource, sourceVars, userVars
<1>2. Versions' /\ Newest' = Newest /\ src' = src
    BY <1>1 DEF Inv, Versions, Newest
<1>3. frames' = <<>> /\ Walk(frames') /\ Kept(frames', copied') /\ Faithful(copied', stage', src', Newest')
    BY <1>1, <1>2 DEF Inv, Walking
<1>4. queue' = queue \/ (queue # <<>> /\ queue' = Tail(queue))
    BY DEF InspectSource
<1>5. queue' \in Seq(Record) /\ Queued(queue', landed', src', Newest')
    <2>1. queue \in Seq(Record) /\ Queued(queue, landed', src', Newest')
        BY <1>1, <1>2 DEF Inv, TypeOK
    <2> QED
        BY <1>4, <2>1, QueueHead
<1>6. Walking' /\ AtEntry'
    BY <1>1, <1>3 DEF InspectSource, Walking, AtEntry
<1>7. Deleting'
    BY <1>1, <1>2 DEF InspectSource, Deleting, StaysBehind
<1>8. TypeOK'
    <2>1. step' \in Step /\ error' \in Error
        BY DEF InspectSource, Step, Error, Inv, TypeOK
    <2>2. faults' \in 0 .. MaxFaults
        BY ConstantsAssumption DEF InspectSource, Fault, Inv, TypeOK
    <2>3. report' \in [done : BOOLEAN, recovery : BOOLEAN, leftOut : SUBSET Entries]
        BY ReportTypes DEF InspectSource
    <2> QED
        BY <1>1, <1>5, <2>1, <2>2, <2>3 DEF Inv, TypeOK
<1>9. FalseAbsence = FALSE => Parts'
    <2>1. FalseAbsence = FALSE => \A p \in Paths : stage'[p] # Part
        BY <1>1 DEF Inv, Parts, PartOf
    <2>2. FalseAbsence = FALSE => NoPartLands'
        BY <1>1 DEF Inv, Parts, NoPartLands
    <2> QED
        BY <2>1, <2>2 DEF Parts
<1> QED
    BY <1>2, <1>3, <1>5, <1>6, <1>7, <1>8, <1>9 DEF Inv

\* What is gone was not what a record describes.
LEMMA RecordsOfTheGone ==
    ASSUME Versions, NEW p \in Paths, NEW rs \in Seq(Record), NEW x, src' = [src EXCEPT ![p] = 0]
    PROVE  /\ Faithful(rs, x, src, Newest) => Faithful(rs, x, src', Newest)
           /\ Queued(rs, x, src, Newest) => Queued(rs, x, src', Newest)
<1>1. Newest \in Nat
    BY VersionsAreContent, ConstantsAssumption
<1>2. \A q \in Paths : src'[q] = src[q] \/ src'[q] = 0
    BY DEF Versions
<1>3. ASSUME NEW i \in DOMAIN rs, rs[i].entry \in Files, rs[i].seen \in 1 .. Newest, src[rs[i].entry] # rs[i].seen
      PROVE  src'[rs[i].entry] # rs[i].seen
    BY <1>1, <1>2, <1>3, FilesArePaths
<1> QED
    BY <1>3 DEF Faithful, Queued

LEMMA DeleteSourceInv == ASSUME Inv, DeleteSource PROVE Inv'
<1>1. /\ UNCHANGED <<edits, landed, stage, frames, entry, seen, copied, failures, unstored, report, cancelled, repeats>>
      /\ step = "delete"
    BY DEF DeleteSource, userVars
<1>2. Newest' = Newest /\ queue # <<>> /\ Versions
    BY <1>1 DEF Inv, Newest, Deleting
<1>3. Head(queue).entry \in Paths /\ queue \in Seq(Record) /\ Tail(queue) \in Seq(Record) /\ copied \in Seq(Record)
    BY <1>2, QueueHead DEF Inv, TypeOK
<1>4. \/ /\ src' = [src EXCEPT ![Head(queue).entry] = 0] /\ queue' = Tail(queue) /\ step' = "inspect"
         /\ UNCHANGED <<error, faults>>
      \/ /\ UNCHANGED <<src, queue>> /\ step' = "settle" /\ error' = "recovery"
         /\ Fault \/ UNCHANGED faults
    BY DEF DeleteSource
<1>5. Versions' /\ src' \in [Paths -> Content]
    <2>1. src \in [Paths -> 0 .. Newest] /\ Newest \in Nat /\ edits \in 0 .. MaxEdits /\ src \in [Paths -> Content]
          /\ 0 \in Content
        BY <1>2, VersionsAreContent, ConstantsAssumption DEF Versions, Inv, TypeOK
    <2>2. src' \in [Paths -> 0 .. Newest] /\ src' \in [Paths -> Content]
        <3>1. src' = src \/ src' = [src EXCEPT ![Head(queue).entry] = 0]
            BY <1>4
        <3>2. 0 \in 0 .. Newest
            BY <2>1
        <3>3. ASSUME NEW S, 0 \in S, src \in [Paths -> S] PROVE src' \in [Paths -> S]
            BY <1>3, <3>1, <3>3
        <3> QED
            BY <2>1, <3>2, <3>3
    <2> QED
        BY <1>1, <1>2, <2>1, <2>2 DEF Versions
<1>6. Faithful(copied', stage', src', Newest') /\ Queued(queue', landed', src', Newest')
    <2>1. Faithful(copied, stage, src, Newest) /\ Queued(queue, landed, src, Newest) /\ Queued(Tail(queue), landed, src, Newest)
        BY <1>2, QueueHead DEF Inv
    <2>2. CASE UNCHANGED <<src, queue>>
        BY <1>1, <1>2, <2>1, <2>2
    <2>3. CASE src' = [src EXCEPT ![Head(queue).entry] = 0] /\ queue' = Tail(queue)
        BY <1>1, <1>2, <1>3, <2>1, <2>3, RecordsOfTheGone
    <2> QED
        BY <1>4, <2>2, <2>3
<1>7. frames' = <<>> /\ Walk(frames') /\ Kept(frames', copied')
    BY <1>1 DEF Inv, Walking
<1>8. Walking' /\ AtEntry' /\ Deleting'
    BY <1>4, <1>7 DEF Walking, AtEntry, Deleting
<1>9. TypeOK'
    <2>1. step' \in Step /\ error' \in Error /\ faults' \in 0 .. MaxFaults /\ queue' \in Seq(Record)
        <3>1. error \in Error /\ faults \in 0 .. MaxFaults /\ queue \in Seq(Record)
            BY DEF Inv, TypeOK
        <3>2. "recovery" \in Error /\ "settle" \in Step /\ "inspect" \in Step
            BY DEF Error, Step
        <3>3. faults' \in 0 .. MaxFaults
            BY <1>4, <3>1, ConstantsAssumption DEF Fault
        <3>4. queue' \in Seq(Record)
            BY <1>3, <1>4, <3>1
        <3> QED
            BY <1>4, <3>1, <3>2, <3>3, <3>4
    <2> QED
        BY <1>1, <1>5, <2>1 DEF Inv, TypeOK
<1>10. FalseAbsence = FALSE => Parts'
    <2>1. FalseAbsence = FALSE => \A p \in Paths : stage'[p] # Part
        BY <1>1 DEF Inv, Parts, PartOf
    <2>2. FalseAbsence = FALSE => NoPartLands'
        BY <1>1 DEF Inv, Parts, NoPartLands
    <2> QED
        BY <2>1, <2>2 DEF Parts
<1> QED
    BY <1>5, <1>6, <1>7, <1>8, <1>9, <1>10 DEF Inv

LEMMA SettleItemInv == ASSUME Inv, SettleItem PROVE Inv'
<1>1. /\ UNCHANGED <<src, edits, landed, frames, entry, seen, unstored, cancelled, faults>>
      /\ step = "settle" /\ copied' = <<>> /\ queue' = <<>>
    BY DEF SettleItem, sourceVars
<1>2. Versions' /\ Newest' = Newest /\ src' = src
    BY <1>1 DEF Inv, Versions, Newest
<1>3. /\ frames' = <<>> /\ Walk(frames') /\ Kept(frames', copied') /\ DOMAIN frames' = {}
      /\ copied' \in Seq(Record) /\ queue' \in Seq(Record)
      /\ Faithful(copied', stage', src', Newest') /\ Queued(queue', landed', src', Newest')
    BY <1>1, NothingKept, EmptySeq DEF Inv, Walking
<1>4. step' \in {"start", "finished"} /\ stage' \in {stage, Empty} /\ error' \in {error, "none"}
    BY DEF SettleItem, Finish, RunAgain
<1>5. Walking' /\ AtEntry' /\ Deleting'
    BY <1>3, <1>4 DEF Walking, AtEntry, Deleting
<1>6. failures \in FailureRec /\ failures' \in FailureRec
    <2>1. failures \in FailureRec
        BY DEF Inv, TypeOK, FailureRec
    <2> QED
        BY <2>1, FailureUpdates DEF SettleItem
<1>7. report' \in [done : BOOLEAN, recovery : BOOLEAN, leftOut : SUBSET Entries]
    <2>1. \/ UNCHANGED report
          \/ \E r \in BOOLEAN : report' = [done |-> FALSE, recovery |-> r, leftOut |-> failures.leftOut]
        BY DEF SettleItem, Finish, RunAgain
    <2> QED
        BY <2>1, ReportTypes
<1>8. repeats' \in 0 .. MaxRepeats
    BY Asked DEF SettleItem
<1>9. TypeOK'
    <2>1. step' \in Step /\ error' \in Error /\ stage' \in [Paths -> Content]
        BY <1>2, <1>4, VersionsAreContent DEF Step, Error, Inv, TypeOK, Empty
    <2> QED
        BY <1>1, <1>3, <1>6, <1>7, <1>8, <2>1 DEF Inv, TypeOK, FailureRec
<1>10. FalseAbsence = FALSE => Parts'
    <2>1. FalseAbsence = FALSE => NoPartLands'
        BY <1>1 DEF Inv, Parts, NoPartLands
    <2> QED
        BY <1>4, <2>1 DEF Parts, PartOf
<1> QED
    BY <1>2, <1>3, <1>5, <1>9, <1>10 DEF Inv

LEMMA CancelInv == ASSUME Inv, Cancel PROVE Inv'
BY DEF Cancel, Inv, TypeOK, Versions, Newest, Walking, AtEntry, Deleting, Parts, PartOf, NoPartLands

LEMMA EditInv == ASSUME Inv, NEW p \in Files, Edit(p) PROVE Inv'
<1>1. UNCHANGED <<stage, landed, step, frames, entry, seen, copied, queue, error, failures, unstored,
                  report, cancelled, repeats, faults>>
    BY DEF Edit
<1>2. edits \in Nat /\ edits > 0 /\ edits' = edits - 1 /\ edits' \in 0 .. MaxEdits /\ MaxEdits \in Nat
    BY ConstantsAssumption DEF Edit, Inv, TypeOK
<1>3. Newest' = Newest + 1 /\ Newest \in Nat /\ Newest' = MaxEdits - edits + 2
    BY <1>2, VersionsAreContent DEF Inv, Newest
<1>4. /\ src \in [Paths -> 0 .. Newest] /\ p \in Paths
      /\ src' = [src EXCEPT ![p] = Newest'] \/ src' = [src EXCEPT ![p] = 0]
    BY <1>3, FilesArePaths DEF Edit, Inv, Versions
<1>5. \A q \in Paths : src'[q] = src[q] \/ src'[q] = 0 \/ src'[q] = Newest + 1
    BY <1>3, <1>4
<1>6. Versions'
    BY <1>2, <1>3, <1>4 DEF Versions
<1>7. src' \in [Paths -> Content]
    BY <1>6, <1>2, ConstantsAssumption DEF Versions, Newest, Content
<1>8. ASSUME NEW q \in Files, NEW k \in 1 .. Newest, src[q] # k PROVE k \in 1 .. Newest' /\ src'[q] # k
    BY <1>3, <1>5, <1>8, FilesArePaths
<1>9. ASSUME NEW k \in 1 .. Newest PROVE k \in 1 .. Newest'
    BY <1>3
<1>10. Faithful(copied', stage', src', Newest')
    BY <1>1, <1>8, <1>9 DEF Inv, Faithful
<1>11. Queued(queue', landed', src', Newest')
    BY <1>1, <1>8, <1>9 DEF Inv, Queued
<1>12. Walk(frames') /\ Walking' /\ Kept(frames', copied') /\ AtEntry'
    BY <1>1, <1>9 DEF Inv, Walking, AtEntry
<1>13. Deleting'
    <2>1. step = "delete" => LateEdits
        BY DEF Edit
    <2>2. edits' # MaxEdits
        BY <1>2 DEF Inv, TypeOK
    <2> QED
        BY <1>1, <2>1, <2>2, ConstantsAssumption DEF Inv, Deleting
<1>14. TypeOK'
    BY <1>1, <1>2, <1>7 DEF Inv, TypeOK
<1>15. FalseAbsence = FALSE => Parts'
    BY <1>1 DEF Inv, Parts, PartOf, NoPartLands
<1> QED
    BY <1>6, <1>10, <1>11, <1>12, <1>13, <1>14, <1>15 DEF Inv

LEMMA StutterInv == ASSUME Inv, UNCHANGED vars PROVE Inv'
BY DEF vars, Inv, TypeOK, Versions, Newest, Walking, AtEntry, Deleting, Parts, PartOf, NoPartLands

\* Every step keeps the invariant.
LEMMA NextInv == Inv /\ [Next]_vars => Inv'
<1> SUFFICES ASSUME Inv, [Next]_vars PROVE Inv'
    OBVIOUS
<1>1. CASE StartAttempt
    BY <1>1, StartAttemptInv
<1>2. CASE \E c \in Entries : CopyEntry(c)
    BY <1>2, CopyEntryInv
<1>3. CASE ReadFile
    BY <1>3, ReadFileInv
<1>4. CASE FinishFolder
    BY <1>4, FinishFolderInv
<1>5. CASE StopWalk
    BY <1>5, StopWalkInv
<1>6. CASE EntryStopsItem
    BY <1>6, EntryStopsItemInv
<1>7. CASE RetryEntry
    BY <1>7, RetryEntryInv
<1>8. CASE SkipEntry
    BY <1>8, SkipEntryInv
<1>9. CASE Publish
    BY <1>9, PublishInv
<1>10. CASE InspectSource
    BY <1>10, InspectSourceInv
<1>11. CASE DeleteSource
    BY <1>11, DeleteSourceInv
<1>12. CASE SettleItem
    BY <1>12, SettleItemInv
<1>13. CASE Cancel
    BY <1>13, CancelInv
<1>14. CASE \E p \in Entries \ Folders : Edit(p)
    BY <1>14, EditInv DEF Files
<1>15. CASE UNCHANGED vars
    BY <1>15, StutterInv
<1> QED
    BY <1>1, <1>2, <1>3, <1>4, <1>5, <1>6, <1>7, <1>8, <1>9, <1>10, <1>11, <1>12, <1>13, <1>14, <1>15
       DEF Next, EngineStep

LEMMA InvAlways == Spec => []Inv
BY InitInv, NextInv, PTL DEF Spec

-----------------------------------------------------------------------------
(* What a finished move promises                                           *)

\* What exists is in folders that exist.
TreeIntact == \A p \in Entries : src[p] # 0 => src[Parent[p]] # 0

\* While nobody else changed the source, a file that was there is or landed.
Unchanged == edits = MaxEdits
Remains == Unchanged => \A p \in Files \ Fresh : src[p] # 0 \/ landed[p] # {}

\* A file is through, or it or a folder it is in is left out or to be copied.
Accounted(p) == landed[p] # {} \/ stage[p] # 0 \/ LeftOut(p) \/ \E c \in Above[p] : Open(frames, c)
Complete == Unchanged /\ ~unstored /\ step \in {"walk", "reading", "failed", "publish"} =>
                \A p \in Files \ Fresh : Accounted(p)
AllThrough == step = "publish" => \A c \in Paths : ~Open(frames, c)
Arrived == Unchanged /\ (step \in {"inspect", "delete"} \/ report.done) =>
               \A p \in Files \ Fresh : landed[p] # {} \/ LeftOut(p)
Reported == report.done => step = "finished" /\ report.leftOut = failures.leftOut

\* Every record of a file is stale or still in the queue.
StaleOrQueued ==
    step \in {"inspect", "delete"} \/ report.done =>
        \A i \in DOMAIN copied : copied[i].entry \in Files =>
            \/ src[copied[i].entry] # copied[i].seen
            \/ step # "finished" /\ \E j \in DOMAIN queue : queue[j] = copied[i]

\* Until its removal begins the source is as it was.
Removing == \/ step \in {"inspect", "delete"}
            \/ step = "settle" /\ error = "recovery"
            \/ step = "finished" /\ (report.done \/ report.recovery)
Untouched == "elevate" \notin Answers =>
    /\ failures.elevation = FALSE
    /\ Unchanged /\ ~Removing => \A p \in Paths \ Fresh : src[p] = 1

EndInv == /\ TreeIntact /\ Remains /\ Complete /\ AllThrough /\ Arrived /\ Reported
          /\ StaleOrQueued /\ Untouched

-----------------------------------------------------------------------------
(* Of a path below a folder, something directly in the folder is above it. *)

LEMMA Descends ==
    ASSUME NEW p \in Paths, NEW c \in Above[p], c # p
    PROVE  \E t \in Above[p] : t \in Entries /\ Parent[t] = c
<1> SUFFICES ASSUME \A t \in Above[p] : t \in Entries => Parent[t] # c PROVE FALSE
    OBVIOUS
<1> DEFINE set == Above[p] \ {c}
<1>1. set \in SUBSET Paths /\ p \in set
    BY AboveArePaths, AboveSelf
<1>2. ASSUME NEW q \in set \cap Entries PROVE Parent[q] \in set
    BY <1>2, AboveParent
<1>3. ClosedUp(set)
    BY <1>2 DEF ClosedUp
<1> HIDE DEF set
<1>4. c \in set
    BY <1>1, <1>3 DEF Above
<1> QED
    BY <1>4 DEF set

\* What exists is in folders that exist, all the way up.
LEMMA AboveExists ==
    ASSUME Inv, TreeIntact, NEW p \in Paths, src[p] # 0, NEW c \in Above[p]
    PROVE  src[c] # 0
<1> DEFINE set == {q \in Paths : src[q] # 0}
<1>1. set \in SUBSET Paths /\ p \in set
    OBVIOUS
<1>2. ClosedUp(set)
    BY ParentIsFolder DEF TreeIntact, ClosedUp
<1> HIDE DEF set
<1>3. c \in set
    BY <1>1, <1>2 DEF Above
<1> QED
    BY <1>3 DEF set

\* A file below a folder that is entered is among what is to be copied there,
\* or below it.
LEMMA EnteredCovers ==
    ASSUME Inv, TreeIntact, Remains, Unchanged, NEW p \in Files \ Fresh, landed[p] = {},
           NEW c \in Above[p], c # p
    PROVE  \E t \in Above[p] : t \in Children(c)
<1>1. p \in Files /\ p \in Paths
    BY FilesArePaths
<1>2. src[p] # 0
    BY DEF Remains
<1>3. PICK t \in Above[p] : t \in Entries /\ Parent[t] = c
    BY <1>1, Descends
<1>4. src[t] # 0
    BY <1>1, <1>2, AboveExists
<1> QED
    BY <1>3, <1>4 DEF Children

-----------------------------------------------------------------------------
(* What is open                                                            *)

LEMMA OpenThrough ==
    ASSUME NEW fs, Walk(fs), fs # <<>>, NEW c, NEW a, a # c, Open(fs, a)
    PROVE  Open(Through(fs, c), a)
<1> DEFINE new == Through(fs, c)
<1>0. IsThrough(new, fs, c)
    BY ThroughFrames
<1> HIDE DEF new
<1>1. Len(fs) \in Nat /\ DOMAIN fs = 1 .. Len(fs)
    BY WalkFrames
<1>2. PICK j \in DOMAIN fs : a \in fs[j].todo /\ (j = 1 \/ a # fs[j - 1].entry)
    BY DEF Open
<1>3. a \in new[j].todo /\ j \in DOMAIN new
    BY <1>0, <1>2 DEF IsThrough
<1>4. j = 1 \/ a # new[j - 1].entry
    BY <1>0, <1>1, <1>2 DEF IsThrough
<1>5. Open(new, a)
    BY <1>3, <1>4 DEF Open
<1> QED
    BY <1>5 DEF new

LEMMA OpenPush ==
    ASSUME NEW fs, Walk(fs), NEW f \in FrameRec
    PROVE  /\ \A t \in f.todo : Open(<<f>> \o fs, t)
           /\ \A a : Open(fs, a) /\ a # f.entry => Open(<<f>> \o fs, a)
<1> DEFINE new == <<f>> \o fs
<1>1. /\ DOMAIN new = 1 .. Len(fs) + 1 /\ new[1] = f
      /\ \A i \in DOMAIN fs : new[i + 1] = fs[i]
    BY PushFrames
<1> HIDE DEF new
<1>2. Len(fs) \in Nat /\ DOMAIN fs = 1 .. Len(fs)
    BY WalkFrames
<1>3. ASSUME NEW t \in f.todo PROVE Open(new, t)
    BY <1>1, <1>2 DEF Open
<1>4. ASSUME NEW a, Open(fs, a), a # f.entry PROVE Open(new, a)
    <2>1. PICK j \in DOMAIN fs : a \in fs[j].todo /\ (j = 1 \/ a # fs[j - 1].entry)
        BY <1>4 DEF Open
    <2>2. j + 1 \in DOMAIN new /\ a \in new[j + 1].todo /\ (j + 1) - 1 = j
        BY <1>1, <1>2, <2>1
    <2>3. a # new[j].entry
        <3>1. CASE j = 1
            BY <1>1, <1>4, <3>1
        <3>2. CASE j # 1
            <4>1. j - 1 \in DOMAIN fs /\ (j - 1) + 1 = j
                BY <1>2, <3>2
            <4> QED
                BY <1>1, <2>1, <3>2, <4>1
        <3> QED
            BY <3>1, <3>2
    <2> QED
        BY <2>2, <2>3 DEF Open
<1>5. (\A t \in f.todo : Open(new, t)) /\ (\A a : Open(fs, a) /\ a # f.entry => Open(new, a))
    BY <1>3, <1>4
<1> QED
    BY <1>5 DEF new

LEMMA OpenTail ==
    ASSUME NEW fs, Walk(fs), fs # <<>>, NEW a, Open(fs, a), a \notin fs[1].todo
    PROVE  Open(Tail(fs), a) /\ a # fs[1].entry
<1> DEFINE new == Tail(fs)
<1>1. /\ Len(new) = Len(fs) - 1 /\ DOMAIN new = 1 .. Len(fs) - 1
      /\ \A i \in DOMAIN new : i + 1 \in DOMAIN fs /\ new[i] = fs[i + 1]
    BY TailFrames
<1> HIDE DEF new
<1>2. Len(fs) \in Nat /\ DOMAIN fs = 1 .. Len(fs) /\ 1 \in DOMAIN fs
    BY WalkFrames
<1>3. PICK j \in DOMAIN fs : a \in fs[j].todo /\ (j = 1 \/ a # fs[j - 1].entry)
    BY DEF Open
<1>4. j # 1 /\ j - 1 \in DOMAIN new /\ new[j - 1] = fs[j]
    BY <1>1, <1>2, <1>3
<1>5. j - 1 = 1 \/ a # new[(j - 1) - 1].entry
    <2>1. CASE j - 1 # 1
        <3>1. (j - 1) - 1 \in DOMAIN new /\ new[(j - 1) - 1] = fs[j - 1]
            BY <1>1, <1>2, <1>4, <2>1
        <3> QED
            BY <1>3, <1>4, <3>1
    <2> QED
        BY <2>1
<1>6. Open(new, a)
    BY <1>3, <1>4, <1>5 DEF Open
<1>7. a \in Entries /\ a # fs[1].entry
    <2>1. a \in Entries
        BY <1>3, WalkFrames
    <2> QED
        BY <1>2, <2>1, OpenIsNoFrame
<1> QED
    BY <1>6, <1>7 DEF new

\* The failed folder is open again in the one it is in.
LEMMA OpenFailed ==
    ASSUME NEW fs, Walk(fs), fs # <<>>, Tail(fs) # <<>>, fs[1].entry \in Tail(fs)[1].todo,
           NEW p \in Paths, NEW a \in Above[p], Open(fs, a)
    PROVE  \E b \in Above[p] : Open(Tail(fs), b)
<1>1. CASE a \in fs[1].todo
    <2>1. a \in Entries /\ Parent[a] = fs[1].entry
        BY <1>1, HeadOpen
    <2>2. fs[1].entry \in Above[p]
        BY <2>1, AboveParent
    <2>3. Open(Tail(fs), fs[1].entry)
        BY TailWalk, HeadOpen
    <2> QED
        BY <2>2, <2>3
<1>2. CASE a \notin fs[1].todo
    BY <1>2, OpenTail
<1> QED
    BY <1>1, <1>2

-----------------------------------------------------------------------------
(* The steps keep the promises                                             *)

LEMMA InitEnd == ASSUME Init PROVE EndInv
<1> USE ConstantsAssumption DEF Init
<1>1. TreeIntact
    BY ParentIsFolder DEF TreeIntact, Paths
<1>2. Remains
    BY FilesArePaths DEF Remains
<1> QED
    BY <1>1, <1>2
       DEF EndInv, Complete, AllThrough, Arrived, Reported, StaleOrQueued, Untouched

\* A step of the copy, before anything is published or removed.
LEMMA CopyStepEnd ==
    ASSUME Inv, EndInv, UNCHANGED <<src, landed, edits, report>>,
           step \in {"start", "walk", "reading", "failed", "publish"},
           step' \in {"walk", "reading", "failed", "publish", "settle"},
           "elevate" \notin Answers => failures'.elevation = FALSE,
           Complete', AllThrough'
    PROVE  EndInv'
<1>1. ~report.done /\ ~Removing /\ ~report'.done
    BY DEF EndInv, Reported, Removing
<1>2. TreeIntact' /\ Remains'
    BY DEF EndInv, TreeIntact, Remains, Unchanged
<1>3. Arrived' /\ Reported' /\ StaleOrQueued'
    BY <1>1 DEF Arrived, Reported, StaleOrQueued
<1>4. Untouched'
    BY <1>1 DEF EndInv, Untouched, Unchanged
<1> QED
    BY <1>2, <1>3, <1>4 DEF EndInv

\* The attempt ends with an error.
LEMMA AttemptEndsEnd ==
    ASSUME Inv, EndInv, UNCHANGED <<src, landed, edits, report>>,
           step \in {"start", "walk", "reading", "failed", "publish"}, step' = "settle",
           "elevate" \notin Answers => failures'.elevation = FALSE
    PROVE  EndInv'
<1>1. Complete' /\ AllThrough'
    BY DEF Complete, AllThrough
<1> QED
    BY <1>1, CopyStepEnd

LEMMA StartAttemptEnd == ASSUME Inv, EndInv, StartAttempt PROVE EndInv'
<1>1. UNCHANGED <<src, edits, landed, report>> /\ step = "start" /\ failures'.elevation = FALSE
    BY DEF StartAttempt, FreshFailures, sourceVars, endVars, Inv, TypeOK
<1>2. CASE step' = "settle"
    BY <1>1, <1>2, AttemptEndsEnd
<1>3. CASE step' = "walk" /\ frames' = <<Frame(Top, 1, 0)>>
    <2>1. AllThrough'
        BY <1>3 DEF AllThrough
    <2>2. Complete'
        <3>1. ASSUME Unchanged, NEW p \in Files \ Fresh, landed[p] = {} PROVE Accounted(p)'
            <4>1. Top \in Above[p] /\ Top # p
                BY TreeAssumption, ConstantsAssumption DEF Files
            <4>2. PICK t \in Above[p] : t \in Children(Top)
                BY <3>1, <4>1, EnteredCovers DEF EndInv
            <4>3. Open(frames', t)
                <5>1. frames'[1].todo = Children(Top) /\ 1 \in DOMAIN frames'
                    BY <1>3 DEF Frame
                <5> QED
                    BY <4>2, <5>1 DEF Open
            <4> QED
                BY <4>2, <4>3 DEF Accounted
        <3>2. ASSUME NEW p \in Files \ Fresh, landed[p] # {} PROVE Accounted(p)'
            BY <1>1, <3>2 DEF Accounted
        <3> QED
            BY <1>1, <3>1, <3>2 DEF Complete, Unchanged
    <2> QED
        BY <1>1, <1>3, <2>1, <2>2, CopyStepEnd
<1> QED
    BY <1>2, <1>3 DEF StartAttempt

\* While the copy goes on, every file is accounted for.
LEMMA CompleteStep ==
    ASSUME EndInv, step \in {"walk", "reading", "failed", "publish"}, UNCHANGED edits,
           ~unstored' => ~unstored,
           \A p \in Files \ Fresh : Accounted(p) => Accounted(p)'
    PROVE  Complete'
BY DEF EndInv, Complete, Unchanged

LEMMA CopyEntryEnd == ASSUME Inv, EndInv, NEW c \in Entries, CopyEntry(c) PROVE EndInv'
<1>1. /\ UNCHANGED <<src, edits, landed, report, failures>> /\ step = "walk"
      /\ frames # <<>> /\ c \in Head(frames).todo
    BY DEF CopyEntry, sourceVars, endVars
<1>2. Walk(frames) /\ copied \in Seq(Record)
    BY DEF Inv, TypeOK
<1>3. c \in frames[1].todo /\ Open(frames, c) /\ c \in Paths
    BY <1>1, <1>2, WalkFrames, HeadOpen DEF Paths
<1>4. step' \in {"walk", "reading", "failed"}
    BY <1>1 DEF CopyEntry, EntryFails
<1>5. AllThrough' /\ ("elevate" \notin Answers => failures'.elevation = FALSE)
    BY <1>1, <1>4 DEF AllThrough, EndInv, Untouched
<1>6. CASE UNCHANGED <<stage, frames, unstored>>
    <2>1. ASSUME NEW p \in Files \ Fresh, Accounted(p) PROVE Accounted(p)'
        BY <1>1, <1>6, <2>1 DEF Accounted, LeftOut
    <2>2. Complete'
        BY <1>1, <1>6, <2>1, CompleteStep
    <2> QED
        BY <1>1, <1>4, <1>5, <2>2, CopyStepEnd
<1>7. CASE unstored' = TRUE
    <2>1. Complete'
        BY <1>7 DEF Complete
    <2> QED
        BY <1>1, <1>4, <1>5, <2>1, CopyStepEnd
<1>8. CASE /\ src[c] # 0 /\ c \in Folders /\ stage' = [stage EXCEPT ![c] = 1]
           /\ frames' = <<Frame(c, src[c], Len(copied))>> \o frames /\ UNCHANGED unstored
    <2> DEFINE f == Frame(c, src[c], Len(copied))
    <2>1. f \in FrameRec /\ f.entry = c /\ f.todo = Children(c)
        <3>1. Len(copied) \in Nat /\ src[c] \in Content
            BY <1>2, <1>3, LenProperties DEF Inv, TypeOK
        <3> QED
            BY <1>8, <3>1, FrameIsFrame DEF Frame
    <2> HIDE DEF f
    <2>2. frames' = <<f>> \o frames
        BY <1>8 DEF f
    <2>3. ASSUME Unchanged, NEW p \in Files \ Fresh, Accounted(p) PROVE Accounted(p)'
        <3>1. p \in Paths /\ p # c
            BY <1>8, FilesArePaths
        <3>2. CASE landed[p] # {} \/ stage[p] # 0 \/ LeftOut(p)
            BY <1>1, <1>8, <3>1, <3>2 DEF Accounted, LeftOut, Inv, TypeOK
        <3>3. ASSUME NEW a \in Above[p], Open(frames, a), landed[p] = {} PROVE Accounted(p)'
            <4>1. CASE a = c
                <5>1. PICK t \in Above[p] : t \in Children(c)
                    BY <2>3, <3>1, <3>3, <4>1, EnteredCovers DEF EndInv
                <5> QED
                    BY <1>2, <2>1, <2>2, <5>1, OpenPush DEF Accounted
            <4>2. CASE a # c
                BY <1>2, <2>1, <2>2, <3>3, <4>2, OpenPush DEF Accounted
            <4> QED
                BY <4>1, <4>2
        <3> QED
            BY <2>3, <3>2, <3>3 DEF Accounted
    <2>4. Complete'
        BY <1>1, <1>8, <2>3 DEF EndInv, Complete, Unchanged
    <2> QED
        BY <1>1, <1>4, <1>5, <2>4, CopyStepEnd
<1>9. CASE stage' = [stage EXCEPT ![c] = Part] /\ UNCHANGED <<frames, unstored>>
    <2>1. ASSUME NEW p \in Files \ Fresh, Accounted(p) PROVE Accounted(p)'
        <3>1. stage[p] # 0 => stage'[p] # 0
            BY <1>9, FilesArePaths DEF Part, Inv, TypeOK
        <3> QED
            BY <1>1, <1>9, <2>1, <3>1 DEF Accounted, LeftOut
    <2>2. Complete'
        BY <1>1, <1>9, <2>1, CompleteStep
    <2> QED
        BY <1>1, <1>4, <1>5, <2>2, CopyStepEnd
<1> QED
    BY <1>6, <1>7, <1>8, <1>9 DEF CopyEntry

LEMMA ReadFileEnd == ASSUME Inv, EndInv, ReadFile PROVE EndInv'
<1>1. UNCHANGED <<src, edits, landed, report, failures, unstored>> /\ step = "reading"
    BY DEF ReadFile, sourceVars, endVars
<1>2. Walk(frames) /\ frames # <<>> /\ entry \in Head(frames).todo /\ entry \in Files /\ seen # 0 /\ Versions
    <2>1. seen \in 1 .. Newest /\ Versions
        BY <1>1 DEF Inv, AtEntry
    <2>2. Newest \in Nat
        BY <2>1, VersionsAreContent, ConstantsAssumption
    <2> QED
        BY <1>1, <2>1, <2>2 DEF Inv, AtEntry
<1>3. Open(frames, entry) /\ entry \in Paths
    BY <1>2, WalkFrames, HeadOpen, FilesArePaths
<1>4. step' \in {"walk", "failed"}
    BY DEF ReadFile, EntryFails
<1>5. AllThrough' /\ ("elevate" \notin Answers => failures'.elevation = FALSE)
    BY <1>1, <1>4 DEF AllThrough, EndInv, Untouched
<1>6. CASE /\ stage' = [stage EXCEPT ![entry] = IF src[entry] = 0 THEN seen ELSE src[entry]]
           /\ frames' = Through(frames, entry)
    <2>1. ASSUME NEW p \in Files \ Fresh, Accounted(p) PROVE Accounted(p)'
        <3>1. p \in Paths
            BY FilesArePaths
        <3>2. CASE landed[p] # {} \/ LeftOut(p)
            BY <1>1, <3>2 DEF Accounted, LeftOut
        <3>3. CASE p = entry \/ stage[p] # 0
            <4>1. stage'[p] # 0
                BY <1>2, <1>6, <3>1, <3>3 DEF Inv, TypeOK
            <4> QED
                BY <4>1 DEF Accounted
        <3>4. ASSUME NEW a \in Above[p], Open(frames, a), p # entry PROVE Accounted(p)'
            <4>1. a # entry
                BY <1>2, <3>1, <3>4, FileAboveItself
            <4>2. Open(frames', a)
                BY <1>2, <1>6, <3>4, <4>1, OpenThrough
            <4> QED
                BY <3>4, <4>2 DEF Accounted
        <3> QED
            BY <2>1, <3>2, <3>3, <3>4 DEF Accounted
    <2>2. Complete'
        BY <1>1, <2>1, CompleteStep
    <2> QED
        BY <1>1, <1>4, <1>5, <2>2, CopyStepEnd
<1>7. CASE stage' \in {stage, [stage EXCEPT ![entry] = 0]} /\ UNCHANGED frames
    <2>1. ASSUME NEW p \in Files \ Fresh, Accounted(p) PROVE Accounted(p)'
        <3>1. p \in Paths
            BY FilesArePaths
        <3>2. CASE p = entry
            BY <1>3, <1>7, <3>1, <3>2, AboveSelf DEF Accounted
        <3>3. CASE p # entry
            <4>1. stage'[p] = stage[p]
                BY <1>7, <3>1, <3>3 DEF Inv, TypeOK
            <4> QED
                BY <1>1, <1>7, <2>1, <4>1 DEF Accounted, LeftOut
        <3> QED
            BY <3>2, <3>3
    <2>2. Complete'
        BY <1>1, <2>1, CompleteStep
    <2> QED
        BY <1>1, <1>4, <1>5, <2>2, CopyStepEnd
<1> QED
    BY <1>6, <1>7 DEF ReadFile

LEMMA FinishFolderEnd == ASSUME Inv, EndInv, FinishFolder PROVE EndInv'
<1>1. /\ UNCHANGED <<src, edits, landed, report, failures, unstored, stage>> /\ step = "walk"
      /\ frames # <<>> /\ Head(frames).todo = {}
    BY DEF FinishFolder, sourceVars, endVars
<1>2. Walk(frames) /\ Head(frames) = frames[1] /\ Len(frames) \in Nat /\ DOMAIN frames = 1 .. Len(frames)
    BY <1>1, WalkFrames DEF Inv
<1>3. "elevate" \notin Answers => failures'.elevation = FALSE
    BY <1>1 DEF EndInv, Untouched
<1>4. CASE Len(frames) = 1 /\ step' = "publish" /\ UNCHANGED frames
    <2>1. ASSUME NEW p \in Files \ Fresh, Accounted(p) PROVE Accounted(p)'
        BY <1>1, <1>4, <2>1 DEF Accounted, LeftOut
    <2>2. Complete'
        BY <1>1, <1>4, <2>1, CompleteStep
    <2>3. AllThrough'
        <3>1. \A c \in Paths : ~Open(frames, c)
            BY <1>1, <1>2, <1>4 DEF Open
        <3> QED
            BY <1>4, <3>1 DEF AllThrough
    <2> QED
        BY <1>1, <1>3, <1>4, <2>2, <2>3, CopyStepEnd
<1>5. CASE Len(frames) # 1 /\ UNCHANGED step /\ frames' = Through(Tail(frames), Head(frames).entry)
    <2>1. Walk(Tail(frames)) /\ Tail(frames) # <<>>
        <3>1. copied \in Seq(Record) /\ Kept(frames, copied)
            BY DEF Inv, TypeOK
        <3> QED
            BY <1>1, <1>2, <1>5, <3>1, KeptFailed
    <2>2. ASSUME NEW a, Open(frames, a) PROVE Open(frames', a)
        <3>1. Open(Tail(frames), a) /\ a # frames[1].entry
            BY <1>1, <1>2, <2>2, OpenTail
        <3> QED
            BY <1>2, <1>5, <2>1, <3>1, OpenThrough
    <2>3. ASSUME NEW p \in Files \ Fresh, Accounted(p) PROVE Accounted(p)'
        BY <1>1, <2>2, <2>3 DEF Accounted, LeftOut
    <2>4. Complete'
        BY <1>1, <1>5, <2>3, CompleteStep
    <2>5. AllThrough'
        BY <1>1, <1>5 DEF AllThrough
    <2> QED
        BY <1>1, <1>3, <1>5, <2>4, <2>5, CopyStepEnd
<1> QED
    BY <1>4, <1>5 DEF FinishFolder

LEMMA StopWalkEnd == ASSUME Inv, EndInv, StopWalk PROVE EndInv'
<1>1. UNCHANGED <<src, edits, landed, report, failures>> /\ step \in {"walk", "publish"} /\ step' = "settle"
    BY DEF StopWalk, sourceVars, endVars
<1> QED
    BY <1>1, AttemptEndsEnd DEF EndInv, Untouched

\* An error that goes up loses nothing: the folder it goes to is open again.
LEMMA PropagateEnd ==
    ASSUME Inv, EndInv, step = "failed", NEW reason \in Error, Propagate(reason),
           UNCHANGED <<src, landed, edits, report, stage, unstored>>,
           failures.leftOut \subseteq failures'.leftOut,
           "elevate" \notin Answers => failures'.elevation = FALSE
    PROVE  EndInv'
<1>1. Walk(frames) /\ Kept(frames, copied) /\ copied \in Seq(Record) /\ frames # <<>>
    BY DEF Inv, TypeOK, AtEntry
<1>2. CASE Len(frames) = 1
    <2>1. step' = "settle"
        BY <1>2 DEF Propagate
    <2> QED
        BY <2>1, AttemptEndsEnd
<1>3. CASE Len(frames) # 1
    <2>1. step' = "failed" /\ frames' = Tail(frames)
        BY <1>3 DEF Propagate, EntryFails
    <2>2. Tail(frames) # <<>> /\ frames[1].entry \in Tail(frames)[1].todo
        BY <1>1, <1>3, KeptFailed
    <2>3. ASSUME NEW p \in Files \ Fresh, Accounted(p) PROVE Accounted(p)'
        <3>1. p \in Paths
            BY FilesArePaths
        <3>2. CASE landed[p] # {} \/ stage[p] # 0 \/ LeftOut(p)
            BY <3>2 DEF Accounted, LeftOut
        <3>3. ASSUME NEW a \in Above[p], Open(frames, a) PROVE Accounted(p)'
            <4>1. \E b \in Above[p] : Open(Tail(frames), b)
                BY <1>1, <2>2, <3>1, <3>3, OpenFailed
            <4> QED
                BY <2>1, <4>1 DEF Accounted
        <3> QED
            BY <2>3, <3>2, <3>3 DEF Accounted
    <2>4. Complete'
        BY <2>3, CompleteStep
    <2>5. AllThrough'
        BY <2>1 DEF AllThrough
    <2> QED
        BY <2>1, <2>4, <2>5, CopyStepEnd
<1> QED
    BY <1>2, <1>3

LEMMA EntryStopsItemEnd == ASSUME Inv, EndInv, EntryStopsItem PROVE EndInv'
<1>1. UNCHANGED <<src, edits, landed, report, stage, unstored>> /\ step = "failed"
    BY DEF EntryStopsItem, sourceVars, endVars
<1>2. error \in Error /\ "cancelled" \in Error /\ failures \in FailureRec
    BY DEF Inv, TypeOK, Error, FailureRec
<1>3. \E reason \in Error : Propagate(reason)
    BY <1>2 DEF EntryStopsItem
<1>4. failures'.leftOut = failures.leftOut
    BY <1>2 DEF EntryStopsItem, FailureRec
<1>5. "elevate" \notin Answers => failures'.elevation = FALSE
    <2>1. "elevate" \notin Answers => UNCHANGED failures
        BY DEF EntryStopsItem, Ask
    <2> QED
        BY <2>1 DEF EndInv, Untouched
<1> QED
    BY <1>1, <1>3, <1>4, <1>5, PropagateEnd

\* What a failed entry left in staging is discarded: it is copied again, or it
\* is among what is left out.
LEMMA DiscardEnd ==
    ASSUME Inv, EndInv, step = "failed", NEW retry \in BOOLEAN, DiscardThen(retry),
           failures.leftOut \subseteq failures'.leftOut, retry \/ entry \in failures'.leftOut,
           "elevate" \notin Answers => failures'.elevation = FALSE,
           UNCHANGED <<src, edits, landed, report, unstored>>
    PROVE  EndInv'
<1>1. Walk(frames) /\ frames # <<>> /\ entry \in Head(frames).todo
    BY DEF Inv, AtEntry
<1>2. Open(frames, entry)
    BY <1>1, WalkFrames, HeadOpen
<1>3. CASE /\ step' = "walk" /\ frames' = (IF retry THEN frames ELSE Through(frames, entry))
           /\ stage' = Discarded(entry) \/ UNCHANGED stage
    <2>1. ASSUME NEW p \in Files \ Fresh, Accounted(p) PROVE Accounted(p)'
        <3>1. p \in Paths
            BY FilesArePaths
        <3>2. CASE landed[p] # {} \/ LeftOut(p)
            BY <3>2 DEF Accounted, LeftOut
        <3>3. CASE entry \in Above[p]
            <4>1. CASE retry
                BY <1>2, <1>3, <3>3, <4>1 DEF Accounted
            <4>2. CASE entry \in failures'.leftOut
                BY <3>3, <4>2 DEF Accounted, LeftOut
            <4> QED
                BY <4>1, <4>2
        <3>4. CASE entry \notin Above[p] /\ stage[p] # 0
            <4>1. stage'[p] = stage[p]
                BY <1>3, <3>1, <3>4 DEF Discarded
            <4> QED
                BY <3>4, <4>1 DEF Accounted
        <3>5. ASSUME entry \notin Above[p], NEW a \in Above[p], Open(frames, a) PROVE Accounted(p)'
            <4>1. Open(frames', a)
                BY <1>1, <1>3, <3>5, OpenThrough
            <4> QED
                BY <3>5, <4>1 DEF Accounted
        <3> QED
            BY <2>1, <3>2, <3>3, <3>4, <3>5 DEF Accounted
    <2>2. Complete'
        BY <2>1, CompleteStep
    <2>3. AllThrough'
        BY <1>3 DEF AllThrough
    <2> QED
        BY <1>3, <2>2, <2>3, CopyStepEnd
<1>4. CASE Propagate("denied") /\ UNCHANGED stage
    BY <1>4, PropagateEnd DEF Error
<1> QED
    BY <1>3, <1>4 DEF DiscardThen

LEMMA RetryEntryEnd == ASSUME Inv, EndInv, RetryEntry PROVE EndInv'
<1>1. UNCHANGED <<src, edits, landed, report, unstored, failures>> /\ step = "failed" /\ DiscardThen(TRUE)
    BY DEF RetryEntry, sourceVars, endVars
<1>2. "elevate" \notin Answers => failures'.elevation = FALSE
    BY <1>1 DEF EndInv, Untouched
<1> QED
    BY <1>1, <1>2, DiscardEnd

LEMMA SkipEntryEnd == ASSUME Inv, EndInv, SkipEntry PROVE EndInv'
<1>1. UNCHANGED <<src, edits, landed, report, unstored>> /\ step = "failed" /\ DiscardThen(FALSE)
    BY DEF SkipEntry, sourceVars, endVars
<1>2. failures \in FailureRec
    BY DEF Inv, TypeOK, FailureRec
<1>3. failures'.leftOut = failures.leftOut \cup {entry} /\ failures'.elevation = failures.elevation
    BY <1>2 DEF SkipEntry, FailureRec
<1>4. "elevate" \notin Answers => failures'.elevation = FALSE
    BY <1>3 DEF EndInv, Untouched
<1>5. failures.leftOut \subseteq failures'.leftOut /\ entry \in failures'.leftOut
    BY <1>3
<1> QED
    BY <1>1, <1>4, <1>5, DiscardEnd

LEMMA PublishEnd == ASSUME Inv, EndInv, Publish PROVE EndInv'
<1>1. UNCHANGED <<src, edits, report, stage, failures, unstored, copied>> /\ step = "publish"
    BY DEF Publish, sourceVars
<1>2. ~report.done /\ ~report'.done
    BY <1>1 DEF EndInv, Reported
<1>3. CASE UNCHANGED landed /\ step' = "settle"
    BY <1>1, <1>3, AttemptEndsEnd DEF EndInv, Untouched
<1>4. CASE /\ landed' = [p \in Paths |-> landed[p] \cup ({stage[p]} \ {0})]
           /\ \/ step' = "settle" /\ error' = "recovery"
              \/ ~unstored /\ step' = "inspect" /\ queue' = Append(copied, [entry |-> Top, seen |-> 1])
    <2>1. TreeIntact'
        BY <1>1 DEF EndInv, TreeIntact
    <2>2. \A p \in Paths : landed[p] # {} \/ stage[p] # 0 => landed'[p] # {}
        BY <1>4
    <2>3. Remains'
        BY <1>1, <2>2, FilesArePaths DEF EndInv, Remains, Unchanged
    <2>4. Reported'
        BY <1>2 DEF Reported
    <2>5. CASE step' = "settle" /\ error' = "recovery"
        <3>1. Complete' /\ AllThrough' /\ Arrived' /\ StaleOrQueued'
            BY <1>2, <2>5 DEF Complete, AllThrough, Arrived, StaleOrQueued
        <3>2. Untouched'
            BY <1>1, <2>5 DEF EndInv, Untouched, Removing
        <3> QED
            BY <2>1, <2>3, <2>4, <3>1, <3>2 DEF EndInv
    <2>6. CASE ~unstored /\ step' = "inspect" /\ queue' = Append(copied, [entry |-> Top, seen |-> 1])
        <3>1. Complete' /\ AllThrough'
            BY <2>6 DEF Complete, AllThrough
        <3>2. Arrived'
            <4>1. ASSUME Unchanged, NEW p \in Files \ Fresh PROVE landed'[p] # {} \/ LeftOut(p)
                <5>1. p \in Paths
                    BY FilesArePaths
                <5>2. Accounted(p)
                    BY <1>1, <2>6, <4>1 DEF EndInv, Complete
                <5>3. \A c \in Above[p] : ~Open(frames, c)
                    BY <1>1, <5>1, AboveArePaths DEF EndInv, AllThrough
                <5> QED
                    BY <2>2, <5>1, <5>2, <5>3 DEF Accounted
            <4> QED
                BY <1>1, <4>1 DEF Arrived, Unchanged, LeftOut
        <3>3. StaleOrQueued'
            <4>1. ASSUME NEW i \in DOMAIN copied PROVE i \in DOMAIN queue' /\ queue'[i] = copied[i]
                <5>1. copied \in Seq(Record)
                    BY DEF Inv, TypeOK
                <5> QED
                    BY <2>6, <4>1, <5>1
            <4> QED
                BY <1>1, <2>6, <4>1 DEF StaleOrQueued
        <3>4. Untouched'
            BY <1>1, <2>6 DEF EndInv, Untouched, Removing
        <3> QED
            BY <2>1, <2>3, <2>4, <3>1, <3>2, <3>3, <3>4 DEF EndInv
    <2> QED
        BY <1>4, <2>5, <2>6
<1> QED
    BY <1>3, <1>4 DEF Publish

\* A record leaves the queue only when the source no longer has its version.
LEMMA StillQueued ==
    ASSUME Inv, queue # <<>>, NEW i \in DOMAIN copied, copied[i].entry \in Files,
           NEW j \in DOMAIN queue, queue[j] = copied[i]
    PROVE  /\ copied[i].seen \in 1 .. Newest /\ copied[i].entry \in Paths
           /\ Head(queue) = copied[i] \/ \E k \in DOMAIN Tail(queue) : Tail(queue)[k] = copied[i]
<1>1. Faithful(copied, stage, src, Newest) /\ queue \in Seq(Record)
    BY DEF Inv, TypeOK
<1>2. copied[i].seen \in 1 .. Newest /\ copied[i].entry \in Paths
    BY <1>1, FilesArePaths DEF Faithful
<1>3. Len(queue) \in Nat /\ DOMAIN queue = 1 .. Len(queue) /\ Head(queue) = queue[1]
    BY <1>1, LenProperties, HeadTailProperties
<1>4. /\ DOMAIN Tail(queue) = 1 .. Len(queue) - 1
      /\ \A k \in 1 .. Len(queue) - 1 : Tail(queue)[k] = queue[k + 1]
    <2>1. /\ Tail(queue) \in Seq(Record) /\ Len(Tail(queue)) = Len(queue) - 1
          /\ \A k \in 1 .. Len(Tail(queue)) : Tail(queue)[k] = queue[k + 1]
        BY <1>1, HeadTailProperties
    <2> QED
        BY <2>1, LenProperties
<1>5. CASE j # 1
    <2>1. j - 1 \in DOMAIN Tail(queue) /\ Tail(queue)[j - 1] = queue[j]
        BY <1>3, <1>4, <1>5
    <2> QED
        BY <1>2, <2>1
<1> QED
    BY <1>2, <1>3, <1>5

LEMMA InspectSourceEnd == ASSUME Inv, EndInv, InspectSource PROVE EndInv'
<1>1. UNCHANGED <<src, edits, landed, stage, failures, unstored, copied>> /\ step = "inspect"
    BY DEF InspectSource, sourceVars
<1>2. step' \in {"inspect", "delete", "settle", "finished"}
    BY <1>1 DEF InspectSource
<1>3. TreeIntact' /\ Remains' /\ Complete' /\ AllThrough'
    BY <1>1, <1>2 DEF EndInv, TreeIntact, Remains, Unchanged, Complete, AllThrough
<1>4. Arrived'
    BY <1>1 DEF EndInv, Arrived, Unchanged, LeftOut
<1>5. ~report.done
    BY <1>1 DEF EndInv, Reported
<1>6. Reported'
    BY <1>1, <1>5 DEF InspectSource, Reported
<1>7. StaleOrQueued'
    <2>1. CASE queue = <<>>
        <3>1. \A i \in DOMAIN copied : copied[i].entry \in Files => src[copied[i].entry] # copied[i].seen
            BY <1>1, <2>1 DEF EndInv, StaleOrQueued
        <3> QED
            BY <1>1, <3>1 DEF StaleOrQueued
    <2>2. CASE queue # <<>> /\ StaysBehind(Head(queue)) /\ queue' = Tail(queue) /\ UNCHANGED step
        <3>1. ASSUME NEW i \in DOMAIN copied, copied[i].entry \in Files, src[copied[i].entry] = copied[i].seen
              PROVE  \E k \in DOMAIN queue' : queue'[k] = copied[i]
            <4>1. PICK j \in DOMAIN queue : queue[j] = copied[i]
                BY <1>1, <3>1 DEF EndInv, StaleOrQueued
            <4>2. CASE Head(queue) = copied[i]
                <5>1. copied[i].seen \in 1 .. Newest /\ Newest \in Nat
                    <6>1. Newest \in Nat
                        BY VersionsAreContent, ConstantsAssumption DEF Inv
                    <6> QED
                        BY <2>2, <3>1, <4>1, <6>1, StillQueued
                <5>2. copied[i].entry \notin Folders
                    BY <3>1, FilesArePaths
                <5> QED
                    BY <2>2, <3>1, <4>2, <5>1, <5>2 DEF StaysBehind
            <4> QED
                BY <2>2, <3>1, <4>1, <4>2, StillQueued
        <3> QED
            BY <1>1, <2>2, <3>1 DEF StaleOrQueued
    <2>3. CASE UNCHANGED queue /\ step' = "delete"
        BY <1>1, <2>3 DEF EndInv, StaleOrQueued
    <2>4. CASE step' = "settle" /\ UNCHANGED report
        BY <1>5, <2>4 DEF StaleOrQueued
    <2> QED
        BY <2>1, <2>2, <2>3, <2>4 DEF InspectSource
<1>8. Untouched'
    <2>1. Removing'
        BY <1>1 DEF InspectSource, Removing
    <2> QED
        BY <1>1, <2>1 DEF EndInv, Untouched
<1> QED
    BY <1>3, <1>4, <1>6, <1>7, <1>8 DEF EndInv

LEMMA DeleteSourceEnd == ASSUME Inv, EndInv, DeleteSource PROVE EndInv'
<1>1. UNCHANGED <<edits, landed, stage, failures, unstored, copied, report>> /\ step = "delete"
    BY DEF DeleteSource
<1>2. ~report.done /\ step' \in {"inspect", "settle"}
    BY <1>1 DEF EndInv, Reported, DeleteSource
<1>3. Complete' /\ AllThrough' /\ Reported'
    BY <1>1, <1>2 DEF Complete, AllThrough, Reported
<1>4. Arrived'
    BY <1>1 DEF EndInv, Arrived, Unchanged, LeftOut
<1>5. Untouched'
    <2>1. Removing'
        BY <1>1 DEF DeleteSource, Removing
    <2> QED
        BY <1>1, <2>1 DEF EndInv, Untouched
<1>6. CASE UNCHANGED src /\ step' = "settle"
    <2>1. TreeIntact' /\ Remains' /\ StaleOrQueued'
        BY <1>1, <1>2, <1>6 DEF EndInv, TreeIntact, Remains, Unchanged, StaleOrQueued
    <2> QED
        BY <1>3, <1>4, <1>5, <2>1 DEF EndInv
<1>7. CASE /\ Head(queue).entry \in Folders => Children(Head(queue).entry) = {}
           /\ src' = [src EXCEPT ![Head(queue).entry] = 0] /\ queue' = Tail(queue) /\ step' = "inspect"
    <2> DEFINE item == Head(queue).entry
    <2>1. queue # <<>> /\ item \in Paths /\ Queued(<<Head(queue)>>, landed, src, Newest)
        BY <1>1, QueueHead DEF Inv, Deleting
    <2>2. src \in [Paths -> Content] /\ edits \in Nat /\ Newest \in Nat
        BY VersionsAreContent, ConstantsAssumption DEF Inv, TypeOK
    <2>3. src'[item] = 0 /\ \A p \in Paths : p # item => src'[p] = src[p]
        BY <1>7, <2>1, <2>2
    <2>4. TreeIntact'
        <3>1. ASSUME NEW p \in Entries, src'[p] # 0 PROVE src'[Parent[p]] # 0
            <4>1. p \in Paths /\ Parent[p] \in Folders /\ Parent[p] \in Paths
                BY ParentIsFolder DEF Paths
            <4>2. src[p] # 0 /\ src[Parent[p]] # 0
                BY <2>3, <3>1, <4>1 DEF EndInv, TreeIntact
            <4>3. Parent[p] # item
                BY <1>7, <4>1, <4>2 DEF Children
            <4> QED
                BY <2>3, <4>1, <4>2, <4>3
        <3> QED
            BY <3>1 DEF TreeIntact
    <2>5. Remains'
        <3>1. ASSUME Unchanged, NEW p \in Files \ Fresh PROVE src'[p] # 0 \/ landed[p] # {}
            <4>1. p \in Paths
                BY FilesArePaths
            <4>2. CASE p = item
                <5>1. src[item] = Head(queue).seen
                    BY <1>1, <3>1 DEF Inv, Deleting, Unchanged
                <5>2. Head(queue).seen \in landed[item]
                    BY <2>1, <4>2, <5>1 DEF Queued
                <5> QED
                    BY <4>2, <5>2
            <4> QED
                BY <2>3, <3>1, <4>1, <4>2 DEF EndInv, Remains
        <3> QED
            BY <1>1, <3>1 DEF Remains, Unchanged
    <2>6. StaleOrQueued'
        <3>1. ASSUME NEW i \in DOMAIN copied, copied[i].entry \in Files, src'[copied[i].entry] = copied[i].seen
              PROVE  \E k \in DOMAIN queue' : queue'[k] = copied[i]
            <4>1. copied[i].seen \in 1 .. Newest /\ copied[i].entry \in Paths
                BY <3>1, FilesArePaths DEF Inv, Faithful
            <4>2. copied[i].entry # item
                BY <2>2, <2>3, <3>1, <4>1
            <4>3. PICK j \in DOMAIN queue : queue[j] = copied[i]
                BY <1>1, <2>3, <3>1, <4>1, <4>2 DEF EndInv, StaleOrQueued
            <4>4. Head(queue) # copied[i]
                BY <4>2
            <4> QED
                BY <1>7, <2>1, <3>1, <4>3, <4>4, StillQueued
        <3> QED
            BY <1>1, <1>7, <3>1 DEF StaleOrQueued
    <2> QED
        BY <1>3, <1>4, <1>5, <2>4, <2>5, <2>6 DEF EndInv
<1> QED
    BY <1>6, <1>7 DEF DeleteSource

LEMMA SettleItemEnd == ASSUME Inv, EndInv, SettleItem PROVE EndInv'
<1>1. UNCHANGED <<src, edits, landed, unstored>> /\ step = "settle" /\ copied' = <<>>
    BY DEF SettleItem, sourceVars
<1>2. step' \in {"start", "finished"} /\ ~report'.done
    BY <1>1 DEF SettleItem, Finish, RunAgain, EndInv, Reported
<1>3. TreeIntact' /\ Remains' /\ Complete' /\ AllThrough' /\ Arrived' /\ Reported' /\ StaleOrQueued'
    BY <1>1, <1>2
       DEF EndInv, TreeIntact, Remains, Unchanged, Complete, AllThrough, Arrived, Reported, StaleOrQueued
<1>4. Untouched'
    <2>1. SUFFICES ASSUME "elevate" \notin Answers
                   PROVE  /\ failures'.elevation = FALSE
                          /\ Unchanged /\ ~Removing' => \A p \in Paths \ Fresh : src[p] = 1
        BY <1>1 DEF Untouched, Unchanged
    <2>2. failures.elevation = FALSE /\ (Unchanged /\ ~Removing => \A p \in Paths \ Fresh : src[p] = 1)
        BY <2>1 DEF EndInv, Untouched
    <2>3. failures'.elevation = FALSE
        <3>1. failures \in FailureRec
            BY DEF Inv, TypeOK, FailureRec
        <3> QED
            BY <2>2, <3>1 DEF SettleItem, FailureRec
    <2>4. ~Removing' => error # "recovery"
        <3>1. CASE Finish(error = "recovery")
            BY <3>1 DEF Finish, Removing
        <3>2. CASE Askable
            BY <3>2 DEF Askable
        <3> QED
            BY <2>2, <3>1, <3>2 DEF SettleItem
    <2>5. ~Removing' => ~Removing
        BY <1>1, <2>4 DEF Removing
    <2> QED
        BY <2>2, <2>3, <2>5
<1> QED
    BY <1>3, <1>4 DEF EndInv

LEMMA CancelEnd == ASSUME Inv, EndInv, Cancel PROVE EndInv'
BY DEF Cancel, EndInv, TreeIntact, Remains, Unchanged, Complete, Accounted, LeftOut, AllThrough, Arrived,
       Reported, StaleOrQueued, Untouched, Removing

LEMMA EditEnd == ASSUME Inv, EndInv, NEW p \in Files, Edit(p) PROVE EndInv'
<1>1. UNCHANGED <<stage, landed, step, frames, copied, queue, error, failures, unstored, report>>
    BY DEF Edit
<1>2. edits \in Nat /\ edits > 0 /\ edits' = edits - 1 /\ edits \in 0 .. MaxEdits /\ MaxEdits \in Nat
    BY ConstantsAssumption DEF Edit, Inv, TypeOK
<1>3. ~Unchanged'
    BY <1>2 DEF Unchanged
<1>4. Remains' /\ Complete' /\ Arrived'
    BY <1>3 DEF Remains, Complete, Arrived
<1>5. AllThrough' /\ Reported'
    BY <1>1 DEF EndInv, AllThrough, Reported
<1>6. Untouched'
    BY <1>1, <1>3 DEF EndInv, Untouched
<1>7. Newest \in Nat /\ MaxEdits - edits + 2 = Newest + 1 /\ src \in [Paths -> Content] /\ p \in Paths
    BY <1>2, FilesArePaths DEF Newest, Inv, TypeOK
<1>8. /\ \A q \in Paths : q # p => src'[q] = src[q]
      /\ src'[p] = Newest + 1 \/ src'[p] = 0
    BY <1>7 DEF Edit
<1>9. TreeIntact'
    <2>1. ASSUME NEW q \in Entries, src'[q] # 0 PROVE src'[Parent[q]] # 0
        <3>1. q \in Paths /\ Parent[q] \in Paths /\ Parent[q] # p
            BY ParentIsFolder, FilesArePaths DEF Paths
        <3>2. src[Parent[q]] # 0
            BY <1>8, <2>1, <3>1 DEF EndInv, TreeIntact, Edit
        <3> QED
            BY <1>8, <3>1, <3>2
    <2> QED
        BY <2>1 DEF TreeIntact
<1>10. StaleOrQueued'
    <2>1. ASSUME NEW i \in DOMAIN copied, copied[i].entry \in Files, src[copied[i].entry] # copied[i].seen
          PROVE  src'[copied[i].entry] # copied[i].seen
        <3>1. copied[i].seen \in 1 .. Newest /\ copied[i].entry \in Paths
            BY <2>1, FilesArePaths DEF Inv, Faithful
        <3> QED
            BY <1>7, <1>8, <2>1, <3>1
    <2> QED
        BY <1>1, <2>1 DEF EndInv, StaleOrQueued
<1> QED
    BY <1>4, <1>5, <1>6, <1>9, <1>10 DEF EndInv

LEMMA StutterEnd == ASSUME EndInv, UNCHANGED vars PROVE EndInv'
BY DEF vars, EndInv, TreeIntact, Remains, Unchanged, Complete, Accounted, LeftOut, AllThrough, Arrived,
       Reported, StaleOrQueued, Untouched, Removing

LEMMA NextEnd == Inv /\ EndInv /\ [Next]_vars => EndInv'
<1> SUFFICES ASSUME Inv, EndInv, [Next]_vars PROVE EndInv'
    OBVIOUS
<1>1. CASE StartAttempt
    BY <1>1, StartAttemptEnd
<1>2. CASE \E c \in Entries : CopyEntry(c)
    BY <1>2, CopyEntryEnd
<1>3. CASE ReadFile
    BY <1>3, ReadFileEnd
<1>4. CASE FinishFolder
    BY <1>4, FinishFolderEnd
<1>5. CASE StopWalk
    BY <1>5, StopWalkEnd
<1>6. CASE EntryStopsItem
    BY <1>6, EntryStopsItemEnd
<1>7. CASE RetryEntry
    BY <1>7, RetryEntryEnd
<1>8. CASE SkipEntry
    BY <1>8, SkipEntryEnd
<1>9. CASE Publish
    BY <1>9, PublishEnd
<1>10. CASE InspectSource
    BY <1>10, InspectSourceEnd
<1>11. CASE DeleteSource
    BY <1>11, DeleteSourceEnd
<1>12. CASE SettleItem
    BY <1>12, SettleItemEnd
<1>13. CASE Cancel
    BY <1>13, CancelEnd
<1>14. CASE \E p \in Entries \ Folders : Edit(p)
    BY <1>14, EditEnd DEF Files
<1>15. CASE UNCHANGED vars
    BY <1>15, StutterEnd
<1> QED
    BY <1>1, <1>2, <1>3, <1>4, <1>5, <1>6, <1>7, <1>8, <1>9, <1>10, <1>11, <1>12, <1>13, <1>14, <1>15
       DEF Next, EngineStep

LEMMA EndAlways == Spec => [](Inv /\ EndInv)
<1>1. Init => Inv /\ EndInv
    BY InitInv, InitEnd
<1>2. (Inv /\ EndInv) /\ [Next]_vars => (Inv /\ EndInv)'
    BY NextInv, NextEnd
<1> QED
    BY <1>1, <1>2, PTL DEF Spec

-----------------------------------------------------------------------------
(* What is left out                                                        *)

(* An entry left out is through: nothing open is above it, nothing above it *)
(* is being copied, and no record is of it or below it.  Only a folder that *)
(* is copied again after something in it was left out could break that.     *)

Passed(fs, t) == Open(fs, t) /\ ~(step = "failed" /\ t = entry) => \A q \in failures.leftOut : t \notin Above[q]
LeftInv ==
    /\ \A t \in Entries : Passed(frames, t)
    /\ \A i \in DOMAIN frames : frames[i].entry \notin failures.leftOut
    /\ step = "failed" => entry \notin failures.leftOut
    /\ \A i \in DOMAIN copied : ~LeftOut(copied[i].entry)
    /\ \A i \in DOMAIN queue : ~LeftOut(queue[i].entry)
    /\ queue # <<>> => step \in {"inspect", "delete", "settle"}

\* Nothing is copied a second time below Top but files.
OnlyFilesAgain == Folders = {Top} \/ "retry" \notin Answers

\* What is open after an entry of the innermost folder is through was open.
LEMMA ThroughOpens ==
    ASSUME NEW fs, Walk(fs), fs # <<>>, NEW c \in fs[1].todo, NEW a, Open(Through(fs, c), a)
    PROVE  Open(fs, a) /\ a # c
<1> DEFINE new == Through(fs, c)
<1>1. IsThrough(new, fs, c)
    BY ThroughFrames
<1> HIDE DEF new
<1>2. Len(fs) \in Nat /\ DOMAIN fs = 1 .. Len(fs) /\ 1 \in DOMAIN fs
    BY WalkFrames
<1>3. PICK j \in DOMAIN new : a \in new[j].todo /\ (j = 1 \/ a # new[j - 1].entry)
    <2>1. Open(new, a)
        BY DEF new
    <2> QED
        BY <2>1 DEF Open
<1>4. j \in DOMAIN fs /\ a \in fs[j].todo /\ (j = 1 => a # c)
    BY <1>1, <1>3 DEF IsThrough
<1>5. j = 1 \/ a # fs[j - 1].entry
    <2>1. CASE j # 1
        <3>1. j - 1 \in DOMAIN fs
            BY <1>2, <1>4, <2>1
        <3> QED
            BY <1>1, <1>3, <2>1, <3>1 DEF IsThrough
    <2> QED
        BY <2>1
<1>6. a # c
    <2>1. CASE a = c
        <3>1. fs[j].entry = fs[1].entry
            BY <1>2, <1>4, <2>1 DEF Walk, TodoBelow
        <3> QED
            BY <1>2, <1>4, <2>1, <3>1 DEF Walk, NoneTwice
    <2> QED
        BY <2>1
<1> QED
    BY <1>4, <1>5, <1>6 DEF Open

\* What is open after a folder is entered is in it, or was open.
LEMMA PushOpens ==
    ASSUME NEW fs, Walk(fs), NEW f \in FrameRec, NEW a, Open(<<f>> \o fs, a)
    PROVE  a \in f.todo \/ Open(fs, a)
<1> DEFINE new == <<f>> \o fs
<1>1. /\ DOMAIN new = 1 .. Len(fs) + 1 /\ new[1] = f
      /\ \A i \in DOMAIN new : i # 1 => i - 1 \in DOMAIN fs /\ new[i] = fs[i - 1]
    BY PushFrames
<1> HIDE DEF new
<1>2. Len(fs) \in Nat /\ DOMAIN fs = 1 .. Len(fs)
    BY WalkFrames
<1>3. PICK j \in DOMAIN new : a \in new[j].todo /\ (j = 1 \/ a # new[j - 1].entry)
    <2>1. Open(new, a)
        BY DEF new
    <2> QED
        BY <2>1 DEF Open
<1>4. CASE j # 1
    <2>1. j - 1 \in DOMAIN fs /\ a \in fs[j - 1].todo
        BY <1>1, <1>3, <1>4
    <2>2. j - 1 = 1 \/ a # fs[(j - 1) - 1].entry
        <3>1. CASE j - 1 # 1
            <4>1. j - 1 \in DOMAIN new /\ new[j - 1] = fs[(j - 1) - 1]
                BY <1>1, <1>2, <2>1, <3>1
            <4> QED
                BY <1>3, <1>4, <4>1
        <3> QED
            BY <3>1
    <2> QED
        BY <2>1, <2>2 DEF Open
<1> QED
    BY <1>1, <1>3, <1>4

\* What is open without the innermost folder is that folder, or was open.
LEMMA TailOpens ==
    ASSUME NEW fs, Walk(fs), fs # <<>>, NEW a, Open(Tail(fs), a)
    PROVE  a \notin fs[1].todo /\ (Open(fs, a) \/ a = fs[1].entry)
<1> DEFINE new == Tail(fs)
<1>1. /\ DOMAIN new = 1 .. Len(fs) - 1
      /\ \A i \in DOMAIN new : i + 1 \in DOMAIN fs /\ new[i] = fs[i + 1]
    BY TailFrames
<1> HIDE DEF new
<1>2. Len(fs) \in Nat /\ DOMAIN fs = 1 .. Len(fs) /\ 1 \in DOMAIN fs
    BY WalkFrames
<1>3. PICK j \in DOMAIN new : a \in new[j].todo /\ (j = 1 \/ a # new[j - 1].entry)
    <2>1. Open(new, a)
        BY DEF new
    <2> QED
        BY <2>1 DEF Open
<1>4. j + 1 \in DOMAIN fs /\ a \in fs[j + 1].todo /\ j + 1 # 1 /\ (j + 1) - 1 = j
    BY <1>1, <1>2, <1>3
<1>5. a \notin fs[1].todo
    <2>1. CASE a \in fs[1].todo
        <3>1. fs[j + 1].entry = fs[1].entry
            BY <1>2, <1>4, <2>1 DEF Walk, TodoBelow
        <3> QED
            BY <1>2, <1>4, <3>1 DEF Walk, NoneTwice
    <2> QED
        BY <2>1
<1>6. a # fs[j].entry \/ a = fs[1].entry
    <2>1. CASE j # 1
        <3>1. j - 1 \in DOMAIN new /\ new[j - 1] = fs[j]
            <4>1. j - 1 \in DOMAIN new /\ (j - 1) + 1 = j
                BY <1>1, <1>2, <1>3, <2>1
            <4> QED
                BY <1>1, <4>1
        <3> QED
            BY <1>3, <2>1, <3>1
    <2> QED
        BY <2>1
<1> QED
    BY <1>4, <1>5, <1>6 DEF Open

\* A folder being copied is in no folder left out, and neither is what is open.
LEMMA FramesNotOut ==
    ASSUME Inv, LeftInv, NEW i \in DOMAIN frames
    PROVE  ~LeftOut(frames[i].entry)
<1>1. AllAbove(frames)
    BY DEF Inv, Walk
<1> QED
    BY <1>1 DEF AllAbove, LeftInv, LeftOut

LEMMA OpenNotOut ==
    ASSUME Inv, LeftInv, NEW t \in Entries, NEW i \in DOMAIN frames, Parent[t] = frames[i].entry,
           t \notin failures.leftOut
    PROVE  ~LeftOut(t)
<1>1. ASSUME NEW q \in Above[t], q \in failures.leftOut PROVE FALSE
    <2>1. q \in Above[frames[i].entry]
        BY <1>1, AboveStep
    <2> QED
        BY <1>1, <2>1, FramesNotOut DEF LeftOut
<1> QED
    BY <1>1 DEF LeftOut

\* What is still to be copied in the innermost folder is not left out.
LEMMA TodoNotOut ==
    ASSUME Inv, LeftInv, frames # <<>>, NEW c \in Head(frames).todo, step = "failed" => c # entry
    PROVE  /\ c \in Entries /\ Open(frames, c) /\ c \notin failures.leftOut /\ ~LeftOut(c)
           /\ \A q \in failures.leftOut : c \notin Above[q]
<1>1. Walk(frames)
    BY DEF Inv
<1>2. Head(frames) = frames[1] /\ 1 \in DOMAIN frames
    BY <1>1, WalkFrames
<1>3. c \in Entries /\ Open(frames, c) /\ Parent[c] = frames[1].entry
    BY <1>1, <1>2, HeadOpen
<1>4. \A q \in failures.leftOut : c \notin Above[q]
    BY <1>3 DEF LeftInv, Passed
<1>5. c \notin failures.leftOut
    BY <1>3, <1>4, AboveSelf DEF Paths
<1> QED
    BY <1>2, <1>3, <1>4, <1>5, OpenNotOut

LEMMA StartAttemptLeft == ASSUME Inv, LeftInv, StartAttempt PROVE LeftInv'
<1>1. failures'.leftOut = {} /\ step = "start" /\ queue' = queue
    BY DEF StartAttempt, FreshFailures, endVars, Inv, TypeOK
<1>2. queue' = <<>>
    BY <1>1 DEF LeftInv
<1> QED
    BY <1>1, <1>2 DEF LeftInv, Passed, LeftOut

LEMMA CopyEntryLeft == ASSUME Inv, LeftInv, NEW c \in Entries, CopyEntry(c) PROVE LeftInv'
<1>1. /\ UNCHANGED <<failures, queue>> /\ step = "walk" /\ frames # <<>> /\ c \in Head(frames).todo
      /\ Walk(frames) /\ copied \in Seq(Record)
    BY DEF CopyEntry, endVars, Inv, TypeOK
<1>2. /\ Open(frames, c) /\ c \notin failures.leftOut /\ \A q \in failures.leftOut : c \notin Above[q]
    BY <1>1, TodoNotOut
<1>3. queue = <<>>
    BY <1>1 DEF LeftInv
<1>4. UNCHANGED copied
    BY <1>1, SubSeqFull DEF CopyEntry, EntryFails
<1>5. step' \in {"walk", "reading", "failed"} /\ (step' = "failed" => entry' = c)
    BY <1>1 DEF CopyEntry, EntryFails
<1>6. ASSUME \A t \in Entries : Open(frames', t) => \A q \in failures.leftOut : t \notin Above[q],
             \A i \in DOMAIN frames' : frames'[i].entry \notin failures.leftOut
      PROVE  LeftInv'
    BY <1>1, <1>2, <1>3, <1>4, <1>5, <1>6 DEF LeftInv, Passed, LeftOut
<1>7. \A t \in Entries : Open(frames, t) => \A q \in failures.leftOut : t \notin Above[q]
    BY <1>1 DEF LeftInv, Passed
<1>8. CASE UNCHANGED frames
    BY <1>6, <1>7, <1>8 DEF LeftInv
<1>9. CASE frames' = Through(frames, c)
    <2>1. c \in frames[1].todo
        BY <1>1, WalkFrames
    <2>2. \A t \in Entries : Open(frames', t) => Open(frames, t)
        BY <1>1, <1>9, <2>1, ThroughOpens
    <2>3. \A i \in DOMAIN frames' : i \in DOMAIN frames /\ frames'[i].entry = frames[i].entry
        <3>1. IsThrough(frames', frames, c)
            BY <1>1, <1>9, ThroughFrames
        <3> QED
            BY <3>1 DEF IsThrough
    <2> QED
        BY <1>6, <1>7, <2>2, <2>3 DEF LeftInv
<1>10. CASE c \in Folders /\ frames' = <<Frame(c, src[c], Len(copied))>> \o frames
    <2> DEFINE f == Frame(c, src[c], Len(copied))
    <2>1. f \in FrameRec /\ f.entry = c /\ \A t \in f.todo : Parent[t] = c
        <3>1. Len(copied) \in Nat /\ src[c] \in Content
            BY <1>1, LenProperties DEF Inv, TypeOK, Paths
        <3> QED
            BY <1>10, <3>1, FrameIsFrame
    <2> HIDE DEF f
    <2>2. frames' = <<f>> \o frames
        BY <1>10 DEF f
    <2>3. ASSUME NEW t \in Entries, Open(frames', t), NEW q \in failures.leftOut PROVE t \notin Above[q]
        <3>1. t \in f.todo \/ Open(frames, t)
            BY <1>1, <2>1, <2>2, <2>3, PushOpens
        <3>2. CASE t \in f.todo
            <4>1. Parent[t] = c /\ q \in Paths
                BY <2>1, <3>2 DEF Inv, TypeOK, Paths
            <4> QED
                BY <1>2, <4>1, AboveParent
        <3> QED
            BY <1>7, <3>1, <3>2
    <2>4. \A i \in DOMAIN frames' : frames'[i] = f \/ \E k \in DOMAIN frames : frames'[i] = frames[k]
        BY <1>1, <2>1, <2>2, PushFrames
    <2>5. \A i \in DOMAIN frames' : frames'[i].entry \notin failures.leftOut
        BY <1>2, <2>1, <2>4 DEF LeftInv
    <2> QED
        BY <1>6, <2>3, <2>5
<1> QED
    BY <1>8, <1>9, <1>10 DEF CopyEntry

\* An entry of the innermost folder, or that folder, is recorded.
LEMMA RecordLeft ==
    ASSUME copied \in Seq(Record), \A i \in DOMAIN copied : ~LeftOut(copied[i].entry),
           NEW r \in Record, ~LeftOut(r.entry)
    PROVE  \A i \in DOMAIN Append(copied, r) : ~LeftOut(Append(copied, r)[i].entry)
BY Recorded

LEMMA ReadFileLeft == ASSUME Inv, LeftInv, ReadFile PROVE LeftInv'
<1>1. /\ UNCHANGED <<failures, queue>> /\ step = "reading" /\ frames # <<>> /\ entry \in Head(frames).todo
      /\ Walk(frames) /\ copied \in Seq(Record) /\ seen \in Content
    BY DEF ReadFile, endVars, Inv, TypeOK, AtEntry
<1>2. /\ entry \in Entries /\ Open(frames, entry) /\ entry \notin failures.leftOut /\ ~LeftOut(entry)
    BY <1>1, TodoNotOut
<1>3. queue = <<>>
    BY <1>1 DEF LeftInv
<1>4. \A t \in Entries : Open(frames, t) => \A q \in failures.leftOut : t \notin Above[q]
    BY <1>1 DEF LeftInv, Passed
<1>5. CASE /\ copied' = Append(copied, [entry |-> entry, seen |-> seen])
           /\ frames' = Through(frames, entry) /\ step' = "walk"
    <2>1. [entry |-> entry, seen |-> seen] \in Record
        BY <1>1, <1>2 DEF Record, Paths
    <2>2. \A i \in DOMAIN copied' : ~LeftOut(copied'[i].entry)
        BY <1>1, <1>2, <1>5, <2>1, RecordLeft DEF LeftInv
    <2>3. entry \in frames[1].todo
        BY <1>1, WalkFrames
    <2>4. \A t \in Entries : Open(frames', t) => Open(frames, t)
        BY <1>1, <1>5, <2>3, ThroughOpens
    <2>5. \A i \in DOMAIN frames' : i \in DOMAIN frames /\ frames'[i].entry = frames[i].entry
        <3>1. IsThrough(frames', frames, entry)
            BY <1>1, <1>5, ThroughFrames
        <3> QED
            BY <3>1 DEF IsThrough
    <2> QED
        BY <1>1, <1>3, <1>4, <1>5, <2>2, <2>4, <2>5 DEF LeftInv, Passed, LeftOut
<1>6. CASE step' = "failed" /\ entry' = entry /\ copied' = SubSeq(copied, 1, Len(copied)) /\ UNCHANGED frames
    <2>1. UNCHANGED copied
        BY <1>1, <1>6, SubSeqFull
    <2> QED
        BY <1>1, <1>2, <1>3, <1>4, <1>6, <2>1 DEF LeftInv, Passed, LeftOut
<1> QED
    BY <1>5, <1>6 DEF ReadFile, EntryFails

LEMMA FinishFolderLeft == ASSUME Inv, LeftInv, FinishFolder PROVE LeftInv'
<1>1. /\ UNCHANGED <<failures, queue, entry>> /\ step = "walk" /\ frames # <<>>
      /\ Walk(frames) /\ Kept(frames, copied) /\ copied \in Seq(Record)
    BY DEF FinishFolder, endVars, Inv, TypeOK
<1>2. /\ Head(frames) = frames[1] /\ 1 \in DOMAIN frames /\ Len(frames) \in Nat
      /\ frames[1].entry \in Paths /\ frames[1].seen \in Content
    BY <1>1, WalkFrames
<1>3. queue = <<>>
    BY <1>1 DEF LeftInv
<1>4. CASE Len(frames) = 1 /\ step' = "publish" /\ UNCHANGED <<frames, copied>>
    BY <1>1, <1>3, <1>4 DEF LeftInv, Passed, LeftOut
<1>5. CASE /\ Len(frames) # 1 /\ UNCHANGED step /\ frames' = Through(Tail(frames), Head(frames).entry)
           /\ copied' = Append(copied, [entry |-> Head(frames).entry, seen |-> Head(frames).seen])
    <2>1. Walk(Tail(frames)) /\ Tail(frames) # <<>> /\ frames[1].entry \in Tail(frames)[1].todo
        BY <1>1, <1>5, KeptFailed
    <2>2. \A i \in DOMAIN copied' : ~LeftOut(copied'[i].entry)
        <3>1. [entry |-> Head(frames).entry, seen |-> Head(frames).seen] \in Record
            BY <1>2 DEF Record
        <3>2. ~LeftOut(Head(frames).entry)
            BY <1>2, FramesNotOut
        <3> QED
            BY <1>1, <1>5, <3>1, <3>2, RecordLeft DEF LeftInv
    <2>3. ASSUME NEW t \in Entries, Open(frames', t) PROVE Open(frames, t)
        <3>1. Open(Tail(frames), t) /\ t # frames[1].entry
            BY <1>2, <1>5, <2>1, <2>3, ThroughOpens
        <3> QED
            BY <1>1, <3>1, TailOpens
    <2>4. \A i \in DOMAIN frames' : \E k \in DOMAIN frames : frames'[i].entry = frames[k].entry
        <3>1. IsThrough(frames', Tail(frames), frames[1].entry)
            BY <1>2, <1>5, <2>1, ThroughFrames
        <3>2. \A i \in DOMAIN frames' : i \in DOMAIN Tail(frames) /\ frames'[i].entry = Tail(frames)[i].entry
            BY <3>1 DEF IsThrough
        <3> QED
            BY <1>1, <3>2, TailFrames
    <2> QED
        BY <1>1, <1>3, <1>5, <2>2, <2>3, <2>4 DEF LeftInv, Passed, LeftOut
<1> QED
    BY <1>4, <1>5 DEF FinishFolder

\* The walk failed in its innermost folder; perhaps the failed entry is left out.
LEMMA PropagateLeft ==
    ASSUME Inv, LeftInv, step = "failed", NEW reason, Propagate(reason), UNCHANGED queue,
           failures'.leftOut \in {failures.leftOut, failures.leftOut \cup {entry}}
    PROVE  LeftInv'
<1>1. /\ Walk(frames) /\ Kept(frames, copied) /\ copied \in Seq(Record) /\ frames # <<>>
      /\ entry \in Head(frames).todo /\ failures.leftOut \subseteq Entries
    BY DEF Inv, TypeOK, AtEntry
<1>2. Head(frames) = frames[1] /\ 1 \in DOMAIN frames
    BY <1>1, WalkFrames
<1>3. entry \in Entries /\ Open(frames, entry) /\ Parent[entry] = frames[1].entry
    BY <1>1, <1>2, HeadOpen
<1>4. queue' = <<>>
    BY DEF LeftInv
<1>5. \A i \in DOMAIN copied : entry \notin Above[copied[i].entry]
    BY <1>1, <1>3, OpenUnrecorded
<1>6. \A i \in DOMAIN copied : Above[copied[i].entry] \cap failures'.leftOut = {}
    BY <1>5 DEF LeftInv, LeftOut
<1>7. \A i \in DOMAIN frames : frames[i].entry \notin failures'.leftOut
    BY <1>1, <1>3, OpenIsNoFrame DEF LeftInv
<1>8. CASE Len(frames) = 1
    <2>1. step' = "settle" /\ frames' = <<>> /\ UNCHANGED copied
        BY <1>8 DEF Propagate
    <2>2. \A t \in Entries : ~Open(frames', t)
        BY <2>1 DEF Open
    <2> QED
        BY <1>4, <1>6, <2>1, <2>2 DEF LeftInv, Passed, LeftOut
<1>9. CASE Len(frames) # 1
    <2>1. /\ step' = "failed" /\ frames' = Tail(frames) /\ entry' = frames[1].entry
          /\ copied' = SubSeq(copied, 1, frames[1].mark) /\ frames[1].mark \in 0 .. Len(copied)
        BY <1>1, <1>2, <1>9, KeptFailed DEF Propagate, EntryFails
    <2>2. \A i \in DOMAIN copied' : Above[copied'[i].entry] \cap failures'.leftOut = {}
        <3>1. \A i \in DOMAIN copied' : i \in DOMAIN copied /\ copied'[i] = copied[i]
            BY <1>1, <2>1, Truncated
        <3> QED
            BY <1>6, <3>1
    <2>3. \A i \in DOMAIN frames' : frames'[i].entry \notin failures'.leftOut
        <3>1. \A i \in DOMAIN frames' : i + 1 \in DOMAIN frames /\ frames'[i] = frames[i + 1]
            BY <1>1, <2>1, TailFrames
        <3> QED
            BY <1>7, <3>1
    <2>4. ASSUME NEW t \in Entries, Open(frames', t), t # entry', NEW q \in failures'.leftOut
          PROVE  t \notin Above[q]
        <3>1. Open(frames, t) /\ t # entry
            BY <1>1, <1>2, <2>1, <2>4, TailOpens
        <3>2. CASE q \in failures.leftOut
            BY <3>1, <3>2 DEF LeftInv, Passed
        <3>3. CASE q = entry
            <4>1. t \notin Above[frames[1].entry]
                BY <1>1, <1>2, <3>1, OpenNotAbove
            <4> QED
                BY <1>3, <3>1, <3>3, <4>1, AboveStep
        <3> QED
            BY <3>2, <3>3
    <2>5. entry' \notin failures'.leftOut
        BY <1>2, <1>7, <2>1
    <2> QED
        BY <1>4, <2>1, <2>2, <2>3, <2>4, <2>5 DEF LeftInv, Passed, LeftOut
<1> QED
    BY <1>8, <1>9

LEMMA EntryStopsItemLeft == ASSUME Inv, LeftInv, EntryStopsItem PROVE LeftInv'
<1>1. step = "failed" /\ UNCHANGED queue /\ \E reason : Propagate(reason)
    BY DEF EntryStopsItem, endVars
<1>2. failures'.leftOut = failures.leftOut
    BY DEF EntryStopsItem, Inv, TypeOK
<1> QED
    BY <1>1, <1>2, PropagateLeft

\* Where only files are copied again, nothing was left out below the failed one.
LEMMA RetryEntryLeft == ASSUME OnlyFilesAgain, Inv, LeftInv, RetryEntry PROVE LeftInv'
<1>1. /\ step = "failed" /\ UNCHANGED <<queue, failures>> /\ "retry" \in Answers /\ DiscardThen(TRUE)
      /\ frames # <<>> /\ entry \in Head(frames).todo /\ Walk(frames) /\ failures.leftOut \subseteq Entries
    BY DEF RetryEntry, Ask, endVars, Inv, TypeOK, AtEntry
<1>2. entry \in Entries /\ entry \notin failures.leftOut
    BY <1>1, WalkFrames, HeadOpen DEF LeftInv
<1>3. queue = <<>>
    BY <1>1 DEF LeftInv
<1>4. Folders = {Top} /\ entry \in Files
    BY <1>1, <1>2, ConstantsAssumption DEF OnlyFilesAgain, Files
<1>5. \A q \in failures.leftOut : entry \notin Above[q]
    BY <1>1, <1>2, <1>4, FileAboveItself DEF Paths
<1>6. CASE step' = "walk" /\ UNCHANGED <<copied, frames>>
    <2>1. \A t \in Entries : Open(frames, t) => \A q \in failures.leftOut : t \notin Above[q]
        BY <1>1, <1>5 DEF LeftInv, Passed
    <2> QED
        BY <1>1, <1>3, <1>6, <2>1 DEF LeftInv, Passed, LeftOut
<1>7. CASE Propagate("denied")
    BY <1>1, <1>7, PropagateLeft
<1> QED
    BY <1>1, <1>6, <1>7 DEF DiscardThen

LEMMA SkipEntryLeft == ASSUME Inv, LeftInv, SkipEntry PROVE LeftInv'
<1>1. /\ step = "failed" /\ UNCHANGED queue /\ DiscardThen(FALSE) /\ Kept(frames, copied) /\ copied \in Seq(Record)
      /\ frames # <<>> /\ entry \in Head(frames).todo /\ Walk(frames) /\ failures \in FailureRec
    BY DEF SkipEntry, endVars, Inv, TypeOK, AtEntry, FailureRec
<1>2. failures'.leftOut = failures.leftOut \cup {entry}
    BY <1>1 DEF SkipEntry, FailureRec
<1>3. queue = <<>>
    BY <1>1 DEF LeftInv
<1>4. CASE step' = "walk" /\ UNCHANGED copied /\ frames' = Through(frames, entry)
    <2>1. /\ Head(frames) = frames[1] /\ 1 \in DOMAIN frames
          /\ entry \in Entries /\ Open(frames, entry) /\ Parent[entry] = frames[1].entry
        BY <1>1, WalkFrames, HeadOpen
    <2>2. ASSUME NEW t \in Entries, Open(frames', t), NEW q \in failures'.leftOut
          PROVE  t \notin Above[q]
        <3>1. Open(frames, t) /\ t # entry
            BY <1>1, <1>4, <2>1, <2>2, ThroughOpens
        <3>2. CASE q \in failures.leftOut
            BY <3>1, <3>2 DEF LeftInv, Passed
        <3>3. CASE q = entry
            <4>1. t \notin Above[frames[1].entry]
                BY <1>1, <2>1, <3>1, OpenNotAbove
            <4> QED
                BY <2>1, <3>1, <3>3, <4>1, AboveStep
        <3> QED
            BY <1>2, <2>2, <3>2, <3>3
    <2>3. \A i \in DOMAIN frames' : frames'[i].entry \notin failures'.leftOut
        <3>1. IsThrough(frames', frames, entry)
            BY <1>1, <1>4, ThroughFrames
        <3>2. \A i \in DOMAIN frames : frames[i].entry # entry
            BY <1>1, <2>1, OpenIsNoFrame
        <3> QED
            BY <1>2, <3>1, <3>2 DEF IsThrough, LeftInv
    <2>4. \A i \in DOMAIN copied' : Above[copied'[i].entry] \cap failures'.leftOut = {}
        BY <1>1, <1>2, <1>4, <2>1, OpenUnrecorded DEF LeftInv, LeftOut
    <2> QED
        BY <1>1, <1>3, <1>4, <2>2, <2>3, <2>4 DEF LeftInv, Passed, LeftOut
<1>5. CASE Propagate("denied")
    BY <1>1, <1>2, <1>5, PropagateLeft
<1> QED
    BY <1>1, <1>4, <1>5 DEF DiscardThen

\* Without a walk, only the records matter.
LEMMA NoWalkLeft ==
    ASSUME frames' = <<>>, step' # "failed",
           \A i \in DOMAIN copied' : Above[copied'[i].entry] \cap failures'.leftOut = {},
           \A i \in DOMAIN queue' : Above[queue'[i].entry] \cap failures'.leftOut = {},
           queue' # <<>> => step' \in {"inspect", "delete", "settle"}
    PROVE  LeftInv'
<1>1. \A t \in Entries : ~Open(frames', t)
    BY DEF Open
<1> QED
    BY <1>1 DEF LeftInv, Passed, LeftOut

LEMMA StopWalkLeft == ASSUME Inv, LeftInv, StopWalk PROVE LeftInv'
<1>1. /\ frames' = <<>> /\ step' = "settle" /\ UNCHANGED <<copied, queue, failures>>
    BY DEF StopWalk, endVars
<1> QED
    BY <1>1, NoWalkLeft DEF LeftInv, LeftOut

LEMMA PublishLeft == ASSUME Inv, LeftInv, Publish PROVE LeftInv'
<1>1. /\ frames' = <<>> /\ step = "publish" /\ step' \in {"settle", "inspect"} /\ UNCHANGED <<copied, failures>>
      /\ copied \in Seq(Record) /\ failures.leftOut \subseteq Entries
    BY DEF Publish, Inv, TypeOK
<1>2. \A i \in DOMAIN copied : ~LeftOut(copied[i].entry)
    BY DEF LeftInv
<1>3. CASE UNCHANGED queue
    BY <1>1, <1>2, <1>3, NoWalkLeft DEF LeftInv, LeftOut
<1>4. CASE step' = "inspect" /\ queue' = Append(copied, [entry |-> Top, seen |-> 1])
    <2>1. [entry |-> Top, seen |-> 1] \in Record
        BY ConstantsAssumption DEF Record, Content, Paths
    <2>2. ~LeftOut(Top)
        BY <1>1, AboveTop, ConstantsAssumption DEF LeftOut
    <2>3. \A i \in DOMAIN queue' : ~LeftOut(queue'[i].entry)
        BY <1>1, <1>2, <1>4, <2>1, <2>2, RecordLeft
    <2> QED
        BY <1>1, <1>2, <1>4, <2>3, NoWalkLeft DEF LeftOut
<1> QED
    BY <1>1, <1>3, <1>4 DEF Publish

\* The queue is worked off from its head.
LEMMA RestLeft ==
    ASSUME queue \in Seq(Record), queue # <<>>, \A i \in DOMAIN queue : ~LeftOut(queue[i].entry)
    PROVE  /\ ~LeftOut(Head(queue).entry)
           /\ \A i \in DOMAIN Tail(queue) : ~LeftOut(Tail(queue)[i].entry)
<1>1. Head(queue) = queue[1] /\ 1 \in DOMAIN queue /\ Len(queue) \in Nat /\ DOMAIN queue = 1 .. Len(queue)
    BY EmptySeq, LenProperties, HeadTailProperties
<1>2. /\ Tail(queue) \in Seq(Record) /\ Len(Tail(queue)) = Len(queue) - 1
      /\ \A i \in 1 .. Len(Tail(queue)) : Tail(queue)[i] = queue[i + 1]
    BY HeadTailProperties
<1>3. DOMAIN Tail(queue) = 1 .. Len(queue) - 1
    BY <1>2, LenProperties
<1>4. \A i \in DOMAIN Tail(queue) : i + 1 \in DOMAIN queue /\ Tail(queue)[i] = queue[i + 1]
    BY <1>1, <1>2, <1>3
<1> QED
    BY <1>1, <1>4

LEMMA RemovalLeft == ASSUME Inv, LeftInv, InspectSource \/ DeleteSource PROVE LeftInv'
<1>1. /\ step \in {"inspect", "delete"} /\ UNCHANGED <<frames, copied, failures>> /\ queue \in Seq(Record)
      /\ step = "delete" => queue # <<>>
    BY DEF InspectSource, DeleteSource, Inv, TypeOK, Deleting
<1>2. frames = <<>>
    BY <1>1 DEF Inv, Walking
<1>3. step' \in {"inspect", "delete", "settle", "finished"} /\ (step' = "finished" => queue' = <<>>)
    BY <1>1 DEF InspectSource, DeleteSource
<1>4. queue' = queue \/ (queue # <<>> /\ queue' = Tail(queue))
    <2>1. CASE InspectSource
        BY <2>1 DEF InspectSource
    <2>2. CASE DeleteSource
        BY <1>1, <2>2 DEF DeleteSource
    <2> QED
        BY <2>1, <2>2
<1>5. \A i \in DOMAIN queue' : ~LeftOut(queue'[i].entry)
    BY <1>1, <1>4, RestLeft DEF LeftInv
<1> QED
    BY <1>1, <1>2, <1>3, <1>5, NoWalkLeft DEF LeftInv, LeftOut

LEMMA SettleItemLeft == ASSUME Inv, LeftInv, SettleItem PROVE LeftInv'
<1>1. /\ step = "settle" /\ UNCHANGED frames /\ copied' = <<>> /\ queue' = <<>> /\ step' \in {"start", "finished"}
    BY DEF SettleItem, Finish, RunAgain
<1>2. frames = <<>>
    BY <1>1 DEF Inv, Walking
<1> QED
    BY <1>1, <1>2, NoWalkLeft

LEMMA OthersLeft == ASSUME LeftInv, Cancel \/ (\E p \in Entries : Edit(p)) \/ UNCHANGED vars PROVE LeftInv'
<1>1. UNCHANGED <<frames, step, entry, failures, copied, queue>>
    BY DEF Cancel, Edit, vars
<1> QED
    BY <1>1 DEF LeftInv, Passed, LeftOut

LEMMA NextLeft == OnlyFilesAgain => (Inv /\ LeftInv /\ [Next]_vars => LeftInv')
<1> SUFFICES ASSUME OnlyFilesAgain, Inv, LeftInv, [Next]_vars PROVE LeftInv'
    OBVIOUS
<1>1. CASE StartAttempt
    BY <1>1, StartAttemptLeft
<1>2. CASE \E c \in Entries : CopyEntry(c)
    BY <1>2, CopyEntryLeft
<1>3. CASE ReadFile
    BY <1>3, ReadFileLeft
<1>4. CASE FinishFolder
    BY <1>4, FinishFolderLeft
<1>5. CASE StopWalk
    BY <1>5, StopWalkLeft
<1>6. CASE EntryStopsItem
    BY <1>6, EntryStopsItemLeft
<1>7. CASE RetryEntry
    BY <1>7, RetryEntryLeft
<1>8. CASE SkipEntry
    BY <1>8, SkipEntryLeft
<1>9. CASE Publish
    BY <1>9, PublishLeft
<1>10. CASE InspectSource \/ DeleteSource
    BY <1>10, RemovalLeft
<1>11. CASE SettleItem
    BY <1>11, SettleItemLeft
<1>12. CASE Cancel \/ (\E p \in Entries \ Folders : Edit(p)) \/ UNCHANGED vars
    BY <1>12, OthersLeft
<1> QED
    BY <1>1, <1>2, <1>3, <1>4, <1>5, <1>6, <1>7, <1>8, <1>9, <1>10, <1>11, <1>12 DEF Next, EngineStep

LEMMA InitLeft == ASSUME Init PROVE LeftInv
<1>1. \A t \in Entries : ~Open(frames, t)
    BY DEF Init, Open
<1> QED
    BY <1>1 DEF Init, LeftInv, Passed, LeftOut

-----------------------------------------------------------------------------
(* The theorems                                                            *)

\* Every variable keeps its type: no mark is beyond the records, and no bound
\* below zero (copy_entry, entry_failed).
THEOREM TypeCorrect == Spec => []TypeOK
<1>1. Inv => TypeOK
    BY DEF Inv
<1> QED
    BY <1>1, InvAlways, PTL

\* Only DeleteSource removes a path without being an edit: the head of the queue.
LEMMA EngineDeletesHead ==
    ASSUME Inv, [Next]_vars, NEW p \in Paths, EngineDeletes(p)
    PROVE  p = Head(queue).entry /\ queue # <<>>
<1>1. step = "delete" /\ edits' = edits /\ src[p] # 0 /\ src'[p] = 0
    BY DEF EngineDeletes
<1>2. edits \in Nat /\ src \in [Paths -> Content]
    BY DEF Inv, TypeOK
<1>3. DeleteSource
    <2>1. ~\E q \in Entries \ Folders : Edit(q)
        BY <1>1, <1>2 DEF Edit
    <2>2. src' # src
        BY <1>1
    <2> QED
        BY <1>1, <2>1, <2>2
        DEF Next, EngineStep, StartAttempt, CopyEntry, ReadFile, FinishFolder, StopWalk, EntryStopsItem,
            RetryEntry, SkipEntry, Publish, InspectSource, SettleItem, Cancel, sourceVars, vars
<1>4. src' = [src EXCEPT ![Head(queue).entry] = 0]
    BY <1>1, <1>3 DEF DeleteSource
<1> QED
    BY <1>1, <1>2, <1>4 DEF Inv, Deleting

\* What a step that removes a file must find.
RemovalIsSafe == \A p \in Files : EngineDeletes(p) => src[p] \in landed[p]

\* The invariant says of the file that is removed that its version was published.
LEMMA RemovalStep == ASSUME LateEdits = FALSE, Inv, [Next]_vars PROVE RemovalIsSafe
<1> SUFFICES ASSUME NEW p \in Files, EngineDeletes(p) PROVE src[p] \in landed[p]
    BY DEF RemovalIsSafe
<1>1. p = Head(queue).entry /\ queue # <<>> /\ src[p] # 0
    BY FilesArePaths, EngineDeletesHead DEF EngineDeletes
<1>2. src[Head(queue).entry] = Head(queue).seen
    BY DEF EngineDeletes, Inv, Deleting
<1>3. Queued(<<Head(queue)>>, landed, src, Newest)
    BY <1>1, QueueHead
<1> QED
    BY <1>1, <1>2, <1>3 DEF Queued

\* For any tree, any answers and any number of faults, attempts and edits, a file
\* is removed from the source only if exactly its content was published
\* (remove_copied_source), unless a change falls between an inspection and its
\* removal.
THEOREM NothingUncopiedRemoved == ASSUME LateEdits = FALSE PROVE Spec => RemovedWasCopied
<1>1. Inv /\ [Next]_vars => [RemovalIsSafe]_vars
    BY RemovalStep
<1> QED
    BY <1>1, InvAlways, PTL DEF Spec, RemovedWasCopied, RemovalIsSafe

\* Where exists() tells the truth, no part of a file is ever published, however
\* the attempts at its entries end (discard_partial).
THEOREM NoPartEverLands == ASSUME FalseAbsence = FALSE PROVE Spec => []NoPartLands
<1>1. Inv => NoPartLands
    BY DEF Inv, Parts
<1> QED
    BY <1>1, InvAlways, PTL

\* For any tree, any answers, any faults and however often the item runs: a move
\* reported done, with nothing changed by others, brought over every file it does
\* not name as left out (publish after copy_entry and entry_failed).
THEOREM DoneBringsAll == Spec => []DoneIsComplete
<1>1. EndInv => DoneIsComplete
    BY DEF EndInv, Arrived, Reported, Unchanged, LeftOut, DoneIsComplete
<1> QED
    BY <1>1, EndAlways, PTL

\* Unless a Continue is to be carried out, a move ends either moved or kept,
\* however late the user cancels (move_by_copying): done, each copied file is gone
\* or changed; otherwise the source is as it was or the user is told to check.
THEOREM MovedOrKeptAlways == ASSUME "elevate" \notin Answers PROVE Spec => []MovedOrKept
<1>1. EndInv => MovedOrKept
    <2> SUFFICES ASSUME EndInv, step = "finished", ~report.recovery
                 PROVE  IF report.done
                        THEN \A i \in DOMAIN copied :
                                copied[i].entry \in Files => src[copied[i].entry] # copied[i].seen
                        ELSE edits = MaxEdits => \A p \in Paths \ Fresh : src[p] = 1
        BY DEF MovedOrKept
    <2>1. CASE report.done
        BY <2>1 DEF EndInv, StaleOrQueued
    <2>2. CASE ~report.done
        BY <2>2 DEF EndInv, Untouched, Unchanged, Removing
    <2> QED
        BY <2>1, <2>2
<1> QED
    BY <1>1, EndAlways, PTL
\* What a step that removes something must not touch.
LeftOutIsSafe == \A p \in Paths : LeftOut(p) => ~EngineDeletes(p)

\* DeleteSource removes the head of the queue, and nothing left out is queued.
LEMMA LeftOutStep == ASSUME Inv, LeftInv, [Next]_vars PROVE LeftOutIsSafe
<1> SUFFICES ASSUME NEW p \in Paths, EngineDeletes(p) PROVE ~LeftOut(p)
    BY DEF LeftOutIsSafe
<1>1. p = Head(queue).entry /\ queue # <<>>
    BY EngineDeletesHead
<1>2. queue \in Seq(Record)
    BY DEF Inv, TypeOK
<1> QED
    BY <1>1, <1>2, RestLeft DEF LeftInv

\* For a folder without folders in it, or where nobody answers Try Again: what was
\* left out, and everything in a folder left out, is never removed from the source,
\* however the attempts at its entries end (entry_failed, remove_copied_source).
THEOREM NothingLeftOutRemoved == ASSUME OnlyFilesAgain PROVE Spec => LeftOutStays
<1>1. Init => Inv /\ LeftInv
    BY InitInv, InitLeft
<1>2. (Inv /\ LeftInv) /\ [Next]_vars => (Inv /\ LeftInv)'
    BY NextInv, NextLeft
<1>3. Inv /\ LeftInv /\ [Next]_vars => [LeftOutIsSafe]_vars
    BY LeftOutStep
<1> QED
    BY <1>1, <1>2, <1>3, PTL DEF Spec, LeftOutStays, LeftOutIsSafe
=============================================================================
