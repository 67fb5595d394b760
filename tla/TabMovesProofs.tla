-------------------------- MODULE TabMovesProofs ---------------------------
(***************************************************************************)
(* For any windows, tabs and number of moves: a tab always has exactly one *)
(* owner, no ended move leaves a copy behind unsettled, and every step of  *)
(* the broker is a step of TabOwners or changes no owner.                  *)
(***************************************************************************)
EXTENDS TabMoves, TLAPS

-----------------------------------------------------------------------------
(* The inductive invariant.                                                *)

\* Nothing mentions a token that was not generated yet.
Fresh ==
    \A k \in Tokens \ used : \A w \in Windows :
        /\ \A c \in firm[w] : c.by # k
        /\ \A c \in tentative[w] : c.by # k
        /\ \A m \in mail[w] : m.token # k /\ m.copy.by # k

\* The source keeps the tab of a pending move and was not told to remove it.
SourceKeeps ==
    \A k \in pending :
        transfer[k].source \in open =>
            Keeps(transfer[k].source, transfer[k].copy)

OneMoveEach ==
    \A j, k \in pending :
        transfer[j].source = transfer[k].source /\ transfer[j].copy = transfer[k].copy => j = k

\* A pending move has told nobody how it ended.
PendingQuiet ==
    \A k \in pending : \A w \in Windows : \A m \in mail[w] :
        m.token = k => m.kind = "receive"

\* Every message is at the right window and about the right copy.
MailAddressed ==
    \A w \in Windows : \A m \in mail[w] :
        /\ m.kind # "done" => transfer[m.token].destination = w /\ m.copy = Inserted(m.token)
        /\ m.kind = "done" => transfer[m.token].source = w /\ m.copy = transfer[m.token].copy

\* All that the windows are told of the end of one move agrees.
OneEnding ==
    \A v, w \in Windows : \A m \in mail[v], n \in mail[w] :
        m.token = n.token /\ m.kind # "receive" /\ n.kind # "receive" => m.outcome = n.outcome

\* A destination that must keep its copy has it.
CommittedReceived ==
    \A w \in Windows : \A m \in mail[w] :
        m.kind = "settled" /\ m.outcome = Committed => m.copy \in tentative[w]

\* A queued Receive was not handled before, and belongs to a move that is
\* pending or was not committed.
ReceiveExpected ==
    \A w \in Windows : \A m \in mail[w] :
        m.kind = "receive" =>
            /\ m.outcome = "none"
            /\ m.copy \notin tentative[w]
            /\ \/ m.token \in pending
               \/ \E n \in mail[w] : n.kind = "settled" /\ n.copy = m.copy

\* A copy is where its move brought it, or where its window began with it.
CopiesPlaced ==
    \A w \in Windows :
        /\ \A c \in firm[w] :
              IF c.by = NoToken THEN c.tab \in Home[w]
              ELSE c = Inserted(c.by) /\ transfer[c.by].destination = w
        /\ \A c \in tentative[w] :
              c.by # NoToken /\ c = Inserted(c.by) /\ transfer[c.by].destination = w

\* The move that brought a kept copy is over and told the destination so.
FirmSettled ==
    \A w \in Windows : \A c \in firm[w] :
        /\ c.by \notin pending
        /\ c \notin tentative[w]
        /\ \A m \in mail[w] : m.token = c.by => m.kind = "done"

\* A tab whose move is over was not just brought by another one.
DoneSettled ==
    \A w \in Windows : \A m \in mail[w] :
        m.kind = "done" =>
            /\ m.copy.by \notin pending
            /\ m.copy \notin tentative[w]
            /\ \A n \in mail[w] : n.token = m.copy.by => n.kind = "done"

ClosedEmpty ==
    \A w \in Windows \ open : firm[w] = {} /\ tentative[w] = {} /\ mail[w] = {}

\* At most one copy of a tab is a window's own.
OneCopy ==
    \A v, w \in Windows : \A c, d \in Copy :
        c.tab = d.tab /\ HasCopy(v, c) /\ HasCopy(w, d) => v = w /\ c = d

Inv ==
    /\ TypeOK
    /\ Fresh /\ SourceKeeps /\ OneMoveEach /\ PendingQuiet /\ MailAddressed
    /\ OneEnding /\ CommittedReceived /\ ReceiveExpected /\ CopiesPlaced
    /\ FirmSettled /\ DoneSettled /\ ClosedEmpty /\ NoStrayCopy /\ OneCopy
-----------------------------------------------------------------------------
(* The messages of an ending.                                              *)

\* m tells window w that a move of K ended with this outcome.
TellsEnd(m, w, K, outcome) ==
    /\ m.token \in K
    /\ m.outcome = outcome
    /\ \/ /\ m.kind = "settled"
          /\ m.copy = Inserted(m.token)
          /\ transfer[m.token].destination = w
       \/ /\ m.kind = "done"
          /\ m.copy = transfer[m.token].copy
          /\ transfer[m.token].source = w

\* Inserted copies are copies.
LEMMA InsertedIsCopy ==
    ASSUME transfer \in [Tokens -> Transfer], NEW k \in Tokens
    PROVE  Inserted(k) \in Copy
<1>1. transfer[k] \in Transfer
    OBVIOUS
<1> QED
    BY <1>1 DEF Inserted, Copy, Transfer

\* Endings is the set of the messages that TellsEnd describes.
LEMMA EndingsTell ==
    ASSUME transfer \in [Tokens -> Transfer], NEW K \in SUBSET Tokens,
           NEW outcome \in {Kept, Committed}, NEW w \in Windows, NEW m
    PROVE  m \in Endings(K, outcome, w) <=> m \in Message /\ TellsEnd(m, w, K, outcome)
<1>1. ASSUME NEW k \in K
      PROVE  /\ [kind |-> "settled", token |-> k, copy |-> Inserted(k),
                 outcome |-> outcome] \in Message
             /\ [kind |-> "done", token |-> k, copy |-> transfer[k].copy,
                 outcome |-> outcome] \in Message
    <2>1. transfer[k] \in Transfer
        OBVIOUS
    <2>2. transfer[k].copy \in Copy
        BY <2>1 DEF Transfer
    <2> QED
        BY <2>2, InsertedIsCopy DEF Message, Kept, Committed
<1>2. ASSUME m \in Endings(K, outcome, w)
      PROVE  m \in Message /\ TellsEnd(m, w, K, outcome)
    <2>1. CASE \E k \in K : /\ transfer[k].destination = w
                           /\ m = [kind |-> "settled", token |-> k, copy |-> Inserted(k),
                                   outcome |-> outcome]
        <3>1. PICK k \in K : /\ transfer[k].destination = w
                             /\ m = [kind |-> "settled", token |-> k, copy |-> Inserted(k),
                                     outcome |-> outcome]
            BY <2>1
        <3>2. m.token = k /\ m.copy = Inserted(k) /\ m.outcome = outcome /\ m.kind = "settled"
            BY <3>1
        <3> QED
            BY <1>1, <3>1, <3>2 DEF TellsEnd
    <2>2. CASE \E k \in K : /\ transfer[k].source = w
                           /\ m = [kind |-> "done", token |-> k, copy |-> transfer[k].copy,
                                   outcome |-> outcome]
        <3>1. PICK k \in K : /\ transfer[k].source = w
                             /\ m = [kind |-> "done", token |-> k, copy |-> transfer[k].copy,
                                     outcome |-> outcome]
            BY <2>2
        <3>2. m.token = k /\ m.copy = transfer[k].copy /\ m.outcome = outcome /\ m.kind = "done"
            BY <3>1
        <3> QED
            BY <1>1, <3>1, <3>2 DEF TellsEnd
    <2> QED
        BY <1>2, <2>1, <2>2 DEF Endings
<1>3. ASSUME m \in Message, TellsEnd(m, w, K, outcome)
      PROVE  m \in Endings(K, outcome, w)
    <2>1. CASE m.kind = "settled"
        <3>1. m = [kind |-> "settled", token |-> m.token, copy |-> Inserted(m.token),
                   outcome |-> outcome]
            BY <1>3, <2>1 DEF TellsEnd, Message
        <3> QED
            BY <1>3, <2>1, <3>1 DEF TellsEnd, Endings
    <2>2. CASE m.kind = "done"
        <3>1. m = [kind |-> "done", token |-> m.token, copy |-> transfer[m.token].copy,
                   outcome |-> outcome]
            BY <1>3, <2>2 DEF TellsEnd, Message
        <3> QED
            BY <1>3, <2>2, <3>1 DEF TellsEnd, Endings
    <2> QED
        BY <1>3, <2>1, <2>2 DEF TellsEnd
<1> QED
    BY <1>2, <1>3

\* What the windows' queues hold after moves ended.
LEMMA NotifiedTells ==
    ASSUME TypeOK, NEW K \in SUBSET Tokens, NEW C \in SUBSET Tokens
    PROVE  /\ Notified(K, C) \in [Windows -> SUBSET Message]
           /\ \A w \in Windows : \A m \in Message :
                 m \in Notified(K, C)[w] <=>
                    \/ m \in mail[w]
                    \/ w \in open /\ TellsEnd(m, w, K, Kept)
                    \/ w \in open /\ TellsEnd(m, w, C, Committed)
<1>1. ASSUME NEW w \in Windows
      PROVE  /\ mail[w] \subseteq Message
             /\ Endings(K, Kept, w) \subseteq Message
             /\ Endings(C, Committed, w) \subseteq Message
    BY EndingsTell DEF TypeOK
<1>2. Notified(K, C) \in [Windows -> SUBSET Message]
    BY <1>1 DEF Notified
<1>3. ASSUME NEW w \in Windows, NEW m \in Message
      PROVE  m \in Notified(K, C)[w] <=>
                \/ m \in mail[w]
                \/ w \in open /\ TellsEnd(m, w, K, Kept)
                \/ w \in open /\ TellsEnd(m, w, C, Committed)
    BY EndingsTell DEF Notified, TypeOK
<1> QED
    BY <1>2, <1>3
-----------------------------------------------------------------------------
(* What the broker's calls after the offer do to the state.                *)

\* The moves of K end as kept, those of C as committed, and those of R are
\* claimed by the window that transfer' names.
BrokerStep(K, C, R) ==
    /\ K \in SUBSET pending /\ C \in SUBSET pending /\ R \in SUBSET pending
    /\ C \intersect (K \union R) = {}
    /\ \A j, k \in C : j = k
    /\ \A k \in C : /\ transfer[k].source \in open
                   /\ transfer[k].destination \in open
                   /\ Inserted(k) \in tentative[transfer[k].destination]
    /\ pending' = pending \ (K \union C)
    /\ due' \in SUBSET pending'
    /\ transfer' \in [Tokens -> Transfer]
    /\ \A k \in Tokens : /\ transfer'[k].source = transfer[k].source
                        /\ transfer'[k].copy = transfer[k].copy
    /\ \A k \in Tokens \ R : transfer'[k].destination = transfer[k].destination
    /\ \A k \in R : transfer[k].destination = NoWindow
    /\ announced' \in SUBSET (Windows \ open)
    /\ UNCHANGED <<used, open, firm, tentative>>
    /\ mail' \in [Windows -> SUBSET Message]
    /\ \A w \in Windows : \A m \in Message :
          m \in mail'[w] <=>
             \/ m \in mail[w]
             \/ w \in open /\ TellsEnd(m, w, K, Kept)
             \/ w \in open /\ TellsEnd(m, w, C, Committed)
             \/ /\ w \in open
                /\ m.kind = "receive"
                /\ m.token \in R \intersect pending'
                /\ m.copy = Inserted(m.token)
                /\ m.outcome = "none"
                /\ transfer'[m.token].destination = w

\* A committed move takes the tab from its source and gives it to its
\* destination; nothing else that the broker does moves a tab.
LEMMA BrokerStepHasCopy ==
    ASSUME Inv, NEW K, NEW C, NEW R, BrokerStep(K, C, R)
    PROVE  \A w \in Windows : \A c \in Copy :
              HasCopy(w, c)' <=>
                 \/ /\ HasCopy(w, c)
                    /\ \A k \in C : ~(transfer[k].source = w /\ transfer[k].copy = c)
                 \/ \E k \in C : transfer[k].destination = w /\ c = Inserted(k)
<1> TAKE w \in Windows
<1> TAKE c \in Copy
<1>0. /\ mail \in [Windows -> SUBSET Message] /\ transfer \in [Tokens -> Transfer]
      /\ C \subseteq Tokens
    BY DEF Inv, TypeOK, BrokerStep
<1>1. ASSUME NEW k \in C, transfer[k].destination = w, c = Inserted(k)
      PROVE  HasCopy(w, c)'
    <2> DEFINE m == [kind |-> "settled", token |-> k, copy |-> c, outcome |-> Committed]
    <2>1. m \in Message
        BY <1>0 DEF Message, Committed
    <2>2. m \in mail'[w]
        BY <1>1, <2>1 DEF BrokerStep, TellsEnd
    <2> QED
        BY <2>2 DEF HasCopy, MustKeep
<1>2. ASSUME NEW k \in C, transfer[k].source = w, transfer[k].copy = c, HasCopy(w, c)'
      PROVE  \E j \in C : transfer[j].destination = w /\ c = Inserted(j)
    <2> DEFINE m == [kind |-> "done", token |-> k, copy |-> c, outcome |-> Committed]
    <2>1. m \in Message
        BY <1>0 DEF Message, Committed
    <2>2. m \in mail'[w]
        BY <1>2, <2>1 DEF BrokerStep, TellsEnd
    <2>3. ~Keeps(w, c)'
        BY <2>2 DEF Keeps
    <2>4. PICK n \in mail'[w] : n.kind = "settled" /\ n.copy = c /\ n.outcome = Committed
        BY <1>2, <2>3 DEF HasCopy, MustKeep
    <2>5. n \in Message
        BY <2>4 DEF BrokerStep
    <2>6. ~(n \in mail[w])
        <3>1. c \in firm[w]
            BY <1>2 DEF Inv, SourceKeeps, Keeps, BrokerStep
        <3>2. c \notin tentative[w]
            BY <3>1 DEF Inv, FirmSettled
        <3> QED
            BY <2>4, <3>2 DEF Inv, CommittedReceived
    <2> QED
        BY <2>4, <2>5, <2>6 DEF BrokerStep, TellsEnd, Kept, Committed
<1>3. ASSUME HasCopy(w, c)', ~HasCopy(w, c)
      PROVE  \E j \in C : transfer[j].destination = w /\ c = Inserted(j)
    <2>1. \A m \in mail[w] : m \in mail'[w]
        BY <1>0 DEF BrokerStep
    <2>2. ~Keeps(w, c)'
        BY <1>3, <2>1 DEF HasCopy, Keeps, BrokerStep
    <2>3. PICK n \in mail'[w] : n.kind = "settled" /\ n.copy = c /\ n.outcome = Committed
        BY <1>3, <2>2 DEF HasCopy, MustKeep
    <2>4. n \in Message /\ n \notin mail[w]
        BY <1>3, <2>3 DEF BrokerStep, HasCopy, MustKeep
    <2> QED
        BY <2>3, <2>4 DEF BrokerStep, TellsEnd, Kept, Committed
<1>4. ASSUME HasCopy(w, c), \A k \in C : ~(transfer[k].source = w /\ transfer[k].copy = c)
      PROVE  HasCopy(w, c)'
    <2>1. \A m \in mail[w] : m \in mail'[w]
        BY <1>0 DEF BrokerStep
    <2>2. CASE MustKeep(w, c)
        BY <2>1, <2>2 DEF HasCopy, MustKeep
    <2>3. CASE Keeps(w, c)
        <3>1. ASSUME NEW n \in mail'[w], n.kind = "done", n.copy = c, n.outcome = Committed
              PROVE  FALSE
            <4>1. n \in Message /\ n \notin mail[w]
                BY <2>3, <3>1 DEF BrokerStep, Keeps
            <4> QED
                BY <1>4, <3>1, <4>1 DEF BrokerStep, TellsEnd, Kept, Committed
        <3> QED
            BY <2>3, <3>1 DEF HasCopy, Keeps, BrokerStep
    <2> QED
        BY <1>4, <2>2, <2>3 DEF HasCopy
<1> QED
    BY <1>1, <1>2, <1>3, <1>4

\* The inductive invariant survives the broker's calls after the offer.
LEMMA BrokerStepInv ==
    ASSUME Inv, NEW K, NEW C, NEW R, BrokerStep(K, C, R)
    PROVE  Inv'
<1>h. \A w \in Windows : \A c \in Copy :
         HasCopy(w, c)' <=>
            \/ /\ HasCopy(w, c)
               /\ \A k \in C : ~(transfer[k].source = w /\ transfer[k].copy = c)
            \/ \E k \in C : transfer[k].destination = w /\ c = Inserted(k)
    BY BrokerStepHasCopy
<1> USE DEF BrokerStep
<1>0. /\ TypeOK /\ transfer \in [Tokens -> Transfer] /\ NoWindow \notin Windows
      /\ K \cup C \cup R \subseteq Tokens
    BY WindowsAssumption DEF Inv, TypeOK
<1>t. TypeOK'
    BY <1>0 DEF TypeOK
<1>m. \A w \in Windows : mail[w] \subseteq Message /\ mail'[w] \subseteq Message
    BY <1>0 DEF TypeOK
<1>i. \A k \in Tokens : Inserted(k)' = Inserted(k)
    BY DEF Inserted
<1>1. Fresh'
    <2>1. ASSUME NEW k \in Tokens \ used, NEW w \in Windows, NEW m \in mail'[w]
          PROVE  m.token # k /\ m.copy.by # k
        <3>1. CASE m \in mail[w]
            BY <3>1 DEF Inv, Fresh
        <3>2. CASE m.token \in pending /\ m.copy = Inserted(m.token)
            BY <1>0, <3>2 DEF TypeOK, Inserted
        <3>3. CASE m.token \in pending /\ m.copy = transfer[m.token].copy /\ w \in open
                   /\ transfer[m.token].source = w
            BY <1>0, <3>3 DEF Inv, Fresh, SourceKeeps, Keeps, TypeOK
        <3> QED
            BY <1>m, <3>1, <3>2, <3>3 DEF TellsEnd
    <2> QED
        BY <2>1 DEF Inv, Fresh
<1>2. SourceKeeps'
    <2> SUFFICES ASSUME NEW k \in pending', transfer'[k].source \in open
                 PROVE  Keeps(transfer[k].source, transfer[k].copy)'
        BY <1>0 DEF SourceKeeps, TypeOK
    <2> DEFINE w == transfer[k].source
               c == transfer[k].copy
    <2>1. w \in Windows /\ Keeps(w, c)
        BY <1>0 DEF Inv, SourceKeeps, TypeOK
    <2>2. ASSUME NEW n \in mail'[w], n.kind = "done", n.copy = c, n.outcome = Committed
          PROVE  FALSE
        <3>1. n \in Message /\ n \notin mail[w]
            BY <2>1, <2>2, <1>m DEF Keeps
        <3>2. n.token \in C /\ transfer[n.token].source = w /\ transfer[n.token].copy = c
            BY <2>1, <2>2, <3>1 DEF TellsEnd, Kept, Committed
        <3> QED
            BY <3>2 DEF Inv, OneMoveEach
    <2>3. transfer'[k].source = w /\ transfer'[k].copy = c
        BY <1>0 DEF TypeOK
    <2> HIDE DEF w, c
    <2> QED
        BY <2>1, <2>2, <2>3 DEF Keeps
<1>3. OneMoveEach'
    BY <1>0 DEF Inv, OneMoveEach, TypeOK
<1>4. PendingQuiet'
    BY <1>0, <1>m DEF Inv, PendingQuiet, TellsEnd
<1>5. MailAddressed'
    BY <1>0, <1>m, <1>i DEF Inv, MailAddressed, TellsEnd, Message
<1>6. OneEnding'
    BY <1>0, <1>m DEF Inv, OneEnding, PendingQuiet, TellsEnd
<1>7. CommittedReceived'
    BY <1>0, <1>m DEF Inv, CommittedReceived, TellsEnd, Kept, Committed
<1>8. ReceiveExpected'
    <2> SUFFICES ASSUME NEW w \in Windows, NEW m \in mail'[w], m.kind = "receive"
                 PROVE  /\ m.outcome = "none"
                        /\ m.copy \notin tentative[w]
                        /\ \/ m.token \in pending'
                           \/ \E n \in mail'[w] : n.kind = "settled" /\ n.copy = m.copy
        BY DEF ReceiveExpected
    <2>1. CASE m \notin mail[w]
        <3>1. m.token \in R \cap pending' /\ m.copy = Inserted(m.token) /\ m.outcome = "none"
            BY <1>m, <2>1 DEF TellsEnd
        <3>2. m.copy.by = m.token
            BY <3>1 DEF Inserted
        <3> QED
            BY <1>0, <3>1, <3>2 DEF Inv, CopiesPlaced
    <2>2. CASE m \in mail[w] /\ m.token \in K \cup C
        <3> DEFINE o == IF m.token \in K THEN Kept ELSE Committed
                   n == [kind |-> "settled", token |-> m.token, copy |-> m.copy, outcome |-> o]
        <3>1. n \in Message
            BY <1>m, <2>2 DEF Message, Kept, Committed
        <3>2. transfer[m.token].destination = w /\ m.copy = Inserted(m.token) /\ w \in open
            BY <2>2 DEF Inv, MailAddressed, ClosedEmpty
        <3>3. n \in mail'[w]
            BY <3>1, <3>2, <2>2 DEF TellsEnd
        <3> QED
            BY <2>2, <3>3 DEF Inv, ReceiveExpected
    <2>3. CASE m \in mail[w] /\ m.token \notin K \cup C
        BY <1>m, <2>3 DEF Inv, ReceiveExpected
    <2> QED
        BY <2>1, <2>2, <2>3
<1>9. CopiesPlaced'
    BY <1>0, <1>i DEF Inv, CopiesPlaced, TypeOK, Copy
<1>10. FirmSettled'
    BY <1>0, <1>m DEF Inv, FirmSettled, TellsEnd, CopiesPlaced, TypeOK
<1>14. DoneSettled'
    <2> SUFFICES ASSUME NEW w \in Windows, NEW m \in mail'[w], m.kind = "done"
                 PROVE  /\ m.copy.by \notin pending'
                        /\ m.copy \notin tentative[w]
                        /\ \A n \in mail'[w] : n.token = m.copy.by => n.kind = "done"
        BY DEF DoneSettled
    <2>1. /\ m.copy.by \notin pending
          /\ m.copy \notin tentative[w]
          /\ \A n \in mail[w] : n.token = m.copy.by => n.kind = "done"
        <3>1. CASE m \in mail[w]
            BY <3>1 DEF Inv, DoneSettled
        <3>2. CASE m \notin mail[w]
            <4>1. /\ m.token \in pending /\ w \in open
                  /\ transfer[m.token].source = w /\ transfer[m.token].copy = m.copy
                BY <3>2, <1>m DEF TellsEnd
            <4>2. m.copy \in firm[w]
                BY <4>1 DEF Inv, SourceKeeps, Keeps
            <4> QED
                BY <4>2 DEF Inv, FirmSettled
        <3> QED
            BY <3>1, <3>2
    <2> QED
        BY <2>1, <1>m DEF TellsEnd
<1>11. ClosedEmpty'
    BY <1>0, <1>m DEF Inv, ClosedEmpty
<1>12. NoStrayCopy'
    <2> SUFFICES ASSUME NEW w \in Windows, NEW c \in tentative[w]
                 PROVE  \/ c.by \in pending' /\ transfer'[c.by].destination = w
                        \/ \E m \in mail'[w] : m.kind = "settled" /\ m.copy = c
        BY DEF NoStrayCopy
    <2>1. CASE c.by \in K \cup C /\ transfer[c.by].destination = w
        <3> DEFINE o == IF c.by \in K THEN Kept ELSE Committed
                   n == [kind |-> "settled", token |-> c.by, copy |-> c, outcome |-> o]
        <3>1. n \in Message
            BY <1>0, <2>1 DEF Message, Kept, Committed, TypeOK
        <3>2. c = Inserted(c.by) /\ w \in open
            BY DEF Inv, CopiesPlaced, ClosedEmpty
        <3>3. n \in mail'[w]
            BY <3>1, <3>2, <2>1 DEF TellsEnd
        <3> QED
            BY <3>3
    <2>2. CASE \E m \in mail[w] : m.kind = "settled" /\ m.copy = c
        BY <1>m, <2>2
    <2>3. CASE c.by \in pending' /\ transfer[c.by].destination = w
        BY <1>0, <2>3 DEF TypeOK
    <2> QED
        BY <2>1, <2>2, <2>3 DEF Inv, NoStrayCopy
<1>13. OneCopy'
    <2> DEFINE Left(w, c) == \E k \in C : transfer[k].source = w /\ transfer[k].copy = c
               Came(w, c) == \E k \in C : transfer[k].destination = w /\ c = Inserted(k)
    <2>1. \A w \in Windows : \A c \in Copy :
             HasCopy(w, c)' <=> (HasCopy(w, c) /\ ~Left(w, c)) \/ Came(w, c)
        BY <1>h
    <2>2. ASSUME NEW k \in C
          PROVE  /\ transfer[k].source \in Windows /\ transfer[k].copy \in Copy
                 /\ HasCopy(transfer[k].source, transfer[k].copy)
                 /\ Inserted(k).tab = transfer[k].copy.tab
        BY <1>0 DEF Inv, SourceKeeps, HasCopy, TypeOK, Transfer, Inserted
    <2> HIDE DEF BrokerStep
    <2>3. OneCopy
        BY DEF Inv
    <2>4. \A j, k \in C : j = k
        BY DEF BrokerStep
    <2> SUFFICES ASSUME NEW v \in Windows, NEW w \in Windows, NEW c \in Copy, NEW d \in Copy,
                        c.tab = d.tab, HasCopy(v, c)', HasCopy(w, d)'
                 PROVE  v = w /\ c = d
        BY DEF OneCopy
    <2>5. CASE Came(v, c) /\ Came(w, d)
        BY <2>4, <2>5
    <2>6. CASE Came(v, c) /\ HasCopy(w, d) /\ ~Left(w, d)
        BY <2>2, <2>3, <2>6 DEF OneCopy
    <2>7. CASE Came(w, d) /\ HasCopy(v, c) /\ ~Left(v, c)
        BY <2>2, <2>3, <2>7 DEF OneCopy
    <2>8. CASE HasCopy(v, c) /\ HasCopy(w, d)
        BY <2>3, <2>8 DEF OneCopy
    <2> QED
        BY <2>1, <2>5, <2>6, <2>7, <2>8
<1> QED
    BY <1>t, <1>1, <1>2, <1>3, <1>4, <1>5, <1>6, <1>7, <1>8, <1>9, <1>10, <1>11, <1>12, <1>13,
       <1>14
       DEF Inv

\* claim, acknowledge, cancel, expire and window_closed are such steps.
LEMMA BrokerCalls ==
    ASSUME TypeOK
    PROVE  /\ \A k \in Tokens, w \in Windows :
                 /\ Claim(k, w) => BrokerStep(due, {}, {k})
                 /\ ClaimUnreachable(k, w) => BrokerStep(due \cup {k}, {}, {k})
                 /\ Commit(k, w) => BrokerStep(due, {k}, {})
                 /\ RollBack(k, w) => BrokerStep(due \cup {k}, {}, {})
           /\ \A k \in Tokens : Cancel(k) => BrokerStep({k}, {}, {})
           /\ Expire => BrokerStep(due, {}, {})
           /\ \A w \in Windows :
                 WindowClosed(w) => BrokerStep({k \in pending : Involves(k, w)}, {}, {})
<1>0. /\ pending \in SUBSET Tokens /\ due \in SUBSET pending
      /\ transfer \in [Tokens -> Transfer] /\ announced \in SUBSET (Windows \ open)
      /\ mail \in [Windows -> SUBSET Message]
    BY DEF TypeOK
<1>1. ASSUME NEW k \in Tokens, NEW w \in Windows, k \in pending,
             transfer' = [transfer EXCEPT ![k] =
                [source |-> transfer[k].source, copy |-> transfer[k].copy, destination |-> w]]
      PROVE  /\ transfer' \in [Tokens -> Transfer]
             /\ \A j \in Tokens : /\ transfer'[j].source = transfer[j].source
                                 /\ transfer'[j].copy = transfer[j].copy
             /\ \A j \in Tokens \ {k} : transfer'[j].destination = transfer[j].destination
             /\ transfer'[k].destination = w
    <2>1. transfer[k] \in Transfer
        BY <1>0
    <2>2. [source |-> transfer[k].source, copy |-> transfer[k].copy, destination |-> w]
             \in Transfer
        BY <2>1 DEF Transfer
    <2> QED
        BY <1>0, <1>1, <2>2
<1>2. ASSUME NEW k \in Tokens, NEW w \in Windows, Claim(k, w)
      PROVE  BrokerStep(due, {}, {k})
    <2> DEFINE r == [kind |-> "receive", token |-> k, copy |-> Inserted(k), outcome |-> "none"]
    <2>1. r \in Message
        BY <1>0, InsertedIsCopy DEF Message
    <2>2. /\ Notified(due, {}) \in [Windows -> SUBSET Message]
          /\ \A v \in Windows : \A m \in Message :
                 m \in Notified(due, {})[v] <=>
                    \/ m \in mail[v]
                    \/ v \in open /\ TellsEnd(m, v, due, Kept)
                    \/ v \in open /\ TellsEnd(m, v, {}, Committed)
        BY <1>0, NotifiedTells
    <2>3. /\ mail' \in [Windows -> SUBSET Message]
          /\ \A v \in Windows : \A m \in Message :
                 m \in mail'[v] <=> m \in Notified(due, {})[v] \/ (v = w /\ m = r)
        BY <1>2, <2>1, <2>2 DEF Claim
    <2>4. /\ transfer' \in [Tokens -> Transfer]
          /\ \A j \in Tokens : /\ transfer'[j].source = transfer[j].source
                              /\ transfer'[j].copy = transfer[j].copy
          /\ \A j \in Tokens \ {k} : transfer'[j].destination = transfer[j].destination
          /\ transfer'[k].destination = w
        BY <1>1, <1>2 DEF Claim, MayClaim
    <2>5. k \in pending' /\ transfer[k].destination = NoWindow /\ w \in open
        BY <1>2 DEF Claim, MayClaim
    <2>6. \A v \in Windows : \A m \in Message :
             (v = w /\ m = r) <=>
                /\ v \in open /\ m.kind = "receive"
                /\ m.token \in {k} \cap pending' /\ m.copy = Inserted(m.token)
                /\ transfer'[m.token].destination = v
                /\ m.outcome = "none"
        BY <2>4, <2>5 DEF Message
    <2> QED
        BY <1>0, <1>2, <2>2, <2>3, <2>4, <2>5, <2>6 DEF BrokerStep, Claim
<1>3. ASSUME NEW k \in Tokens, NEW w \in Windows, ClaimUnreachable(k, w)
      PROVE  BrokerStep(due \cup {k}, {}, {k})
    <2>1. due \cup {k} \in SUBSET Tokens /\ {} \in SUBSET Tokens /\ k \in pending
        BY <1>0, <1>3 DEF ClaimUnreachable, MayClaim
    <2> QED
        BY <1>0, <1>1, <1>3, <2>1, NotifiedTells DEF BrokerStep, ClaimUnreachable, MayClaim
<1>4. ASSUME NEW k \in Tokens, NEW w \in Windows, Commit(k, w)
      PROVE  BrokerStep(due, {k}, {})
    <2>1. due \in SUBSET Tokens /\ {k} \in SUBSET Tokens
        BY <1>0
    <2> QED
        BY <1>0, <1>4, <2>1, NotifiedTells DEF BrokerStep, Commit, Accepts, Matches
<1>5. ASSUME NEW K \in SUBSET pending, Cancelled(K),
             UNCHANGED <<used, transfer, open, firm, tentative>>,
             announced' \in SUBSET (Windows \ open)
      PROVE  BrokerStep(K, {}, {})
    <2>1. K \in SUBSET Tokens /\ {} \in SUBSET Tokens
        BY <1>0
    <2> QED
        BY <1>0, <1>5, <2>1, NotifiedTells DEF BrokerStep, Cancelled
<1>6. ASSUME NEW k \in Tokens, NEW w \in Windows, RollBack(k, w)
      PROVE  BrokerStep(due \cup {k}, {}, {})
    BY <1>0, <1>5, <1>6 DEF RollBack
<1>7. ASSUME NEW k \in Tokens, Cancel(k)
      PROVE  BrokerStep({k}, {}, {})
    BY <1>0, <1>5, <1>7 DEF Cancel
<1>8. ASSUME Expire
      PROVE  BrokerStep(due, {}, {})
    BY <1>0, <1>5, <1>8 DEF Expire
<1>9. ASSUME NEW w \in Windows, WindowClosed(w)
      PROVE  BrokerStep({k \in pending : Involves(k, w)}, {}, {})
    <2>1. {k \in pending : Involves(k, w)} \in SUBSET pending
        OBVIOUS
    <2>2. announced' \in SUBSET (Windows \ open)
        BY <1>0, <1>9 DEF WindowClosed
    <2> QED
        BY <1>5, <1>9, <2>1, <2>2 DEF WindowClosed
<1> QED
    BY <1>2, <1>3, <1>4, <1>6, <1>7, <1>8, <1>9

\* The invariant and the ownership of every tab survive the other actions.
LEMMA OfferInv ==
    ASSUME Inv, NEW w \in Windows, NEW copy \in firm[w], NEW k \in Tokens, Offer(w, copy, k)
    PROVE  Inv' /\ \A v \in Windows : \A c \in Copy : HasCopy(v, c)' <=> HasCopy(v, c)
<1> DEFINE waiting == pending \ due
<1>0. /\ TypeOK /\ transfer \in [Tokens -> Transfer] /\ due \in SUBSET Tokens
      /\ pending \in SUBSET used /\ used \in SUBSET Tokens
      /\ mail \in [Windows -> SUBSET Message] /\ copy \in Copy
    BY DEF Inv, TypeOK
<1>1. /\ k \notin used /\ used' = used \cup {k} /\ pending' = waiting \cup {k} /\ due' = {}
      /\ Offers(w, copy)
      /\ transfer' = [transfer EXCEPT ![k] =
            [source |-> w, copy |-> copy, destination |-> NoWindow]]
      /\ \A j \in waiting : transfer[j].source = w => transfer[j].copy # copy
      /\ mail' = Notified(due, {})
      /\ UNCHANGED <<open, announced, firm, tentative>>
    BY DEF Offer, MayOffer
<1>2. [source |-> w, copy |-> copy, destination |-> NoWindow] \in Transfer
    BY <1>0 DEF Transfer
<1>3. /\ transfer' \in [Tokens -> Transfer]
      /\ \A j \in Tokens \ {k} : transfer'[j] = transfer[j]
      /\ transfer'[k].source = w /\ transfer'[k].copy = copy
      /\ transfer'[k].destination = NoWindow
    BY <1>0, <1>1, <1>2
<1>4. /\ mail' \in [Windows -> SUBSET Message]
      /\ \A v \in Windows : \A m \in Message :
             m \in mail'[v] <=> m \in mail[v] \/ (v \in open /\ TellsEnd(m, v, due, Kept))
    <2>1. {} \in SUBSET Tokens
        OBVIOUS
    <2> QED
        BY <1>0, <1>1, <2>1, NotifiedTells DEF TellsEnd
<1>m. \A v \in Windows : mail[v] \subseteq Message /\ mail'[v] \subseteq Message
    BY <1>0, <1>4
<1>5. \A v \in Windows : \A m \in mail'[v] : m.token \in used /\ m.token # k /\ m.token \in Tokens
    BY <1>0, <1>1, <1>4, <1>m DEF Inv, Fresh, TellsEnd, Message, TypeOK
<1>6. \A v \in Windows : \A c \in firm[v] \cup tentative[v] : c.by # k
    BY <1>1 DEF Inv, Fresh
<1>7. \A j \in Tokens \ {k} : Inserted(j)' = Inserted(j)
    BY <1>3 DEF Inserted
<1>8. \A v \in Windows : \A m \in mail[v] : m \in mail'[v]
    BY <1>4, <1>m
<1>9. \A v \in Windows : \A m \in mail'[v] : m \notin mail[v] =>
         /\ m.token \in due /\ m.outcome = Kept /\ v \in open
         /\ \/ /\ m.kind = "settled" /\ m.copy = Inserted(m.token)
               /\ transfer[m.token].destination = v
            \/ /\ m.kind = "done" /\ m.copy = transfer[m.token].copy
               /\ transfer[m.token].source = v
    BY <1>4, <1>m DEF TellsEnd
<1>10. Kept # Committed
    BY DEF Kept, Committed
<1>h. \A v \in Windows : \A c \in Copy : HasCopy(v, c)' <=> HasCopy(v, c)
    BY <1>1, <1>8, <1>9, <1>10 DEF HasCopy, Keeps, MustKeep
<1>k. \A v \in Windows : \A c \in Copy : Keeps(v, c)' <=> Keeps(v, c)
    BY <1>1, <1>8, <1>9, <1>10 DEF Keeps
<1>11. TypeOK'
    BY <1>0, <1>1, <1>3, <1>4 DEF TypeOK
<1>12. Fresh'
    <2>1. ASSUME NEW j \in Tokens \ used', NEW v \in Windows, NEW m \in mail'[v]
          PROVE  m.token # j /\ m.copy.by # j
        <3>1. CASE m \in mail[v]
            BY <1>1, <3>1 DEF Inv, Fresh
        <3>2. CASE m \notin mail[v] /\ m.copy = Inserted(m.token)
            BY <1>0, <1>1, <1>5, <3>2 DEF Inserted
        <3>3. CASE m \notin mail[v] /\ m.kind = "done"
            BY <1>0, <1>1, <1>5, <1>9, <3>3 DEF Inv, Fresh, SourceKeeps, Keeps, TypeOK
        <3> QED
            BY <1>9, <3>1, <3>2, <3>3
    <2> QED
        BY <1>1, <2>1 DEF Inv, Fresh
<1>13. SourceKeeps'
    <2>1. Keeps(w, copy)
        BY <1>1 DEF Offers, AwaitsDone, Keeps
    <2>2. ASSUME NEW j \in pending', transfer'[j].source \in open
          PROVE  Keeps(transfer[j].source, transfer[j].copy)'
        <3>1. CASE j = k
            <4>1. Keeps(w, copy)'
                BY <1>0, <1>k, <2>1
            <4>2. transfer'[j].source = w /\ transfer'[j].copy = copy
                BY <1>3, <3>1
            <4> QED
                BY <4>1, <4>2 DEF Keeps
        <3>2. CASE j # k
            <4>1. j \in pending /\ j \in Tokens /\ transfer'[j] = transfer[j]
                BY <1>0, <1>1, <1>3, <3>2
            <4>2. transfer[j].source \in open
                BY <2>2, <4>1
            <4>3. Keeps(transfer[j].source, transfer[j].copy) /\ transfer[j] \in Transfer
                BY <1>0, <4>1, <4>2 DEF Inv, SourceKeeps
            <4>4. PICK v \in Windows, c \in Copy : v = transfer[j].source /\ c = transfer[j].copy
                BY <4>3 DEF Transfer
            <4>5. Keeps(v, c)'
                BY <1>k, <4>3, <4>4
            <4>6. transfer'[j].source = v /\ transfer'[j].copy = c
                BY <4>1, <4>4
            <4> QED
                BY <4>5, <4>6 DEF Keeps
        <3> QED
            BY <3>1, <3>2
    <2> QED
        BY <1>1, <2>2 DEF SourceKeeps
<1>14. OneMoveEach'
    BY <1>0, <1>1, <1>3 DEF Inv, OneMoveEach
<1>15. PendingQuiet'
    BY <1>0, <1>1, <1>5, <1>9 DEF Inv, PendingQuiet
<1>16. MailAddressed'
    BY <1>3, <1>5, <1>7, <1>9 DEF Inv, MailAddressed
<1>17. OneEnding'
    <2>1. \A v \in Windows : \A m \in mail[v] : m.kind # "receive" => m.token \notin due
        BY <1>0 DEF Inv, PendingQuiet, TypeOK
    <2>2. \A v \in Windows : \A m \in mail'[v] :
             m.kind # "receive" => (m \in mail[v]) \/ (m.token \in due /\ m.outcome = Kept)
        BY <1>9
    <2> QED
        BY <2>1, <2>2 DEF Inv, OneEnding
<1>18. CommittedReceived'
    BY <1>1, <1>9, <1>10 DEF Inv, CommittedReceived
<1>19. ReceiveExpected'
    <2> SUFFICES ASSUME NEW v \in Windows, NEW m \in mail'[v], m.kind = "receive"
                 PROVE  /\ m.outcome = "none"
                        /\ m.copy \notin tentative[v]
                        /\ \/ m.token \in pending'
                           \/ \E n \in mail'[v] : n.kind = "settled" /\ n.copy = m.copy
        BY <1>1 DEF ReceiveExpected
    <2>1. m \in mail[v]
        BY <1>9
    <2>2. CASE m.token \in due
        <3> DEFINE n == [kind |-> "settled", token |-> m.token, copy |-> m.copy, outcome |-> Kept]
        <3>1. n \in Message
            BY <1>m, <2>2 DEF Message, Kept
        <3>2. transfer[m.token].destination = v /\ m.copy = Inserted(m.token) /\ v \in open
            BY <2>1 DEF Inv, MailAddressed, ClosedEmpty
        <3>3. n \in mail'[v]
            BY <1>4, <3>1, <3>2, <2>2 DEF TellsEnd
        <3> QED
            BY <2>1, <3>3 DEF Inv, ReceiveExpected
    <2>3. CASE m.token \notin due
        BY <1>1, <1>8, <2>1, <2>3 DEF Inv, ReceiveExpected
    <2> QED
        BY <2>2, <2>3
<1>20. CopiesPlaced'
    BY <1>0, <1>1, <1>3, <1>6, <1>7 DEF Inv, CopiesPlaced, TypeOK, Copy
<1>21. FirmSettled'
    <2>1. due \subseteq pending
        BY DEF Inv, TypeOK
    <2> SUFFICES ASSUME NEW v \in Windows, NEW c \in firm[v]
                 PROVE  /\ c.by \notin pending' /\ c \notin tentative[v]
                        /\ \A m \in mail'[v] : m.token = c.by => m.kind = "done"
        BY <1>1 DEF FirmSettled
    <2>2. /\ c.by \notin pending /\ c \notin tentative[v] /\ c.by # k
          /\ \A m \in mail[v] : m.token = c.by => m.kind = "done"
        BY <1>6 DEF Inv, FirmSettled
    <2> QED
        BY <1>1, <1>9, <2>1, <2>2
<1>22. DoneSettled'
    <2> SUFFICES ASSUME NEW v \in Windows, NEW m \in mail'[v], m.kind = "done"
                 PROVE  /\ m.copy.by \notin pending' /\ m.copy \notin tentative[v]
                        /\ \A n \in mail'[v] : n.token = m.copy.by => n.kind = "done"
        BY <1>1 DEF DoneSettled
    <2>1. /\ m.copy.by \notin pending /\ m.copy \notin tentative[v] /\ m.copy.by # k
          /\ \A n \in mail[v] : n.token = m.copy.by => n.kind = "done"
        <3>1. CASE m \in mail[v]
            BY <1>1, <3>1 DEF Inv, DoneSettled, Fresh
        <3>2. CASE m \notin mail[v]
            <4>1. m.copy \in firm[v]
                BY <1>0, <1>9, <3>2 DEF Inv, SourceKeeps, Keeps, TypeOK
            <4> QED
                BY <1>6, <4>1 DEF Inv, FirmSettled
        <3> QED
            BY <3>1, <3>2
    <2>2. due \subseteq pending
        BY DEF Inv, TypeOK
    <2> QED
        BY <1>1, <1>9, <2>1, <2>2
<1>23. ClosedEmpty'
    BY <1>1, <1>9 DEF Inv, ClosedEmpty
<1>24. NoStrayCopy'
    <2> SUFFICES ASSUME NEW v \in Windows, NEW c \in tentative[v]
                 PROVE  \/ c.by \in pending' /\ transfer'[c.by].destination = v
                        \/ \E m \in mail'[v] : m.kind = "settled" /\ m.copy = c
        BY <1>1 DEF NoStrayCopy
    <2>1. CASE c.by \in due /\ transfer[c.by].destination = v
        <3> DEFINE n == [kind |-> "settled", token |-> c.by, copy |-> c, outcome |-> Kept]
        <3>1. n \in Message
            BY <1>0, <2>1 DEF Message, Kept, TypeOK
        <3>2. c = Inserted(c.by) /\ v \in open
            BY DEF Inv, CopiesPlaced, ClosedEmpty
        <3>3. n \in mail'[v]
            BY <1>4, <3>1, <3>2, <2>1 DEF TellsEnd
        <3> QED
            BY <3>3
    <2>2. CASE \E m \in mail[v] : m.kind = "settled" /\ m.copy = c
        BY <1>8, <2>2
    <2>3. CASE c.by \in waiting /\ transfer[c.by].destination = v
        BY <1>0, <1>1, <1>3, <2>3
    <2> QED
        BY <2>1, <2>2, <2>3 DEF Inv, NoStrayCopy
<1>25. OneCopy'
    <2>1. OneCopy
        BY DEF Inv
    <2> QED
        BY <1>h, <2>1 DEF OneCopy
<1> QED
    BY <1>h, <1>11, <1>12, <1>13, <1>14, <1>15, <1>16, <1>17, <1>18, <1>19, <1>20, <1>21, <1>22,
       <1>23, <1>24, <1>25 DEF Inv

LEMMA TimePassesInv ==
    ASSUME Inv, NEW k \in Tokens, TimePasses(k)
    PROVE  Inv' /\ \A v \in Windows : \A c \in Copy : HasCopy(v, c)' <=> HasCopy(v, c)
<1>1. /\ due' \in SUBSET pending'
      /\ UNCHANGED <<used, pending, transfer, open, announced, firm, tentative, mail>>
    BY DEF TimePasses, Inv, TypeOK
<1>2. TypeOK'
    BY <1>1 DEF Inv, TypeOK
<1> QED
    BY <1>1, <1>2 DEF Inv, Fresh, SourceKeeps, OneMoveEach, PendingQuiet, MailAddressed, OneEnding,
       CommittedReceived, ReceiveExpected, CopiesPlaced, FirmSettled, DoneSettled, ClosedEmpty,
       NoStrayCopy, OneCopy, HasCopy, Keeps, MustKeep, Inserted

\* A window takes all it has with it; what the others have stays.
LEMMA WindowGoesInv ==
    ASSUME Inv, NEW w \in Windows, WindowGoes(w)
    PROVE  Inv' /\ \A v \in Windows : \A c \in Copy : HasCopy(v, c)' <=> v # w /\ HasCopy(v, c)
<1>0. /\ firm \in [Windows -> SUBSET Copy] /\ tentative \in [Windows -> SUBSET Copy]
      /\ mail \in [Windows -> SUBSET Message] /\ transfer \in [Tokens -> Transfer]
      /\ pending \subseteq Tokens
    BY DEF Inv, TypeOK
<1>1. /\ w \in open /\ open' = open \ {w}
      /\ firm'[w] = {} /\ tentative'[w] = {} /\ mail'[w] = {}
      /\ \A v \in Windows \ {w} : /\ firm'[v] = firm[v] /\ tentative'[v] = tentative[v]
                                 /\ mail'[v] = mail[v]
      /\ UNCHANGED <<used, pending, transfer, due, announced>>
    BY <1>0 DEF WindowGoes
<1>i. \A k \in Tokens : Inserted(k)' = Inserted(k)
    BY <1>1 DEF Inserted
<1>h. \A v \in Windows : \A c \in Copy : HasCopy(v, c)' <=> v # w /\ HasCopy(v, c)
    BY <1>1 DEF HasCopy, Keeps, MustKeep
<1>2. TypeOK'
    BY <1>0, <1>1 DEF WindowGoes, Inv, TypeOK
<1>3. Fresh'
    BY <1>1 DEF Inv, Fresh
<1>4. SourceKeeps'
    <2> SUFFICES ASSUME NEW k \in pending', transfer'[k].source \in open'
                 PROVE  Keeps(transfer[k].source, transfer[k].copy)'
        BY DEF SourceKeeps
    <2>1. k \in pending /\ transfer' = transfer /\ transfer[k].source \in open \ {w}
        BY <1>1
    <2>2. Keeps(transfer[k].source, transfer[k].copy) /\ transfer[k].source \in Windows \ {w}
        BY <1>0, <2>1 DEF Inv, SourceKeeps, Transfer
    <2> QED
        BY <1>1, <2>1, <2>2 DEF Keeps
<1>5. OneMoveEach'
    BY <1>1 DEF Inv, OneMoveEach
<1>6. PendingQuiet'
    BY <1>1 DEF Inv, PendingQuiet
<1>7. MailAddressed'
    BY <1>0, <1>1, <1>i DEF Inv, MailAddressed, Message
<1>8. OneEnding'
    BY <1>1 DEF Inv, OneEnding
<1>9. CommittedReceived'
    BY <1>1 DEF Inv, CommittedReceived
<1>10. ReceiveExpected'
    BY <1>1 DEF Inv, ReceiveExpected
<1>11. CopiesPlaced'
    BY <1>0, <1>1, <1>i DEF Inv, CopiesPlaced, Copy
<1>12. FirmSettled'
    BY <1>1 DEF Inv, FirmSettled
<1>13. DoneSettled'
    BY <1>1 DEF Inv, DoneSettled
<1>14. ClosedEmpty'
    BY <1>1 DEF Inv, ClosedEmpty
<1>15. NoStrayCopy'
    BY <1>1 DEF Inv, NoStrayCopy
<1>16. OneCopy'
    <2>1. OneCopy
        BY DEF Inv
    <2> QED
        BY <1>h, <2>1 DEF OneCopy
<1> QED
    BY <1>h, <1>2, <1>3, <1>4, <1>5, <1>6, <1>7, <1>8, <1>9, <1>10, <1>11, <1>12, <1>13, <1>14,
       <1>15, <1>16 DEF Inv

LEMMA HandleReceiveInv ==
    ASSUME Inv, NEW w \in Windows, NEW r \in mail[w], HandleReceive(w, r)
    PROVE  Inv' /\ \A v \in Windows : \A c \in Copy : HasCopy(v, c)' <=> HasCopy(v, c)
<1>0. /\ firm \in [Windows -> SUBSET Copy] /\ tentative \in [Windows -> SUBSET Copy]
      /\ mail \in [Windows -> SUBSET Message] /\ transfer \in [Tokens -> Transfer]
      /\ pending \subseteq Tokens /\ r \in Message /\ r.copy \in Copy /\ r.token \in Tokens
    BY DEF Inv, TypeOK, Message
<1>1. /\ r.kind = "receive"
      /\ mail' = [mail EXCEPT ![w] = mail[w] \ {r}]
      /\ tentative' \in [Windows -> SUBSET Copy]
      /\ tentative[w] \subseteq tentative'[w] /\ tentative'[w] \subseteq tentative[w] \cup {r.copy}
      /\ \A v \in Windows \ {w} : tentative'[v] = tentative[v]
      /\ UNCHANGED <<used, pending, transfer, due, open, announced, firm>>
    BY <1>0 DEF HandleReceive, Taken
<1>2. /\ mail' \in [Windows -> SUBSET Message]
      /\ mail'[w] = mail[w] \ {r}
      /\ \A v \in Windows \ {w} : mail'[v] = mail[v]
      /\ \A v \in Windows : mail'[v] \subseteq mail[v]
      /\ \A v \in Windows : \A m \in mail[v] : m.kind # "receive" => m \in mail'[v]
    BY <1>0, <1>1
<1>3. /\ transfer[r.token].destination = w /\ r.copy = Inserted(r.token) /\ r.copy.by = r.token
      /\ w \in open
      /\ r.token \in pending \/ \E n \in mail[w] : n.kind = "settled" /\ n.copy = r.copy
    BY <1>1 DEF Inv, MailAddressed, ClosedEmpty, ReceiveExpected, Inserted
<1>4. \A m \in mail'[w] : m.kind = "receive" => m.copy # r.copy
    <2>1. ASSUME NEW m \in mail'[w], m.kind = "receive", m.copy = r.copy
          PROVE  FALSE
        <3>1. m \in Message /\ m # r /\ m.token = r.token
            <4>1. m \in mail[w] /\ m # r
                BY <1>2
            <4>2. m.copy = Inserted(m.token)
                BY <2>1, <4>1 DEF Inv, MailAddressed
            <4>3. m.copy.by = m.token
                BY <4>2 DEF Inserted
            <4> QED
                BY <1>0, <1>3, <2>1, <4>1, <4>3
        <3>2. m.outcome = "none" /\ r.outcome = "none"
            BY <1>1, <1>2, <2>1 DEF Inv, ReceiveExpected
        <3> QED
            BY <1>0, <1>1, <2>1, <3>1, <3>2 DEF Message
    <2> QED
        BY <2>1
<1>i. \A k \in Tokens : Inserted(k)' = Inserted(k)
    BY <1>1 DEF Inserted
<1>k. \A v \in Windows : \A c : Keeps(v, c)' <=> Keeps(v, c)
    BY <1>1, <1>2 DEF Keeps
<1>h. \A v \in Windows : \A c \in Copy : HasCopy(v, c)' <=> HasCopy(v, c)
    BY <1>k, <1>1, <1>2 DEF HasCopy, MustKeep
<1>5. TypeOK'
    BY <1>0, <1>1, <1>2 DEF Inv, TypeOK
<1>6. Fresh'
    <2>1. r.token \in used
        BY <1>0 DEF Inv, Fresh
    <2>2. \A v \in Windows : \A c \in tentative'[v] : c \in tentative[v] \/ c.by = r.token
        BY <1>1, <1>3
    <2> QED
        BY <1>1, <1>2, <2>1, <2>2 DEF Inv, Fresh
<1>7. SourceKeeps'
    <2> SUFFICES ASSUME NEW k \in pending', transfer'[k].source \in open'
                 PROVE  Keeps(transfer[k].source, transfer[k].copy)'
        BY DEF SourceKeeps
    <2>1. k \in pending /\ transfer' = transfer /\ transfer[k].source \in open
        BY <1>1
    <2>2. Keeps(transfer[k].source, transfer[k].copy) /\ transfer[k].source \in Windows
        BY <1>0, <2>1 DEF Inv, SourceKeeps, Transfer
    <2> QED
        BY <1>1, <1>2, <2>1, <2>2 DEF Keeps
<1>8. OneMoveEach'
    BY <1>1 DEF Inv, OneMoveEach
<1>9. PendingQuiet'
    BY <1>1, <1>2 DEF Inv, PendingQuiet
<1>10. MailAddressed'
    BY <1>0, <1>1, <1>2, <1>i DEF Inv, MailAddressed, Message
<1>11. OneEnding'
    BY <1>1, <1>2 DEF Inv, OneEnding
<1>12. CommittedReceived'
    BY <1>1, <1>2 DEF Inv, CommittedReceived
<1>13. ReceiveExpected'
    <2>1. \A v \in Windows : \A m \in mail'[v] : m.kind = "receive" => m.copy \notin tentative'[v]
        BY <1>1, <1>2, <1>4 DEF Inv, ReceiveExpected
    <2> QED
        BY <1>1, <1>2, <2>1 DEF Inv, ReceiveExpected
<1>14. CopiesPlaced'
    <2>1. r.copy.by # NoToken
        BY <1>0, <1>3, TokensAssumption
    <2>2. \A v \in Windows : \A c \in tentative'[v] : c \in tentative[v] \/ (v = w /\ c = r.copy)
        BY <1>1
    <2> QED
        BY <1>0, <1>1, <1>3, <1>i, <2>1, <2>2 DEF Inv, CopiesPlaced, Copy
<1>15. FirmSettled'
    <2>1. r.copy \notin firm[w]
        BY <1>1, <1>3 DEF Inv, FirmSettled
    <2> QED
        BY <1>1, <1>2, <2>1 DEF Inv, FirmSettled
<1>16. DoneSettled'
    <2>1. \A m \in mail[w] : m.kind = "done" => m.copy # r.copy
        BY <1>1, <1>3 DEF Inv, DoneSettled
    <2> QED
        BY <1>1, <1>2, <2>1 DEF Inv, DoneSettled
<1>17. ClosedEmpty'
    BY <1>1, <1>2, <1>3 DEF Inv, ClosedEmpty
<1>18. NoStrayCopy'
    <2> SUFFICES ASSUME NEW v \in Windows, NEW c \in tentative'[v]
                 PROVE  \/ c.by \in pending /\ transfer[c.by].destination = v
                        \/ \E m \in mail'[v] : m.kind = "settled" /\ m.copy = c
        BY <1>1 DEF NoStrayCopy
    <2>1. \/ c.by \in pending /\ transfer[c.by].destination = v
          \/ \E m \in mail[v] : m.kind = "settled" /\ m.copy = c
        BY <1>1, <1>3 DEF Inv, NoStrayCopy
    <2> QED
        BY <1>2, <2>1
<1>19. OneCopy'
    <2>1. OneCopy
        BY DEF Inv
    <2> QED
        BY <1>h, <2>1 DEF OneCopy
<1> QED
    BY <1>h, <1>5, <1>6, <1>7, <1>8, <1>9, <1>10, <1>11, <1>12, <1>13, <1>14, <1>15, <1>16, <1>17,
       <1>18, <1>19 DEF Inv

LEMMA HandleSettledInv ==
    ASSUME Inv, NEW w \in Windows, NEW r \in mail[w], HandleSettled(w, r)
    PROVE  Inv' /\ \A v \in Windows : \A c \in Copy : HasCopy(v, c)' <=> HasCopy(v, c)
<1>0. /\ firm \in [Windows -> SUBSET Copy] /\ tentative \in [Windows -> SUBSET Copy]
      /\ mail \in [Windows -> SUBSET Message] /\ transfer \in [Tokens -> Transfer]
      /\ pending \subseteq Tokens /\ r \in Message /\ r.copy \in Copy /\ r.token \in Tokens
    BY DEF Inv, TypeOK, Message
<1>1. /\ r.kind = "settled"
      /\ \A m \in mail[w] : m.token = r.token => m.kind # "receive"
      /\ mail' = [mail EXCEPT ![w] = mail[w] \ {r}]
      /\ tentative' = [tentative EXCEPT ![w] = tentative[w] \ {r.copy}]
      /\ firm' \in [Windows -> SUBSET Copy]
      /\ firm'[w] = IF r.outcome = Committed THEN firm[w] \cup {r.copy} ELSE firm[w]
      /\ \A v \in Windows \ {w} : firm'[v] = firm[v]
      /\ UNCHANGED <<used, pending, transfer, due, open, announced>>
    BY <1>0 DEF HandleSettled, Taken
<1>2. /\ mail' \in [Windows -> SUBSET Message]
      /\ mail'[w] = mail[w] \ {r}
      /\ \A v \in Windows \ {w} : mail'[v] = mail[v]
      /\ \A v \in Windows : mail'[v] \subseteq mail[v]
      /\ tentative' \in [Windows -> SUBSET Copy]
      /\ tentative'[w] = tentative[w] \ {r.copy}
      /\ \A v \in Windows \ {w} : tentative'[v] = tentative[v]
      /\ \A v \in Windows : tentative'[v] \subseteq tentative[v]
    BY <1>0, <1>1
<1>3. /\ transfer[r.token].destination = w /\ r.copy = Inserted(r.token) /\ r.copy.by = r.token
      /\ w \in open /\ r.token \notin pending
    BY <1>1 DEF Inv, MailAddressed, ClosedEmpty, PendingQuiet, Inserted
<1>4. ASSUME NEW m \in mail[w], m.token = r.token, m # r
      PROVE  m.kind = "done"
    <2>1. m \in Message /\ m.kind # "receive"
        BY <1>0, <1>1, <1>4
    <2>2. CASE m.kind = "settled"
        <3>1. m.copy = r.copy
            BY <1>3, <1>4, <2>2 DEF Inv, MailAddressed
        <3>2. m.outcome = r.outcome
            BY <1>1, <1>4, <2>1 DEF Inv, OneEnding
        <3> QED
            BY <1>0, <1>1, <1>4, <2>1, <2>2, <3>1, <3>2 DEF Message
    <2> QED
        BY <2>1, <2>2 DEF Message
<1>b. \A m \in mail[w] : m.kind # "done" => m.copy.by = m.token
    <2>1. \A k : Inserted(k).by = k
        BY DEF Inserted
    <2> QED
        BY <2>1 DEF Inv, MailAddressed
<1>5. \A m \in mail[w] : m.kind = "settled" /\ m.copy = r.copy => m = r
    <2>1. ASSUME NEW m \in mail[w], m.kind = "settled", m.copy = r.copy, m # r
          PROVE  FALSE
        <3>1. m.token = r.token
            BY <1>3, <1>b, <2>1
        <3> QED
            BY <1>4, <2>1, <3>1
    <2> QED
        BY <2>1
<1>d. \A m \in mail[w] : m.kind = "done" => m.copy # r.copy
    BY <1>1, <1>3 DEF Inv, DoneSettled
<1>i. \A k \in Tokens : Inserted(k)' = Inserted(k)
    BY <1>1 DEF Inserted
<1>k. \A v \in Windows : \A c : Keeps(v, c)' <=>
         Keeps(v, c) \/ (v = w /\ c = r.copy /\ r.outcome = Committed)
    BY <1>1, <1>2, <1>d DEF Keeps
<1>u. \A v \in Windows : \A c : MustKeep(v, c) <=>
         MustKeep(v, c)' \/ (v = w /\ c = r.copy /\ r.outcome = Committed)
    BY <1>1, <1>2 DEF MustKeep
<1>h. \A v \in Windows : \A c \in Copy : HasCopy(v, c)' <=> HasCopy(v, c)
    BY <1>k, <1>u DEF HasCopy
<1>6. TypeOK'
    BY <1>0, <1>1, <1>2 DEF Inv, TypeOK
<1>7. Fresh'
    <2>1. r.token \in used
        BY <1>0 DEF Inv, Fresh
    <2>2. \A v \in Windows : \A c \in firm'[v] : c \in firm[v] \/ c.by = r.token
        BY <1>1, <1>3
    <2> QED
        BY <1>1, <1>2, <2>1, <2>2 DEF Inv, Fresh
<1>8. SourceKeeps'
    <2> SUFFICES ASSUME NEW k \in pending', transfer'[k].source \in open'
                 PROVE  Keeps(transfer[k].source, transfer[k].copy)'
        BY DEF SourceKeeps
    <2>1. k \in pending /\ transfer' = transfer /\ transfer[k].source \in open
        BY <1>1
    <2>2. Keeps(transfer[k].source, transfer[k].copy) /\ transfer[k].source \in Windows
        BY <1>0, <2>1 DEF Inv, SourceKeeps, Transfer
    <2>3. \A v \in Windows : firm[v] \subseteq firm'[v] /\ mail'[v] \subseteq mail[v]
        BY <1>1, <1>2
    <2> QED
        BY <2>1, <2>2, <2>3 DEF Keeps
<1>9. OneMoveEach'
    BY <1>1 DEF Inv, OneMoveEach
<1>10. PendingQuiet'
    BY <1>1, <1>2 DEF Inv, PendingQuiet
<1>11. MailAddressed'
    BY <1>0, <1>1, <1>2, <1>i DEF Inv, MailAddressed, Message
<1>12. OneEnding'
    BY <1>1, <1>2 DEF Inv, OneEnding
<1>13. CommittedReceived'
    BY <1>2, <1>5 DEF Inv, CommittedReceived
<1>14. ReceiveExpected'
    <2> SUFFICES ASSUME NEW v \in Windows, NEW m \in mail'[v], m.kind = "receive"
                 PROVE  /\ m.outcome = "none"
                        /\ m.copy \notin tentative'[v]
                        /\ \/ m.token \in pending
                           \/ \E n \in mail'[v] : n.kind = "settled" /\ n.copy = m.copy
        BY <1>1 DEF ReceiveExpected
    <2>1. /\ m.outcome = "none" /\ m \in mail[v]
          /\ m.copy \notin tentative[v]
          /\ \/ m.token \in pending
             \/ \E n \in mail[v] : n.kind = "settled" /\ n.copy = m.copy
        BY <1>2 DEF Inv, ReceiveExpected
    <2>2. v = w => m.copy # r.copy
        BY <1>1, <1>3, <1>b, <2>1
    <2> QED
        BY <1>2, <2>1, <2>2
<1>15. CopiesPlaced'
    <2>1. r.copy.by # NoToken
        BY <1>0, <1>3, TokensAssumption
    <2>2. \A v \in Windows : \A c \in firm'[v] : c \in firm[v] \/ (v = w /\ c = r.copy)
        BY <1>1
    <2> QED
        BY <1>0, <1>1, <1>2, <1>3, <1>i, <2>1, <2>2 DEF Inv, CopiesPlaced, Copy
<1>16. FirmSettled'
    <2> SUFFICES ASSUME NEW v \in Windows, NEW c \in firm'[v]
                 PROVE  /\ c.by \notin pending /\ c \notin tentative'[v]
                        /\ \A m \in mail'[v] : m.token = c.by => m.kind = "done"
        BY <1>1 DEF FirmSettled
    <2>1. CASE c \in firm[v]
        BY <1>2, <2>1 DEF Inv, FirmSettled
    <2>2. CASE v = w /\ c = r.copy
        BY <1>2, <1>3, <1>4, <2>2
    <2> QED
        BY <1>1, <2>1, <2>2
<1>17. DoneSettled'
    BY <1>1, <1>2 DEF Inv, DoneSettled
<1>18. ClosedEmpty'
    BY <1>1, <1>2, <1>3 DEF Inv, ClosedEmpty
<1>19. NoStrayCopy'
    <2> SUFFICES ASSUME NEW v \in Windows, NEW c \in tentative'[v]
                 PROVE  \/ c.by \in pending /\ transfer[c.by].destination = v
                        \/ \E m \in mail'[v] : m.kind = "settled" /\ m.copy = c
        BY <1>1 DEF NoStrayCopy
    <2>1. \/ c.by \in pending /\ transfer[c.by].destination = v
          \/ \E m \in mail[v] : m.kind = "settled" /\ m.copy = c
        BY <1>2 DEF Inv, NoStrayCopy
    <2>2. v = w => c # r.copy
        BY <1>2
    <2> QED
        BY <1>2, <2>1, <2>2
<1>20. OneCopy'
    <2>1. OneCopy
        BY DEF Inv
    <2> QED
        BY <1>h, <2>1 DEF OneCopy
<1> QED
    BY <1>h, <1>6, <1>7, <1>8, <1>9, <1>10, <1>11, <1>12, <1>13, <1>14, <1>15, <1>16, <1>17,
       <1>18, <1>19, <1>20 DEF Inv

LEMMA HandleDoneInv ==
    ASSUME Inv, NEW w \in Windows, NEW r \in mail[w], HandleDone(w, r)
    PROVE  Inv' /\ \A v \in Windows : \A c \in Copy : HasCopy(v, c)' <=> HasCopy(v, c)
<1>0. /\ firm \in [Windows -> SUBSET Copy] /\ tentative \in [Windows -> SUBSET Copy]
      /\ mail \in [Windows -> SUBSET Message] /\ transfer \in [Tokens -> Transfer]
      /\ pending \subseteq Tokens /\ r \in Message /\ r.copy \in Copy /\ r.token \in Tokens
    BY DEF Inv, TypeOK, Message
<1>1. /\ r.kind = "done"
      /\ mail' = [mail EXCEPT ![w] = mail[w] \ {r}]
      /\ firm' \in [Windows -> SUBSET Copy]
      /\ firm'[w] = IF r.outcome = Committed THEN firm[w] \ {r.copy} ELSE firm[w]
      /\ \A v \in Windows \ {w} : firm'[v] = firm[v]
      /\ UNCHANGED <<used, pending, transfer, due, open, announced, tentative>>
    BY <1>0 DEF HandleDone, Taken
<1>2. /\ mail' \in [Windows -> SUBSET Message]
      /\ mail'[w] = mail[w] \ {r}
      /\ \A v \in Windows \ {w} : mail'[v] = mail[v]
      /\ \A v \in Windows : mail'[v] \subseteq mail[v]
      /\ \A v \in Windows : firm'[v] \subseteq firm[v]
      /\ \A v \in Windows : \A m \in mail[v] : m.kind # "done" => m \in mail'[v]
    BY <1>0, <1>1
<1>i. \A k \in Tokens : Inserted(k)' = Inserted(k)
    BY <1>1 DEF Inserted
<1>k. \A v \in Windows : \A c : Keeps(v, c)' <=> Keeps(v, c)
    BY <1>1, <1>2 DEF Keeps
<1>h. \A v \in Windows : \A c \in Copy : HasCopy(v, c)' <=> HasCopy(v, c)
    BY <1>k, <1>1, <1>2 DEF HasCopy, MustKeep
<1>6. TypeOK'
    BY <1>0, <1>1, <1>2 DEF Inv, TypeOK
<1>7. Fresh'
    BY <1>1, <1>2 DEF Inv, Fresh
<1>8. SourceKeeps'
    <2> SUFFICES ASSUME NEW k \in pending', transfer'[k].source \in open'
                 PROVE  Keeps(transfer[k].source, transfer[k].copy)'
        BY DEF SourceKeeps
    <2>1. k \in pending /\ transfer' = transfer /\ transfer[k].source \in open
        BY <1>1
    <2>2. Keeps(transfer[k].source, transfer[k].copy) /\ transfer[k].source \in Windows
        BY <1>0, <2>1 DEF Inv, SourceKeeps, Transfer
    <2> QED
        BY <1>1, <1>2, <2>1, <2>2 DEF Keeps
<1>9. OneMoveEach'
    BY <1>1 DEF Inv, OneMoveEach
<1>10. PendingQuiet'
    BY <1>1, <1>2 DEF Inv, PendingQuiet
<1>11. MailAddressed'
    BY <1>0, <1>1, <1>2, <1>i DEF Inv, MailAddressed, Message
<1>12. OneEnding'
    BY <1>1, <1>2 DEF Inv, OneEnding
<1>13. CommittedReceived'
    BY <1>1, <1>2 DEF Inv, CommittedReceived
<1>14. ReceiveExpected'
    BY <1>1, <1>2 DEF Inv, ReceiveExpected
<1>15. CopiesPlaced'
    BY <1>0, <1>1, <1>2, <1>i DEF Inv, CopiesPlaced, Copy
<1>16. FirmSettled'
    BY <1>1, <1>2 DEF Inv, FirmSettled
<1>17. DoneSettled'
    BY <1>1, <1>2 DEF Inv, DoneSettled
<1>18. ClosedEmpty'
    BY <1>1, <1>2 DEF Inv, ClosedEmpty
<1>19. NoStrayCopy'
    BY <1>1, <1>2 DEF Inv, NoStrayCopy
<1>20. OneCopy'
    <2>1. OneCopy
        BY DEF Inv
    <2> QED
        BY <1>h, <2>1 DEF OneCopy
<1> QED
    BY <1>h, <1>6, <1>7, <1>8, <1>9, <1>10, <1>11, <1>12, <1>13, <1>14, <1>15, <1>16, <1>17,
       <1>18, <1>19, <1>20 DEF Inv

-----------------------------------------------------------------------------
(* The theorems.                                                           *)

LEMMA InitInv == Init => Inv
<1> SUFFICES ASSUME Init
             PROVE  Inv
    OBVIOUS
<1>1. /\ used = {} /\ pending = {} /\ due = {} /\ open = Windows /\ announced = {}
      /\ \A w \in Windows : firm[w] = {[tab |-> tab, by |-> NoToken] : tab \in Home[w]}
      /\ \A w \in Windows : tentative[w] = {} /\ mail[w] = {}
      /\ tentative \in [Windows -> SUBSET Copy] /\ mail \in [Windows -> SUBSET Message]
    BY DEF Init
<1>2. transfer \in [Tokens -> Transfer]
    <2>1. PICK w \in Windows, tab \in Tabs : TRUE
        BY WindowsAssumption
    <2>2. [source |-> w, copy |-> [tab |-> tab, by |-> NoToken], destination |-> w] \in Transfer
        BY DEF Transfer, Copy
    <2>3. (CHOOSE t \in Transfer : TRUE) \in Transfer
        BY <2>2
    <2> QED
        BY <2>3 DEF Init
<1>3. firm \in [Windows -> SUBSET Copy]
    <2>1. ASSUME NEW w \in Windows
          PROVE  {[tab |-> tab, by |-> NoToken] : tab \in Home[w]} \subseteq Copy
        BY HomeAssumption DEF Copy
    <2> QED
        BY <2>1 DEF Init
<1>4. \A w \in Windows : \A c \in firm[w] : c.by = NoToken /\ c.tab \in Home[w]
    BY <1>1
<1>5. TypeOK
    BY <1>1, <1>2, <1>3 DEF TypeOK
<1>6. Fresh
    BY <1>1, <1>4, TokensAssumption DEF Fresh
<1>7. SourceKeeps /\ OneMoveEach /\ PendingQuiet /\ MailAddressed /\ OneEnding
      /\ CommittedReceived /\ ReceiveExpected /\ FirmSettled /\ DoneSettled /\ ClosedEmpty
      /\ NoStrayCopy
    BY <1>1 DEF SourceKeeps, OneMoveEach, PendingQuiet, MailAddressed, OneEnding,
       CommittedReceived, ReceiveExpected, FirmSettled, DoneSettled, ClosedEmpty, NoStrayCopy
<1>8. CopiesPlaced
    BY <1>1, <1>4 DEF CopiesPlaced
<1>9. OneCopy
    <2>1. \A w \in Windows : \A c \in Copy : HasCopy(w, c) <=> c \in firm[w]
        BY <1>1 DEF HasCopy, Keeps, MustKeep
    <2> SUFFICES ASSUME NEW v \in Windows, NEW w \in Windows, NEW c \in Copy, NEW d \in Copy,
                        c.tab = d.tab, c \in firm[v], d \in firm[w]
                 PROVE  v = w /\ c = d
        BY <2>1 DEF OneCopy
    <2>2. c.by = NoToken /\ d.by = NoToken
        BY <1>4
    <2>3. c = d
        BY <2>2 DEF Copy
    <2>4. c.tab \in Home[v] /\ d.tab \in Home[w] /\ c.tab \in Tabs
        BY <1>4 DEF Copy
    <2> QED
        BY <2>3, <2>4, HomeAssumption
<1> QED
    BY <1>5, <1>6, <1>7, <1>8, <1>9 DEF Inv

\* What any step does to the copies the windows have: a step of the broker
\* or of a window that handles a message changes nothing unless it commits
\* a move, which hands the source's copy to the destination.
SameCopies == \A v \in Windows : \A c \in Copy : HasCopy(v, c)' <=> HasCopy(v, c)

CopyMoved(k, w) ==
    /\ k \in pending /\ w \in open /\ transfer[k].source \in open
    /\ \A v \in Windows : \A c \in Copy :
          HasCopy(v, c)' <=>
             \/ HasCopy(v, c) /\ ~(transfer[k].source = v /\ transfer[k].copy = c)
             \/ v = w /\ c = Inserted(k)

CopiesGone(w) ==
    /\ w \in open /\ open' = open \ {w}
    /\ \A v \in Windows : \A c \in Copy : HasCopy(v, c)' <=> v # w /\ HasCopy(v, c)

LEMMA StepEffect ==
    ASSUME Inv, Next
    PROVE  /\ Inv'
           /\ \/ SameCopies /\ open' = open
              \/ \E k \in Tokens, w \in Windows : CopyMoved(k, w) /\ open' = open
              \/ \E w \in Windows : CopiesGone(w)
<1>0. TypeOK
    BY DEF Inv
<1>1. ASSUME NEW K, NEW R, BrokerStep(K, {}, R)
      PROVE  Inv' /\ SameCopies /\ open' = open
    <2>1. open' = open
        BY <1>1 DEF BrokerStep
    <2> QED
        BY <1>1, <2>1, BrokerStepInv, BrokerStepHasCopy DEF SameCopies
<1>2. CASE \E w \in Windows : \E copy \in firm[w], k \in Tokens : Offer(w, copy, k)
    BY <1>2, OfferInv DEF SameCopies, Offer
<1>3. ASSUME NEW k \in Tokens, NEW w \in Windows, Commit(k, w)
      PROVE  Inv' /\ CopyMoved(k, w) /\ open' = open
    <2>1. BrokerStep(due, {k}, {})
        BY <1>0, <1>3, BrokerCalls
    <2>2. Inv' /\ \A v \in Windows : \A c \in Copy :
              HasCopy(v, c)' <=>
                 \/ /\ HasCopy(v, c)
                    /\ \A j \in {k} : ~(transfer[j].source = v /\ transfer[j].copy = c)
                 \/ \E j \in {k} : transfer[j].destination = v /\ c = Inserted(j)
        BY <2>1, BrokerStepInv, BrokerStepHasCopy
    <2>3. /\ k \in pending /\ w \in open /\ transfer[k].source \in open
          /\ transfer[k].destination = w /\ open' = open
        BY <1>3 DEF Commit, Accepts, Matches
    <2> QED
        BY <2>2, <2>3 DEF CopyMoved
<1>4. ASSUME NEW k \in Tokens, NEW w \in Windows, Move(k, w), ~Commit(k, w)
      PROVE  Inv' /\ SameCopies /\ open' = open
    BY <1>0, <1>1, <1>4, BrokerCalls DEF Move
<1>5. ASSUME NEW k \in Tokens, Cancel(k)
      PROVE  Inv' /\ SameCopies /\ open' = open
    BY <1>0, <1>1, <1>5, BrokerCalls
<1>6. ASSUME NEW k \in Tokens, TimePasses(k)
      PROVE  Inv' /\ SameCopies /\ open' = open
    BY <1>6, TimePassesInv DEF SameCopies, TimePasses
<1>7. CASE Expire
    BY <1>0, <1>1, <1>7, BrokerCalls
<1>8. ASSUME NEW w \in Windows, WindowGoes(w)
      PROVE  Inv' /\ CopiesGone(w)
    BY <1>8, WindowGoesInv DEF CopiesGone, WindowGoes
<1>9. ASSUME NEW w \in Windows, WindowClosed(w)
      PROVE  Inv' /\ SameCopies /\ open' = open
    BY <1>0, <1>1, <1>9, BrokerCalls
<1>10. ASSUME NEW w \in Windows, NEW m \in mail[w], Handle(w, m)
       PROVE  Inv' /\ SameCopies /\ open' = open
    <2>1. CASE HandleReceive(w, m)
        BY <2>1, HandleReceiveInv DEF SameCopies, HandleReceive
    <2>2. CASE HandleSettled(w, m)
        BY <2>2, HandleSettledInv DEF SameCopies, HandleSettled
    <2>3. CASE HandleDone(w, m)
        BY <2>3, HandleDoneInv DEF SameCopies, HandleDone
    <2> QED
        BY <1>10, <2>1, <2>2, <2>3 DEF Handle
<1> QED
    BY <1>2, <1>3, <1>4, <1>5, <1>6, <1>7, <1>8, <1>9, <1>10 DEF Next

LEMMA InvStep == Inv /\ [Next]_vars => Inv'
<1> SUFFICES ASSUME Inv, [Next]_vars
             PROVE  Inv'
    OBVIOUS
<1>1. CASE Next
    BY <1>1, StepEffect
<1>2. CASE UNCHANGED vars
    <2>1. /\ UNCHANGED <<used, pending, transfer, due, open, announced, firm, tentative, mail>>
        BY <1>2 DEF vars
    <2>2. TypeOK'
        BY <2>1 DEF Inv, TypeOK
    <2> QED
        BY <2>1, <2>2 DEF Inv, Fresh, SourceKeeps, OneMoveEach, PendingQuiet, MailAddressed,
           OneEnding, CommittedReceived, ReceiveExpected, CopiesPlaced, FirmSettled, DoneSettled,
           ClosedEmpty, NoStrayCopy, OneCopy, HasCopy, Keeps, MustKeep, Inserted
<1> QED
    BY <1>1, <1>2

LEMMA OneCopyOneOwner == Inv => OneOwner
<1> SUFFICES ASSUME Inv
             PROVE  OneOwner
    OBVIOUS
<1>1. OneCopy
    BY DEF Inv
<1> QED
    BY <1>1 DEF OneOwner, OneCopy, Has

\* The broker's state and the windows' queues always make sense together.
THEOREM TypeCorrect == Spec => []TypeOK
<1>1. Inv => TypeOK
    BY DEF Inv
<1> QED
    BY InitInv, InvStep, <1>1, PTL DEF Spec

\* No two windows ever have the same tab, for any number of windows, tabs
\* and moves and any loss of windows.
THEOREM TabHasOneOwner == Spec => []OneOwner
<1> QED
    BY InitInv, InvStep, OneCopyOneOwner, PTL DEF Spec

\* A tentative copy always belongs to a pending move, or its window is told
\* how the move ended.
THEOREM CopiesAreSettled == Spec => []NoStrayCopy
<1>1. Inv => NoStrayCopy
    BY DEF Inv
<1> QED
    BY InitInv, InvStep, <1>1, PTL DEF Spec

-----------------------------------------------------------------------------
(* The refinement.                                                         *)

\* OwnerOf is the one window that has the tab.
LEMMA OwnerIsUnique ==
    Inv => \A tab \in Tabs : /\ OwnerOf(tab) \in Windows \cup {NoWindow}
                             /\ \A w \in Windows : Has(w, tab) <=> OwnerOf(tab) = w
<1> SUFFICES ASSUME Inv, NEW tab \in Tabs
             PROVE  /\ OwnerOf(tab) \in Windows \cup {NoWindow}
                    /\ \A w \in Windows : Has(w, tab) <=> OwnerOf(tab) = w
    OBVIOUS
<1>1. \A v, w \in Windows : Has(v, tab) /\ Has(w, tab) => v = w
    BY OneCopyOneOwner DEF OneOwner
<1>2. CASE \E w \in Windows : Has(w, tab)
    <2>1. OwnerOf(tab) = CHOOSE w \in Windows : Has(w, tab)
        BY <1>2 DEF OwnerOf
    <2>2. OwnerOf(tab) \in Windows /\ Has(OwnerOf(tab), tab)
        BY <1>2, <2>1
    <2> QED
        BY <1>1, <2>2
<1>3. CASE ~\E w \in Windows : Has(w, tab)
    <2>1. OwnerOf(tab) = NoWindow
        BY <1>3 DEF OwnerOf
    <2> QED
        BY <1>3, <2>1, WindowsAssumption
<1> QED
    BY <1>2, <1>3

\* The initial states map to the initial state of TabOwners.
LEMMA OwnersInit == Init => Owners!Init
<1> SUFFICES ASSUME Init
             PROVE  Owners!Init
    OBVIOUS
<1>1. Inv
    BY InitInv
<1>2. /\ open = Windows /\ \A w \in Windows : mail[w] = {}
      /\ \A w \in Windows : firm[w] = {[tab |-> tab, by |-> NoToken] : tab \in Home[w]}
    BY DEF Init
<1>3. ASSUME NEW tab \in Tabs
      PROVE  OwnerOf(tab) = IF \E w \in Windows : tab \in Home[w]
                            THEN CHOOSE w \in Windows : tab \in Home[w] ELSE NoWindow
    <2>1. \A w \in Windows : Has(w, tab) <=> tab \in Home[w]
        <3>1. ASSUME NEW w \in Windows, Has(w, tab)
              PROVE  tab \in Home[w]
            BY <1>2, <3>1 DEF Has, HasCopy, Keeps, MustKeep
        <3>2. ASSUME NEW w \in Windows, tab \in Home[w]
              PROVE  Has(w, tab)
            <4> DEFINE c == [tab |-> tab, by |-> NoToken]
            <4>1. c \in Copy /\ c.tab = tab
                BY DEF Copy
            <4>2. Keeps(w, c)
                BY <1>2, <3>2 DEF Keeps
            <4> HIDE DEF c
            <4> QED
                BY <4>1, <4>2 DEF Has, HasCopy
        <3> QED
            BY <3>1, <3>2
    <2>2. /\ OwnerOf(tab) \in Windows \cup {NoWindow}
          /\ \A w \in Windows : Has(w, tab) <=> OwnerOf(tab) = w
        BY <1>1, OwnerIsUnique
    <2>3. CASE \E w \in Windows : tab \in Home[w]
        <3>1. (CHOOSE w \in Windows : tab \in Home[w]) \in Windows
            BY <2>3
        <3>2. tab \in Home[CHOOSE w \in Windows : tab \in Home[w]]
            BY <2>3
        <3> QED
            BY <2>1, <2>2, <2>3, <3>1, <3>2
    <2>4. CASE ~\E w \in Windows : tab \in Home[w]
        BY <2>1, <2>2, <2>4
    <2> QED
        BY <2>3, <2>4
<1> QED
    BY <1>2, <1>3 DEF Owners!Init

\* Every step of the broker and the windows is one of TabOwners, or leaves
\* every owner as it is.
LEMMA OwnersStep == Inv /\ Inv' /\ [Next]_vars => [Owners!Next]_Owners!vars
<1> SUFFICES ASSUME Inv, Inv', [Next]_vars
             PROVE  [Owners!Next]_Owners!vars
    OBVIOUS
<1>1. \A tab \in Tabs : /\ OwnerOf(tab) \in Windows \cup {NoWindow}
                        /\ \A w \in Windows : Has(w, tab) <=> OwnerOf(tab) = w
    BY OwnerIsUnique
<1>2. (\A tab \in Tabs : /\ OwnerOf(tab) \in Windows \cup {NoWindow}
                         /\ \A w \in Windows : Has(w, tab) <=> OwnerOf(tab) = w)'
    BY OwnerIsUnique, PTL
<1>3. NoWindow \notin Windows
    BY WindowsAssumption
<1>4. CASE SameCopies /\ open' = open
    <2>1. \A w \in Windows : \A tab : Has(w, tab)' <=> Has(w, tab)
        BY <1>4 DEF SameCopies, Has
    <2>2. \A tab \in Tabs : OwnerOf(tab)' = OwnerOf(tab)
        BY <1>1, <1>2, <1>3, <2>1
    <2>3. [tab \in Tabs |-> OwnerOf(tab)]' = [tab \in Tabs |-> OwnerOf(tab)]
        BY <2>2
    <2>4. (Windows \ open)' = Windows \ open
        BY <1>4
    <2> QED
        BY <2>3, <2>4 DEF Owners!vars
<1>5. CASE \E k \in Tokens, w \in Windows : CopyMoved(k, w) /\ open' = open
    <2>1. PICK k \in Tokens, w \in Windows : CopyMoved(k, w) /\ open' = open
        BY <1>5
    <2>2. PICK copy \in Copy, brought \in Copy, source \in Windows, moved \in Tabs :
             /\ copy = transfer[k].copy /\ source = transfer[k].source
             /\ brought = Inserted(k) /\ copy.tab = moved /\ brought.tab = moved
        <3>1. transfer \in [Tokens -> Transfer]
            BY DEF Inv, TypeOK
        <3>2. transfer[k].copy \in Copy /\ transfer[k].source \in Windows
            BY <3>1 DEF Transfer
        <3>3. transfer[k].copy.tab \in Tabs
            BY <3>2 DEF Copy
        <3> QED
            BY <3>1, <3>2, <3>3, InsertedIsCopy DEF Inserted
    <2>3. HasCopy(source, copy)
        BY <2>1, <2>2 DEF CopyMoved, Inv, SourceKeeps, HasCopy
    <2>4. \A v \in Windows : \A c \in Copy :
             HasCopy(v, c)' <=>
                \/ HasCopy(v, c) /\ ~(source = v /\ copy = c)
                \/ v = w /\ c = brought
        <3>1. \A v \in Windows : \A c \in Copy :
                 HasCopy(v, c)' <=>
                    \/ HasCopy(v, c) /\ ~(transfer[k].source = v /\ transfer[k].copy = c)
                    \/ v = w /\ c = Inserted(k)
            BY <2>1 DEF CopyMoved
        <3> QED
            BY <2>2, <3>1
    <2>5. OneCopy
        BY DEF Inv
    <2>6. Has(source, moved)
        BY <2>2, <2>3 DEF Has
    <2>7. Has(w, moved)'
        BY <2>2, <2>4 DEF Has
    <2>8. \A v \in Windows : \A tab \in Tabs \ {moved} : Has(v, tab)' <=> Has(v, tab)
        <3>1. ASSUME NEW v \in Windows, NEW c \in Copy, c.tab # moved
              PROVE  HasCopy(v, c)' <=> HasCopy(v, c)
            BY <2>2, <2>4, <3>1
        <3> QED
            BY <3>1 DEF Has
    <2>9. \A tab \in Tabs \ {moved} : OwnerOf(tab)' = OwnerOf(tab)
        BY <1>1, <1>2, <1>3, <2>8
    <2>10. OwnerOf(moved) = source /\ OwnerOf(moved)' = w
        BY <1>1, <1>2, <2>2, <2>6, <2>7
    <2>11. [tab \in Tabs |-> OwnerOf(tab)]' =
              [[tab \in Tabs |-> OwnerOf(tab)] EXCEPT ![moved] = w]
        BY <2>9, <2>10
    <2>12. w \in Windows \ (Windows \ open) /\ (Windows \ open)' = Windows \ open
        BY <2>1 DEF CopyMoved
    <2>13. [tab \in Tabs |-> OwnerOf(tab)][moved] \in Windows
        BY <2>2, <2>10
    <2>14. Owners!Move(moved, w)
        BY <2>11, <2>12, <2>13 DEF Owners!Move
    <2> QED
        BY <2>2, <2>14 DEF Owners!Next
<1>6. CASE \E w \in Windows : CopiesGone(w)
    <2>1. PICK w \in Windows : CopiesGone(w)
        BY <1>6
    <2>2. \A v \in Windows : \A tab : Has(v, tab)' <=> v # w /\ Has(v, tab)
        BY <2>1 DEF CopiesGone, Has
    <2>3. \A tab \in Tabs :
             OwnerOf(tab)' = IF OwnerOf(tab) = w THEN NoWindow ELSE OwnerOf(tab)
        BY <1>1, <1>2, <1>3, <2>2
    <2>4. /\ (Windows \ open)' = (Windows \ open) \cup {w}
          /\ w \in Windows \ (Windows \ open)
        BY <2>1 DEF CopiesGone
    <2>5. [tab \in Tabs |-> OwnerOf(tab)]' =
             [tab \in Tabs |-> IF [t \in Tabs |-> OwnerOf(t)][tab] = w THEN NoWindow
                              ELSE [t \in Tabs |-> OwnerOf(t)][tab]]
        BY <2>3
    <2>6. Owners!Close(w)
        BY <2>4, <2>5 DEF Owners!Close
    <2> QED
        BY <2>6 DEF Owners!Next
<1>7. CASE UNCHANGED vars
    <2>1. SameCopies /\ open' = open
        BY <1>7 DEF vars, SameCopies, HasCopy, Keeps, MustKeep
    <2> QED
        BY <1>4, <2>1
<1>8. CASE Next
    BY <1>4, <1>5, <1>6, <1>8, StepEffect
<1> QED
    BY <1>7, <1>8

\* Moving a tab behaves as if it moved in one step and belonged to exactly
\* one window all along: the broker implements TabOwners.
THEOREM MovesKeepTheTab == Spec => KeepsTheTab
<1> QED
    BY InitInv, InvStep, OwnersInit, OwnersStep, PTL DEF Spec, KeepsTheTab, Owners!Spec
=============================================================================
