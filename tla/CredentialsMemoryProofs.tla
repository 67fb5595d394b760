----------------------- MODULE CredentialsMemoryProofs -----------------------
(***************************************************************************)
(* What windows keep in memory, for any number of windows, ports, mounts   *)
(* and sign-outs: no window signs in with a forgotten account while the    *)
(* worker that forgets is not overlapped, and the keyring answers with the *)
(* account saved last while no call to it fails.                           *)
(*                                                                         *)
(* An account can be passed around by the windows' memory, by the loads    *)
(* and by the mounts.  ForgetMemory makes everything that knows it older   *)
(* than the generation (Unknown); until the keyring is cleared no load may *)
(* begin (StaleLoads), and afterwards the keyring does not hold it (Gone). *)
(***************************************************************************)
EXTENDS CredentialsProofs

\* A load knows the generation it began under, its mount's or a later one.
LoadsAged ==
    \A x \in Mounts :
        /\ loads[x].generation <= generation
        /\ loads[x].step \notin {"none", "queued"} \/ loads[x].found # None =>
                op[x].generation <= loads[x].generation /\ op[x].state # "new"

MemoryAged == \A w \in Windows, e \in Endpoints : memory[w][e].generation <= generation

Fresh == \A x \in Mounts : op[x].state = "new" => op[x].account = None

\* An account whose mount is not over is known to its own mount only.
Private ==
    \A m \in Mounts : op[m].state # "ended" =>
        /\ \A w \in Windows, e \in Endpoints : memory[w][e].account # m
        /\ \A x \in Mounts : loads[x].found # m /\ (x # m => op[x].account # m)

\* The generation does not advance between the check of a mount's
\* generation and the acceptance of its account.
InTime == \A x \in Mounts : main = x => op[x].generation = generation

\* While a sign-out forgets, no load that began after it looks anything up.
StaleLoads ==
    Forgetting => \A x \in Mounts : loads[x].step \in Scopes => loads[x].generation < generation

\* Whatever knows of m is older than the current generation.
Unknown(m) ==
    /\ \A w \in Windows, e \in Endpoints :
            memory[w][e].account = m => memory[w][e].generation < generation
    /\ \A x \in Mounts : /\ loads[x].found = m => loads[x].generation < generation
                         /\ op[x].account = m => op[x].generation < generation

ForgettingUnknown ==
    \A n \in SignOuts : out[n].worker \in {"waiting", "clearing"} =>
        \A m \in out[n].known : Unknown(m)

ClearedUnknown ==
    \A n \in SignOuts : out[n].worker = "done" =>
        \A m \in out[n].known :
            out[n].forget = "all" \/ op[m].scope = "session" => Unknown(m)

ForgottenUnknown == \A m \in forgotten : Unknown(m)

KnowledgeInv == Inv /\ LoadsAged /\ MemoryAged /\ Fresh /\ Private

ReuseInv ==
    /\ KnowledgeInv /\ InTime /\ StaleLoads
    /\ ForgettingUnknown /\ ClearedUnknown /\ ForgottenUnknown

-----------------------------------------------------------------------------

(***************************************************************************)
(* What one step does to what a window keeps, to a load and to the account *)
(* of a mount.                                                             *)
(***************************************************************************)
\* A window forgets an account, or keeps one that is accepted or loaded.
KeptMoved(w, e) ==
    \/ memory'[w][e] = memory[w][e]
    \/ memory'[w][e].account = None /\ memory'[w][e].generation = 0
    \/ \E x \in Mounts : /\ main = x /\ UNCHANGED generation
                         /\ memory'[w][e].account = op[x].account
                         /\ memory'[w][e].generation = generation
    \/ \E x \in Mounts : /\ UNCHANGED generation
                         /\ memory'[w][e].account = loads[x].found
                         /\ memory'[w][e].generation = loads[x].generation

\* Every step moves every window's memory so.
LEMMA KeptMoves ==
    TypeOK /\ [Next]_vars => \A w \in Windows, e \in Endpoints : KeptMoved(w, e)
<1> SUFFICES ASSUME TypeOK, [Next]_vars, NEW w \in Windows, NEW e \in Endpoints
             PROVE  KeptMoved(w, e)
    OBVIOUS
<1>a. memory \in [Windows -> [Endpoints -> Kept]]
    BY DEF TypeOK
<1>b. ASSUME NEW v, NEW d, memory' = Wiped(v, d) PROVE KeptMoved(w, e)
    BY <1>a, <1>b DEF Wiped, Nothing, KeptMoved
<1>c. ASSUME NEW v, memory' = MemoryCleared(v) PROVE KeptMoved(w, e)
    BY <1>a, <1>c DEF MemoryCleared, Nothing, KeptMoved
<1>1. CASE UNCHANGED memory
    BY <1>1 DEF KeptMoved
<1>2. ASSUME NEW m \in Mounts, AskPassword(m) PROVE KeptMoved(w, e)
    BY <1>1, <1>2, <1>b DEF AskPassword
<1>3. ASSUME NEW m \in Mounts, Accept(m) PROVE KeptMoved(w, e)
  <2>1. \/ memory'[w][e] = memory[w][e]
        \/ memory'[w][e] = [account |-> op[m].account, generation |-> generation]
    BY <1>a, <1>3 DEF Accept
  <2> QED
    BY <1>3, <2>1 DEF Accept, KeptMoved
<1>4. ASSUME NEW m \in Mounts, LoadBegins(m) PROVE KeptMoved(w, e)
    BY <1>4, <1>b DEF LoadBegins
<1>5. ASSUME NEW m \in Mounts, KeepFound(m) PROVE KeptMoved(w, e)
  <2>1. \/ memory'[w][e] = memory[w][e]
        \/ memory'[w][e] = [account |-> loads[m].found, generation |-> loads[m].generation]
    BY <1>a, <1>5 DEF KeepFound
  <2> QED
    BY <1>5, <2>1 DEF KeepFound, LoadGoes, KeptMoved
<1>6. ASSUME NEW m \in Mounts, SaveLeavesMemory(m) PROVE KeptMoved(w, e)
    BY <1>a, <1>6 DEF SaveLeavesMemory, Nothing, KeptMoved
<1>7. ASSUME NEW n \in SignOuts, BeginSignOut(n) \/ ForgetMemory(n) PROVE KeptMoved(w, e)
    BY <1>1, <1>c, <1>7 DEF BeginSignOut, ForgetMemory
<1>8. ASSUME NEW v \in Windows, CloseWindow(v) PROVE KeptMoved(w, e)
    BY <1>c, <1>8 DEF CloseWindow
<1> QED
    BY <1>1, <1>2, <1>3, <1>4, <1>5, <1>6, <1>7, <1>8
       DEF Next, MountStep, WorkerStep, SignOutStep, ForgetStep, vars, LoadGoes, StartMount,
       Answer, MountFails, MountSucceeds, Deliver, LookUp, CheckFound, SaveLocks, SaveStores,
       SaveEnds, AskSignOut, Unmount, StartForgetting, EndSignOut, GiveUp, ForgetLocks,
       ForgetSaved, OtherProcessSignsOut

\* A load is queued, begins with what its window keeps, finds an entry of
\* the keyring, drops or keeps it, and is delivered.
LoadMoved(x) ==
    \/ loads'[x] = loads[x] \/ loads'[x] = NewLoad
    \/ op[x].state # "new" /\ loads'[x] = [loads[x] EXCEPT !.step = "queued"]
    \/ /\ loads[x].step = "queued" /\ (ClearOverlaps \/ ~Forgetting)
       /\ UNCHANGED <<op, generation>>
       /\ loads'[x].generation = generation
       /\ loads'[x].found = InMemory(op[x].window, op[x].endpoint)
    \/ /\ loads[x].step \notin {"none", "queued"} /\ UNCHANGED <<op, generation>>
       /\ loads'[x].generation = loads[x].generation
       /\ loads'[x].step \in Scopes =>
                loads[x].step \in Scopes \/ loads[x].generation # generation
       /\ \/ loads'[x].found \in {loads[x].found, None}
          \/ /\ loads[x].step \in Scopes
             /\ loads'[x].found = saved[op[x].endpoint][loads[x].step]

\* Every step moves every load so, or leaves it alone.
LEMMA LoadMoves == TypeOK /\ [Next]_vars => \A x \in Mounts : LoadMoved(x)
<1> SUFFICES ASSUME TypeOK, [Next]_vars PROVE \A x \in Mounts : LoadMoved(x)
    OBVIOUS
<1>a. loads \in [Mounts -> Load]
    BY DEF TypeOK
<1>b. \A x \in Mounts : loads'[x] = loads[x] => LoadMoved(x)
    BY DEF LoadMoved
<1>1. ASSUME NEW m \in Mounts, AskPassword(m)
      PROVE  LoadMoved(m) /\ \A x \in Mounts \ {m} : loads'[x] = loads[x]
    BY <1>a, <1>1 DEF AskPassword, LoadMoved
<1>2. ASSUME NEW m \in Mounts, Deliver(m)
      PROVE  LoadMoved(m) /\ \A x \in Mounts \ {m} : loads'[x] = loads[x]
    BY <1>a, <1>2 DEF Deliver, LoadMoved
<1>3. ASSUME NEW m \in Mounts, LoadBegins(m)
      PROVE  LoadMoved(m) /\ \A x \in Mounts \ {m} : loads'[x] = loads[x]
    BY <1>a, <1>3 DEF LoadBegins, LoadGoes, LoadMoved
<1>4. ASSUME NEW m \in Mounts, LookUp(m)
      PROVE  LoadMoved(m) /\ \A x \in Mounts \ {m} : loads'[x] = loads[x]
  <2>1. loads[m] \in Load
    BY <1>a
  <2>2. PICK s, f : /\ LoadGoes(m, [loads[m] EXCEPT !.step = s, !.found = f])
                    /\ f = None \/ f = saved[op[m].endpoint][loads[m].step]
    BY <1>4 DEF LookUp
  <2>3. /\ loads'[m] = [loads[m] EXCEPT !.step = s, !.found = f]
        /\ \A x \in Mounts \ {m} : loads'[x] = loads[x]
    BY <1>a, <2>2 DEF LoadGoes
  <2>4. loads'[m].generation = loads[m].generation /\ loads'[m].found = f
    BY <2>1, <2>3 DEF Load
  <2> QED
    BY <1>4, <2>2, <2>3, <2>4 DEF LookUp, LoadGoes, LoadMoved, Scopes
<1>5. ASSUME NEW m \in Mounts, CheckFound(m)
      PROVE  LoadMoved(m) /\ \A x \in Mounts \ {m} : loads'[x] = loads[x]
  <2>1. CASE LoadGoes(m, [loads[m] EXCEPT !.step = "keep"])
    BY <1>a, <1>5, <2>1 DEF CheckFound, LoadGoes, LoadMoved, Load, Scopes
  <2>2. ASSUME NEW s, loads[m].generation # generation,
               LoadGoes(m, [loads[m] EXCEPT !.step = s, !.found = None])
        PROVE  LoadMoved(m) /\ \A x \in Mounts \ {m} : loads'[x] = loads[x]
    BY <1>a, <1>5, <2>2 DEF CheckFound, LoadGoes, LoadMoved, Load
  <2> QED
    BY <1>5, <2>1, <2>2 DEF CheckFound
<1>6. ASSUME NEW m \in Mounts, KeepFound(m)
      PROVE  LoadMoved(m) /\ \A x \in Mounts \ {m} : loads'[x] = loads[x]
    BY <1>a, <1>6 DEF KeepFound, LoadGoes, LoadMoved, Load, Scopes
<1>7. CASE UNCHANGED loads
    BY <1>b, <1>7
<1> QED
    BY <1>b, <1>1, <1>2, <1>3, <1>4, <1>5, <1>6, <1>7
       DEF Next, MountStep, WorkerStep, SignOutStep, ForgetStep, vars, StartMount, Answer,
       MountFails, MountSucceeds, Accept, SaveLocks, SaveStores, SaveLeavesMemory, SaveEnds,
       AskSignOut, BeginSignOut, Unmount, StartForgetting, EndSignOut, GiveUp, ForgetMemory,
       ForgetLocks, ForgetSaved, CloseWindow, OtherProcessSignsOut

\* A mount takes the account typed into its dialog, kept by its window, or
\* found by its load; a scope is one of the two.
AccountMoved(x) ==
    /\ \/ op'[x].account \in {op[x].account, None}
       \/ /\ op[x].state = "dialog" /\ op'[x].account = x
          /\ op'[x].scope \in Scopes
       \/ op[x].state # "new" /\ op'[x].account = InMemory(op[x].window, op[x].endpoint)
       \/ op[x].state # "new" /\ op'[x].account = loads[x].found
    /\ op'[x].scope \in Scopes \cup {op[x].scope}

\* Every step moves every mount so, or leaves it alone.
LEMMA AccountMoves == TypeOK /\ [Next]_vars => \A x \in Mounts : AccountMoved(x)
<1> SUFFICES ASSUME TypeOK, [Next]_vars PROVE \A x \in Mounts : AccountMoved(x)
    OBVIOUS
<1>a. op \in [Mounts -> Operation]
    BY DEF TypeOK
<1>b. \A x \in Mounts : op'[x] = op[x] => AccountMoved(x)
    BY DEF AccountMoved
<1>1. ASSUME NEW m \in Mounts, NEW w \in Windows, NEW e \in Endpoints, NEW k \in Kinds,
             StartMount(m, w, e, k)
      PROVE  AccountMoved(m) /\ \A x \in Mounts \ {m} : op'[x] = op[x]
    BY <1>a, <1>1 DEF StartMount, AccountMoved, Operation
<1>2. ASSUME NEW m \in Mounts, AskPassword(m)
      PROVE  AccountMoved(m) /\ \A x \in Mounts \ {m} : op'[x] = op[x]
  <2>1. ASSUME NEW s, NEW a, op' = Asked(m, s, a),
               a \in {op[m].account, None, InMemory(op[m].window, op[m].endpoint)}
        PROVE  AccountMoved(m) /\ \A x \in Mounts \ {m} : op'[x] = op[x]
    <3>1. op'[m].account = a /\ op'[m].scope = op[m].scope /\ op[m].state # "new"
      BY <1>a, <1>2, <2>1 DEF AskPassword, Asked, Operation
    <3>2. \A x \in Mounts \ {m} : op'[x] = op[x]
      BY <1>a, <2>1 DEF Asked
    <3> QED
      BY <2>1, <3>1, <3>2 DEF AccountMoved
  <2> QED
    BY <1>2, <2>1 DEF AskPassword
<1>3. ASSUME NEW m \in Mounts, Answer(m)
      PROVE  AccountMoved(m) /\ \A x \in Mounts \ {m} : op'[x] = op[x]
  <2>1. ASSUME NEW s \in Scopes,
               op' = [op EXCEPT ![m] = [op[m] EXCEPT !.state = "replied", !.account = m,
                                                     !.scope = s, !.entered = TRUE]]
        PROVE  AccountMoved(m) /\ \A x \in Mounts \ {m} : op'[x] = op[x]
    <3> DEFINE r == [op[m] EXCEPT !.state = "replied", !.account = m, !.scope = s, !.entered = TRUE]
    <3>1. op[m] \in Operation
      BY <1>a
    <3>2. r.account = m /\ r.scope = s
      BY <3>1 DEF Operation
    <3>3. op'[m] = r /\ \A x \in Mounts \ {m} : op'[x] = op[x]
      BY <1>a, <2>1
    <3>4. op[m].state = "dialog"
      BY <1>3 DEF Answer
    <3> HIDE DEF r
    <3> QED
      BY <3>2, <3>3, <3>4 DEF AccountMoved
  <2>2. CASE op' = [op EXCEPT ![m] = [op[m] EXCEPT !.state = "replied", !.account = None]]
    BY <1>a, <2>2 DEF AccountMoved, Operation
  <2> QED
    BY <1>3, <2>1, <2>2 DEF Answer
<1>4. ASSUME NEW m \in Mounts, MountFails(m) \/ MountSucceeds(m)
      PROVE  AccountMoved(m) /\ \A x \in Mounts \ {m} : op'[x] = op[x]
    BY <1>a, <1>4 DEF MountFails, MountSucceeds, AccountMoved, Operation
<1>5. ASSUME NEW m \in Mounts, Deliver(m)
      PROVE  AccountMoved(m) /\ \A x \in Mounts \ {m} : op'[x] = op[x]
    BY <1>a, <1>5 DEF Deliver, AccountMoved, Operation
<1>6. ASSUME NEW m \in Mounts, op'[m] \in {op[m], [op[m] EXCEPT !.state = "ended"]}
      PROVE  AccountMoved(m)
    BY <1>a, <1>6 DEF AccountMoved, Operation
<1>7. ASSUME NEW n \in SignOuts, BeginSignOut(n)
      PROVE  \A m \in Mounts : AccountMoved(m)
    BY <1>6, <1>7 DEF BeginSignOut, StopListings
<1>8. ASSUME NEW w \in Windows, CloseWindow(w)
      PROVE  \A m \in Mounts : AccountMoved(m)
    BY <1>6, <1>8 DEF CloseWindow
<1>9. CASE UNCHANGED op
    BY <1>b, <1>9
<1> QED
    BY <1>b, <1>1, <1>2, <1>3, <1>4, <1>5, <1>7, <1>8, <1>9
       DEF Next, MountStep, WorkerStep, SignOutStep, ForgetStep, vars, LoadGoes, Accept,
       LoadBegins, LookUp, CheckFound, KeepFound, SaveLocks, SaveStores, SaveLeavesMemory,
       SaveEnds, AskSignOut, Unmount, StartForgetting, EndSignOut, GiveUp, ForgetMemory,
       ForgetLocks, ForgetSaved, OtherProcessSignsOut

\* An entry that InMemory returns is kept, and of the current generation.
LEMMA InMemoryKept ==
    ASSUME NEW w, NEW e, InMemory(w, e) # None
    PROVE  memory[w][e].account = InMemory(w, e) /\ memory[w][e].generation = generation
BY DEF InMemory

(***************************************************************************)
(* The generations that memory and loads carry, and who knows an account.  *)
(***************************************************************************)
\* A load takes the generation of now when it begins.
LEMMA LoadsAgedStep ==
    TypeOK /\ Placed /\ Aged /\ LoadsAged /\ [Next]_vars => LoadsAged'
<1> SUFFICES ASSUME TypeOK, Placed, Aged, LoadsAged, [Next]_vars, NEW x \in Mounts
             PROVE  /\ loads'[x].generation <= generation'
                    /\ loads'[x].step \notin {"none", "queued"} \/ loads'[x].found # None =>
                            /\ op'[x].generation <= loads'[x].generation
                            /\ op'[x].state # "new"
    BY DEF LoadsAged
<1>a. /\ op[x].generation \in Nat /\ generation \in Nat
      /\ loads[x] \in Load /\ loads[x].generation \in Nat
    BY DEF TypeOK, Operation, Load
<1>b. generation' \in Nat /\ generation' >= generation
    BY GenerationGrows
<1>c. Moved(x) /\ LoadMoved(x)
    BY MountMoves, LoadMoves
<1>1. CASE loads'[x] = loads[x]
    BY <1>a, <1>b, <1>c, <1>1 DEF LoadsAged, Moved
<1>2. CASE loads'[x] = NewLoad
    BY <1>b, <1>2 DEF NewLoad
<1>3. CASE op[x].state # "new" /\ loads'[x] = [loads[x] EXCEPT !.step = "queued"]
  <2>1. /\ loads'[x].step = "queued" /\ loads'[x].found = loads[x].found
        /\ loads'[x].generation = loads[x].generation
    BY <1>a, <1>3 DEF Load
  <2> QED
    BY <1>a, <1>b, <1>c, <1>3, <2>1 DEF LoadsAged, Moved
<1>4. CASE /\ loads[x].step = "queued" /\ UNCHANGED <<op, generation>>
           /\ loads'[x].generation = generation
    BY <1>a, <1>4 DEF Placed, Aged
<1>5. CASE /\ loads[x].step \notin {"none", "queued"} /\ UNCHANGED <<op, generation>>
           /\ loads'[x].generation = loads[x].generation
    BY <1>a, <1>5 DEF LoadsAged
<1> QED
    BY <1>c, <1>1, <1>2, <1>3, <1>4, <1>5 DEF LoadMoved

\* What is kept is kept under the generation of now, or of its load.
LEMMA MemoryAgedStep == TypeOK /\ LoadsAged /\ MemoryAged /\ [Next]_vars => MemoryAged'
<1> SUFFICES ASSUME TypeOK, LoadsAged, MemoryAged, [Next]_vars,
                    NEW w \in Windows, NEW e \in Endpoints
             PROVE  memory'[w][e].generation <= generation'
    BY DEF MemoryAged
<1>a. generation \in Nat /\ memory[w][e].generation \in Nat
    BY DEF TypeOK, Kept
<1>b. generation' \in Nat /\ generation' >= generation
    BY GenerationGrows
<1>c. KeptMoved(w, e)
    BY KeptMoves
<1>d. \A x \in Mounts : loads[x].generation \in Nat /\ loads[x].generation <= generation
    BY DEF TypeOK, Load, LoadsAged
<1> QED
    BY <1>a, <1>b, <1>c, <1>d DEF KeptMoved, MemoryAged

\* A mount that has not started has no account.
LEMMA FreshStep == TypeOK /\ Fresh /\ [Next]_vars => Fresh'
BY MountMoves, AccountMoves DEF Fresh, Moved, AccountMoved

\* An account leaves its mount when that is accepted, or from the keyring,
\* where only accepted accounts are saved.
LEMMA PrivateStep ==
    TypeOK /\ Placed /\ Settled /\ SavedBy /\ Private /\ [Next]_vars => Private'
<1> SUFFICES ASSUME TypeOK, Placed, Settled, SavedBy, Private, [Next]_vars,
                    NEW m \in Mounts, op'[m].state # "ended"
             PROVE  /\ \A w \in Windows, e \in Endpoints : memory'[w][e].account # m
                    /\ \A x \in Mounts : loads'[x].found # m /\ (x # m => op'[x].account # m)
    BY DEF Private
<1>a. op[m].state # "ended"
    BY MountMoves DEF Moved
<1>b. /\ \A w \in Windows, e \in Endpoints : memory[w][e].account # m
      /\ \A x \in Mounts : loads[x].found # m /\ (x # m => op[x].account # m)
    BY <1>a DEF Private
<1>c. m # None /\ \A e \in Endpoints, s \in Scopes : saved[e][s] # m
    BY <1>a, ConstantsAssumption DEF SavedBy, Settled
<1>d. \A x \in Mounts : op[x].state # "new" => InMemory(op[x].window, op[x].endpoint) # m
    BY <1>b, <1>c DEF InMemory, Placed
<1>e. \A x \in Mounts : loads[x].step # "none" => op[x].state # "new" /\ op[x].endpoint \in Endpoints
    BY DEF Placed
<1>1. ASSUME NEW w \in Windows, NEW e \in Endpoints PROVE memory'[w][e].account # m
  <2>1. main # m
    BY <1>a DEF Settled
  <2>2. KeptMoved(w, e)
    BY KeptMoves
  <2> QED
    BY <1>b, <1>c, <2>1, <2>2 DEF KeptMoved
<1>2. ASSUME NEW x \in Mounts PROVE loads'[x].found # m
  <2>1. LoadMoved(x) /\ loads[x] \in Load
    BY LoadMoves DEF TypeOK
  <2> QED
    BY <1>b, <1>c, <1>d, <1>e, <2>1 DEF LoadMoved, NewLoad, Load
<1>3. ASSUME NEW x \in Mounts, x # m PROVE op'[x].account # m
    BY <1>b, <1>c, <1>d, <1>3, AccountMoves DEF AccountMoved
<1> QED
    BY <1>1, <1>2, <1>3

\* Before anything starts nothing is known.
LEMMA KnowledgeInit == Init => KnowledgeInv
<1> SUFFICES ASSUME Init PROVE LoadsAged /\ MemoryAged /\ Fresh /\ Private
    BY InitInv DEF KnowledgeInv
<1>1. LoadsAged /\ MemoryAged /\ Fresh
    BY DEF Init, LoadsAged, MemoryAged, Fresh, NewLoad, NewOp, Nothing
<1>2. Private
    BY ConstantsAssumption DEF Init, Private, NewLoad, NewOp, Nothing
<1> QED
    BY <1>1, <1>2

\* The four and the invariant of the keyring are inductive together.
LEMMA KnowledgeStep == KnowledgeInv /\ [Next]_vars => KnowledgeInv'
BY InvStep, LoadsAgedStep, MemoryAgedStep, FreshStep, PrivateStep DEF KnowledgeInv, Inv

(***************************************************************************)
(* No forgotten account is used again, while a sign-out's worker is not    *)
(* overlapped.                                                             *)
(***************************************************************************)
\* The generation stands still while an account is accepted.
LEMMA InTimeStep ==
    ASSUME ~ClearOverlaps
    PROVE  TypeOK /\ Settled /\ InTime /\ [Next]_vars => InTime'
<1> SUFFICES ASSUME TypeOK, Settled, InTime, [Next]_vars, NEW x \in Mounts, main' = x
             PROVE  op'[x].generation = generation'
    BY DEF InTime
<1>a. x # None /\ op \in [Mounts -> Operation]
    BY ConstantsAssumption DEF TypeOK
<1>1. CASE main = x
  <2>1. op'[x] = op[x]
    BY <1>1, MountMoves DEF Settled, Moved
  <2>2. generation' = generation
    BY <1>1, <1>a DEF Next, MountStep, WorkerStep, SignOutStep, ForgetStep, vars, LoadGoes,
       StartMount, AskPassword, Answer, MountFails, MountSucceeds, Accept, Deliver,
       LoadBegins, LookUp, CheckFound, KeepFound, SaveLocks, SaveStores, SaveLeavesMemory,
       SaveEnds, AskSignOut, BeginSignOut, Unmount, StartForgetting, EndSignOut, GiveUp,
       ForgetMemory, ForgetLocks, ForgetSaved, CloseWindow, OtherProcessSignsOut
  <2> QED
    BY <1>1, <2>1, <2>2 DEF InTime
<1>2. CASE main # x
  <2>1. PICK m \in Mounts : MountSucceeds(m)
    BY <1>2, <1>a DEF Next, MountStep, WorkerStep, SignOutStep, ForgetStep, vars, LoadGoes,
       StartMount, AskPassword, Answer, MountFails, Accept, Deliver, LoadBegins, LookUp,
       CheckFound, KeepFound, SaveLocks, SaveStores, SaveLeavesMemory, SaveEnds, AskSignOut,
       BeginSignOut, Unmount, StartForgetting, EndSignOut, GiveUp, ForgetMemory, ForgetLocks,
       ForgetSaved, CloseWindow, OtherProcessSignsOut
  <2>2. m = x /\ op[x].generation = generation /\ generation' = generation
    BY <1>a, <2>1 DEF MountSucceeds
  <2>3. op'[x].generation = op[x].generation
    BY <1>a, <2>1, <2>2 DEF MountSucceeds, Operation
  <2> QED
    BY <2>2, <2>3
<1> QED
    BY <1>1, <1>2

\* A worker begins to forget by advancing the generation.
ForgetBegun(n) ==
    /\ out[n].worker = "queued" /\ generation' = generation + 1
    /\ UNCHANGED <<op, loads>> /\ memory' = MemoryCleared(out[n].window)

\* No other step makes a worker forget.
LEMMA WorkerMoves ==
    TypeOK /\ [Next]_vars =>
        \A n \in SignOuts : out'[n].worker \in {"waiting", "clearing"} =>
            out[n].worker \in {"waiting", "clearing"} \/ ForgetBegun(n)
<1> SUFFICES ASSUME TypeOK, [Next]_vars, NEW n \in SignOuts,
                    out'[n].worker \in {"waiting", "clearing"},
                    out[n].worker \notin {"waiting", "clearing"}
             PROVE  ForgetBegun(n)
    OBVIOUS
<1>a. out \in [SignOuts -> SignOut]
    BY DEF TypeOK
<1>1. ASSUME NEW x \in SignOuts, NEW w \in Windows, NEW f \in Forgets, AskSignOut(x, w, f)
      PROVE  out'[n].worker = out[n].worker
    BY <1>a, <1>1 DEF AskSignOut, SignOut
<1>2. ASSUME NEW x \in SignOuts, BeginSignOut(x)
      PROVE  out'[n].worker = out[n].worker
    BY <1>a, <1>2 DEF BeginSignOut, SignOut
<1>3. ASSUME NEW x \in SignOuts, EndSignOut(x) \/ GiveUp(x)
      PROVE  out'[n].worker = out[n].worker
    BY <1>a, <1>3 DEF EndSignOut, GiveUp, SignOut
<1>4. ASSUME NEW x \in SignOuts, Unmount(x) \/ StartForgetting(x)
      PROVE  out'[n].worker \in {out[n].worker, "queued"}
    BY <1>a, <1>4 DEF Unmount, StartForgetting, SignOut
<1>5. ASSUME NEW x \in SignOuts, ForgetLocks(x) \/ ForgetSaved(x) PROVE FALSE
    BY <1>a, <1>5 DEF ForgetLocks, ForgetSaved, SignOut
<1>6. ASSUME NEW x \in SignOuts, ForgetMemory(x) PROVE ForgetBegun(n)
  <2>1. x = n
    BY <1>a, <1>6 DEF ForgetMemory
  <2> QED
    BY <1>6, <2>1 DEF ForgetMemory, ForgetBegun
<1> QED
    BY <1>1, <1>2, <1>3, <1>4, <1>5, <1>6
       DEF Next, MountStep, WorkerStep, SignOutStep, ForgetStep, vars, LoadGoes, StartMount,
       AskPassword, Answer, MountFails, MountSucceeds, Accept, Deliver, LoadBegins, LookUp,
       CheckFound, KeepFound, SaveLocks, SaveStores, SaveLeavesMemory, SaveEnds, CloseWindow,
       OtherProcessSignsOut

\* No load begins while a worker forgets.
LEMMA StaleLoadsStep ==
    ASSUME ~ClearOverlaps
    PROVE  TypeOK /\ LoadsAged /\ StaleLoads /\ [Next]_vars => StaleLoads'
<1> SUFFICES ASSUME TypeOK, LoadsAged, StaleLoads, [Next]_vars, Forgetting',
                    NEW x \in Mounts, loads'[x].step \in Scopes
             PROVE  loads'[x].generation < generation'
    BY DEF StaleLoads
<1>a. generation \in Nat /\ loads[x] \in Load /\ loads[x].generation \in Nat
    BY DEF TypeOK, Load
<1>b. generation' \in Nat /\ generation' >= generation
    BY GenerationGrows
<1>1. ASSUME NEW n \in SignOuts, ForgetBegun(n) PROVE loads'[x].generation < generation'
    BY <1>a, <1>1 DEF ForgetBegun, LoadsAged
<1>2. CASE Forgetting
  <2>1. LoadMoved(x)
    BY LoadMoves
  <2>2. loads[x].step \in Scopes => loads[x].generation < generation
    BY <1>2 DEF StaleLoads
  <2>3. loads[x].generation <= generation
    BY DEF LoadsAged
  <2>4. CASE loads'[x] = loads[x]
    BY <1>a, <1>b, <2>2, <2>4
  <2>5. CASE loads'[x] = NewLoad \/ loads'[x] = [loads[x] EXCEPT !.step = "queued"]
    BY <1>a, <2>5 DEF NewLoad, Scopes, Load
  <2>6. CASE /\ UNCHANGED generation /\ loads'[x].generation = loads[x].generation
             /\ loads[x].step \in Scopes \/ loads[x].generation # generation
    BY <1>a, <2>2, <2>3, <2>6
  <2> QED
    BY <1>2, <2>1, <2>4, <2>5, <2>6 DEF LoadMoved
<1> QED
    BY <1>1, <1>2, WorkerMoves DEF Forgetting

\* An old account nobody knows, which the keyring does not hold or nobody
\* looks for there, stays unknown.
LEMMA UnknownStep ==
    ASSUME ~ClearOverlaps
    PROVE  KnowledgeInv /\ InTime /\ StaleLoads /\ [Next]_vars =>
                \A m \in Mounts : Old(m) /\ Unknown(m) /\ (Gone(m) \/ Forgetting) => Unknown(m)'
<1> SUFFICES ASSUME KnowledgeInv, InTime, StaleLoads, [Next]_vars, NEW m \in Mounts,
                    Old(m), Unknown(m), Gone(m) \/ Forgetting
             PROVE  Unknown(m)'
    OBVIOUS
<1>a. TypeOK /\ Placed /\ Aged /\ LoadsAged /\ MemoryAged /\ Fresh /\ m # None
    BY ConstantsAssumption DEF KnowledgeInv, Inv
<1>b. generation \in Nat /\ generation' \in Nat /\ generation' >= generation
    BY <1>a, GenerationGrows DEF TypeOK
<1>c. \A x \in Mounts : op[x].state # "new" => InMemory(op[x].window, op[x].endpoint) # m
  <2> SUFFICES ASSUME NEW x \in Mounts, op[x].state # "new",
                      InMemory(op[x].window, op[x].endpoint) = m
               PROVE  FALSE
    OBVIOUS
  <2>1. /\ memory[op[x].window][op[x].endpoint].account = m
        /\ memory[op[x].window][op[x].endpoint].generation = generation
    BY <1>a, InMemoryKept
  <2> QED
    BY <1>a, <1>b, <2>1 DEF Unknown, Placed
<1>1. ASSUME NEW w \in Windows, NEW e \in Endpoints, memory'[w][e].account = m
      PROVE  memory'[w][e].generation < generation'
  <2>1. KeptMoved(w, e) /\ memory[w][e].generation \in Nat
    BY <1>a, KeptMoves DEF TypeOK, Kept
  <2>2. CASE memory'[w][e] = memory[w][e]
    BY <1>b, <1>1, <2>1, <2>2 DEF Unknown
  <2>3. ASSUME NEW x \in Mounts, main = x, memory'[w][e].account = op[x].account
        PROVE  FALSE
    BY <1>b, <1>1, <2>3 DEF InTime, Unknown
  <2>4. ASSUME NEW x \in Mounts, UNCHANGED generation, memory'[w][e].account = loads[x].found,
               memory'[w][e].generation = loads[x].generation
        PROVE  memory'[w][e].generation < generation'
    BY <1>1, <2>4 DEF Unknown
  <2> QED
    BY <1>a, <1>1, <2>1, <2>2, <2>3, <2>4 DEF KeptMoved
<1>2. ASSUME NEW x \in Mounts, loads'[x].found = m
      PROVE  loads'[x].generation < generation'
  <2>a. LoadMoved(x) /\ loads[x] \in Load /\ loads[x].generation \in Nat
    BY <1>a, LoadMoves DEF TypeOK, Load
  <2>b. loads[x].found = m => loads[x].generation < generation
    BY DEF Unknown
  <2>1. CASE loads'[x] = loads[x]
    BY <1>b, <1>2, <2>a, <2>b, <2>1
  <2>2. CASE loads'[x] = NewLoad
    BY <1>a, <1>2, <2>2 DEF NewLoad
  <2>3. CASE loads'[x] = [loads[x] EXCEPT !.step = "queued"]
    BY <1>b, <1>2, <2>a, <2>b, <2>3 DEF Load
  <2>4. CASE loads[x].step = "queued" /\ loads'[x].found = InMemory(op[x].window, op[x].endpoint)
    BY <1>a, <1>c, <1>2, <2>4 DEF Placed
  <2>5. CASE /\ UNCHANGED generation /\ loads'[x].generation = loads[x].generation
             /\ loads'[x].found \in {loads[x].found, None}
    BY <1>a, <1>2, <2>b, <2>5
  <2>6. CASE /\ UNCHANGED generation /\ loads'[x].generation = loads[x].generation
             /\ loads[x].step \in Scopes
             /\ loads'[x].found = saved[op[x].endpoint][loads[x].step]
    <3>1. loads[x].step # "none"
      BY <2>6 DEF Scopes
    <3>2. op[x].endpoint \in Endpoints
      BY <1>a, <3>1 DEF Placed
    <3>3. Forgetting
      BY <1>2, <2>6, <3>2 DEF Gone
    <3> QED
      BY <2>6, <3>3 DEF StaleLoads
  <2> QED
    BY <2>a, <2>1, <2>2, <2>3, <2>4, <2>5, <2>6 DEF LoadMoved
<1>3. ASSUME NEW x \in Mounts, op'[x].account = m
      PROVE  op'[x].generation < generation'
  <2>a. AccountMoved(x) /\ Moved(x) /\ op[x].generation \in Nat /\ loads[x].generation \in Nat
    BY <1>a, AccountMoves, MountMoves DEF TypeOK, Operation, Load
  <2>b. op[x].generation < generation /\ op[x].state # "new" => op'[x].generation < generation'
    BY <1>b, <2>a DEF Moved
  <2>1. CASE op'[x].account = op[x].account
    BY <1>a, <1>3, <2>b, <2>1 DEF Unknown, Fresh
  <2>2. CASE op'[x].account = x
    BY <1>3, <2>b, <2>2 DEF Old
  <2>3. CASE op[x].state # "new" /\ op'[x].account = InMemory(op[x].window, op[x].endpoint)
    BY <1>c, <1>3, <2>3
  <2>4. CASE op[x].state # "new" /\ op'[x].account = loads[x].found
    <3>1. loads[x].generation < generation /\ op[x].generation <= loads[x].generation
      BY <1>a, <1>3, <2>4 DEF Unknown, LoadsAged
    <3> QED
      BY <1>b, <2>a, <2>b, <2>4, <3>1
  <2> QED
    BY <1>a, <1>3, <2>a, <2>1, <2>2, <2>3, <2>4 DEF AccountMoved
<1> QED
    BY <1>1, <1>2, <1>3 DEF Unknown

\* When the generation advances, nobody knows of any account any more.
LEMMA BegunUnknown ==
    ASSUME NEW n \in SignOuts, NEW m \in Mounts, KnowledgeInv, ForgetBegun(n)
    PROVE  Unknown(m)'
<1>a. TypeOK /\ Aged /\ LoadsAged /\ MemoryAged /\ m # None
    BY ConstantsAssumption DEF KnowledgeInv, Inv
<1>b. generation \in Nat /\ generation' = generation + 1 /\ UNCHANGED <<op, loads>>
    BY <1>a DEF TypeOK, ForgetBegun
<1>1. ASSUME NEW w \in Windows, NEW e \in Endpoints, memory'[w][e].account = m
      PROVE  memory'[w][e].generation < generation'
  <2>1. memory \in [Windows -> [Endpoints -> Kept]] /\ memory[w][e].generation \in Nat
    BY <1>a DEF TypeOK, Kept
  <2>2. memory'[w][e] \in {memory[w][e], Nothing}
    BY <2>1 DEF ForgetBegun, MemoryCleared
  <2> QED
    BY <1>a, <1>b, <1>1, <2>1, <2>2 DEF MemoryAged, Nothing
<1>2. ASSUME NEW x \in Mounts
      PROVE  loads'[x].generation < generation' /\ op'[x].generation < generation'
  <2>1. loads[x].generation \in Nat /\ op[x].generation \in Nat
    BY <1>a DEF TypeOK, Load, Operation
  <2> QED
    BY <1>a, <1>b, <2>1 DEF LoadsAged, Aged
<1> QED
    BY <1>1, <1>2 DEF Unknown

\* From the moment a worker advances the generation until the keyring is
\* cleared, nobody knows of the accounts it is to forget.
LEMMA ForgettingUnknownStep ==
    ASSUME ~ClearOverlaps
    PROVE  ReuseInv /\ [Next]_vars => ForgettingUnknown'
<1> SUFFICES ASSUME ReuseInv, [Next]_vars,
                    NEW n \in SignOuts, out'[n].worker \in {"waiting", "clearing"},
                    NEW m \in out'[n].known
             PROVE  Unknown(m)'
    BY DEF ForgettingUnknown
<1>a. /\ KnowledgeInv /\ InTime /\ StaleLoads /\ ForgettingUnknown
      /\ TypeOK /\ Begun /\ KnownOld
    BY DEF ReuseInv, KnowledgeInv, Inv
<1>b. out[n] \in SignOut /\ SignOutMoved(n)
    BY <1>a, SignOutMoves DEF TypeOK
<1>1. CASE out[n].worker \in {"waiting", "clearing"}
  <2>1. Forgetting
    BY <1>1 DEF Forgetting
  <2>2. m \in out[n].known /\ m \in Mounts
    BY <1>1, <1>a, <1>b DEF Begun, SignOutMoved, SignOut
  <2> QED
    BY <1>1, <1>a, <2>1, <2>2, UnknownStep DEF ForgettingUnknown, KnownOld
<1>2. CASE ForgetBegun(n)
  <2>1. m \in Mounts
    BY <1>2, <1>a, <1>b DEF ForgetBegun, Begun, SignOutMoved, SignOut
  <2> QED
    BY <1>2, <1>a, <2>1, BegunUnknown
<1> QED
    BY <1>1, <1>2, <1>a, WorkerMoves

\* Nobody comes to know of what a worker has cleared; an account that
\* takes its scope only now is its own mount's alone.
LEMMA ClearedUnknownStep ==
    ASSUME ~ClearOverlaps
    PROVE  ReuseInv /\ [Next]_vars => ClearedUnknown'
<1> SUFFICES ASSUME ReuseInv, [Next]_vars, NEW n \in SignOuts, out'[n].worker = "done",
                    NEW m \in out'[n].known, out'[n].forget = "all" \/ op'[m].scope = "session"
             PROVE  Unknown(m)'
    BY DEF ClearedUnknown
<1>a. /\ KnowledgeInv /\ InTime /\ StaleLoads /\ ForgettingUnknown /\ ClearedUnknown
      /\ Inv /\ TypeOK /\ Settled /\ SavedBy /\ Begun /\ KnownOld /\ ClearedGone /\ Private
    BY DEF ReuseInv, KnowledgeInv, Inv
<1>b. out[n] \in SignOut /\ SignOutMoved(n)
    BY <1>a, SignOutMoves DEF TypeOK
<1>c. out[n].worker # "none" /\ out[n].state \in {"forgetting", "ended"}
    BY <1>a, <1>b DEF SignOutMoved, Begun
<1>d. m \in out[n].known /\ out'[n].forget = out[n].forget /\ m \in Mounts
    BY <1>b, <1>c DEF SignOutMoved, SignOut
<1>e. Old(m)
    BY <1>a, <1>d DEF KnownOld
<1>1. CASE out[n].worker = "done"
  <2>1. CASE out[n].forget = "all" \/ op[m].scope = "session"
    BY <1>1, <1>a, <1>d, <1>e, <2>1, UnknownStep DEF ClearedUnknown, ClearedGone
  <2>2. CASE op'[m].scope # op[m].scope
    <3>1. op[m].state = "dialog"
      BY <1>a, <1>d, <2>2, MountMoves DEF Moved
    <3>2. Gone(m)
      BY <1>a, <1>d, <3>1 DEF Settled, SavedBy, Gone, Writing
    <3>3. Unknown(m)
      BY <1>a, <1>d, <1>e, <3>1 DEF Private, Old, Unknown
    <3> QED
      BY <1>a, <1>d, <1>e, <3>2, <3>3, UnknownStep
  <2> QED
    BY <1>d, <2>1, <2>2
<1>2. CASE out[n].worker = "clearing"
  <2>1. Forgetting
    BY <1>2 DEF Forgetting
  <2> QED
    BY <1>2, <1>a, <1>d, <1>e, <2>1, UnknownStep DEF ForgettingUnknown
<1> QED
    BY <1>1, <1>2, <1>b DEF SignOutMoved

\* A sign-out reports what its worker cleared, which nobody knows of.
LEMMA ForgottenUnknownStep ==
    ASSUME ~ClearOverlaps
    PROVE  ReuseInv /\ [Next]_vars => ForgottenUnknown'
<1> SUFFICES ASSUME ReuseInv, [Next]_vars, NEW m \in forgotten' PROVE Unknown(m)'
    BY DEF ForgottenUnknown
<1>a. /\ KnowledgeInv /\ InTime /\ StaleLoads /\ ClearedUnknown /\ ForgottenUnknown
      /\ TypeOK /\ KnownOld /\ ClearedGone /\ ForgottenGone
    BY DEF ReuseInv, KnowledgeInv, Inv
<1>b. forgotten \subseteq Mounts /\ \A n \in SignOuts : out[n].known \subseteq Mounts
    BY <1>a DEF TypeOK, SignOut
<1>1. m \in forgotten \/ \E n \in SignOuts : out[n].worker = "done" /\ m \in Covered(out[n])
    BY DEF Next, MountStep, WorkerStep, SignOutStep, ForgetStep, vars, observed, LoadGoes,
       StartMount, AskPassword, Answer, MountFails, MountSucceeds, Accept, Deliver,
       LoadBegins, LookUp, CheckFound, KeepFound, SaveLocks, SaveStores, SaveLeavesMemory,
       SaveEnds, AskSignOut, BeginSignOut, Unmount, StartForgetting, EndSignOut, GiveUp,
       ForgetMemory, ForgetLocks, ForgetSaved, CloseWindow, OtherProcessSignsOut
<1>2. m \in Mounts /\ Old(m) /\ Gone(m) /\ Unknown(m)
    BY <1>1, <1>a, <1>b DEF ForgottenGone, ForgottenUnknown, Covered, ClearedGone,
       ClearedUnknown, KnownOld
<1> QED
    BY <1>2, <1>a, UnknownStep

\* The invariant is inductive.
LEMMA ReuseInvStep ==
    ASSUME ~ClearOverlaps
    PROVE  ReuseInv /\ [Next]_vars => ReuseInv'
<1> SUFFICES ASSUME ReuseInv, [Next]_vars PROVE ReuseInv'
    OBVIOUS
<1>a. /\ KnowledgeInv /\ InTime /\ StaleLoads /\ LoadsAged /\ TypeOK /\ Settled
    BY DEF ReuseInv, KnowledgeInv, Inv
<1>1. KnowledgeInv'
    BY <1>a, KnowledgeStep
<1>2. InTime' /\ StaleLoads'
    BY <1>a, InTimeStep, StaleLoadsStep
<1>3. ForgettingUnknown' /\ ClearedUnknown' /\ ForgottenUnknown'
    BY ForgettingUnknownStep, ClearedUnknownStep, ForgottenUnknownStep
<1> QED
    BY <1>1, <1>2, <1>3 DEF ReuseInv

\* forget_memory, "invalidates every load in flight": no window, whichever
\* signed out, signs in with an account a finished sign-out forgot, when no
\* other thread runs between the worker's wipe and its clear.
THEOREM ForgottenStaysUnused ==
    ASSUME ~ClearOverlaps
    PROVE  Spec => []ForgottenNeverReused
<1>1. Init => ReuseInv
  <2> SUFFICES ASSUME Init PROVE ReuseInv
      OBVIOUS
  <2>1. InTime
    BY ConstantsAssumption DEF Init, InTime
  <2>2. StaleLoads /\ ForgettingUnknown /\ ClearedUnknown /\ ForgottenUnknown
    BY DEF Init, StaleLoads, ForgettingUnknown, ClearedUnknown, ForgottenUnknown, NewLoad,
       NewSignOut, Scopes
  <2> QED
    BY <2>1, <2>2, KnowledgeInit DEF ReuseInv
<1>2. ReuseInv /\ [Next]_vars => ReuseInv'
    BY ReuseInvStep
<1>3. ReuseInv => ForgottenNeverReused
  <2> SUFFICES ASSUME ReuseInv, NEW w \in Windows, NEW e \in Endpoints,
                      InMemory(w, e) \in forgotten
               PROVE  FALSE
      BY DEF ForgottenNeverReused
  <2>1. forgotten \subseteq Mounts /\ generation \in Nat
    BY DEF ReuseInv, KnowledgeInv, Inv, TypeOK
  <2>2. InMemory(w, e) # None
    BY <2>1, ConstantsAssumption
  <2> QED
    BY <2>1, <2>2, InMemoryKept DEF ReuseInv, ForgottenUnknown, Unknown
<1> QED
    BY <1>1, <1>2, <1>3, PTL DEF Spec

(***************************************************************************)
(* The keyring answers with the account saved last.                        *)
(***************************************************************************)
\* An account that its own mount knows, or saves, was given a scope.
Chosen ==
    \A m \in Mounts : op[m].account = m \/ saves[m] # "none" => op[m].scope \in Scopes

\* The keyring prefers what was saved last, but for the port whose save is
\* between its two keyring calls, and which holds that save's entry.
Replacing(m) == saves[m] \in {"stored", "clearing"}

LatestKept ==
    /\ \A e \in Endpoints :
            \/ Preferred(saved[e]) = latest[e]
            \/ \E m \in Mounts : Replacing(m) /\ op[m].endpoint = e
    /\ \A m \in Mounts : Replacing(m) => saved[op[m].endpoint][op[m].scope] = m

SavedInv == KnowledgeInv /\ Chosen /\ LatestKept

\* A mount learns its own account only from its dialog, where the scope is
\* chosen.
LEMMA ChosenStep == KnowledgeInv /\ Chosen /\ [Next]_vars => Chosen'
<1> SUFFICES ASSUME KnowledgeInv, Chosen, [Next]_vars, NEW m \in Mounts,
                    op'[m].account = m \/ saves'[m] # "none"
             PROVE  op'[m].scope \in Scopes
    BY DEF Chosen
<1>a. /\ TypeOK /\ Placed /\ Settled /\ Private /\ m # None
      /\ op[m] \in Operation /\ AccountMoved(m) /\ Moved(m)
    BY ConstantsAssumption, AccountMoves, MountMoves DEF KnowledgeInv, Inv, TypeOK
<1>b. saves'[m] # "none" => saves[m] # "none" \/ op[m].account = m
  <2> SUFFICES ASSUME saves[m] = "none", saves'[m] # "none" PROVE op[m].account = m
    OBVIOUS
  <2>1. saves \in [Mounts -> {"none", "queued", "storing", "stored", "clearing", "done"}]
    BY <1>a DEF TypeOK
  <2>2. PICK x \in Mounts : Accept(x) \/ WorkerStep(x)
    BY DEF Next, MountStep, SignOutStep, ForgetStep, vars, StartMount, AskPassword, Answer,
       MountFails, MountSucceeds, Deliver, AskSignOut, BeginSignOut, Unmount,
       StartForgetting, EndSignOut, GiveUp, ForgetMemory, ForgetLocks, ForgetSaved,
       CloseWindow, OtherProcessSignsOut
  <2>3. ~WorkerStep(x)
    BY <2>1 DEF WorkerStep, LoadGoes, LoadBegins, LookUp, CheckFound, KeepFound, SaveLocks,
       SaveStores, SaveLeavesMemory, SaveEnds
  <2> QED
    BY <2>1, <2>2, <2>3 DEF Accept
<1>1. CASE op[m].scope \in Scopes
    BY <1>a, <1>1 DEF AccountMoved
<1>2. CASE op[m].state = "ended"
    BY <1>a, <1>b, <1>2 DEF Moved, Chosen
<1>3. CASE op[m].state # "ended"
  <2>1. \A x \in Mounts : loads[x].found # m
    BY <1>a, <1>3 DEF Private
  <2>2. op[m].state # "new" => InMemory(op[m].window, op[m].endpoint) # m
    BY <1>a, <1>3 DEF Private, Placed, InMemory
  <2>3. CASE op[m].account = m \/ saves[m] # "none"
    BY <1>1, <2>3 DEF Chosen
  <2>4. CASE op'[m].account = m /\ op[m].account # m
    BY <1>a, <2>1, <2>2, <2>4 DEF AccountMoved
  <2> QED
    BY <1>b, <2>3, <2>4
<1> QED
    BY <1>1, <1>2, <1>3

\* No call to the keyring fails, and nobody else writes to it: a save that
\* ends leaves its account preferred, and the lock keeps the others out.
LEMMA LatestKeptStep ==
    ASSUME ~KeyringFails, ~OtherProcesses
    PROVE  SavedInv /\ [Next]_vars => LatestKept'
<1> SUFFICES ASSUME SavedInv, [Next]_vars PROVE LatestKept'
    OBVIOUS
<1>a. /\ TypeOK /\ Placed /\ LockHeld /\ Settled /\ LatestKept /\ Chosen
      /\ op \in [Mounts -> Operation]
      /\ saved \in [Endpoints -> [Scopes -> Accounts]] /\ latest \in [Endpoints -> Accounts]
      /\ saves \in [Mounts -> {"none", "queued", "storing", "stored", "clearing", "done"}]
    BY DEF SavedInv, KnowledgeInv, Inv, TypeOK
<1>b. \A m \in Mounts : saves[m] # "none" =>
            /\ op'[m] = op[m] /\ op[m].scope \in Scopes /\ op[m].endpoint \in Endpoints
    BY <1>a, MountMoves DEF Settled, Moved, Chosen, Placed
<1>c. \A m \in Mounts : m # None /\ m \notin SignOuts
    BY ConstantsAssumption
<1>d. \A m \in Mounts : Replacing(m) => lock = m /\ saves[m] # "none"
    BY <1>a DEF LockHeld, Replacing, Writing
<1>1. ASSUME UNCHANGED <<saved, latest>>, \A m \in Mounts : Replacing(m)' <=> Replacing(m)
      PROVE  LatestKept'
    BY <1>a, <1>b, <1>d, <1>1 DEF LatestKept, Preferred
<1>2. ASSUME NEW m \in Mounts, Accept(m) \/ SaveLocks(m) \/ SaveLeavesMemory(m)
      PROVE  LatestKept'
  <2>1. UNCHANGED <<saved, latest>> /\ \A x \in Mounts : Replacing(x)' <=> Replacing(x)
    BY <1>a, <1>2 DEF Accept, SaveLocks, SaveLeavesMemory, Replacing, keyring, observed, Settled
  <2> QED
    BY <1>1, <2>1
<1>3. ASSUME NEW m \in Mounts, SaveStores(m) PROVE LatestKept'
  <2>1. /\ lock = m /\ op[m].scope \in Scopes /\ op[m].endpoint \in Endpoints
        /\ saves' = [saves EXCEPT ![m] = "stored"] /\ UNCHANGED <<op, latest>>
        /\ saved' = [saved EXCEPT ![op[m].endpoint] =
                        [saved[op[m].endpoint] EXCEPT ![op[m].scope] = m]]
    BY <1>a, <1>b, <1>3 DEF SaveStores, LockHeld, Writing, observed
  <2>2. \A x \in Mounts : Replacing(x)' <=> x = m
    BY <1>a, <1>d, <1>3, <2>1 DEF Replacing, SaveStores
  <2>3. saved'[op[m].endpoint][op[m].scope] = m
    BY <1>a, <2>1
  <2>4. \A e \in Endpoints : e # op[m].endpoint => saved'[e] = saved[e]
    BY <1>a, <2>1
  <2>5. \A x \in Mounts : ~Replacing(x)
    BY <1>d, <1>3, <2>1 DEF Replacing, SaveStores
  <2> QED
    BY <1>a, <2>1, <2>2, <2>3, <2>4, <2>5 DEF LatestKept, Preferred
<1>4. ASSUME NEW m \in Mounts, SaveEnds(m) PROVE LatestKept'
  <2> DEFINE e == op[m].endpoint
  <2>1. /\ Replacing(m) /\ op[m].scope \in Scopes /\ e \in Endpoints /\ lock = m
        /\ saved[e][op[m].scope] = m
    BY <1>a, <1>b, <1>d, <1>4 DEF SaveEnds, Replacing, LatestKept
  <2>2. /\ latest' = [latest EXCEPT ![e] = m] /\ UNCHANGED op
        /\ saves' = [saves EXCEPT ![m] = "done"]
        /\ saved' = IF op[m].scope = "permanent"
                    THEN [saved EXCEPT ![e] = Cleared(saved[e], "session")] ELSE saved
    BY <1>4 DEF SaveEnds
  <2>3. \A x \in Mounts : ~Replacing(x)'
    BY <1>a, <1>d, <2>1, <2>2 DEF Replacing
  <2>4. \A d \in Endpoints : d # e => saved'[d] = saved[d] /\ latest'[d] = latest[d]
    BY <1>a, <2>2
  <2>5. \A d \in Endpoints : d # e => Preferred(saved[d]) = latest[d]
    BY <1>a, <1>d, <2>1 DEF LatestKept
  <2>6. Preferred(saved'[e]) = m /\ latest'[e] = m
    <3>1. CASE op[m].scope = "permanent"
      <4>1. saved'[e] = Cleared(saved[e], "session")
        BY <1>a, <2>1, <2>2, <3>1
      <4> QED
        BY <1>a, <2>1, <2>2, <3>1, <4>1 DEF Cleared, Preferred, Scopes
    <3>2. CASE op[m].scope = "session"
      BY <1>a, <1>c, <2>1, <2>2, <3>2 DEF Preferred
    <3> QED
      BY <2>1, <3>1, <3>2 DEF Scopes
  <2>7. \A d \in Endpoints : Preferred(saved'[d]) = latest'[d]
    BY <2>4, <2>5, <2>6
  <2> QED
    BY <2>3, <2>7 DEF LatestKept, Preferred
<1>5. ASSUME NEW n \in SignOuts, ForgetSaved(n) PROVE LatestKept'
  <2>1. lock = n /\ UNCHANGED <<op, saves>>
    BY <1>a, <1>5 DEF LockHeld, ForgetSaved
  <2>2. \A x \in Mounts : ~Replacing(x)'
    BY <1>c, <1>d, <2>1 DEF Replacing
  <2>3. \A e \in Endpoints : latest'[e] = Preferred(saved'[e])
    BY <1>5 DEF ForgetSaved
  <2> QED
    BY <2>2, <2>3 DEF LatestKept, Preferred
<1>6. CASE UNCHANGED <<saved, latest, saves>>
    BY <1>1, <1>6 DEF Replacing
<1> QED
    BY <1>2, <1>3, <1>4, <1>5, <1>6
       DEF Next, MountStep, WorkerStep, SignOutStep, ForgetStep, vars, keyring, observed,
       LoadGoes, StartMount, AskPassword, Answer, MountFails, MountSucceeds, Deliver,
       LoadBegins, LookUp, CheckFound, KeepFound, AskSignOut, BeginSignOut, Unmount,
       StartForgetting, EndSignOut, GiveUp, ForgetMemory, ForgetLocks, CloseWindow,
       OtherProcessSignsOut

\* SessionCredentials::load, "a session entry wins over an older permanent
\* one": the entry it prefers is the one saved last, whatever saves and
\* sign-outs were under way, when no keyring call fails and no other
\* process writes to the keyring.
THEOREM SavedLastIsPreferred ==
    ASSUME ~KeyringFails, ~OtherProcesses
    PROVE  Spec => []LastSavedIsPreferred
<1>1. Init => SavedInv
  <2> SUFFICES ASSUME Init PROVE SavedInv
      OBVIOUS
  <2>1. Chosen
    BY ConstantsAssumption DEF Init, Chosen, NewOp
  <2>2. LatestKept
    BY DEF Init, LatestKept, Replacing, Preferred, Scopes
  <2> QED
    BY <2>1, <2>2, KnowledgeInit DEF SavedInv
<1>2. SavedInv /\ [Next]_vars => SavedInv'
    BY KnowledgeStep, ChosenStep, LatestKeptStep DEF SavedInv
<1>3. SavedInv => LastSavedIsPreferred
    BY ConstantsAssumption DEF SavedInv, KnowledgeInv, Inv, LockHeld, LatestKept, Replacing,
       Writing, LastSavedIsPreferred
<1> QED
    BY <1>1, <1>2, <1>3, PTL DEF Spec

=============================================================================
