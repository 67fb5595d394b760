-------------------------- MODULE CredentialsProofs --------------------------
(***************************************************************************)
(* No forgotten password returns to the keyring, for any number of         *)
(* windows, ports, mounts and sign-outs.                                   *)
(*                                                                         *)
(* ForgottenNeverSaved is not inductive: a save past its check writes what *)
(* a sign-out could have just forgotten.  What prevents it is an order.    *)
(* The save holds the lock from its check on (LockHeld), so it ends before *)
(* the clear; and a save that has not checked yet carries a generation     *)
(* older than the sign-out's (KnownOld), so it will be dropped.  Hence     *)
(* what a worker has cleared is gone for good (ClearedGone), and with it   *)
(* what the sign-out reports as forgotten (ForgottenGone).                 *)
(***************************************************************************)
EXTENDS Credentials, TLAPS

Writing == {"storing", "stored", "clearing"}

\* The lock is held by the save that writes and by the worker that clears.
LockHeld ==
    /\ \A m \in Mounts : saves[m] \in Writing => lock = m
    /\ \A n \in SignOuts : out[n].worker = "clearing" => lock = n

\* A mount that has started knows a generation that was.
Aged ==
    \A m \in Mounts : /\ op[m].generation <= generation
                      /\ op[m].entered => op[m].state # "new"

\* A mount that has started, or whose account is being looked up, has a
\* window and a port.
Placed ==
    \A m \in Mounts :
        /\ op[m].state # "new" => op[m].window \in Windows /\ op[m].endpoint \in Endpoints
        /\ loads[m].step # "none" => op[m].state # "new"

\* An account is accepted, and then saved, once its mount is over.
Settled ==
    \A m \in Mounts : /\ saves[m] # "none" => op[m].state = "ended"
                      /\ main = m => op[m].state = "ended" /\ saves[m] = "none"

\* An entry of the keyring was written by the save of its account, in the
\* scope the user chose.
SavedBy ==
    \A m \in Mounts, e \in Endpoints, s \in Scopes :
        saved[e][s] = m => saves[m] \in {"stored", "clearing", "done"} /\ op[m].scope = s

\* A worker belongs to a sign-out that has begun.
Begun ==
    \A n \in SignOuts : out[n].worker # "none" => out[n].state \in {"forgetting", "ended"}

\* m started before the current generation.
Old(m) == op[m].state # "new" /\ op[m].generation < generation

KnownOld == \A n \in SignOuts : \A m \in out[n].known : Old(m)

\* m is not in the keyring and is not being written to it.
Gone(m) ==
    /\ \A e \in Endpoints, s \in Scopes : saved[e][s] # m
    /\ saves[m] \notin Writing

ClearedGone ==
    \A n \in SignOuts : out[n].worker = "done" =>
        \A m \in out[n].known :
            out[n].forget = "all" \/ op[m].scope = "session" => Gone(m)

ForgottenGone == \A m \in forgotten : Old(m) /\ Gone(m)

Inv ==
    /\ TypeOK /\ Placed /\ LockHeld /\ Aged /\ Settled /\ SavedBy /\ Begun
    /\ KnownOld /\ ClearedGone /\ ForgottenGone

-----------------------------------------------------------------------------

(***************************************************************************)
(* What one step does to a mount and to a sign-out.                        *)
(***************************************************************************)
\* A mount that has started keeps its window, port and generation, takes a
\* scope only in its dialog, and does not change once it is over.
Moved(m) ==
    /\ op[m].state # "new" => /\ op'[m].state # "new"
                              /\ op'[m].generation = op[m].generation
                              /\ op'[m].window = op[m].window
                              /\ op'[m].endpoint = op[m].endpoint
    /\ op[m].state = "ended" => op'[m] = op[m]
    /\ op'[m].scope = op[m].scope \/ op[m].state = "dialog"
    /\ op[m].state = "new" => \/ op'[m] = op[m]
                              \/ /\ op'[m].state # "new"
                                 /\ op'[m].generation = generation
                                 /\ op'[m].window \in Windows /\ op'[m].endpoint \in Endpoints

\* Every step moves every mount so, or leaves it alone.
LEMMA MountMoves == TypeOK /\ [Next]_vars => \A m \in Mounts : Moved(m)
<1> SUFFICES ASSUME TypeOK, [Next]_vars PROVE \A m \in Mounts : Moved(m)
    OBVIOUS
<1>a. op \in [Mounts -> Operation]
    BY DEF TypeOK
<1>b. \A m \in Mounts : op'[m] = op[m] => Moved(m)
    BY DEF Moved
<1>1. ASSUME NEW m \in Mounts, NEW w \in Windows, NEW e \in Endpoints, NEW k \in Kinds,
           StartMount(m, w, e, k)
      PROVE  Moved(m) /\ \A x \in Mounts \ {m} : op'[x] = op[x]
    BY <1>a, <1>1 DEF StartMount, Moved, Operation
<1>2. ASSUME NEW m \in Mounts, AskPassword(m)
      PROVE  Moved(m) /\ \A x \in Mounts \ {m} : op'[x] = op[x]
  <2>1. ASSUME NEW s \in {"dialog", "loading", "replied"}, NEW a, op' = Asked(m, s, a)
        PROVE  Moved(m) /\ \A x \in Mounts \ {m} : op'[x] = op[x]
    BY <1>a, <1>2, <2>1 DEF AskPassword, Asked, Moved, Operation
  <2> QED
    BY <1>2, <2>1 DEF AskPassword
<1>3. ASSUME NEW m \in Mounts, Answer(m)
      PROVE  Moved(m) /\ \A x \in Mounts \ {m} : op'[x] = op[x]
  <2>1. ASSUME NEW s \in Scopes,
               op' = [op EXCEPT ![m] = [op[m] EXCEPT !.state = "replied", !.account = m,
                                                     !.scope = s, !.entered = TRUE]]
        PROVE  Moved(m) /\ \A x \in Mounts \ {m} : op'[x] = op[x]
    <3> DEFINE r == [op[m] EXCEPT !.state = "replied", !.account = m, !.scope = s, !.entered = TRUE]
    <3>1. op[m] \in Operation
      BY <1>a
    <3>2. /\ r.state = "replied" /\ r.generation = op[m].generation
          /\ r.window = op[m].window /\ r.endpoint = op[m].endpoint
      BY <3>1 DEF Operation
    <3>3. op'[m] = r /\ \A x \in Mounts \ {m} : op'[x] = op[x]
      BY <1>a, <2>1
    <3>4. op[m].state = "dialog"
      BY <1>3 DEF Answer
    <3> HIDE DEF r
    <3> QED
      BY <3>2, <3>3, <3>4 DEF Moved
  <2>2. CASE op' = [op EXCEPT ![m] = [op[m] EXCEPT !.state = "replied", !.account = None]]
    BY <1>a, <1>3, <2>2 DEF Answer, Moved, Operation
  <2> QED
    BY <1>3, <2>1, <2>2 DEF Answer
<1>4. ASSUME NEW m \in Mounts, MountFails(m)
      PROVE  Moved(m) /\ \A x \in Mounts \ {m} : op'[x] = op[x]
    BY <1>a, <1>4 DEF MountFails, InFlight, Moved, Operation
<1>5. ASSUME NEW m \in Mounts, MountSucceeds(m)
      PROVE  Moved(m) /\ \A x \in Mounts \ {m} : op'[x] = op[x]
    BY <1>a, <1>5 DEF MountSucceeds, Moved, Operation
<1>6. ASSUME NEW m \in Mounts, Deliver(m)
      PROVE  Moved(m) /\ \A x \in Mounts \ {m} : op'[x] = op[x]
    BY <1>a, <1>6 DEF Deliver, Moved, Operation
<1>7. ASSUME NEW n \in SignOuts, BeginSignOut(n)
      PROVE  \A m \in Mounts : Moved(m)
  <2>1. ASSUME NEW m \in Mounts, InFlight(m), op'[m] = [op[m] EXCEPT !.state = "ended"]
        PROVE  Moved(m)
    BY <1>a, <2>1 DEF InFlight, Moved, Operation
  <2> QED
    BY <1>b, <1>7, <2>1 DEF BeginSignOut, StopListings
<1>8. ASSUME NEW w \in Windows, CloseWindow(w)
      PROVE  \A m \in Mounts : Moved(m)
  <2>1. ASSUME NEW m \in Mounts, InFlight(m), op'[m] = [op[m] EXCEPT !.state = "ended"]
        PROVE  Moved(m)
    BY <1>a, <2>1 DEF InFlight, Moved, Operation
  <2> QED
    BY <1>b, <1>8, <2>1 DEF CloseWindow
<1>9. CASE UNCHANGED op
    BY <1>b, <1>9
<1> QED
    BY <1>b, <1>1, <1>2, <1>3, <1>4, <1>5, <1>6, <1>7, <1>8, <1>9
       DEF Next, MountStep, WorkerStep, SignOutStep, ForgetStep, vars, LoadGoes, Accept,
       LoadBegins, LookUp, CheckFound, KeepFound, SaveLocks, SaveStores, SaveLeavesMemory,
       SaveEnds, AskSignOut, Unmount, StartForgetting, EndSignOut, GiveUp, ForgetMemory,
       ForgetLocks, ForgetSaved, OtherProcessSignsOut

\* A sign-out that is forgetting keeps what it knows and forgets; its
\* worker has done its work when it has cleared the keyring.
SignOutMoved(n) ==
    /\ out'[n].worker # "none" => out[n].worker # "none" \/ out'[n].state = "forgetting"
    /\ out[n].state \in {"forgetting", "ended"} =>
            /\ out'[n].state \in {"forgetting", "ended"}
            /\ out'[n].known = out[n].known /\ out'[n].forget = out[n].forget
    /\ \/ out'[n].known = out[n].known
       \/ out'[n].known = Typed /\ generation' = generation + 1
    /\ out'[n].worker = "done" =>
            \/ out[n].worker = "done"
            \/ /\ out[n].worker = "clearing"
               /\ saved' = [e \in Endpoints |-> Cleared(saved[e], out[n].forget)]
               /\ UNCHANGED <<op, saves>>

\* Every step moves every sign-out so, or leaves it alone.
LEMMA SignOutMoves == TypeOK /\ Begun /\ [Next]_vars => \A n \in SignOuts : SignOutMoved(n)
<1> SUFFICES ASSUME TypeOK, Begun, [Next]_vars PROVE \A n \in SignOuts : SignOutMoved(n)
    OBVIOUS
<1>a. out \in [SignOuts -> SignOut]
    BY DEF TypeOK
<1>b. \A n \in SignOuts : out'[n] = out[n] => SignOutMoved(n)
    BY DEF SignOutMoved
<1>1. ASSUME NEW n \in SignOuts, NEW w \in Windows, NEW f \in Forgets, AskSignOut(n, w, f)
      PROVE  SignOutMoved(n) /\ \A x \in SignOuts \ {n} : out'[x] = out[x]
    BY <1>a, <1>1 DEF AskSignOut, SignOutMoved, SignOut, Begun
<1>2. ASSUME NEW n \in SignOuts, BeginSignOut(n)
      PROVE  SignOutMoved(n) /\ \A x \in SignOuts \ {n} : out'[x] = out[x]
  <2>1. CASE out' = [out EXCEPT ![n].state = "ended"]
    BY <1>a, <1>2, <2>1 DEF BeginSignOut, SignOutMoved, SignOut, Begun
  <2>2. CASE /\ generation' = generation + 1
             /\ out' = [out EXCEPT ![n].state = "unmounting", ![n].known = Typed]
    BY <1>a, <1>2, <2>2 DEF BeginSignOut, SignOutMoved, SignOut, Begun
  <2> QED
    BY <1>2, <2>1, <2>2 DEF BeginSignOut
<1>3. ASSUME NEW n \in SignOuts, Unmount(n) \/ StartForgetting(n)
      PROVE  SignOutMoved(n) /\ \A x \in SignOuts \ {n} : out'[x] = out[x]
  <2>1. ASSUME NEW x, out' = [out EXCEPT ![n].mounts = out[n].mounts \ {x}]
        PROVE  SignOutMoved(n) /\ \A y \in SignOuts \ {n} : out'[y] = out[y]
    BY <1>a, <1>3, <2>1 DEF Unmount, StartForgetting, SignOutMoved, SignOut, Begun
  <2>2. CASE out' = [out EXCEPT ![n].state = "ended"]
    BY <1>a, <1>3, <2>2 DEF Unmount, StartForgetting, SignOutMoved, SignOut, Begun
  <2>3. CASE out' = [out EXCEPT ![n].state = "forgetting", ![n].worker = "queued"]
    BY <1>a, <1>3, <2>3 DEF Unmount, StartForgetting, SignOutMoved, SignOut, Begun
  <2> QED
    BY <1>3, <2>1, <2>2, <2>3 DEF Unmount, StartForgetting
<1>4. ASSUME NEW n \in SignOuts, EndSignOut(n)
      PROVE  SignOutMoved(n) /\ \A x \in SignOuts \ {n} : out'[x] = out[x]
    BY <1>a, <1>4 DEF EndSignOut, SignOutMoved, SignOut, Begun
<1>5. ASSUME NEW n \in SignOuts, GiveUp(n)
      PROVE  SignOutMoved(n) /\ \A x \in SignOuts \ {n} : out'[x] = out[x]
    BY <1>a, <1>5 DEF GiveUp, SignOutMoved, SignOut, Begun
<1>6. ASSUME NEW n \in SignOuts, ForgetMemory(n)
      PROVE  SignOutMoved(n) /\ \A x \in SignOuts \ {n} : out'[x] = out[x]
    BY <1>a, <1>6 DEF ForgetMemory, SignOutMoved, SignOut, Begun
<1>7. ASSUME NEW n \in SignOuts, ForgetLocks(n)
      PROVE  SignOutMoved(n) /\ \A x \in SignOuts \ {n} : out'[x] = out[x]
    BY <1>a, <1>7 DEF ForgetLocks, SignOutMoved, SignOut, Begun
<1>8. ASSUME NEW n \in SignOuts, ForgetSaved(n)
      PROVE  SignOutMoved(n) /\ \A x \in SignOuts \ {n} : out'[x] = out[x]
  <2>1. CASE /\ out' = [out EXCEPT ![n].worker = "done"]
             /\ saved' = [e \in Endpoints |-> Cleared(saved[e], out[n].forget)]
    BY <1>a, <1>8, <2>1 DEF ForgetSaved, SignOutMoved, SignOut, Begun
  <2>2. CASE out' = [out EXCEPT ![n].worker = "failed"]
    BY <1>a, <1>8, <2>2 DEF ForgetSaved, SignOutMoved, SignOut, Begun
  <2> QED
    BY <1>8, <2>1, <2>2 DEF ForgetSaved
<1>9. CASE UNCHANGED out
    BY <1>b, <1>9
<1> QED
    BY <1>b, <1>1, <1>2, <1>3, <1>4, <1>5, <1>6, <1>7, <1>8, <1>9
       DEF Next, MountStep, WorkerStep, SignOutStep, ForgetStep, vars, LoadGoes, StartMount,
       AskPassword, Answer, MountFails, MountSucceeds, Accept, Deliver, LoadBegins, LookUp,
       CheckFound, KeepFound, SaveLocks, SaveStores, SaveLeavesMemory, SaveEnds,
       CloseWindow, OtherProcessSignsOut

(***************************************************************************)
(* The invariant.                                                          *)
(***************************************************************************)
\* Nothing has started: the invariant holds at first.
LEMMA InitInv == Init => Inv
<1> SUFFICES ASSUME Init PROVE Inv
    OBVIOUS
<1>1. TypeOK
  <2>1. NewOp \in Operation
    BY DEF NewOp, Operation, Accounts
  <2>2. NewSignOut \in SignOut /\ NewLoad \in Load /\ Nothing \in Kept
    BY DEF NewSignOut, SignOut, NewLoad, Load, Nothing, Kept, Accounts
  <2> QED
    BY <2>1, <2>2 DEF Init, TypeOK, Accounts
<1>2. Placed /\ LockHeld /\ Settled /\ Begun
    BY ConstantsAssumption DEF Init, Placed, LockHeld, Settled, Begun, Writing,
       NewOp, NewLoad, NewSignOut
<1>3. Aged
    BY DEF Init, Aged, NewOp
<1>4. SavedBy
    BY ConstantsAssumption DEF Init, SavedBy
<1>5. KnownOld /\ ClearedGone /\ ForgottenGone
    BY DEF Init, KnownOld, ClearedGone, ForgottenGone, NewSignOut
<1> QED
    BY <1>1, <1>2, <1>3, <1>4, <1>5 DEF Inv

\* Generations only grow.
LEMMA GenerationGrows ==
    TypeOK /\ [Next]_vars => generation' \in Nat /\ generation' >= generation
<1> SUFFICES ASSUME TypeOK, [Next]_vars PROVE generation' \in Nat /\ generation' >= generation
    OBVIOUS
<1>a. generation \in Nat
    BY DEF TypeOK
<1>1. generation' = generation \/ generation' = generation + 1
    BY DEF Next, MountStep, WorkerStep, SignOutStep, ForgetStep, vars, LoadGoes, StartMount,
       AskPassword, Answer, MountFails, MountSucceeds, Accept, Deliver, LoadBegins, LookUp,
       CheckFound, KeepFound, SaveLocks, SaveStores, SaveLeavesMemory, SaveEnds, AskSignOut,
       BeginSignOut, Unmount, StartForgetting, EndSignOut, GiveUp, ForgetMemory, ForgetLocks,
       ForgetSaved, CloseWindow, OtherProcessSignsOut
<1> QED
    BY <1>a, <1>1

\* Only a mount that is asked for a password starts a lookup.
LEMMA PlacedStep == TypeOK /\ Placed /\ [Next]_vars => Placed'
<1> SUFFICES ASSUME TypeOK, Placed, [Next]_vars, NEW m \in Mounts
             PROVE  /\ op'[m].state # "new" =>
                            op'[m].window \in Windows /\ op'[m].endpoint \in Endpoints
                    /\ loads'[m].step # "none" => op'[m].state # "new"
    BY DEF Placed
<1>1. Moved(m)
    BY MountMoves
<1>2. op'[m].state # "new" => op'[m].window \in Windows /\ op'[m].endpoint \in Endpoints
    BY <1>1 DEF Moved, Placed
<1>3. loads'[m].step # "none" => op'[m].state # "new"
  <2>a. loads \in [Mounts -> Load]
    BY DEF TypeOK
  <2>1. CASE op[m].state # "new"
    BY <1>1, <2>1 DEF Moved
  <2>2. CASE op[m].state = "new" /\ loads'[m] = loads[m]
    BY <1>1, <2>2 DEF Moved, Placed
  <2>3. op[m].state = "new" => loads[m].step = "none"
    BY DEF Placed
  <2>4. ASSUME op[m].state = "new", NEW x \in Mounts, AskPassword(x) \/ Deliver(x) \/ WorkerStep(x)
        PROVE  loads'[m] = loads[m] \/ loads'[m].step = "none"
    BY <2>a, <2>3, <2>4
       DEF AskPassword, Deliver, WorkerStep, LoadGoes, LoadBegins, LookUp, CheckFound,
           KeepFound, SaveLocks, SaveStores, SaveLeavesMemory, SaveEnds, Load, NewLoad, Scopes
  <2>5. op[m].state = "new" => loads'[m] = loads[m] \/ loads'[m].step = "none"
    BY <2>4 DEF Next, MountStep, SignOutStep, ForgetStep, vars, StartMount, Answer,
       MountFails, MountSucceeds, Accept, AskSignOut, BeginSignOut, Unmount, StartForgetting,
       EndSignOut, GiveUp, ForgetMemory, ForgetLocks, ForgetSaved, CloseWindow,
       OtherProcessSignsOut
  <2> QED
    BY <2>1, <2>2, <2>5
<1> QED
    BY <1>2, <1>3

\* A mount starts under the current generation, and generations grow.
LEMMA AgedStep == TypeOK /\ Aged /\ [Next]_vars => Aged'
<1> SUFFICES ASSUME TypeOK, Aged, [Next]_vars, NEW m \in Mounts
             PROVE  /\ op'[m].generation <= generation'
                    /\ op'[m].entered => op'[m].state # "new"
    BY DEF Aged
<1>1. Moved(m) /\ op[m].generation \in Nat /\ generation \in Nat
    BY MountMoves DEF TypeOK, Operation
<1>2. generation' \in Nat /\ generation' >= generation
    BY GenerationGrows
<1> QED
    BY <1>1, <1>2 DEF Moved, Aged

\* The lock changes hands only when it is free, and only its holder frees it.
LEMMA LockHeldStep == TypeOK /\ LockHeld /\ [Next]_vars => LockHeld'
<1> DEFINE Saver(x) == x \in Mounts /\ saves[x] \in Writing => lock = x
           Clearer(y) == y \in SignOuts /\ out[y].worker = "clearing" => lock = y
<1> SUFFICES ASSUME TypeOK, LockHeld, [Next]_vars, NEW x, NEW y
             PROVE  Saver(x)' /\ Clearer(y)'
    BY DEF LockHeld
<1>a. out \in [SignOuts -> SignOut]
    BY DEF TypeOK
<1>b. saves \in [Mounts -> {"none", "queued", "storing", "stored", "clearing", "done"}]
    BY DEF TypeOK
<1>c. None \notin Mounts \cup SignOuts /\ \A m \in Mounts : m \notin SignOuts
    BY ConstantsAssumption
<1>d. (\A m \in Mounts : Saver(m)) /\ (\A n \in SignOuts : Clearer(n))
    BY DEF LockHeld
<1>1. ASSUME NEW m \in Mounts, Accept(m) PROVE Saver(x)' /\ Clearer(y)'
    BY <1>b, <1>d, <1>1 DEF Accept, Writing, keyring
<1>2. ASSUME NEW m \in Mounts, SaveLocks(m) PROVE Saver(x)' /\ Clearer(y)'
    BY <1>b, <1>c, <1>d, <1>2 DEF SaveLocks, Writing
<1>3. ASSUME NEW m \in Mounts, SaveStores(m) PROVE Saver(x)' /\ Clearer(y)'
    BY <1>b, <1>c, <1>d, <1>3 DEF SaveStores, Writing
<1>4. ASSUME NEW m \in Mounts, SaveLeavesMemory(m) PROVE Saver(x)' /\ Clearer(y)'
    BY <1>b, <1>d, <1>4 DEF SaveLeavesMemory, Writing, keyring
<1>5. ASSUME NEW m \in Mounts, SaveEnds(m) PROVE Saver(x)' /\ Clearer(y)'
    BY <1>b, <1>c, <1>d, <1>5 DEF SaveEnds, Writing
<1>6. ASSUME NEW n \in SignOuts, ForgetLocks(n) PROVE Saver(x)' /\ Clearer(y)'
    BY <1>a, <1>c, <1>d, <1>6 DEF ForgetLocks, SignOut
<1>7. ASSUME NEW n \in SignOuts, ForgetSaved(n) PROVE Saver(x)' /\ Clearer(y)'
    BY <1>a, <1>c, <1>d, <1>7 DEF ForgetSaved, SignOut
<1>8. ASSUME UNCHANGED <<lock, saves>>,
             y \in SignOuts /\ out'[y].worker = "clearing" => out[y].worker = "clearing"
      PROVE  Saver(x)' /\ Clearer(y)'
    BY <1>d, <1>8
<1>9. ASSUME NEW n \in SignOuts, NEW w \in Windows, NEW f \in Forgets, AskSignOut(n, w, f)
      PROVE  y \in SignOuts /\ out'[y].worker = "clearing" => out[y].worker = "clearing"
    BY <1>a, <1>9 DEF AskSignOut, SignOut
<1>10. ASSUME NEW n \in SignOuts, BeginSignOut(n)
       PROVE  y \in SignOuts /\ out'[y].worker = "clearing" => out[y].worker = "clearing"
    BY <1>a, <1>10 DEF BeginSignOut, SignOut
<1>11. ASSUME NEW n \in SignOuts, Unmount(n) \/ StartForgetting(n)
       PROVE  y \in SignOuts /\ out'[y].worker = "clearing" => out[y].worker = "clearing"
    BY <1>a, <1>11 DEF Unmount, StartForgetting, SignOut
<1>12. ASSUME NEW n \in SignOuts, EndSignOut(n) \/ GiveUp(n)
       PROVE  y \in SignOuts /\ out'[y].worker = "clearing" => out[y].worker = "clearing"
    BY <1>a, <1>12 DEF EndSignOut, GiveUp, SignOut
<1>13. ASSUME NEW n \in SignOuts, ForgetMemory(n)
       PROVE  y \in SignOuts /\ out'[y].worker = "clearing" => out[y].worker = "clearing"
    BY <1>a, <1>13 DEF ForgetMemory, SignOut
<1> HIDE DEF Saver, Clearer
<1> QED
    BY <1>1, <1>2, <1>3, <1>4, <1>5, <1>6, <1>7, <1>8, <1>9, <1>10, <1>11, <1>12, <1>13
       DEF Next, MountStep, WorkerStep, SignOutStep, ForgetStep, vars, keyring, LoadGoes,
       StartMount, AskPassword, Answer, MountFails, MountSucceeds, Deliver, LoadBegins,
       LookUp, CheckFound, KeepFound, AskSignOut, BeginSignOut, Unmount, StartForgetting,
       EndSignOut, GiveUp, ForgetMemory, CloseWindow, OtherProcessSignsOut

\* An account is accepted only when its mount has ended, and an ended mount
\* does not change.
LEMMA SettledStep == TypeOK /\ Settled /\ [Next]_vars => Settled'
<1> SUFFICES ASSUME TypeOK, Settled, [Next]_vars PROVE Settled'
    OBVIOUS
<1>a. /\ op \in [Mounts -> Operation]
      /\ saves \in [Mounts -> {"none", "queued", "storing", "stored", "clearing", "done"}]
    BY DEF TypeOK
<1>b. \A m \in Mounts : op[m].state = "ended" => op'[m].state = "ended"
    BY MountMoves DEF Moved
<1>c. \A m \in Mounts : m # None
    BY ConstantsAssumption
<1>1. ASSUME NEW m \in Mounts, MountSucceeds(m) PROVE Settled'
  <2>1. op'[m].state = "ended" /\ saves[m] = "none"
    BY <1>a, <1>1 DEF MountSucceeds, Operation, Settled
  <2> QED
    BY <1>b, <1>c, <1>1, <2>1 DEF MountSucceeds, Settled
<1>2. ASSUME NEW m \in Mounts, Accept(m) PROVE Settled'
    BY <1>a, <1>b, <1>c, <1>2 DEF Accept, Settled
<1>3. ASSUME UNCHANGED main, \A m \in Mounts : saves'[m] = saves[m] \/ saves[m] # "none"
      PROVE  Settled'
    BY <1>b, <1>3 DEF Settled
<1>4. ASSUME NEW m \in Mounts,
             \/ SaveLocks(m) \/ SaveStores(m) \/ SaveLeavesMemory(m) \/ SaveEnds(m)
      PROVE  Settled'
    BY <1>a, <1>3, <1>4 DEF SaveLocks, SaveStores, SaveLeavesMemory, SaveEnds
<1> QED
    BY <1>1, <1>2, <1>3, <1>4
       DEF Next, MountStep, WorkerStep, SignOutStep, ForgetStep, vars, LoadGoes, StartMount,
       AskPassword, Answer, MountFails, Deliver, LoadBegins, LookUp, CheckFound, KeepFound,
       AskSignOut, BeginSignOut, Unmount, StartForgetting, EndSignOut, GiveUp, ForgetMemory,
       ForgetLocks, ForgetSaved, CloseWindow, OtherProcessSignsOut

(***************************************************************************)
(* What one step does to the keyring: entries disappear, and the only one  *)
(* that is written is that of a save that holds the lock.                  *)
(***************************************************************************)
LEMMA EntryMoves ==
    TypeOK /\ [Next]_vars =>
        \A m \in Mounts, e \in Endpoints, s \in Scopes :
            saved'[e][s] = m =>
                \/ saved[e][s] = m
                \/ saves[m] = "storing" /\ saves'[m] = "stored" /\ op[m].scope = s /\ UNCHANGED op
<1> SUFFICES ASSUME TypeOK, [Next]_vars, NEW m \in Mounts, NEW e \in Endpoints, NEW s \in Scopes,
                    saved'[e][s] = m
             PROVE  \/ saved[e][s] = m
                    \/ /\ saves[m] = "storing" /\ saves'[m] = "stored"
                       /\ op[m].scope = s /\ UNCHANGED op
    OBVIOUS
<1>a. /\ saved \in [Endpoints -> [Scopes -> Accounts]]
      /\ saves \in [Mounts -> {"none", "queued", "storing", "stored", "clearing", "done"}]
    BY DEF TypeOK
<1>b. m # None
    BY ConstantsAssumption
<1>c. ASSUME NEW f, Cleared(saved[e], f)[s] = m PROVE saved[e][s] = m
    BY <1>b, <1>c DEF Cleared
<1>1. ASSUME NEW x \in Mounts, SaveStores(x)
      PROVE  \/ saved[e][s] = m
             \/ /\ saves[m] = "storing" /\ saves'[m] = "stored"
                /\ op[m].scope = s /\ UNCHANGED op
  <2>1. CASE UNCHANGED saved
    BY <2>1
  <2>2. CASE /\ saved' = [saved EXCEPT ![op[x].endpoint] =
                            [saved[op[x].endpoint] EXCEPT ![op[x].scope] = x]]
             /\ saves' = [saves EXCEPT ![x] = "stored"]
    <3>1. saved[e][s] = m \/ (x = m /\ op[x].scope = s)
      BY <1>a, <2>2
    <3> QED
      BY <1>a, <1>1, <2>2, <3>1 DEF SaveStores
  <2> QED
    BY <1>1, <2>1, <2>2 DEF SaveStores
<1>2. ASSUME NEW x \in Mounts, SaveEnds(x) PROVE saved[e][s] = m
  <2>1. CASE saved' = [saved EXCEPT ![op[x].endpoint] = Cleared(saved[op[x].endpoint], "session")]
    BY <1>a, <1>c, <2>1
  <2> QED
    BY <1>2, <2>1 DEF SaveEnds
<1>3. ASSUME NEW n \in SignOuts, ForgetSaved(n) PROVE saved[e][s] = m
    BY <1>c, <1>3 DEF ForgetSaved
<1>4. CASE OtherProcessSignsOut
    BY <1>c, <1>4 DEF OtherProcessSignsOut
<1>5. CASE UNCHANGED saved
    BY <1>5
<1> QED
    BY <1>1, <1>2, <1>3, <1>4, <1>5
       DEF Next, MountStep, WorkerStep, SignOutStep, ForgetStep, vars, keyring, LoadGoes,
       StartMount, AskPassword, Answer, MountFails, MountSucceeds, Accept, Deliver, LoadBegins,
       LookUp, CheckFound, KeepFound, SaveLocks, SaveLeavesMemory, AskSignOut, BeginSignOut,
       Unmount, StartForgetting, EndSignOut, GiveUp, ForgetMemory, ForgetLocks, CloseWindow

\* Every step keeps the types, given that mounts that ask have a window and
\* a port.
LEMMA TypeStep == TypeOK /\ Placed /\ [Next]_vars => TypeOK'
<1> SUFFICES ASSUME TypeOK, Placed, [Next]_vars PROVE TypeOK'
    OBVIOUS
<1>a. /\ op \in [Mounts -> Operation] /\ loads \in [Mounts -> Load]
      /\ out \in [SignOuts -> SignOut] /\ memory \in [Windows -> [Endpoints -> Kept]]
      /\ saved \in [Endpoints -> [Scopes -> Accounts]] /\ generation \in Nat
      /\ saves \in [Mounts -> {"none", "queued", "storing", "stored", "clearing", "done"}]
      /\ latest \in [Endpoints -> Accounts] /\ mounted \subseteq Mounts
    BY DEF TypeOK
<1>b. \A m \in Mounts : op[m] \in Operation /\ loads[m] \in Load
    BY <1>a
<1>c. \A n \in SignOuts : out[n] \in SignOut
    BY <1>a
<1>d. \A w \in Windows, e \in Endpoints : InMemory(w, e) \in Accounts
    BY <1>a DEF InMemory, Kept, Accounts
<1>e. ASSUME NEW w, NEW e PROVE Wiped(w, e) \in [Windows -> [Endpoints -> Kept]]
    BY <1>a DEF Wiped, Kept, Nothing, Accounts
<1>f. ASSUME NEW w PROVE MemoryCleared(w) \in [Windows -> [Endpoints -> Kept]]
    BY <1>a DEF MemoryCleared, Kept, Nothing, Accounts
<1>k. Kinds \subseteq Kind
    BY ConstantsAssumption
<1>1. ASSUME NEW m \in Mounts, NEW w \in Windows, NEW e \in Endpoints, NEW k \in Kinds,
           StartMount(m, w, e, k)
      PROVE  TypeOK'
  <2>1. op' \in [Mounts -> Operation]
    <3>1. [op[m] EXCEPT !.state = "mounting", !.window = w, !.endpoint = e,
                         !.kind = k, !.generation = generation] \in Operation
      BY <1>b, <1>a, <1>k DEF Operation
    <3> QED
      BY <3>1, <1>a, <1>1 DEF StartMount
  <2> QED
    BY <2>1, <1>1 DEF StartMount, TypeOK, keyring, observed
<1>2. ASSUME NEW m \in Mounts, AskPassword(m)
      PROVE  TypeOK'
  <2>1. op' \in [Mounts -> Operation]
    <3>1. ASSUME NEW s \in {"dialog", "loading", "replied"}, NEW a \in Accounts
          PROVE  Asked(m, s, a) \in [Mounts -> Operation]
      <4>1. op[m] \in Operation /\ op[m].attempts + 1 \in Nat
        BY <1>b DEF Operation
      <4>2. [op[m] EXCEPT !.state = s, !.attempts = op[m].attempts + 1, !.account = a] \in Operation
        BY <4>1 DEF Operation
      <4> QED
        BY <4>2, <1>a DEF Asked
    <3>2. op[m].account \in Accounts /\ None \in Accounts
      BY <1>b DEF Operation, Accounts
    <3>3. op[m].attempts = 0 => InMemory(op[m].window, op[m].endpoint) \in Accounts
      BY <1>d, <1>2 DEF AskPassword, Placed
    <3> QED
      BY <3>1, <3>2, <3>3, <1>2 DEF AskPassword
  <2>2. memory' \in [Windows -> [Endpoints -> Kept]]
    BY <1>a, <1>e, <1>f, <1>2 DEF AskPassword
  <2>3. loads' \in [Mounts -> Load]
    <3>1. [loads[m] EXCEPT !.step = "queued"] \in Load
      BY <1>b, <1>a DEF Load
    <3> QED
      BY <3>1, <1>a, <1>2 DEF AskPassword, Asked
  <2> QED
    BY <2>1, <2>2, <2>3, <1>2 DEF AskPassword, TypeOK, keyring, observed
<1>3. ASSUME NEW m \in Mounts, Answer(m)
      PROVE  TypeOK'
  <2>1. op' \in [Mounts -> Operation]
    <3>1. \A s \in Scopes : [op[m] EXCEPT !.state = "replied", !.account = m,
                         !.scope = s, !.entered = TRUE] \in Operation
      BY <1>b, <1>a DEF Operation, Accounts
    <3>2. [op[m] EXCEPT !.state = "replied", !.account = None] \in Operation
      BY <1>b, <1>a DEF Operation, Accounts
    <3> QED
      BY <3>1, <3>2, <1>a, <1>3 DEF Answer
  <2> QED
    BY <2>1, <1>3 DEF Answer, TypeOK, keyring, observed
<1>4. ASSUME NEW m \in Mounts, MountFails(m)
      PROVE  TypeOK'
  <2>1. op' \in [Mounts -> Operation]
    <3>1. [op[m] EXCEPT !.state = "ended"] \in Operation
      BY <1>b, <1>a DEF Operation
    <3> QED
      BY <3>1, <1>a, <1>4 DEF MountFails
  <2> QED
    BY <2>1, <1>4 DEF MountFails, TypeOK, keyring, observed
<1>5. ASSUME NEW m \in Mounts, MountSucceeds(m)
      PROVE  TypeOK'
  <2>1. mounted' \in SUBSET Mounts
    BY <1>a, <1>5 DEF MountSucceeds
  <2>2. op' \in [Mounts -> Operation]
    <3>1. [op[m] EXCEPT !.state = "ended"] \in Operation
      BY <1>b, <1>a DEF Operation
    <3> QED
      BY <3>1, <1>a, <1>5 DEF MountSucceeds
  <2>3. main' \in Accounts
    BY <1>a, <1>5 DEF MountSucceeds, TypeOK, Accounts
  <2> QED
    BY <2>1, <2>2, <2>3, <1>5 DEF MountSucceeds, TypeOK, keyring, observed
<1>6. ASSUME NEW m \in Mounts, Accept(m)
      PROVE  TypeOK'
  <2>1. main' \in Accounts
    BY <1>a, <1>6 DEF Accept, TypeOK, Accounts
  <2>2. memory' \in [Windows -> [Endpoints -> Kept]]
    <3>1. [account |-> op[m].account, generation |-> generation] \in Kept
      BY <1>a, <1>b DEF Operation, Load, Kept
    <3> QED
      BY <3>1, <1>a, <1>6 DEF Accept
  <2>3. saves' \in [Mounts -> {"none", "queued", "storing", "stored", "clearing", "done"}]
    BY <1>a, <1>6 DEF Accept
  <2> QED
    BY <2>1, <2>2, <2>3, <1>6 DEF Accept, TypeOK, keyring, observed
<1>7. ASSUME NEW m \in Mounts, Deliver(m)
      PROVE  TypeOK'
  <2>1. loads' \in [Mounts -> Load]
    <3>1. NewLoad \in Load
      BY <1>b, <1>a DEF Load, NewLoad, Accounts
    <3> QED
      BY <3>1, <1>a, <1>7 DEF Deliver
  <2>2. op' \in [Mounts -> Operation]
    <3>1. \A s \in {"replied", "dialog"} :
             [op[m] EXCEPT !.state = s, !.account = loads[m].found] \in Operation
      BY <1>b, <1>a DEF Operation, Load
    <3> QED
      BY <3>1, <1>a, <1>7 DEF Deliver
  <2> QED
    BY <2>1, <2>2, <1>7 DEF Deliver, TypeOK, keyring, observed
<1>8. ASSUME NEW m \in Mounts, LoadBegins(m)
      PROVE  TypeOK'
  <2>1. loads' \in [Mounts -> Load]
    <3>1. \A s \in {"loaded", "session"} :
             [step |-> s, generation |-> generation,
              found |-> InMemory(op[m].window, op[m].endpoint)] \in Load
      BY <1>b, <1>a, <1>8, <1>d DEF Load, Placed, LoadBegins, Scopes
    <3> QED
      BY <3>1, <1>a, <1>8 DEF LoadBegins, LoadGoes
  <2>2. memory' \in [Windows -> [Endpoints -> Kept]]
    BY <1>a, <1>e, <1>f, <1>8 DEF LoadBegins
  <2> QED
    BY <2>1, <2>2, <1>8 DEF LoadBegins, LoadGoes, TypeOK, keyring, observed
<1>9. ASSUME NEW m \in Mounts, LookUp(m)
      PROVE  TypeOK'
  <2>1. loads' \in [Mounts -> Load]
    <3>0. saved[op[m].endpoint][loads[m].step] \in Accounts
      <4>1. op[m].endpoint \in Endpoints /\ loads[m].step \in Scopes
        BY <1>9 DEF LookUp, Placed, Scopes
      <4> QED
        BY <4>1, <1>a
    <3>1. \A s \in {"sessionFound", "permanentFound", "permanent", "loaded"} :
             [loads[m] EXCEPT !.step = s, !.found = saved[op[m].endpoint][loads[m].step]] \in Load
      BY <3>0, <1>b DEF Load
    <3>2. [loads[m] EXCEPT !.step = "loaded", !.found = None] \in Load
      BY <1>b, <1>a DEF Load, Accounts
    <3> QED
      BY <3>1, <3>2, <1>a, <1>9 DEF LookUp, LoadGoes, Scopes
  <2> QED
    BY <2>1, <1>9 DEF LookUp, LoadGoes, TypeOK, keyring, observed
<1>10. ASSUME NEW m \in Mounts, CheckFound(m)
      PROVE  TypeOK'
  <2>1. loads' \in [Mounts -> Load]
    <3>1. [loads[m] EXCEPT !.step = "keep"] \in Load
      BY <1>b, <1>a DEF Load
    <3>2. \A s \in {"permanent", "loaded"} : [loads[m] EXCEPT !.step = s, !.found = None] \in Load
      BY <1>b, <1>a DEF Load, Accounts
    <3> QED
      BY <3>1, <3>2, <1>a, <1>10 DEF CheckFound, LoadGoes
  <2> QED
    BY <2>1, <1>10 DEF CheckFound, LoadGoes, TypeOK, keyring, observed
<1>11. ASSUME NEW m \in Mounts, KeepFound(m)
      PROVE  TypeOK'
  <2>1. memory' \in [Windows -> [Endpoints -> Kept]]
    <3>1. [account |-> loads[m].found, generation |-> loads[m].generation] \in Kept
      BY <1>a, <1>b DEF Operation, Load, Kept
    <3> QED
      BY <3>1, <1>a, <1>11 DEF KeepFound
  <2>2. loads' \in [Mounts -> Load]
    <3>1. [loads[m] EXCEPT !.step = "loaded"] \in Load
      BY <1>b, <1>a DEF Load
    <3> QED
      BY <3>1, <1>a, <1>11 DEF KeepFound, LoadGoes
  <2> QED
    BY <2>1, <2>2, <1>11 DEF KeepFound, LoadGoes, TypeOK, keyring, observed
<1>12. ASSUME NEW m \in Mounts, SaveLocks(m)
      PROVE  TypeOK'
  <2>1. lock' \in Accounts \cup SignOuts
    BY <1>a, <1>12 DEF SaveLocks, TypeOK, Accounts
  <2>2. saves' \in [Mounts -> {"none", "queued", "storing", "stored", "clearing", "done"}]
    BY <1>a, <1>12 DEF SaveLocks
  <2> QED
    BY <2>1, <2>2, <1>12 DEF SaveLocks, TypeOK, keyring, observed
<1>13. ASSUME NEW m \in Mounts, SaveStores(m)
      PROVE  TypeOK'
  <2>1. saved' \in [Endpoints -> [Scopes -> Accounts]]
    <3>1. m \in Accounts
      BY DEF Accounts
    <3>2. \A e \in Endpoints : \A s : [saved[e] EXCEPT ![s] = m] \in [Scopes -> Accounts]
      BY <3>1, <1>a
    <3>3. [saved EXCEPT ![op[m].endpoint] = [saved[op[m].endpoint] EXCEPT ![op[m].scope] = m]]
             \in [Endpoints -> [Scopes -> Accounts]]
      BY <3>2, <1>a
    <3> QED
      BY <3>3, <1>a, <1>13 DEF SaveStores
  <2>2. saves' \in [Mounts -> {"none", "queued", "storing", "stored", "clearing", "done"}]
    BY <1>a, <1>13 DEF SaveStores
  <2>3. lock' \in Accounts \cup SignOuts
    BY <1>a, <1>13 DEF SaveStores, TypeOK, Accounts
  <2> QED
    BY <2>1, <2>2, <2>3, <1>13 DEF SaveStores, TypeOK, keyring, observed
<1>14. ASSUME NEW m \in Mounts, SaveLeavesMemory(m)
      PROVE  TypeOK'
  <2>1. memory' \in [Windows -> [Endpoints -> Kept]]
    BY <1>a, <1>14 DEF SaveLeavesMemory, Kept, Nothing, Accounts
  <2>2. saves' \in [Mounts -> {"none", "queued", "storing", "stored", "clearing", "done"}]
    BY <1>a, <1>14 DEF SaveLeavesMemory
  <2> QED
    BY <2>1, <2>2, <1>14 DEF SaveLeavesMemory, TypeOK, keyring, observed
<1>15. ASSUME NEW m \in Mounts, SaveEnds(m)
      PROVE  TypeOK'
  <2>1. saved' \in [Endpoints -> [Scopes -> Accounts]]
    BY <1>a, <1>15 DEF SaveEnds, Cleared, Accounts, Scopes
  <2>2. latest' \in [Endpoints -> Accounts]
    BY <1>a, <1>15 DEF SaveEnds, Preferred, Cleared, Accounts, Scopes
  <2>3. saves' \in [Mounts -> {"none", "queued", "storing", "stored", "clearing", "done"}]
    BY <1>a, <1>15 DEF SaveEnds
  <2>4. lock' \in Accounts \cup SignOuts
    BY <1>a, <1>15 DEF SaveEnds, TypeOK, Accounts
  <2> QED
    BY <2>1, <2>2, <2>3, <2>4, <1>15 DEF SaveEnds, TypeOK, keyring, observed
<1>16. ASSUME NEW n \in SignOuts, NEW w \in Windows, NEW f \in Forgets, AskSignOut(n, w, f)
      PROVE  TypeOK'
  <2>1. out' \in [SignOuts -> SignOut]
    <3>1. [out[n] EXCEPT !.state = "asked", !.window = w, !.forget = f,
                        !.mounts = mounted] \in SignOut
      BY <1>c, <1>a DEF SignOut
    <3> QED
      BY <3>1, <1>a, <1>16 DEF AskSignOut
  <2> QED
    BY <2>1, <1>16 DEF AskSignOut, TypeOK, keyring, observed
<1>17. ASSUME NEW n \in SignOuts, BeginSignOut(n)
      PROVE  TypeOK'
  <2>1. generation' \in Nat
    BY <1>a, <1>17 DEF BeginSignOut
  <2>2. memory' \in [Windows -> [Endpoints -> Kept]]
    BY <1>a, <1>e, <1>f, <1>17 DEF BeginSignOut
  <2>3. out' \in [SignOuts -> SignOut]
    <3>1. [out[n] EXCEPT !.state = "ended"] \in SignOut
      BY <1>c, <1>a DEF SignOut
    <3>2. [[out[n] EXCEPT !.state = "unmounting"] EXCEPT !.known = Typed] \in SignOut
      BY <1>c, <1>a DEF SignOut, Typed
    <3> QED
      BY <3>1, <3>2, <1>a, <1>17 DEF BeginSignOut
  <2>4. op' \in [Mounts -> Operation]
    <3>1. \A m \in Mounts : [op[m] EXCEPT !.state = "ended"] \in Operation
      BY <1>b DEF Operation
    <3> QED
      BY <3>1, <1>a, <1>b, <1>17 DEF BeginSignOut, StopListings
  <2> QED
    BY <2>1, <2>2, <2>3, <2>4, <1>17 DEF BeginSignOut, TypeOK, keyring, observed
<1>18. ASSUME NEW n \in SignOuts, Unmount(n) \/ StartForgetting(n)
      PROVE  TypeOK'
  <2>1. mounted' \in SUBSET Mounts
    BY <1>a, <1>18 DEF Unmount, StartForgetting
  <2>2. out' \in [SignOuts -> SignOut]
    <3>1. ASSUME NEW r \in SignOut PROVE [out EXCEPT ![n] = r] \in [SignOuts -> SignOut]
      BY <1>a
    <3>2. ASSUME NEW x \in Mounts, out' = [out EXCEPT ![n].mounts = out[n].mounts \ {x}]
          PROVE  out' \in [SignOuts -> SignOut]
      <4>1. [out[n] EXCEPT !.mounts = out[n].mounts \ {x}] \in SignOut
        BY <1>c DEF SignOut
      <4> QED
        BY <3>1, <3>2, <4>1
    <3>3. CASE out' = [out EXCEPT ![n].state = "ended"]
      <4>1. [out[n] EXCEPT !.state = "ended"] \in SignOut
        BY <1>c DEF SignOut
      <4> QED
        BY <3>1, <3>3, <4>1
    <3>4. CASE out' = [out EXCEPT ![n].state = "forgetting", ![n].worker = "queued"]
      <4>1. [[out[n] EXCEPT !.state = "forgetting"] EXCEPT !.worker = "queued"] \in SignOut
        BY <1>c DEF SignOut
      <4> QED
        BY <1>a, <3>4, <4>1
    <3>5. out[n].mounts \subseteq Mounts
      BY <1>c DEF SignOut
    <3> QED
      BY <3>2, <3>3, <3>4, <3>5, <1>18 DEF Unmount, StartForgetting
  <2> QED
    BY <2>1, <2>2, <1>18 DEF Unmount, StartForgetting, TypeOK, keyring, observed
<1>19. ASSUME NEW n \in SignOuts, EndSignOut(n)
      PROVE  TypeOK'
  <2>1. out' \in [SignOuts -> SignOut]
    <3>1. [out[n] EXCEPT !.state = "ended"] \in SignOut
      BY <1>c, <1>a DEF SignOut
    <3> QED
      BY <3>1, <1>a, <1>19 DEF EndSignOut
  <2>2. forgotten' \in SUBSET Mounts
    BY <1>a, <1>c, <1>19 DEF EndSignOut, TypeOK, Covered, SignOut
  <2> QED
    BY <2>1, <2>2, <1>19 DEF EndSignOut, TypeOK, keyring, observed
<1>20. ASSUME NEW n \in SignOuts, GiveUp(n)
      PROVE  TypeOK'
  <2>1. out' \in [SignOuts -> SignOut]
    <3>1. [out[n] EXCEPT !.state = "ended"] \in SignOut
      BY <1>c, <1>a DEF SignOut
    <3> QED
      BY <3>1, <1>a, <1>20 DEF GiveUp
  <2> QED
    BY <2>1, <1>20 DEF GiveUp, TypeOK, keyring, observed
<1>21. ASSUME NEW n \in SignOuts, ForgetMemory(n)
      PROVE  TypeOK'
  <2>1. generation' \in Nat
    BY <1>a, <1>21 DEF ForgetMemory
  <2>2. memory' \in [Windows -> [Endpoints -> Kept]]
    BY <1>a, <1>e, <1>f, <1>21 DEF ForgetMemory
  <2>3. out' \in [SignOuts -> SignOut]
    <3>1. [out[n] EXCEPT !.worker = "waiting"] \in SignOut
      BY <1>c, <1>a DEF SignOut
    <3> QED
      BY <3>1, <1>a, <1>21 DEF ForgetMemory
  <2> QED
    BY <2>1, <2>2, <2>3, <1>21 DEF ForgetMemory, TypeOK, keyring, observed
<1>22. ASSUME NEW n \in SignOuts, ForgetLocks(n)
      PROVE  TypeOK'
  <2>1. lock' \in Accounts \cup SignOuts
    BY <1>a, <1>22 DEF ForgetLocks, TypeOK, Accounts
  <2>2. out' \in [SignOuts -> SignOut]
    <3>1. [out[n] EXCEPT !.worker = "clearing"] \in SignOut
      BY <1>c, <1>a DEF SignOut
    <3> QED
      BY <3>1, <1>a, <1>22 DEF ForgetLocks
  <2> QED
    BY <2>1, <2>2, <1>22 DEF ForgetLocks, TypeOK, keyring, observed
<1>23. ASSUME NEW n \in SignOuts, ForgetSaved(n)
      PROVE  TypeOK'
  <2>1. saved' \in [Endpoints -> [Scopes -> Accounts]]
    BY <1>a, <1>23 DEF ForgetSaved, Cleared, Accounts, Scopes
  <2>2. latest' \in [Endpoints -> Accounts]
    BY <2>1, <1>a, <1>23 DEF ForgetSaved, Preferred, Cleared, Accounts, Scopes
  <2>3. out' \in [SignOuts -> SignOut]
    <3>1. \A s \in {"done", "failed"} : [out[n] EXCEPT !.worker = s] \in SignOut
      BY <1>c, <1>a DEF SignOut
    <3> QED
      BY <3>1, <1>a, <1>23 DEF ForgetSaved
  <2>4. lock' \in Accounts \cup SignOuts
    BY <1>a, <1>23 DEF ForgetSaved, TypeOK, Accounts
  <2> QED
    BY <2>1, <2>2, <2>3, <2>4, <1>23 DEF ForgetSaved, TypeOK, keyring, observed
<1>24. ASSUME NEW w \in Windows, CloseWindow(w)
      PROVE  TypeOK'
  <2>1. closed' \in SUBSET Windows
    BY <1>a, <1>24 DEF CloseWindow, TypeOK
  <2>2. op' \in [Mounts -> Operation]
    <3>1. \A m \in Mounts : [op[m] EXCEPT !.state = "ended"] \in Operation
      BY <1>b DEF Operation
    <3> QED
      BY <3>1, <1>a, <1>b, <1>24 DEF CloseWindow
  <2>3. memory' \in [Windows -> [Endpoints -> Kept]]
    BY <1>a, <1>e, <1>f, <1>24 DEF CloseWindow
  <2> QED
    BY <2>1, <2>2, <2>3, <1>24 DEF CloseWindow, TypeOK, keyring, observed
<1>25. CASE OtherProcessSignsOut
  <2>1. saved' \in [Endpoints -> [Scopes -> Accounts]]
    BY <1>a, <1>25 DEF OtherProcessSignsOut, Cleared, Accounts, Scopes
  <2>2. latest' \in [Endpoints -> Accounts]
    BY <1>a, <1>25 DEF OtherProcessSignsOut, Preferred, Cleared, Accounts, Scopes
  <2> QED
    BY <2>1, <2>2, <1>25 DEF OtherProcessSignsOut, TypeOK, keyring, observed
<1>26. CASE UNCHANGED vars
    BY <1>26 DEF vars, TypeOK
<1> QED
    BY <1>1, <1>2, <1>3, <1>4, <1>5, <1>6, <1>7, <1>8, <1>9, <1>10, <1>11, <1>12, <1>13, <1>14,
       <1>15, <1>16, <1>17, <1>18, <1>19, <1>20, <1>21, <1>22, <1>23, <1>24, <1>25, <1>26
       DEF Next, MountStep, WorkerStep, SignOutStep, ForgetStep

(***************************************************************************)
(* What one step does to a save.                                           *)
(***************************************************************************)
LEMMA SaveMoves ==
    TypeOK /\ [Next]_vars =>
        \A m \in Mounts :
            /\ saves[m] \in {"stored", "clearing", "done"} /\ ~(main = m)
                  => saves'[m] \in {"stored", "clearing", "done"}
            /\ saves'[m] \in Writing =>
                  \/ saves[m] \in Writing
                  \/ saves[m] = "queued" /\ op[m].generation = generation
<1> SUFFICES ASSUME TypeOK, [Next]_vars, NEW x \in Mounts
             PROVE  /\ saves[x] \in {"stored", "clearing", "done"} /\ ~(main = x)
                          => saves'[x] \in {"stored", "clearing", "done"}
                    /\ saves'[x] \in Writing =>
                          \/ saves[x] \in Writing
                          \/ saves[x] = "queued" /\ op[x].generation = generation
    OBVIOUS
<1>a. saves \in [Mounts -> {"none", "queued", "storing", "stored", "clearing", "done"}]
    BY DEF TypeOK
<1>1. CASE saves'[x] = saves[x]
    BY <1>1
<1>2. ASSUME NEW m \in Mounts,
             \/ Accept(m) \/ SaveLocks(m) \/ SaveStores(m) \/ SaveLeavesMemory(m) \/ SaveEnds(m)
      PROVE  m = x \/ saves'[x] = saves[x]
    BY <1>a, <1>2 DEF Accept, SaveLocks, SaveStores, SaveLeavesMemory, SaveEnds
<1>3. CASE Accept(x)
    BY <1>a, <1>3 DEF Accept, Writing
<1>4. CASE SaveLocks(x)
    BY <1>a, <1>4 DEF SaveLocks, Writing
<1>5. CASE SaveStores(x)
    BY <1>a, <1>5 DEF SaveStores, Writing
<1>6. CASE SaveLeavesMemory(x)
    BY <1>a, <1>6 DEF SaveLeavesMemory, Writing
<1>7. CASE SaveEnds(x)
    BY <1>a, <1>7 DEF SaveEnds, Writing
<1> QED
    BY <1>1, <1>2, <1>3, <1>4, <1>5, <1>6, <1>7
       DEF Next, MountStep, WorkerStep, SignOutStep, ForgetStep, vars, LoadGoes, StartMount,
       AskPassword, Answer, MountFails, MountSucceeds, Deliver, LoadBegins, LookUp,
       CheckFound, KeepFound, AskSignOut, BeginSignOut, Unmount, StartForgetting, EndSignOut,
       GiveUp, ForgetMemory, ForgetLocks, ForgetSaved, CloseWindow, OtherProcessSignsOut

\* An entry keeps the scope of its account, whose mount is over.
LEMMA SavedByStep == TypeOK /\ Settled /\ SavedBy /\ [Next]_vars => SavedBy'
<1> SUFFICES ASSUME TypeOK, Settled, SavedBy, [Next]_vars,
                    NEW m \in Mounts, NEW e \in Endpoints, NEW s \in Scopes, saved'[e][s] = m
             PROVE  saves'[m] \in {"stored", "clearing", "done"} /\ op'[m].scope = s
    BY DEF SavedBy
<1>1. CASE saved[e][s] = m
  <2>1. saves[m] \in {"stored", "clearing", "done"} /\ op[m].scope = s
    BY <1>1 DEF SavedBy
  <2>2. op[m].state = "ended" /\ ~(main = m)
    BY <2>1 DEF Settled
  <2> QED
    BY <2>1, <2>2, MountMoves, SaveMoves DEF Moved
<1>2. CASE saves'[m] = "stored" /\ op[m].scope = s /\ UNCHANGED op
    BY <1>2
<1> QED
    BY <1>1, <1>2, EntryMoves

\* Only a sign-out that has unmounted everything starts its worker.
LEMMA BegunStep == TypeOK /\ Begun /\ [Next]_vars => Begun'
BY SignOutMoves DEF Begun, SignOutMoved

\* An old mount that is not in the keyring will never be: its save has not
\* begun to write, and will be dropped.
LEMMA GoneForGood ==
    TypeOK /\ [Next]_vars => \A m \in Mounts : Old(m) /\ Gone(m) => Old(m)' /\ Gone(m)'
<1> SUFFICES ASSUME TypeOK, [Next]_vars, NEW m \in Mounts, Old(m), Gone(m)
             PROVE  Old(m)' /\ Gone(m)'
    OBVIOUS
<1>a. op[m].generation \in Nat /\ generation \in Nat
    BY DEF TypeOK, Operation
<1>1. Old(m)'
    BY <1>a, MountMoves, GenerationGrows DEF Old, Moved
<1>2. saves'[m] \notin Writing
    BY <1>a, SaveMoves DEF Old, Gone
<1>3. \A e \in Endpoints, s \in Scopes : saved'[e][s] # m
    BY EntryMoves DEF Gone, Writing
<1> QED
    BY <1>1, <1>2, <1>3 DEF Gone

\* A sign-out comes to know of the accounts typed so far, whose mounts are
\* older than the generation it begins.
LEMMA KnownOldStep == TypeOK /\ Begun /\ Aged /\ KnownOld /\ [Next]_vars => KnownOld'
<1> SUFFICES ASSUME TypeOK, Begun, Aged, KnownOld, [Next]_vars,
                    NEW n \in SignOuts, NEW m \in out'[n].known
             PROVE  Old(m)'
    BY DEF KnownOld
<1>a. out[n].known \subseteq Mounts /\ generation \in Nat
    BY DEF TypeOK, SignOut
<1>b. \A x \in Mounts : op[x].generation \in Nat
    BY DEF TypeOK, Operation
<1>1. CASE m \in out[n].known
    BY <1>1, <1>a, <1>b, MountMoves, GenerationGrows DEF KnownOld, Old, Moved
<1>2. CASE m \in Typed /\ generation' = generation + 1
    BY <1>2, <1>a, <1>b, MountMoves DEF Typed, Aged, Old, Moved
<1> QED
    BY <1>1, <1>2, SignOutMoves DEF SignOutMoved

\* What the worker clears is gone: it holds the lock, so no save is writing.
\* What it cleared stays gone, and an account that takes its scope only now
\* has not been saved.
LEMMA ClearedGoneStep == Inv /\ [Next]_vars => ClearedGone'
<1> SUFFICES ASSUME Inv, [Next]_vars, NEW n \in SignOuts, out'[n].worker = "done",
                    NEW m \in out'[n].known, out'[n].forget = "all" \/ op'[m].scope = "session"
             PROVE  Gone(m)'
    BY DEF ClearedGone
<1>a. /\ TypeOK /\ LockHeld /\ Settled /\ SavedBy /\ Begun /\ KnownOld /\ ClearedGone
      /\ SignOutMoved(n)
    BY SignOutMoves DEF Inv
<1>b. out[n].worker # "none" /\ out[n].state \in {"forgetting", "ended"}
    BY <1>a DEF SignOutMoved, Begun
<1>c. m \in out[n].known /\ out'[n].forget = out[n].forget /\ m \in Mounts
    BY <1>a, <1>b DEF SignOutMoved, TypeOK, SignOut
<1>1. CASE out[n].worker = "done"
  <2>1. CASE out[n].forget = "all" \/ op[m].scope = "session"
    BY <1>1, <1>a, <1>c, <2>1, GoneForGood DEF ClearedGone, KnownOld
  <2>2. CASE op'[m].scope # op[m].scope
    <3>1. op[m].state = "dialog"
      BY <1>a, <1>c, <2>2, MountMoves DEF Moved
    <3>2. Gone(m)
      BY <1>a, <1>c, <3>1 DEF Settled, SavedBy, Gone, Writing
    <3> QED
      BY <1>a, <1>c, <3>2, GoneForGood DEF KnownOld
  <2> QED
    BY <1>c, <2>1, <2>2
<1>2. CASE /\ out[n].worker = "clearing"
           /\ saved' = [e \in Endpoints |-> Cleared(saved[e], out[n].forget)]
           /\ UNCHANGED <<op, saves>>
  <2>1. saves'[m] \notin Writing
    BY <1>a, <1>c, <1>2, ConstantsAssumption DEF LockHeld
  <2>2. ASSUME NEW e \in Endpoints, NEW s \in Scopes PROVE saved'[e][s] # m
    <3>1. saved'[e][s] = IF out[n].forget = "all" \/ s = "session" THEN None ELSE saved[e][s]
      BY <1>2 DEF Cleared
    <3>2. m # None
      BY <1>c, ConstantsAssumption
    <3>3. out[n].forget = "all" \/ op[m].scope = "session"
      BY <1>c, <1>2
    <3> QED
      BY <1>a, <1>c, <3>1, <3>2, <3>3 DEF SavedBy
  <2> QED
    BY <2>1, <2>2 DEF Gone
<1> QED
    BY <1>1, <1>2, <1>a DEF SignOutMoved

\* A sign-out reports what its worker cleared, and that is gone for good.
LEMMA ForgottenGoneStep == Inv /\ [Next]_vars => ForgottenGone'
<1> SUFFICES ASSUME Inv, [Next]_vars, NEW m \in forgotten' PROVE Old(m)' /\ Gone(m)'
    BY DEF ForgottenGone
<1>a. TypeOK /\ KnownOld /\ ClearedGone /\ ForgottenGone
    BY DEF Inv
<1>b. forgotten \subseteq Mounts /\ \A n \in SignOuts : out[n].known \subseteq Mounts
    BY <1>a DEF TypeOK, SignOut
<1>1. m \in forgotten \/ \E n \in SignOuts : out[n].worker = "done" /\ m \in Covered(out[n])
    BY DEF Next, MountStep, WorkerStep, SignOutStep, ForgetStep, vars, observed, LoadGoes,
       StartMount, AskPassword, Answer, MountFails, MountSucceeds, Accept, Deliver,
       LoadBegins, LookUp, CheckFound, KeepFound, SaveLocks, SaveStores, SaveLeavesMemory,
       SaveEnds, AskSignOut, BeginSignOut, Unmount, StartForgetting, EndSignOut, GiveUp,
       ForgetMemory, ForgetLocks, ForgetSaved, CloseWindow, OtherProcessSignsOut
<1>2. m \in Mounts /\ Old(m) /\ Gone(m)
    BY <1>1, <1>a, <1>b DEF ForgottenGone, Covered, ClearedGone, KnownOld
<1> QED
    BY <1>2, <1>a, GoneForGood

\* The invariant is inductive.
LEMMA InvStep == Inv /\ [Next]_vars => Inv'
BY TypeStep, PlacedStep, LockHeldStep, AgedStep, SettledStep, SavedByStep, BegunStep,
   KnownOldStep, ClearedGoneStep, ForgottenGoneStep DEF Inv

-----------------------------------------------------------------------------

\* The invariant holds in every run.
LEMMA InvHolds == Spec => []Inv
BY InitInv, InvStep, PTL DEF Spec

\* Every variable keeps its type: a save and a worker are in no state the
\* code does not have, and the lock has one holder (session_credentials.rs).
THEOREM TypeCorrect == Spec => []TypeOK
<1>1. Inv => TypeOK
    BY DEF Inv
<1> QED
    BY InvHolds, <1>1, PTL

\* SAFE-012 "a password never reappears after sign-out", in the keyring: no
\* save, however late, writes an account a finished sign-out forgot.
THEOREM ForgottenStaysForgotten == Spec => []ForgottenNeverSaved
<1>1. Inv => ForgottenNeverSaved
    BY DEF Inv, ForgottenGone, Gone, ForgottenNeverSaved
<1> QED
    BY InvHolds, <1>1, PTL

=============================================================================
