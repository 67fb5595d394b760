----------------------------- MODULE Credentials -----------------------------
(***************************************************************************)
(* Signing in to and out of one SMB server.  Every window mounts shares    *)
(* through its own prompts (network/prompts/) and keeps the accounts it    *)
(* accepted in its own memory; the keyring, the sign-out generation and    *)
(* the lock around keyring writes are shared (network/credential_store.rs, *)
(* session_credentials.rs).  A sign-out (network/sign_out.rs) unmounts the *)
(* server and forgets its accounts.                                        *)
(*                                                                         *)
(* The windows run on one main thread; keyring calls run on workers that   *)
(* may be delayed without limit.  An account is named after the mount it   *)
(* was typed in for.  The endpoints are the ports of one host: everything  *)
(* here is keyed by host or endpoint, so two hosts never meet.             *)
(***************************************************************************)
EXTENDS Integers

CONSTANTS
    Windows,
    Endpoints,      \* the ports of the server
    Mounts,         \* bound: the mounts asked for, each of its own share
    SignOuts,       \* bound: the sign-outs asked for
    Kinds,          \* what asks for the mounts
    MaxAttempts,    \* bound: times a mount asks for a password
    KeyringFails,   \* a keyring call may fail
    DeadlinePasses, \* deleting the saved accounts may take longer than KEYRING_DEADLINE
    ClearOverlaps,  \* other threads run while a sign-out's worker forgets
    OtherProcesses  \* another process may sign out of the server

None == "none"
Kind == {"list", "map", "mapAs", "read"}
Scopes == {"session", "permanent"}

ASSUME ConstantsAssumption ==
    /\ None \notin Mounts \cup SignOuts \cup Windows \cup Endpoints
    /\ Mounts \cap SignOuts = {}
    /\ Kinds \subseteq Kind
    /\ MaxAttempts \in Nat
    /\ KeyringFails \in BOOLEAN /\ DeadlinePasses \in BOOLEAN
    /\ ClearOverlaps \in BOOLEAN /\ OtherProcesses \in BOOLEAN

VARIABLES
    generation, \* how often the server was signed out of
    saved,      \* the keyring: the account saved at each endpoint in each scope
    lock,       \* who holds the server's lock: the save of a mount, a sign-out
    memory,     \* each window's kept accounts, and the generation they were kept under
    op,         \* the mounts in progress and ended
    main,       \* the mount whose account the main thread is accepting, or None
    loads,      \* the worker looking a mount's account up in the keyring
    saves,      \* the worker saving a mount's account in the keyring
    out,        \* the sign-outs and their workers
    mounted,    \* the shares that are mounted
    closed,     \* the windows that are closed
    forgotten,  \* the accounts a finished sign-out forgot
    latest      \* the account whose save at each endpoint ended last

vars == <<generation, saved, lock, memory, op, main, loads, saves, out,
          mounted, closed, forgotten, latest>>
keyring == <<saved, lock>>
observed == <<forgotten, latest>>

Accounts == Mounts \cup {None}
Forgets == {"all", "session"}
Nothing == [account |-> None, generation |-> 0]

NewOp == [state |-> "new", window |-> None, endpoint |-> None, kind |-> None,
          generation |-> 0, attempts |-> 0, account |-> None, scope |-> None, entered |-> FALSE]
NewSignOut == [state |-> "new", window |-> None, forget |-> None, mounts |-> {},
               worker |-> "none", known |-> {}]
NewLoad == [step |-> "none", generation |-> 0, found |-> None]

Init ==
    /\ generation = 0
    /\ saved = [e \in Endpoints |-> [s \in Scopes |-> None]]
    /\ lock = None
    /\ memory = [w \in Windows |-> [e \in Endpoints |-> Nothing]]
    /\ op = [m \in Mounts |-> NewOp]
    /\ main = None
    /\ loads = [m \in Mounts |-> NewLoad]
    /\ saves = [m \in Mounts |-> "none"]
    /\ out = [n \in SignOuts |-> NewSignOut]
    /\ mounted = {}
    /\ closed = {}
    /\ forgotten = {}
    /\ latest = [e \in Endpoints |-> None]

-----------------------------------------------------------------------------
(* What the code reads.                                                    *)

\* The marks of the SignOutRegistry: one sign-out of a host at a time.
Running == {n \in SignOuts : out[n].state \in {"unmounting", "forgetting"}}
SigningOut == Running # {}

InFlight(m) == op[m].state \in {"mounting", "loading", "dialog", "replied"}

\* current_in_memory: an account kept under an older generation is wiped.
InMemory(w, e) ==
    IF memory[w][e].generation = generation THEN memory[w][e].account ELSE None
Wiped(w, e) ==
    [memory EXCEPT ![w][e] = IF @.generation = generation THEN @ ELSE Nothing]
MemoryCleared(w) == [memory EXCEPT ![w] = [e \in Endpoints |-> Nothing]]

\* A session entry wins over a permanent one.
Preferred(entries) ==
    IF entries["session"] # None THEN entries["session"] ELSE entries["permanent"]

Cleared(entries, forget) ==
    [s \in Scopes |-> IF forget = "all" \/ s = "session" THEN None ELSE entries[s]]

\* The accounts typed into a dialog so far.
Typed == {m \in Mounts : op[m].entered}

\* The accounts the sign-out o promises to forget.
Covered(o) == {m \in o.known : o.forget = "all" \/ op[m].scope = "session"}

Forgetting == \E n \in SignOuts : out[n].worker \in {"waiting", "clearing"}

-----------------------------------------------------------------------------
(* A mount, from the request to the account it leaves behind.              *)

\* A listing and Map network drive check the registry first; a read that
\* mounts its share does not (window/mount_first.rs).
StartMount(m, w, e, k) ==
    /\ main = None /\ op[m].state = "new" /\ w \notin closed
    /\ k = "read" \/ ~SigningOut
    /\ op' = [op EXCEPT ![m] = [@ EXCEPT !.state = "mounting", !.window = w, !.endpoint = e,
                                         !.kind = k, !.generation = generation]]
    /\ UNCHANGED <<generation, keyring, memory, main, loads, saves, out, mounted, closed, observed>>

Asked(m, s, account) ==
    [op EXCEPT ![m] = [@ EXCEPT !.state = s, !.attempts = op[m].attempts + 1,
                         !.account = account]]

\* GVfs asks for a password: a known account answers the first request,
\* unless the user wants another one; after a rejection the dialog does.
AskPassword(m) ==
    /\ main = None /\ op[m].state \in {"mounting", "replied"} /\ op[m].attempts < MaxAttempts
    /\ \/ /\ op[m].attempts > 0 \/ op[m].kind = "mapAs"
          /\ op' = Asked(m, "dialog", op[m].account)
          /\ UNCHANGED <<memory, loads>>
       \/ /\ op[m].attempts = 0 /\ op[m].kind # "mapAs"
          /\ memory' = Wiped(op[m].window, op[m].endpoint)
          /\ LET known == InMemory(op[m].window, op[m].endpoint)
             IN  \/ /\ known # None
                    /\ op' = Asked(m, "replied", known)
                    /\ UNCHANGED loads
                 \/ /\ known = None
                    /\ op' = Asked(m, "loading", None)
                    /\ loads' = [loads EXCEPT ![m].step = "queued"]
    /\ UNCHANGED <<generation, keyring, main, saves, out, mounted, closed, observed>>

\* The user signs in with an account to keep for the session or for good,
\* or as a guest, which keeps no account.
Answer(m) ==
    /\ main = None /\ op[m].state = "dialog"
    /\ \/ \E s \in Scopes :
            op' = [op EXCEPT ![m] = [@ EXCEPT !.state = "replied", !.account = m,
                                              !.scope = s, !.entered = TRUE]]
       \/ op' = [op EXCEPT ![m] = [@ EXCEPT !.state = "replied", !.account = None]]
    /\ UNCHANGED <<generation, keyring, memory, main, loads, saves, out, mounted, closed, observed>>

\* The mount is refused, its challenge is cancelled or expires, or its
\* future is dropped: nothing of it is kept.
MountFails(m) ==
    /\ main = None /\ InFlight(m)
    /\ op' = [op EXCEPT ![m].state = "ended"]
    /\ UNCHANGED <<generation, keyring, memory, main, loads, saves, out, mounted, closed, observed>>

\* The share is mounted; its account is kept unless the server was signed
\* out of since the mount started.
MountSucceeds(m) ==
    /\ main = None /\ op[m].state \in {"mounting", "replied"}
    /\ mounted' = mounted \cup {m}
    /\ op' = [op EXCEPT ![m].state = "ended"]
    /\ main' = IF op[m].account # None /\ op[m].generation = generation THEN m ELSE None
    /\ UNCHANGED <<generation, keyring, memory, loads, saves, out, closed, observed>>

\* accept_memory, under the generation of now; a typed account is saved
\* by a worker.
Accept(m) ==
    /\ main = m
    /\ main' = None
    /\ memory' = [memory EXCEPT ![op[m].window][op[m].endpoint] =
                    [account |-> op[m].account, generation |-> generation]]
    /\ saves' = [saves EXCEPT ![m] = IF op[m].account = m THEN "queued" ELSE @]
    /\ UNCHANGED <<generation, keyring, op, loads, out, mounted, closed, observed>>

-----------------------------------------------------------------------------
(* The worker of SessionCredentials::load.                                 *)

LoadGoes(m, l) ==
    /\ loads' = [loads EXCEPT ![m] = l]
    /\ UNCHANGED <<generation, keyring, op, main, saves, out, mounted, closed, observed>>

LoadBegins(m) ==
    /\ loads[m].step = "queued"
    /\ ClearOverlaps \/ ~Forgetting
    /\ LET known == InMemory(op[m].window, op[m].endpoint)
       IN  LoadGoes(m, [step |-> IF known # None THEN "loaded" ELSE "session",
                        generation |-> generation, found |-> known])
    /\ memory' = Wiped(op[m].window, op[m].endpoint)

\* One lookup in the keyring; a failing one ends the load.
LookUp(m) ==
    /\ loads[m].step \in Scopes
    /\ \/ LET entry == saved[op[m].endpoint][loads[m].step]
              next == IF entry # None
                      THEN IF loads[m].step = "session" THEN "sessionFound" ELSE "permanentFound"
                      ELSE IF loads[m].step = "session" THEN "permanent" ELSE "loaded"
          IN  LoadGoes(m, [loads[m] EXCEPT !.step = next, !.found = entry])
       \/ KeyringFails /\ LoadGoes(m, [loads[m] EXCEPT !.step = "loaded", !.found = None])
    /\ UNCHANGED memory

\* An account found by a lookup that raced a sign-out is passed over.
CheckFound(m) ==
    /\ loads[m].step \in {"sessionFound", "permanentFound"}
    /\ \/ /\ loads[m].generation = generation
          /\ LoadGoes(m, [loads[m] EXCEPT !.step = "keep"])
       \/ /\ loads[m].generation # generation
          /\ LoadGoes(m, [loads[m] EXCEPT
                !.step = IF @ = "sessionFound" THEN "permanent" ELSE "loaded", !.found = None])
    /\ UNCHANGED memory

KeepFound(m) ==
    /\ loads[m].step = "keep"
    /\ memory' = [memory EXCEPT ![op[m].window][op[m].endpoint] =
                    [account |-> loads[m].found, generation |-> loads[m].generation]]
    /\ LoadGoes(m, [loads[m] EXCEPT !.step = "loaded"])

\* The main thread hears of it: the mount may be over by now.
Deliver(m) ==
    /\ main = None /\ loads[m].step = "loaded"
    /\ loads' = [loads EXCEPT ![m] = NewLoad]
    /\ op' = IF op[m].state # "loading" THEN op
             ELSE [op EXCEPT ![m] = [@ EXCEPT
                    !.state = IF loads[m].found # None THEN "replied" ELSE "dialog",
                    !.account = loads[m].found]]
    /\ UNCHANGED <<generation, keyring, memory, main, saves, out, mounted, closed, observed>>

-----------------------------------------------------------------------------
(* The worker of SessionCredentials::persist.                              *)

\* Mutants: a lock for each port; a save that no longer looks at the
\* generation.
SaveLocksPort(m) ==
    /\ saves[m] = "queued" /\ lock = None
    /\ lock' = op[m].endpoint
    /\ saves' = [saves EXCEPT ![m] = "storing"]
    /\ UNCHANGED <<generation, saved, memory, op, main, loads, out, mounted, closed, observed>>

SaveLocksBlindly(m) ==
    /\ saves[m] = "queued" /\ lock = None
    /\ lock' = m
    /\ saves' = [saves EXCEPT ![m] = "storing"]
    /\ UNCHANGED <<generation, saved, memory, op, main, loads, out, mounted, closed, observed>>

\* Under the server's lock, a save that started before a sign-out is
\* dropped.
SaveLocks(m) ==
    /\ saves[m] = "queued" /\ lock = None
    /\ \/ /\ op[m].generation = generation
          /\ lock' = m
          /\ saves' = [saves EXCEPT ![m] = "storing"]
       \/ /\ op[m].generation # generation
          /\ saves' = [saves EXCEPT ![m] = "done"]
          /\ UNCHANGED lock
    /\ UNCHANGED <<generation, saved, memory, op, main, loads, out, mounted, closed, observed>>

SaveStores(m) ==
    /\ saves[m] = "storing"
    /\ \/ /\ saved' = [saved EXCEPT ![op[m].endpoint][op[m].scope] = m]
          /\ saves' = [saves EXCEPT ![m] = "stored"]
          /\ UNCHANGED lock
       \/ /\ KeyringFails
          /\ saves' = [saves EXCEPT ![m] = "done"]
          /\ lock' = None
          /\ UNCHANGED saved
    /\ UNCHANGED <<generation, memory, op, main, loads, out, mounted, closed, observed>>

\* Memory lets go of the account it saved, whatever its generation.
SaveLeavesMemory(m) ==
    /\ saves[m] = "stored"
    /\ memory' = [memory EXCEPT ![op[m].window][op[m].endpoint] =
                    IF @.account = m THEN Nothing ELSE @]
    /\ saves' = [saves EXCEPT ![m] = "clearing"]
    /\ UNCHANGED <<generation, keyring, op, main, loads, out, mounted, closed, observed>>

\* Mutant: the session entry is left beside the permanent one.
SaveEndsWithoutClear(m) ==
    /\ saves[m] = "clearing"
    /\ latest' = [latest EXCEPT ![op[m].endpoint] = m]
    /\ saves' = [saves EXCEPT ![m] = "done"]
    /\ lock' = None
    /\ UNCHANGED <<generation, saved, memory, op, main, loads, out, mounted, closed, forgotten>>

\* An account remembered for good replaces the session entry.
SaveEnds(m) ==
    /\ saves[m] = "clearing"
    /\ \/ /\ saved' = IF op[m].scope = "permanent"
                      THEN [saved EXCEPT ![op[m].endpoint] = Cleared(@, "session")]
                      ELSE saved
          /\ latest' = [latest EXCEPT ![op[m].endpoint] = m]
       \/ /\ KeyringFails /\ op[m].scope = "permanent"
          /\ UNCHANGED <<saved, latest>>
    /\ saves' = [saves EXCEPT ![m] = "done"]
    /\ lock' = None
    /\ UNCHANGED <<generation, memory, op, main, loads, out, mounted, closed, forgotten>>

-----------------------------------------------------------------------------
(* A sign-out and its worker.                                              *)

\* The window takes the mounts from the volume monitor before the
\* sign-out starts.
AskSignOut(n, w, f) ==
    /\ main = None /\ out[n].state = "new" /\ w \notin closed
    /\ out' = [out EXCEPT ![n] = [@ EXCEPT !.state = "asked", !.window = w, !.forget = f,
                                           !.mounts = mounted]]
    /\ UNCHANGED <<generation, keyring, memory, op, main, loads, saves, mounted, closed, observed>>

\* Every window stops its listings on the server, and their mounts with
\* them; nobody does once the window that asked is gone.
StopListings(n) ==
    \/ op' = [m \in Mounts |-> IF InFlight(m) /\ op[m].kind = "list"
                               THEN [op[m] EXCEPT !.state = "ended"] ELSE op[m]]
    \/ out[n].window \in closed /\ UNCHANGED op

\* begin_sign_out, refused while the server is being signed out of.
BeginSignOut(n) ==
    /\ main = None /\ out[n].state = "asked"
    /\ \/ /\ SigningOut
          /\ out' = [out EXCEPT ![n].state = "ended"]
          /\ UNCHANGED <<generation, memory, op>>
       \/ /\ ~SigningOut
          /\ generation' = generation + 1
          /\ memory' = MemoryCleared(out[n].window)
          /\ out' = [out EXCEPT ![n].state = "unmounting", ![n].known = Typed]
          /\ StopListings(n)
    /\ UNCHANGED <<keyring, main, loads, saves, mounted, closed, observed>>

\* The answer to the unmount of one mount, which GVfs may never give. A
\* mount that cannot be disconnected ends the sign-out.
Unmount(n) ==
    /\ main = None /\ out[n].state = "unmounting"
    /\ \E m \in out[n].mounts :
        \/ /\ mounted' = mounted \ {m}
           /\ out' = [out EXCEPT ![n].mounts = @ \ {m}]
        \/ /\ out' = [out EXCEPT ![n].state = "ended"]
           /\ UNCHANGED mounted
    /\ UNCHANGED <<generation, keyring, memory, op, main, loads, saves, closed, observed>>

\* Nothing is left to unmount: the worker starts.
StartForgetting(n) ==
    /\ main = None /\ out[n].state = "unmounting" /\ out[n].mounts = {}
    /\ out' = [out EXCEPT ![n].state = "forgetting", ![n].worker = "queued"]
    /\ UNCHANGED <<generation, keyring, memory, op, main, loads, saves, mounted, closed, observed>>

\* Mutant: the worker relies on the generation begin_sign_out advanced.
ForgetMemoryOnce(n) ==
    /\ out[n].worker = "queued"
    /\ memory' = MemoryCleared(out[n].window)
    /\ out' = [out EXCEPT ![n].worker = "waiting"]
    /\ UNCHANGED <<generation, keyring, op, main, loads, saves, mounted, closed, observed>>

\* forget_host of the worker: forget_host_memory again, then the lock,
\* then the keyring.
ForgetMemory(n) ==
    /\ out[n].worker = "queued"
    /\ ClearOverlaps \/ main = None
    /\ generation' = generation + 1
    /\ memory' = MemoryCleared(out[n].window)
    /\ out' = [out EXCEPT ![n].worker = "waiting"]
    /\ UNCHANGED <<keyring, op, main, loads, saves, mounted, closed, observed>>

ForgetLocks(n) ==
    /\ out[n].worker = "waiting" /\ lock = None
    /\ lock' = n
    /\ out' = [out EXCEPT ![n].worker = "clearing"]
    /\ UNCHANGED <<generation, saved, memory, op, main, loads, saves, mounted, closed, observed>>

ForgetSaved(n) ==
    /\ out[n].worker = "clearing"
    /\ \/ /\ saved' = [e \in Endpoints |-> Cleared(saved[e], out[n].forget)]
          /\ latest' = [e \in Endpoints |-> Preferred(saved'[e])]
          /\ out' = [out EXCEPT ![n].worker = "done"]
       \/ /\ KeyringFails
          /\ out' = [out EXCEPT ![n].worker = "failed"]
          /\ UNCHANGED <<saved, latest>>
    /\ lock' = None
    /\ UNCHANGED <<generation, memory, op, main, loads, saves, mounted, closed, forgotten>>

\* The sign-out ends with the worker's answer, and its mark is removed.
EndSignOut(n) ==
    /\ main = None /\ out[n].state = "forgetting" /\ out[n].worker \in {"done", "failed"}
    /\ out' = [out EXCEPT ![n].state = "ended"]
    /\ forgotten' = IF out[n].worker = "done"
                    THEN forgotten \cup Covered(out[n]) ELSE forgotten
    /\ UNCHANGED <<generation, keyring, memory, op, main, loads, saves, mounted, closed, latest>>

\* Mutant: the deadline runs from the moment the lock is held.
GiveUpInKeyring(n) ==
    /\ main = None /\ DeadlinePasses
    /\ out[n].state = "forgetting" /\ out[n].worker = "clearing"
    /\ out' = [out EXCEPT ![n].state = "ended"]
    /\ UNCHANGED <<generation, keyring, memory, op, main, loads, saves, mounted, closed, observed>>

\* The deadline passes: the sign-out ends with "could not be removed" and
\* its worker goes on.
GiveUp(n) ==
    /\ main = None /\ DeadlinePasses
    /\ out[n].state = "forgetting" /\ out[n].worker \in {"queued", "waiting", "clearing"}
    /\ out' = [out EXCEPT ![n].state = "ended"]
    /\ UNCHANGED <<generation, keyring, memory, op, main, loads, saves, mounted, closed, observed>>

-----------------------------------------------------------------------------

CloseWindow(w) ==
    /\ main = None /\ w \notin closed
    /\ closed' = closed \cup {w}
    /\ op' = [m \in Mounts |-> IF InFlight(m) /\ op[m].window = w
                               THEN [op[m] EXCEPT !.state = "ended"] ELSE op[m]]
    /\ memory' = MemoryCleared(w)
    /\ UNCHANGED <<generation, keyring, main, loads, saves, out, mounted, observed>>

\* Another process of the program deletes what the keyring holds.
OtherProcessSignsOut ==
    /\ OtherProcesses
    /\ saved' = [e \in Endpoints |-> Cleared(saved[e], "all")]
    /\ latest' = [e \in Endpoints |-> None]
    /\ UNCHANGED <<generation, lock, memory, op, main, loads, saves, out, mounted, closed, forgotten>>

MountStep(m) ==
    \/ \E w \in Windows, e \in Endpoints, k \in Kinds : StartMount(m, w, e, k)
    \/ AskPassword(m) \/ Answer(m) \/ MountFails(m) \/ MountSucceeds(m) \/ Accept(m)
    \/ Deliver(m)
WorkerStep(m) ==
    \/ LoadBegins(m) \/ LookUp(m) \/ CheckFound(m) \/ KeepFound(m)
    \/ SaveLocks(m) \/ SaveStores(m) \/ SaveLeavesMemory(m) \/ SaveEnds(m)
SignOutStep(n) ==
    \/ BeginSignOut(n) \/ StartForgetting(n) \/ EndSignOut(n) \/ GiveUp(n)
ForgetStep(n) == ForgetMemory(n) \/ ForgetLocks(n) \/ ForgetSaved(n)

Next ==
    \/ \E m \in Mounts : MountStep(m) \/ WorkerStep(m)
    \/ \E n \in SignOuts :
        \/ \E w \in Windows, f \in Forgets : AskSignOut(n, w, f)
        \/ SignOutStep(n) \/ Unmount(n) \/ ForgetStep(n)
    \/ \E w \in Windows : CloseWindow(w)
    \/ OtherProcessSignsOut

Spec == Init /\ [][Next]_vars

\* The main loop turns: it finishes what it accepts and takes the steps of a
\* sign-out that wait for nobody, the deadline's among them.  Nothing is
\* assumed of the workers, whose keyring calls may hang, of GVfs, which may
\* never answer a mount or an unmount, or of the user.
FairSpec ==
    /\ Spec
    /\ \A m \in Mounts : WF_vars(Accept(m))
    /\ \A n \in SignOuts : WF_vars(SignOutStep(n))

-----------------------------------------------------------------------------
(* Properties.                                                             *)

Operation ==
    [state : {"new", "mounting", "loading", "dialog", "replied", "ended"},
     window : Windows \cup {None}, endpoint : Endpoints \cup {None}, kind : Kind \cup {None},
     generation : Nat, attempts : Nat, account : Accounts, scope : Scopes \cup {None},
     entered : BOOLEAN]
Load ==
    [step : {"none", "queued", "session", "sessionFound", "permanent", "permanentFound",
             "keep", "loaded"},
     generation : Nat, found : Accounts]
SignOut ==
    [state : {"new", "asked", "unmounting", "forgetting", "ended"},
     window : Windows \cup {None}, forget : Forgets \cup {None}, mounts : SUBSET Mounts,
     worker : {"none", "queued", "waiting", "clearing", "done", "failed"}, known : SUBSET Mounts]
Kept == [account : Accounts, generation : Nat]

TypeOK ==
    /\ generation \in Nat
    /\ saved \in [Endpoints -> [Scopes -> Accounts]]
    /\ lock \in Accounts \cup SignOuts
    /\ memory \in [Windows -> [Endpoints -> Kept]]
    /\ op \in [Mounts -> Operation]
    /\ main \in Accounts
    /\ loads \in [Mounts -> Load]
    /\ saves \in [Mounts -> {"none", "queued", "storing", "stored", "clearing", "done"}]
    /\ out \in [SignOuts -> SignOut]
    /\ mounted \in SUBSET Mounts
    /\ closed \in SUBSET Windows
    /\ forgotten \in SUBSET Mounts
    /\ latest \in [Endpoints -> Accounts]

\* SAFE-012 "a password never reappears after sign-out", in the keyring: no
\* save, however late, writes an account a finished sign-out forgot.
ForgottenNeverSaved ==
    \A e \in Endpoints, s \in Scopes : saved[e][s] \notin forgotten

\* The same in memory: no window signs in with an account that a finished
\* sign-out, in any window, forgot (the comment on forget_memory).
ForgottenNeverReused ==
    \A w \in Windows, e \in Endpoints : InMemory(w, e) \notin forgotten

\* "A session entry wins over an older permanent one" (load) returns the
\* account saved last, whatever the saves and clears in flight did.
LastSavedIsPreferred ==
    lock = None => \A e \in Endpoints : Preferred(saved[e]) = latest[e]

\* An unmount is awaited without a deadline (disconnect).
WaitsForUnmount(n) == out[n].state = "unmounting" /\ out[n].mounts # {}

\* Nothing but an unmount that GVfs leaves unanswered keeps a sign-out from its
\* end, where its mark leaves the registry: not a keyring that never answers,
\* nor a worker that never gets the lock (KEYRING_DEADLINE).
SignOutEnds ==
    \A n \in SignOuts :
        out[n].state \in {"asked", "unmounting", "forgetting"} ~>
            out[n].state = "ended" \/ WaitsForUnmount(n)
=============================================================================
