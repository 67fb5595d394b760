------------------------------ MODULE TabMoves ------------------------------
(***************************************************************************)
(* The broker that moves a tab to another window without ever losing it    *)
(* (ox-core ops/tab_transfer.rs and tab_transfer/messages.rs).             *)
(*                                                                         *)
(* A source window offers a tab and gets a single-use token. A destination *)
(* claims the token, receives the tab and inserts it tentatively; only its *)
(* acceptance commits the move. Every other ending (a refusal, a busy or   *)
(* closed window, a cancellation, a timeout) keeps the original and has    *)
(* the destination remove its copy. The broker only queues messages for    *)
(* the windows (TabTransfers::new), so both windows act later than it.     *)
(*                                                                         *)
(* The windows' half of the protocol is not in the repository; it is       *)
(* modelled as the messages ask for it, and marked external.               *)
(***************************************************************************)
EXTENDS Naturals, FiniteSets

CONSTANTS Windows,      \* the windows of the process
          Tabs,         \* the tabs that may move
          Tokens,       \* TabTransferToken: the capabilities ever generated
          NoWindow,     \* None of destination: Option<WindowId>
          NoToken,      \* what a tab that never moved was brought by
          Home,         \* the tabs each window opens with
          MaxPending    \* MAX_PENDING_TAB_TRANSFERS (64)

ASSUME WindowsAssumption == Windows # {} /\ Tabs # {} /\ NoWindow \notin Windows
ASSUME TokensAssumption == NoToken \notin Tokens
ASSUME HomeAssumption ==
    /\ Home \in [Windows -> SUBSET Tabs]
    /\ \A v, w \in Windows : \A tab \in Tabs : (tab \in Home[v] /\ tab \in Home[w]) => v = w

VARIABLES used,         \* the tokens generated so far
          pending,      \* the tokens of TabTransfers::pending
          transfer,     \* PendingTransfer of each token; kept when it ends
          due,          \* the pending moves whose time is up
          open,         \* the windows that exist
          announced,    \* the windows window_closed was called for
          firm,         \* the tabs each window keeps
          tentative,    \* the received tabs that wait to be settled
          mail          \* the messages queued for each window

broker == <<used, pending, transfer, due>>
vars == <<used, pending, transfer, due, open, announced, firm, tentative, mail>>

\* A tab in a strip: which tab it is, and the move that brought it here,
\* which tells its TabId from the one it has in another window.
Copy == [tab : Tabs, by : Tokens \union {NoToken}]
Transfer == [source : Windows, copy : Copy, destination : Windows \union {NoWindow}]

\* TabMessage. "copy" is the copy to insert, to settle or to retire.
Message == [kind : {"receive", "settled", "done"}, token : Tokens, copy : Copy,
            outcome : {"none", "committed", "kept"}]

Committed == "committed"
Kept == "kept"

\* The copy the destination of move k inserts.
Inserted(k) == [tab |-> transfer[k].copy.tab, by |-> k]

-----------------------------------------------------------------------------
(* How a move ends.                                                        *)

\* Mutant: the destination is told of a commit only.
EndingsIfCommitted(K, outcome, window) ==
    {[kind |-> "settled", token |-> k, copy |-> Inserted(k), outcome |-> outcome] :
        k \in {j \in K : transfer[j].destination = window /\ outcome = Committed}}
    \union
    {[kind |-> "done", token |-> k, copy |-> transfer[k].copy, outcome |-> outcome] :
        k \in {j \in K : transfer[j].source = window}}

\* notify_end: the destination, if any, and the source are told.
Endings(K, outcome, window) ==
    {[kind |-> "settled", token |-> k, copy |-> Inserted(k), outcome |-> outcome] :
        k \in {j \in K : transfer[j].destination = window}}
    \union
    {[kind |-> "done", token |-> k, copy |-> transfer[k].copy, outcome |-> outcome] :
        k \in {j \in K : transfer[j].source = window}}

\* The mail after the moves of K ended as kept and those of C as committed.
\* A window that is gone gets nothing (Delivery::WindowGone, ignored here).
Notified(K, C) ==
    [w \in Windows |->
        IF w \in open THEN mail[w] \union Endings(K, Kept, w) \union Endings(C, Committed, w)
        ELSE mail[w]]

\* Mutant: a move that ended keeps its place among those that are due.
CancelledStaysDue(K) ==
    /\ pending' = pending \ K
    /\ due' = due
    /\ mail' = Notified(K, {})

\* Mutant: only the source is told that a move did not happen.
CancelledForSource(K) ==
    /\ pending' = pending \ K
    /\ due' = due \ K
    /\ mail' = [w \in Windows |->
                   IF w \in open THEN mail[w] \union {m \in Endings(K, Kept, w) : m.kind = "done"}
                   ELSE mail[w]]

\* cancel and expire for the moves of K: they are no longer pending.
Cancelled(K) ==
    /\ pending' = pending \ K
    /\ due' = due \ K
    /\ mail' = Notified(K, {})

\* PendingTransfer::involves.
Involves(k, window) == transfer[k].source = window \/ transfer[k].destination = window

-----------------------------------------------------------------------------
(* The broker's calls. offer, claim and acknowledge expire first.          *)

\* Mutant: only the number of waiting moves is checked.
MayOfferAgain(window, copy, waiting) == Cardinality(waiting) < MaxPending

\* The same tab of the same window cannot move twice at once, and only so
\* many moves wait.
MayOffer(window, copy, waiting) ==
    /\ \A k \in waiting : transfer[k].source = window => transfer[k].copy # copy
    /\ Cardinality(waiting) < MaxPending

\* A window has not been told yet how an earlier move of this tab ended.
AwaitsDone(window, copy) == \E m \in mail[window] : m.kind = "done" /\ m.copy = copy

\* External: a window offers a tab it keeps, and not one that it has still
\* to remove or to unfreeze.
Offers(window, copy) ==
    window \in open /\ copy \in firm[window] /\ ~AwaitsDone(window, copy)

\* TabTransfers::offer.
Offer(window, copy, k) ==
    LET waiting == pending \ due IN
    /\ k \notin used
    /\ Offers(window, copy)
    /\ MayOffer(window, copy, waiting)
    /\ used' = used \union {k}
    /\ pending' = waiting \union {k}
    /\ due' = {}
    /\ transfer' = [transfer EXCEPT ![k] =
                       [source |-> window, copy |-> copy, destination |-> NoWindow]]
    /\ mail' = Notified(due, {})
    /\ UNCHANGED <<open, announced, firm, tentative>>

\* What claim asks of the move. A destination that is not ready, or a
\* position that is not valid, is refused and changes nothing.
MayClaim(k, window) ==
    /\ k \in pending \ due
    /\ transfer[k].destination = NoWindow
    /\ transfer[k].source # window

\* TabTransfers::claim: the destination is sent the tab and the time starts
\* again.
Claim(k, window) ==
    /\ window \in open
    /\ MayClaim(k, window)
    /\ transfer' = [transfer EXCEPT ![k] =
                       [source |-> transfer[k].source, copy |-> transfer[k].copy,
                        destination |-> window]]
    /\ pending' = pending \ due
    /\ due' = {}
    /\ mail' = [Notified(due, {}) EXCEPT ![window] = Notified(due, {})[window] \union
                  {[kind |-> "receive", token |-> k, copy |-> Inserted(k), outcome |-> "none"]}]
    /\ UNCHANGED <<used, open, announced, firm, tentative>>

\* The destination was still called ready and is gone: the move rolls back.
ClaimUnreachable(k, window) ==
    /\ window \notin open
    /\ MayClaim(k, window)
    /\ transfer' = [transfer EXCEPT ![k] =
                       [source |-> transfer[k].source, copy |-> transfer[k].copy,
                        destination |-> window]]
    /\ pending' = pending \ (due \union {k})
    /\ due' = {}
    /\ mail' = Notified(due \union {k}, {})
    /\ UNCHANGED <<used, open, announced, firm, tentative>>

\* Mutant: whoever knows the token can answer.
MatchesToken(k, window) == TRUE

\* Only the window that claimed the move can answer for it.
Matches(k, window) == transfer[k].destination = window

\* External: the destination accepts once it shows the copy. Any other
\* window may send an acceptance that is not its own.
Accepts(k, window) ==
    window \in open /\ (transfer[k].destination = window => Inserted(k) \in tentative[window])

\* TabTransfers::acknowledge, accepted while both windows are ready. A
\* window that is gone is not ready.
Commit(k, window) ==
    /\ k \in pending \ due
    /\ Accepts(k, window)
    /\ Matches(k, window)
    /\ transfer[k].source \in open
    /\ pending' = pending \ (due \union {k})
    /\ due' = {}
    /\ mail' = Notified(due, {k})
    /\ UNCHANGED <<used, transfer, open, announced, firm, tentative>>

\* TabTransfers::acknowledge, refused or with a window that is not ready.
RollBack(k, window) ==
    /\ window \in open
    /\ k \in pending \ due
    /\ Matches(k, window)
    /\ Cancelled(due \union {k})
    /\ UNCHANGED <<used, transfer, open, announced, firm, tentative>>

\* TabTransfers::cancel, by the user or the source window.
Cancel(k) ==
    /\ k \in pending
    /\ Cancelled({k})
    /\ UNCHANGED <<used, transfer, open, announced, firm, tentative>>

\* TabTransfers::expire, called by itself or by a call that is refused.
Expire ==
    /\ due # {}
    /\ Cancelled(due)
    /\ UNCHANGED <<used, transfer, open, announced, firm, tentative>>

\* TAB_TRANSFER_LIFETIME passed since the offer, or since the claim.
TimePasses(k) ==
    /\ k \in pending \ due
    /\ due' = due \union {k}
    /\ UNCHANGED <<used, pending, transfer, open, announced, firm, tentative, mail>>

\* TabTransfers::window_closed.
WindowClosed(window) ==
    /\ window \notin open \union announced
    /\ announced' = announced \union {window}
    /\ Cancelled({k \in pending : Involves(k, window)})
    /\ UNCHANGED <<used, transfer, open, firm, tentative>>

-----------------------------------------------------------------------------
(* The windows (external).                                                 *)

\* A window closes with its tabs and its unread messages; the application
\* tells the broker afterwards.
WindowGoes(window) ==
    /\ window \in open
    /\ open' = open \ {window}
    /\ firm' = [firm EXCEPT ![window] = {}]
    /\ tentative' = [tentative EXCEPT ![window] = {}]
    /\ mail' = [mail EXCEPT ![window] = {}]
    /\ UNCHANGED <<used, pending, transfer, due, announced>>

Taken(window, message) == mail' = [mail EXCEPT ![window] = mail[window] \ {message}]

\* Receive: the tab is inserted tentatively, or the window is busy and
\* inserts nothing.
HandleReceive(window, message) ==
    /\ message.kind = "receive"
    /\ Taken(window, message)
    /\ \/ tentative' = [tentative EXCEPT ![window] = tentative[window] \union {message.copy}]
       \/ UNCHANGED tentative
    /\ UNCHANGED <<used, pending, transfer, due, open, announced, firm>>

\* Settled: the inserted tab is kept when the move was committed and removed
\* otherwise. The queue is in order, so the tab was received before.
HandleSettled(window, message) ==
    /\ message.kind = "settled"
    /\ \A m \in mail[window] : m.token = message.token => m.kind # "receive"
    /\ Taken(window, message)
    /\ tentative' = [tentative EXCEPT ![window] = tentative[window] \ {message.copy}]
    /\ firm' = IF message.outcome = Committed
               THEN [firm EXCEPT ![window] = firm[window] \union {message.copy}]
               ELSE firm
    /\ UNCHANGED <<used, pending, transfer, due, open, announced>>

\* Done: the source removes the tab when the move was committed.
HandleDone(window, message) ==
    /\ message.kind = "done"
    /\ Taken(window, message)
    /\ firm' = IF message.outcome = Committed
               THEN [firm EXCEPT ![window] = firm[window] \ {message.copy}]
               ELSE firm
    /\ UNCHANGED <<used, pending, transfer, due, open, announced, tentative>>

Handle(window, message) ==
    HandleReceive(window, message) \/ HandleSettled(window, message)
    \/ HandleDone(window, message)

-----------------------------------------------------------------------------
Init ==
    /\ used = {} /\ pending = {} /\ due = {}
    /\ transfer = [k \in Tokens |-> CHOOSE t \in Transfer : TRUE]
    /\ open = Windows /\ announced = {}
    /\ firm = [w \in Windows |-> {[tab |-> tab, by |-> NoToken] : tab \in Home[w]}]
    /\ tentative = [w \in Windows |-> {}]
    /\ mail = [w \in Windows |-> {}]

Move(k, window) ==
    Claim(k, window) \/ ClaimUnreachable(k, window) \/ Commit(k, window)
    \/ RollBack(k, window)

Next ==
    \/ \E w \in Windows : \E copy \in firm[w], k \in Tokens : Offer(w, copy, k)
    \/ \E k \in Tokens, w \in Windows : Move(k, w)
    \/ \E k \in Tokens : Cancel(k) \/ TimePasses(k)
    \/ Expire
    \/ \E w \in Windows : WindowGoes(w) \/ WindowClosed(w)
    \/ \E w \in Windows : \E message \in mail[w] : Handle(w, message)

\* The main loop runs every queued message of a window that is there.
Fairness == \A w \in Windows : WF_vars(\E message \in mail[w] : Handle(w, message))

Spec == Init /\ [][Next]_vars /\ Fairness
-----------------------------------------------------------------------------
(* Properties.                                                             *)

TypeOK ==
    /\ used \subseteq Tokens
    /\ pending \subseteq used
    /\ due \subseteq pending
    /\ transfer \in [Tokens -> Transfer]
    /\ open \subseteq Windows
    /\ announced \subseteq Windows \ open
    /\ firm \in [Windows -> SUBSET Copy]
    /\ tentative \in [Windows -> SUBSET Copy]
    /\ mail \in [Windows -> SUBSET Message]

\* A window has the tab if it keeps a copy that it has not been told to
\* remove, or has been told to keep one that it received.
Keeps(window, copy) ==
    /\ copy \in firm[window]
    /\ \A m \in mail[window] :
          m.kind = "done" /\ m.copy = copy => m.outcome # Committed

MustKeep(window, copy) ==
    \E m \in mail[window] :
        m.kind = "settled" /\ m.copy = copy /\ m.outcome = Committed

HasCopy(window, copy) == Keeps(window, copy) \/ MustKeep(window, copy)

Has(window, tab) == \E copy \in Copy : copy.tab = tab /\ HasCopy(window, copy)

OwnerOf(tab) ==
    IF \E w \in Windows : Has(w, tab) THEN CHOOSE w \in Windows : Has(w, tab) ELSE NoWindow

Owners == INSTANCE TabOwners WITH
              owner <- [tab \in Tabs |-> OwnerOf(tab)],
              closed <- Windows \ open,
              FirstOwner <- [tab \in Tabs |->
                  IF \E w \in Windows : tab \in Home[w]
                  THEN CHOOSE w \in Windows : tab \in Home[w] ELSE NoWindow]

\* At no time do two windows have the tab: the broker never says "keep" to
\* the destination without saying "remove" to the source, nor to two
\* destinations, whatever was late, cancelled, closed or answered twice.
OneOwner ==
    \A tab \in Tabs : \A v, w \in Windows : Has(v, tab) /\ Has(w, tab) => v = w

\* Moving a tab looks like one step: it is never lost between two windows
\* and closes only with the window it belongs to ("Moving a tab to another
\* window without ever losing it", tab_transfer.rs).
KeepsTheTab == Owners!Spec

\* A window that inserted a tab tentatively is still the destination of a
\* pending move, or will find in its queue how the move ended: no ending
\* leaves a copy behind that nobody settles.
NoStrayCopy ==
    \A w \in Windows : \A copy \in tentative[w] :
        \/ copy.by \in pending /\ transfer[copy.by].destination = w
        \/ \E m \in mail[w] : m.kind = "settled" /\ m.copy = copy

\* Once a move has ended, its destination keeps or removes the copy.
CopySettles ==
    \A w \in Windows, k \in Tokens :
        (\E copy \in tentative[w] : copy.by = k /\ k \notin pending)
            ~> (\A copy \in tentative[w] : copy.by # k)
=============================================================================
