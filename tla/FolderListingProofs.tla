------------------------ MODULE FolderListingProofs -------------------------
(***************************************************************************)
(* For any locations, shares, disk and history: the rows on screen are of  *)
(* the location the tab shows, it says that it lists exactly while         *)
(* something runs that ends it, and a folder at rest that is watched is    *)
(* shown as it is.                                                         *)
(***************************************************************************)
EXTENDS FolderListing, SequenceTheorems, WellFoundedInduction, TLAPS

-----------------------------------------------------------------------------
(* The inductive invariant.                                                *)

\* The tab does not claim to show the folder as it is: nothing watches it, a
\* change was heard or missed, or is remembered behind another tab.
Excused(t) ==
    \/ t.watch.is \notin {"starting", "live"}
    \/ t.watch.changed
    \/ t.unseen
    \/ ~t.front /\ t.changedWhileHidden

RowNow(l, d) == [of |-> l, version |-> d[l].version]

\* The rows that the listing which runs will leave.
Pile(t) == IF t.listing.mode = "Reload" THEN t.listing.held ELSE t.rows

Busy(t) == t.state.is = "Listing" <=> t.listing.is # "none"

Belong(t) ==
    /\ \A row \in t.rows : row.of = Uri(t)
    /\ \A row \in t.listing.held : row.of = Uri(t)

\* A watch is of the location shown, and reports an unmount only once ended.
WatchIsHere(t) ==
    /\ t.watch.is # "none" => t.watch.on = Uri(t)
    /\ t.watch.gone => t.watch.is = "ended"

\* Nothing reads or watches a server that is being signed out.
Away(t, so) ==
    so /\ Uri(t) \in Shares => t.watch.is = "none" /\ t.listing.is = "none"

\* A listing has no rows before it read the folder, and one that ended well
\* has read it.
Unread(t) ==
    t.listing.is \in {"reading", "ended"} =>
        /\ ~t.listing.read => Pile(t) = {}
        /\ t.listing.is = "ended" /\ t.listing.found = "folder" => t.listing.read

Shape(t, so) ==
    Busy(t) /\ Belong(t) /\ WatchIsHere(t) /\ Away(t, so) /\ Unread(t)

Shows(t, pile, d) == d[Uri(t)].is = "folder" /\ pile = {RowNow(Uri(t), d)}

Reads(t) == t.listing.is \in {"reading", "ended"} /\ t.listing.read

AtRest(t) == t.state.is = "Listed" /\ t.error = {} /\ ~t.interrupted

\* What was read, and what is shown at rest, is the folder as it is, unless
\* the tab is excused or will list again.
Content(t, d, s) ==
    /\ Reads(t) => Excused(t) \/ t.state.reloadPending \/ Shows(t, Pile(t), d)
    /\ AtRest(t) /\ s[Uri(t)] = 0 => Excused(t) \/ Shows(t, t.rows, d)

TabOK(t) == t \in Tabs /\ t.at \in DOMAIN t.steps

Inv == TypeOK /\ Shape(tab, signingOut) /\ Content(tab, disk, searches)

\* A tab in shape that claims nothing of the disk.
Right(t, so) ==
    /\ TabOK(t)
    /\ Shape(t, so)
    /\ Reads(t) => Excused(t) \/ t.state.reloadPending
    /\ AtRest(t) => Excused(t)

\* Such a tab satisfies the invariant on any disk.
LEMMA RightIsEnough ==
    ASSUME NEW t, NEW so, Right(t, so), NEW d, NEW s
    PROVE  TabOK(t) /\ Shape(t, so) /\ Content(t, d, s)
BY DEF Right, Content

-----------------------------------------------------------------------------
(* The parts of the data.                                                  *)

USE DEF Modes, Kinds

LEMMA PartsAreTyped ==
    /\ NoListing \in Listings
    /\ NoWatch \in Watches
    /\ \A l \in Locations : WatchOf(l) \in Watches
    /\ Listed \in States /\ NotListed \in States
    /\ \A s \in States : Begun(s) \in States /\ Stopped(s) \in States
BY ListingAssumption DEF Listings, NoListing, Watches, NoWatch, WatchOf, States, Listed,
    NotListed, Begun, Stopped, Rows

LEMMA BegunIs ==
    ASSUME NEW s \in States
    PROVE  Begun(s).is = "Listing"
BY DEF Begun

LEMMA StoppedIs ==
    ASSUME NEW s \in States
    PROVE  Stopped(s).is \in {"Listed", "NotListed"}
BY DEF Stopped, Listed, NotListed

LEMMA UriIsALocation ==
    ASSUME NEW t, TabOK(t)
    PROVE  Uri(t) \in Locations
BY DEF TabOK, Uri, Tabs

-----------------------------------------------------------------------------
(* Loads.                                                                  *)

\* A listing that starts on a tab that says so, from no rows or over its own.
LEMMA StartedRight ==
    ASSUME NEW t, TabOK(t), NEW so, NEW mode \in Modes,
           NEW wasShown \in BOOLEAN, NEW retry \in {"Allowed", "Used"},
           t.state.is = "Listing",
           mode = "Navigate" => t.rows = {},
           \A row \in t.rows : row.of = Uri(t),
           WatchIsHere(t),
           ~(so /\ Uri(t) \in Shares)
    PROVE  /\ Right(Started(t, mode, wasShown, retry), so)
           /\ Right([Started(t, mode, wasShown, retry) EXCEPT !.listing.front = t.listing.front], so)
<1> DEFINE L == [NoListing EXCEPT !.is = "reading", !.mode = mode,
                     !.wasShown = wasShown, !.retry = retry, !.front = t.front]
           K == [L EXCEPT !.front = t.listing.front]
           r == [t EXCEPT !.listing = L]
           q == [t EXCEPT !.listing = K]
<1>1. L \in Listings /\ K \in Listings
  BY PartsAreTyped DEF Listings, TabOK, Tabs
<1>2. /\ L.is = "reading" /\ L.mode = mode /\ L.read = FALSE /\ L.held = {}
      /\ K.is = "reading" /\ K.mode = mode /\ K.read = FALSE /\ K.held = {}
  BY DEF NoListing
<1> HIDE DEF L, K
<1>3. /\ r \in Tabs /\ q \in Tabs
      /\ r.listing = L /\ q.listing = K
      /\ r.steps = t.steps /\ r.at = t.at /\ r.rows = t.rows /\ r.state = t.state
      /\ r.watch = t.watch
      /\ q.steps = t.steps /\ q.at = t.at /\ q.rows = t.rows /\ q.state = t.state
      /\ q.watch = t.watch
  BY <1>1 DEF TabOK, Tabs
<1>4. Started(t, mode, wasShown, retry) = r
  BY DEF Started, L
<1>5. [r EXCEPT !.listing.front = t.listing.front] = q
  BY <1>1, <1>3 DEF TabOK, Tabs, K
<1> HIDE DEF r, q
<1>6. Uri(r) = Uri(t) /\ Uri(q) = Uri(t)
  BY <1>3 DEF Uri
<1>7. Right(r, so) /\ Right(q, so)
  BY <1>2, <1>3, <1>6 DEF Right, TabOK, Shape, Busy, Belong, WatchIsHere, Away, Unread, Pile,
      Reads, AtRest
<1> QED BY <1>4, <1>5, <1>7

\* A listing that failed at once.
LEMMA RefusedRight ==
    ASSUME NEW t, TabOK(t), NEW so, NEW mode \in Modes, NEW why \in Reasons,
           mode = "Navigate" => \A row \in t.rows : row.of = Uri(t)
    PROVE  Right(Refused(t, mode, why), so)
<1> DEFINE f == Failed(t, mode, why)
           r == Ended(f)
<1>1. [about |-> Uri(t), why |-> why] \in [about : Locations, why : Reasons]
  BY UriIsALocation
<1>2. /\ f \in Tabs /\ f.steps = t.steps /\ f.at = t.at /\ f.watch = NoWatch
      /\ f.rows = (IF mode = "Reload" THEN {} ELSE t.rows) /\ f.error # {}
  BY <1>1, PartsAreTyped DEF Failed, TabOK, Tabs
<1>3. /\ r \in Tabs /\ r.steps = f.steps /\ r.at = f.at /\ r.watch = f.watch
      /\ r.rows = f.rows /\ r.error = f.error /\ r.state = Listed /\ r.listing = NoListing
  BY <1>2, PartsAreTyped DEF Ended, Tabs
<1>4. Uri(r) = Uri(t)
  BY <1>2, <1>3 DEF Uri
<1>5. Right(r, so)
  BY <1>2, <1>3, <1>4 DEF Right, TabOK, Shape, Busy, Belong, WatchIsHere, Away, Unread, Pile,
      Reads, AtRest, Listed, NoListing, NoWatch
<1> QED BY <1>5 DEF Refused

\* load_tab leaves a tab in shape that claims nothing yet.
LEMMA LoadedRight ==
    ASSUME NEW t, TabOK(t), signingOut \in BOOLEAN, NEW mode \in Modes,
           mode = "Reload" => \A row \in t.rows : row.of = Uri(t),
           t.watch.gone => t.watch.is = "ended"
    PROVE  Right(Loaded(t, mode), signingOut)
<1> DEFINE a == IF mode = "Navigate" THEN [t EXCEPT !.waitsToMount = FALSE] ELSE t
           b == BegunLoad(a)
           c == IF mode = "Navigate" THEN Cleared(b) ELSE b
           w == Watched(c)
<1>1. /\ a \in Tabs /\ a.steps = t.steps /\ a.at = t.at /\ a.rows = t.rows
      /\ a.state = t.state /\ a.watch = t.watch
  BY DEF TabOK, Tabs
<1> HIDE DEF a
<1>2. a.state \in States
  BY <1>1 DEF Tabs
<1>3. /\ b \in Tabs /\ b.steps = t.steps /\ b.at = t.at /\ b.rows = t.rows
      /\ b.state = Begun(a.state) /\ b.watch = t.watch
  BY <1>1, <1>2, PartsAreTyped DEF BegunLoad, Tabs
<1> HIDE DEF b
<1>4. /\ c \in Tabs /\ c.steps = t.steps /\ c.at = t.at
      /\ c.rows = (IF mode = "Navigate" THEN {} ELSE t.rows)
      /\ c.state.is = "Listing" /\ c.watch = t.watch
  BY <1>2, <1>3, BegunIs DEF Cleared, Tabs
<1> HIDE DEF c
<1>5. TabOK(c) /\ Uri(c) = Uri(t) /\ Uri(c) \in Locations
  BY <1>4, UriIsALocation DEF TabOK, Uri
<1>6. \A row \in c.rows : row.of = Uri(c)
  BY <1>4, <1>5
<1>7. CASE signingOut /\ Uri(t) \in Shares
  <2>1. Loaded(t, mode) = Refused(c, mode, "refused")
    BY <1>7 DEF Loaded, a, b, c
  <2> QED BY <2>1, <1>5, <1>6, RefusedRight DEF Reasons
<1>8. CASE ~(signingOut /\ Uri(t) \in Shares)
  <2>1. Loaded(t, mode) = Started(w, mode, t.error = {}, "Allowed")
    BY <1>8 DEF Loaded, a, b, c
  <2>2. c.watch \in Watches /\ WatchOf(Uri(c)) \in Watches
    BY <1>4, <1>5, PartsAreTyped DEF Tabs
  <2> DEFINE v == IF Uri(c) = Network THEN NoWatch
                  ELSE IF c.watch.is # "none" /\ c.watch.on = Uri(c) THEN c.watch
                  ELSE WatchOf(Uri(c))
  <2>6. v \in Watches /\ (v \in {NoWatch, WatchOf(Uri(c))} \/ (v = c.watch /\ c.watch.on = Uri(c)))
    <3>1. NoWatch \in Watches
      BY PartsAreTyped
    <3>2. CASE Uri(c) = Network
      BY <3>1, <3>2
    <3>3. CASE Uri(c) # Network /\ c.watch.is # "none" /\ c.watch.on = Uri(c)
      BY <2>2, <3>3
    <3>4. CASE Uri(c) # Network /\ ~(c.watch.is # "none" /\ c.watch.on = Uri(c))
      BY <2>2, <3>4
    <3> QED BY <3>2, <3>3, <3>4
  <2>7. w = [c EXCEPT !.watch = v]
    BY <1>4 DEF Watched, Tabs
  <2> HIDE DEF v, w
  <2>3. /\ w \in Tabs /\ w.steps = c.steps /\ w.at = c.at /\ w.rows = c.rows
        /\ w.state = c.state
        /\ w.watch \in {NoWatch, WatchOf(Uri(c))} \/ (w.watch = c.watch /\ c.watch.on = Uri(c))
    BY <1>4, <2>6, <2>7 DEF Tabs
  <2>4. TabOK(w) /\ Uri(w) = Uri(t)
    BY <2>3, <1>5 DEF TabOK, Uri
  <2>5. WatchIsHere(w)
    BY <2>3, <2>4, <1>4, <1>5 DEF WatchIsHere, NoWatch, WatchOf
  <2> QED BY <2>1, <2>3, <2>4, <2>5, <1>4, <1>6, <1>5, <1>8, StartedRight
<1> QED BY <1>7, <1>8

\* Ended of a tab of the right type.
LEMMA EndedIs ==
    ASSUME NEW t, TabOK(t)
    PROVE  /\ TabOK(Ended(t)) /\ Uri(Ended(t)) = Uri(t)
           /\ Ended(t).steps = t.steps /\ Ended(t).at = t.at
           /\ Ended(t).rows = t.rows /\ Ended(t).error = t.error
           /\ Ended(t).watch = t.watch /\ Ended(t).unseen = t.unseen
           /\ Ended(t).front = t.front /\ Ended(t).interrupted = t.interrupted
           /\ Ended(t).changedWhileHidden = t.changedWhileHidden
           /\ Ended(t).state = Listed /\ Ended(t).listing = NoListing
           /\ Excused(Ended(t)) <=> Excused(t)
<1>1. TabOK(Ended(t))
  BY PartsAreTyped DEF Ended, TabOK, Tabs
<1> QED BY <1>1, PartsAreTyped DEF Ended, Uri, Excused, TabOK, Tabs

\* An ended tab whose rows and watch are in place is in shape.
LEMMA EndedShape ==
    ASSUME NEW t, TabOK(t), NEW so,
           \A row \in t.rows : row.of = Uri(t),
           WatchIsHere(t),
           so /\ Uri(t) \in Shares => t.watch.is = "none"
    PROVE  Shape(Ended(t), so)
BY EndedIs DEF Shape, Busy, Belong, WatchIsHere, Away, Unread, Listed, NoListing

\* folder_changed lists again, now or later, or remembers the change.
LEMMA FolderChangedRight ==
    ASSUME NEW t, TabOK(t), signingOut \in BOOLEAN, Shape(t, signingOut)
    PROVE  Right(FolderChanged(t), signingOut)
<1>1. CASE WaitsUntilShown(t)
  <2> DEFINE r == [t EXCEPT !.changedWhileHidden = TRUE]
  <2>1. /\ r \in Tabs /\ r.steps = t.steps /\ r.at = t.at /\ r.rows = t.rows
        /\ r.state = t.state /\ r.watch = t.watch /\ r.listing = t.listing
        /\ r.front = t.front /\ r.changedWhileHidden
    BY DEF TabOK, Tabs
  <2> HIDE DEF r
  <2>2. Uri(r) = Uri(t) /\ ~r.front
    BY <1>1, <2>1 DEF Uri, WaitsUntilShown
  <2>3. Right(r, signingOut)
    BY <2>1, <2>2 DEF Right, TabOK, Shape, Busy, Belong, WatchIsHere, Away, Unread, Pile, Excused
  <2> QED BY <1>1, <2>3 DEF FolderChanged, r
<1>2. CASE ~WaitsUntilShown(t) /\ t.state.is = "Listing"
  <2> DEFINE n == [t.state EXCEPT !.reloadPending = TRUE]
             r == [t EXCEPT !.state = n]
  <2>1. n \in States /\ n.is = "Listing" /\ n.reloadPending
    <3>1. t.state \in States /\ t.state.is = "Listing"
      BY <1>2 DEF TabOK, Tabs
    <3>2. t.state \in [is : {"Listing"}, listedBefore : BOOLEAN, reloadPending : BOOLEAN]
      BY <3>1 DEF States, Listed, NotListed
    <3>3. n \in [is : {"Listing"}, listedBefore : BOOLEAN, reloadPending : BOOLEAN]
      BY <3>2
    <3> QED BY <3>2, <3>3 DEF States
  <2>2. FolderChanged(t) = r
    BY <1>2 DEF FolderChanged, ReloadScheduled, TabOK, Tabs
  <2> HIDE DEF n
  <2>3. /\ r \in Tabs /\ r.steps = t.steps /\ r.at = t.at /\ r.rows = t.rows
        /\ r.state = n /\ r.watch = t.watch /\ r.listing = t.listing
    BY <2>1 DEF TabOK, Tabs
  <2> HIDE DEF r
  <2>4. Uri(r) = Uri(t)
    BY <2>3 DEF Uri
  <2>5. Right(r, signingOut)
    BY <1>2, <2>1, <2>3, <2>4 DEF Right, TabOK, Shape, Busy, Belong, WatchIsHere, Away, Unread,
        Pile, AtRest
  <2> QED BY <2>2, <2>5
<1>3. CASE ~WaitsUntilShown(t) /\ t.state.is # "Listing"
  <2>1. FolderChanged(t) = Loaded(t, "Reload")
    BY <1>3 DEF FolderChanged
  <2> QED BY <2>1, LoadedRight DEF Shape, Belong, WatchIsHere
<1> QED BY <1>1, <1>2, <1>3

\* Moving the tab on in its history.
LEMMA PushedIs ==
    ASSUME NEW t, TabOK(t), NEW l \in Locations, Uri(t) = l \/ Room(t)
    PROVE  /\ TabOK(Pushed(t, l)) /\ Uri(Pushed(t, l)) = l
           /\ Pushed(t, l).watch = t.watch
<1>1. CASE Uri(t) = l
  BY <1>1 DEF Pushed
<1>2. CASE Uri(t) # l
  <2> DEFINE kept == SubSeq(t.steps, 1, t.at)
             now == Append(kept, l)
             r == [t EXCEPT !.steps = now, !.at = t.at + 1]
  <2>1. /\ t.steps \in Seq(Locations) /\ t.at \in 1..MaxSteps /\ t.at \in 1..Len(t.steps)
    BY DEF TabOK, Tabs
  <2>2. kept \in Seq(Locations) /\ Len(kept) = t.at
    BY <2>1, SubSeqProperties
  <2> HIDE DEF kept
  <2>3. /\ now \in Seq(Locations) /\ Len(now) = t.at + 1 /\ now[t.at + 1] = l
        /\ t.at + 1 \in DOMAIN now
    BY <2>1, <2>2, AppendProperties
  <2>4. t.at + 1 \in 1..MaxSteps
    BY <1>2, <2>1, ListingAssumption DEF Room
  <2> HIDE DEF now
  <2>5. r \in Tabs /\ r.steps = now /\ r.at = t.at + 1 /\ r.watch = t.watch
    BY <2>3, <2>4 DEF TabOK, Tabs
  <2>6. Pushed(t, l) = r
    BY <1>2 DEF Pushed, now, kept
  <2> HIDE DEF r
  <2> QED BY <2>3, <2>5, <2>6 DEF TabOK, Uri
<1> QED BY <1>1, <1>2

LEMMA GoneRight ==
    ASSUME NEW t, TabOK(t), signingOut \in BOOLEAN, NEW l \in Locations,
           Uri(t) = l \/ Room(t), t.watch.gone => t.watch.is = "ended"
    PROVE  Right(Gone(t, l), signingOut)
BY PushedIs, LoadedRight DEF Gone

\* Who asked for the location is of no account.
LEMMA AskedRight ==
    ASSUME NEW t, NEW so, Right(t, so), NEW a \in {"user", "application"}
    PROVE  Right([t EXCEPT !.asked = a], so)
<1> DEFINE r == [t EXCEPT !.asked = a]
<1>1. /\ r \in Tabs /\ r.steps = t.steps /\ r.at = t.at /\ r.rows = t.rows
      /\ r.state = t.state /\ r.watch = t.watch /\ r.listing = t.listing /\ r.front = t.front
      /\ r.changedWhileHidden = t.changedWhileHidden /\ r.unseen = t.unseen
      /\ r.error = t.error /\ r.interrupted = t.interrupted
  BY DEF Right, TabOK, Tabs
<1> HIDE DEF r
<1>2. Uri(r) = Uri(t)
  BY <1>1 DEF Uri
<1>3. Right(r, so)
  BY <1>1, <1>2 DEF Right, TabOK, Shape, Busy, Belong, WatchIsHere, Away, Unread, Pile,
      Reads, AtRest, Excused
<1> QED BY <1>3 DEF r

-----------------------------------------------------------------------------
(* The actions of the user.                                                *)

OthersOK ==
    /\ disk \in [Locations -> [is : Kinds, version : 0..MaxChanges]]
    /\ changes \in 0..MaxChanges
    /\ searches \in [Locations -> 0..MaxSearches]
    /\ signingOut \in BOOLEAN
    /\ removed \in BOOLEAN

LEMMA InvGives ==
    ASSUME Inv
    PROVE  /\ TabOK(tab) /\ OthersOK /\ Shape(tab, signingOut)
           /\ Content(tab, disk, searches)
           /\ Uri(tab) \in Locations
           /\ tab.watch.gone => tab.watch.is = "ended"
<1>1. TabOK(tab) /\ OthersOK
  BY DEF Inv, TypeOK, TabOK, OthersOK
<1> QED BY <1>1, UriIsALocation DEF Inv, Shape, WatchIsHere

LEMMA InvFrom ==
    ASSUME TabOK(tab'), OthersOK', Shape(tab', signingOut'), Content(tab', disk', searches')
    PROVE  Inv'
BY DEF Inv, TypeOK, OthersOK, TabOK

LEMMA InvFromRight ==
    ASSUME Right(tab', signingOut'), OthersOK'
    PROVE  Inv'
BY RightIsEnough, InvFrom

LEMMA OnlyTabKeeps ==
    ASSUME OthersOK, OnlyTab
    PROVE  OthersOK' /\ signingOut' = signingOut /\ disk' = disk /\ searches' = searches
BY DEF OthersOK, OnlyTab

LEMMA NavigateStep ==
    ASSUME Inv, NEW l \in Locations, Navigate(l)
    PROVE  Inv'
<1>1. Right(Gone(tab, l), signingOut)
  BY InvGives, GoneRight DEF Navigate, OthersOK
<1>2. Right(tab', signingOut)
  BY <1>1, AskedRight DEF Navigate
<1> QED BY <1>2, InvGives, OnlyTabKeeps, InvFromRight DEF Navigate

LEMMA StepStep ==
    ASSUME Inv, NEW at \in 1..MaxSteps, Step(at)
    PROVE  Inv'
<1> DEFINE t == [tab EXCEPT !.at = at]
<1>1. TabOK(t) /\ t.watch = tab.watch
  BY InvGives DEF Step, TabOK, Tabs
<1>2. Right(Loaded(t, "Navigate"), signingOut)
  BY <1>1, InvGives, LoadedRight DEF OthersOK
<1> HIDE DEF t
<1>3. Right([Loaded(t, "Navigate") EXCEPT !.asked = "user"], signingOut)
  BY <1>2, AskedRight
<1>4. Right(tab', signingOut)
  BY <1>3 DEF Step, t
<1> QED BY <1>4, InvGives, OnlyTabKeeps, InvFromRight DEF Step

\* A tab whose fields that matter here are those of another tab.
Alike(r, t) ==
    /\ r \in Tabs /\ r.steps = t.steps /\ r.at = t.at /\ r.rows = t.rows
    /\ r.state = t.state /\ r.watch = t.watch /\ r.listing = t.listing
    /\ r.error = t.error /\ r.interrupted = t.interrupted /\ r.unseen = t.unseen

LEMMA AlikeShape ==
    ASSUME NEW t, NEW r, TabOK(t), Alike(r, t), NEW so, Shape(t, so)
    PROVE  TabOK(r) /\ Uri(r) = Uri(t) /\ Shape(r, so)
<1>1. Uri(r) = Uri(t)
  BY DEF Alike, Uri
<1> QED BY <1>1 DEF Alike, TabOK, Shape, Busy, Belong, WatchIsHere, Away, Unread, Pile

LEMMA RefreshStep ==
    ASSUME Inv, Refresh
    PROVE  Inv'
<1> DEFINE t == [tab EXCEPT !.waitsToMount = FALSE]
<1>1. Alike(t, tab)
  BY InvGives DEF Alike, TabOK, Tabs
<1> HIDE DEF t
<1>2. TabOK(t) /\ Shape(t, signingOut)
  BY <1>1, AlikeShape, InvGives
<1>3. Right(Loaded(t, "Reload"), signingOut)
  BY <1>2, InvGives, LoadedRight DEF OthersOK, Shape, Belong, WatchIsHere
<1>4. Right([Loaded(t, "Reload") EXCEPT !.asked = "user"], signingOut)
  BY <1>3, AskedRight
<1>5. Right(tab', signingOut)
  BY <1>4 DEF Refresh, t
<1> QED BY <1>5, InvGives, OnlyTabKeeps, InvFromRight DEF Refresh

\* The tab's listing was interrupted, so that it claims nothing.
LEMMA InterruptedRight ==
    ASSUME NEW t, TabOK(t), NEW so, Shape(t, so)
    PROVE  Right([Ended(t) EXCEPT !.interrupted = TRUE], so)
<1> DEFINE e == Ended(t)
           r == [e EXCEPT !.interrupted = TRUE]
<1>1. Shape(e, so) /\ TabOK(e) /\ e.listing = NoListing
  BY EndedIs, EndedShape DEF Shape, Belong, WatchIsHere, Away
<1> HIDE DEF e
<1>2. /\ r \in Tabs /\ r.steps = e.steps /\ r.at = e.at /\ r.rows = e.rows
      /\ r.state = e.state /\ r.watch = e.watch /\ r.listing = e.listing
      /\ r.interrupted
  BY <1>1 DEF TabOK, Tabs
<1> HIDE DEF r
<1>3. Uri(r) = Uri(e)
  BY <1>2 DEF Uri
<1>4. Right(r, so)
  BY <1>1, <1>2, <1>3 DEF Right, TabOK, Shape, Busy, Belong, WatchIsHere, Away, Unread, Pile,
      Reads, AtRest, NoListing
<1> QED BY <1>4 DEF r, e

LEMMA StopListingStep ==
    ASSUME Inv, StopListing
    PROVE  Inv'
BY InterruptedRight, InvGives, OnlyTabKeeps, InvFromRight DEF StopListing

LEMMA LeaveStep ==
    ASSUME Inv, Leave
    PROVE  Inv'
<1>1. Alike(tab', tab) /\ tab.front
  BY InvGives DEF Leave, Alike, TabOK, Tabs
<1>2. TabOK(tab') /\ Uri(tab') = Uri(tab) /\ Shape(tab', signingOut)
  BY <1>1, AlikeShape, InvGives
<1>3. Content(tab', disk, searches)
  BY <1>1, <1>2, InvGives DEF Content, Alike, Reads, AtRest, Excused, Shows, Pile
<1> QED BY <1>2, <1>3, InvGives, OnlyTabKeeps, InvFrom DEF Leave

LEMMA ShownIs ==
    ASSUME Inv
    PROVE  /\ TabOK(Shown(tab)) /\ Shape(Shown(tab), signingOut)
           /\ Content(Shown(tab), disk, searches)
<1> DEFINE r == [tab EXCEPT !.front = TRUE, !.changedWhileHidden = FALSE]
<1>1. Alike(r, tab)
  BY InvGives DEF Alike, TabOK, Tabs
<1> HIDE DEF r
<1>2. TabOK(r) /\ Uri(r) = Uri(tab) /\ Shape(r, signingOut)
  BY <1>1, AlikeShape, InvGives
<1>3. CASE tab.state.is = "NotListed"
  <2>1. Right(Loaded(r, "Navigate"), signingOut)
    BY <1>2, LoadedRight, InvGives DEF OthersOK, Shape, WatchIsHere
  <2>2. Right([Loaded(r, "Navigate") EXCEPT !.asked = "user"], signingOut)
    BY <2>1, AskedRight
  <2>3. Right(Shown(tab), signingOut)
    BY <1>3, <2>2 DEF Shown, r
  <2> QED BY <2>3, RightIsEnough
<1>4. CASE tab.state.is # "NotListed" /\ tab.changedWhileHidden
  <2>1. Right(FolderChanged(r), signingOut)
    BY <1>2, FolderChangedRight, InvGives DEF OthersOK
  <2>2. Right(Shown(tab), signingOut)
    BY <1>4, <2>1 DEF Shown, r
  <2> QED BY <2>2, RightIsEnough
<1>5. CASE tab.state.is # "NotListed" /\ ~tab.changedWhileHidden
  <2>1. Shown(tab) = r
    BY <1>5 DEF Shown, r
  <2>2. Content(r, disk, searches)
    BY <1>1, <1>2, <1>5, InvGives DEF Content, Alike, Reads, AtRest, Excused, Shows, Pile
  <2> QED BY <2>1, <2>2, <1>2
<1> QED BY <1>3, <1>4, <1>5

LEMMA ShowTabStep ==
    ASSUME Inv, ShowTab
    PROVE  Inv'
BY ShownIs, InvGives, OnlyTabKeeps, InvFrom DEF ShowTab

LEMMA RevealItemsStep ==
    ASSUME Inv, RevealItems
    PROVE  Inv'
<1> DEFINE shown == IF tab.front THEN tab ELSE Shown(tab)
           t == [shown EXCEPT !.waitsToMount = TRUE]
<1>1. TabOK(shown) /\ Shape(shown, signingOut)
  BY ShownIs, InvGives
<1> HIDE DEF shown
<1>2. Alike(t, shown)
  BY <1>1 DEF Alike, TabOK, Tabs
<1> HIDE DEF t
<1>3. TabOK(t) /\ Shape(t, signingOut)
  BY <1>1, <1>2, AlikeShape
<1>4. Right(Loaded(t, "Reload"), signingOut)
  BY <1>3, InvGives, LoadedRight DEF OthersOK, Shape, Belong, WatchIsHere
<1>5. Right([Loaded(t, "Reload") EXCEPT !.asked = "application"], signingOut)
  BY <1>4, AskedRight
<1>6. tab' = [Loaded(t, "Reload") EXCEPT !.asked = "application"] /\ OnlyTab
  BY DEF RevealItems, t, shown
<1> QED BY <1>5, <1>6, InvGives, OnlyTabKeeps, InvFromRight

\* Session::stop_reading.
LEMMA StoppedReadingIs ==
    ASSUME NEW t, TabOK(t)
    PROVE  LET r == StoppedReading(t)
           IN  /\ TabOK(r) /\ Uri(r) = Uri(t) /\ r.steps = t.steps /\ r.at = t.at
               /\ r.rows = t.rows /\ r.front = t.front
               /\ r.listing = NoListing /\ r.watch = NoWatch
               /\ r.state.is \in {"Listed", "NotListed"}
<1> DEFINE n == Stopped(t.state)
           r == [t EXCEPT !.listing = NoListing, !.watch = NoWatch, !.state = n]
<1>1. n \in States /\ n.is \in {"Listed", "NotListed"}
  BY PartsAreTyped, StoppedIs DEF TabOK, Tabs
<1>2. StoppedReading(t) = r
  BY DEF StoppedReading
<1> HIDE DEF n
<1>3. /\ r \in Tabs /\ r.steps = t.steps /\ r.at = t.at /\ r.rows = t.rows
      /\ r.front = t.front /\ r.listing = NoListing /\ r.watch = NoWatch /\ r.state = n
  BY <1>1, PartsAreTyped DEF TabOK, Tabs
<1> HIDE DEF r
<1> QED BY <1>1, <1>2, <1>3 DEF TabOK, Uri

LEMMA StoppedReadingRight ==
    ASSUME NEW t, TabOK(t), NEW so, \A row \in t.rows : row.of = Uri(t)
    PROVE  Right(StoppedReading(t), so)
<1> DEFINE r == StoppedReading(t)
<1>1. /\ TabOK(r) /\ Uri(r) = Uri(t) /\ r.rows = t.rows
      /\ r.listing = NoListing /\ r.watch = NoWatch
      /\ r.state.is \in {"Listed", "NotListed"}
  BY StoppedReadingIs
<1> HIDE DEF r
<1>2. Right(r, so)
  BY <1>1 DEF Right, Shape, Busy, Belong, WatchIsHere, Away, Unread, Reads, Excused,
      NoListing, NoWatch
<1> QED BY <1>2 DEF r

LEMMA SignOutBeginsStep ==
    ASSUME Inv, SignOutBegins
    PROVE  Inv'
<1>1. OthersOK' /\ disk' = disk /\ searches' = searches
  BY InvGives DEF SignOutBegins, OthersOK
<1>2. CASE Uri(tab) \in Shares
  <2>1. Right(tab', signingOut')
    BY <1>2, InvGives, StoppedReadingRight DEF SignOutBegins, Shape, Belong
  <2> QED BY <1>1, <2>1, InvFromRight
<1>3. CASE Uri(tab) \notin Shares
  <2>1. tab' = tab
    BY <1>3 DEF SignOutBegins
  <2>2. Shape(tab, signingOut')
    BY <1>3, InvGives DEF Shape, Away
  <2> QED BY <1>1, <2>1, <2>2, InvGives, InvFrom
<1> QED BY <1>2, <1>3

-----------------------------------------------------------------------------
(* The actions of the listing that runs.                                   *)

LEMMA ReceiveBatchStep ==
    ASSUME Inv, ReceiveBatch
    PROVE  Inv'
<1> DEFINE row == RowNow(Uri(tab), disk)
           heldNow == [tab.listing EXCEPT !.read = TRUE, !.held = tab.listing.held \cup {row}]
           rowsNow == [tab.listing EXCEPT !.read = TRUE]
           lst == IF tab.listing.mode = "Reload" THEN heldNow ELSE rowsNow
           rws == IF tab.listing.mode = "Reload" THEN tab.rows ELSE tab.rows \cup {row}
           r == [tab EXCEPT !.listing = lst, !.rows = rws]
<1>1. row \in Rows /\ row.of = Uri(tab)
  BY InvGives DEF OthersOK, RowNow, Rows
<1> HIDE DEF row
<1>2. tab.listing \in Listings /\ tab.rows \in SUBSET Rows
  BY InvGives DEF TabOK, Tabs
<1>3. /\ lst \in Listings /\ lst.is = "reading" /\ lst.read /\ lst.mode = tab.listing.mode
      /\ lst.held = (IF tab.listing.mode = "Reload" THEN tab.listing.held \cup {row}
                     ELSE tab.listing.held)
  BY <1>1, <1>2 DEF Listings, ReceiveBatch
<1>4. rws \in SUBSET Rows
  BY <1>1, <1>2
<1>5. tab' = r
  BY InvGives DEF ReceiveBatch, row, RowNow, TabOK, Tabs
<1> HIDE DEF lst, r
<1>6. /\ r \in Tabs /\ r.listing = lst /\ r.rows = rws
      /\ r.steps = tab.steps /\ r.at = tab.at /\ r.state = tab.state
      /\ r.watch = tab.watch
  BY <1>3, <1>4, InvGives DEF TabOK, Tabs, r
<1>7. TabOK(r) /\ Uri(r) = Uri(tab)
  BY <1>6, InvGives DEF TabOK, Uri
<1>8. tab.listing.is = "reading" /\ ~tab.listing.read /\ disk[Uri(tab)].is = "folder"
  BY DEF ReceiveBatch
<1>9. Pile(tab) = {}
  BY <1>8, InvGives DEF Shape, Unread
<1>10. Shape(r, signingOut)
  BY <1>1, <1>3, <1>6, <1>7, <1>8, InvGives DEF Shape, Busy, Belong, WatchIsHere, Away, Unread
<1>11. Pile(r) = {row}
  BY <1>3, <1>6, <1>9 DEF Pile
<1>12. Content(r, disk, searches)
  <2>1. Shows(r, Pile(r), disk)
    BY <1>7, <1>8, <1>11 DEF Shows, row
  <2>2. r.state.is = "Listing"
    BY <1>6, <1>8, InvGives DEF Shape, Busy
  <2> QED BY <2>1, <2>2 DEF Content, AtRest
<1> QED BY <1>5, <1>7, <1>10, <1>12, InvGives, OnlyTabKeeps, InvFrom DEF ReceiveBatch

LEMMA EnumerationEndsStep ==
    ASSUME Inv, EnumerationEnds
    PROVE  Inv'
<1> DEFINE lst == [tab.listing EXCEPT !.is = "ended", !.found = disk[Uri(tab)].is]
           r == [tab EXCEPT !.listing = lst]
<1>1. tab.listing \in Listings /\ disk[Uri(tab)].is \in Kinds
  BY InvGives DEF TabOK, Tabs, OthersOK
<1>2. /\ lst \in Listings /\ lst.is = "ended" /\ lst.found = disk[Uri(tab)].is
      /\ lst.read = tab.listing.read /\ lst.mode = tab.listing.mode
      /\ lst.held = tab.listing.held
  BY <1>1 DEF Listings
<1>3. tab' = r
  BY <1>1, InvGives DEF EnumerationEnds, TabOK, Tabs
<1> HIDE DEF lst
<1>4. /\ r \in Tabs /\ r.listing = lst /\ r.rows = tab.rows
      /\ r.steps = tab.steps /\ r.at = tab.at /\ r.state = tab.state
      /\ r.watch = tab.watch /\ r.unseen = tab.unseen /\ r.front = tab.front
      /\ r.changedWhileHidden = tab.changedWhileHidden
  BY <1>2, InvGives DEF TabOK, Tabs
<1> HIDE DEF r
<1>5. TabOK(r) /\ Uri(r) = Uri(tab)
  BY <1>4, InvGives DEF TabOK, Uri
<1>6. Shape(r, signingOut)
  BY <1>2, <1>4, <1>5, InvGives DEF Shape, Busy, Belong, WatchIsHere, Away, Unread, Pile,
      EnumerationEnds
<1>7. Content(r, disk, searches)
  <2>1. tab.state.is = "Listing"
    BY InvGives DEF Shape, Busy, EnumerationEnds
  <2> QED BY <1>2, <1>4, <1>5, <2>1, InvGives DEF Content, Reads, AtRest, Pile, Shows, Excused,
      EnumerationEnds
<1> QED BY <1>3, <1>5, <1>6, <1>7, InvGives, OnlyTabKeeps, InvFrom DEF EnumerationEnds

\* The end of a listing whose rows and watch are in place.
LEMMA EndedListingIs ==
    ASSUME NEW t, TabOK(t), signingOut \in BOOLEAN,
           \A row \in t.rows : row.of = Uri(t),
           WatchIsHere(t),
           signingOut /\ Uri(t) \in Shares => t.watch.is = "none"
    PROVE  \/ Right(EndedListing(t), signingOut)
           \/ /\ EndedListing(t) = Ended(t)
              /\ Shape(Ended(t), signingOut)
              /\ ~t.state.reloadPending \/ t.state.is # "Listing"
<1>1. TabOK(Ended(t)) /\ Shape(Ended(t), signingOut)
  BY EndedIs, EndedShape
<1>2. CASE ListsAgain(t.state)
  BY <1>1, <1>2, FolderChangedRight DEF EndedListing
<1>3. CASE ~ListsAgain(t.state)
  BY <1>1, <1>3 DEF EndedListing, ListsAgain
<1> QED BY <1>2, <1>3

LEMMA FinishListedStep ==
    ASSUME Inv, FinishListed
    PROVE  Inv'
<1> DEFINE t == [tab EXCEPT !.rows = Pile(tab)]
<1>1. Pile(tab) \in SUBSET Rows
  BY InvGives DEF Pile, TabOK, Tabs, Listings
<1>2. /\ t \in Tabs /\ t.rows = Pile(tab)
      /\ t.steps = tab.steps /\ t.at = tab.at /\ t.state = tab.state
      /\ t.watch = tab.watch /\ t.unseen = tab.unseen /\ t.front = tab.front
      /\ t.changedWhileHidden = tab.changedWhileHidden
  BY <1>1, InvGives DEF TabOK, Tabs
<1>3. tab' = EndedListing(t)
  BY InvGives DEF FinishListed, Pile, TabOK, Tabs
<1> HIDE DEF t
<1>4. TabOK(t) /\ Uri(t) = Uri(tab)
  BY <1>2, InvGives DEF TabOK, Uri
<1>5. Reads(tab) /\ tab.state.is = "Listing" /\ tab.listing.is = "ended"
  BY InvGives DEF FinishListed, Ends, Shape, Unread, Busy, Reads
<1>6. \A row \in t.rows : row.of = Uri(t)
  BY <1>2, <1>4, InvGives DEF Pile, Shape, Belong
<1>7. WatchIsHere(t)
  BY <1>2, <1>4, InvGives DEF Shape, WatchIsHere
<1>8. signingOut /\ Uri(t) \in Shares => t.watch.is = "none"
  BY <1>2, <1>4, InvGives DEF Shape, Away
<1>9. CASE Right(EndedListing(t), signingOut)
  BY <1>3, <1>9, InvGives, OnlyTabKeeps, InvFromRight DEF FinishListed
<1>10. CASE /\ EndedListing(t) = Ended(t)
            /\ Shape(Ended(t), signingOut)
            /\ ~t.state.reloadPending \/ t.state.is # "Listing"
  <2>1. Excused(tab) \/ Shows(tab, Pile(tab), disk)
    BY <1>2, <1>5, <1>10, InvGives DEF Content
  <2>2. Excused(Ended(t)) <=> Excused(tab)
    BY <1>2, <1>4, EndedIs DEF Excused
  <2>3. Content(Ended(t), disk, searches)
    BY <2>1, <2>2, <1>2, <1>4, EndedIs DEF Content, Reads, NoListing, Shows
  <2> QED BY <1>3, <1>4, <1>10, <2>3, EndedIs, InvGives, OnlyTabKeeps, InvFrom DEF FinishListed
<1> QED BY <1>4, <1>6, <1>7, <1>8, <1>9, <1>10, InvGives, EndedListingIs DEF OthersOK

LEMMA FinishFileStep ==
    ASSUME Inv, FinishFile
    PROVE  Inv'
<1> DEFINE n == Stopped(tab.state)
           steps == [tab.steps EXCEPT ![tab.at] = Folder(Uri(tab))]
           t == [tab EXCEPT !.steps = steps, !.state = n, !.watch = NoWatch]
<1>1. n \in States
  BY InvGives, PartsAreTyped DEF TabOK, Tabs
<1>2. Folder(Uri(tab)) \in Locations
  BY InvGives, ListingAssumption DEF Folder
<1>3. steps \in Seq(Locations) /\ DOMAIN steps = DOMAIN tab.steps
  BY <1>2, InvGives DEF TabOK, Tabs
<1>4. tab' = Loaded(t, "Navigate")
  BY InvGives DEF FinishFile, TabOK, Tabs
<1> HIDE DEF n, steps
<1>5. TabOK(t) /\ t.watch = NoWatch
  BY <1>1, <1>3, InvGives, PartsAreTyped DEF TabOK, Tabs
<1> HIDE DEF t
<1>6. Right(Loaded(t, "Navigate"), signingOut)
  BY <1>5, LoadedRight, InvGives DEF OthersOK, NoWatch
<1> QED BY <1>4, <1>6, InvGives, OnlyTabKeeps, InvFromRight DEF FinishFile

LEMMA FinishRemovedStep ==
    ASSUME Inv, FinishRemoved
    PROVE  Inv'
<1> DEFINE e == Ended(tab)
<1>1. /\ TabOK(e) /\ Shape(e, signingOut) /\ Uri(e) = Uri(tab) /\ e.listing = NoListing
  BY InvGives, EndedIs, EndedShape DEF Shape, Belong, WatchIsHere, Away
<1>2. searches'[Uri(tab)] = searches[Uri(tab)] + 1 /\ searches[Uri(tab)] \in Nat
  BY InvGives, ListingAssumption DEF FinishRemoved, OthersOK
<1>3. /\ OthersOK' /\ disk' = disk /\ signingOut' = signingOut
  BY InvGives, ListingAssumption DEF FinishRemoved, OthersOK
<1> HIDE DEF e
<1>4. Content(e, disk, searches')
  BY <1>1, <1>2 DEF Content, Reads, NoListing
<1>5. tab' = e
  BY DEF FinishRemoved, e
<1> QED BY <1>1, <1>3, <1>4, <1>5, InvFrom

LEMMA FinishUnmountedStep ==
    ASSUME Inv, FinishUnmounted
    PROVE  Inv'
<1> DEFINE lst == [tab.listing EXCEPT !.is = "mounting"]
           r == [tab EXCEPT !.listing = lst]
<1>1. lst \in Listings /\ lst.is = "mounting" /\ lst.held = tab.listing.held
  BY InvGives DEF TabOK, Tabs, Listings
<1>2. tab' = r
  BY InvGives DEF FinishUnmounted, TabOK, Tabs
<1> HIDE DEF lst
<1>3. /\ r \in Tabs /\ r.listing = lst /\ r.rows = tab.rows
      /\ r.steps = tab.steps /\ r.at = tab.at /\ r.state = tab.state
      /\ r.watch = tab.watch
  BY <1>1, InvGives DEF TabOK, Tabs
<1> HIDE DEF r
<1>4. Uri(r) = Uri(tab)
  BY <1>3 DEF Uri
<1>5. tab.listing.is = "ended"
  BY DEF FinishUnmounted, Ends
<1>6. Right(r, signingOut)
  BY <1>1, <1>3, <1>4, <1>5, InvGives DEF Right, TabOK, Shape, Busy, Belong, WatchIsHere, Away,
      Unread, Reads, AtRest
<1> QED BY <1>2, <1>6, InvGives, OnlyTabKeeps, InvFromRight DEF FinishUnmounted

LEMMA FinishDeniedStep ==
    ASSUME Inv, FinishDenied
    PROVE  Inv'
<1> DEFINE e == Ended(tab)
           steps == SubSeq(tab.steps, 1, tab.at - 1)
           t == [e EXCEPT !.steps = steps, !.at = tab.at - 1]
<1>1. TabOK(e) /\ e.watch = tab.watch
  BY EndedIs, InvGives
<1>2. /\ tab.steps \in Seq(Locations) /\ tab.at \in 1..MaxSteps /\ tab.at \in 1..Len(tab.steps)
      /\ tab.at > 1
  BY InvGives DEF TabOK, Tabs, FinishDenied, MayLeaveDenied
<1>3. /\ tab.at - 1 \in 1..MaxSteps
      /\ tab.at - 1 \in 1..Len(tab.steps)
  BY <1>2, ListingAssumption
<1>4. steps \in Seq(Locations) /\ DOMAIN steps = 1..(tab.at - 1)
  BY <1>2, <1>3, SubSeqProperties
<1>5. tab' = Loaded(t, "Navigate")
  BY DEF FinishDenied
<1> HIDE DEF e, steps
<1>6. t \in Tabs /\ t.steps = steps /\ t.at = tab.at - 1 /\ t.watch = tab.watch
  BY <1>1, <1>3, <1>4 DEF TabOK, Tabs
<1> HIDE DEF t
<1>7. TabOK(t)
  BY <1>3, <1>4, <1>6 DEF TabOK
<1>8. Right(Loaded(t, "Navigate"), signingOut)
  BY <1>6, <1>7, LoadedRight, InvGives DEF OthersOK
<1> QED BY <1>5, <1>8, InvGives, OnlyTabKeeps, InvFromRight DEF FinishDenied

\* fail_load: an error, no watch, and at most the rows that were shown.
LEMMA FailedIs ==
    ASSUME NEW t, TabOK(t), NEW mode, NEW why \in Reasons
    PROVE  LET r == Failed(t, mode, why)
           IN  /\ TabOK(r) /\ Uri(r) = Uri(t) /\ r.watch = NoWatch /\ r.error # {}
               /\ r.rows = (IF mode = "Reload" THEN {} ELSE t.rows)
               /\ r.state = t.state /\ r.listing = t.listing
<1>1. [about |-> Uri(t), why |-> why] \in [about : Locations, why : Reasons]
  BY UriIsALocation
<1> QED BY <1>1, PartsAreTyped DEF Failed, TabOK, Tabs, Uri

LEMMA FinishFailedStep ==
    ASSUME Inv, FinishFailed
    PROVE  Inv'
<1> DEFINE f == Failed(tab, tab.listing.mode, tab.listing.found)
<1>1. tab.listing.found \in Reasons
  BY DEF FinishFailed, Ends, Reasons
<1>2. /\ TabOK(f) /\ Uri(f) = Uri(tab) /\ f.watch = NoWatch /\ f.error # {}
      /\ f.rows = (IF tab.listing.mode = "Reload" THEN {} ELSE tab.rows)
  BY <1>1, InvGives, FailedIs
<1>3. tab' = EndedListing(f)
  BY DEF FinishFailed
<1> HIDE DEF f
<1>4. /\ \A row \in f.rows : row.of = Uri(f)
      /\ WatchIsHere(f)
      /\ f.watch.is = "none"
  BY <1>2, InvGives DEF Shape, Belong, WatchIsHere, NoWatch
<1>5. \/ Right(EndedListing(f), signingOut)
      \/ EndedListing(f) = Ended(f) /\ Shape(Ended(f), signingOut)
  BY <1>2, <1>4, EndedListingIs, InvGives DEF OthersOK
<1>6. CASE EndedListing(f) = Ended(f) /\ Shape(Ended(f), signingOut)
  <2>1. Right(Ended(f), signingOut)
    BY <1>2, <1>6, EndedIs DEF Right, Reads, AtRest, NoListing
  <2> QED BY <1>3, <1>6, <2>1, InvGives, OnlyTabKeeps, InvFromRight DEF FinishFailed
<1> QED BY <1>3, <1>5, <1>6, InvGives, OnlyTabKeeps, InvFromRight DEF FinishFailed

LEMMA MountedStep ==
    ASSUME Inv, Mounted
    PROVE  Inv'
<1> DEFINE c == Cleared(tab)
<1>1. /\ TabOK(c) /\ Uri(c) = Uri(tab) /\ c.rows = {} /\ c.state = tab.state
      /\ c.watch = tab.watch /\ c.listing = tab.listing
  BY InvGives DEF Cleared, TabOK, Tabs, Uri
<1> HIDE DEF c
<1>2. tab.listing.is = "mounting" /\ tab.state.is = "Listing"
  BY InvGives DEF Mounted, Shape, Busy
<1>3. ~(signingOut /\ Uri(tab) \in Shares)
  BY <1>2, InvGives DEF Shape, Away
<1>4. WatchIsHere(c)
  BY <1>1, InvGives DEF Shape, WatchIsHere
<1>5. tab.listing.wasShown \in BOOLEAN
  BY InvGives DEF TabOK, Tabs, Listings
<1>6. Right([Started(c, "Navigate", tab.listing.wasShown, "Used")
                EXCEPT !.listing.front = c.listing.front], signingOut)
  <2>1. /\ c.state.is = "Listing"
        /\ \A row \in c.rows : row.of = Uri(c)
        /\ ~(signingOut /\ Uri(c) \in Shares)
    BY <1>1, <1>2, <1>3
  <2> DEFINE was == tab.listing.wasShown
  <2>2. was \in BOOLEAN
    BY <1>5
  <2> HIDE DEF was
  <2>3. Right([Started(c, "Navigate", was, "Used")
                  EXCEPT !.listing.front = c.listing.front], signingOut)
    BY <1>1, <1>4, <2>1, <2>2, StartedRight
  <2> QED BY <2>3 DEF was
<1>7. Right(tab', signingOut')
  BY <1>1, <1>6 DEF Mounted, c
<1>8. OthersOK'
  <2>1. disk' \in [Locations -> [is : Kinds, version : 0..MaxChanges]]
    BY InvGives DEF Mounted, MountedDisk, OthersOK
  <2> QED BY <2>1, InvGives DEF Mounted, OthersOK
<1> QED BY <1>7, <1>8, InvFromRight

LEMMA MountFailedStep ==
    ASSUME Inv, MountFailed
    PROVE  Inv'
<1>1. tab.listing.mode \in Modes
  BY InvGives DEF TabOK, Tabs, Listings
<1>2. Right(tab', signingOut)
  BY <1>1, InvGives, RefusedRight DEF MountFailed, Reasons, Shape, Belong
<1> QED BY <1>2, InvGives, OnlyTabKeeps, InvFromRight DEF MountFailed

LEMMA MountCancelledStep ==
    ASSUME Inv, MountCancelled
    PROVE  Inv'
BY InterruptedRight, InvGives, OnlyTabKeeps, InvFromRight DEF MountCancelled

-----------------------------------------------------------------------------
(* The lookup for a removed folder.                                        *)

LEMMA SearchesKept ==
    ASSUME OthersOK, NEW l \in Locations, searches[l] > 0,
           searches' = [searches EXCEPT ![l] = @ - 1],
           UNCHANGED <<disk, changes, signingOut, removed>>
    PROVE  /\ OthersOK' /\ disk' = disk /\ signingOut' = signingOut
           /\ \A k \in Locations \ {l} : searches'[k] = searches[k]
BY ListingAssumption DEF OthersOK

LEMMA NearestFoundStep ==
    ASSUME Inv, NEW l \in Locations, NEW folder \in Locations, NearestFound(l, folder)
    PROVE  Inv'
<1>1. /\ OthersOK' /\ disk' = disk /\ signingOut' = signingOut
      /\ \A k \in Locations \ {l} : searches'[k] = searches[k]
  BY InvGives, SearchesKept DEF NearestFound
<1>2. CASE Uri(tab) = l
  <2>1. Right(Gone(tab, folder), signingOut)
    BY <1>2, InvGives, GoneRight DEF NearestFound, OthersOK
  <2> QED BY <1>1, <1>2, <2>1, InvFromRight DEF NearestFound
<1>3. CASE Uri(tab) # l
  <2>1. tab' = tab
    BY <1>3 DEF NearestFound
  <2>2. Content(tab, disk, searches')
    BY <1>1, <1>3, InvGives DEF Content
  <2> QED BY <1>1, <2>1, <2>2, InvGives, InvFrom
<1> QED BY <1>2, <1>3

LEMMA NoneFoundStep ==
    ASSUME Inv, NEW l \in Locations, NoneFound(l)
    PROVE  Inv'
<1>1. /\ OthersOK' /\ disk' = disk /\ signingOut' = signingOut
  BY InvGives, SearchesKept DEF NoneFound
<1> DEFINE f == Failed(tab, "Reload", "missing")
           r == [f EXCEPT !.error = {[about |-> l, why |-> "missing"]}]
<1>2. /\ TabOK(f) /\ Uri(f) = Uri(tab) /\ f.watch = NoWatch /\ f.rows = {}
      /\ f.state = tab.state /\ f.listing = tab.listing
  BY InvGives, FailedIs DEF Reasons
<1> HIDE DEF f
<1>3. {[about |-> l, why |-> "missing"]} \in SUBSET [about : Locations, why : Reasons]
  BY DEF Reasons
<1>4. /\ r \in Tabs /\ r.steps = f.steps /\ r.at = f.at /\ r.watch = NoWatch /\ r.rows = {}
      /\ r.state = tab.state /\ r.listing = tab.listing /\ r.error # {}
  BY <1>2, <1>3 DEF TabOK, Tabs
<1> HIDE DEF r
<1>5. TabOK(r) /\ Uri(r) = Uri(tab)
  BY <1>2, <1>4 DEF TabOK, Uri
<1>6. Right(r, signingOut)
  BY <1>4, <1>5, InvGives DEF Right, Shape, Busy, Belong, WatchIsHere, Away, Unread, Pile,
      AtRest, Excused, NoWatch
<1>7. tab' = r
  BY DEF NoneFound, r, f
<1> QED BY <1>1, <1>6, <1>7, InvFromRight

-----------------------------------------------------------------------------
(* The disk and the folder watch.                                          *)

\* A watch whose flags changed, or a change it missed.
Rewatched(r, t) ==
    /\ r \in Tabs /\ r.steps = t.steps /\ r.at = t.at /\ r.rows = t.rows
    /\ r.state = t.state /\ r.listing = t.listing /\ r.error = t.error
    /\ r.interrupted = t.interrupted /\ r.front = t.front
    /\ r.changedWhileHidden = t.changedWhileHidden
    /\ r.watch.on = t.watch.on /\ (r.watch.is = "none" <=> t.watch.is = "none")
    /\ r.watch.gone => r.watch.is = "ended"

LEMMA RewatchedShape ==
    ASSUME NEW t, NEW r, TabOK(t), Rewatched(r, t), NEW so, Shape(t, so)
    PROVE  /\ TabOK(r) /\ Uri(r) = Uri(t) /\ Shape(r, so)
           /\ r.rows = t.rows /\ r.state = t.state /\ r.listing = t.listing
           /\ r.error = t.error /\ r.interrupted = t.interrupted
           /\ r.front = t.front /\ r.changedWhileHidden = t.changedWhileHidden
<1>1. Uri(r) = Uri(t) /\ TabOK(r)
  BY DEF Rewatched, Uri, TabOK
<1>2. Shape(r, so)
  BY <1>1 DEF Rewatched, Shape, Busy, Belong, WatchIsHere, Away, Unread, Pile
<1> QED BY <1>1, <1>2 DEF Rewatched

\* The watch of a typed tab, and what can be set of it.
LEMMA WatchParts ==
    ASSUME NEW t, TabOK(t)
    PROVE  /\ t.watch \in Watches /\ t.unseen \in BOOLEAN
           /\ [t.watch EXCEPT !.changed = TRUE] \in Watches
           /\ [t.watch EXCEPT !.changed = FALSE] \in Watches
           /\ [t.watch EXCEPT !.is = "ended", !.gone = TRUE] \in Watches
           /\ \A is \in {"live", "polling"} : [t.watch EXCEPT !.is = is] \in Watches
<1>1. t.watch \in Watches /\ t.unseen \in BOOLEAN
  BY DEF TabOK, Tabs
<1> QED BY <1>1 DEF Watches

\* A change of the folder shown is heard or missed; any other is of no account.
LEMMA HeardIs ==
    ASSUME NEW t, TabOK(t), NEW so, Shape(t, so), NEW l \in Locations
    PROVE  LET r == Heard(t, l)
           IN  /\ TabOK(r) /\ Uri(r) = Uri(t) /\ Shape(r, so)
               /\ r.rows = t.rows /\ r.state = t.state /\ r.listing = t.listing
               /\ r.error = t.error /\ r.interrupted = t.interrupted
               /\ Excused(t) => Excused(r)
               /\ Uri(t) = l => Excused(r)
<1> DEFINE r == Heard(t, l)
<1>1. CASE t.watch.is = "live" /\ t.watch.on = l
  <2> DEFINE w == [t.watch EXCEPT !.changed = TRUE]
  <2>1. /\ w \in Watches /\ t.unseen \in BOOLEAN
        /\ w.on = t.watch.on /\ w.is = "live" /\ ~w.gone /\ w.changed
    BY <1>1, WatchParts DEF Watches, Shape, WatchIsHere
  <2>2. r = [t EXCEPT !.watch = w, !.unseen = t.unseen]
    BY <1>1 DEF Heard, TabOK, Tabs
  <2> HIDE DEF w, r
  <2>3. Rewatched(r, t) /\ r.watch = w /\ r.unseen = t.unseen
    BY <1>1, <2>1, <2>2 DEF Rewatched, TabOK, Tabs
  <2>4. Excused(r)
    BY <2>1, <2>3 DEF Excused
  <2> QED BY <2>3, <2>4, RewatchedShape DEF r
<1>2. CASE t.watch.is = "starting" /\ t.watch.on = l
  <2> DEFINE w == t.watch
  <2>1. w \in Watches /\ TRUE \in BOOLEAN /\ w.is = "starting" /\ (w.gone => w.is = "ended")
    BY <1>2, WatchParts DEF Shape, WatchIsHere
  <2>2. r = [t EXCEPT !.watch = w, !.unseen = TRUE]
    BY <1>2 DEF Heard, TabOK, Tabs
  <2> HIDE DEF r
  <2>3. Rewatched(r, t) /\ r.unseen
    BY <1>2, <2>1, <2>2 DEF Rewatched, TabOK, Tabs
  <2>4. Excused(r)
    BY <2>3 DEF Excused
  <2> QED BY <2>3, <2>4, RewatchedShape DEF r
<1>3. CASE t.watch.is \notin {"starting", "live"} \/ t.watch.on # l
  <2>1. r = t
    BY <1>3 DEF Heard
  <2>2. Uri(t) = l => Excused(t)
    BY <1>3 DEF Shape, WatchIsHere, Excused
  <2> QED BY <2>1, <2>2
<1> QED BY <1>1, <1>2, <1>3

LEMMA DiskChangesStep ==
    ASSUME Inv, NEW l \in Locations, NEW kind \in Kinds, DiskChanges(l, kind)
    PROVE  Inv'
<1> DEFINE r == Heard(tab, l)
<1>1. /\ TabOK(r) /\ Uri(r) = Uri(tab) /\ Shape(r, signingOut)
      /\ r.rows = tab.rows /\ r.state = tab.state /\ r.listing = tab.listing
      /\ r.error = tab.error /\ r.interrupted = tab.interrupted
      /\ Excused(tab) => Excused(r)
      /\ Uri(tab) = l => Excused(r)
  BY InvGives, HeardIs
<1>2. tab' = r
  BY DEF DiskChanges
<1> HIDE DEF r
<1>3. changes + 1 \in 0..MaxChanges
  <2>1. changes \in 0..MaxChanges /\ changes < MaxChanges
    BY InvGives DEF DiskChanges, OthersOK
  <2> QED BY <2>1, ListingAssumption
<1>4. disk' \in [Locations -> [is : Kinds, version : 0..MaxChanges]]
  BY <1>3, InvGives DEF DiskChanges, OthersOK
<1>5. OthersOK' /\ signingOut' = signingOut /\ searches' = searches
  BY <1>3, <1>4, InvGives DEF DiskChanges, OthersOK
<1>6. Content(r, disk', searches)
  <2>1. CASE Uri(tab) = l
    BY <1>1, <2>1 DEF Content
  <2>2. CASE Uri(tab) # l
    <3>1. disk'[Uri(tab)] = disk[Uri(tab)]
      BY <2>2, InvGives DEF DiskChanges, OthersOK
    <3> QED BY <1>1, <3>1, InvGives DEF Content, Reads, AtRest, Pile, Shows, RowNow
  <2> QED BY <2>1, <2>2
<1> QED BY <1>1, <1>2, <1>5, <1>6, InvFrom

LEMMA UnmountedDiskIs ==
    ASSUME OthersOK
    PROVE  /\ UnmountedDisk \in [Locations -> [is : Kinds, version : 0..MaxChanges]]
           /\ \A l \in Locations \ Shares : UnmountedDisk[l] = disk[l]
BY DEF UnmountedDisk, OthersOK

LEMMA HeardUnmountIs ==
    ASSUME NEW t, TabOK(t), NEW so, Shape(t, so)
    PROVE  LET r == HeardUnmount(t)
           IN  /\ TabOK(r) /\ Uri(r) = Uri(t) /\ Shape(r, so)
               /\ r.rows = t.rows /\ r.state = t.state /\ r.listing = t.listing
               /\ r.error = t.error /\ r.interrupted = t.interrupted
               /\ Excused(t) => Excused(r)
               /\ Uri(t) \in Shares => Excused(r)
<1> DEFINE r == HeardUnmount(t)
<1>1. CASE t.watch.on \in Shares /\ t.watch.is = "live"
  <2> DEFINE w == [t.watch EXCEPT !.is = "ended", !.gone = TRUE]
  <2>1. /\ w \in Watches /\ t.unseen \in BOOLEAN
        /\ w.on = t.watch.on /\ w.is = "ended"
    BY <1>1, WatchParts DEF Watches
  <2>2. r = [t EXCEPT !.watch = w, !.unseen = t.unseen]
    BY <1>1 DEF HeardUnmount, TabOK, Tabs
  <2> HIDE DEF w, r
  <2>3. Rewatched(r, t) /\ r.watch = w /\ r.unseen = t.unseen
    BY <1>1, <2>1, <2>2 DEF Rewatched, TabOK, Tabs
  <2>4. Excused(r)
    BY <2>1, <2>3 DEF Excused
  <2> QED BY <2>3, <2>4, RewatchedShape DEF r
<1>2. CASE t.watch.on \in Shares /\ t.watch.is = "starting"
  <2> DEFINE w == t.watch
  <2>1. w \in Watches /\ TRUE \in BOOLEAN /\ w.is = "starting" /\ (w.gone => w.is = "ended")
    BY <1>2, WatchParts DEF Shape, WatchIsHere
  <2>2. r = [t EXCEPT !.watch = w, !.unseen = TRUE]
    BY <1>2 DEF HeardUnmount, TabOK, Tabs
  <2> HIDE DEF r
  <2>3. Rewatched(r, t) /\ r.unseen
    BY <1>2, <2>1, <2>2 DEF Rewatched, TabOK, Tabs
  <2>4. Excused(r)
    BY <2>3 DEF Excused
  <2> QED BY <2>3, <2>4, RewatchedShape DEF r
<1>3. CASE t.watch.on \notin Shares \/ t.watch.is \notin {"starting", "live"}
  <2>1. r = t
    BY <1>3 DEF HeardUnmount
  <2>2. Uri(t) \in Shares => Excused(t)
    BY <1>3 DEF Shape, WatchIsHere, Excused
  <2> QED BY <2>1, <2>2
<1> QED BY <1>1, <1>2, <1>3

LEMMA ShareUnmountsStep ==
    ASSUME Inv, ShareUnmounts
    PROVE  Inv'
<1> DEFINE r == HeardUnmount(tab)
<1>1. /\ TabOK(r) /\ Uri(r) = Uri(tab) /\ Shape(r, signingOut)
      /\ r.rows = tab.rows /\ r.state = tab.state /\ r.listing = tab.listing
      /\ r.error = tab.error /\ r.interrupted = tab.interrupted
      /\ Excused(tab) => Excused(r)
      /\ Uri(tab) \in Shares => Excused(r)
  BY InvGives, HeardUnmountIs
<1>2. tab' = r
  BY DEF ShareUnmounts
<1> HIDE DEF r
<1>3. changes + 1 \in 0..MaxChanges
  BY InvGives, ListingAssumption DEF ShareUnmounts, OthersOK
<1>4. OthersOK' /\ signingOut' = signingOut /\ searches' = searches /\ disk' = UnmountedDisk
  BY <1>3, UnmountedDiskIs, InvGives DEF ShareUnmounts, OthersOK
<1>5. Content(r, UnmountedDisk, searches)
  <2>1. CASE Uri(tab) \in Shares
    BY <1>1, <2>1 DEF Content
  <2>2. CASE Uri(tab) \notin Shares
    <3>1. UnmountedDisk[Uri(tab)] = disk[Uri(tab)]
      BY <2>2, InvGives, UnmountedDiskIs
    <3> QED BY <1>1, <3>1, InvGives DEF Content, Reads, AtRest, Pile, Shows, RowNow
  <2> QED BY <2>1, <2>2
<1> QED BY <1>1, <1>2, <1>4, <1>5, InvFrom

LEMMA ShareMountsStep ==
    ASSUME Inv, ShareMounts
    PROVE  Inv'
<1>1. tab.watch.on \in Locations
  BY InvGives DEF TabOK, Tabs, Watches
<1>2. /\ TabOK(tab') /\ Uri(tab') = Uri(tab) /\ Shape(tab', signingOut)
      /\ tab'.rows = tab.rows /\ tab'.state = tab.state /\ tab'.listing = tab.listing
      /\ tab'.error = tab.error /\ tab'.interrupted = tab.interrupted
      /\ Excused(tab) => Excused(tab')
  <2>1. CASE tab.watch.on \in Shares
    <3>1. tab' = Heard(tab, tab.watch.on)
      BY <2>1 DEF ShareMounts
    <3> QED BY <1>1, <3>1, InvGives, HeardIs
  <2>2. CASE tab.watch.on \notin Shares
    <3>1. tab' = tab
      BY <2>2 DEF ShareMounts
    <3> QED BY <3>1, InvGives
  <2> QED BY <2>1, <2>2
<1>3. changes + 1 \in 0..MaxChanges
  <2>1. changes \in 0..MaxChanges /\ changes < MaxChanges
    BY InvGives DEF ShareMounts, OthersOK
  <2> QED BY <2>1, ListingAssumption
<1>4. /\ disk' \in [Locations -> [is : Kinds, version : 0..MaxChanges]]
      /\ disk[Uri(tab)].is # "unmounted" => disk'[Uri(tab)] = disk[Uri(tab)]
  BY <1>3, InvGives DEF ShareMounts, OthersOK
<1>5. OthersOK' /\ signingOut' = signingOut /\ searches' = searches
  BY <1>3, <1>4, InvGives DEF ShareMounts, OthersOK
<1>6. Content(tab', disk', searches)
  BY <1>2, <1>4, InvGives DEF Content, Reads, AtRest, Pile, Shows, RowNow
<1> QED BY <1>2, <1>5, <1>6, InvFrom

LEMMA WatchStartsStep ==
    ASSUME Inv, NEW is \in {"live", "polling"}, WatchStarts(is)
    PROVE  Inv'
<1> DEFINE w == [tab.watch EXCEPT !.is = is]
           r == [tab EXCEPT !.watch = w, !.unseen = tab.unseen]
<1>1. /\ w \in Watches /\ tab.unseen \in BOOLEAN /\ w.on = tab.watch.on /\ w.is = is
      /\ ~w.gone /\ w.changed = tab.watch.changed /\ tab.watch.is = "starting"
  BY InvGives, WatchParts DEF WatchStarts, Watches, Shape, WatchIsHere
<1>2. tab' = r
  BY InvGives DEF WatchStarts, TabOK, Tabs
<1> HIDE DEF w
<1>6. Rewatched(r, tab) /\ r.watch = w /\ r.unseen = tab.unseen
  BY <1>1, InvGives DEF Rewatched, TabOK, Tabs
<1> HIDE DEF r
<1>3. /\ TabOK(r) /\ Uri(r) = Uri(tab) /\ Shape(r, signingOut)
      /\ r.watch = w /\ r.unseen = tab.unseen /\ r.rows = tab.rows /\ r.state = tab.state
      /\ r.listing = tab.listing /\ r.error = tab.error
      /\ r.interrupted = tab.interrupted /\ r.front = tab.front
      /\ r.changedWhileHidden = tab.changedWhileHidden
  BY <1>6, InvGives, RewatchedShape
<1>4. Excused(tab) => Excused(r)
  BY <1>1, <1>3 DEF Excused
<1>5. Content(r, disk, searches)
  BY <1>3, <1>4, InvGives DEF Content, Reads, AtRest, Pile, Shows
<1> QED BY <1>2, <1>3, <1>5, InvGives, OnlyTabKeeps, InvFrom DEF WatchStarts

LEMMA ChangesSettleStep ==
    ASSUME Inv, ChangesSettle
    PROVE  Inv'
<1> DEFINE w == [tab.watch EXCEPT !.changed = FALSE]
           r == [tab EXCEPT !.watch = w, !.unseen = tab.unseen]
<1>1. /\ w \in Watches /\ tab.unseen \in BOOLEAN /\ w.on = tab.watch.on
      /\ w.is = tab.watch.is /\ (w.gone => w.is = "ended")
  BY InvGives, WatchParts DEF Watches
<1>2. tab' = FolderChanged(r)
  <2>1. [tab EXCEPT !.watch.changed = FALSE] = r
    BY InvGives DEF TabOK, Tabs
  <2> HIDE DEF r
  <2> QED BY <2>1 DEF ChangesSettle
<1> HIDE DEF w
<1>5. Rewatched(r, tab)
  BY <1>1, InvGives DEF Rewatched, TabOK, Tabs
<1> HIDE DEF r
<1>3. TabOK(r) /\ Shape(r, signingOut)
  BY <1>5, InvGives, RewatchedShape
<1>4. Right(tab', signingOut)
  BY <1>2, <1>3, FolderChangedRight, InvGives DEF OthersOK
<1> QED BY <1>4, InvGives, OnlyTabKeeps, InvFromRight DEF ChangesSettle

LEMMA IntervalPassesStep ==
    ASSUME Inv, IntervalPasses
    PROVE  Inv'
<1>1. Right(tab', signingOut)
  BY FolderChangedRight, InvGives DEF IntervalPasses, OthersOK
<1> QED BY <1>1, InvGives, OnlyTabKeeps, InvFromRight DEF IntervalPasses

\* show_disconnected: nothing is shown or watched, or nothing changes.
LEMMA DisconnectedIs ==
    ASSUME NEW t, TabOK(t), NEW so, Shape(t, so)
    PROVE  Right(Disconnected(t), so) \/ Disconnected(t) = t
<1>1. CASE t.error = {} /\ t.state.is # "NotListed"
  <2> DEFINE s == StoppedReading(t)
             e == {[about |-> Uri(t), why |-> "unmounted"]}
             r == [s EXCEPT !.state = Listed, !.changedWhileHidden = FALSE, !.rows = {},
                            !.error = e]
  <2>1. /\ TabOK(s) /\ Uri(s) = Uri(t) /\ s.listing = NoListing /\ s.watch = NoWatch
    BY StoppedReadingIs
  <2>2. e \in SUBSET [about : Locations, why : Reasons] /\ e # {}
    BY UriIsALocation DEF Reasons
  <2>3. Disconnected(t) = r
    BY <1>1 DEF Disconnected
  <2> HIDE DEF s, e
  <2>4. /\ r \in Tabs /\ r.steps = s.steps /\ r.at = s.at /\ r.rows = {} /\ r.state = Listed
        /\ r.listing = NoListing /\ r.watch = NoWatch /\ r.error = e
    BY <2>1, <2>2, PartsAreTyped DEF TabOK, Tabs
  <2> HIDE DEF r
  <2>5. TabOK(r) /\ Uri(r) = Uri(t)
    BY <2>1, <2>4 DEF TabOK, Uri
  <2>6. Right(r, so)
    BY <2>2, <2>4, <2>5 DEF Right, Shape, Busy, Belong, WatchIsHere, Away, Unread, Reads,
        Excused, Listed, NoListing, NoWatch
  <2> QED BY <2>3, <2>6
<1>2. CASE ~(t.error = {} /\ t.state.is # "NotListed")
  BY <1>2 DEF Disconnected
<1> QED BY <1>1, <1>2

LEMMA FolderUnmountedStep ==
    ASSUME Inv, FolderUnmounted
    PROVE  Inv'
<1> DEFINE w == [tab.watch EXCEPT !.gone = FALSE, !.changed = FALSE]
           r == [tab EXCEPT !.watch = w, !.unseen = tab.unseen]
<1>1. tab.watch \in Watches /\ tab.unseen \in BOOLEAN /\ tab.watch.is = "ended"
  BY InvGives, WatchParts DEF FolderUnmounted
<1>2. /\ w \in Watches /\ w.on = tab.watch.on /\ w.is = "ended"
  BY <1>1 DEF Watches
<1>3. tab' = Disconnected(r)
  <2>1. [tab EXCEPT !.watch.gone = FALSE, !.watch.changed = FALSE] = r
    BY InvGives DEF TabOK, Tabs
  <2> HIDE DEF r
  <2> QED BY <2>1 DEF FolderUnmounted
<1> HIDE DEF w
<1>7. Rewatched(r, tab) /\ r.watch = w
  BY <1>1, <1>2, InvGives DEF Rewatched, TabOK, Tabs
<1> HIDE DEF r
<1>4. /\ TabOK(r) /\ Uri(r) = Uri(tab) /\ Shape(r, signingOut) /\ r.watch = w
  BY <1>7, InvGives, RewatchedShape
<1>5. Right(r, signingOut)
  BY <1>2, <1>4 DEF Right, Excused
<1>6. Right(tab', signingOut)
  BY <1>3, <1>4, <1>5, DisconnectedIs
<1> QED BY <1>6, InvGives, OnlyTabKeeps, InvFromRight DEF FolderUnmounted

LEMMA MountRemovedStep ==
    ASSUME Inv, MountRemoved
    PROVE  Inv'
<1>1. OthersOK' /\ disk' = disk /\ searches' = searches /\ signingOut' = signingOut
  BY InvGives DEF MountRemoved, OthersOK
<1>2. tab' = tab \/ Right(tab', signingOut)
  BY InvGives, DisconnectedIs DEF MountRemoved
<1> QED BY <1>1, <1>2, InvGives, InvFrom, InvFromRight

-----------------------------------------------------------------------------
(* The end of a sign-out.                                                  *)

LEMMA SignOutFailsStep ==
    ASSUME Inv, SignOutFails
    PROVE  Inv'
<1>1. /\ OthersOK' /\ tab' = tab /\ disk' = disk /\ searches' = searches /\ signingOut' = FALSE
  BY InvGives DEF SignOutFails, OthersOK
<1>2. Shape(tab, FALSE)
  BY InvGives DEF Shape, Away
<1> QED BY <1>1, <1>2, InvGives, InvFrom

LEMMA SignedOutElsewhereStep ==
    ASSUME Inv, SignedOutElsewhere
    PROVE  Inv'
<1>1. /\ OthersOK' /\ tab' = tab /\ disk' = UnmountedDisk /\ searches' = searches
      /\ signingOut' = FALSE
  BY InvGives, UnmountedDiskIs DEF SignedOutElsewhere, OthersOK
<1>2. Shape(tab, FALSE)
  BY InvGives DEF Shape, Away
<1>3. Content(tab, UnmountedDisk, searches)
  <2>1. CASE Uri(tab) \in Shares
    BY <2>1, InvGives DEF Content, Excused, Shape, Away, SignedOutElsewhere
  <2>2. CASE Uri(tab) \notin Shares
    <3>1. UnmountedDisk[Uri(tab)] = disk[Uri(tab)]
      BY <2>2, InvGives, UnmountedDiskIs
    <3> QED BY <3>1, InvGives DEF Content, Shows, RowNow
  <2> QED BY <2>1, <2>2
<1> QED BY <1>1, <1>2, <1>3, InvGives, InvFrom

\* mark_stale: nothing is shown, listed or watched.
LEMMA MarkedStaleRight ==
    ASSUME NEW t, TabOK(t), NEW so
    PROVE  /\ Right(MarkedStale(t), so)
           /\ Uri(MarkedStale(t)) = Uri(t) /\ MarkedStale(t).at = t.at
<1> DEFINE s == StoppedReading(t)
           r == [s EXCEPT !.state = NotListed, !.error = {}, !.rows = {}]
<1>1. /\ TabOK(s) /\ Uri(s) = Uri(t) /\ s.listing = NoListing /\ s.watch = NoWatch
      /\ s.at = t.at
  BY StoppedReadingIs
<1> HIDE DEF s
<1>2. /\ r \in Tabs /\ r.steps = s.steps /\ r.at = s.at /\ r.rows = {}
      /\ r.state = NotListed /\ r.listing = NoListing /\ r.watch = NoWatch
  BY <1>1, PartsAreTyped DEF TabOK, Tabs
<1> HIDE DEF r
<1>3. TabOK(r) /\ Uri(r) = Uri(t)
  BY <1>1, <1>2 DEF TabOK, Uri
<1>4. Right(r, so)
  BY <1>2, <1>3 DEF Right, Shape, Busy, Belong, WatchIsHere, Away, Unread, Reads, AtRest,
      NotListed, NoListing, NoWatch
<1>5. MarkedStale(t) = r
  BY DEF MarkedStale, r, s
<1> QED BY <1>1, <1>2, <1>3, <1>4, <1>5

LEMMA SignedOutHereStep ==
    ASSUME Inv, SignedOutHere
    PROVE  Inv'
<1> DEFINE stale == IF Uri(tab) \in Shares THEN MarkedStale(tab) ELSE tab
<1>1. /\ OthersOK' /\ disk' = UnmountedDisk /\ searches' = searches /\ signingOut' = FALSE
  BY InvGives, UnmountedDiskIs DEF SignedOutHere, OthersOK
<1>2. /\ TabOK(stale) /\ Uri(stale) = Uri(tab) /\ stale.at = tab.at
      /\ stale.watch.gone => stale.watch.is = "ended"
  BY InvGives, MarkedStaleRight DEF Right, Shape, WatchIsHere
<1>3. \/ tab.front /\ tab' = [Gone(stale, Network) EXCEPT !.asked = "user"]
      \/ ~tab.front /\ tab' = stale
  BY DEF SignedOutHere
<1>4. CASE tab.front /\ tab' = [Gone(stale, Network) EXCEPT !.asked = "user"]
  <2>1. Room(stale)
    BY <1>2, <1>4 DEF SignedOutHere, Room
  <2> HIDE DEF stale
  <2>2. Right(Gone(stale, Network), signingOut)
    BY <1>2, <2>1, GoneRight, InvGives, ListingAssumption DEF OthersOK
  <2>3. Right(tab', signingOut)
    BY <1>4, <2>2, AskedRight
  <2>4. Right(tab', FALSE)
    BY <2>3 DEF Right, Shape, Away
  <2> QED BY <1>1, <2>4, InvFromRight
<1>5. CASE ~tab.front /\ tab' = stale
  <2>1. CASE Uri(tab) \in Shares
    <3>1. Right(tab', FALSE)
      BY <1>5, <2>1, MarkedStaleRight, InvGives
    <3> QED BY <1>1, <3>1, InvFromRight
  <2>2. CASE Uri(tab) \notin Shares
    <3>1. UnmountedDisk[Uri(tab)] = disk[Uri(tab)] /\ tab' = tab
      BY <1>5, <2>2, InvGives, UnmountedDiskIs
    <3>2. Content(tab, UnmountedDisk, searches)
      BY <3>1, InvGives DEF Content, Shows, RowNow
    <3>3. Shape(tab, FALSE)
      BY InvGives DEF Shape, Away
    <3> QED BY <1>1, <3>1, <3>2, <3>3, InvGives, InvFrom
  <2> QED BY <2>1, <2>2
<1> QED BY <1>3, <1>4, <1>5

-----------------------------------------------------------------------------
(* The invariant holds.                                                    *)

LEMMA NewTabIs ==
    ASSUME NEW l \in Locations, NEW front \in BOOLEAN
    PROVE  LET t == NewTab(l, front)
           IN  /\ TabOK(t) /\ Uri(t) = l /\ t.rows = {} /\ t.watch = NoWatch
               /\ t.state = NotListed /\ t.listing = NoListing
<1> DEFINE t == NewTab(l, front)
<1>1. <<l>> \in Seq(Locations) /\ 1 \in DOMAIN <<l>> /\ <<l>>[1] = l
  OBVIOUS
<1>2. 1 \in 1..MaxSteps
  BY ListingAssumption
<1>3. t \in Tabs
  BY <1>1, <1>2, PartsAreTyped DEF NewTab, Tabs
<1>4. /\ t.steps = <<l>> /\ t.at = 1 /\ t.rows = {} /\ t.watch = NoWatch
      /\ t.state = NotListed /\ t.listing = NoListing
  BY DEF NewTab
<1> QED BY <1>1, <1>3, <1>4 DEF TabOK, Uri

\* A new tab in front lists its folder.
LEMMA FirstLoadRight ==
    ASSUME NEW l \in Locations
    PROVE  /\ Right(Started(Watched(BegunLoad(NewTab(l, TRUE))), "Navigate", TRUE, "Allowed"), FALSE)
           /\ Uri(Started(Watched(BegunLoad(NewTab(l, TRUE))), "Navigate", TRUE, "Allowed")) = l
<1> DEFINE t == NewTab(l, TRUE)
           b == BegunLoad(t)
           v == IF Uri(b) = Network THEN NoWatch
                ELSE IF b.watch.is # "none" /\ b.watch.on = Uri(b) THEN b.watch
                ELSE WatchOf(Uri(b))
           w == [b EXCEPT !.watch = v]
           r == Started(w, "Navigate", TRUE, "Allowed")
<1>1. /\ TabOK(t) /\ Uri(t) = l /\ t.rows = {} /\ t.watch = NoWatch /\ t.state = NotListed
  BY NewTabIs
<1> HIDE DEF t
<1>2. /\ b \in Tabs /\ b.steps = t.steps /\ b.at = t.at /\ b.rows = {}
      /\ b.state = Begun(NotListed) /\ b.watch = NoWatch
  BY <1>1, PartsAreTyped DEF BegunLoad, TabOK, Tabs
<1>3. Watched(b) = w
  BY DEF Watched
<1> HIDE DEF b
<1>4. Uri(b) = l
  BY <1>1, <1>2 DEF Uri
<1>5. v \in Watches /\ v \in {NoWatch, WatchOf(l)}
  BY <1>2, <1>4, PartsAreTyped DEF NoWatch
<1> HIDE DEF v
<1>6. /\ w \in Tabs /\ w.steps = t.steps /\ w.at = t.at /\ w.rows = {}
      /\ w.state = Begun(NotListed) /\ w.watch = v
  BY <1>2, <1>5 DEF Tabs
<1> HIDE DEF w
<1>7. TabOK(w) /\ Uri(w) = l /\ w.state.is = "Listing"
  BY <1>1, <1>6, PartsAreTyped, BegunIs DEF TabOK, Uri
<1>8. WatchIsHere(w)
  BY <1>5, <1>6, <1>7 DEF WatchIsHere, NoWatch, WatchOf
<1>9. Right(r, FALSE)
  BY <1>6, <1>7, <1>8, StartedRight
<1>10. Uri(r) = l
  <2>1. r.steps = w.steps /\ r.at = w.at
    BY <1>6 DEF Started, Tabs
  <2> QED BY <2>1, <1>7 DEF Uri
<1> QED BY <1>3, <1>9, <1>10 DEF b, t

LEMMA InvInit ==
    ASSUME Init
    PROVE  Inv
<1>1. OthersOK /\ signingOut = FALSE
  <2>1. disk \in [Locations -> [is : Kinds, version : 0..MaxChanges]]
    <3>1. [is : {"folder", "unmounted"}, version : {0}] \subseteq [is : Kinds, version : 0..MaxChanges]
      BY ListingAssumption
    <3> QED BY <3>1 DEF Init
  <2>2. 0 \in 0..MaxChanges /\ searches \in [Locations -> 0..MaxSearches]
    BY ListingAssumption DEF Init
  <2> QED BY <2>1, <2>2 DEF Init, OthersOK
<1>2. Right(tab, FALSE)
  <2>1. PICK l \in Locations :
          \/ tab = NewTab(l, FALSE)
          \/ tab = Started(Watched(BegunLoad(NewTab(l, TRUE))), "Navigate", TRUE, "Allowed")
          \/ tab = [Started(Watched(BegunLoad(NewTab(l, TRUE))), "Navigate", TRUE, "Allowed")
                       EXCEPT !.waitsToMount = TRUE, !.asked = "application"]
    BY DEF Init
  <2>2. CASE tab = NewTab(l, FALSE)
    <3> DEFINE t == NewTab(l, FALSE)
    <3>1. /\ TabOK(t) /\ t.rows = {} /\ t.watch = NoWatch
          /\ t.state = NotListed /\ t.listing = NoListing
      BY NewTabIs
    <3> HIDE DEF t
    <3>2. Right(t, FALSE)
      BY <3>1 DEF Right, Shape, Busy, Belong, WatchIsHere, Away, Unread, Reads, AtRest,
          NotListed, NoListing, NoWatch
    <3> QED BY <2>2, <3>2 DEF t
  <2>3. CASE tab = Started(Watched(BegunLoad(NewTab(l, TRUE))), "Navigate", TRUE, "Allowed")
    BY <2>3, FirstLoadRight
  <2>4. CASE tab = [Started(Watched(BegunLoad(NewTab(l, TRUE))), "Navigate", TRUE, "Allowed")
                       EXCEPT !.waitsToMount = TRUE, !.asked = "application"]
    <3> DEFINE s == Started(Watched(BegunLoad(NewTab(l, TRUE))), "Navigate", TRUE, "Allowed")
               h == [s EXCEPT !.waitsToMount = TRUE]
    <3>1. Right(s, FALSE)
      BY FirstLoadRight
    <3>2. tab = [h EXCEPT !.asked = "application"]
      BY <2>4
    <3> HIDE DEF s
    <3>3. /\ h \in Tabs /\ h.steps = s.steps /\ h.at = s.at /\ h.rows = s.rows
          /\ h.state = s.state /\ h.watch = s.watch /\ h.listing = s.listing
          /\ h.front = s.front /\ h.changedWhileHidden = s.changedWhileHidden
          /\ h.unseen = s.unseen /\ h.error = s.error /\ h.interrupted = s.interrupted
      BY <3>1 DEF Right, TabOK, Tabs
    <3> HIDE DEF h
    <3>4. Uri(h) = Uri(s)
      BY <3>3 DEF Uri
    <3>5. Right(h, FALSE)
      BY <3>1, <3>3, <3>4 DEF Right, TabOK, Shape, Busy, Belong, WatchIsHere, Away, Unread,
          Pile, Reads, AtRest, Excused
    <3> QED BY <3>2, <3>5, AskedRight
  <2> QED BY <2>1, <2>2, <2>3, <2>4
<1> QED BY <1>1, <1>2, RightIsEnough DEF Inv, TypeOK, OthersOK, TabOK

\* Every step keeps the invariant.
LEMMA InvStep ==
    ASSUME Inv, [Next]_vars
    PROVE  Inv'
<1>1. CASE UserActs
  BY <1>1, NavigateStep, StepStep, RefreshStep, StopListingStep, LeaveStep, ShowTabStep,
      RevealItemsStep, SignOutBeginsStep DEF UserActs
<1>2. CASE Finish
  BY <1>2, FinishListedStep, FinishFileStep, FinishRemovedStep, FinishUnmountedStep,
      FinishDeniedStep, FinishFailedStep DEF Finish
<1>3. CASE MountAnswers
  BY <1>3, MountedStep, MountFailedStep, MountCancelledStep DEF MountAnswers
<1>4. CASE SearchEnds
  BY <1>4, NearestFoundStep, NoneFoundStep DEF SearchEnds
<1>5. CASE DiskActs
  <2>1. ASSUME NEW l \in Changing, NEW kind \in Kinds \ {"unmounted"}, DiskChanges(l, kind)
        PROVE  Inv'
    <3>1. l \in Locations /\ kind \in Kinds
      BY ListingAssumption
    <3> QED BY <2>1, <3>1, DiskChangesStep
  <2> QED BY <1>5, <2>1, ShareUnmountsStep, ShareMountsStep DEF DiskActs
<1>6. CASE SignOutEnds
  BY <1>6, SignOutFailsStep, SignedOutElsewhereStep, SignedOutHereStep DEF SignOutEnds
<1>7. CASE UNCHANGED vars
  BY <1>7 DEF vars, Inv, TypeOK, Content, Shape
<1> QED BY <1>1, <1>2, <1>3, <1>4, <1>5, <1>6, <1>7, ReceiveBatchStep, EnumerationEndsStep,
    WatchStartsStep, ChangesSettleStep, IntervalPassesStep, FolderUnmountedStep,
    MountRemovedStep DEF Next

LEMMA InvHolds == Spec => []Inv
<1>1. Init => Inv
  BY InvInit
<1>2. Inv /\ [Next]_vars => Inv'
  BY InvStep
<1> QED BY <1>1, <1>2, PTL DEF Spec

-----------------------------------------------------------------------------
(* Mounts nobody asked for.                                                *)

\* Folders that are on no share and stay folders.
Calm == Locations \ (Shares \cup Changing)

\* The tab moves by itself from a file, from a removed folder and from a
\* denied one, and its load then counts as the user's.  Here such a move
\* never ends on the share, nor where it must move on.
OwnMovesStayCalm ==
    /\ Home \in Calm
    /\ \A l \in Locations : \A i \in DOMAIN Above[l] : Above[l][i] \in Calm

\* What an application asked for holds back a mount, or needs none.
HeldBack(t) ==
    /\ t.asked = "application" /\ ~t.waitsToMount => Uri(t) \in Calm
    /\ t.listing.is = "mounting" => ~t.waitsToMount

\* A listing of the share that may mount it began in front.
BeganInFront(t) ==
    /\ t.listing.is \in {"reading", "ended"}
    /\ t.listing.retry = "Allowed"
    /\ Uri(t) \in Shares
    => t.listing.front

\* While a mount is held back, only the first load of a tab is one that
\* goes back from a denied folder, and there is nothing to go back to.
NothingBehind(t) ==
    /\ t.asked = "application" /\ t.waitsToMount
    /\ t.listing.is # "none" /\ t.listing.mode = "Navigate"
    => t.at = 1

FoundRightly(t) ==
    t.listing.is = "ended" =>
        /\ t.listing.found = "unmounted" => Uri(t) \in Shares
        /\ Uri(t) \in Calm => t.listing.found = "folder"

Tame(t) == HeldBack(t) /\ BeganInFront(t) /\ NothingBehind(t) /\ FoundRightly(t)

CalmDisk(d) ==
    \A l \in Locations : /\ d[l].is = "unmounted" => l \in Shares
                         /\ l \in Calm => d[l].is = "folder"

\* The tab is as tame as it was, and no mount began.
Quiet(r, t) == Tame(r) /\ (r.listing.is = "mounting" => t.listing.is = "mounting")

\* No mount runs at all.
NoMount(r) == Tame(r) /\ r.listing.is # "mounting"

\* The location and who asked for it are as they were, and so is the
\* listing but for its rows, unless it ended.
Kept(r, t) ==
    /\ r.steps = t.steps /\ r.at = t.at
    /\ r.asked = t.asked /\ r.waitsToMount = t.waitsToMount
    /\ \/ r.listing.is = "none"
       \/ /\ r.listing.is = t.listing.is /\ r.listing.mode = t.listing.mode
          /\ r.listing.retry = t.listing.retry /\ r.listing.front = t.listing.front
          /\ r.listing.found = t.listing.found

LEMMA KeptIsTame ==
    ASSUME NEW t, NEW r, Tame(t), Kept(r, t)
    PROVE  Quiet(r, t)
<1>1. Uri(r) = Uri(t)
  BY DEF Kept, Uri
<1> QED BY <1>1 DEF Kept, Quiet, Tame, HeldBack, BeganInFront, NothingBehind, FoundRightly

\* A listing that ended or was refused.
LEMMA EndedKept ==
    ASSUME NEW t, TabOK(t)
    PROVE  Kept(Ended(t), t)
BY PartsAreTyped DEF Kept, Ended, NoListing, TabOK, Tabs

LEMMA FailedKept ==
    ASSUME NEW t, TabOK(t), NEW mode, NEW why
    PROVE  Kept(Failed(t, mode, why), t) /\ Failed(t, mode, why).front = t.front
BY DEF Kept, Failed, TabOK, Tabs

LEMMA KeptTwice ==
    ASSUME NEW t, NEW r, NEW q, Kept(r, t), Kept(q, r)
    PROVE  Kept(q, t)
BY DEF Kept

\* load_tab: nothing runs, or a listing that may mount what it lists.
LEMMA LoadedIs ==
    ASSUME NEW t, TabOK(t), NEW mode \in Modes
    PROVE  LET r == Loaded(t, mode)
           IN  /\ r.steps = t.steps /\ r.at = t.at /\ r.asked = t.asked /\ r.front = t.front
               /\ r.waitsToMount = (IF mode = "Navigate" THEN FALSE ELSE t.waitsToMount)
               /\ \/ r.listing.is = "none"
                  \/ /\ r.listing.is = "reading" /\ r.listing.mode = mode
                     /\ r.listing.front = t.front
               /\ r \in Tabs
<1> DEFINE a == IF mode = "Navigate" THEN [t EXCEPT !.waitsToMount = FALSE] ELSE t
           b == BegunLoad(a)
           c == IF mode = "Navigate" THEN Cleared(b) ELSE b
           w == Watched(c)
           waits == IF mode = "Navigate" THEN FALSE ELSE t.waitsToMount
           AsIs(x) == /\ x.steps = t.steps /\ x.at = t.at /\ x.asked = t.asked
                      /\ x.front = t.front /\ x.waitsToMount = waits /\ x \in Tabs
<1>1. AsIs(a)
  BY DEF TabOK, Tabs
<1> HIDE DEF a
<1>2. AsIs(b)
  <2>1. Begun(a.state) \in States
    BY <1>1, PartsAreTyped DEF Tabs
  <2> QED BY <1>1, <2>1, PartsAreTyped DEF BegunLoad, Tabs
<1> HIDE DEF b
<1>3. AsIs(c)
  BY <1>2 DEF Cleared, Tabs
<1> HIDE DEF c
<1>4. AsIs(w)
  <2>1. Uri(c) \in Locations
    BY <1>3, UriIsALocation DEF TabOK
  <2> DEFINE v == IF Uri(c) = Network THEN NoWatch
                  ELSE IF c.watch.is # "none" /\ c.watch.on = Uri(c) THEN c.watch
                  ELSE WatchOf(Uri(c))
  <2>2. v \in Watches
    <3>1. NoWatch \in Watches /\ WatchOf(Uri(c)) \in Watches /\ c.watch \in Watches
      BY <1>3, <2>1, PartsAreTyped DEF Tabs
    <3> QED BY <3>1
  <2>3. w = [c EXCEPT !.watch = v]
    BY <1>3 DEF Watched, Tabs
  <2> HIDE DEF v, w
  <2> QED BY <1>3, <2>2, <2>3 DEF Tabs
<1> HIDE DEF w
<1>5. CASE signingOut /\ Uri(t) \in Shares
  <2> DEFINE f == Failed(c, mode, "refused")
  <2>1. Loaded(t, mode) = Ended(f)
    BY <1>5 DEF Loaded, Refused, a, b, c
  <2>2. TabOK(c)
    BY <1>3 DEF TabOK
  <2>3. TabOK(f) /\ Kept(f, c) /\ f.front = c.front
    BY <2>2, FailedIs, FailedKept DEF Reasons
  <2> HIDE DEF f
  <2>4. Kept(Ended(f), f) /\ Ended(f).front = f.front /\ Ended(f).listing = NoListing
        /\ Ended(f) \in Tabs
    BY <2>3, EndedKept, EndedIs DEF TabOK
  <2> QED BY <1>3, <2>1, <2>3, <2>4 DEF Kept, NoListing
<1>6. CASE ~(signingOut /\ Uri(t) \in Shares)
  <2> DEFINE was == t.error = {}
             lst == [NoListing EXCEPT !.is = "reading", !.mode = mode, !.wasShown = was,
                         !.retry = "Allowed", !.front = w.front]
             r == [w EXCEPT !.listing = lst]
  <2>1. was \in BOOLEAN
    OBVIOUS
  <2>2. Loaded(t, mode) = r
    BY <1>6 DEF Loaded, Started, a, b, c, w
  <2> HIDE DEF was
  <2>3. /\ lst \in Listings /\ lst.is = "reading" /\ lst.mode = mode
        /\ lst.front = t.front
    BY <1>4, <2>1, PartsAreTyped DEF NoListing, Listings, Tabs
  <2> HIDE DEF lst
  <2>4. AsIs(r) /\ r.listing = lst
    BY <1>4, <2>3 DEF Tabs
  <2> QED BY <2>2, <2>3, <2>4
<1> QED BY <1>5, <1>6

\* A load is tame in front or off the share, where an application's request
\* still holds back the mount or needs none.
LEMMA LoadedTame ==
    ASSUME NEW t, TabOK(t), NEW mode \in Modes,
           t.front \/ Uri(t) \notin Shares,
           t.asked = "application" /\ (mode = "Navigate" \/ ~t.waitsToMount)
               => Uri(t) \in Calm
    PROVE  NoMount(Loaded(t, mode))
<1> DEFINE r == Loaded(t, mode)
<1>1. /\ r.steps = t.steps /\ r.at = t.at /\ r.asked = t.asked
      /\ r.waitsToMount = (IF mode = "Navigate" THEN FALSE ELSE t.waitsToMount)
      /\ r.listing.is \in {"none", "reading"}
      /\ r.listing.is = "reading" => r.listing.mode = mode /\ r.listing.front = t.front
  BY LoadedIs
<1> HIDE DEF r
<1>2. Uri(r) = Uri(t)
  BY <1>1 DEF Uri
<1>3. NoMount(r)
  BY <1>1, <1>2 DEF NoMount, Tame, HeldBack, BeganInFront, NothingBehind, FoundRightly
<1> QED BY <1>3 DEF r

\* A load that was asked for, by the user or by an application.
LEMMA AskedTame ==
    ASSUME NEW t, TabOK(t), NEW mode \in Modes, NEW who \in {"user", "application"}
    PROVE  /\ t.front \/ Uri(t) \notin Shares
           /\ who = "application" => mode = "Reload" /\ t.waitsToMount
           => NoMount([Loaded(t, mode) EXCEPT !.asked = who])
<1> DEFINE s == Loaded(t, mode)
<1>1. /\ s.steps = t.steps /\ s.at = t.at /\ s.front = t.front
      /\ s.waitsToMount = (IF mode = "Navigate" THEN FALSE ELSE t.waitsToMount)
      /\ s.listing.is \in {"none", "reading"}
      /\ s.listing.is = "reading" => s.listing.mode = mode /\ s.listing.front = t.front
  BY LoadedIs
<1>2. s \in Tabs
  BY LoadedIs
<1> HIDE DEF s
<1> DEFINE r == [s EXCEPT !.asked = who]
<1>3. /\ r.steps = s.steps /\ r.at = s.at /\ r.asked = who
      /\ r.waitsToMount = s.waitsToMount /\ r.listing = s.listing
  BY <1>2 DEF Tabs
<1> HIDE DEF r
<1>4. Uri(r) = Uri(t)
  BY <1>1, <1>3 DEF Uri
<1>5. ASSUME t.front \/ Uri(t) \notin Shares,
             who = "application" => mode = "Reload" /\ t.waitsToMount
      PROVE  NoMount(r)
  BY <1>1, <1>3, <1>4, <1>5 DEF NoMount, Tame, HeldBack, BeganInFront, NothingBehind, FoundRightly
<1> QED BY <1>5 DEF r, s

\* folder_changed: waits_until_shown keeps a hidden share from being listed.
LEMMA FolderChangedTame ==
    ASSUME NEW t, TabOK(t), Tame(t)
    PROVE  Quiet(FolderChanged(t), t) /\ FolderChanged(t).front = t.front
<1>1. CASE WaitsUntilShown(t)
  <2>1. Kept(FolderChanged(t), t) /\ FolderChanged(t).front = t.front
    BY <1>1 DEF FolderChanged, Kept, TabOK, Tabs
  <2> QED BY <2>1, KeptIsTame
<1>2. CASE ~WaitsUntilShown(t) /\ t.state.is = "Listing"
  <2>1. Kept(FolderChanged(t), t) /\ FolderChanged(t).front = t.front
    BY <1>2 DEF FolderChanged, ReloadScheduled, Kept, TabOK, Tabs
  <2> QED BY <2>1, KeptIsTame
<1>3. CASE ~WaitsUntilShown(t) /\ t.state.is # "Listing"
  <2>1. FolderChanged(t) = Loaded(t, "Reload")
    BY <1>3 DEF FolderChanged
  <2>2. t.front \/ Uri(t) \notin Shares
    BY <1>3 DEF WaitsUntilShown
  <2>3. t.asked = "application" /\ ~t.waitsToMount => Uri(t) \in Calm
    BY DEF Tame, HeldBack
  <2>4. Quiet(Loaded(t, "Reload"), t)
    BY <2>2, <2>3, LoadedTame DEF NoMount, Quiet
  <2>5. Loaded(t, "Reload").front = t.front
    BY LoadedIs
  <2> QED BY <2>1, <2>4, <2>5
<1> QED BY <1>1, <1>2, <1>3

LEMMA QuietTwice ==
    ASSUME NEW t, NEW r, NEW q, Quiet(r, t), Quiet(q, r)
    PROVE  Quiet(q, t)
BY DEF Quiet

\* The end of a listing.
LEMMA EndedListingTame ==
    ASSUME NEW t, TabOK(t), Tame(t)
    PROVE  Quiet(EndedListing(t), t)
<1>1. TabOK(Ended(t)) /\ Quiet(Ended(t), t)
  BY EndedIs, EndedKept, KeptIsTame
<1>2. Quiet(FolderChanged(Ended(t)), Ended(t))
  BY <1>1, FolderChangedTame DEF Quiet
<1> QED BY <1>1, <1>2, QuietTwice DEF EndedListing

\* Moving on in the history.
LEMMA PushedKeeps ==
    ASSUME NEW t, TabOK(t), NEW l \in Locations
    PROVE  Pushed(t, l).front = t.front
BY DEF Pushed, TabOK, Tabs

LEMMA NavigateTame ==
    ASSUME Inv, NEW l \in Locations, Navigate(l)
    PROVE  NoMount(tab')
<1> DEFINE p == Pushed(tab, l)
<1>1. TabOK(p) /\ p.front
  BY InvGives, PushedIs, PushedKeeps DEF Navigate
<1>2. tab' = [Loaded(p, "Navigate") EXCEPT !.asked = "user"]
  BY DEF Navigate, Gone
<1> HIDE DEF p
<1> QED BY <1>1, <1>2, AskedTame

LEMMA StepTame ==
    ASSUME Inv, NEW at \in 1..MaxSteps, Step(at)
    PROVE  NoMount(tab')
<1> DEFINE p == [tab EXCEPT !.at = at]
<1>1. TabOK(p) /\ p.front
  BY InvGives DEF Step, TabOK, Tabs
<1>2. tab' = [Loaded(p, "Navigate") EXCEPT !.asked = "user"]
  BY DEF Step
<1> HIDE DEF p
<1> QED BY <1>1, <1>2, AskedTame

LEMMA RefreshTame ==
    ASSUME Inv, Refresh
    PROVE  NoMount(tab')
<1> DEFINE p == [tab EXCEPT !.waitsToMount = FALSE]
<1>1. TabOK(p) /\ p.front
  BY InvGives DEF Refresh, TabOK, Tabs
<1>2. tab' = [Loaded(p, "Reload") EXCEPT !.asked = "user"]
  BY DEF Refresh
<1> HIDE DEF p
<1> QED BY <1>1, <1>2, AskedTame

\* Stop, and a declined sign-in.
LEMMA InterruptedKept ==
    ASSUME NEW t, TabOK(t)
    PROVE  Kept([Ended(t) EXCEPT !.interrupted = TRUE], t)
<1> DEFINE e == Ended(t)
           r == [e EXCEPT !.interrupted = TRUE]
<1>1. Kept(e, t) /\ TabOK(e)
  BY EndedKept, EndedIs
<1> HIDE DEF e
<1>2. Kept(r, e)
  BY <1>1 DEF Kept, TabOK, Tabs
<1>3. Kept(r, t)
  BY <1>1, <1>2, KeptTwice
<1> QED BY <1>3 DEF r, e

\* A tab that comes to the front.
LEMMA ShownTame ==
    ASSUME Inv, Tame(tab)
    PROVE  Quiet(Shown(tab), tab) /\ Shown(tab).front
<1> DEFINE p == [tab EXCEPT !.front = TRUE, !.changedWhileHidden = FALSE]
<1>1. TabOK(p) /\ p.front /\ Kept(p, tab)
  BY InvGives DEF TabOK, Tabs, Kept
<1> HIDE DEF p
<1>2. Quiet(p, tab)
  BY <1>1, KeptIsTame
<1>3. CASE tab.state.is = "NotListed"
  <2> DEFINE s == Loaded(p, "Navigate")
  <2>1. NoMount([s EXCEPT !.asked = "user"])
    BY <1>1, AskedTame
  <2>2. s \in Tabs /\ s.front
    BY <1>1, LoadedIs
  <2>3. Shown(tab) = [s EXCEPT !.asked = "user"]
    BY <1>3 DEF Shown, p
  <2> HIDE DEF s
  <2>4. [s EXCEPT !.asked = "user"].front
    BY <2>2 DEF Tabs
  <2> QED BY <2>1, <2>3, <2>4 DEF NoMount, Quiet
<1>4. CASE tab.state.is # "NotListed" /\ tab.changedWhileHidden
  <2>1. Shown(tab) = FolderChanged(p)
    BY <1>4 DEF Shown, p
  <2>2. Quiet(FolderChanged(p), p) /\ FolderChanged(p).front
    BY <1>1, <1>2, FolderChangedTame DEF Quiet
  <2> QED BY <1>2, <2>1, <2>2, QuietTwice
<1>5. CASE tab.state.is # "NotListed" /\ ~tab.changedWhileHidden
  <2>1. Shown(tab) = p
    BY <1>5 DEF Shown, p
  <2> QED BY <1>1, <1>2, <2>1
<1> QED BY <1>3, <1>4, <1>5

LEMMA RevealItemsTame ==
    ASSUME Inv, Tame(tab), RevealItems
    PROVE  NoMount(tab')
<1> DEFINE shown == IF tab.front THEN tab ELSE Shown(tab)
           p == [shown EXCEPT !.waitsToMount = TRUE]
<1>1. TabOK(shown) /\ shown.front
  BY InvGives, ShownIs, ShownTame
<1>2. tab' = [Loaded(p, "Reload") EXCEPT !.asked = "application"]
  BY DEF RevealItems
<1> HIDE DEF shown
<1>3. TabOK(p) /\ p.front /\ p.waitsToMount
  BY <1>1 DEF TabOK, Tabs
<1> HIDE DEF p
<1> QED BY <1>2, <1>3, AskedTame

LEMMA StoppedReadingKept ==
    ASSUME NEW t, TabOK(t)
    PROVE  Kept(StoppedReading(t), t)
BY PartsAreTyped DEF Kept, StoppedReading, NoListing, TabOK, Tabs

LEMMA UserActsTame ==
    ASSUME Inv, Tame(tab), UserActs
    PROVE  Quiet(tab', tab) /\ disk' = disk
<1>1. disk' = disk
  BY DEF UserActs, Navigate, Step, Refresh, StopListing, Leave, ShowTab, RevealItems,
      SignOutBegins, OnlyTab
<1> SUFFICES Quiet(tab', tab)
  BY <1>1
<1>2. ASSUME NEW l \in Locations, Navigate(l)
      PROVE  Quiet(tab', tab)
  BY <1>2, NavigateTame DEF NoMount, Quiet
<1>3. ASSUME NEW at \in 1..MaxSteps, Step(at)
      PROVE  Quiet(tab', tab)
  BY <1>3, StepTame DEF NoMount, Quiet
<1>4. CASE Refresh
  BY <1>4, RefreshTame DEF NoMount, Quiet
<1>5. CASE StopListing
  BY <1>5, InvGives, InterruptedKept, KeptIsTame DEF StopListing
<1>6. CASE Leave
  <2>1. Kept(tab', tab)
    BY <1>6, InvGives DEF Leave, Kept, TabOK, Tabs
  <2> QED BY <2>1, KeptIsTame
<1>7. CASE ShowTab
  BY <1>7, ShownTame DEF ShowTab
<1>8. CASE RevealItems
  BY <1>8, RevealItemsTame DEF NoMount, Quiet
<1>9. CASE SignOutBegins
  <2>1. tab' = StoppedReading(tab) \/ tab' = tab
    BY <1>9 DEF SignOutBegins
  <2>2. Kept(StoppedReading(tab), tab)
    BY InvGives, StoppedReadingKept
  <2>3. Quiet(StoppedReading(tab), tab)
    BY <2>2, KeptIsTame
  <2> QED BY <2>1, <2>3 DEF Quiet
<1> QED BY <1>1, <1>2, <1>3, <1>4, <1>5, <1>6, <1>7, <1>8, <1>9 DEF UserActs

LEMMA ReceiveBatchTame ==
    ASSUME Inv, Tame(tab), ReceiveBatch
    PROVE  Quiet(tab', tab)
<1>1. tab \in Tabs /\ tab.listing \in Listings
  BY InvGives DEF TabOK, Tabs
<1>2. CASE tab.listing.mode = "Reload"
  <2>1. tab' = [tab EXCEPT !.listing.read = TRUE,
                   !.listing.held = tab.listing.held
                       \cup {[of |-> Uri(tab), version |-> disk[Uri(tab)].version]}]
    BY <1>2 DEF ReceiveBatch
  <2>2. Kept(tab', tab)
    BY <1>1, <2>1 DEF Kept, Tabs, Listings
  <2> QED BY <2>2, KeptIsTame
<1>3. CASE tab.listing.mode # "Reload"
  <2>1. tab' = [tab EXCEPT !.listing.read = TRUE,
                   !.rows = @ \cup {[of |-> Uri(tab), version |-> disk[Uri(tab)].version]}]
    BY <1>3 DEF ReceiveBatch
  <2>2. Kept(tab', tab)
    BY <1>1, <2>1 DEF Kept, Tabs, Listings
  <2> QED BY <2>2, KeptIsTame
<1> QED BY <1>2, <1>3

LEMMA EnumerationEndsTame ==
    ASSUME Inv, Tame(tab), CalmDisk(disk), EnumerationEnds
    PROVE  Quiet(tab', tab)
<1>1. /\ tab \in Tabs /\ tab.listing \in Listings /\ tab.listing.is = "reading"
      /\ Uri(tab) \in Locations
  BY InvGives DEF EnumerationEnds, TabOK, Tabs
<1>2. /\ tab'.steps = tab.steps /\ tab'.at = tab.at /\ tab'.asked = tab.asked
      /\ tab'.waitsToMount = tab.waitsToMount
      /\ tab'.listing.is = "ended" /\ tab'.listing.mode = tab.listing.mode
      /\ tab'.listing.retry = tab.listing.retry /\ tab'.listing.front = tab.listing.front
      /\ tab'.listing.found = disk[Uri(tab)].is
  BY <1>1 DEF EnumerationEnds, Tabs, Listings
<1>3. Uri(tab') = Uri(tab)
  BY <1>2 DEF Uri
<1>4. /\ disk[Uri(tab)].is = "unmounted" => Uri(tab) \in Shares
      /\ Uri(tab) \in Calm => disk[Uri(tab)].is = "folder"
  BY <1>1 DEF CalmDisk
<1> QED BY <1>1, <1>2, <1>3, <1>4 DEF Tame, HeldBack, BeganInFront, NothingBehind,
    FoundRightly, Quiet

LEMMA FinishListedTame ==
    ASSUME Inv, Tame(tab), FinishListed
    PROVE  Quiet(tab', tab)
<1> DEFINE p == IF tab.listing.mode = "Reload" THEN [tab EXCEPT !.rows = tab.listing.held] ELSE tab
<1>1. TabOK(p) /\ Kept(p, tab)
  BY InvGives DEF TabOK, Tabs, Listings, Kept
<1>2. tab' = EndedListing(p)
  BY DEF FinishListed
<1> HIDE DEF p
<1>3. Quiet(p, tab)
  BY <1>1, KeptIsTame
<1>4. Quiet(EndedListing(p), p)
  BY <1>1, <1>3, EndedListingTame DEF Quiet
<1> QED BY <1>2, <1>3, <1>4, QuietTwice

\* The folder of a file is calm, so that its load mounts nothing.
LEMMA FinishFileTame ==
    ASSUME Inv, OwnMovesStayCalm, FinishFile
    PROVE  NoMount(tab')
<1> DEFINE n == Stopped(tab.state)
           steps == [tab.steps EXCEPT ![tab.at] = Folder(Uri(tab))]
           t == [tab EXCEPT !.steps = steps, !.state = n, !.watch = NoWatch]
<1>1. n \in States
  BY InvGives, PartsAreTyped DEF TabOK, Tabs
<1>2. Folder(Uri(tab)) \in Locations /\ Folder(Uri(tab)) \in Calm
  <2>1. Above[Uri(tab)] \in Seq(Locations)
    BY InvGives, ListingAssumption
  <2> QED BY <2>1, InvGives DEF Folder, OwnMovesStayCalm, Calm
<1>3. /\ steps \in Seq(Locations) /\ DOMAIN steps = DOMAIN tab.steps
      /\ steps[tab.at] = Folder(Uri(tab))
  BY <1>2, InvGives DEF TabOK, Tabs
<1>4. tab' = Loaded(t, "Navigate")
  BY InvGives DEF FinishFile, TabOK, Tabs
<1> HIDE DEF n, steps
<1>5. TabOK(t) /\ t.steps = steps /\ t.at = tab.at
  BY <1>1, <1>3, InvGives, PartsAreTyped DEF TabOK, Tabs
<1> HIDE DEF t
<1>6. Uri(t) \in Calm /\ Uri(t) \notin Shares
  BY <1>2, <1>3, <1>5 DEF Uri, Calm
<1> QED BY <1>4, <1>5, <1>6, LoadedTame

\* Only where the user went is there a folder to go back from.
LEMMA FinishDeniedTame ==
    ASSUME Inv, Tame(tab), FinishDenied
    PROVE  NoMount(tab')
<1> DEFINE e == Ended(tab)
           steps == SubSeq(tab.steps, 1, tab.at - 1)
           t == [e EXCEPT !.steps = steps, !.at = tab.at - 1]
<1>1. TabOK(e) /\ e.front = tab.front /\ e.asked = tab.asked
  BY EndedIs, InvGives, EndedKept DEF Kept
<1>2. /\ tab.steps \in Seq(Locations) /\ tab.at \in 1..MaxSteps /\ tab.at \in 1..Len(tab.steps)
      /\ tab.at > 1
  BY InvGives DEF TabOK, Tabs, FinishDenied, MayLeaveDenied
<1>3. /\ tab.at - 1 \in 1..MaxSteps
      /\ tab.at - 1 \in 1..Len(tab.steps)
  BY <1>2, ListingAssumption
<1>4. steps \in Seq(Locations) /\ DOMAIN steps = 1..(tab.at - 1)
  BY <1>2, <1>3, SubSeqProperties
<1>5. tab' = Loaded(t, "Navigate")
  BY DEF FinishDenied
<1> HIDE DEF e, steps
<1>6. /\ t \in Tabs /\ t.steps = steps /\ t.at = tab.at - 1 /\ t.front = tab.front
      /\ t.asked = tab.asked
  BY <1>1, <1>3, <1>4 DEF TabOK, Tabs
<1> HIDE DEF t
<1>7. TabOK(t)
  BY <1>3, <1>4, <1>6 DEF TabOK
<1>8. tab.front /\ tab.asked # "application"
  <2>1. /\ tab.listing.is = "ended" /\ tab.listing.found = "denied"
        /\ tab.listing.mode = "Navigate" /\ tab.front
    BY DEF FinishDenied, MayLeaveDenied, Ends
  <2>2. CASE tab.waitsToMount
    BY <1>2, <2>1, <2>2 DEF Tame, NothingBehind
  <2>3. CASE ~tab.waitsToMount
    BY <2>1, <2>3 DEF Tame, HeldBack, FoundRightly
  <2> QED BY <2>1, <2>2, <2>3
<1> QED BY <1>5, <1>6, <1>7, <1>8, LoadedTame

LEMMA FinishFailedTame ==
    ASSUME Inv, Tame(tab), FinishFailed
    PROVE  Quiet(tab', tab)
<1> DEFINE f == Failed(tab, tab.listing.mode, tab.listing.found)
<1>1. tab.listing.found \in Reasons
  BY DEF FinishFailed, Ends, Reasons
<1>2. TabOK(f) /\ Kept(f, tab)
  BY <1>1, InvGives, FailedIs, FailedKept
<1>3. tab' = EndedListing(f)
  BY DEF FinishFailed
<1> HIDE DEF f
<1>4. Quiet(f, tab)
  BY <1>2, KeptIsTame
<1>5. Quiet(EndedListing(f), f)
  BY <1>2, <1>4, EndedListingTame DEF Quiet
<1> QED BY <1>3, <1>4, <1>5, QuietTwice

\* mount_and_list_again: the one step that begins a mount.
LEMMA FinishUnmountedTame ==
    ASSUME Inv, Tame(tab), FinishUnmounted
    PROVE  Tame(tab') /\ tab.listing.front /\ tab.asked = "user"
<1>1. /\ tab \in Tabs /\ tab.listing \in Listings
      /\ tab.listing.is = "ended" /\ tab.listing.found = "unmounted"
      /\ tab.listing.retry = "Allowed" /\ ~tab.waitsToMount
  BY InvGives DEF FinishUnmounted, Ends, MayMount, TabOK, Tabs
<1>2. Uri(tab) \in Shares /\ Uri(tab) \notin Calm
  BY <1>1 DEF Tame, FoundRightly, Calm
<1>3. tab.listing.front /\ tab.asked # "application"
  BY <1>1, <1>2 DEF Tame, BeganInFront, HeldBack
<1>4. tab.asked \in {"user", "application"}
  BY <1>1 DEF Tabs
<1>5. /\ tab'.steps = tab.steps /\ tab'.at = tab.at /\ tab'.asked = tab.asked
      /\ tab'.waitsToMount = tab.waitsToMount /\ tab'.listing.is = "mounting"
  BY <1>1 DEF FinishUnmounted, Tabs, Listings
<1>6. Uri(tab') = Uri(tab)
  BY <1>5 DEF Uri
<1> QED BY <1>1, <1>3, <1>4, <1>5, <1>6 DEF Tame, HeldBack, BeganInFront, NothingBehind,
    FoundRightly

LEMMA FinishRemovedTame ==
    ASSUME Inv, Tame(tab), FinishRemoved
    PROVE  Quiet(tab', tab)
BY InvGives, EndedKept, KeptIsTame DEF FinishRemoved

LEMMA MountAnswersTame ==
    ASSUME Inv, Tame(tab), CalmDisk(disk), MountAnswers
    PROVE  Quiet(tab', tab) /\ CalmDisk(disk')
<1>1. CASE Mounted
  <2> DEFINE c == Cleared(tab)
             was == tab.listing.wasShown
             lst == [NoListing EXCEPT !.is = "reading", !.mode = "Navigate",
                         !.wasShown = was, !.retry = "Used", !.front = tab.listing.front]
             r == [c EXCEPT !.listing = lst]
  <2>1. /\ c \in Tabs /\ c.steps = tab.steps /\ c.at = tab.at /\ c.asked = tab.asked
        /\ c.waitsToMount = tab.waitsToMount /\ was \in BOOLEAN
        /\ tab.listing.front \in BOOLEAN /\ c.front \in BOOLEAN
    BY InvGives DEF Cleared, TabOK, Tabs, Listings
  <2>2. tab' = r
    <3>1. tab' = [Started(c, "Navigate", was, "Used") EXCEPT !.listing.front = tab.listing.front]
      BY <1>1 DEF Mounted
    <3> HIDE DEF c, was
    <3> DEFINE k == [NoListing EXCEPT !.is = "reading", !.mode = "Navigate",
                         !.wasShown = was, !.retry = "Used", !.front = c.front]
               q == [c EXCEPT !.listing = k]
    <3>2. Started(c, "Navigate", was, "Used") = q
      BY DEF Started
    <3>3. q.listing = k /\ [k EXCEPT !.front = tab.listing.front] = lst
      BY <2>1 DEF Tabs, NoListing
    <3>4. [q EXCEPT !.listing.front = tab.listing.front]
            = [q EXCEPT !.listing = [k EXCEPT !.front = tab.listing.front]]
      BY <3>3
    <3> HIDE DEF k, lst
    <3>5. [q EXCEPT !.listing = lst] = r
      BY <2>1 DEF Tabs
    <3> QED BY <3>1, <3>2, <3>3, <3>4, <3>5
  <2>3. lst.is = "reading" /\ lst.retry = "Used"
    BY DEF NoListing
  <2> HIDE DEF c, lst
  <2>4. /\ r.steps = tab.steps /\ r.at = tab.at /\ r.asked = tab.asked
        /\ r.waitsToMount = tab.waitsToMount /\ r.listing = lst
    BY <2>1 DEF Tabs
  <2> HIDE DEF r
  <2>5. Uri(r) = Uri(tab) /\ tab.listing.is = "mounting"
    BY <1>1, <2>4 DEF Uri, Mounted
  <2>6. Quiet(r, tab)
    BY <2>3, <2>4, <2>5 DEF Tame, HeldBack, BeganInFront, NothingBehind, FoundRightly, Quiet
  <2>7. CalmDisk(disk')
    BY <1>1, InvGives DEF Mounted, MountedDisk, CalmDisk, OthersOK
  <2> QED BY <2>2, <2>6, <2>7
<1>2. CASE MountFailed
  <2> DEFINE f == Failed(tab, tab.listing.mode, "refused")
  <2>1. TabOK(f) /\ Kept(f, tab)
    BY InvGives, FailedIs, FailedKept DEF Reasons
  <2>2. tab' = Ended(f) /\ disk' = disk
    BY <1>2 DEF MountFailed, Refused, OnlyTab
  <2> HIDE DEF f
  <2>3. Kept(Ended(f), tab)
    BY <2>1, EndedKept, KeptTwice
  <2> QED BY <2>2, <2>3, KeptIsTame
<1>3. CASE MountCancelled
  BY <1>3, InvGives, InterruptedKept, KeptIsTame DEF MountCancelled, OnlyTab
<1> QED BY <1>1, <1>2, <1>3 DEF MountAnswers

\* Some numbers have a smallest.
LEMMA SmallestOfSome ==
    ASSUME NEW T \in SUBSET Nat, T # {}
    PROVE  \E i \in T : \A j \in T : i <= j
<1> DEFINE R == OpToRel(<, Nat)
<1>1. IsWellFoundedOn(R, Nat)
  BY NatLessThanWellFounded
<1>2. \A x, y \in Nat : x < y => <<x, y>> \in R
  BY DEF OpToRel
<1> HIDE DEF R
<1>3. PICK x \in T : \A y \in T : ~ (<<y, x>> \in R)
  BY <1>1, WFMin
<1>4. ASSUME NEW j \in T PROVE x <= j
  <2>1. x \in Nat /\ j \in Nat
    OBVIOUS
  <2>2. ~ (<<j, x>> \in R)
    BY <1>3, <1>4
  <2>3. ~ (j < x)
    BY <1>2, <2>1, <2>2
  <2> QED BY <2>1, <2>3
<1> QED BY <1>4

LEMMA SearchEndsTame ==
    ASSUME Inv, Tame(tab), OwnMovesStayCalm, SearchEnds
    PROVE  Quiet(tab', tab) /\ disk' = disk
<1>1. ASSUME NEW l \in Locations, NEW folder \in Locations, NearestFound(l, folder)
      PROVE  Quiet(tab', tab)
  <2>1. CASE Uri(tab) = l
    <3> DEFINE p == Pushed(tab, folder)
    <3>1. TabOK(p) /\ Uri(p) = folder
      BY <1>1, <2>1, InvGives, PushedIs DEF NearestFound
    <3>2. tab' = Loaded(p, "Navigate")
      BY <1>1, <2>1 DEF NearestFound, Gone
    <3>3. folder \in Calm
      <4>1. \E i \in DOMAIN Above[l] : folder = Above[l][i]
        <5> DEFINE nearest == CHOOSE i \in FoldersAbove(l) : \A j \in FoldersAbove(l) : i <= j
        <5>1. folder = Above[l][nearest] /\ FoldersAbove(l) # {}
          BY <1>1 DEF NearestFound
        <5>2. FoldersAbove(l) \subseteq DOMAIN Above[l] /\ DOMAIN Above[l] \subseteq Nat
          BY ListingAssumption DEF FoldersAbove
        <5>3. \E i \in FoldersAbove(l) : \A j \in FoldersAbove(l) : i <= j
          BY <5>1, <5>2, SmallestOfSome
        <5>4. nearest \in FoldersAbove(l)
          BY <5>3
        <5> QED BY <5>1, <5>2, <5>4
      <4> QED BY <4>1 DEF OwnMovesStayCalm
    <3> HIDE DEF p
    <3>4. NoMount(Loaded(p, "Navigate"))
      BY <3>1, <3>3, LoadedTame DEF Calm
    <3> QED BY <3>2, <3>4 DEF NoMount, Quiet
  <2>2. CASE Uri(tab) # l
    BY <1>1, <2>2 DEF NearestFound, Quiet
  <2> QED BY <2>1, <2>2
<1>2. ASSUME NEW l \in Locations, NoneFound(l)
      PROVE  Quiet(tab', tab)
  <2> DEFINE f == Failed(tab, "Reload", "missing")
  <2>1. TabOK(f) /\ Kept(f, tab)
    BY InvGives, FailedIs, FailedKept DEF Reasons
  <2>2. tab' = [f EXCEPT !.error = {[about |-> l, why |-> "missing"]}]
    BY <1>2 DEF NoneFound
  <2> HIDE DEF f
  <2>3. Kept(tab', f)
    BY <2>1, <2>2 DEF Kept, TabOK, Tabs
  <2> QED BY <2>1, <2>3, KeptTwice, KeptIsTame
<1> QED BY <1>1, <1>2 DEF SearchEnds, NearestFound, NoneFound

\* What a watch hears leaves the listing alone.
LEMMA HeardKept ==
    ASSUME NEW t, TabOK(t), NEW l
    PROVE  Kept(Heard(t, l), t)
BY DEF Kept, Heard, TabOK, Tabs

LEMMA HeardUnmountKept ==
    ASSUME NEW t, TabOK(t)
    PROVE  Kept(HeardUnmount(t), t)
BY DEF Kept, HeardUnmount, TabOK, Tabs

LEMMA UnmountedDiskCalm ==
    ASSUME OthersOK, CalmDisk(disk)
    PROVE  CalmDisk(UnmountedDisk)
BY DEF CalmDisk, UnmountedDisk, OthersOK, Calm

LEMMA DiskActsTame ==
    ASSUME Inv, Tame(tab), CalmDisk(disk), DiskActs
    PROVE  Quiet(tab', tab) /\ CalmDisk(disk')
<1>1. ASSUME NEW l \in Changing, NEW kind \in Kinds \ {"unmounted"}, DiskChanges(l, kind)
      PROVE  Quiet(tab', tab) /\ CalmDisk(disk')
  <2>1. Quiet(tab', tab)
    BY <1>1, InvGives, HeardKept, KeptIsTame DEF DiskChanges
  <2>2. CalmDisk(disk')
    BY <1>1, InvGives, ListingAssumption DEF DiskChanges, CalmDisk, OthersOK, Calm
  <2> QED BY <2>1, <2>2
<1>2. CASE ShareUnmounts
  BY <1>2, InvGives, HeardUnmountKept, KeptIsTame, UnmountedDiskCalm DEF ShareUnmounts
<1>3. CASE ShareMounts
  <2>1. tab' = Heard(tab, tab.watch.on) \/ tab' = tab
    BY <1>3 DEF ShareMounts
  <2>2. Quiet(Heard(tab, tab.watch.on), tab)
    BY InvGives, HeardKept, KeptIsTame
  <2>3. CalmDisk(disk')
    BY <1>3, InvGives DEF ShareMounts, CalmDisk, OthersOK
  <2> QED BY <2>1, <2>2, <2>3 DEF Quiet
<1> QED BY <1>1, <1>2, <1>3 DEF DiskActs

LEMMA DisconnectedTame ==
    ASSUME NEW t, TabOK(t), Tame(t)
    PROVE  Quiet(Disconnected(t), t)
<1>1. CASE t.error = {} /\ t.state.is # "NotListed"
  <2> DEFINE s == StoppedReading(t)
  <2>1. TabOK(s) /\ Kept(s, t)
    BY StoppedReadingIs, StoppedReadingKept
  <2>2. Disconnected(t) =
          [s EXCEPT !.state = Listed, !.changedWhileHidden = FALSE, !.rows = {},
                    !.error = {[about |-> Uri(t), why |-> "unmounted"]}]
    BY <1>1 DEF Disconnected
  <2> HIDE DEF s
  <2>3. Kept(Disconnected(t), s)
    BY <2>1, <2>2 DEF Kept, TabOK, Tabs
  <2> QED BY <2>1, <2>3, KeptTwice, KeptIsTame
<1>2. CASE ~(t.error = {} /\ t.state.is # "NotListed")
  BY <1>2 DEF Disconnected, Quiet
<1> QED BY <1>1, <1>2

LEMMA WatchTame ==
    ASSUME Inv, Tame(tab),
           \/ \E is \in {"live", "polling"} : WatchStarts(is)
           \/ ChangesSettle \/ IntervalPasses \/ FolderUnmounted \/ MountRemoved
    PROVE  Quiet(tab', tab) /\ disk' = disk
<1>1. disk' = disk
  BY DEF WatchStarts, ChangesSettle, IntervalPasses, FolderUnmounted, MountRemoved, OnlyTab
<1> SUFFICES Quiet(tab', tab)
  BY <1>1
<1>2. ASSUME NEW is \in {"live", "polling"}, WatchStarts(is)
      PROVE  Quiet(tab', tab)
  <2>1. Kept(tab', tab)
    BY <1>2, InvGives DEF WatchStarts, Kept, TabOK, Tabs
  <2> QED BY <2>1, KeptIsTame
<1>3. CASE ChangesSettle
  <2> DEFINE w == [tab.watch EXCEPT !.changed = FALSE]
             p == [tab EXCEPT !.watch = w]
  <2>1. w \in Watches
    BY InvGives, WatchParts
  <2>2. tab' = FolderChanged(p)
    BY <1>3 DEF ChangesSettle
  <2> HIDE DEF w
  <2>3. TabOK(p) /\ Kept(p, tab)
    BY <2>1, InvGives DEF TabOK, Tabs, Kept
  <2> HIDE DEF p
  <2>4. Quiet(p, tab)
    BY <2>3, KeptIsTame
  <2>5. Quiet(FolderChanged(p), p)
    BY <2>3, <2>4, FolderChangedTame DEF Quiet
  <2> QED BY <2>2, <2>4, <2>5, QuietTwice
<1>4. CASE IntervalPasses
  BY <1>4, InvGives, FolderChangedTame DEF IntervalPasses
<1>5. CASE FolderUnmounted
  <2> DEFINE w == [tab.watch EXCEPT !.gone = FALSE, !.changed = FALSE]
             p == [tab EXCEPT !.watch = w]
  <2>1. w \in Watches
    BY InvGives, WatchParts DEF Watches
  <2>2. tab' = Disconnected(p)
    <3>1. [tab EXCEPT !.watch.gone = FALSE, !.watch.changed = FALSE] = p
      BY InvGives DEF TabOK, Tabs
    <3> HIDE DEF p
    <3> QED BY <1>5, <3>1 DEF FolderUnmounted
  <2> HIDE DEF w
  <2>3. TabOK(p) /\ Kept(p, tab)
    BY <2>1, InvGives DEF TabOK, Tabs, Kept
  <2> HIDE DEF p
  <2>4. Quiet(p, tab)
    BY <2>3, KeptIsTame
  <2>5. Quiet(Disconnected(p), p)
    BY <2>3, <2>4, DisconnectedTame DEF Quiet
  <2> QED BY <2>2, <2>4, <2>5, QuietTwice
<1>6. CASE MountRemoved
  BY <1>6, InvGives, DisconnectedTame DEF MountRemoved, Quiet
<1> QED BY <1>1, <1>2, <1>3, <1>4, <1>5, <1>6

LEMMA SignOutEndsTame ==
    ASSUME Inv, Tame(tab), CalmDisk(disk), SignOutEnds
    PROVE  Quiet(tab', tab) /\ CalmDisk(disk')
<1>1. CASE SignOutFails
  BY <1>1 DEF SignOutFails, Quiet
<1>2. CASE SignedOutElsewhere
  BY <1>2, InvGives, UnmountedDiskCalm DEF SignedOutElsewhere, Quiet
<1>3. CASE SignedOutHere
  <2> DEFINE stale == IF Uri(tab) \in Shares THEN MarkedStale(tab) ELSE tab
  <2>1. TabOK(stale) /\ stale.at = tab.at /\ Kept(stale, tab) /\ stale.front = tab.front
    <3>1. CASE Uri(tab) \in Shares
      <4> DEFINE s == StoppedReading(tab)
                 q == [s EXCEPT !.state = NotListed, !.error = {}, !.rows = {}]
      <4>1. TabOK(s) /\ Kept(s, tab) /\ s.front = tab.front
        BY InvGives, StoppedReadingIs, StoppedReadingKept
      <4>2. MarkedStale(tab) = q
        BY DEF MarkedStale
      <4> HIDE DEF s
      <4>3. Kept(q, s) /\ q.front = s.front
        BY <4>1 DEF Kept, TabOK, Tabs
      <4>4. Kept(q, tab)
        BY <4>1, <4>3, KeptTwice
      <4>5. TabOK(MarkedStale(tab)) /\ MarkedStale(tab).at = tab.at
        BY InvGives, MarkedStaleRight DEF Right
      <4> QED BY <3>1, <4>1, <4>2, <4>3, <4>4, <4>5
    <3>2. CASE Uri(tab) \notin Shares
      BY <3>2, InvGives DEF Kept
    <3> QED BY <3>1, <3>2
  <2>2. CalmDisk(disk')
    BY <1>3, InvGives, UnmountedDiskCalm DEF SignedOutHere
  <2>3. CASE tab.front
    <3> DEFINE p == Pushed(stale, Network)
    <3>1. Network \in Locations /\ Network \notin Shares
      BY ListingAssumption
    <3>2. Room(stale)
      BY <1>3, <2>1, <2>3 DEF SignedOutHere, Room
    <3>3. tab' = [Loaded(p, "Navigate") EXCEPT !.asked = "user"]
      BY <1>3, <2>3 DEF SignedOutHere, Gone
    <3> HIDE DEF stale
    <3>4. TabOK(p) /\ Uri(p) = Network
      BY <2>1, <3>1, <3>2, PushedIs
    <3> HIDE DEF p
    <3>5. NoMount(tab')
      BY <3>1, <3>3, <3>4, AskedTame
    <3> QED BY <2>2, <3>5 DEF NoMount, Quiet
  <2>4. CASE ~tab.front
    <3>1. tab' = stale
      BY <1>3, <2>4 DEF SignedOutHere
    <3> QED BY <2>1, <2>2, <3>1, KeptIsTame
  <2> QED BY <2>3, <2>4
<1> QED BY <1>1, <1>2, <1>3 DEF SignOutEnds

\* What every step keeps, and the mount that it may begin.
LEMMA TameStep ==
    ASSUME Inv, Tame(tab), CalmDisk(disk), OwnMovesStayCalm, [Next]_vars
    PROVE  /\ Tame(tab') /\ CalmDisk(disk')
           /\ tab.listing.is # "mounting" /\ tab'.listing.is = "mounting"
              => tab.listing.front /\ tab.asked = "user"
<1>1. CASE FinishUnmounted
  BY <1>1, FinishUnmountedTame DEF FinishUnmounted, OnlyTab
<1>2. ASSUME Quiet(tab', tab), CalmDisk(disk')
      PROVE  /\ Tame(tab') /\ CalmDisk(disk')
             /\ tab.listing.is # "mounting" /\ tab'.listing.is = "mounting"
                => tab.listing.front /\ tab.asked = "user"
  BY <1>2 DEF Quiet
<1>3. CASE Finish /\ ~FinishUnmounted
  <2>1. disk' = disk
    BY <1>3 DEF Finish, FinishListed, FinishFile, FinishRemoved, FinishDenied, FinishFailed,
        OnlyTab
  <2>2. Quiet(tab', tab)
    BY <1>3, FinishListedTame, FinishFileTame, FinishRemovedTame, FinishDeniedTame,
        FinishFailedTame DEF Finish, NoMount, Quiet
  <2> QED BY <1>2, <2>1, <2>2
<1>4. CASE UNCHANGED vars
  BY <1>4 DEF vars
<1>5. CASE ReceiveBatch
  BY <1>2, <1>5, ReceiveBatchTame DEF ReceiveBatch, OnlyTab
<1>6. CASE EnumerationEnds
  BY <1>2, <1>6, EnumerationEndsTame DEF EnumerationEnds, OnlyTab
<1> QED BY <1>1, <1>2, <1>3, <1>4, <1>5, <1>6, UserActsTame, MountAnswersTame, SearchEndsTame,
    DiskActsTame, WatchTame, SignOutEndsTame DEF Next, Finish

LEMMA TameInit ==
    ASSUME Init
    PROVE  Tame(tab) /\ CalmDisk(disk)
<1>1. CalmDisk(disk)
  BY DEF Init, CalmDisk, Calm
<1> SUFFICES Tame(tab)
  BY <1>1
<1>2. PICK l \in Locations :
        \/ tab = NewTab(l, FALSE)
        \/ tab = Started(Watched(BegunLoad(NewTab(l, TRUE))), "Navigate", TRUE, "Allowed")
        \/ tab = [Started(Watched(BegunLoad(NewTab(l, TRUE))), "Navigate", TRUE, "Allowed")
                     EXCEPT !.waitsToMount = TRUE, !.asked = "application"]
  BY DEF Init
<1>3. CASE tab = NewTab(l, FALSE)
  <2>1. tab.asked = "user" /\ tab.listing.is = "none"
    BY <1>3 DEF NewTab, NoListing
  <2> QED BY <2>1 DEF Tame, HeldBack, BeganInFront, NothingBehind, FoundRightly
<1>4. CASE tab # NewTab(l, FALSE)
  <2> DEFINE b == BegunLoad(NewTab(l, TRUE))
             w == Watched(b)
             lst == [NoListing EXCEPT !.is = "reading", !.mode = "Navigate",
                         !.wasShown = TRUE, !.retry = "Allowed", !.front = w.front]
             s == [w EXCEPT !.listing = lst]
             q == [s EXCEPT !.waitsToMount = TRUE, !.asked = "application"]
  <2>1. b.at = 1 /\ b.asked = "user" /\ b.front
    BY DEF BegunLoad, NewTab
  <2>2. w.at = 1 /\ w.asked = "user" /\ w.front
    BY DEF Watched, BegunLoad, NewTab
  <2>3. lst.is = "reading" /\ lst.front
    BY <2>2 DEF NoListing
  <2>4. tab = s \/ tab = q
    BY <1>2, <1>4 DEF Started
  <2>5. s.at = 1 /\ s.asked = "user" /\ s.listing = lst
    BY DEF Watched, BegunLoad, NewTab
  <2>6. q.at = 1 /\ q.asked = "application" /\ q.listing = lst /\ q.waitsToMount
    BY DEF Watched, BegunLoad, NewTab
  <2> HIDE DEF lst, s, q
  <2>7. Tame(s)
    BY <2>3, <2>5 DEF Tame, HeldBack, BeganInFront, NothingBehind, FoundRightly
  <2>8. Tame(q)
    BY <2>3, <2>6 DEF Tame, HeldBack, BeganInFront, NothingBehind, FoundRightly
  <2> QED BY <2>4, <2>7, <2>8
<1> QED BY <1>1, <1>3, <1>4

-----------------------------------------------------------------------------
(* The theorems.                                                           *)

\* Every field of the tab, the disk and the lookups keep their types, and a
\* reload is pending only while a listing runs.
THEOREM TypeCorrect == Spec => []TypeOK
<1>1. Inv => TypeOK
  BY DEF Inv
<1> QED BY <1>1, InvHolds, PTL

\* Whatever was listed, looked up, mounted or signed out when the tab went
\* elsewhere, the rows it shows and holds back are of where it is.
THEOREM RowsAlwaysBelong == Spec => []RowsBelong
<1>1. Inv => RowsBelong
  BY DEF Inv, Shape, Belong, RowsBelong
<1> QED BY <1>1, InvHolds, PTL

\* The tab says that it lists exactly while an enumeration or a mount of it
\* is under way.
THEOREM BusyOnlyWhileListing == Spec => []BusyWhileListing
<1>1. Inv => BusyWhileListing
  BY DEF Inv, Shape, Busy, BusyWhileListing
<1> QED BY <1>1, InvHolds, PTL

\* No change that a watch heard is lost: a tab at rest shows the folder as
\* it is, whatever listing the change fell into and however it ended.
THEOREM StaysUpToDate == Spec => []UpToDate
<1>1. Inv => UpToDate
  BY DEF Inv, Content, AtRest, Excused, Shows, RowNow, UpToDate, Settled, Current
<1> QED BY <1>1, InvHolds, PTL

\* Nobody is asked to sign in to a share for a listing behind another tab,
\* nor for what only an application asked to see, as long as the moves of
\* the tab itself do not lead to the share.
THEOREM MountsWhenAsked ==
    ASSUME OwnMovesStayCalm
    PROVE  Spec => MountOnlyWhenAsked
<1> DEFINE J == Inv /\ Tame(tab) /\ CalmDisk(disk)
<1>1. Init => J
  BY InvInit, TameInit
<1>2. J /\ [Next]_vars => J'
  BY InvStep, TameStep
<1>3. J /\ [Next]_vars =>
        [tab.listing.is # "mounting" /\ tab'.listing.is = "mounting"
            => tab.listing.front /\ tab.asked = "user"]_vars
  BY TameStep
<1> QED BY <1>1, <1>2, <1>3, PTL DEF Spec, MountOnlyWhenAsked
=============================================================================
