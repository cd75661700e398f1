--------------------------- MODULE Browser_proofs ---------------------------
(***************************************************************************)
(* Proofs about what runs in the browser of a viewer, each part for        *)
(* itself: the bell (module NotificationBell), the extension (Extension)   *)
(* and the search with the follow button (Discover); and that each holds   *)
(* of their composition (MCBrowser).                                       *)
(***************************************************************************)
EXTENDS MCBrowser, FiniteSetTheorems, TLAPS

-----------------------------------------------------------------------------
(* The bell                                                                *)

Rows == [cart : Carts, unread : BOOLEAN]
Fetch == [pc : {"idle", "asked", "answered"}, items : SUBSET Rows]

\* Only the openings there were have asked for a list.
ListsAreOpenings == \A o \in 1 .. MaxOpens : list[o].pc # "idle" => o <= opens

\* The list that the last opening was answered with is not shown yet, and has what it
\* has to show.
AnswerIsComplete ==
  \A o \in 1 .. MaxOpens : o = opens /\ list[o].pc = "answered" => HasAll(due, list[o].items)

\* The badge can only come back while it is being fetched.
BadgeOnItsWay == opens > 0 /\ counting.pc # "idle" => late

BellInv ==
  /\ BellTypeOK
  /\ ListsAreOpenings /\ AnswerIsComplete /\ SeenIsListed
  /\ BadgeOnItsWay /\ BadgeStaysCleared
-----------------------------------------------------------------------------
\* The badge counts no more than there are carts.
LEMMA UnreadIsCounted ==
  ASSUME visible \subseteq carts, carts \subseteq Carts
  PROVE  Cardinality(Unread) \in 0 .. Cardinality(Carts)
<1>1. Unread \subseteq Carts
  BY DEF Unread
<1>2. IsFiniteSet(Carts)
  BY BellAssumption
<1> QED
  BY <1>1, <1>2, FS_Subset, FS_CardinalityType

\* Of finitely many numbers one is the largest: the one that has the fewest above it.
LEMMA LargestOfSet ==
  ASSUME NEW S, S \subseteq Nat, IsFiniteSet(S), S # {}
  PROVE  \E m \in S : \A e \in S : e <= m
<1> DEFINE above(m) == {e \in S : e > m}
           F == {above(m) : m \in S}
           R == StrictSubsetOrdering(S)
<1>1. IsWellFoundedOn(R, SUBSET S)
  BY FS_StrictSubsetOrderingWellFounded, FS_FiniteSubsetsOfFinite
<1>2. F \subseteq SUBSET S /\ F # {}
  OBVIOUS
<1>3. \E t \in F : \A u \in F : ~ (<<u, t>> \in R)
  <2> HIDE DEF F, R
  <2> QED
    BY <1>1, <1>2, WFMin
<1>4. PICK m \in S : \A e \in S : ~ (<<above(e), above(m)>> \in R)
  BY <1>3
<1>5. ASSUME NEW e \in S, ~(e <= m) PROVE FALSE
  <2>1. e > m /\ e \in Nat /\ m \in Nat
    BY <1>5
  <2>2. above(e) \in SUBSET above(m) /\ e \in above(m) /\ e \notin above(e)
    <3>1. S \subseteq Nat /\ e \in S
      OBVIOUS
    <3>2. \A x \in S : x > e => x > m
      BY <2>1, <3>1
    <3>3. ~(e > e)
      BY <2>1
    <3> QED
      BY <2>1, <3>1, <3>2, <3>3
  <2>3. above(e) \in SUBSET S /\ above(m) \in SUBSET S
    OBVIOUS
  <2> HIDE DEF above
  <2>4. <<above(e), above(m)>> \in R
    BY <2>2, <2>3 DEF StrictSubsetOrdering
  <2> QED
    BY <1>4, <2>4
<1> QED
  BY <1>4, <1>5

\* A visible cart that the list leaves out has Limit newer ones on the list.
LEMMA NewestCoverTheRest ==
  ASSUME visible \subseteq Carts, NEW c \in visible, c \notin Newest
  PROVE  Cardinality(Newer(c, Newest)) >= Limit
<1>1. /\ Carts \subseteq Nat /\ IsFiniteSet(visible) /\ visible \subseteq Nat /\ Limit \in Nat
      /\ \A d \in visible : IsFiniteSet(Newer(d, visible)) /\ Cardinality(Newer(d, visible)) \in Nat
  <2>1. Carts \subseteq Nat /\ IsFiniteSet(Carts) /\ Limit \in Nat
    BY BellAssumption
  <2>2. IsFiniteSet(visible)
    BY <2>1, FS_Subset
  <2>3. \A d \in visible : Newer(d, visible) \in SUBSET visible
    BY DEF Newer
  <2> QED
    BY <2>1, <2>2, <2>3, FS_Subset, FS_CardinalityType
<1> DEFINE S == Newer(c, visible)
           N == Newer(c, Newest)
           M == S \ N
<1>2. Cardinality(S) >= Limit
  BY <1>1 DEF Newest
<1>3. N \in SUBSET S /\ M \in SUBSET S /\ IsFiniteSet(N) /\ Cardinality(N) \in Nat /\ IsFiniteSet(M)
  <2>1. N \in SUBSET S /\ M \in SUBSET S
    BY DEF Newer, Newest
  <2> HIDE DEF S, N, M
  <2>2. IsFiniteSet(S)
    BY <1>1 DEF S
  <2> QED
    BY <2>1, <2>2, FS_Subset, FS_CardinalityType
<1> SUFFICES ASSUME Cardinality(N) < Limit PROVE FALSE
  <2>1. Cardinality(N) \in Nat /\ Limit \in Nat
    BY <1>1, <1>3
  <2> HIDE DEF N
  <2> QED
    BY <2>1 DEF N
<1>4. M # {}
  <2>1. M = {} => N = S
    BY <1>3
  <2> HIDE DEF S, N, M
  <2> QED
    BY <1>1, <1>2, <1>3, <2>1
<1>5. PICK m \in M : \A e \in M : e <= m
  <2>1. M \subseteq Nat
    BY <1>1 DEF Newer
  <2> HIDE DEF M
  <2> QED
    BY <1>3, <1>4, <2>1, LargestOfSet
<1>6. m \in visible /\ m \in Nat /\ c \in Nat /\ m > c /\ m \notin Newest
  BY <1>1, <1>5 DEF Newer
<1>7. Newer(m, visible) \in SUBSET N
  <2> SUFFICES ASSUME NEW e \in visible, e > m PROVE e \in N
    BY DEF Newer
  <2>1. e \in Nat /\ e > c
    BY <1>1, <1>6
  <2>2. e \in S /\ e \notin M
    BY <1>5, <1>6, <2>1 DEF Newer
  <2> QED
    BY <2>2
<1>8. Cardinality(Newer(m, visible)) <= Cardinality(N)
  <2> HIDE DEF N
  <2> QED
    BY <1>3, <1>7, FS_Subset
<1>9. ~(Cardinality(Newer(m, visible)) < Limit)
  BY <1>6 DEF Newest
<1> HIDE DEF S, N, M
<1> QED
  BY <1>1, <1>3, <1>6, <1>8, <1>9

\* What the list has of the visible carts: all, or Limit newer ones than what it leaves out.
LEMMA ListHasTheVisible ==
  ASSUME visible \subseteq carts, carts \subseteq Carts
  PROVE  /\ Notifications \subseteq Rows
         /\ HasAll(visible, Notifications)
<1>1. \A c \in visible : [cart |-> c, unread |-> c \in fresh] \in Rows
  BY DEF Rows
<1>2. Notifications \subseteq Rows
  BY <1>1 DEF Notifications, Newest
<1>3. \A c \in CartsOf(Notifications) : c \in Newest
  BY DEF Notifications, CartsOf
<1>4. ASSUME NEW c \in Newest PROVE c \in CartsOf(Notifications)
  <2>1. [cart |-> c, unread |-> c \in fresh] \in Notifications
    BY DEF Notifications
  <2>2. [cart |-> c, unread |-> c \in fresh].cart = c
    OBVIOUS
  <2> QED
    BY <2>1, <2>2 DEF CartsOf
<1>5. CartsOf(Notifications) = Newest
  BY <1>3, <1>4
<1> HIDE DEF Newest
<1> QED
  BY <1>2, <1>5, NewestCoverTheRest DEF HasAll

\* A badge that is not fetched yet and a closed menu.
LEMMA BellInvInitially == BellInit => BellInv
<1> SUFFICES ASSUME BellInit PROVE BellInv
  OBVIOUS
<1> USE DEF BellInit, NoCount, NoList
<1>1. 0 \in 0 .. Cardinality(Carts)
  BY BellAssumption, FS_CardinalityType
<1>2. [o \in 1 .. MaxOpens |-> NoList] \in [1 .. MaxOpens -> Fetch]
  BY DEF Fetch
<1>3. BellTypeOK
  <2>1. {mounted, isOpen, loaded, late} \subseteq BOOLEAN
    OBVIOUS
  <2>2. counting \in [pc : {"idle", "asked", "answered"}, value : 0 .. Cardinality(Carts)]
    BY <1>1
  <2>3. marks \in 0 .. MaxOpens /\ opens \in 0 .. MaxOpens /\ shown \in 0 .. opens
    BY BellAssumption
  <2>4. items \in SUBSET Rows
    OBVIOUS
  <2> HIDE DEF NoCount, NoList
  <2> QED
    BY <1>1, <1>2, <2>1, <2>2, <2>3, <2>4 DEF BellTypeOK, Fetch, Rows
<1> QED
  BY <1>3 DEF BellInv, ListsAreOpenings, AnswerIsComplete, SeenIsListed, BadgeOnItsWay, BadgeStaysCleared
-----------------------------------------------------------------------------
\* A new page has asked for no list.
LEMMA LoadInv ==
  ASSUME BellInv, NEW there \in BOOLEAN, Load(there)
  PROVE  BellInv'
<1> USE DEF Load, NoCount, NoList
<1>1. 0 \in 0 .. Cardinality(Carts) /\ MaxOpens \in Nat
  BY BellAssumption, FS_CardinalityType
<1>2. [o \in 1 .. MaxOpens |-> NoList] \in [1 .. MaxOpens -> Fetch]
  BY DEF Fetch
<1>3. BellTypeOK'
  <2>1. {mounted, isOpen, loaded, late}' \subseteq BOOLEAN
    OBVIOUS
  <2>2. counting' \in [pc : {"idle", "asked", "answered"}, value : 0 .. Cardinality(Carts)]
    BY <1>1
  <2>3. marks' \in 0 .. MaxOpens /\ opens' \in 0 .. MaxOpens /\ shown' \in 0 .. opens'
    BY <1>1 DEF BellInv, BellTypeOK
  <2>4. items' \in SUBSET Rows
    OBVIOUS
  <2>5. isOpen' => mounted'
    OBVIOUS
  <2> HIDE DEF NoCount, NoList
  <2> QED
    BY <1>1, <1>2, <2>1, <2>2, <2>3, <2>4, <2>5 DEF BellInv, BellTypeOK, cartVars, Fetch, Rows
<1> QED
  BY <1>1, <1>3 DEF BellInv, ListsAreOpenings, AnswerIsComplete, SeenIsListed, BadgeOnItsWay, BadgeStaysCleared

\* The count that was read is shown: after an opening of the menu that is `late`.
LEMMA CountInv ==
  ASSUME BellInv, SetCount \/ \E ok \in BOOLEAN : CountUnread(ok)
  PROVE  BellInv'
<1>1. Cardinality(Unread) \in 0 .. Cardinality(Carts) /\ 0 \in 0 .. Cardinality(Carts)
  BY UnreadIsCounted, BellAssumption, FS_CardinalityType DEF BellInv, BellTypeOK
<1>2. CASE SetCount
  BY <1>1, <1>2 DEF SetCount, NoCount, BellInv, BellTypeOK, cartVars, ListsAreOpenings, AnswerIsComplete,
     SeenIsListed, BadgeOnItsWay, BadgeStaysCleared
<1>3. ASSUME NEW ok \in BOOLEAN, CountUnread(ok) PROVE BellInv'
  BY <1>1, <1>3 DEF CountUnread, BellInv, BellTypeOK, cartVars, ListsAreOpenings, AnswerIsComplete,
     SeenIsListed, BadgeOnItsWay, BadgeStaysCleared
<1> QED
  BY <1>2, <1>3

\* The menu is opened: the badge goes, and the new opening has no answer yet.
LEMMA OpenInv ==
  ASSUME BellInv, Open
  PROVE  BellInv'
<1> USE DEF Open
<1>1. opens \in 0 .. MaxOpens /\ MaxOpens \in Nat /\ shown \in 0 .. opens /\ opens + 1 \in 1 .. MaxOpens
  BY BellAssumption DEF BellInv, BellTypeOK
<1>2. list \in [1 .. MaxOpens -> Fetch] /\ list' = [list EXCEPT ![opens + 1].pc = "asked"]
  BY DEF BellInv, BellTypeOK, Fetch, Rows
<1>3. [list[opens + 1] EXCEPT !.pc = "asked"] \in Fetch
  BY <1>1, <1>2 DEF Fetch
<1>4. list' \in [1 .. MaxOpens -> Fetch] /\ list'[opens + 1].pc = "asked"
      /\ \A o \in 1 .. MaxOpens : o # opens + 1 => list'[o] = list[o]
  BY <1>1, <1>2, <1>3 DEF Fetch
<1>5. 0 \in 0 .. Cardinality(Carts)
  BY BellAssumption, FS_CardinalityType
<1>6. BellTypeOK'
  <2>1. marks' \in 0 .. MaxOpens /\ opens' \in 0 .. MaxOpens /\ shown' \in 0 .. opens'
    BY <1>1 DEF BellInv, BellTypeOK
  <2> QED
    BY <2>1, <1>4, <1>5 DEF BellInv, BellTypeOK, BadgeOnOpen, cartVars, Fetch, Rows
<1>7. ListsAreOpenings' /\ AnswerIsComplete' /\ SeenIsListed'
  BY <1>1, <1>4 DEF BellInv, ListsAreOpenings, AnswerIsComplete, SeenIsListed
<1>8. BadgeOnItsWay' /\ BadgeStaysCleared'
  <2>1. count' = 0 /\ counting' = counting /\ (counting.pc # "idle" => late')
    BY DEF BadgeOnOpen
  <2> QED
    BY <2>1 DEF BadgeOnItsWay, BadgeStaysCleared
<1> QED
  BY <1>6, <1>7, <1>8 DEF BellInv

\* The list is read: it has what is visible as far as it goes, and all that is due still is
\* visible.
LEMMA ListNotificationsInv ==
  ASSUME BellInv, NEW o \in 1 .. MaxOpens, ListNotifications(o)
  PROVE  BellInv'
<1> USE DEF ListNotifications
<1>1. Notifications \subseteq Rows /\ HasAll(due, Notifications)
  <2>1. visible \subseteq carts /\ carts \subseteq Carts /\ due \subseteq visible
    BY DEF BellInv, BellTypeOK
  <2>2. Notifications \subseteq Rows /\ HasAll(visible, Notifications)
    BY <2>1, ListHasTheVisible
  <2> QED
    BY <2>1, <2>2 DEF HasAll
<1>2. list \in [1 .. MaxOpens -> Fetch]
  BY DEF BellInv, BellTypeOK, Fetch, Rows
<1>3. [pc |-> "answered", items |-> Notifications] \in Fetch
  BY <1>1 DEF Fetch
<1>4. list' \in [1 .. MaxOpens -> Fetch] /\ list'[o] = [pc |-> "answered", items |-> Notifications]
      /\ \A p \in 1 .. MaxOpens : p # o => list'[p] = list[p]
  BY <1>2, <1>3
<1>5. BellTypeOK'
  BY <1>4 DEF BellInv, BellTypeOK, cartVars, Fetch, Rows
<1>6. ListsAreOpenings'
  BY <1>4 DEF BellInv, ListsAreOpenings
<1>7. AnswerIsComplete'
  BY <1>1, <1>4 DEF BellInv, AnswerIsComplete
<1> QED
  BY <1>5, <1>6, <1>7 DEF BellInv, SeenIsListed, BadgeOnItsWay, BadgeStaysCleared

\* A list is shown, or was in vain.
LEMMA ListEndsInv ==
  ASSUME BellInv, NEW o \in 1 .. MaxOpens, SetItems(o) \/ ListFails(o)
  PROVE  BellInv'
<1>1. list \in [1 .. MaxOpens -> Fetch] /\ list' = [list EXCEPT ![o] = NoList] /\ NoList \in Fetch
  BY DEF BellInv, BellTypeOK, Fetch, Rows, SetItems, ListFails, NoList
<1>2. list' \in [1 .. MaxOpens -> Fetch] /\ list'[o] = NoList
      /\ \A p \in 1 .. MaxOpens : p # o => list'[p] = list[p]
  BY <1>1
<1>3. list[o].items \in SUBSET Rows /\ (list[o].pc # "idle" => o <= opens /\ o \in 0 .. opens)
  BY <1>1, BellAssumption DEF Fetch, BellInv, BellTypeOK, ListsAreOpenings
<1>4. BellTypeOK'
  <2>1. CASE SetItems(o)
    BY <2>1, <1>2, <1>3 DEF SetItems, BellInv, BellTypeOK, cartVars, Fetch, Rows
  <2>2. CASE ListFails(o)
    BY <2>2, <1>2 DEF ListFails, LoadedAfterError, BellInv, BellTypeOK, cartVars, Fetch, Rows
  <2> QED
    BY <2>1, <2>2
<1>5. UNCHANGED <<opens, due, count, counting, late>>
  BY DEF SetItems, ListFails
<1>6. ListsAreOpenings' /\ AnswerIsComplete'
  BY <1>2, <1>5 DEF BellInv, ListsAreOpenings, AnswerIsComplete, NoList
<1>7. SeenIsListed'
  BY <1>5 DEF SetItems, ListFails, BellInv, SeenIsListed, AnswerIsComplete
<1> QED
  BY <1>4, <1>5, <1>6, <1>7 DEF BellInv, BadgeOnItsWay, BadgeStaysCleared
-----------------------------------------------------------------------------
\* The markers and the creators' carts: what is hidden is not due any more.
LEMMA ServerInv ==
  ASSUME BellInv,
         \/ Close
         \/ \E ok \in BOOLEAN : MarkSeen(ok)
         \/ \E c \in Carts : NewCart(c) \/ ShowOrHide(c)
  PROVE  BellInv'
<1>1. BellTypeOK'
  <2>1. CASE Close
    BY <2>1 DEF Close, BellInv, BellTypeOK, cartVars
  <2>2. ASSUME NEW ok \in BOOLEAN, MarkSeen(ok) PROVE BellTypeOK'
    <3>1. marks' \in 0 .. MaxOpens
      BY <2>2, BellAssumption DEF MarkSeen, BellInv, BellTypeOK
    <3> QED
      BY <2>2, <3>1 DEF MarkSeen, BellInv, BellTypeOK
  <2>3. ASSUME NEW c \in Carts, NewCart(c) PROVE BellTypeOK'
    BY <2>3 DEF NewCart, BellInv, BellTypeOK
  <2>4. ASSUME NEW c \in Carts, ShowOrHide(c) PROVE BellTypeOK'
    BY <2>4 DEF ShowOrHide, BellInv, BellTypeOK
  <2> QED
    BY <2>1, <2>2, <2>3, <2>4
<1>2. due' \subseteq due /\ UNCHANGED <<count, items, counting, opens, list, shown, late>>
  BY DEF Close, cartVars, MarkSeen, NewCart, ShowOrHide
<1>3. \A rows : HasAll(due, rows) => HasAll(due', rows)
  BY <1>2 DEF HasAll
<1> QED
  BY <1>1, <1>2, <1>3 DEF BellInv, ListsAreOpenings, AnswerIsComplete, SeenIsListed, BadgeOnItsWay, BadgeStaysCleared

\* The invariant holds in every reachable state of the bell.
THEOREM BellInvariant == BellSpec => []BellInv
<1>1. ASSUME BellInv, [BellNext]_bellVars PROVE BellInv'
  <2>1. CASE UNCHANGED bellVars
    BY <1>1, <2>1 DEF bellVars, cartVars, BellInv, BellTypeOK, ListsAreOpenings, AnswerIsComplete,
       SeenIsListed, BadgeOnItsWay, BadgeStaysCleared
  <2>2. CASE \E there \in BOOLEAN : Load(there)
    BY <1>1, <2>2, LoadInv
  <2>3. CASE SetCount \/ \E ok \in BOOLEAN : CountUnread(ok)
    BY <1>1, <2>3, CountInv
  <2>4. CASE Open
    BY <1>1, <2>4, OpenInv
  <2>5. CASE \E o \in 1 .. MaxOpens : ListNotifications(o)
    BY <1>1, <2>5, ListNotificationsInv
  <2>6. CASE \E o \in 1 .. MaxOpens : SetItems(o) \/ ListFails(o)
    BY <1>1, <2>6, ListEndsInv
  <2>7. CASE \/ Close
             \/ \E ok \in BOOLEAN : MarkSeen(ok)
             \/ \E c \in Carts : NewCart(c) \/ ShowOrHide(c)
    BY <1>1, <2>7, ServerInv
  <2> QED
    BY <1>1, <2>1, <2>2, <2>3, <2>4, <2>5, <2>6, <2>7 DEF BellNext
<1> QED
  BY <1>1, BellInvInitially, PTL DEF BellSpec

\* The variables of the bell always have their types.
THEOREM BellTypeCorrect == BellSpec => []BellTypeOK
<1>1. BellInv => BellTypeOK
  BY DEF BellInv
<1> QED
  BY <1>1, BellInvariant, PTL

\* Once the menu was opened the badge stays away, unless it was opened before the badge
\* was there (onOpenChange and the first effect of notification-bell.tsx), whatever
\* else is late, lost or out of order.
THEOREM BadgeIsCleared == BellSpec => []BadgeStaysCleared
<1>1. BellInv => BadgeStaysCleared
  BY DEF BellInv
<1> QED
  BY <1>1, BellInvariant, PTL

\* The list of the last opening has every cart that was public when the menu was opened
\* and still is, or is a full page of newer ones, although the seen marker runs beside its
\* fetch (onOpenChange, ListNotifications with its LIMIT): for every number of carts.
THEOREM SeenCartsAreListed == BellSpec => []SeenIsListed
<1>1. BellInv => SeenIsListed
  BY DEF BellInv
<1> QED
  BY <1>1, BellInvariant, PTL

-----------------------------------------------------------------------------
(* The extension                                                           *)

Messages ==
  [pc : {"idle", "sent", "done", "failed", "unauthorized"}, kind : {"list", "add"},
   from : {"here", "repainted", "removed", "gone"}]
Panels ==
  [kind : {"none", "popup", "panel"}, product : Goods \cup {Elsewhere, Unknown},
   view : {"closed", "empty", "connect", "no product", "error", "form", "adding", "added"}]

ExtensionTypes ==
  /\ site \in Goods \cup {Elsewhere} /\ siteButton \in Goods \cup {Unknown}
  /\ panel \in Panels /\ request \in [Requests -> Messages]
  /\ token \in {"none", "good", "wrong"} /\ tab \in {"closed", "minting", "minted", "manual"}
  /\ moved \in BOOLEAN /\ refused \in BOOLEAN /\ resaved \in BOOLEAN
  /\ kept \in Nat /\ missed \in Nat /\ breaks \in 0 .. MaxBreaks
  /\ panel.kind = "none" <=> panel.view = "closed"

\* A message whose button or panel is there.
Live(r) == request[r].pc # "idle" /\ Here(r)
AddIsDone(r) == Live(r) /\ request[r].kind = "add" /\ request[r].pc = "done"

\* A panel waits for one message at a time, unless a code was saved while it waited, and
\* shows what for.
OneMessage ==
  /\ panel.kind = "none" => \A r \in Requests : ~Live(r)
  /\ ~resaved =>
       /\ \A r, s \in Requests : Live(r) /\ Live(s) => r = s
       /\ \A r \in Requests : Live(r) =>
            IF request[r].kind = "list" THEN panel.view \in {"empty", "connect"} ELSE panel.view = "adding"

\* A row whose answer was not lost is one that "Added!" is about, now or soon.
RowsAreAnswered ==
  /\ panel.view = "added" => kept > 0
  /\ \A r \in Requests : AddIsDone(r) => kept > 0
  /\ panel.kind # "none" /\ ~resaved =>
       /\ kept <= 1 + missed
       /\ panel.view # "added" /\ (\A r \in Requests : ~AddIsDone(r)) => kept <= missed

\* A button and a panel that were not left behind are about the page.
ButtonIsOfSite ==
  ~moved =>
    /\ siteButton # Unknown => siteButton = site
    /\ panel.kind = "panel" => panel.product = site

ExtensionInv == ExtensionTypes /\ OneMessage /\ RowsAreAnswered /\ ButtonIsOfSite

\* No button, no panel, no token and no message.
LEMMA ExtensionInvInitially == ExtensionInit => ExtensionInv
<1> SUFFICES ASSUME ExtensionInit PROVE ExtensionInv
  OBVIOUS
<1>1. NoRequest \in Messages /\ NoRequest.pc = "idle"
  BY DEF NoRequest, Messages
<1>2. request \in [Requests -> Messages] /\ \A r \in Requests : request[r].pc = "idle"
  BY <1>1 DEF ExtensionInit
<1>3. panel \in Panels /\ panel.kind = "none" /\ panel.view = "closed"
  BY DEF ExtensionInit, NoPanel, Panels
<1>4. ExtensionTypes
  <2>1. kept = 0 /\ missed = 0 /\ breaks = 0 /\ 0 \in 0 .. MaxBreaks
    BY ExtensionAssumption DEF ExtensionInit
  <2>2. /\ site \in Goods \cup {Elsewhere} /\ siteButton \in Goods \cup {Unknown}
        /\ token \in {"none", "good", "wrong"} /\ tab \in {"closed", "minting", "minted", "manual"}
        /\ moved \in BOOLEAN /\ refused \in BOOLEAN /\ resaved \in BOOLEAN
    BY DEF ExtensionInit
  <2> QED
    BY <1>2, <1>3, <2>1, <2>2 DEF ExtensionTypes
<1>5. \A r \in Requests : ~Live(r) /\ ~AddIsDone(r)
  BY <1>2 DEF Live, AddIsDone
<1> QED
  BY <1>3, <1>4, <1>5 DEF ExtensionInit, ExtensionInv, OneMessage, RowsAreAnswered, ButtonIsOfSite

\* The sender of every message is gone, or its panel is.
LEMMA SendersLeave ==
  ASSUME ExtensionTypes, NEW from \in {"removed", "gone"}, request' = Left(from)
  PROVE  request' \in [Requests -> Messages] /\ \A r \in Requests : ~Live(r)'
<1>1. \A r \in Requests : /\ request[r] \in Messages
                          /\ [request[r] EXCEPT !.from = from] \in Messages
                          /\ [request[r] EXCEPT !.from = from].from = from
  BY DEF ExtensionTypes, Messages
<1>2. \A r \in Requests : request'[r] \in Messages /\ ~(request'[r].from \in {"here", "repainted"})
  <2> TAKE r \in Requests
  <2>1. request'[r] = IF Here(r) \/ from = "gone" THEN [request[r] EXCEPT !.from = from] ELSE request[r]
    BY DEF Left
  <2>2. CASE Here(r) \/ from = "gone"
    BY <1>1, <2>1, <2>2
  <2>3. CASE ~(Here(r) \/ from = "gone")
    BY <1>1, <2>1, <2>3 DEF Here
  <2> QED
    BY <2>2, <2>3
<1>3. request' \in [Requests -> Messages]
  BY <1>2 DEF Left
<1> QED
  BY <1>2, <1>3 DEF Live, Here

\* What is painted again is there all the same.
LEMMA RepaintedMessages ==
  ASSUME NEW q \in [Requests -> Messages]
  PROVE  /\ Repainted(q) \in [Requests -> Messages]
         /\ \A r \in Requests :
              /\ Repainted(q)[r].pc = q[r].pc /\ Repainted(q)[r].kind = q[r].kind
              /\ Repainted(q)[r].from \in {"here", "repainted"} <=> q[r].from \in {"here", "repainted"}
<1>1. \A r \in Requests :
        LET m == [q[r] EXCEPT !.from = "repainted"]
        IN  m \in Messages /\ m.from = "repainted" /\ m.pc = q[r].pc /\ m.kind = q[r].kind /\ q[r] \in Messages
  BY DEF Messages
<1>2. \A r \in Requests : Repainted(q)[r] = IF q[r].from = "here" THEN [q[r] EXCEPT !.from = "repainted"] ELSE q[r]
  BY DEF Repainted
<1>3. \A r \in Requests : Repainted(q)[r] \in Messages
  BY <1>1, <1>2
<1>4. Repainted(q) \in [Requests -> Messages]
  BY <1>3 DEF Repainted
<1> QED
  BY <1>1, <1>2, <1>4

\* One more message is sent.
LEMMA AskedMessage ==
  ASSUME ExtensionTypes, NEW kind \in {"list", "add"}, request' \in Asked(kind, request)
  PROVE  /\ request' \in [Requests -> Messages]
         /\ \E s \in Requests :
              /\ ~Live(s) /\ Live(s)' /\ request'[s].kind = kind /\ request'[s].pc = "sent"
              /\ \A r \in Requests \ {s} : request'[r] = request[r]
<1>1. PICK s \in Requests :
        /\ request[s].pc = "idle"
        /\ request' = [request EXCEPT ![s] = [pc |-> "sent", kind |-> kind, from |-> "here"]]
  BY DEF Asked
<1>2. [pc |-> "sent", kind |-> kind, from |-> "here"] \in Messages
  BY DEF Messages
<1>3. /\ request' \in [Requests -> Messages]
      /\ request'[s] = [pc |-> "sent", kind |-> kind, from |-> "here"]
      /\ \A r \in Requests \ {s} : request'[r] = request[r]
  BY <1>1, <1>2 DEF ExtensionTypes
<1>4. ~Live(s) /\ Live(s)'
  BY <1>1, <1>3 DEF Live, Here
<1> QED
  BY <1>3, <1>4

\* The steps that neither the page nor the panel nor a message notices.
LEMMA UnnoticedInv ==
  ASSUME ExtensionInv, UNCHANGED <<site, siteButton, panelVars, request, moved>>,
         token' \in {"none", "good", "wrong"}, tab' \in {"closed", "minting", "minted", "manual"},
         breaks' \in 0 .. MaxBreaks
  PROVE  ExtensionInv'
<1>1. \A r \in Requests : (Live(r)' <=> Live(r)) /\ (AddIsDone(r)' <=> AddIsDone(r))
  BY DEF Live, AddIsDone, Here
<1> QED
  BY <1>1 DEF ExtensionInv, ExtensionTypes, OneMessage, RowsAreAnswered, ButtonIsOfSite, panelVars

\* Mishaps are counted up to their bound.
LEMMA Breaks ==
  ASSUME ExtensionTypes
  PROVE  breaks \in 0 .. MaxBreaks /\ (Break => breaks' \in 0 .. MaxBreaks)
BY ExtensionAssumption DEF ExtensionTypes, Break

\* The panel is gone.
LEMMA PanelGoneInv ==
  ASSUME ExtensionInv, panel' = NoPanel, request' \in [Requests -> Messages],
         \A r \in Requests : ~Live(r)',
         UNCHANGED <<token, kept, missed, resaved, breaks>>,
         site' \in Goods \cup {Elsewhere}, siteButton' \in Goods \cup {Unknown},
         tab' \in {"closed", "minting", "minted", "manual"}, moved' \in BOOLEAN, refused' \in BOOLEAN,
         ~moved' /\ siteButton' # Unknown => siteButton' = site'
  PROVE  ExtensionInv'
<1>1. panel' \in Panels /\ panel'.kind = "none" /\ panel'.view = "closed"
  BY DEF NoPanel, Panels
<1>2. \A r \in Requests : ~AddIsDone(r)'
  BY DEF AddIsDone
<1>3. ExtensionTypes'
  BY <1>1 DEF ExtensionInv, ExtensionTypes
<1>4. OneMessage' /\ RowsAreAnswered'
  BY <1>1, <1>2 DEF OneMessage, RowsAreAnswered
<1>5. ButtonIsOfSite'
  BY <1>1 DEF ButtonIsOfSite
<1> QED
  BY <1>3, <1>4, <1>5 DEF ExtensionInv

\* A shop shows another page, with or without loading it: what was on the page before is gone, or
\* left behind.
LEMMA NavigateInv ==
  ASSUME ExtensionInv, NEW p \in Goods \cup {Elsewhere}, NEW reload \in BOOLEAN, NEW stays \in BOOLEAN,
         Navigate(p, reload, stays)
  PROVE  ExtensionInv'
<1>1. siteButton \in Goods \cup {Unknown}
  BY DEF ExtensionInv, ExtensionTypes
<1>2. /\ site' = p /\ siteButton' = (IF ~reload /\ stays THEN siteButton ELSE Unknown)
      /\ UNCHANGED <<token, tab, breaks>>
      /\ moved' = (~reload /\ (siteButton' # Unknown \/ panel'.kind = "panel"))
  BY DEF Navigate
<1>3. siteButton' \in Goods \cup {Unknown} /\ moved' \in BOOLEAN
  BY <1>1, <1>2
<1>4. CASE reload
  <2>1. /\ panel' = NoPanel /\ request' = Left("gone") /\ UNCHANGED <<kept, missed, refused, resaved>>
        /\ siteButton' = Unknown
    BY <1>4 DEF Navigate
  <2>2. request' \in [Requests -> Messages] /\ \A r \in Requests : ~Live(r)'
    BY <2>1, SendersLeave DEF ExtensionInv
  <2>3. tab \in {"closed", "minting", "minted", "manual"} /\ refused \in BOOLEAN
    BY DEF ExtensionInv, ExtensionTypes
  <2> QED
    BY <1>2, <1>3, <2>1, <2>2, <2>3, PanelGoneInv
<1>5. CASE ~reload
  <2>1. UNCHANGED <<panelVars, request>>
    BY <1>5 DEF Navigate
  <2>2. \A r \in Requests : (Live(r)' <=> Live(r)) /\ (AddIsDone(r)' <=> AddIsDone(r))
    BY <2>1 DEF Live, AddIsDone, Here
  <2>3. ExtensionTypes' /\ OneMessage' /\ RowsAreAnswered'
    BY <1>2, <1>3, <2>1, <2>2 DEF ExtensionInv, ExtensionTypes, OneMessage, RowsAreAnswered, panelVars
  <2>4. ButtonIsOfSite'
    BY <1>2, <1>5 DEF ButtonIsOfSite
  <2> QED
    BY <2>3, <2>4 DEF ExtensionInv
<1> QED
  BY <1>4, <1>5

\* The content script puts its button on the page.
LEMMA InjectButtonInv ==
  ASSUME ExtensionInv, InjectButton
  PROVE  ExtensionInv'
<1>1. /\ siteButton' = site /\ site \in Goods
      /\ UNCHANGED <<site, panelVars, request, token, tab, moved, breaks>>
  BY DEF InjectButton, IsProductPage, ExtractProduct
<1>2. \A r \in Requests : (Live(r)' <=> Live(r)) /\ (AddIsDone(r)' <=> AddIsDone(r))
  BY <1>1 DEF Live, AddIsDone, Here
<1>3. ExtensionTypes' /\ OneMessage' /\ RowsAreAnswered'
  BY <1>1, <1>2 DEF ExtensionInv, ExtensionTypes, OneMessage, RowsAreAnswered, panelVars
<1>4. ButtonIsOfSite'
  BY <1>1 DEF ExtensionInv, ButtonIsOfSite, panelVars
<1> QED
  BY <1>3, <1>4 DEF ExtensionInv

\* Closing the panel leaves its messages without a panel.
LEMMA ClosePanelInv ==
  ASSUME ExtensionInv, ClosePanel
  PROVE  ExtensionInv'
<1> USE DEF ExtensionInv
<1>1. /\ panel' = NoPanel
      /\ moved' = (moved /\ siteButton # Unknown /\ siteButton # site)
      /\ UNCHANGED <<site, siteButton, token, tab, kept, missed, refused, resaved, breaks>>
  BY DEF ClosePanel
<1>2. PICK from \in {"removed", "gone"} : request' = Left(from)
  BY DEF ClosePanel
<1>3. request' \in [Requests -> Messages] /\ \A r \in Requests : ~Live(r)'
  BY <1>2, SendersLeave
<1>4. /\ site' \in Goods \cup {Elsewhere} /\ siteButton' \in Goods \cup {Unknown}
      /\ tab' \in {"closed", "minting", "minted", "manual"} /\ refused' \in BOOLEAN
  BY <1>1 DEF ExtensionTypes
<1>5. moved' \in BOOLEAN /\ (~moved' /\ siteButton' # Unknown => siteButton' = site')
  BY <1>1 DEF ButtonIsOfSite
<1> QED
  BY <1>1, <1>3, <1>4, <1>5, PanelGoneInv

\* renderAddUI paints at once, or asks for the carts.
LEMMA RenderAddUIPaints ==
  ASSUME ExtensionTypes, NEW ui \in Panels, NEW stored, ui.kind # "none", RenderAddUI(ui, stored, request)
  PROVE  /\ panel' \in Panels /\ panel'.kind = ui.kind /\ panel'.product = ui.product
         /\ request' \in [Requests -> Messages]
         /\ \/ /\ panel'.view \in {"connect", "no product"}
               /\ \A r \in Requests : (Live(r)' <=> Live(r)) /\ (AddIsDone(r)' <=> AddIsDone(r))
            \/ /\ panel' = ui
               /\ \E s \in Requests :
                    /\ ~Live(s) /\ Live(s)' /\ request'[s].kind = "list"
                    /\ \A r \in Requests \ {s} : request'[r] = request[r]
<1>1. CASE stored = "none" \/ ui.product = Unknown
  <2> DEFINE v == IF stored = "none" THEN "connect" ELSE "no product"
  <2>1. panel' = [ui EXCEPT !.view = v] /\ request' = Repainted(request)
    BY <1>1 DEF RenderAddUI
  <2>2. v \in {"connect", "no product"}
    OBVIOUS
  <2> HIDE DEF v
  <2>3. panel' \in Panels /\ panel'.kind = ui.kind /\ panel'.product = ui.product /\ panel'.view = v
    BY <2>1, <2>2 DEF Panels
  <2>4. /\ request' \in [Requests -> Messages]
        /\ \A r \in Requests :
             /\ request'[r].pc = request[r].pc /\ request'[r].kind = request[r].kind
             /\ request'[r].from \in {"here", "repainted"} <=> request[r].from \in {"here", "repainted"}
    BY <2>1, RepaintedMessages DEF ExtensionTypes
  <2>5. \A r \in Requests : (Live(r)' <=> Live(r)) /\ (AddIsDone(r)' <=> AddIsDone(r))
    BY <2>4 DEF Live, AddIsDone, Here
  <2> QED
    BY <2>2, <2>3, <2>4, <2>5
<1>2. CASE ~(stored = "none" \/ ui.product = Unknown)
  <2>1. panel' = ui /\ request' \in Asked("list", request)
    BY <1>2 DEF RenderAddUI
  <2> QED
    BY <2>1, AskedMessage
<1> QED
  BY <1>1, <1>2

\* TogglePanel and OpenPopup: a new panel has no messages yet.
LEMMA OpenUIInv ==
  ASSUME ExtensionInv, NEW kind \in {"popup", "panel"}, NEW product \in Goods \cup {Elsewhere, Unknown},
         panel.kind = "none", OpenUI(kind, product), UNCHANGED <<site, siteButton, token, tab, moved, breaks>>,
         kind = "panel" => product = siteButton /\ siteButton # Unknown
  PROVE  ExtensionInv'
<1> USE DEF ExtensionInv
<1> DEFINE ui == [kind |-> kind, view |-> "empty", product |-> product]
<1>1. ui \in Panels /\ ui.kind = kind /\ ui.view = "empty" /\ ui.product = product
  BY DEF Panels
<1>2. /\ RenderAddUI(ui, token, request)
      /\ kept' = 0 /\ missed' = 0 /\ refused' = FALSE /\ resaved' = FALSE
  BY DEF OpenUI
<1> HIDE DEF ui
<1>3. \A r \in Requests : ~Live(r)
  BY DEF OneMessage
<1>4. /\ panel' \in Panels /\ panel'.kind = ui.kind /\ panel'.product = ui.product
      /\ request' \in [Requests -> Messages]
      /\ \/ /\ panel'.view \in {"connect", "no product"}
            /\ \A r \in Requests : (Live(r)' <=> Live(r)) /\ (AddIsDone(r)' <=> AddIsDone(r))
         \/ /\ panel' = ui
            /\ \E s \in Requests :
                 /\ ~Live(s) /\ Live(s)' /\ request'[s].kind = "list"
                 /\ \A r \in Requests \ {s} : request'[r] = request[r]
  BY <1>1, <1>2, RenderAddUIPaints
<1>5. \A s \in Requests : request'[s] = request[s] => (Live(s)' <=> Live(s))
  BY DEF Live, Here
<1>6. \/ panel'.view \in {"connect", "no product"} /\ \A r \in Requests : ~Live(r)'
      \/ /\ panel'.view = "empty"
         /\ \E s \in Requests : request'[s].kind = "list" /\ \A r \in Requests : Live(r)' => r = s
  BY <1>1, <1>3, <1>4, <1>5
<1>7. \A r \in Requests : ~AddIsDone(r)'
  BY <1>6 DEF AddIsDone
<1>8. ExtensionTypes'
  BY <1>1, <1>2, <1>4, <1>6 DEF ExtensionTypes
<1>9. OneMessage'
  BY <1>1, <1>4, <1>6 DEF OneMessage
<1>10. RowsAreAnswered'
  <2>1. panel'.view # "added"
    BY <1>6
  <2>2. kept' <= 1 + missed' /\ kept' <= missed'
    BY <1>2
  <2> QED
    BY <1>7, <2>1, <2>2 DEF RowsAreAnswered
<1>11. ButtonIsOfSite'
  BY <1>1, <1>4 DEF ButtonIsOfSite
<1> QED
  BY <1>8, <1>9, <1>10, <1>11

\* Saving a code stores a token and sends for the carts.
LEMMA SaveCodeInv ==
  ASSUME ExtensionInv, NEW wrong \in BOOLEAN, SaveCode(wrong)
  PROVE  ExtensionInv'
<1> USE DEF ExtensionInv
<1>1. /\ panel.view = "connect" /\ RenderAddUI(panel, token', request)
      /\ token' = (IF wrong THEN "wrong" ELSE "good") /\ resaved' = (resaved \/ Working)
      /\ (Break \/ breaks' = breaks)
      /\ UNCHANGED <<site, siteButton, tab, kept, missed, moved, refused>>
  BY DEF SaveCode
<1>2. panel \in Panels /\ panel.kind # "none"
  BY <1>1 DEF ExtensionTypes
<1>3. /\ panel' \in Panels /\ panel'.kind = panel.kind /\ panel'.product = panel.product
      /\ request' \in [Requests -> Messages]
      /\ \/ /\ panel'.view \in {"connect", "no product"}
            /\ \A r \in Requests : (Live(r)' <=> Live(r)) /\ (AddIsDone(r)' <=> AddIsDone(r))
         \/ /\ panel' = panel
            /\ \E s \in Requests :
                 /\ ~Live(s) /\ Live(s)' /\ request'[s].kind = "list"
                 /\ \A r \in Requests \ {s} : request'[r] = request[r]
  BY <1>1, <1>2, RenderAddUIPaints
<1>4. \A s \in Requests : request'[s] = request[s] => (Live(s)' <=> Live(s)) /\ (AddIsDone(s)' <=> AddIsDone(s))
  BY DEF Live, AddIsDone, Here
<1>5. panel'.view \in {"connect", "no product"}
  BY <1>1, <1>3
<1>6. \A r \in Requests : AddIsDone(r)' <=> AddIsDone(r)
  <2>1. CASE \A r \in Requests : (Live(r)' <=> Live(r)) /\ (AddIsDone(r)' <=> AddIsDone(r))
    BY <2>1
  <2>2. ASSUME NEW s \in Requests, ~Live(s), request'[s].kind = "list",
               \A r \in Requests \ {s} : request'[r] = request[r]
        PROVE  \A r \in Requests : AddIsDone(r)' <=> AddIsDone(r)
    <3>1. ~AddIsDone(s)' /\ ~AddIsDone(s)
      BY <2>2 DEF AddIsDone
    <3> QED
      BY <1>4, <2>2, <3>1
  <2> QED
    BY <1>3, <2>1, <2>2
<1>7. ASSUME ~resaved'
      PROVE  ~resaved /\ \/ \A r \in Requests : ~Live(r)'
                         \/ /\ panel' = panel
                            /\ \E s \in Requests : request'[s].kind = "list" /\ \A r \in Requests : Live(r)' => r = s
  <2>1. resaved \in BOOLEAN
    BY DEF ExtensionTypes
  <2>2. ~resaved /\ ~Working
    BY <1>1, <1>7, <2>1
  <2>3. \A r \in Requests : ~Live(r)
    BY <2>2 DEF Working, Live
  <2> QED
    BY <1>3, <1>4, <2>2, <2>3
<1>8. ExtensionTypes'
  <2>1. breaks' \in 0 .. MaxBreaks
    BY <1>1, Breaks
  <2>2. resaved' \in BOOLEAN /\ token' \in {"none", "good", "wrong"}
    BY <1>1 DEF ExtensionTypes
  <2> QED
    BY <1>1, <1>2, <1>3, <1>5, <2>1, <2>2 DEF ExtensionTypes
<1>9. OneMessage'
  BY <1>1, <1>2, <1>3, <1>7 DEF OneMessage
<1>10. RowsAreAnswered'
  <2>1. panel.view # "added" /\ panel'.view # "added"
    BY <1>1, <1>5
  <2> QED
    BY <1>1, <1>2, <1>6, <1>7, <2>1 DEF RowsAreAnswered
<1>11. ButtonIsOfSite'
  BY <1>1, <1>3 DEF ButtonIsOfSite
<1> QED
  BY <1>8, <1>9, <1>10, <1>11

\* The connect button opens the page that mints a token.
LEMMA ConnectButtonInv ==
  ASSUME ExtensionInv, ConnectButton
  PROVE  ExtensionInv'
<1> USE DEF ExtensionInv
<1>1. /\ tab' = "minting"
      /\ UNCHANGED <<site, siteButton, token, kept, missed, moved, refused, resaved, breaks>>
  BY DEF ConnectButton
<1>2. CASE panel.kind = "popup"
  <2>1. panel' = NoPanel /\ request' = Left("gone")
    BY <1>2 DEF ConnectButton
  <2>2. request' \in [Requests -> Messages] /\ \A r \in Requests : ~Live(r)'
    BY <2>1, SendersLeave
  <2>3. /\ site' \in Goods \cup {Elsewhere} /\ siteButton' \in Goods \cup {Unknown}
        /\ moved' \in BOOLEAN /\ refused' \in BOOLEAN
    BY <1>1 DEF ExtensionTypes
  <2>4. ~moved' /\ siteButton' # Unknown => siteButton' = site'
    BY <1>1 DEF ButtonIsOfSite
  <2> QED
    BY <1>1, <2>1, <2>2, <2>3, <2>4, PanelGoneInv
<1>3. CASE panel.kind # "popup"
  <2>1. UNCHANGED <<panel, request>> /\ breaks \in 0 .. MaxBreaks /\ token \in {"none", "good", "wrong"}
    BY <1>3 DEF ConnectButton, ExtensionTypes
  <2>2. \A r \in Requests : (Live(r)' <=> Live(r)) /\ (AddIsDone(r)' <=> AddIsDone(r))
    BY <2>1 DEF Live, AddIsDone, Here
  <2> QED
    BY <1>1, <2>1, <2>2 DEF ExtensionTypes, OneMessage, RowsAreAnswered, ButtonIsOfSite
<1> QED
  BY <1>2, <1>3

\* The add button sends one message and shows that it waits.
LEMMA AddInv ==
  ASSUME ExtensionInv, Add
  PROVE  ExtensionInv'
<1> USE DEF ExtensionInv
<1>1. /\ panel.view = "form" /\ panel' = [panel EXCEPT !.view = "adding"] /\ request' \in Asked("add", request)
      /\ UNCHANGED <<site, siteButton, token, tab, kept, missed, moved, refused, resaved, breaks>>
  BY DEF Add
<1>2. panel \in Panels /\ panel.kind # "none"
  BY <1>1 DEF ExtensionTypes
<1>3. panel' \in Panels /\ panel'.kind = panel.kind /\ panel'.product = panel.product /\ panel'.view = "adding"
  BY <1>1, <1>2 DEF Panels
<1>4. /\ request' \in [Requests -> Messages]
      /\ \E s \in Requests :
           /\ ~Live(s) /\ Live(s)' /\ request'[s].kind = "add" /\ request'[s].pc = "sent"
           /\ \A r \in Requests \ {s} : request'[r] = request[r]
  BY <1>1, AskedMessage
<1>5. PICK s \in Requests :
        /\ ~Live(s) /\ Live(s)' /\ request'[s].kind = "add" /\ request'[s].pc = "sent"
        /\ \A r \in Requests \ {s} : request'[r] = request[r]
  BY <1>4
<1>6. \A r \in Requests \ {s} : (Live(r)' <=> Live(r)) /\ (AddIsDone(r)' <=> AddIsDone(r))
  BY <1>5 DEF Live, AddIsDone, Here
<1>7. \A r \in Requests : AddIsDone(r)' <=> AddIsDone(r)
  <2>1. ~AddIsDone(s)' /\ ~AddIsDone(s)
    BY <1>5 DEF AddIsDone
  <2> QED
    BY <1>6, <2>1
<1>8. ~resaved => \A r \in Requests : ~Live(r)
  BY <1>1 DEF OneMessage
<1>9. ~resaved => \A r \in Requests : Live(r)' => r = s
  BY <1>6, <1>8
<1>10. ExtensionTypes'
  BY <1>1, <1>2, <1>3, <1>4 DEF ExtensionTypes
<1>11. OneMessage'
  BY <1>1, <1>2, <1>3, <1>5, <1>9 DEF OneMessage
<1>12. RowsAreAnswered'
  BY <1>1, <1>2, <1>3, <1>7 DEF RowsAreAnswered
<1>13. ButtonIsOfSite'
  BY <1>1, <1>3 DEF ButtonIsOfSite
<1> QED
  BY <1>10, <1>11, <1>12, <1>13

\* One message changes its pc: the API or the network has had its say.
LEMMA MessageMoves ==
  ASSUME ExtensionTypes, NEW r \in Requests, NEW pc \in {"done", "failed", "unauthorized"},
         request[r].pc # "idle", request' = [request EXCEPT ![r].pc = pc]
  PROVE  /\ request' \in [Requests -> Messages]
         /\ request'[r].pc = pc /\ request'[r].kind = request[r].kind /\ request'[r].from = request[r].from
         /\ \A s \in Requests \ {r} : request'[s] = request[s]
         /\ \A s \in Requests : /\ Live(s)' <=> Live(s)
                                /\ request'[s].kind = request[s].kind
                                /\ s # r => (AddIsDone(s)' <=> AddIsDone(s))
<1> DEFINE m == [request[r] EXCEPT !.pc = pc]
<1>1. request[r] \in Messages /\ request \in [Requests -> Messages]
  BY DEF ExtensionTypes
<1>2. m \in Messages /\ m.pc = pc /\ m.kind = request[r].kind /\ m.from = request[r].from
  BY <1>1 DEF Messages
<1>3. request' = [request EXCEPT ![r] = m]
  BY <1>1
<1> HIDE DEF m
<1>4. /\ request' \in [Requests -> Messages] /\ request'[r] = m
      /\ \A s \in Requests \ {r} : request'[s] = request[s]
  BY <1>1, <1>2, <1>3
<1>5. \A s \in Requests : (Live(s)' <=> Live(s)) /\ request'[s].kind = request[s].kind
  BY <1>2, <1>4 DEF Live, Here
<1>6. \A s \in Requests : s # r => (AddIsDone(s)' <=> AddIsDone(s))
  BY <1>4, <1>5 DEF AddIsDone
<1> QED
  BY <1>2, <1>4, <1>5, <1>6

\* The worker's fetch is done by the server: a list is read or a product is stored.
LEMMA WorkInv ==
  ASSUME ExtensionInv, NEW r \in Requests, Work(r)
  PROVE  ExtensionInv'
<1> USE DEF ExtensionInv
<1> DEFINE pc == IF token = "good" THEN "done" ELSE "unauthorized"
           adds == token = "good" /\ request[r].kind = "add" /\ Here(r)
<1>1. /\ request[r].pc = "sent" /\ request' = [request EXCEPT ![r].pc = pc]
      /\ kept' = (IF adds THEN kept + 1 ELSE kept)
      /\ UNCHANGED <<site, siteButton, panel, token, tab, missed, moved, refused, resaved, breaks>>
  BY DEF Work
<1>2. pc \in {"done", "failed", "unauthorized"} /\ (pc = "done" => token = "good")
  OBVIOUS
<1> HIDE DEF pc, adds
<1>3. /\ request' \in [Requests -> Messages]
      /\ request'[r].pc = pc /\ request'[r].kind = request[r].kind
      /\ \A s \in Requests : /\ Live(s)' <=> Live(s)
                             /\ request'[s].kind = request[s].kind
                             /\ s # r => (AddIsDone(s)' <=> AddIsDone(s))
  BY <1>1, <1>2, MessageMoves
<1>4. kept \in Nat /\ missed \in Nat /\ kept' \in Nat /\ kept' >= kept /\ (adds => kept' = kept + 1) /\ (~adds => kept' = kept)
  BY <1>1 DEF ExtensionTypes
<1>5. AddIsDone(r)' => adds
  BY <1>2, <1>3 DEF AddIsDone, adds, Live
<1>6. adds => Live(r) /\ request[r].kind = "add" /\ AddIsDone(r)'
  <2>1. adds => pc = "done" /\ Live(r) /\ request[r].kind = "add"
    BY <1>1 DEF adds, pc, Live
  <2> QED
    BY <1>3, <2>1 DEF AddIsDone
<1>7. ~AddIsDone(r)
  BY <1>1 DEF AddIsDone
<1>8. ExtensionTypes' /\ OneMessage' /\ ButtonIsOfSite'
  BY <1>1, <1>3, <1>4 DEF ExtensionTypes, OneMessage, ButtonIsOfSite
<1>9. RowsAreAnswered'
  <2>1. panel'.view = "added" => kept' > 0
    BY <1>1, <1>4 DEF RowsAreAnswered
  <2>2. \A s \in Requests : AddIsDone(s)' => kept' > 0
    BY <1>3, <1>4, <1>5 DEF RowsAreAnswered
  <2>3. ASSUME panel'.kind # "none", ~resaved'
        PROVE  /\ kept' <= 1 + missed'
               /\ panel'.view # "added" /\ (\A s \in Requests : ~AddIsDone(s)') => kept' <= missed'
    <3>1. CASE adds
      <4>1. \A s \in Requests : ~AddIsDone(s)
        BY <1>1, <1>6, <1>7, <2>3, <3>1 DEF OneMessage, AddIsDone
      <4>2. panel.view = "adding"
        BY <1>1, <1>6, <2>3, <3>1 DEF OneMessage
      <4>3. kept <= missed
        BY <1>1, <2>3, <4>1, <4>2 DEF RowsAreAnswered
      <4>4. AddIsDone(r)'
        BY <1>6, <3>1
      <4> QED
        BY <1>1, <1>4, <3>1, <4>3, <4>4
    <3>2. CASE ~adds
      <4>1. \A s \in Requests : AddIsDone(s)' <=> AddIsDone(s)
        BY <1>3, <1>5, <1>7, <3>2
      <4> QED
        BY <1>1, <1>4, <2>3, <3>2, <4>1 DEF RowsAreAnswered
    <3> QED
      BY <3>1, <3>2
  <2> QED
    BY <2>1, <2>2, <2>3 DEF RowsAreAnswered
<1> QED
  BY <1>8, <1>9

\* The worker's fetch is refused or fails, after the server did its work or before.
LEMMA WorkFailsInv ==
  ASSUME ExtensionInv, NEW r \in Requests, NEW pc \in {"failed", "unauthorized"}, WorkFails(r, pc)
  PROVE  ExtensionInv'
<1> USE DEF ExtensionInv
<1> DEFINE loses == AddIsDone(r)
<1>1. /\ Break /\ request[r].pc # "idle" /\ request' = [request EXCEPT ![r].pc = pc]
      /\ UNCHANGED <<site, siteButton, panel, token, tab, kept, moved, refused, resaved>>
  BY DEF WorkFails
<1>2. missed' = IF loses THEN missed + 1 ELSE missed
  BY <1>1 DEF WorkFails, AddIsDone, Live
<1> HIDE DEF loses
<1>3. /\ request' \in [Requests -> Messages]
      /\ request'[r].pc = pc /\ request'[r].kind = request[r].kind
      /\ \A s \in Requests : /\ Live(s)' <=> Live(s)
                             /\ request'[s].kind = request[s].kind
                             /\ s # r => (AddIsDone(s)' <=> AddIsDone(s))
  BY <1>1, MessageMoves
<1>4. kept \in Nat /\ missed \in Nat /\ missed' \in Nat /\ missed' >= missed /\ (loses => missed' = missed + 1)
  BY <1>2 DEF ExtensionTypes
<1>5. ~AddIsDone(r)' /\ (loses <=> AddIsDone(r))
  BY <1>3 DEF AddIsDone, loses
<1>6. breaks' \in 0 .. MaxBreaks
  BY <1>1, Breaks
<1>7. ExtensionTypes' /\ OneMessage' /\ ButtonIsOfSite'
  BY <1>1, <1>3, <1>4, <1>6 DEF ExtensionTypes, OneMessage, ButtonIsOfSite
<1>8. RowsAreAnswered'
  <2>1. panel'.view = "added" => kept' > 0
    BY <1>1 DEF RowsAreAnswered
  <2>2. \A s \in Requests : AddIsDone(s)' => kept' > 0
    BY <1>1, <1>3, <1>5 DEF RowsAreAnswered
  <2>3. ASSUME panel'.kind # "none", ~resaved'
        PROVE  /\ kept' <= 1 + missed'
               /\ panel'.view # "added" /\ (\A s \in Requests : ~AddIsDone(s)') => kept' <= missed'
    <3>1. kept <= 1 + missed
      BY <1>1, <2>3 DEF RowsAreAnswered
    <3>2. CASE loses
      BY <1>1, <1>4, <3>1, <3>2
    <3>3. CASE ~loses
      <4>1. \A s \in Requests : AddIsDone(s)' <=> AddIsDone(s)
        BY <1>3, <1>5, <3>3
      <4>2. missed' = missed
        BY <1>2, <3>3
      <4> QED
        BY <1>1, <2>3, <3>1, <4>1, <4>2 DEF RowsAreAnswered
    <3> QED
      BY <3>2, <3>3
  <2> QED
    BY <2>1, <2>2, <2>3 DEF RowsAreAnswered
<1> QED
  BY <1>7, <1>8

\* One message is over, and what was painted may have been painted again.
LEMMA MessageEnds ==
  ASSUME ExtensionTypes, NEW r \in Requests, NEW others, others = [request EXCEPT ![r] = NoRequest],
         request' \in {others, Repainted(others)}
  PROVE  /\ request' \in [Requests -> Messages] /\ ~Live(r)' /\ ~AddIsDone(r)'
         /\ \A s \in Requests \ {r} : /\ Live(s)' <=> Live(s)
                                      /\ AddIsDone(s)' <=> AddIsDone(s)
                                      /\ request'[s].kind = request[s].kind
<1>1. NoRequest \in Messages /\ NoRequest.pc = "idle"
  BY DEF NoRequest, Messages
<1>2. others \in [Requests -> Messages] /\ others[r] = NoRequest /\ \A s \in Requests \ {r} : others[s] = request[s]
  BY <1>1 DEF ExtensionTypes
<1>3. /\ request' \in [Requests -> Messages]
      /\ \A s \in Requests :
           /\ request'[s].pc = others[s].pc /\ request'[s].kind = others[s].kind
           /\ request'[s].from \in {"here", "repainted"} <=> others[s].from \in {"here", "repainted"}
  <2>1. CASE request' = others
    BY <1>2, <2>1
  <2>2. CASE request' = Repainted(others)
    BY <1>2, <2>2, RepaintedMessages
  <2> QED
    BY <2>1, <2>2
<1>4. ~Live(r)' /\ ~AddIsDone(r)'
  BY <1>1, <1>2, <1>3 DEF Live, AddIsDone
<1>5. \A s \in Requests \ {r} : Live(s)' <=> Live(s)
  BY <1>2, <1>3 DEF Live, Here
<1>6. \A s \in Requests \ {r} : AddIsDone(s)' <=> AddIsDone(s)
  BY <1>2, <1>3, <1>5 DEF AddIsDone
<1> QED
  BY <1>2, <1>3, <1>4, <1>5, <1>6

\* The answer of a message paints the panel that sent it, if it is there.
LEMMA AnsweredInv ==
  ASSUME ExtensionInv, NEW r \in Requests, Answered(r)
  PROVE  ExtensionInv'
<1> USE DEF ExtensionInv
<1> DEFINE others == [request EXCEPT ![r] = NoRequest]
           painted == IF Here(r) THEN Paint(r) ELSE panel.view
<1>1. /\ request[r].pc \in {"done", "failed"}
      /\ panel' = (IF Here(r) THEN [panel EXCEPT !.view = Paint(r)] ELSE panel)
      /\ request' \in {others, Repainted(others)}
      /\ UNCHANGED <<site, siteButton, token, tab, kept, missed, moved, refused, resaved, breaks>>
  BY DEF Answered
<1>2. /\ request' \in [Requests -> Messages] /\ ~Live(r)' /\ ~AddIsDone(r)'
      /\ \A s \in Requests \ {r} : /\ Live(s)' <=> Live(s)
                                   /\ AddIsDone(s)' <=> AddIsDone(s)
                                   /\ request'[s].kind = request[s].kind
  BY <1>1, MessageEnds
<1> HIDE DEF others
<1>3. panel \in Panels /\ request[r] \in Messages
  BY DEF ExtensionTypes
<1>4. Live(r) <=> Here(r)
  BY <1>1 DEF Live
<1>5. painted \in {"form", "error", "added", panel.view} /\ (~Here(r) => painted = panel.view)
  BY DEF Paint
<1>6. painted = "added" => panel.view = "added" \/ AddIsDone(r)
  <2>1. request[r].kind \in {"list", "add"}
    BY <1>3 DEF Messages
  <2>2. Here(r) /\ ~(request[r].kind = "add" /\ request[r].pc = "done") =>
          painted \in {"form", "error", panel.view}
    <3>1. request[r].kind = "list" => Paint(r) \in {"form", "error"}
      BY DEF Paint
    <3>2. request[r].kind # "list" /\ request[r].pc # "done" => Paint(r) \in {"form", panel.view}
      BY DEF Paint
    <3> QED
      BY <2>1, <3>1, <3>2
  <2>3. ~Here(r) => painted = panel.view
    OBVIOUS
  <2> HIDE DEF painted
  <2> QED
    BY <1>4, <2>2, <2>3 DEF AddIsDone
<1>7. AddIsDone(r) => painted = "added"
  BY <1>4 DEF Paint, AddIsDone
<1>8. Here(r) => panel.kind # "none" /\ panel.view # "closed"
  BY <1>4 DEF OneMessage, ExtensionTypes
<1> HIDE DEF painted
<1>9. panel' \in Panels /\ panel'.kind = panel.kind /\ panel'.product = panel.product /\ panel'.view = painted
  <2>1. CASE Here(r)
    <3>1. panel' = [panel EXCEPT !.view = painted]
      BY <1>1, <2>1 DEF painted
    <3>2. painted \in {"closed", "empty", "connect", "no product", "error", "form", "adding", "added"}
      BY <1>3, <1>5 DEF Panels
    <3> QED
      BY <1>3, <3>1, <3>2 DEF Panels
  <2>2. CASE ~Here(r)
    BY <1>1, <1>3, <1>5, <2>2
  <2> QED
    BY <2>1, <2>2
<1>10. ExtensionTypes'
  BY <1>1, <1>2, <1>5, <1>8, <1>9 DEF ExtensionTypes
<1>11. ASSUME ~resaved, Live(r)
       PROVE  /\ \A s \in Requests : ~Live(s)'
              /\ panel.view # "added" /\ (\A s \in Requests : AddIsDone(s) => s = r)
  BY <1>2, <1>11 DEF OneMessage, AddIsDone
<1>12. OneMessage'
  <2>1. panel'.kind = "none" => \A s \in Requests : ~Live(s)'
    BY <1>2, <1>9 DEF OneMessage
  <2>2. CASE ~resaved /\ Live(r)
    BY <1>1, <1>11, <2>1, <2>2 DEF OneMessage
  <2>3. CASE ~Live(r)
    BY <1>1, <1>2, <1>4, <1>5, <1>9, <2>1, <2>3 DEF OneMessage
  <2>4. CASE resaved
    BY <1>1, <2>1, <2>4 DEF OneMessage
  <2> QED
    BY <2>2, <2>3, <2>4
<1>13. RowsAreAnswered'
  <2>1. panel'.view = "added" => kept' > 0
    BY <1>1, <1>6, <1>9 DEF RowsAreAnswered
  <2>2. \A s \in Requests : AddIsDone(s)' => kept' > 0
    BY <1>1, <1>2 DEF RowsAreAnswered
  <2>3. ASSUME panel'.kind # "none", ~resaved'
        PROVE  /\ kept' <= 1 + missed'
               /\ panel'.view # "added" /\ (\A s \in Requests : ~AddIsDone(s)') => kept' <= missed'
    <3>1. kept <= 1 + missed
      BY <1>1, <1>9, <2>3 DEF RowsAreAnswered
    <3>2. ASSUME panel'.view # "added", \A s \in Requests : ~AddIsDone(s)' PROVE kept <= missed
      <4>1. ~AddIsDone(r)
        BY <1>7, <1>9, <3>2
      <4>2. \A s \in Requests : ~AddIsDone(s)
        BY <1>2, <3>2, <4>1
      <4>3. panel.view # "added"
        BY <1>1, <1>4, <1>5, <1>9, <1>11, <2>3, <3>2
      <4> QED
        BY <1>1, <1>9, <2>3, <4>2, <4>3 DEF RowsAreAnswered
    <3> QED
      BY <1>1, <3>1, <3>2
  <2> QED
    BY <2>1, <2>2, <2>3 DEF RowsAreAnswered
<1>14. ButtonIsOfSite'
  BY <1>1, <1>9 DEF ButtonIsOfSite
<1> QED
  BY <1>10, <1>12, <1>13, <1>14

\* A refused token opens the connect page and paints nothing.
LEMMA RefuseTokenInv ==
  ASSUME ExtensionInv, NEW r \in Requests, RefuseToken(r)
  PROVE  ExtensionInv'
<1> USE DEF ExtensionInv
<1>1. /\ request[r].pc = "unauthorized"
      /\ refused' = (refused \/ Here(r))
      /\ tab' = IF request[r].from = "gone" THEN tab ELSE "minting"
      /\ UNCHANGED <<site, siteButton, token, kept, missed, moved, resaved, breaks>>
  BY DEF RefuseToken
<1>2. /\ site' \in Goods \cup {Elsewhere} /\ siteButton' \in Goods \cup {Unknown}
      /\ tab' \in {"closed", "minting", "minted", "manual"} /\ moved' \in BOOLEAN /\ refused' \in BOOLEAN
  BY <1>1 DEF ExtensionTypes
<1>3. CASE Here(r) /\ panel.kind = "popup"
  <2>1. panel' = NoPanel /\ request' = [Left("gone") EXCEPT ![r] = NoRequest]
    BY <1>3 DEF RefuseToken
  <2>2. NoRequest \in Messages /\ NoRequest.pc = "idle"
    BY DEF NoRequest, Messages
  <2>3. \A s \in Requests : Left("gone")[s] \in Messages /\ Left("gone")[s].from = "gone"
    BY DEF Left, ExtensionTypes, Messages
  <2>4. Left("gone") \in [Requests -> Messages]
    BY <2>3 DEF Left
  <2>5. request' \in [Requests -> Messages] /\ \A s \in Requests : ~Live(s)'
    <3>1. request' \in [Requests -> Messages] /\ request'[r] = NoRequest
      BY <2>1, <2>2, <2>4
    <3>2. \A s \in Requests \ {r} : request'[s] = Left("gone")[s]
      BY <2>1, <2>4
    <3> QED
      BY <2>2, <2>3, <3>1, <3>2 DEF Live, Here
  <2>6. ~moved' /\ siteButton' # Unknown => siteButton' = site'
    BY <1>1 DEF ButtonIsOfSite
  <2> QED
    BY <1>1, <1>2, <2>1, <2>5, <2>6, PanelGoneInv
<1>4. CASE ~(Here(r) /\ panel.kind = "popup")
  <2>1. request' = [request EXCEPT ![r] = NoRequest] /\ UNCHANGED panel
    BY <1>4 DEF RefuseToken
  <2>2. /\ request' \in [Requests -> Messages] /\ ~Live(r)' /\ ~AddIsDone(r)'
        /\ \A s \in Requests \ {r} : /\ Live(s)' <=> Live(s)
                                     /\ AddIsDone(s)' <=> AddIsDone(s)
                                     /\ request'[s].kind = request[s].kind
    BY <2>1, MessageEnds
  <2>3. \A s \in Requests : (Live(s)' => Live(s)) /\ (AddIsDone(s)' <=> AddIsDone(s))
    BY <1>1, <2>2 DEF AddIsDone
  <2>4. ExtensionTypes' /\ ButtonIsOfSite'
    BY <1>1, <1>2, <2>1, <2>2 DEF ExtensionTypes, ButtonIsOfSite
  <2>5. OneMessage'
    BY <1>1, <2>1, <2>2, <2>3 DEF OneMessage
  <2>6. RowsAreAnswered'
    BY <1>1, <2>1, <2>3 DEF RowsAreAnswered
  <2> QED
    BY <2>4, <2>5, <2>6
<1> QED
  BY <1>3, <1>4

\* The invariant of the extension, by action.
LEMMA ExtensionInvIsInductive == ExtensionInv /\ [ExtensionNext]_extensionVars => ExtensionInv'
<1> SUFFICES ASSUME ExtensionInv, [ExtensionNext]_extensionVars PROVE ExtensionInv'
  OBVIOUS
<1>1. /\ token \in {"none", "good", "wrong"} /\ tab \in {"closed", "minting", "minted", "manual"}
      /\ breaks \in 0 .. MaxBreaks /\ (Break => breaks' \in 0 .. MaxBreaks)
      /\ siteButton \in Goods \cup {Unknown} /\ site \in Goods \cup {Elsewhere}
  BY Breaks DEF ExtensionInv, ExtensionTypes
<1>2. CASE TogglePanel
  BY <1>1, <1>2, OpenUIInv DEF TogglePanel
<1>3. ASSUME NEW found \in BOOLEAN, OpenPopup(found) PROVE ExtensionInv'
  <2>1. ExtractProduct(site, found) \in Goods \cup {Elsewhere, Unknown}
    BY <1>1 DEF ExtractProduct
  <2> QED
    BY <1>3, <2>1, OpenUIInv DEF OpenPopup
<1>4. ASSUME NEW ok \in BOOLEAN, Mint(ok) PROVE ExtensionInv'
  BY <1>1, <1>4, UnnoticedInv DEF Mint
<1>5. ASSUME NEW ok \in BOOLEAN, HandOver(ok) PROVE ExtensionInv'
  BY <1>1, <1>5, UnnoticedInv DEF HandOver
<1>6. ASSUME NEW opened \in BOOLEAN, VisitConnect(opened) PROVE ExtensionInv'
  BY <1>1, <1>6, UnnoticedInv DEF VisitConnect
<1>7. CASE UNCHANGED extensionVars
  BY <1>1, <1>7, UnnoticedInv DEF extensionVars, panelVars
<1> QED
  BY <1>2, <1>3, <1>4, <1>5, <1>6, <1>7, NavigateInv, InjectButtonInv, ClosePanelInv, SaveCodeInv,
     ConnectButtonInv, AddInv, WorkInv, AnsweredInv, RefuseTokenInv, WorkFailsInv DEF ExtensionNext

\* It implies the types and that a form adds its product once.
LEMMA ExtensionInvImplies == ExtensionInv => ExtensionTypeOK /\ FormAddsOnce
<1> SUFFICES ASSUME ExtensionInv PROVE ExtensionTypeOK /\ FormAddsOnce
  OBVIOUS
<1> USE DEF ExtensionInv
<1>1. panel \in Panels /\ (panel.kind = "none" <=> panel.view = "closed")
  BY DEF ExtensionTypes
<1>2. Working => panel.kind # "none"
  BY DEF OneMessage, Working, Live
<1>3. ExtensionTypeOK
  BY <1>1, <1>2 DEF ExtensionTypes, ExtensionTypeOK, Panels, Messages
<1>4. panel.kind = "panel" /\ ~moved => panel.product = site
  BY DEF ButtonIsOfSite
<1> QED
  BY <1>3, <1>4 DEF FormAddsOnce, RowsAreAnswered

\* The content script, the popup and the service worker keep their types.
THEOREM ExtensionTypeCorrect == ExtensionSpec => []ExtensionTypeOK
<1>1. ExtensionSpec => []ExtensionInv
  BY ExtensionInvInitially, ExtensionInvIsInductive, PTL DEF ExtensionSpec
<1> QED
  BY <1>1, ExtensionInvImplies, PTL

\* renderAddUI with the worker's api, for any number of messages at the same time: a form
\* adds its product once, and once more for every lost answer; "Added!" means that it is
\* there; and the panel is about the page under it.
THEOREM ExtensionAddsOnce == ExtensionSpec => []FormAddsOnce
<1>1. ExtensionSpec => []ExtensionInv
  BY ExtensionInvInitially, ExtensionInvIsInductive, PTL DEF ExtensionSpec
<1> QED
  BY <1>1, ExtensionInvImplies, PTL

-----------------------------------------------------------------------------
(* The search and the follow button                                        *)

CardsOrNone == Cards \cup {None}
Reads ==
  [pc : {"idle", "timer", "asked", "counted", "answered", "failed"}, query : Queries \cup {None},
   card : CardsOrNone]
FollowRequests ==
  [pc : {"idle", "sent", "resolved", "wrote", "answered", "failed", "unauthorized"},
   want : BOOLEAN, before : CardsOrNone, answer : CardsOrNone]
Views == [kind : {"initial", "loading", "results", "error"}, query : Queries \cup {None}, found : BOOLEAN]

DiscoverTypes ==
  /\ follows \in BOOLEAN /\ banned \in BOOLEAN /\ signedIn \in BOOLEAN /\ misled \in BOOLEAN
  /\ troubles \in 0 .. MaxTroubles
  /\ page \in {"away", "opening discover", "opening profile", "discover", "profile"}
  /\ listed \in CardsOrNone /\ button \in CardsOrNone
  /\ query \in Queries \cup {None} /\ latest \in 0 .. MaxId + 1 /\ view \in Views
  /\ read \in [0 .. MaxId -> Reads] /\ tap \in [Taps -> FollowRequests]

\* The box is that of the discover page, and only its newest search is about its text.
SearchIsLatest ==
  /\ page # "discover" => query = None /\ latest = 0
  /\ query = None => view = NoResults
  /\ query # None => view.kind # "initial" /\ latest <= MaxId
  /\ view.kind = "results" => view.query = query
  /\ \A i \in 1 .. MaxId : read[i].pc # "idle" =>
       i <= latest /\ (i = latest => query # None /\ read[i].query = query)

\* A card that was read at one time counts the viewer it calls a follower.
AddsUp(card) == card # None => card.count <= 1 /\ (card.following /\ ~card.torn => card.count > 0)

ReadIsSound(m) ==
  /\ m.pc \in {"idle", "timer", "asked", "failed"} => m.card = None
  /\ m.pc = "counted" => /\ m.card # None /\ ~m.card.following /\ m.card.count <= 1
                         /\ ~m.card.torn => m.card.count = CountFollowers
  /\ m.pc = "answered" => AddsUp(m.card)

ReadsAreSound == AddsUp(listed) /\ \A i \in 0 .. MaxId : ReadIsSound(read[i])

\* A request whose button is there remembers a card, and one that wrote has its answer.
TapIsSound(m) ==
  /\ m.pc = "idle" => m.before = None
  /\ m.pc \in {"wrote", "answered"} => m.before # None /\ m.answer # None
  /\ AddsUp(m.before)
  /\ m.pc = "wrote" => m.answer.count = 0 /\ (~m.answer.torn => m.answer.following = follows)
  /\ m.pc = "answered" => AddsUp(m.answer)

\* A button waits for one request at a time, and knows no more than it was told.
ButtonWaitsForOne ==
  /\ \A t \in Taps : TapIsSound(tap[t])
  /\ \A t, u \in Taps : Heard(t) /\ Heard(u) => t = u
  /\ \A t \in Taps : Heard(t) => button # None
  /\ button # None =>
       /\ button.following /\ ~button.torn => button.count > 0
       /\ (\A t \in Taps : ~Heard(t)) => button.count <= 1

\* What the button says, or will say again after an error, or after the answer.
ButtonIsHonest ==
  signedIn /\ ~misled =>
    /\ button # None /\ (\A t \in Taps : ~Heard(t)) => button.following = follows
    /\ \A t \in Taps : Heard(t) =>
         /\ tap[t].pc \in {"sent", "resolved", "failed"} => tap[t].before.following = follows
         /\ tap[t].pc \in {"wrote", "answered"} => tap[t].answer.following = follows

DiscoverInv ==
  /\ DiscoverTypes /\ SearchIsLatest /\ ReadsAreSound /\ (button # None <=> Shown)
  /\ ButtonWaitsForOne /\ ButtonIsHonest

\* What the constants say of cards, queries and the number of followers.
LEMMA CardFacts ==
  /\ None \notin Cards /\ None \notin Queries
  /\ \A c \in Cards : c.following \in BOOLEAN /\ c.torn \in BOOLEAN /\ c.count \in 0 .. 2
  /\ CountFollowers \in 0 .. 1
BY DiscoverAssumption DEF Cards, CountFollowers

\* Searches are numbered from 1; 0 is the read of a profile.
LEMMA SearchNumbers ==
  /\ MaxId \in Nat /\ 0 \in 0 .. MaxId /\ 0 \in 0 .. MaxId + 1
  /\ \A i \in 1 .. MaxId : i \in 0 .. MaxId /\ i # 0
BY DiscoverAssumption

\* A read and a tap that are not under way are records of their types.
LEMMA IdleRecords ==
  /\ NoRead \in Reads /\ NoRead.pc = "idle" /\ NoRead.query = None /\ NoRead.card = None
  /\ NoTap \in FollowRequests /\ NoTap.pc = "idle" /\ NoTap.before = None
  /\ NoResults \in Views /\ NoResults.kind = "initial" /\ NoResults.query = None
BY DEF NoRead, NoTap, NoResults, Reads, FollowRequests, Views, CardsOrNone

\* Nothing is wrong with a read or a tap that is not under way.
LEMMA IdleIsSound == AddsUp(None) /\ ReadIsSound(NoRead) /\ TapIsSound(NoTap)
BY IdleRecords DEF AddsUp, ReadIsSound, TapIsSound

\* No box, no button and nothing under way.
LEMMA DiscoverInvInitially == DiscoverInit => DiscoverInv
<1> SUFFICES ASSUME DiscoverInit PROVE DiscoverInv
  OBVIOUS
<1>1. /\ read = [i \in 0 .. MaxId |-> NoRead] /\ tap = [t \in Taps |-> NoTap]
      /\ view = NoResults /\ listed = None /\ button = None /\ query = None /\ latest = 0
      /\ page = "away" /\ misled = FALSE /\ troubles = 0 /\ banned = FALSE /\ signedIn = TRUE
      /\ follows \in BOOLEAN
  BY DEF DiscoverInit
<1>2. read \in [0 .. MaxId -> Reads] /\ tap \in [Taps -> FollowRequests] /\ view \in Views
  BY <1>1, IdleRecords
<1>3. latest \in 0 .. MaxId + 1 /\ troubles \in 0 .. MaxTroubles
  BY <1>1, DiscoverAssumption
<1>4. DiscoverTypes
  BY <1>1, <1>2, <1>3 DEF DiscoverTypes, CardsOrNone
<1>5. SearchIsLatest
  BY <1>1, IdleRecords DEF SearchIsLatest
<1>6. ReadsAreSound /\ \A t \in Taps : TapIsSound(tap[t]) /\ ~Heard(t)
  BY <1>1, IdleIsSound, IdleRecords DEF ReadsAreSound, Heard
<1>7. ButtonWaitsForOne /\ ButtonIsHonest
  BY <1>1, <1>6 DEF ButtonWaitsForOne, ButtonIsHonest
<1>8. button # None <=> Shown
  BY <1>1, IdleRecords DEF Shown
<1> QED
  BY <1>4, <1>5, <1>6, <1>7, <1>8 DEF DiscoverInv

\* Mishaps are counted up to their bound.
LEMMA Troubles ==
  ASSUME DiscoverTypes
  PROVE  troubles \in 0 .. MaxTroubles /\ (Trouble => troubles' \in 0 .. MaxTroubles)
<1>1. troubles \in 0 .. MaxTroubles
  BY DEF DiscoverTypes
<1>2. MaxTroubles \in Nat
  BY DiscoverAssumption
<1> QED
  BY <1>1, <1>2 DEF Trouble

\* A request whose button is gone is nobody's.
LEMMA UnheardTaps ==
  ASSUME NEW m \in FollowRequests, TapIsSound(m)
  PROVE  /\ Unheard(m) \in FollowRequests /\ Unheard(m).before = None /\ TapIsSound(Unheard(m))
         /\ Unheard(m).pc \notin {"wrote", "answered"}
<1>1. CASE m.pc \in {"wrote", "answered"}
  BY <1>1, IdleRecords, IdleIsSound DEF Unheard
<1>2. CASE m.pc \notin {"wrote", "answered"}
  <2> DEFINE n == [m EXCEPT !.before = None]
  <2>1. n \in FollowRequests /\ n.before = None /\ n.pc = m.pc
    BY DEF FollowRequests, CardsOrNone
  <2>2. Unheard(m) = n
    BY <1>2 DEF Unheard
  <2> HIDE DEF n
  <2>3. TapIsSound(n)
    BY <1>2, <2>1, IdleIsSound DEF TapIsSound
  <2> QED
    BY <1>2, <2>1, <2>2, <2>3
<1> QED
  BY <1>1, <1>2

\* A button that appears knows its card and waits for nothing.
LEMMA MountInv ==
  ASSUME DiscoverInv, NEW card \in CardsOrNone, AddsUp(card), Mount(card), UNCHANGED serverVars
  PROVE  /\ button' = card /\ misled' \in BOOLEAN /\ tap' \in [Taps -> FollowRequests]
         /\ ButtonWaitsForOne' /\ ButtonIsHonest'
<1> USE DEF DiscoverInv
<1>1. /\ button' = card /\ tap' = [t \in Taps |-> Unheard(tap[t])]
      /\ misled' = (card # None /\ signedIn /\ card.following # follows)
      /\ follows' = follows /\ signedIn' = signedIn
  BY DEF Mount, serverVars
<1>2. \A t \in Taps : tap[t] \in FollowRequests /\ TapIsSound(tap[t])
  BY DEF DiscoverTypes, ButtonWaitsForOne
<1>3. \A t \in Taps : /\ tap'[t] \in FollowRequests /\ tap'[t].before = None /\ TapIsSound(tap'[t])
                      /\ tap'[t].pc \notin {"wrote", "answered"}
  BY <1>1, <1>2, UnheardTaps
<1>4. tap' \in [Taps -> FollowRequests]
  BY <1>1, <1>3
<1>5. \A t \in Taps : ~Heard(t)'
  BY <1>3 DEF Heard
<1>6. \A t \in Taps : TapIsSound(tap[t])'
  BY <1>1, <1>3 DEF TapIsSound, AddsUp
<1>7. ButtonWaitsForOne'
  BY <1>1, <1>5, <1>6 DEF ButtonWaitsForOne, AddsUp
<1>8. ButtonIsHonest'
  <2>1. misled' \in BOOLEAN
    BY <1>1
  <2>2. signedIn' /\ ~misled' => card = None \/ card.following = follows
    BY <1>1
  <2> QED
    BY <1>1, <1>5, <2>2 DEF ButtonIsHonest
<1> QED
  BY <1>1, <1>4, <1>7, <1>8

\* The reads of the creator that go on, or of which there are none any more.
LEMMA ReadsStaySound ==
  ASSUME DiscoverInv, UNCHANGED follows, listed' \in CardsOrNone, AddsUp(listed'),
         read' \in [0 .. MaxId -> Reads],
         \A i \in 0 .. MaxId : read'[i] = read[i] \/ ReadIsSound(read'[i])
  PROVE  ReadsAreSound'
<1>1. \A i \in 0 .. MaxId : ReadIsSound(read'[i])
  BY DEF DiscoverInv, ReadsAreSound
<1>2. \A i \in 0 .. MaxId : ReadIsSound(read[i])'
  BY <1>1 DEF ReadIsSound, AddsUp, CountFollowers
<1>3. AddsUp(listed)'
  BY DEF AddsUp
<1> QED
  BY <1>2, <1>3 DEF ReadsAreSound

\* A read takes its next step: nobody else notices.
LEMMA ReadInv ==
  ASSUME DiscoverInv, NEW i \in 0 .. MaxId, NEW m \in Reads, read' = [read EXCEPT ![i] = m],
         read[i].pc # "idle", m.query = read[i].query, ReadIsSound(m),
         UNCHANGED <<serverVars, page, listed, searchVars, button, tap, misled>>,
         troubles' \in 0 .. MaxTroubles
  PROVE  DiscoverInv'
<1> USE DEF DiscoverInv
<1>1. read' \in [0 .. MaxId -> Reads] /\ read'[i] = m /\ \A j \in 0 .. MaxId : j # i => read'[j] = read[j]
  BY DEF DiscoverTypes
<1>2. DiscoverTypes'
  BY <1>1 DEF DiscoverTypes, serverVars, searchVars
<1>3. \A j \in 1 .. MaxId : j \in 0 .. MaxId
  BY DiscoverAssumption
<1>4. SearchIsLatest'
  BY <1>1, <1>3 DEF SearchIsLatest, searchVars
<1>5. ReadsAreSound'
  BY <1>1, <1>2, ReadsStaySound DEF DiscoverTypes, ReadsAreSound, serverVars
<1>6. (button # None <=> Shown)'
  BY DEF Shown, searchVars
<1>7. ButtonWaitsForOne' /\ ButtonIsHonest'
  BY DEF ButtonWaitsForOne, ButtonIsHonest, TapIsSound, AddsUp, Heard, serverVars
<1> QED
  BY <1>2, <1>4, <1>5, <1>6, <1>7

\* The timer and the statements of a read go on, or fail, on the server.
LEMMA ReadStepsInv ==
  ASSUME DiscoverInv, NEW i \in 0 .. MaxId, NEW ok \in BOOLEAN,
         TimerFires(i) \/ ReadCount(i) \/ ReadFollowing(i, ok) \/ ReadFails(i)
  PROVE  DiscoverInv'
<1> DEFINE r == read[i]
<1>1. r \in Reads /\ ReadIsSound(r) /\ read \in [0 .. MaxId -> Reads]
  BY DEF DiscoverInv, DiscoverTypes, ReadsAreSound
<1>2. troubles \in 0 .. MaxTroubles /\ (Trouble => troubles' \in 0 .. MaxTroubles)
  BY Troubles DEF DiscoverInv
<1> HIDE DEF r
<1>3. r = read[i]
  BY DEF r
<1>4. CASE TimerFires(i)
  <2> DEFINE m == [r EXCEPT !.pc = "asked"]
  <2>1. r.pc = "timer" /\ read' = [read EXCEPT ![i] = m]
    BY <1>1, <1>3, <1>4 DEF TimerFires
  <2>2. m \in Reads /\ m.pc = "asked" /\ m.query = r.query /\ m.card = r.card
    BY <1>1 DEF Reads
  <2> HIDE DEF m
  <2>3. ReadIsSound(m)
    BY <1>1, <2>1, <2>2 DEF ReadIsSound
  <2> QED
    BY <1>2, <1>3, <1>4, <2>1, <2>2, <2>3, ReadInv DEF TimerFires
<1>5. CASE ReadCount(i)
  <2>1. r.pc = "asked" /\ r.card = None
    BY <1>1, <1>3, <1>5 DEF ReadCount, ReadIsSound
  <2>2. CASE banned \/ r.query \notin Finds \cup {None}
    <3> DEFINE m == [r EXCEPT !.pc = "answered"]
    <3>1. read' = [read EXCEPT ![i] = m]
      BY <1>1, <1>3, <1>5, <2>2 DEF ReadCount
    <3>2. m \in Reads /\ m.pc = "answered" /\ m.query = r.query /\ m.card = None
      BY <1>1, <2>1 DEF Reads
    <3> HIDE DEF m
    <3>3. ReadIsSound(m)
      BY <3>2 DEF ReadIsSound, AddsUp
    <3> QED
      BY <1>2, <1>3, <1>5, <2>1, <3>1, <3>2, <3>3, ReadInv DEF ReadCount
  <2>3. CASE ~(banned \/ r.query \notin Finds \cup {None})
    <3> DEFINE card == Card(FALSE, CountFollowers, FALSE)
               m == [r EXCEPT !.pc = "counted", !.card = card]
    <3>1. read' = [read EXCEPT ![i] = m]
      BY <1>1, <1>3, <1>5, <2>3 DEF ReadCount
    <3>2. card \in Cards /\ card.following = FALSE /\ card.count = CountFollowers /\ card.torn = FALSE
      BY CardFacts DEF Card, Cards
    <3> HIDE DEF card
    <3>3. m \in Reads /\ m.pc = "counted" /\ m.query = r.query /\ m.card = card
      BY <1>1, <3>2 DEF Reads, CardsOrNone
    <3> HIDE DEF m
    <3>4. ReadIsSound(m)
      BY <3>2, <3>3, CardFacts DEF ReadIsSound
    <3> QED
      BY <1>2, <1>3, <1>5, <2>1, <3>1, <3>3, <3>4, ReadInv DEF ReadCount
  <2> QED
    BY <2>2, <2>3
<1>6. CASE ReadFollowing(i, ok)
  <2> DEFINE says == ok /\ signedIn /\ follows
             card == [r.card EXCEPT !.following = says]
             m == [r EXCEPT !.pc = "answered", !.card = card]
  <2>1. r.pc = "counted" /\ r.card \in Cards /\ r.card.count <= 1 /\ (~r.card.torn => r.card.count = CountFollowers)
    BY <1>1, <1>3, <1>6 DEF ReadFollowing, ReadIsSound, Reads, CardsOrNone
  <2>2. read' = [read EXCEPT ![i] = m]
    <3>1. read' = [read EXCEPT ![i].pc = "answered", ![i].card.following = says]
      BY <1>6 DEF ReadFollowing
    <3> QED
      BY <1>1, <1>3, <3>1 DEF Reads
  <2>3. says \in BOOLEAN /\ (says => follows)
    BY DEF DiscoverInv, DiscoverTypes
  <2> HIDE DEF says
  <2>4. card \in Cards /\ card.following = says /\ card.count = r.card.count /\ card.torn = r.card.torn
    BY <2>1, <2>3 DEF Cards
  <2> HIDE DEF card
  <2>5. m \in Reads /\ m.pc = "answered" /\ m.query = r.query /\ m.card = card
    BY <1>1, <2>4 DEF Reads, CardsOrNone
  <2> HIDE DEF m
  <2>6. AddsUp(card)
    BY <2>1, <2>3, <2>4 DEF AddsUp, CountFollowers
  <2>7. ReadIsSound(m)
    BY <2>5, <2>6 DEF ReadIsSound
  <2>8. troubles' \in 0 .. MaxTroubles
    BY <1>2, <1>6 DEF ReadFollowing
  <2> QED
    BY <1>3, <1>6, <2>1, <2>2, <2>5, <2>7, <2>8, ReadInv DEF ReadFollowing
<1>7. CASE ReadFails(i)
  <2> DEFINE m == [r EXCEPT !.pc = "failed", !.card = None]
  <2>1. r.pc \in {"asked", "counted"} /\ read' = [read EXCEPT ![i] = m]
    BY <1>1, <1>3, <1>7 DEF ReadFails
  <2>2. m \in Reads /\ m.pc = "failed" /\ m.query = r.query /\ m.card = None
    BY <1>1 DEF Reads, CardsOrNone
  <2> HIDE DEF m
  <2>3. ReadIsSound(m)
    BY <2>2 DEF ReadIsSound
  <2> QED
    BY <1>2, <1>3, <1>7, <2>1, <2>2, <2>3, ReadInv DEF ReadFails
<1> QED
  BY <1>4, <1>5, <1>6, <1>7

\* Another page, or another state of the search box, with the button that goes with it.
LEMMA PageChangesInv ==
  ASSUME DiscoverInv, UNCHANGED <<serverVars, troubles>>,
         page' \in {"away", "opening discover", "opening profile", "discover", "profile"},
         query' \in Queries \cup {None}, latest' \in 0 .. MaxId + 1, view' \in Views,
         listed' \in CardsOrNone, AddsUp(listed'), read' \in [0 .. MaxId -> Reads],
         \A i \in 0 .. MaxId : read'[i] = read[i] \/ ReadIsSound(read'[i]),
         SearchIsLatest',
         NEW card \in CardsOrNone, AddsUp(card), Mount(card), (card # None) <=> Shown'
  PROVE  DiscoverInv'
<1>1. /\ button' = card /\ misled' \in BOOLEAN /\ tap' \in [Taps -> FollowRequests]
      /\ ButtonWaitsForOne' /\ ButtonIsHonest'
  BY MountInv DEF serverVars
<1>2. ReadsAreSound'
  BY ReadsStaySound DEF serverVars
<1>3. DiscoverTypes'
  BY <1>1 DEF DiscoverInv, DiscoverTypes, serverVars
<1>4. (button # None <=> Shown)'
  BY <1>1
<1> QED
  BY <1>1, <1>2, <1>3, <1>4 DEF DiscoverInv

\* Going to another page takes box and button away; the requests run on.
LEMMA VisitInv ==
  ASSUME DiscoverInv, NEW p \in {"opening discover", "opening profile", "away"}, Visit(p)
  PROVE  DiscoverInv'
<1> DEFINE asked == [NoRead EXCEPT !.pc = "asked"]
<1>1. /\ page' = p /\ listed' = None /\ query' = None /\ latest' = 0 /\ view' = NoResults
      /\ read' = [i \in 0 .. MaxId |-> IF i = 0 /\ p # "away" THEN asked ELSE NoRead]
      /\ Mount(None) /\ UNCHANGED <<serverVars, troubles>>
  BY DEF Visit
<1>2. asked \in Reads /\ asked.pc = "asked" /\ asked.card = None
  BY IdleRecords DEF Reads
<1> HIDE DEF asked
<1>3. ReadIsSound(asked)
  BY <1>2 DEF ReadIsSound
<1>4. /\ read' \in [0 .. MaxId -> Reads]
      /\ \A i \in 0 .. MaxId : read'[i] = asked \/ read'[i] = NoRead
      /\ \A i \in 1 .. MaxId : read'[i] = NoRead
  <2> DEFINE R(i) == IF i = 0 /\ p # "away" THEN asked ELSE NoRead
  <2>6. read' = [i \in 0 .. MaxId |-> R(i)]
    BY <1>1
  <2> HIDE DEF R
  <2>1. \A i \in 0 .. MaxId : read'[i] = R(i)
    BY <2>6
  <2> USE DEF R
  <2>2. \A i \in 1 .. MaxId : i \in 0 .. MaxId /\ i # 0
    BY SearchNumbers
  <2>3. \A i \in 0 .. MaxId : read'[i] = asked \/ read'[i] = NoRead
    BY <2>1
  <2>4. \A i \in 1 .. MaxId : read'[i] = NoRead
    BY <2>1, <2>2
  <2>5. DOMAIN read' = 0 .. MaxId /\ read' = [i \in 0 .. MaxId |-> read'[i]]
    BY <1>1
  <2> QED
    BY <1>2, <2>3, <2>4, <2>5, IdleRecords
<1>5. SearchIsLatest'
  BY <1>1, <1>4, IdleRecords DEF SearchIsLatest
<1>6. ~Shown' /\ None \in CardsOrNone
  BY <1>1, IdleRecords DEF Shown, CardsOrNone
<1>7. \A i \in 0 .. MaxId : ReadIsSound(read'[i])
  <2> TAKE i \in 0 .. MaxId
  <2>1. CASE read'[i] = asked
    BY <1>3, <2>1
  <2>2. CASE read'[i] = NoRead
    BY <2>2, IdleIsSound
  <2>3. read'[i] = asked \/ read'[i] = NoRead
    BY <1>4
  <2> QED
    BY <2>1, <2>2, <2>3
<1>8. latest' \in 0 .. MaxId + 1
  BY <1>1, SearchNumbers
<1> QED
  BY <1>1, <1>4, <1>5, <1>6, <1>7, <1>8, IdleRecords, IdleIsSound, PageChangesInv

\* The server renders a page around what it has read.
LEMMA PageRenderedInv ==
  ASSUME DiscoverInv, DiscoverPage \/ CreatorProfilePage
  PROVE  DiscoverInv'
<1> USE DEF DiscoverInv
<1> DEFINE card == read[0].card
<1>1. /\ page \in {"opening discover", "opening profile"} /\ read[0].pc \in {"answered", "failed"}
      /\ page' \in {"discover", "away", "profile"}
      /\ listed' = card /\ read' = [read EXCEPT ![0] = NoRead] /\ Mount(card)
      /\ UNCHANGED <<serverVars, searchVars, troubles>>
  BY DEF DiscoverPage, CreatorProfilePage
<1>2. 0 \in 0 .. MaxId /\ \A i \in 1 .. MaxId : i \in 0 .. MaxId /\ i # 0
  BY DiscoverAssumption
<1>3. card \in CardsOrNone /\ AddsUp(card)
  BY <1>1, <1>2, IdleIsSound DEF DiscoverTypes, ReadsAreSound, ReadIsSound, Reads
<1>4. read' \in [0 .. MaxId -> Reads] /\ \A i \in 0 .. MaxId : read'[i] = read[i] \/ read'[i] = NoRead
  BY <1>1, IdleRecords DEF DiscoverTypes
<1>5. query = None /\ latest = 0 /\ view = NoResults
  BY <1>1 DEF SearchIsLatest
<1>6. SearchIsLatest'
  <2>1. query' = None /\ latest' = 0 /\ view' = NoResults
    BY <1>1, <1>5 DEF searchVars
  <2>2. \A i \in 1 .. MaxId : read'[i].pc = "idle"
    <3>1. \A i \in 1 .. MaxId : read[i].pc = "idle"
      BY <1>5, <1>2 DEF SearchIsLatest
    <3> QED
      BY <1>1, <1>2, <1>4, <3>1, IdleRecords
  <2> QED
    BY <2>1, <2>2, IdleRecords DEF SearchIsLatest
<1>7. (card # None) <=> Shown'
  BY <1>1, <1>5, IdleRecords DEF Shown, searchVars
<1>8. query' \in Queries \cup {None} /\ latest' \in 0 .. MaxId + 1 /\ view' \in Views
  BY <1>1 DEF DiscoverTypes, searchVars
<1> HIDE DEF card
<1> QED
  BY <1>1, <1>3, <1>4, <1>6, <1>7, <1>8, IdleIsSound, PageChangesInv

\* Cancelling gives up the searches and nothing else.
LEMMA CancelledReads ==
  ASSUME DiscoverTypes
  PROVE  Cancelled \in [0 .. MaxId -> Reads]
         /\ \A i \in 0 .. MaxId : Cancelled[i] = read[i] \/ Cancelled[i] = NoRead
BY IdleRecords DEF Cancelled, DiscoverTypes

\* A key in the box cancels the search before it and starts a timer.
LEMMA TypeInv ==
  ASSUME DiscoverInv, NEW q \in Queries, Type(q)
  PROVE  DiscoverInv'
<1> USE DEF DiscoverInv
<1> DEFINE n == latest + 1
           timer == [NoRead EXCEPT !.pc = "timer", !.query = q]
           loading == [NoResults EXCEPT !.kind = "loading"]
<1>1. /\ page = "discover" /\ latest < MaxId /\ query' = q /\ latest' = n /\ view' = loading
      /\ read' = [Cancelled EXCEPT ![n] = timer]
      /\ Mount(None) /\ UNCHANGED <<serverVars, page, listed, troubles>>
  BY DEF Type
<1>2. timer \in Reads /\ timer.pc = "timer" /\ timer.query = q /\ timer.card = None
  BY IdleRecords DEF Reads
<1>3. loading \in Views /\ loading.kind = "loading"
  BY IdleRecords DEF Views
<1> HIDE DEF timer, loading
<1>4. latest \in 0 .. MaxId + 1 /\ MaxId \in Nat
  BY DiscoverAssumption DEF DiscoverTypes
<1>5. n \in 1 .. MaxId /\ n \in 0 .. MaxId /\ latest' \in 0 .. MaxId + 1 /\ n <= MaxId
  BY <1>1, <1>4
<1>6. /\ read' \in [0 .. MaxId -> Reads] /\ read'[n] = timer
      /\ \A i \in 0 .. MaxId : i # n => read'[i] = read[i] \/ read'[i] = NoRead
  BY <1>1, <1>2, <1>5, CancelledReads
<1>7. SearchIsLatest'
  <2>1. \A i \in 1 .. MaxId : i # n => (read'[i].pc # "idle" => i <= latest)
    BY <1>4, <1>6, IdleRecords DEF SearchIsLatest
  <2>2. \A i \in 1 .. MaxId : i <= latest => i <= n /\ i # n
    BY <1>4
  <2>3. q # None
    BY CardFacts
  <2> QED
    BY <1>1, <1>2, <1>3, <1>5, <1>6, <2>1, <2>2, <2>3 DEF SearchIsLatest
<1> HIDE DEF n
<1>8. ~Shown' /\ None \in CardsOrNone
  BY <1>1, <1>3 DEF Shown, CardsOrNone
<1>9. ReadIsSound(timer)
  BY <1>2 DEF ReadIsSound
<1>10. /\ page' \in {"away", "opening discover", "opening profile", "discover", "profile"}
       /\ listed' \in CardsOrNone /\ AddsUp(listed')
  BY <1>1 DEF DiscoverTypes, ReadsAreSound
<1>11. \A i \in 0 .. MaxId : read'[i] = read[i] \/ ReadIsSound(read'[i])
  BY <1>6, <1>9, IdleIsSound
<1> QED
  BY <1>1, <1>3, <1>5, <1>6, <1>7, <1>8, <1>10, <1>11, IdleIsSound, PageChangesInv

\* Clearing the box cancels the search under way and forgets the results.
LEMMA ClearInv ==
  ASSUME DiscoverInv, Clear
  PROVE  DiscoverInv'
<1> USE DEF DiscoverInv
<1>1. /\ page = "discover" /\ query # None /\ query' = None /\ latest' = latest + 1 /\ view' = NoResults
      /\ read' = Cancelled /\ UNCHANGED <<serverVars, page, listed, troubles>>
  BY DEF Clear
<1>2. latest \in 0 .. MaxId + 1 /\ MaxId \in Nat /\ latest <= MaxId
  BY <1>1, DiscoverAssumption DEF DiscoverTypes, SearchIsLatest
<1>3. latest' \in 0 .. MaxId + 1
  BY <1>1, <1>2
<1>4. /\ read' \in [0 .. MaxId -> Reads]
      /\ \A i \in 0 .. MaxId : read'[i] = read[i] \/ read'[i] = NoRead
  BY <1>1, CancelledReads
<1>5. SearchIsLatest'
  <2>1. \A i \in 1 .. MaxId : read'[i].pc # "idle" => i <= latest
    BY <1>2, <1>4, IdleRecords DEF SearchIsLatest
  <2>2. \A i \in 1 .. MaxId : i <= latest => i <= latest + 1 /\ i # latest + 1
    BY <1>2
  <2> QED
    BY <1>1, <2>1, <2>2, IdleRecords DEF SearchIsLatest
<1>6. Shown' <=> listed # None
  BY <1>1, IdleRecords DEF Shown
<1>7. /\ listed \in CardsOrNone /\ AddsUp(listed)
      /\ page' \in {"away", "opening discover", "opening profile", "discover", "profile"}
  BY <1>1 DEF DiscoverTypes, ReadsAreSound
<1>8. \A i \in 0 .. MaxId : read'[i] = read[i] \/ ReadIsSound(read'[i])
  BY <1>4, IdleIsSound
<1>9. CASE button # None /\ listed # None
  <2>1. UNCHANGED <<button, tap, misled>>
    BY <1>9 DEF Clear
  <2>2. DiscoverTypes'
    BY <1>1, <1>3, <1>4, <2>1, IdleRecords DEF DiscoverTypes, serverVars
  <2>3. ReadsAreSound'
    BY <1>1, <1>4, <1>7, <1>8, ReadsStaySound DEF serverVars
  <2>4. ButtonWaitsForOne' /\ ButtonIsHonest'
    BY <1>1, <2>1 DEF ButtonWaitsForOne, ButtonIsHonest, TapIsSound, AddsUp, Heard, serverVars
  <2> QED
    BY <1>5, <1>6, <1>9, <2>1, <2>2, <2>3, <2>4
<1>10. CASE ~(button # None /\ listed # None)
  <2>1. Mount(listed)
    BY <1>10 DEF Clear
  <2> QED
    BY <1>1, <1>3, <1>4, <1>5, <1>6, <1>7, <1>8, <2>1, IdleRecords, PageChangesInv
<1> QED
  BY <1>9, <1>10

\* The answer of the newest search is shown, that of an older one is dropped.
LEMMA SearchAnsweredInv ==
  ASSUME DiscoverInv, NEW i \in 0 .. MaxId, SearchAnswered(i)
  PROVE  DiscoverInv'
<1> USE DEF DiscoverInv
<1> DEFINE card == read[i].card
<1>1. /\ i > 0 /\ read[i].pc \in {"answered", "failed"} /\ read' = [read EXCEPT ![i] = NoRead]
      /\ UNCHANGED <<serverVars, page, listed, query, latest, troubles>>
  BY DEF SearchAnswered
<1>2. i \in 1 .. MaxId /\ \A j \in 1 .. MaxId : j \in 0 .. MaxId
  BY <1>1, DiscoverAssumption
<1>3. card \in CardsOrNone /\ AddsUp(card) /\ (read[i].pc = "failed" => card = None)
  BY <1>1, IdleIsSound DEF DiscoverTypes, ReadsAreSound, ReadIsSound, Reads
<1>4. /\ read' \in [0 .. MaxId -> Reads] /\ read'[i] = NoRead
      /\ \A j \in 0 .. MaxId : j # i => read'[j] = read[j]
  BY <1>1, IdleRecords DEF DiscoverTypes
<1>5. /\ listed' \in CardsOrNone /\ AddsUp(listed')
      /\ page' \in {"away", "opening discover", "opening profile", "discover", "profile"}
      /\ query' \in Queries \cup {None} /\ latest' \in 0 .. MaxId + 1
  BY <1>1 DEF DiscoverTypes, ReadsAreSound
<1>6. \A j \in 0 .. MaxId : read'[j] = read[j] \/ ReadIsSound(read'[j])
  BY <1>4, IdleIsSound
<1>7. \A j \in 1 .. MaxId : read'[j].pc # "idle" =>
        j <= latest' /\ (j = latest' => query' # None /\ read'[j].query = query')
  BY <1>1, <1>2, <1>4, IdleRecords DEF SearchIsLatest
<1>8. CASE i = latest
  <2>1. view' = Show(i) /\ Mount(card)
    BY <1>8 DEF SearchAnswered, Commits
  <2>2. query # None /\ read[i].query = query /\ query \in Queries
    BY <1>1, <1>2, <1>8 DEF SearchIsLatest, DiscoverTypes
  <2>3. /\ view' \in Views /\ view'.kind \in {"results", "error"} /\ (view'.kind = "results" => view'.query = query)
        /\ (view'.kind = "results" /\ view'.found) <=> card # None
    <3>1. CASE read[i].pc = "failed"
      <4>1. view' = [NoResults EXCEPT !.kind = "error"]
        BY <2>1, <3>1 DEF Show
      <4>2. view' \in Views /\ view'.kind = "error"
        BY <4>1, IdleRecords DEF Views
      <4> QED
        BY <1>3, <3>1, <4>2
    <3>2. CASE read[i].pc # "failed"
      <4> DEFINE found == card # None
      <4>1. view' = [kind |-> "results", query |-> query, found |-> found]
        BY <2>1, <2>2, <3>2 DEF Show
      <4>2. found \in BOOLEAN
        OBVIOUS
      <4> HIDE DEF found
      <4>3. view' \in Views /\ view'.kind = "results" /\ view'.query = query /\ view'.found = found
        BY <2>2, <4>1, <4>2 DEF Views
      <4> QED
        BY <4>3 DEF found
    <3> QED
      BY <3>1, <3>2
  <2>4. (card # None) <=> Shown'
    BY <2>3 DEF Shown
  <2>5. SearchIsLatest'
    BY <1>1, <1>7, <2>2, <2>3 DEF SearchIsLatest
  <2> HIDE DEF card
  <2> QED
    BY <1>1, <1>3, <1>4, <1>5, <1>6, <2>1, <2>3, <2>4, <2>5, PageChangesInv
<1>9. CASE i # latest
  <2>1. UNCHANGED <<view, button, tap, misled>>
    BY <1>9 DEF SearchAnswered, Commits
  <2>2. DiscoverTypes'
    BY <1>1, <1>4, <2>1 DEF DiscoverTypes, serverVars
  <2>3. SearchIsLatest'
    BY <1>1, <1>7, <2>1 DEF SearchIsLatest
  <2>4. ReadsAreSound'
    BY <1>1, <1>4, <1>5, <1>6, ReadsStaySound DEF serverVars
  <2>5. (button # None <=> Shown)'
    BY <1>1, <2>1 DEF Shown
  <2>6. ButtonWaitsForOne' /\ ButtonIsHonest'
    BY <1>1, <2>1 DEF ButtonWaitsForOne, ButtonIsHonest, TapIsSound, AddsUp, Heard, serverVars
  <2> QED
    BY <2>2, <2>3, <2>4, <2>5, <2>6
<1> QED
  BY <1>8, <1>9

\* A tap without a session puts the button back and goes to the login page.
LEMMA UnauthorizedInv ==
  ASSUME DiscoverInv, NEW t \in Taps, Unauthorized(t)
  PROVE  DiscoverInv'
<1> USE DEF DiscoverInv
<1>1. /\ page' = "away" /\ listed' = None /\ query' = None /\ latest' = 0 /\ view' = NoResults
      /\ read' = [i \in 0 .. MaxId |-> NoRead] /\ button' = None /\ misled' = FALSE
      /\ tap' = [u \in Taps |-> IF u = t THEN NoTap ELSE Unheard(tap[u])]
      /\ UNCHANGED <<serverVars, troubles>>
  BY DEF Unauthorized
<1>2. \A u \in Taps : tap[u] \in FollowRequests /\ TapIsSound(tap[u])
  BY DEF DiscoverTypes, ButtonWaitsForOne
<1>3. \A u \in Taps : tap'[u] \in FollowRequests /\ tap'[u].before = None /\ TapIsSound(tap'[u])
  <2> TAKE u \in Taps
  <2>1. CASE u = t
    BY <1>1, <2>1, IdleRecords, IdleIsSound
  <2>2. CASE u # t
    BY <1>1, <1>2, <2>2, UnheardTaps
  <2> QED
    BY <2>1, <2>2
<1>4. \A u \in Taps : TapIsSound(tap[u])' /\ ~Heard(u)'
  BY <1>1, <1>3 DEF TapIsSound, AddsUp, Heard, serverVars
<1>5. ButtonWaitsForOne' /\ ButtonIsHonest'
  BY <1>1, <1>4 DEF ButtonWaitsForOne, ButtonIsHonest
<1>6. tap' \in [Taps -> FollowRequests] /\ read' \in [0 .. MaxId -> Reads]
  BY <1>1, <1>3, IdleRecords
<1>7. latest' \in 0 .. MaxId + 1
  BY <1>1, DiscoverAssumption
<1>8. DiscoverTypes'
  BY <1>1, <1>6, <1>7, IdleRecords DEF DiscoverTypes, serverVars, CardsOrNone
<1>9. \A i \in 1 .. MaxId : i \in 0 .. MaxId
  BY DiscoverAssumption
<1>10. SearchIsLatest'
  BY <1>1, <1>9, IdleRecords DEF SearchIsLatest
<1>11. ReadsAreSound'
  BY <1>1, <1>6, IdleIsSound, ReadsStaySound, IdleRecords DEF serverVars, CardsOrNone
<1>12. (button # None <=> Shown)'
  BY <1>1, IdleRecords DEF Shown
<1> QED
  BY <1>5, <1>8, <1>10, <1>11, <1>12

\* The page stays as it is while its button's request goes on.
LEMMA PageStays ==
  ASSUME DiscoverInv, UNCHANGED <<follows, page, listed, searchVars, read>>,
         (button' # None) <=> (button # None)
  PROVE  SearchIsLatest' /\ ReadsAreSound' /\ (button # None <=> Shown)'
<1> USE DEF DiscoverInv
<1>1. SearchIsLatest'
  BY DEF SearchIsLatest, searchVars
<1>2. ReadsAreSound'
  BY DEF ReadsAreSound, ReadIsSound, AddsUp, CountFollowers
<1>3. Shown' <=> Shown
  BY DEF Shown, searchVars
<1> QED
  BY <1>1, <1>2, <1>3

\* Every other request, when one of them takes a step.
LEMMA OtherTaps ==
  ASSUME DiscoverInv, NEW t \in Taps, NEW m \in FollowRequests, TapIsSound(m),
         tap' = [tap EXCEPT ![t] = m], UNCHANGED follows
  PROVE  /\ tap' \in [Taps -> FollowRequests] /\ tap'[t] = m
         /\ \A u \in Taps : u # t => tap'[u] = tap[u]
         /\ \A u \in Taps : TapIsSound(tap[u])'
         /\ Heard(t)' <=> m.before # None
         /\ \A u \in Taps : u # t => (Heard(u)' <=> Heard(u))
<1> USE DEF DiscoverInv
<1>1. /\ tap' \in [Taps -> FollowRequests] /\ tap'[t] = m
      /\ \A u \in Taps : u # t => tap'[u] = tap[u]
  BY DEF DiscoverTypes
<1>2. \A u \in Taps : TapIsSound(tap'[u])
  BY <1>1 DEF ButtonWaitsForOne
<1>3. \A u \in Taps : TapIsSound(tap[u])'
  BY <1>2 DEF TapIsSound, AddsUp
<1> QED
  BY <1>1, <1>3 DEF Heard

\* A request that goes on, with the button still waiting for it, or still not.
LEMMA TapGoesOn ==
  ASSUME DiscoverInv, NEW t \in Taps, NEW m \in FollowRequests, TapIsSound(m),
         tap' = [tap EXCEPT ![t] = m], m.before = tap[t].before,
         UNCHANGED <<serverVars, page, listed, searchVars, read, button>>,
         misled' \in BOOLEAN, troubles' \in 0 .. MaxTroubles, misled => misled',
         signedIn /\ ~misled' /\ Heard(t) =>
           /\ m.pc \in {"sent", "resolved", "failed"} => m.before.following = follows
           /\ m.pc \in {"wrote", "answered"} => m.answer.following = follows
  PROVE  DiscoverInv'
<1> USE DEF DiscoverInv
<1>1. /\ tap' \in [Taps -> FollowRequests] /\ tap'[t] = m
      /\ \A u \in Taps : u # t => tap'[u] = tap[u]
      /\ \A u \in Taps : TapIsSound(tap[u])'
      /\ \A u \in Taps : Heard(u)' <=> Heard(u)
  BY OtherTaps DEF serverVars, Heard
<1>2. DiscoverTypes'
  BY <1>1 DEF DiscoverTypes, serverVars, searchVars
<1>3. SearchIsLatest' /\ ReadsAreSound' /\ (button # None <=> Shown)'
  BY PageStays DEF serverVars
<1>4. ButtonWaitsForOne'
  BY <1>1 DEF ButtonWaitsForOne
<1>5. ButtonIsHonest'
  <2> SUFFICES ASSUME signedIn', ~misled' PROVE ButtonIsHonest'
    BY DEF ButtonIsHonest
  <2>1. signedIn /\ ~misled /\ follows' = follows /\ button' = button
    BY DEF serverVars
  <2>2. button' # None /\ (\A u \in Taps : ~Heard(u)') => button'.following = follows'
    BY <1>1, <2>1 DEF ButtonIsHonest
  <2>3. ASSUME NEW u \in Taps, Heard(u)'
        PROVE  /\ tap'[u].pc \in {"sent", "resolved", "failed"} => tap'[u].before.following = follows'
               /\ tap'[u].pc \in {"wrote", "answered"} => tap'[u].answer.following = follows'
    <3>1. CASE u = t
      BY <1>1, <2>1, <2>3, <3>1
    <3>2. CASE u # t
      BY <1>1, <2>1, <2>3, <3>2 DEF ButtonIsHonest
    <3> QED
      BY <3>1, <3>2
  <2> QED
    BY <2>2, <2>3 DEF ButtonIsHonest
<1> QED
  BY <1>2, <1>3, <1>4, <1>5

\* A request ends, and the button says what it was waiting to say.
LEMMA TapEnds ==
  ASSUME DiscoverInv, NEW t \in Taps, tap' = [tap EXCEPT ![t] = NoTap],
         UNCHANGED <<serverVars, page, listed, searchVars, read, misled, troubles>>,
         Heard(t) => button' \in Cards /\ AddsUp(button')
                     /\ (signedIn /\ ~misled => button'.following = follows),
         ~Heard(t) => button' = button
  PROVE  DiscoverInv'
<1> USE DEF DiscoverInv
<1>1. /\ tap' \in [Taps -> FollowRequests] /\ tap'[t] = NoTap
      /\ \A u \in Taps : u # t => tap'[u] = tap[u]
      /\ \A u \in Taps : TapIsSound(tap[u])'
      /\ ~Heard(t)'
      /\ \A u \in Taps : u # t => (Heard(u)' <=> Heard(u))
  BY OtherTaps, IdleRecords, IdleIsSound DEF serverVars
<1>2. (button' # None) <=> (button # None)
  BY CardFacts DEF ButtonWaitsForOne
<1>3. DiscoverTypes'
  BY <1>1 DEF DiscoverTypes, serverVars, searchVars, CardsOrNone
<1>4. SearchIsLatest' /\ ReadsAreSound' /\ (button # None <=> Shown)'
  BY <1>2, PageStays DEF serverVars
<1>5. CASE Heard(t)
  <2>1. \A u \in Taps : ~Heard(u)'
    BY <1>1, <1>5 DEF ButtonWaitsForOne
  <2>2. button' \in Cards /\ AddsUp(button') /\ (signedIn /\ ~misled => button'.following = follows)
    BY <1>5
  <2>3. ButtonWaitsForOne'
    BY <1>1, <2>1, <2>2 DEF ButtonWaitsForOne, AddsUp
  <2>4. ButtonIsHonest'
    BY <2>1, <2>2 DEF ButtonIsHonest, serverVars
  <2> QED
    BY <1>3, <1>4, <2>3, <2>4
<1>6. CASE ~Heard(t)
  <2>1. button' = button /\ \A u \in Taps : Heard(u)' <=> Heard(u)
    BY <1>1, <1>6
  <2>2. ButtonWaitsForOne'
    BY <1>1, <2>1 DEF ButtonWaitsForOne
  <2>3. \A u \in Taps : Heard(u)' => tap'[u] = tap[u]
    BY <1>1, <1>6
  <2>4. ButtonIsHonest'
    BY <2>1, <2>3 DEF ButtonIsHonest, serverVars
  <2> QED
    BY <1>3, <1>4, <2>2, <2>4
<1> QED
  BY <1>5, <1>6

\* What a tap guesses is one more or one less.
LEMMA OptimisticCards ==
  ASSUME NEW c \in Cards, AddsUp(c)
  PROVE  /\ Optimistic(c) \in Cards /\ Optimistic(c).following = ~c.following
         /\ Optimistic(c).following => Optimistic(c).count > 0
<1> DEFINE n == IF c.following THEN c.count - 1 ELSE c.count + 1
           m == IF n < 0 THEN 0 ELSE n
<1>1. c.following \in BOOLEAN /\ c.count \in 0 .. 2 /\ c.count <= 1
  BY CardFacts DEF AddsUp
<1>2. m \in 0 .. 2 /\ (~c.following => m > 0)
  BY <1>1
<1> HIDE DEF m
<1>3. Optimistic(c) = [c EXCEPT !.following = ~c.following, !.count = m]
  BY DEF Optimistic, Cards, m
<1>4. [c EXCEPT !.following = ~c.following, !.count = m] \in Cards
  BY <1>1, <1>2 DEF Cards
<1>5. Optimistic(c).following = ~c.following /\ Optimistic(c).count = m
  BY <1>3 DEF Cards
<1> QED
  BY <1>1, <1>2, <1>3, <1>4, <1>5

\* A tap changes the button before it asks.
LEMMA TapInv ==
  ASSUME DiscoverInv, NEW t \in Taps, Tap(t)
  PROVE  DiscoverInv'
<1> USE DEF DiscoverInv
<1> DEFINE m == [pc |-> "sent", want |-> ~button.following, before |-> button, answer |-> None]
<1>1. /\ button # None /\ ~Pending /\ button' = Optimistic(button) /\ tap' = [tap EXCEPT ![t] = m]
      /\ UNCHANGED <<serverVars, page, listed, searchVars, read, misled, troubles>>
  BY DEF Tap
<1>2. button \in Cards /\ \A u \in Taps : ~Heard(u)
  BY <1>1 DEF DiscoverTypes, CardsOrNone, Pending
<1>3. AddsUp(button)
  BY <1>1, <1>2 DEF ButtonWaitsForOne, AddsUp
<1>4. /\ button' \in Cards /\ button' # None /\ (button'.following => button'.count > 0)
  BY <1>1, <1>2, <1>3, OptimisticCards, CardFacts
<1>5. m \in FollowRequests /\ m.pc = "sent" /\ m.before = button
  <2>1. (~button.following) \in BOOLEAN
    OBVIOUS
  <2> QED
    BY <1>2, <2>1 DEF FollowRequests, CardsOrNone
<1> HIDE DEF m
<1>6. TapIsSound(m)
  BY <1>3, <1>5 DEF TapIsSound
<1>7. /\ tap' \in [Taps -> FollowRequests] /\ tap'[t] = m
      /\ \A u \in Taps : u # t => tap'[u] = tap[u]
      /\ \A u \in Taps : TapIsSound(tap[u])'
      /\ Heard(t)' /\ \A u \in Taps : u # t => ~Heard(u)'
  BY <1>1, <1>2, <1>5, <1>6, OtherTaps DEF serverVars
<1>8. DiscoverTypes'
  BY <1>1, <1>4, <1>7 DEF DiscoverTypes, serverVars, searchVars, CardsOrNone
<1>9. SearchIsLatest' /\ ReadsAreSound' /\ (button # None <=> Shown)'
  BY <1>1, <1>4, PageStays DEF serverVars
<1>10. ButtonWaitsForOne'
  BY <1>4, <1>7 DEF ButtonWaitsForOne
<1>11. ButtonIsHonest'
  BY <1>1, <1>2, <1>5, <1>7 DEF ButtonIsHonest, serverVars
<1> QED
  BY <1>8, <1>9, <1>10, <1>11

\* The statements of a tap before and after its write, and a tap that fails.
LEMMA RequestStepsInv ==
  ASSUME DiscoverInv, NEW t \in Taps, Resolve(t) \/ Count(t) \/ TapFails(t)
  PROVE  DiscoverInv'
<1> USE DEF DiscoverInv
<1> DEFINE r == tap[t]
<1>1. r \in FollowRequests /\ TapIsSound(r) /\ tap \in [Taps -> FollowRequests]
  BY DEF DiscoverTypes, ButtonWaitsForOne
<1>2. /\ troubles \in 0 .. MaxTroubles /\ (Trouble => troubles' \in 0 .. MaxTroubles)
      /\ misled \in BOOLEAN /\ Heard(t) \in BOOLEAN
  BY Troubles DEF DiscoverTypes, Heard
<1>3. signedIn /\ ~misled /\ Heard(t) =>
        /\ r.pc \in {"sent", "resolved", "failed"} => r.before.following = follows
        /\ r.pc \in {"wrote", "answered"} => r.answer.following = follows
  BY DEF ButtonIsHonest
<1> HIDE DEF r
<1>4. r = tap[t]
  BY DEF r
<1>5. CASE Resolve(t)
  <2> DEFINE next == IF ~signedIn THEN "unauthorized" ELSE IF Resolves THEN "resolved" ELSE "failed"
             m == [r EXCEPT !.pc = next]
  <2>1. /\ r.pc = "sent" /\ tap' = [tap EXCEPT ![t] = m]
        /\ UNCHANGED <<serverVars, page, listed, searchVars, read, button, misled, troubles>>
    BY <1>1, <1>4, <1>5 DEF Resolve
  <2>2. next \in {"unauthorized", "resolved", "failed"} /\ (signedIn => next # "unauthorized")
    OBVIOUS
  <2> HIDE DEF next
  <2>3. m \in FollowRequests /\ m.pc = next /\ m.before = r.before
    BY <1>1, <2>2 DEF FollowRequests
  <2> HIDE DEF m
  <2>4. TapIsSound(m)
    BY <1>1, <2>2, <2>3 DEF TapIsSound
  <2>5. /\ misled' = misled /\ misled' \in BOOLEAN /\ (misled => misled')
        /\ troubles' = troubles /\ troubles' \in 0 .. MaxTroubles
    BY <1>2, <2>1
  <2>6. signedIn /\ ~misled' /\ Heard(t) =>
          /\ m.pc \in {"sent", "resolved", "failed"} => m.before.following = follows
          /\ m.pc \in {"wrote", "answered"} => m.answer.following = follows
    BY <1>3, <2>1, <2>2, <2>3, <2>5
  <2> QED
    BY <1>2, <1>4, <2>1, <2>3, <2>4, <2>5, <2>6, TapGoesOn
<1>6. CASE Count(t)
  <2> DEFINE card == [r.answer EXCEPT !.count = CountFollowers]
             m == [r EXCEPT !.pc = "answered", !.answer = card]
  <2>1. /\ r.pc = "wrote"
        /\ UNCHANGED <<serverVars, page, listed, searchVars, read, button, misled, troubles>>
    BY <1>4, <1>6 DEF Count
  <2>2. tap' = [tap EXCEPT ![t].pc = "answered", ![t].answer.count = CountFollowers]
    BY <1>6 DEF Count
  <2>3. r.answer \in Cards /\ r.before # None
    BY <1>1, <2>1 DEF TapIsSound, FollowRequests, CardsOrNone
  <2>4. tap' = [tap EXCEPT ![t] = m]
    BY <1>1, <1>4, <2>2 DEF FollowRequests
  <2>5. card \in Cards /\ card.count = CountFollowers /\ card.following = r.answer.following
        /\ card.torn = r.answer.torn
    <3>1. CountFollowers \in 0 .. 2
      BY CardFacts
    <3> QED
      BY <2>3, <3>1 DEF Cards
  <2> HIDE DEF card
  <2>6. m \in FollowRequests /\ m.pc = "answered" /\ m.before = r.before /\ m.answer = card
    BY <1>1, <2>5 DEF FollowRequests, CardsOrNone
  <2> HIDE DEF m
  <2>7. AddsUp(card)
    BY <1>1, <2>1, <2>5, CardFacts DEF AddsUp, CountFollowers, TapIsSound
  <2>8. TapIsSound(m)
    BY <1>1, <2>3, <2>5, <2>6, <2>7, CardFacts DEF TapIsSound
  <2>9. signedIn /\ ~misled /\ Heard(t) => m.answer.following = follows
    BY <1>3, <2>1, <2>5, <2>6
  <2> QED
    BY <1>2, <1>4, <2>1, <2>4, <2>6, <2>8, <2>9, TapGoesOn
<1>7. CASE TapFails(t)
  <2> DEFINE m == [r EXCEPT !.pc = "failed"]
  <2>1. /\ r.pc \in {"sent", "resolved", "wrote"} /\ tap' = [tap EXCEPT ![t] = m]
        /\ misled' = (misled \/ (Heard(t) /\ r.pc = "wrote")) /\ troubles' \in 0 .. MaxTroubles
        /\ UNCHANGED <<serverVars, page, listed, searchVars, read, button>>
    BY <1>1, <1>2, <1>4, <1>7 DEF TapFails
  <2>2. m \in FollowRequests /\ m.pc = "failed" /\ m.before = r.before
    BY <1>1 DEF FollowRequests
  <2> HIDE DEF m
  <2>3. TapIsSound(m)
    BY <1>1, <2>2 DEF TapIsSound
  <2>4. misled' \in BOOLEAN /\ (misled => misled') /\ (~misled' /\ Heard(t) => ~misled /\ r.pc # "wrote")
    BY <1>2, <2>1
  <2>5. signedIn /\ ~misled' /\ Heard(t) => m.before.following = follows
    BY <1>3, <2>1, <2>2, <2>4
  <2> QED
    BY <1>4, <2>1, <2>2, <2>3, <2>4, <2>5, TapGoesOn
<1> QED
  BY <1>5, <1>6, <1>7

\* The answer of a tap, or its error, settles the button.
LEMMA TapEndsInv ==
  ASSUME DiscoverInv, NEW t \in Taps, Reconcile(t) \/ Revert(t)
  PROVE  DiscoverInv'
<1> USE DEF DiscoverInv
<1>1. /\ tap[t] \in FollowRequests /\ TapIsSound(tap[t])
      /\ tap' = [tap EXCEPT ![t] = NoTap]
      /\ UNCHANGED <<serverVars, page, listed, searchVars, read, misled, troubles>>
  BY DEF DiscoverTypes, ButtonWaitsForOne, Reconcile, Revert
<1>2. signedIn /\ ~misled /\ Heard(t) =>
        /\ tap[t].pc \in {"sent", "resolved", "failed"} => tap[t].before.following = follows
        /\ tap[t].pc \in {"wrote", "answered"} => tap[t].answer.following = follows
  BY DEF ButtonIsHonest
<1>3. CASE Reconcile(t)
  <2>1. tap[t].pc = "answered" /\ button' = tap[t].answer
    BY <1>3 DEF Reconcile
  <2>2. Heard(t) /\ button' \in Cards /\ AddsUp(button')
    BY <1>1, <2>1 DEF TapIsSound, FollowRequests, CardsOrNone, Heard
  <2> QED
    BY <1>1, <1>2, <2>1, <2>2, TapEnds
<1>4. CASE Revert(t)
  <2>1. tap[t].pc = "failed" /\ button' = Before(t)
    BY <1>4 DEF Revert
  <2>2. Heard(t) => button' = tap[t].before /\ button' \in Cards /\ AddsUp(button')
    BY <1>1, <2>1 DEF TapIsSound, FollowRequests, CardsOrNone, Heard, Before
  <2>3. ~Heard(t) => button' = button
    BY <2>1 DEF Before
  <2> QED
    BY <1>1, <1>2, <2>1, <2>2, <2>3, TapEnds
<1> QED
  BY <1>3, <1>4

\* The row changes: the reads and the answers in between are torn, and add up no more.
LEMMA TornReads ==
  ASSUME DiscoverInv, NEW now \in BOOLEAN, Torn(now)
  PROVE  /\ follows' = now /\ read' \in [0 .. MaxId -> Reads]
         /\ \A i \in 0 .. MaxId : /\ read'[i].pc = read[i].pc /\ read'[i].query = read[i].query
                                  /\ ReadIsSound(read[i])'
<1> USE DEF DiscoverInv
<1> DEFINE torn(i) == [read[i] EXCEPT !.card.torn = TRUE]
           hit(i) == read[i].pc = "counted" /\ now # follows
<1>1. follows' = now /\ read' = [i \in 0 .. MaxId |-> IF hit(i) THEN torn(i) ELSE read[i]]
  BY DEF Torn
<1>2. follows \in BOOLEAN /\ \A i \in 0 .. MaxId : read[i] \in Reads /\ ReadIsSound(read[i])
  BY DEF DiscoverTypes, ReadsAreSound
<1>3. ASSUME NEW i \in 0 .. MaxId
      PROVE  /\ read'[i] \in Reads /\ read'[i].pc = read[i].pc /\ read'[i].query = read[i].query
             /\ ReadIsSound(read[i])'
  <2> DEFINE r == read[i]
  <2>1. r \in Reads /\ ReadIsSound(r) /\ read'[i] = IF hit(i) THEN torn(i) ELSE r
    BY <1>1, <1>2
  <2>2. CASE hit(i)
    <3> DEFINE card == [r.card EXCEPT !.torn = TRUE]
               m == [r EXCEPT !.card = card]
    <3>1. r.pc = "counted" /\ r.card \in Cards /\ ~r.card.following /\ r.card.count <= 1
      BY <2>1, <2>2 DEF ReadIsSound, Reads, CardsOrNone
    <3>2. read'[i] = m
      BY <2>1, <2>2, <3>1 DEF Reads
    <3>3. card \in Cards /\ card.torn = TRUE /\ card.following = r.card.following /\ card.count = r.card.count
      BY <3>1 DEF Cards
    <3> HIDE DEF card
    <3>4. m \in Reads /\ m.pc = "counted" /\ m.query = r.query /\ m.card = card
      BY <2>1, <3>1, <3>3 DEF Reads, CardsOrNone
    <3> HIDE DEF m
    <3>5. card # None
      BY <3>3, CardFacts
    <3>6. ReadIsSound(read[i])'
      BY <3>1, <3>2, <3>3, <3>4, <3>5 DEF ReadIsSound
    <3> QED
      BY <3>1, <3>2, <3>4, <3>6
  <2>3. CASE ~hit(i)
    <3>1. read'[i] = r /\ (r.pc = "counted" => follows' = follows)
      BY <1>1, <1>2, <2>1, <2>3
    <3> HIDE DEF hit
    <3>2. r.pc = "counted" => CountFollowers' = CountFollowers
      BY <3>1 DEF CountFollowers
    <3>3. ReadIsSound(read[i])'
      BY <2>1, <3>1, <3>2 DEF ReadIsSound, AddsUp
    <3> QED
      BY <2>1, <3>1, <3>3
  <2> QED
    BY <2>2, <2>3
<1>4. read' \in [0 .. MaxId -> Reads]
  <2>1. DOMAIN read' = 0 .. MaxId /\ read' = [i \in 0 .. MaxId |-> read'[i]]
    BY <1>1
  <2> QED
    BY <1>3, <2>1
<1> QED
  BY <1>1, <1>3, <1>4

\* Answers between their two statements are torn by a write, and otherwise stay.
LEMMA TornAnswers ==
  ASSUME DiscoverInv, NEW now \in BOOLEAN
  PROVE  /\ TornTaps(now) \in [Taps -> FollowRequests]
         /\ \A t \in Taps :
              /\ TornTaps(now)[t].pc = tap[t].pc /\ TornTaps(now)[t].before = tap[t].before
              /\ tap[t].pc # "wrote" => TornTaps(now)[t] = tap[t]
              /\ tap[t].pc = "wrote" =>
                   /\ TornTaps(now)[t].answer \in Cards
                   /\ TornTaps(now)[t].answer.count = 0
                   /\ TornTaps(now)[t].answer.following = tap[t].answer.following
                   /\ ~TornTaps(now)[t].answer.torn => now = follows /\ ~tap[t].answer.torn
<1> USE DEF DiscoverInv
<1> DEFINE torn(t) == [tap[t] EXCEPT !.answer.torn = TRUE]
           hit(t) == tap[t].pc = "wrote" /\ now # follows
<1>1. TornTaps(now) = [t \in Taps |-> IF hit(t) THEN torn(t) ELSE tap[t]]
  BY DEF TornTaps
<1>2. follows \in BOOLEAN /\ \A t \in Taps : tap[t] \in FollowRequests /\ TapIsSound(tap[t])
  BY DEF DiscoverTypes, ButtonWaitsForOne
<1>3. ASSUME NEW t \in Taps
      PROVE  /\ TornTaps(now)[t] \in FollowRequests
             /\ TornTaps(now)[t].pc = tap[t].pc /\ TornTaps(now)[t].before = tap[t].before
             /\ tap[t].pc # "wrote" => TornTaps(now)[t] = tap[t]
             /\ tap[t].pc = "wrote" =>
                  /\ TornTaps(now)[t].answer \in Cards
                  /\ TornTaps(now)[t].answer.count = 0
                  /\ TornTaps(now)[t].answer.following = tap[t].answer.following
                  /\ ~TornTaps(now)[t].answer.torn => now = follows /\ ~tap[t].answer.torn
  <2> DEFINE r == tap[t]
             n == TornTaps(now)[t]
  <2>1. r \in FollowRequests /\ TapIsSound(r) /\ n = IF hit(t) THEN torn(t) ELSE r
    BY <1>1, <1>2
  <2>2. r.pc = "wrote" => r.answer \in Cards /\ r.answer.count = 0
    BY <2>1 DEF TapIsSound, FollowRequests, CardsOrNone
  <2>3. CASE hit(t)
    <3> DEFINE card == [r.answer EXCEPT !.torn = TRUE]
               m == [r EXCEPT !.answer = card]
    <3>1. r.pc = "wrote"
      BY <2>3
    <3>2. n = m
      BY <2>1, <2>2, <2>3 DEF FollowRequests
    <3>3. card \in Cards /\ card.torn = TRUE /\ card.following = r.answer.following /\ card.count = r.answer.count
      BY <2>2, <3>1 DEF Cards
    <3> HIDE DEF card
    <3>4. m \in FollowRequests /\ m.pc = "wrote" /\ m.before = r.before /\ m.answer = card
      BY <2>1, <3>1, <3>3 DEF FollowRequests, CardsOrNone
    <3> HIDE DEF m, n
    <3> QED
      BY <2>2, <3>1, <3>2, <3>3, <3>4 DEF n
  <2>4. CASE ~hit(t)
    <3>1. n = r /\ (r.pc = "wrote" => now = follows)
      BY <1>2, <2>1, <2>4
    <3> HIDE DEF n, hit
    <3> QED
      BY <2>1, <2>2, <3>1 DEF n
  <2> QED
    BY <2>3, <2>4
<1>4. TornTaps(now) \in [Taps -> FollowRequests]
  <2>1. TornTaps(now) = [t \in Taps |-> TornTaps(now)[t]]
    BY <1>1
  <2> QED
    BY <1>3, <2>1
<1> QED
  BY <1>3, <1>4

\* A request that wrote before the row changed again: its answer is torn by now.
LEMMA TornTapIsSound ==
  ASSUME DiscoverInv, NEW now \in BOOLEAN, NEW t \in Taps, follows' = now,
         tap'[t] = TornTaps(now)[t]
  PROVE  TapIsSound(tap[t])'
<1> USE DEF DiscoverInv
<1>1. TapIsSound(tap[t])
  BY DEF ButtonWaitsForOne
<1>2. /\ tap'[t].pc = tap[t].pc /\ tap'[t].before = tap[t].before
      /\ tap[t].pc # "wrote" => tap'[t] = tap[t]
      /\ tap[t].pc = "wrote" =>
           /\ tap'[t].answer \in Cards
           /\ tap'[t].answer.count = 0
           /\ tap'[t].answer.following = tap[t].answer.following
           /\ ~tap'[t].answer.torn => now = follows /\ ~tap[t].answer.torn
  BY TornAnswers
<1>3. CASE tap[t].pc = "wrote"
  BY <1>1, <1>2, <1>3, CardFacts DEF TapIsSound, AddsUp
<1>4. CASE tap[t].pc # "wrote"
  BY <1>1, <1>2, <1>4 DEF TapIsSound, AddsUp
<1> QED
  BY <1>3, <1>4

\* The page when the row changes under it.
LEMMA RowChanges ==
  ASSUME DiscoverInv, NEW now \in BOOLEAN, Torn(now),
         UNCHANGED <<banned, signedIn, page, listed, searchVars, button>>,
         misled' \in BOOLEAN, troubles' \in 0 .. MaxTroubles,
         tap' \in [Taps -> FollowRequests], ButtonWaitsForOne', ButtonIsHonest'
  PROVE  DiscoverInv'
<1> USE DEF DiscoverInv
<1>1. /\ follows' = now /\ read' \in [0 .. MaxId -> Reads]
      /\ \A i \in 0 .. MaxId : /\ read'[i].pc = read[i].pc /\ read'[i].query = read[i].query
                               /\ ReadIsSound(read[i])'
  BY TornReads
<1>2. DiscoverTypes'
  BY <1>1 DEF DiscoverTypes, searchVars
<1>3. SearchIsLatest'
  BY <1>1, SearchNumbers DEF SearchIsLatest, searchVars
<1>4. ReadsAreSound'
  BY <1>1 DEF ReadsAreSound, AddsUp
<1>5. (button # None <=> Shown)'
  BY DEF Shown, searchVars
<1> QED
  BY <1>2, <1>3, <1>4, <1>5

\* The write of a tap changes the row and tears what is being read beside it.
LEMMA WriteInv ==
  ASSUME DiscoverInv, NEW t \in Taps, Write(t)
  PROVE  DiscoverInv'
<1> USE DEF DiscoverInv
<1> DEFINE now == tap[t].want
           torn == TornTaps(now)
<1>1. /\ tap[t].pc = "resolved" /\ Torn(now)
      /\ misled' = IF Heard(t) THEN FALSE ELSE misled \/ (button # None /\ now # follows)
      /\ UNCHANGED <<banned, signedIn, page, listed, searchVars, button, troubles>>
  BY DEF Write
<1>2. /\ tap \in [Taps -> FollowRequests] /\ now \in BOOLEAN /\ follows \in BOOLEAN /\ misled \in BOOLEAN
      /\ troubles' \in 0 .. MaxTroubles
  BY <1>1 DEF DiscoverTypes, FollowRequests
<1>3. misled' \in BOOLEAN
  BY <1>1, <1>2
<1>4. follows' = now
  BY <1>1 DEF Torn
<1> DEFINE heard == [torn[t] EXCEPT !.pc = "wrote", !.answer = Card(now, 0, FALSE)]
           m == IF Heard(t) THEN heard ELSE NoTap
<1>5. tap' = [torn EXCEPT ![t] = m]
  BY <1>2, TornAnswers DEF Write
<1>6. /\ torn \in [Taps -> FollowRequests] /\ torn[t] = tap[t]
      /\ \A u \in Taps : torn[u].pc = tap[u].pc /\ torn[u].before = tap[u].before
  BY <1>1, <1>2, TornAnswers
<1> HIDE DEF torn
<1>7. Heard(t) => /\ heard \in FollowRequests /\ heard.pc = "wrote" /\ heard.before = tap[t].before
                  /\ heard.answer = Card(now, 0, FALSE) /\ heard.answer # None
  <2> DEFINE card == Card(now, 0, FALSE)
  <2>1. card \in Cards
    BY <1>2 DEF Cards, Card
  <2> HIDE DEF card
  <2>2. card # None
    BY <2>1, CardFacts
  <2>3. heard = [tap[t] EXCEPT !.pc = "wrote", !.answer = card]
    BY <1>6 DEF card
  <2>4. /\ [tap[t] EXCEPT !.pc = "wrote", !.answer = card] \in FollowRequests
        /\ [tap[t] EXCEPT !.pc = "wrote", !.answer = card].pc = "wrote"
        /\ [tap[t] EXCEPT !.pc = "wrote", !.answer = card].before = tap[t].before
        /\ [tap[t] EXCEPT !.pc = "wrote", !.answer = card].answer = card
    BY <1>2, <2>1 DEF FollowRequests, CardsOrNone
  <2> HIDE DEF heard
  <2> QED
    BY <2>2, <2>3, <2>4 DEF card
<1> HIDE DEF heard
<1>8. m \in FollowRequests /\ (Heard(t) => m = heard) /\ (~Heard(t) => m = NoTap)
  BY <1>7, IdleRecords
<1> HIDE DEF m
<1>9. /\ tap' \in [Taps -> FollowRequests] /\ tap'[t] = m /\ \A u \in Taps : u # t => tap'[u] = torn[u]
  BY <1>5, <1>6, <1>8
<1>10. \A u \in Taps : Heard(u)' <=> Heard(u)
  <2> TAKE u \in Taps
  <2>1. CASE u = t
    BY <1>7, <1>8, <1>9, <2>1, IdleRecords DEF Heard
  <2>2. CASE u # t
    BY <1>6, <1>9, <2>2 DEF Heard
  <2> QED
    BY <2>1, <2>2
<1>11. ASSUME NEW u \in Taps PROVE TapIsSound(tap[u])'
  <2>1. CASE u = t
    <3>1. TapIsSound(tap[t])
      BY DEF ButtonWaitsForOne
    <3>2. Card(now, 0, FALSE).count = 0 /\ Card(now, 0, FALSE).following = now
      BY DEF Card
    <3>3. CASE Heard(t)
      <4>1. /\ tap'[u].pc = "wrote" /\ tap'[u].before = tap[t].before
            /\ tap'[u].answer = Card(now, 0, FALSE) /\ tap'[u].answer # None
        BY <1>7, <1>8, <1>9, <2>1, <3>3
      <4> QED
        BY <1>4, <3>1, <3>2, <3>3, <4>1 DEF TapIsSound, Heard, AddsUp
    <3>4. CASE ~Heard(t)
      BY <1>8, <1>9, <2>1, <3>4, IdleRecords DEF TapIsSound, AddsUp
    <3> QED
      BY <3>3, <3>4
  <2>2. CASE u # t
    <3>1. tap'[u] = TornTaps(now)[u]
      BY <1>9, <2>2 DEF torn
    <3> QED
      BY <1>2, <1>4, <3>1, TornTapIsSound
  <2> QED
    BY <2>1, <2>2
<1>12. ButtonWaitsForOne'
  BY <1>1, <1>10, <1>11 DEF ButtonWaitsForOne
<1>13. ButtonIsHonest'
  <2>1. CASE Heard(t)
    <3>1. \A u \in Taps : Heard(u)' => u = t
      BY <1>10, <2>1 DEF ButtonWaitsForOne
    <3>2. tap'[t].pc = "wrote" /\ tap'[t].answer.following = now
      BY <1>7, <1>8, <1>9, <2>1 DEF Card
    <3>3. Heard(t)'
      BY <1>10, <2>1
    <3> QED
      BY <1>4, <3>1, <3>2, <3>3 DEF ButtonIsHonest
  <2>2. CASE ~Heard(t)
    <3>1. misled' = (misled \/ (button # None /\ now # follows))
      BY <1>1, <2>2
    <3> SUFFICES ASSUME signedIn', ~misled' PROVE ButtonIsHonest'
      BY DEF ButtonIsHonest
    <3>2. signedIn /\ ~misled /\ (button # None => follows' = follows) /\ button' = button
      BY <1>1, <1>2, <1>4, <3>1
    <3>3. button' # None /\ (\A u \in Taps : ~Heard(u)') => button'.following = follows'
      BY <1>10, <3>2 DEF ButtonIsHonest
    <3>4. ASSUME NEW u \in Taps, Heard(u)'
          PROVE  /\ tap'[u].pc \in {"sent", "resolved", "failed"} => tap'[u].before.following = follows'
                 /\ tap'[u].pc \in {"wrote", "answered"} => tap'[u].answer.following = follows'
      <4>1. u # t /\ Heard(u) /\ follows' = follows
        BY <1>10, <2>2, <3>2, <3>4 DEF ButtonWaitsForOne
      <4>2. tap'[u] = torn[u] /\ torn[u].pc = tap[u].pc /\ torn[u].before = tap[u].before
        BY <1>6, <1>9, <4>1
      <4>3. /\ tap[u].pc \in {"sent", "resolved", "failed"} => tap[u].before.following = follows
            /\ tap[u].pc \in {"wrote", "answered"} => tap[u].answer.following = follows
        BY <3>2, <4>1 DEF ButtonIsHonest
      <4>4. tap[u].pc \in {"wrote", "answered"} => torn[u].answer.following = tap[u].answer.following
        BY <1>2, TornAnswers DEF torn
      <4> QED
        BY <4>1, <4>2, <4>3, <4>4
    <3> QED
      BY <3>3, <3>4 DEF ButtonIsHonest
  <2> QED
    BY <2>1, <2>2
<1> HIDE DEF now
<1> QED
  BY <1>1, <1>2, <1>3, <1>9, <1>12, <1>13, RowChanges

\* Another device follows or unfollows beside this one.
LEMMA OtherDeviceInv ==
  ASSUME DiscoverInv, OtherDevice
  PROVE  DiscoverInv'
<1> USE DEF DiscoverInv
<1> DEFINE now == ~follows
<1>1. /\ Torn(now) /\ tap' = TornTaps(now) /\ misled' = (misled \/ button # None)
      /\ UNCHANGED <<banned, signedIn, page, listed, searchVars, button>>
  BY DEF OtherDevice
<1>2. now \in BOOLEAN /\ misled' \in BOOLEAN
  BY <1>1 DEF DiscoverTypes
<1>3. troubles' \in 0 .. MaxTroubles
  BY Troubles DEF OtherDevice
<1>4. /\ tap' \in [Taps -> FollowRequests]
      /\ \A u \in Taps : tap'[u] \in FollowRequests /\ tap'[u] = TornTaps(now)[u] /\ tap'[u].before = tap[u].before
  BY <1>1, <1>2, TornAnswers
<1>5. \A u \in Taps : Heard(u)' <=> Heard(u)
  BY <1>4 DEF Heard
<1>6. follows' = now
  BY <1>1 DEF Torn
<1> HIDE DEF now
<1>7. \A u \in Taps : TapIsSound(tap[u])'
  BY <1>2, <1>4, <1>6, TornTapIsSound
<1>8. ButtonWaitsForOne'
  BY <1>1, <1>5, <1>7 DEF ButtonWaitsForOne
<1>9. ButtonIsHonest'
  <2>1. ~misled' => button = None
    BY <1>1
  <2>2. button = None => \A u \in Taps : ~Heard(u)'
    BY <1>5 DEF ButtonWaitsForOne
  <2> QED
    BY <1>1, <2>1, <2>2 DEF ButtonIsHonest
<1> QED
  BY <1>1, <1>2, <1>3, <1>4, <1>8, <1>9, RowChanges

\* What an operator or the end of the session changes is read only later.
LEMMA ServerTroubleInv ==
  ASSUME DiscoverInv, OperatorBans \/ SessionEnds
  PROVE  DiscoverInv'
<1> USE DEF DiscoverInv
<1>1. troubles' \in 0 .. MaxTroubles
  <2>1. Trouble
    BY DEF OperatorBans, SessionEnds
  <2>2. Trouble => troubles' \in 0 .. MaxTroubles
    BY Troubles
  <2> QED
    BY <2>1, <2>2
<1>2. banned' \in BOOLEAN /\ signedIn' \in BOOLEAN /\ (signedIn' => signedIn)
  <2>1. banned \in BOOLEAN /\ signedIn \in BOOLEAN /\ (~banned) \in BOOLEAN
    BY DEF DiscoverTypes
  <2>2. CASE OperatorBans
    <3>1. banned' = ~banned /\ signedIn' = signedIn
      BY <2>2 DEF OperatorBans
    <3> QED
      BY <2>1, <3>1
  <2>3. CASE SessionEnds
    <3>1. banned' = banned /\ signedIn' = FALSE
      BY <2>3 DEF SessionEnds
    <3> QED
      BY <2>1, <3>1
  <2> QED
    BY <2>2, <2>3
<1>3. UNCHANGED <<follows, page, listed, searchVars, read, button, tap, misled>>
  BY DEF OperatorBans, SessionEnds
<1>4. DiscoverTypes'
  BY <1>1, <1>2, <1>3 DEF DiscoverTypes, searchVars
<1>5. SearchIsLatest' /\ ReadsAreSound' /\ (button # None <=> Shown)'
  BY <1>3, PageStays
<1>6. ButtonWaitsForOne' /\ ButtonIsHonest'
  BY <1>2, <1>3 DEF ButtonWaitsForOne, ButtonIsHonest, TapIsSound, AddsUp, Heard
<1> QED
  BY <1>4, <1>5, <1>6

\* The invariant of search and follow button, by action.
LEMMA DiscoverInvIsInductive == DiscoverInv /\ [DiscoverNext]_discoverVars => DiscoverInv'
<1> SUFFICES ASSUME DiscoverInv, [DiscoverNext]_discoverVars PROVE DiscoverInv'
  OBVIOUS
<1>1. CASE \E p \in {"opening discover", "opening profile", "away"} : Visit(p)
  BY <1>1, VisitInv
<1>2. CASE DiscoverPage \/ CreatorProfilePage
  BY <1>2, PageRenderedInv
<1>3. CASE (\E q \in Queries : Type(q)) \/ Clear
  BY <1>3, TypeInv, ClearInv
<1>4. ASSUME NEW i \in 0 .. MaxId,
             TimerFires(i) \/ SearchAnswered(i) \/ ReadCount(i) \/ ReadFails(i)
               \/ \E ok \in BOOLEAN : ReadFollowing(i, ok)
      PROVE  DiscoverInv'
  <2>1. TRUE \in BOOLEAN
    OBVIOUS
  <2> QED
    BY <1>4, <2>1, SearchAnsweredInv, ReadStepsInv
<1>5. ASSUME NEW t \in Taps,
             \/ Tap(t) \/ Reconcile(t) \/ Revert(t) \/ Unauthorized(t)
             \/ Resolve(t) \/ Write(t) \/ Count(t) \/ TapFails(t)
      PROVE  DiscoverInv'
  BY <1>5, TapInv, TapEndsInv, UnauthorizedInv, RequestStepsInv, WriteInv
<1>6. CASE OtherDevice \/ OperatorBans \/ SessionEnds
  BY <1>6, OtherDeviceInv, ServerTroubleInv
<1>7. CASE UNCHANGED discoverVars
  <2>1. /\ UNCHANGED <<follows, banned, signedIn, page, listed, query, latest, view>>
        /\ UNCHANGED <<read, button, tap, misled, troubles>>
    BY <1>7 DEF discoverVars, serverVars, searchVars
  <2>2. DiscoverTypes'
    BY <2>1 DEF DiscoverInv, DiscoverTypes
  <2>3. SearchIsLatest' /\ ReadsAreSound' /\ (button # None <=> Shown)'
    BY <2>1, PageStays DEF searchVars
  <2>4. ButtonWaitsForOne' /\ ButtonIsHonest'
    BY <2>1 DEF DiscoverInv, ButtonWaitsForOne, ButtonIsHonest, TapIsSound, AddsUp, Heard
  <2> QED
    BY <2>2, <2>3, <2>4 DEF DiscoverInv
<1> QED
  BY <1>1, <1>2, <1>3, <1>4, <1>5, <1>6, <1>7 DEF DiscoverNext

\* It implies the types, honest results, an honest button and cards that add up.
LEMMA DiscoverInvImplies ==
  DiscoverInv => DiscoverTypeOK /\ ResultsMatchQuery /\ HonestButton /\ CardsAddUp
<1> SUFFICES ASSUME DiscoverInv PROVE DiscoverTypeOK /\ ResultsMatchQuery /\ HonestButton /\ CardsAddUp
  OBVIOUS
<1>1. DiscoverTypeOK
  BY DEF DiscoverInv, DiscoverTypes, DiscoverTypeOK, Views, Reads, FollowRequests, CardsOrNone, SearchIsLatest
<1>2. ResultsMatchQuery
  BY IdleRecords DEF DiscoverInv, SearchIsLatest, ResultsMatchQuery
<1>3. HonestButton
  BY DEF DiscoverInv, ButtonIsHonest, HonestButton
<1>4. CardsAddUp
  BY DEF DiscoverInv, ReadsAreSound, AddsUp, ButtonWaitsForOne, CardsAddUp
<1> QED
  BY <1>1, <1>2, <1>3, <1>4

\* It holds of search and follow button by themselves.
THEOREM DiscoverInvariant == DiscoverSpec => []DiscoverInv
BY DiscoverInvInitially, DiscoverInvIsInductive, PTL DEF DiscoverSpec

\* The states of the page, the box, the reads and the follow requests, and a follow
\* button exactly while the creator is shown (creator-search.tsx, follow-button.tsx).
THEOREM DiscoverTypeCorrect == DiscoverSpec => []DiscoverTypeOK
<1>1. DiscoverInv => DiscoverTypeOK
  BY DiscoverInvImplies
<1> QED
  BY <1>1, DiscoverInvariant, PTL

\* Whatever the order and the number of the answers, the grid is that of the text in
\* the box: only the answer of the newest requestId commits (creator-search.tsx).
THEOREM SearchShowsItsQuery == DiscoverSpec => []ResultsMatchQuery
<1>1. DiscoverInv => ResultsMatchQuery
  BY DiscoverInvImplies
<1> QED
  BY <1>1, DiscoverInvariant, PTL

\* A follow button that waits for nothing and was not misled says what the follows
\* table says, after any number of taps, errors and other buttons (follow-controller.ts).
THEOREM FollowButtonIsHonest == DiscoverSpec => []HonestButton
<1>1. DiscoverInv => HonestButton
  BY DiscoverInvImplies
<1> QED
  BY <1>1, DiscoverInvariant, PTL

\* No card counts the viewer out that it calls a follower, unless it was read across a
\* change of the viewer's row: the two statements of creators/service.go, the clamped
\* guess of follow-controller.ts, and the answer that replaces it.
THEOREM FollowersAddUp == DiscoverSpec => []CardsAddUp
<1>1. DiscoverInv => CardsAddUp
  BY DiscoverInvImplies
<1> QED
  BY <1>1, DiscoverInvariant, PTL

-----------------------------------------------------------------------------
(* The composition                                                         *)

\* A step of the browser is a step of one part and a stutter of the others.
LEMMA ScenesOfTheBrowser ==
  /\ Init => DiscoverInit /\ BellInit /\ ExtensionInit
  /\ [Next]_vars =>
       [DiscoverNext]_discoverVars /\ [BellNext]_bellVars /\ [ExtensionNext]_extensionVars
<1>1. Init => DiscoverInit /\ BellInit /\ ExtensionInit
  BY DEF Init
<1>2. [Next]_vars => [DiscoverNext]_discoverVars
  BY DEF Next, vars
<1>3. [Next]_vars => [BellNext]_bellVars
  BY DEF Next, vars
<1>4. [Next]_vars => [ExtensionNext]_extensionVars
  BY DEF Next, vars
<1> QED
  BY <1>1, <1>2, <1>3, <1>4

\* A viewer's browser behaves as the search with the follow button, the bell and the
\* extension do, each by itself: what is proved of one of them holds of it.
THEOREM BrowserIsItsParts == Spec => DiscoverSpec /\ BellSpec /\ ExtensionSpec
BY ScenesOfTheBrowser, PTL DEF Spec, DiscoverSpec, BellSpec, ExtensionSpec

\* The types of everything that runs in a viewer's browser, whatever the viewer does.
THEOREM BrowserTypeCorrect == Spec => []TypeOK
<1>1. DiscoverTypeOK /\ BellTypeOK /\ ExtensionTypeOK => TypeOK
  BY DEF TypeOK
<1> QED
  BY <1>1, BrowserIsItsParts, DiscoverTypeCorrect, BellTypeCorrect, ExtensionTypeCorrect, PTL

=============================================================================
