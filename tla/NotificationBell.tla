-------------------------- MODULE NotificationBell --------------------------
(***************************************************************************)
(* The bell with the new carts of the creators one viewer follows:         *)
(* web/components/notification-bell.tsx over the three notification        *)
(* handlers of internal/creators.                                          *)
(*                                                                         *)
(* The badge is fetched once, when the bell appears.  Opening the menu     *)
(* sends the seen marker and fetches the list, two requests side by side,  *)
(* every time it is opened.  Times are abstracted to what the queries      *)
(* compare: created_at > notifications_seen_at is `fresh`, and a cart's    *)
(* number is its place in the order of created_at.                         *)
(***************************************************************************)
EXTENDS Naturals, FiniteSets

CONSTANTS
  Carts,    \* carts of followed creators, numbered in the order they are made
  Limit,    \* rows of a list, 20 in the query
  MaxOpens  \* bounds the openings of one bell's menu, and the markers in flight

ASSUME BellAssumption ==
  Carts \subseteq Nat /\ IsFiniteSet(Carts) /\ {Limit, MaxOpens} \subseteq Nat

VARIABLES
  carts,    \* rows of those carts
  visible,  \* the public ones that are not archived
  fresh,    \* created_at > notifications_seen_at
  marks,    \* seen markers on their way to the server
  mounted,  \* a page with the bell is open
  isOpen,   \* the menu is open
  count,    \* the badge
  items,    \* the list in the menu: carts with their unread flags
  loaded,   \* a list was answered or has failed
  counting, \* the fetch of the badge: pc and the count it read
  opens,    \* how often the menu was opened
  list,     \* the fetches of the list, one per opening
  shown,    \* history: the opening whose list is in the menu, 0 if none
  due,      \* history: what was visible at the last opening and was not hidden since
  late      \* history: the menu was opened before the badge was there

cartVars == <<carts, visible, fresh>>
bellVars == <<cartVars, marks, mounted, isOpen, count, items, loaded, counting,
              opens, list, shown, due, late>>
-----------------------------------------------------------------------------
NoCount == [pc |-> "idle", value |-> 0]
NoList == [pc |-> "idle", items |-> {}]

\* NotificationUnreadCount
Unread == visible \cap fresh

\* Mutant: the list has the unread carts only.
NotificationsUnreadOnly == {[cart |-> c, unread |-> TRUE] : c \in Unread}

Newer(c, cs) == {d \in cs : d > c}
Newest == {c \in visible : Cardinality(Newer(c, visible)) < Limit}

\* ListNotifications: ORDER BY created_at DESC LIMIT 20
Notifications == {[cart |-> c, unread |-> c \in fresh] : c \in Newest}

CartsOf(rows) == {n.cart : n \in rows}

BellInit ==
  /\ carts = {} /\ visible = {} /\ fresh = {}
  /\ marks = 0
  /\ mounted = FALSE /\ isOpen = FALSE
  /\ count = 0 /\ items = {} /\ loaded = FALSE
  /\ counting = NoCount
  /\ opens = 0 /\ list = [o \in 1 .. MaxOpens |-> NoList]
  /\ shown = 0 /\ due = {} /\ late = FALSE
-----------------------------------------------------------------------------
\* A page is loaded, or left with everything its bell was waiting for.
Load(there) ==
  /\ mounted' = there /\ isOpen' = FALSE
  /\ count' = 0 /\ items' = {} /\ loaded' = FALSE
  /\ counting' = [NoCount EXCEPT !.pc = IF there THEN "asked" ELSE "idle"]
  /\ opens' = 0 /\ list' = [o \in 1 .. MaxOpens |-> NoList]
  /\ shown' = 0 /\ due' = {} /\ late' = FALSE
  /\ UNCHANGED <<cartVars, marks>>

\* getUnreadCount: an error reads as 0.
CountUnread(ok) ==
  /\ counting.pc = "asked"
  /\ counting' = [pc |-> "answered", value |-> IF ok THEN Cardinality(Unread) ELSE 0]
  /\ UNCHANGED <<cartVars, marks, mounted, isOpen, count, items, loaded, opens, list,
                 shown, due, late>>

SetCount ==
  /\ counting.pc = "answered"
  /\ count' = counting.value
  /\ counting' = NoCount
  /\ UNCHANGED <<cartVars, marks, mounted, isOpen, items, loaded, opens, list, shown,
                 due, late>>

\* Mutant: the badge waits for the list.
BadgeOnOpenKept == count

\* setCount(0)
BadgeOnOpen == 0

\* onOpenChange(true)
Open ==
  /\ mounted /\ ~isOpen /\ opens < MaxOpens /\ marks < MaxOpens
  /\ isOpen' = TRUE
  /\ count' = BadgeOnOpen
  /\ marks' = marks + 1
  /\ opens' = opens + 1
  /\ list' = [list EXCEPT ![opens + 1].pc = "asked"]
  /\ due' = visible
  /\ late' = (late \/ counting.pc # "idle")
  /\ UNCHANGED <<cartVars, mounted, items, loaded, counting, shown>>

\* onOpenChange(false), or goTo, which leads to a page with the same bell.
Close ==
  /\ isOpen /\ isOpen' = FALSE
  /\ UNCHANGED <<cartVars, marks, mounted, count, items, loaded, counting, opens, list,
                 shown, due, late>>

\* MarkNotificationsSeen, or its silent failure.  It runs whether or not the page is
\* still there.
MarkSeen(ok) ==
  /\ marks > 0
  /\ marks' = marks - 1
  /\ fresh' = IF ok THEN {} ELSE fresh
  /\ UNCHANGED <<carts, visible, mounted, isOpen, count, items, loaded, counting, opens,
                 list, shown, due, late>>

ListNotifications(o) ==
  /\ list[o].pc = "asked"
  /\ list' = [list EXCEPT ![o] = [pc |-> "answered", items |-> Notifications]]
  /\ UNCHANGED <<cartVars, marks, mounted, isOpen, count, items, loaded, counting,
                 opens, shown, due, late>>

SetItems(o) ==
  /\ list[o].pc = "answered"
  /\ items' = list[o].items /\ loaded' = TRUE
  /\ list' = [list EXCEPT ![o] = NoList]
  /\ shown' = o
  /\ UNCHANGED <<cartVars, marks, mounted, isOpen, count, counting, opens, due, late>>

\* Mutant: a failed list is not reported.
LoadedAfterErrorNot == loaded

\* setLoaded(true) of the catch: "No new carts yet" instead of "Loading..."
LoadedAfterError == TRUE

ListFails(o) ==
  /\ list[o].pc \in {"asked", "answered"}
  /\ loaded' = LoadedAfterError
  /\ list' = [list EXCEPT ![o] = NoList]
  /\ UNCHANGED <<cartVars, marks, mounted, isOpen, count, items, counting, opens, shown,
                 due, late>>
-----------------------------------------------------------------------------
\* Creators create carts, private by default, and show or hide them.
NewCart(c) ==
  /\ \A d \in carts : d < c
  /\ carts' = carts \cup {c} /\ fresh' = fresh \cup {c}
  /\ UNCHANGED <<visible, marks, mounted, isOpen, count, items, loaded, counting, opens,
                 list, shown, due, late>>

ShowOrHide(c) ==
  /\ c \in carts
  /\ visible' = IF c \in visible THEN visible \ {c} ELSE visible \cup {c}
  /\ due' = due \ {c}
  /\ UNCHANGED <<carts, fresh, marks, mounted, isOpen, count, items, loaded, counting,
                 opens, list, shown, late>>
-----------------------------------------------------------------------------
BellNext ==
  \/ \E there \in BOOLEAN : Load(there)
  \/ SetCount \/ Open \/ Close
  \/ \E ok \in BOOLEAN : CountUnread(ok) \/ MarkSeen(ok)
  \/ \E o \in 1 .. MaxOpens : ListNotifications(o) \/ SetItems(o) \/ ListFails(o)
  \/ \E c \in Carts : NewCart(c) \/ ShowOrHide(c)

BellSpec == BellInit /\ [][BellNext]_bellVars

\* A list that was asked for is answered or fails.
ListFairness ==
  \A o \in 1 .. MaxOpens :
    WF_bellVars(ListNotifications(o) \/ SetItems(o) \/ ListFails(o))
-----------------------------------------------------------------------------
BellTypeOK ==
  /\ carts \subseteq Carts /\ visible \subseteq carts /\ fresh \subseteq carts
  /\ due \subseteq visible
  /\ marks \in 0 .. MaxOpens /\ {mounted, isOpen, loaded, late} \subseteq BOOLEAN
  /\ count \in 0 .. Cardinality(Carts)
  /\ items \in SUBSET [cart : Carts, unread : BOOLEAN]
  /\ counting \in [pc : {"idle", "asked", "answered"}, value : 0 .. Cardinality(Carts)]
  /\ opens \in 0 .. MaxOpens /\ shown \in 0 .. opens
  /\ list \in [1 .. MaxOpens -> [pc : {"idle", "asked", "answered"},
                                 items : SUBSET [cart : Carts, unread : BOOLEAN]]]
  /\ isOpen => mounted

\* Once the menu was opened the badge stays away, unless it was opened before the
\* badge had been fetched: that late answer brings a badge back.
BadgeStaysCleared == opens > 0 /\ count > 0 => late

\* The rows have each of these carts, or are a full list of newer ones.
HasAll(cs, rows) ==
  \A c \in cs : c \in CartsOf(rows) \/ Cardinality(Newer(c, CartsOf(rows))) >= Limit

\* The list of the last opening has every cart that was there when the menu was opened
\* and is still public, although the seen marker runs beside it, or as many newer ones as
\* a list has rows: what the marker takes out of the badge is in the menu unless the menu
\* is full.  Until that list is there, or after an older one came in behind it, this says
\* nothing.
SeenIsListed == opens > 0 /\ shown = opens => HasAll(due, items)

\* A menu that is opened does not say "Loading..." for good: the list comes or fails,
\* or the page is gone.
MenuLoads == isOpen ~> (loaded \/ opens = 0)
=============================================================================
