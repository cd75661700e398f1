----------------------------- MODULE CartItems -----------------------------
(***************************************************************************)
(* The products of the carts: internal/carts/service.go, the methods       *)
(* AddProduct, RemoveProduct, UpdateProduct, DeleteCart and                *)
(* ReorderProducts, with the queries of internal/db/queries.sql they call. *)
(*                                                                         *)
(* The service opens no transaction and takes no row lock.  Each SQL       *)
(* statement commits on its own, so one statement is one step here and the *)
(* statements of the HTTP requests in flight interleave freely.  A request *)
(* may also stop between two statements: the handlers pass the request's   *)
(* context to every query, so a client that goes away, a failed query and  *)
(* a process that dies all leave the statements already executed behind.   *)
(*                                                                         *)
(* A product is one identifier for the links row that AddProduct inserts   *)
(* first and for the cart_items row it inserts last.  Both rows get the    *)
(* same cart_id, so linkCart holds it for the two of them.                 *)
(***************************************************************************)
EXTENDS Integers, Sequences, FiniteSets, Functions

CONSTANTS
  Users,       \* accounts that can send requests
  Carts,       \* carts that exist
  Owner,       \* carts.user_id: the account a cart belongs to
  Products,    \* identifiers the database may still hand out: bounds the adds
  Requests,    \* handlers running at the same time: bounds the concurrency
  Texts,       \* contents of the display fields of an item
  ItemLists,   \* item_ids bodies a client may send to the reorder endpoint
  Faults,      \* TRUE: a request may stop between two statements
  FreshLists,  \* TRUE: clients only send the ids their cart holds right now
  None         \* SQL NULL, or a field a request does not use

ASSUME ConstantsAssumption ==
  /\ Owner \in [Carts -> Users]
  /\ ItemLists \subseteq Seq(Products)
  /\ Faults \in BOOLEAN /\ FreshLists \in BOOLEAN
  /\ None \notin Users \cup Carts \cup Products \cup Texts

VARIABLES
  archived,    \* carts with archived_at set
  linkCart,    \* cart_id of the links row of a product, None when no such row
  items,       \* products that have a cart_items row
  pos,         \* position column of those rows, 0 for the others
  text,        \* display fields of those rows, None for the others
  req,         \* progress of each request
  disturbed    \* history: carts where a reorder was cut short, or where an
               \* add read its position in the middle of a reorder

vars == <<archived, linkCart, items, pos, text, req, disturbed>>
-----------------------------------------------------------------------------
Running == {"link", "nextpos", "insert", "remove", "update", "archive", "park", "place"}
Answered == {"ok", "conflict", "norows"}
PCs == {"idle", "refused"} \cup Running \cup Answered

RequestRecord ==
  [pc : PCs, user : Users \cup {None}, cart : Carts \cup {None},
   list : Seq(Products), idx : Nat, prod : Products \cup {None},
   at : Int, text : Texts \cup {None}, calm : BOOLEAN]

Idle ==
  [pc |-> "idle", user |-> None, cart |-> None, list |-> <<>>, idx |-> 1,
   prod |-> None, at |-> 0, text |-> None, calm |-> FALSE]

InCart(c) == {p \in items : linkCart[p] = c}

\* A request holds its cart from the ownership check until its answer.
InFlight(r, c) == req[r].cart = c /\ req[r].pc \in Running \cup Answered

Reordering(r) == req[r].pc \in {"park", "place"}

Goto(r, pc) == req' = [req EXCEPT ![r].pc = pc]

\* Another row of the cart already holds position x: UNIQUE(cart_id, position).
Taken(c, p, x) == \E q \in InCart(c) \ {p} : pos[q] = x

Init ==
  /\ archived = {}
  /\ linkCart = [p \in Products |-> None]
  /\ items = {}
  /\ pos = [p \in Products |-> 0]
  /\ text = [p \in Products |-> None]
  /\ req = [r \in Requests |-> Idle]
  /\ disturbed = {}
-----------------------------------------------------------------------------
(***************************************************************************)
(* Every method starts with GetCartByID, which does not return archived    *)
(* carts, and compares the owner.  calm is a history flag of the request:  *)
(* it has had its cart to itself so far and, if it reorders, it found no   *)
(* parked item and got each of the cart's items once.                      *)
(***************************************************************************)
\* Mutant: the query forgets "archived_at IS NULL".
GetCartByIDArchivedToo(c) == c \in Carts
GetCartByID(c) == c \in Carts \ archived

Lists(l, c) == Range(l) = InCart(c)

CanBeCalm(c, call) ==
  /\ \A q \in Requests : ~InFlight(q, c)
  /\ call.pc = "park" => /\ Lists(call.list, c)
                         /\ IsInjective(call.list)
                         /\ \A p \in InCart(c) : pos[p] >= 0

Admit(r, u, c, call) ==
  /\ req[r] = Idle
  /\ GetCartByID(c)
  /\ Owner[c] = u
  /\ req' = [q \in Requests |->
               IF q = r
                 THEN [call EXCEPT !.user = u, !.cart = c, !.calm = CanBeCalm(c, call)]
                 ELSE IF InFlight(q, c) THEN [req[q] EXCEPT !.calm = FALSE] ELSE req[q]]
  /\ UNCHANGED <<archived, linkCart, items, pos, text, disturbed>>

\* The cart is archived (404) or someone else's (403).
Refuse(r, u, c) ==
  /\ req[r] = Idle
  /\ ~GetCartByID(c) \/ Owner[c] # u
  /\ req' = [req EXCEPT ![r] = [Idle EXCEPT !.pc = "refused", !.user = u, !.cart = c]]
  /\ UNCHANGED <<archived, linkCart, items, pos, text, disturbed>>

Unused == {p \in Products : linkCart[p] = None}

StartAdd(r, u, c, t) ==
  /\ Cardinality({q \in Requests : req[q].pc = "link"}) < Cardinality(Unused)
  /\ Admit(r, u, c, [Idle EXCEPT !.pc = "link", !.text = t])

StartRemove(r, u, c, p) == Admit(r, u, c, [Idle EXCEPT !.pc = "remove", !.prod = p])

StartUpdate(r, u, c, p, t) ==
  Admit(r, u, c, [Idle EXCEPT !.pc = "update", !.prod = p, !.text = t])

StartDelete(r, u, c) == Admit(r, u, c, [Idle EXCEPT !.pc = "archive"])

StartReorder(r, u, c, l) ==
  /\ FreshLists => Lists(l, c) /\ IsInjective(l)
  /\ Admit(r, u, c, [Idle EXCEPT !.pc = "park", !.list = l])
-----------------------------------------------------------------------------
(***************************************************************************)
(* AddProduct: three statements after the check.                           *)
(***************************************************************************)
\* Mutant: goes on although the links row was not inserted.
CreateLinkIgnoringItsError(r) ==
  /\ req[r].pc = "link"
  /\ \E p \in Unused : req' = [req EXCEPT ![r].pc = "nextpos", ![r].prod = p]
  /\ UNCHANGED <<archived, linkCart, items, pos, text, disturbed>>

CreateLink(r) ==
  /\ req[r].pc = "link"
  /\ \E p \in Unused :
       /\ linkCart' = [linkCart EXCEPT ![p] = req[r].cart]
       /\ req' = [req EXCEPT ![r].pc = "nextpos", ![r].prod = p]
  /\ UNCHANGED <<archived, items, pos, text, disturbed>>

\* Mutant: COUNT(*) for the next position.
NextPositionByCount(c) == {Cardinality(InCart(c))}

\* COALESCE(MAX(position), -1) + 1
NextPosition(c) ==
  IF InCart(c) = {} THEN {0}
  ELSE {x \in {pos[p] + 1 : p \in InCart(c)} : \A p \in InCart(c) : pos[p] < x}

NextCartItemPosition(r) ==
  LET c == req[r].cart IN
  /\ req[r].pc = "nextpos"
  /\ \E x \in NextPosition(c) : req' = [req EXCEPT ![r].pc = "insert", ![r].at = x]
  /\ disturbed' = IF \E q \in Requests : InFlight(q, c) /\ Reordering(q)
                    THEN disturbed \cup {c} ELSE disturbed
  /\ UNCHANGED <<archived, linkCart, items, pos, text>>

AddCartItem(r) ==
  LET c == req[r].cart  p == req[r].prod  x == req[r].at IN
  /\ req[r].pc = "insert"
  /\ IF Taken(c, p, x)
       THEN Goto(r, "conflict") /\ UNCHANGED <<items, pos, text>>
       ELSE /\ items' = items \cup {p}
            /\ pos' = [pos EXCEPT ![p] = x]
            /\ text' = [text EXCEPT ![p] = req[r].text]
            /\ Goto(r, "ok")
  /\ UNCHANGED <<archived, linkCart, disturbed>>

(***************************************************************************)
(* RemoveProduct, UpdateProduct and DeleteCart: one statement.  The WHERE  *)
(* clauses of the item statements name the item and its cart.              *)
(***************************************************************************)
RemoveCartItem(r) ==
  LET p == req[r].prod  gone == {p} \cap InCart(req[r].cart) IN
  /\ req[r].pc = "remove"
  /\ items' = items \ gone
  /\ pos' = [q \in Products |-> IF q \in gone THEN 0 ELSE pos[q]]
  /\ text' = [q \in Products |-> IF q \in gone THEN None ELSE text[q]]
  /\ Goto(r, "ok")
  /\ UNCHANGED <<archived, linkCart, disturbed>>

\* Mutant: WHERE id = $1 alone.
UpdateCartItemByIdOnly(r) ==
  LET p == req[r].prod IN
  /\ req[r].pc = "update"
  /\ IF p \in items
       THEN text' = [text EXCEPT ![p] = req[r].text] /\ Goto(r, "ok")
       ELSE Goto(r, "norows") /\ UNCHANGED text
  /\ UNCHANGED <<archived, linkCart, items, pos, disturbed>>

UpdateCartItem(r) ==
  LET p == req[r].prod IN
  /\ req[r].pc = "update"
  /\ IF p \in InCart(req[r].cart)
       THEN text' = [text EXCEPT ![p] = req[r].text] /\ Goto(r, "ok")
       ELSE Goto(r, "norows") /\ UNCHANGED text
  /\ UNCHANGED <<archived, linkCart, items, pos, disturbed>>

ArchiveCart(r) ==
  /\ req[r].pc = "archive"
  /\ archived' = archived \cup {req[r].cart}
  /\ Goto(r, "ok")
  /\ UNCHANGED <<linkCart, items, pos, text, disturbed>>

(***************************************************************************)
(* ReorderProducts: the first loop parks the i-th id at -i, the second     *)
(* one sets the i-th id to i - 1 (sequences count from 1 here, the code's  *)
(* slices from 0).  An id without a row in the cart updates nothing.       *)
(***************************************************************************)
\* Mutants: no parking range; positions from 1.
ParkInRange(i) == i - 1
PlaceFromOne(i) == i
ParkAt(i) == -i
PlaceAt(i) == i - 1

ReorderCartItem(r, x) ==
  LET c == req[r].cart  p == req[r].list[req[r].idx] IN
  /\ IF p \in InCart(c) /\ Taken(c, p, x)
       THEN /\ Goto(r, "conflict")
            /\ disturbed' = disturbed \cup {c}
            /\ UNCHANGED pos
       ELSE /\ pos' = IF p \in InCart(c) THEN [pos EXCEPT ![p] = x] ELSE pos
            /\ req' = [req EXCEPT ![r].idx = @ + 1]
            /\ UNCHANGED disturbed
  /\ UNCHANGED <<archived, linkCart, items, text>>

Park(r) ==
  /\ req[r].pc = "park" /\ req[r].idx <= Len(req[r].list)
  /\ ReorderCartItem(r, ParkAt(req[r].idx))

\* Mutants: the second loop skips the first id; there is no second loop.
AllParkedSkippingOne(r) ==
  /\ req[r].pc = "park" /\ req[r].idx > Len(req[r].list)
  /\ req' = [req EXCEPT ![r].pc = "place", ![r].idx = 2]
  /\ UNCHANGED <<archived, linkCart, items, pos, text, disturbed>>
AllParkedIsAll(r) ==
  /\ req[r].pc = "park" /\ req[r].idx > Len(req[r].list)
  /\ Goto(r, "ok")
  /\ UNCHANGED <<archived, linkCart, items, pos, text, disturbed>>

AllParked(r) ==
  /\ req[r].pc = "park" /\ req[r].idx > Len(req[r].list)
  /\ req' = [req EXCEPT ![r].pc = "place", ![r].idx = 1]
  /\ UNCHANGED <<archived, linkCart, items, pos, text, disturbed>>

Place(r) ==
  /\ req[r].pc = "place" /\ req[r].idx <= Len(req[r].list)
  /\ ReorderCartItem(r, PlaceAt(req[r].idx))

AllPlaced(r) ==
  /\ req[r].pc = "place" /\ req[r].idx > Len(req[r].list)
  /\ Goto(r, "ok")
  /\ UNCHANGED <<archived, linkCart, items, pos, text, disturbed>>
-----------------------------------------------------------------------------
Respond(r) ==
  /\ req[r].pc \in Answered \cup {"refused"}
  /\ req' = [req EXCEPT ![r] = Idle]
  /\ UNCHANGED <<archived, linkCart, items, pos, text, disturbed>>

\* The client disconnects, a query fails or the process dies: what the request
\* has executed stays, what it had left to do is not done.
Abort(r) ==
  /\ Faults
  /\ req[r].pc \in Running
  /\ req' = [req EXCEPT ![r] = Idle]
  /\ disturbed' = IF Reordering(r) THEN disturbed \cup {req[r].cart} ELSE disturbed
  /\ UNCHANGED <<archived, linkCart, items, pos, text>>

Call(r, u, c) ==
  \/ Refuse(r, u, c)
  \/ \E t \in Texts : StartAdd(r, u, c, t)
  \/ \E p \in Products : StartRemove(r, u, c, p)
  \/ \E p \in Products, t \in Texts : StartUpdate(r, u, c, p, t)
  \/ StartDelete(r, u, c)
  \/ \E l \in ItemLists : StartReorder(r, u, c, l)

Progress(r) ==
  \/ CreateLink(r) \/ NextCartItemPosition(r) \/ AddCartItem(r)
  \/ RemoveCartItem(r) \/ UpdateCartItem(r) \/ ArchiveCart(r)
  \/ Park(r) \/ AllParked(r) \/ Place(r) \/ AllPlaced(r)
  \/ Respond(r)

Next ==
  \E r \in Requests :
    \/ \E u \in Users, c \in Carts : Call(r, u, c)
    \/ Progress(r)
    \/ Abort(r)

Spec == Init /\ [][Next]_vars

\* net/http runs every handler on a goroutine of its own and pgx runs its
\* statements: an admitted request is not starved by the others.
Fairness == \A r \in Requests : WF_vars(Progress(r))

FairSpec == Spec /\ Fairness
-----------------------------------------------------------------------------
\* The fields the next statement of a request reads are there.
WellFormed(r) ==
  /\ req[r].pc # "idle" => req[r].cart \in Carts
  /\ req[r].pc \in {"remove", "update"} => req[r].prod \in Products
  /\ req[r].pc \in {"nextpos", "insert"} =>
       req[r].prod \in Products /\ linkCart[req[r].prod] = req[r].cart
  /\ req[r].idx > 0

\* The rows and the requests have their types: an item has a link, of its cart.
TypeOK ==
  /\ archived \subseteq Carts
  /\ linkCart \in [Products -> Carts \cup {None}]
  /\ items \subseteq {p \in Products : linkCart[p] # None}
  /\ pos \in [Products -> Int]
  /\ text \in [Products -> Texts \cup {None}]
  /\ req \in [Requests -> RequestRecord]
  /\ disturbed \subseteq Carts
  /\ \A r \in Requests : WellFormed(r)

Parked(p) == p \in items /\ pos[p] < 0

\* Reorder r has yet to run its final update of product p.
Owes(r, p) ==
  /\ InFlight(r, linkCart[p])
  /\ \/ req[r].pc = "park" /\ p \in Range(req[r].list)
     \/ req[r].pc = "place" /\ \E j \in req[r].idx .. Len(req[r].list) : req[r].list[j] = p

\* A product sits at a negative position only while a running reorder still has
\* to place it.  The carts where that is not so are those in which a reorder
\* ended before its last statement, or an add computed its position during one:
\* the two-phase loop of ReorderProducts leaves parked rows behind in no other way.
\* An add that is about to insert below zero saw such rows.
ParkedIsOwed ==
  /\ \A p \in items : Parked(p) =>
       linkCart[p] \in disturbed \/ \E r \in Requests : Owes(r, p)
  /\ \A r \in Requests :
       req[r].pc = "insert" /\ req[r].at < 0 => req[r].cart \in disturbed

\* A request that had its cart to itself is never answered with a violation of
\* UNIQUE(cart_id, position): neither the insert of AddProduct nor, for a list of
\* exactly the cart's items, the park and place updates of ReorderProducts collide.
CalmNeverConflicts ==
  \A r \in Requests : req[r].calm => req[r].pc # "conflict"

\* When a reorder that had its cart to itself answers, the cart's items are
\* exactly the list it was sent, at positions 0, 1, 2... in that order.
CalmReorderExact ==
  \A r \in Requests :
    LET l == req[r].list IN
    req[r].calm /\ req[r].pc = "ok" /\ l # <<>> =>
      /\ Lists(l, req[r].cart)
      /\ \A j \in DOMAIN l : pos[l[j]] = j - 1

\* Why the two properties above hold: how far a request that has its cart to itself
\* has come is written in the positions.  Behind the loop index of a reorder are
\* the parked (or placed) items, before it the untouched (or parked) ones.
CalmProgress(r) ==
  LET c == req[r].cart  l == req[r].list  i == req[r].idx IN
  /\ InFlight(r, c)
  /\ \A q \in Requests \ {r} : ~InFlight(q, c)
  /\ req[r].pc # "conflict"
  /\ req[r].pc \in Running \ {"park", "place"} => l = <<>>
  /\ req[r].pc = "insert" => \A p \in InCart(c) : pos[p] < req[r].at
  /\ Reordering(r) => Lists(l, c) /\ IsInjective(l) /\ i <= Len(l) + 1
  /\ req[r].pc = "park" =>
       \A j \in DOMAIN l : IF j < i THEN pos[l[j]] = -j ELSE pos[l[j]] >= 0
  /\ req[r].pc = "place" =>
       \A j \in DOMAIN l : pos[l[j]] = IF j < i THEN j - 1 ELSE -j
  /\ req[r].pc = "ok" /\ l # <<>> => Lists(l, c) /\ \A j \in DOMAIN l : pos[l[j]] = j - 1

CalmInv == \A r \in Requests : req[r].calm => CalmProgress(r)

Rows(c) == [p \in InCart(c) |-> <<pos[p], text[p]>>]

\* The rows of a cart change only by a running request of the account that owns
\* it: item ids of other people's carts in a body change nothing in those carts.
OnlyOwnerChanges ==
  [][\A c \in Carts : Rows(c)' # Rows(c) =>
       \E r \in Requests : /\ InFlight(r, c) /\ req[r].pc \in Running
                           /\ req[r].user = Owner[c]]_vars

\* No request holds the archived cart c.
AtRest(c) == c \in archived /\ \A r \in Requests : ~InFlight(r, c)

\* Once an archived cart has no admitted request left, nothing enters it again and
\* its rows never change, though only the first query of a method looks at archived_at.
ArchivedComesToRest ==
  [][\A c \in Carts : AtRest(c) => AtRest(c)' /\ Rows(c)' = Rows(c)]_vars

\* A parked product gets its final position back, or leaves the cart, unless the
\* cart is disturbed: the second loop of a reorder follows the first one.
ParkedReturns ==
  \A p \in Products : Parked(p) ~> (~Parked(p) \/ linkCart[p] \in disturbed)
=============================================================================
