------------------------- MODULE CartItems_proofs -------------------------
(* Theorems about CartItems, for every value of its constants. *)
EXTENDS CartItemsRefinement, FiniteSetTheorems, SequenceTheorems, TLAPS

(***************************************************************************)
(* Type correctness.                                                       *)
(***************************************************************************)
\* A request that is free has the type of a request.
LEMMA IdleType == Idle \in RequestRecord
  BY DEF Idle, RequestRecord, PCs

\* An admitted call is well formed when the record it starts from is.
LEMMA AdmitType ==
  ASSUME TypeOK, NEW r \in Requests, NEW u \in Users, NEW c \in Carts,
         NEW call \in RequestRecord, Admit(r, u, c, call), call.idx = 1,
         call.pc \in {"remove", "update"} => call.prod \in Products,
         call.pc \notin {"nextpos", "insert"}
  PROVE  TypeOK'
<1> DEFINE new == [call EXCEPT !.user = u, !.cart = c, !.calm = CanBeCalm(c, call)]
<1>1. CanBeCalm(c, call) \in BOOLEAN
  BY DEF CanBeCalm
<1>2. /\ new \in RequestRecord
      /\ new.pc = call.pc /\ new.prod = call.prod /\ new.idx = 1 /\ new.cart = c
  BY <1>1 DEF RequestRecord
<1>3. ASSUME NEW q \in Requests
      PROVE  LET old == [req[q] EXCEPT !.calm = FALSE] IN
             /\ old \in RequestRecord
             /\ old.pc = req[q].pc /\ old.prod = req[q].prod
             /\ old.idx = req[q].idx /\ old.cart = req[q].cart
  BY DEF TypeOK, RequestRecord
<1>4. req' \in [Requests -> RequestRecord]
  BY <1>2, <1>3 DEF Admit, TypeOK
<1>5. ASSUME NEW q \in Requests PROVE WellFormed(q)'
  <2>1. CASE q = r
    <3>1. req'[q] = new /\ UNCHANGED linkCart
      BY <2>1 DEF Admit
    <3> HIDE DEF new
    <3>2. QED
      BY <1>2, <3>1 DEF WellFormed
  <2>2. CASE q # r
    BY <1>3, <2>2 DEF Admit, WellFormed, TypeOK
  <2>3. QED
    BY <2>1, <2>2
<1>6. QED
  BY <1>4, <1>5 DEF Admit, TypeOK

\* Every handler, refused or admitted, starts from a well-formed record.
LEMMA CallType ==
  ASSUME TypeOK, NEW r \in Requests, NEW u \in Users, NEW c \in Carts, Call(r, u, c)
  PROVE  TypeOK'
<1> USE IdleType DEF RequestRecord, PCs, Running
<1>1. CASE Refuse(r, u, c)
  BY <1>1 DEF Refuse, TypeOK, WellFormed, Idle
<1>2. ASSUME NEW t \in Texts, StartAdd(r, u, c, t) PROVE TypeOK'
  <2> DEFINE call == [Idle EXCEPT !.pc = "link", !.text = t]
  <2>1. call \in RequestRecord /\ call.idx = 1 /\ call.pc = "link"
    BY DEF Idle
  <2>2. QED
    BY <2>1, <1>2, AdmitType DEF StartAdd
<1>3. ASSUME NEW p \in Products, StartRemove(r, u, c, p) PROVE TypeOK'
  <2> DEFINE call == [Idle EXCEPT !.pc = "remove", !.prod = p]
  <2>1. call \in RequestRecord /\ call.idx = 1 /\ call.pc = "remove" /\ call.prod = p
    BY DEF Idle
  <2>2. QED
    BY <2>1, <1>3, AdmitType DEF StartRemove
<1>4. ASSUME NEW p \in Products, NEW t \in Texts, StartUpdate(r, u, c, p, t) PROVE TypeOK'
  <2> DEFINE call == [Idle EXCEPT !.pc = "update", !.prod = p, !.text = t]
  <2>1. call \in RequestRecord /\ call.idx = 1 /\ call.pc = "update" /\ call.prod = p
    BY DEF Idle
  <2>2. QED
    BY <2>1, <1>4, AdmitType DEF StartUpdate
<1>5. CASE StartDelete(r, u, c)
  <2> DEFINE call == [Idle EXCEPT !.pc = "archive"]
  <2>1. call \in RequestRecord /\ call.idx = 1 /\ call.pc = "archive"
    BY DEF Idle
  <2>2. QED
    BY <2>1, <1>5, AdmitType DEF StartDelete
<1>6. ASSUME NEW l \in ItemLists, StartReorder(r, u, c, l) PROVE TypeOK'
  <2> DEFINE call == [Idle EXCEPT !.pc = "park", !.list = l]
  <2>1. call \in RequestRecord /\ call.idx = 1 /\ call.pc = "park"
    BY ConstantsAssumption DEF Idle
  <2>2. QED
    BY <2>1, <1>6, AdmitType DEF StartReorder
<1>7. QED
  BY <1>1, <1>2, <1>3, <1>4, <1>5, <1>6 DEF Call

\* What TypeOK' asks of a step that only rewrites one request and keeps the links.
LEMMA OneRequest ==
  ASSUME TypeOK, NEW r \in Requests, NEW rec \in RequestRecord,
         req' = [req EXCEPT ![r] = rec], UNCHANGED linkCart,
         rec.pc # "idle" => rec.cart \in Carts,
         rec.pc \in {"remove", "update"} => rec.prod \in Products,
         rec.pc \in {"nextpos", "insert"} =>
           rec.prod \in Products /\ linkCart[rec.prod] = rec.cart,
         rec.idx > 0
  PROVE  /\ req' \in [Requests -> RequestRecord]
         /\ \A q \in Requests : WellFormed(q)'
  BY DEF TypeOK, WellFormed

\* One UPDATE of a reorder moves a row inside its table.
LEMMA ReorderCartItemType ==
  ASSUME TypeOK, NEW r \in Requests, NEW x \in Int, Reordering(r),
         req[r].idx <= Len(req[r].list), ReorderCartItem(r, x)
  PROVE  TypeOK'
<1> USE DEF RequestRecord, PCs, Running, Answered
<1>1. /\ req[r] \in RequestRecord /\ WellFormed(r)
      /\ req[r].pc \in {"park", "place"} /\ req[r].cart \in Carts
  BY DEF TypeOK, WellFormed, Reordering
<1>2. req[r].list[req[r].idx] \in Products
  BY <1>1 DEF WellFormed
<1>3. /\ pos' \in [Products -> Int] /\ disturbed' \subseteq Carts
      /\ UNCHANGED <<archived, linkCart, items, text>>
  BY <1>1, <1>2 DEF ReorderCartItem, TypeOK
<1>4. CASE req' = [req EXCEPT ![r].pc = "conflict"]
  <2> DEFINE rec == [req[r] EXCEPT !.pc = "conflict"]
  <2>1. rec \in RequestRecord /\ rec.pc = "conflict" /\ rec.cart \in Carts /\ rec.idx > 0
    BY <1>1 DEF WellFormed
  <2>2. req' = [req EXCEPT ![r] = rec]
    BY <1>4
  <2>3. QED
    BY <1>3, <2>1, <2>2, OneRequest DEF TypeOK
<1>5. CASE req' = [req EXCEPT ![r].idx = @ + 1]
  <2> DEFINE rec == [req[r] EXCEPT !.idx = @ + 1]
  <2>1. rec \in RequestRecord /\ rec.pc \in {"park", "place"} /\ rec.cart \in Carts /\ rec.idx > 0
    BY <1>1 DEF WellFormed
  <2>2. req' = [req EXCEPT ![r] = rec]
    BY <1>5
  <2>3. QED
    BY <1>3, <2>1, <2>2, OneRequest DEF TypeOK
<1>6. QED
  BY <1>4, <1>5 DEF ReorderCartItem, Goto

\* Every statement of an admitted request keeps the types.
LEMMA ProgressType ==
  ASSUME TypeOK, NEW r \in Requests, Progress(r)
  PROVE  TypeOK'
<1> USE DEF RequestRecord, PCs, Running, Answered, Goto
<1>0. req[r] \in RequestRecord /\ WellFormed(r)
  BY DEF TypeOK
<1>1. CASE CreateLink(r)
  <2>1. PICK p \in Unused :
          /\ linkCart' = [linkCart EXCEPT ![p] = req[r].cart]
          /\ req' = [req EXCEPT ![r].pc = "nextpos", ![r].prod = p]
    BY <1>1 DEF CreateLink
  <2>2. p \in Products /\ linkCart[p] = None /\ req[r].cart \in Carts /\ req[r].cart # None
    BY <1>0, <1>1, <2>1, ConstantsAssumption DEF Unused, CreateLink, WellFormed
  <2> DEFINE rec == [req[r] EXCEPT !.pc = "nextpos", !.prod = p]
  <2>3. /\ rec \in RequestRecord /\ rec.pc = "nextpos" /\ rec.prod = p
        /\ rec.cart = req[r].cart /\ rec.idx > 0
    BY <1>0, <2>2 DEF WellFormed
  <2>4. req' = [req EXCEPT ![r] = rec]
    BY <2>1
  <2>5. req'[r] = rec /\ \A q \in Requests \ {r} : req'[q] = req[q]
    BY <2>4 DEF TypeOK
  <2> HIDE DEF rec
  <2>6. \A q \in Requests : WellFormed(q)'
    <3> SUFFICES ASSUME NEW q \in Requests PROVE WellFormed(q)'
      OBVIOUS
    <3>1. linkCart'[p] = req[r].cart /\ \A o \in Products \ {p} : linkCart'[o] = linkCart[o]
      BY <2>1, <2>2 DEF TypeOK
    <3>2. CASE q = r
      BY <2>2, <2>3, <2>5, <3>1, <3>2 DEF WellFormed
    <3>3. CASE q # r
      BY <2>2, <2>5, <3>1, <3>3, ConstantsAssumption DEF WellFormed, TypeOK
    <3>4. QED
      BY <3>2, <3>3
  <2>7. req' \in [Requests -> RequestRecord]
    BY <2>3, <2>4 DEF TypeOK
  <2>8. /\ linkCart' \in [Products -> Carts \cup {None}]
        /\ items' \subseteq {o \in Products : linkCart'[o] # None}
    BY <1>1, <2>1, <2>2 DEF CreateLink, TypeOK
  <2> HIDE DEF RequestRecord
  <2>9. QED
    BY <1>1, <2>6, <2>7, <2>8 DEF CreateLink, TypeOK
<1>2. CASE NextCartItemPosition(r)
  <2>1. PICK x \in NextPosition(req[r].cart) :
          req' = [req EXCEPT ![r].pc = "insert", ![r].at = x]
    BY <1>2 DEF NextCartItemPosition
  <2>2. x \in Int
    BY <2>1 DEF NextPosition, InCart, TypeOK
  <2> DEFINE rec == [req[r] EXCEPT !.pc = "insert", !.at = x]
  <2>3. rec \in RequestRecord /\ rec.pc = "insert" /\ rec.prod = req[r].prod
        /\ rec.cart = req[r].cart /\ rec.idx > 0
    BY <1>0, <2>2 DEF WellFormed
  <2>4. req' = [req EXCEPT ![r] = rec]
    BY <2>1
  <2>5. req[r].cart \in Carts /\ req[r].prod \in Products /\ linkCart[req[r].prod] = req[r].cart
    BY <1>0, <1>2 DEF NextCartItemPosition, WellFormed
  <2> HIDE DEF rec
  <2>6. QED
    BY <1>2, <2>3, <2>4, <2>5, OneRequest DEF NextCartItemPosition, TypeOK
<1>3. ASSUME NEW pc \in Answered, req' = [req EXCEPT ![r].pc = pc], UNCHANGED linkCart,
             req[r].pc # "idle"
      PROVE  req' \in [Requests -> RequestRecord] /\ \A q \in Requests : WellFormed(q)'
  <2> DEFINE rec == [req[r] EXCEPT !.pc = pc]
  <2>1. /\ rec \in RequestRecord /\ rec.pc = pc /\ rec.cart \in Carts /\ rec.idx > 0
    BY <1>0, <1>3 DEF WellFormed
  <2>2. req' = [req EXCEPT ![r] = rec]
    BY <1>3
  <2> HIDE DEF rec
  <2>3. QED
    BY <1>3, <2>1, <2>2, OneRequest
<1>4. CASE AddCartItem(r)
  <2>1. req[r].prod \in Products /\ linkCart[req[r].prod] \in Carts
    BY <1>0, <1>4 DEF AddCartItem, WellFormed
  <2>2. req' \in [Requests -> RequestRecord] /\ \A q \in Requests : WellFormed(q)'
    BY <1>3, <1>4 DEF AddCartItem
  <2>3. /\ items' \subseteq {p \in Products : linkCart[p] # None}
        /\ pos' \in [Products -> Int]
        /\ text' \in [Products -> Texts \cup {None}]
    <3>1. req[r].at \in Int /\ req[r].text \in Texts \cup {None} /\ linkCart[req[r].prod] # None
      BY <1>0, <2>1, ConstantsAssumption
    <3>2. /\ items' \in {items, items \cup {req[r].prod}}
          /\ pos' \in {pos, [pos EXCEPT ![req[r].prod] = req[r].at]}
          /\ text' \in {text, [text EXCEPT ![req[r].prod] = req[r].text]}
      BY <1>4 DEF AddCartItem
    <3>3. QED
      BY <2>1, <3>1, <3>2 DEF TypeOK
  <2> HIDE DEF RequestRecord
  <2>4. QED
    BY <1>4, <2>2, <2>3 DEF AddCartItem, TypeOK
<1>5. CASE RemoveCartItem(r)
  BY <1>3, <1>5 DEF RemoveCartItem, TypeOK
<1>6. CASE UpdateCartItem(r)
  BY <1>0, <1>3, <1>6 DEF UpdateCartItem, TypeOK, InCart
<1>7. CASE ArchiveCart(r)
  BY <1>0, <1>3, <1>7 DEF ArchiveCart, TypeOK, WellFormed
<1>8. CASE Park(r)
  BY <1>0, <1>8, ReorderCartItemType DEF Park, ParkAt, Reordering
<1>9. CASE Place(r)
  BY <1>0, <1>9, ReorderCartItemType DEF Place, PlaceAt, Reordering
<1>10. CASE AllParked(r)
  <2> DEFINE rec == [req[r] EXCEPT !.pc = "place", !.idx = 1]
  <2>0. req[r].cart \in Carts
    BY <1>0, <1>10 DEF WellFormed, AllParked
  <2>1. rec \in RequestRecord
    BY <1>0
  <2>11. rec.pc = "place" /\ rec.cart \in Carts /\ rec.idx = 1
    BY <1>0, <2>0
  <2>2. req' = [req EXCEPT ![r] = rec]
    BY <1>10 DEF AllParked
  <2> HIDE DEF rec, RequestRecord
  <2>3. QED
    <3> HIDE DEF PCs, Running, Answered
    <3>0. rec.idx > 0 /\ UNCHANGED linkCart
      BY <1>10, <2>11 DEF AllParked
    <3>1. /\ req' \in [Requests -> RequestRecord]
          /\ \A q \in Requests : WellFormed(q)'
      BY <2>1, <2>11, <2>2, <3>0, OneRequest
    <3>2. QED
      BY <1>10, <3>1 DEF AllParked, TypeOK
<1>11. CASE AllPlaced(r)
  BY <1>3, <1>11 DEF AllPlaced, TypeOK
<1>12. CASE Respond(r)
  <2>1. Idle.pc = "idle" /\ Idle.idx = 1
    BY DEF Idle
  <2> HIDE DEF RequestRecord, PCs, Running, Answered
  <2>2. req' = [req EXCEPT ![r] = Idle] /\ UNCHANGED linkCart
    BY <1>12 DEF Respond
  <2>22. /\ req' \in [Requests -> RequestRecord]
        /\ \A q \in Requests : WellFormed(q)'
    <3> DEFINE rec == Idle
    <3>1. rec \in RequestRecord /\ req' = [req EXCEPT ![r] = rec] /\ UNCHANGED linkCart
      BY <2>2, IdleType
    <3>2. rec.pc = "idle" /\ rec.idx > 0
      BY <2>1
    <3> HIDE DEF rec
    <3>3. QED
      BY <3>1, <3>2, OneRequest
  <2>3. QED
    BY <1>12, <2>22 DEF Respond, TypeOK
<1>13. QED
  BY <1>1, <1>2, <1>4, <1>5, <1>6, <1>7, <1>8, <1>9, <1>10, <1>11, <1>12 DEF Progress

\* Stopping half way keeps the types.
LEMMA AbortType ==
  ASSUME TypeOK, NEW r \in Requests, Abort(r)
  PROVE  TypeOK'
BY IdleType, OneRequest DEF Abort, TypeOK, WellFormed, Idle, Running, Reordering

\* TypeOK is inductive.
LEMMA TypeStep == TypeOK /\ [Next]_vars => TypeOK'
<1> SUFFICES ASSUME TypeOK, [Next]_vars PROVE TypeOK'
  OBVIOUS
<1>1. CASE UNCHANGED vars
  BY <1>1 DEF vars, TypeOK, WellFormed
<1>2. CASE Next
  BY <1>2, CallType, ProgressType, AbortType DEF Next
<1>3. QED
  BY <1>1, <1>2

\* Rows and requests keep their types, and an item always has a link of its cart.
THEOREM TypeCorrect == Spec => []TypeOK
<1>1. Init => TypeOK
  BY IdleType DEF Init, TypeOK, WellFormed, Idle
<1>2. QED
  BY <1>1, TypeStep, PTL DEF Spec
-----------------------------------------------------------------------------
(***************************************************************************)
(* Parked items.                                                           *)
(***************************************************************************)
\* What a reorder owes depends on its record and on the product's link only.
LEMMA OwesKept ==
  ASSUME NEW r \in Requests, NEW p, Owes(r, p),
         req'[r].pc = req[r].pc, req'[r].cart = req[r].cart,
         req'[r].list = req[r].list, req'[r].idx = req[r].idx,
         linkCart'[p] = linkCart[p]
  PROVE  Owes(r, p)'
BY DEF Owes, InFlight

\* A step of request s rewrites no other request, settles no disturbance and moves
\* no item to another cart.
LEMMA OnlyThis ==
  ASSUME TypeOK, NEW s \in Requests, Progress(s) \/ Abort(s)
  PROVE  /\ \A q \in Requests \ {s} : req'[q] = req[q]
         /\ disturbed \subseteq disturbed'
         /\ \A p \in items : linkCart'[p] = linkCart[p]
<1>1. \A q \in Requests \ {s} : req'[q] = req[q]
  BY DEF Progress, Abort, CreateLink, NextCartItemPosition, AddCartItem, RemoveCartItem,
    UpdateCartItem, ArchiveCart, Park, Place, ReorderCartItem, AllParked, AllPlaced,
    Respond, Goto, TypeOK
<1>2. disturbed \subseteq disturbed'
  BY DEF Progress, Abort, CreateLink, NextCartItemPosition, AddCartItem, RemoveCartItem,
    UpdateCartItem, ArchiveCart, Park, Place, ReorderCartItem, AllParked, AllPlaced, Respond
<1>3. \A p \in items : linkCart'[p] = linkCart[p]
  <2>1. CASE CreateLink(s)
    BY <2>1 DEF CreateLink, Unused, TypeOK
  <2>2. CASE ~CreateLink(s)
    BY <2>2 DEF Progress, Abort, NextCartItemPosition, AddCartItem, RemoveCartItem,
      UpdateCartItem, ArchiveCart, Park, Place, ReorderCartItem, AllParked, AllPlaced, Respond
  <2>3. QED
    BY <2>1, <2>2
<1>4. QED
  BY <1>1, <1>2, <1>3

\* A debt of another request, and of a cart that a step does not disturb, stays.
LEMMA DebtOfOthers ==
  ASSUME TypeOK, NEW s \in Requests, Progress(s) \/ Abort(s),
         NEW p \in items, NEW r \in Requests \ {s}, Owes(r, p)
  PROVE  Owes(r, p)'
BY OnlyThis, OwesKept

\* A step that moves no item, starts no insert and settles no debt of its request.
LEMMA NothingMoves ==
  ASSUME TypeOK, ParkedIsOwed, NEW s \in Requests, Progress(s) \/ Abort(s),
         items' \subseteq items, \A p \in items' : pos'[p] = pos[p],
         req'[s].pc # "insert",
         \A p \in items : Owes(s, p) => Owes(s, p)' \/ linkCart[p] \in disturbed'
  PROVE  ParkedIsOwed'
<1>1. ASSUME NEW p \in items', Parked(p)'
      PROVE  linkCart'[p] \in disturbed' \/ \E r \in Requests : Owes(r, p)'
  <2>1. p \in items /\ Parked(p) /\ linkCart'[p] = linkCart[p]
    BY <1>1, OnlyThis DEF Parked
  <2>2. CASE linkCart[p] \in disturbed
    BY <2>1, <2>2, OnlyThis
  <2>3. ASSUME NEW r \in Requests, Owes(r, p)
        PROVE  linkCart'[p] \in disturbed' \/ \E q \in Requests : Owes(q, p)'
    BY <2>1, <2>3, DebtOfOthers
  <2>4. QED
    BY <2>1, <2>2, <2>3 DEF ParkedIsOwed
<1>2. ASSUME NEW r \in Requests, req'[r].pc = "insert", req'[r].at < 0
      PROVE  req'[r].cart \in disturbed'
  BY <1>2, OnlyThis DEF ParkedIsOwed
<1>3. QED
  BY <1>1, <1>2 DEF ParkedIsOwed

\* A park update makes a debt of the row it moves, a place update settles it; a
\* collision of either disturbs the cart.
LEMMA ParkedReorder ==
  ASSUME TypeOK, ParkedIsOwed, NEW s \in Requests, Park(s) \/ Place(s)
  PROVE  ParkedIsOwed'
<1> DEFINE c == req[s].cart
           l == req[s].list
           i == req[s].idx
           o == l[i]
<1>1. Progress(s) /\ Reordering(s) /\ c \in Carts
  BY DEF Progress, Park, Place, Reordering, TypeOK, WellFormed
<1>2. i \in DOMAIN l /\ o \in Range(l) /\ o \in Products
  BY DEF Park, Place, TypeOK, WellFormed, RequestRecord, Range
<1>3. CASE disturbed' = disturbed \cup {c} /\ req' = [req EXCEPT ![s].pc = "conflict"]
           /\ UNCHANGED <<pos, items>>
  <2>1. req'[s].pc = "conflict"
    BY <1>3 DEF TypeOK, RequestRecord
  <2>2. \A p \in items : Owes(s, p) => linkCart[p] = c
    BY DEF Owes, InFlight
  <2>3. QED
    BY <1>1, <1>3, <2>1, <2>2, NothingMoves
<1>4. CASE /\ pos' = IF o \in InCart(c)
                       THEN [pos EXCEPT ![o] = IF req[s].pc = "park" THEN ParkAt(i) ELSE PlaceAt(i)]
                       ELSE pos
           /\ req' = [req EXCEPT ![s].idx = @ + 1]
           /\ UNCHANGED <<disturbed, items, linkCart>>
  <2>1. /\ req'[s].pc = req[s].pc /\ req'[s].cart = c /\ req'[s].list = l
        /\ req'[s].idx = i + 1 /\ i \in Nat \ {0}
    BY <1>4 DEF TypeOK, RequestRecord, WellFormed
  <2>2. ASSUME NEW p \in items, Parked(p)'
        PROVE  linkCart'[p] \in disturbed' \/ \E r \in Requests : Owes(r, p)'
    <3>1. CASE p = o /\ o \in InCart(c)
      <4>1. pos'[p] = IF req[s].pc = "park" THEN ParkAt(i) ELSE PlaceAt(i)
        BY <1>2, <1>4, <3>1 DEF TypeOK
      <4>2. req[s].pc = "park"
        BY <2>1, <2>2, <4>1 DEF Parked, PlaceAt
      <4>3. Owes(s, p)'
        BY <1>1, <1>2, <1>4, <2>1, <3>1, <4>2 DEF Owes, InFlight, InCart, Running
      <4>4. QED
        BY <4>3
    <3>2. CASE ~(p = o /\ o \in InCart(c))
      <4>1. Parked(p)
        BY <1>2, <1>4, <2>2, <3>2 DEF Parked, TypeOK
      <4>2. ASSUME Owes(s, p) PROVE Owes(s, p)'
        <5>1. linkCart[p] = c /\ p # o
          BY <3>2, <4>2 DEF Owes, InFlight, InCart
        <5>2. CASE req[s].pc = "park"
          BY <1>4, <2>1, <4>2, <5>2 DEF Owes, InFlight
        <5>3. CASE req[s].pc = "place"
          <6>1. PICK j \in i .. Len(l) : l[j] = p
            BY <4>2, <5>3 DEF Owes
          <6>2. l \in Seq(Products)
            BY DEF TypeOK, RequestRecord
          <6>3. j \in (i + 1) .. Len(l)
            BY <2>1, <5>1, <6>1, <6>2
          <6>4. QED
            BY <1>4, <2>1, <4>2, <5>3, <6>1, <6>3 DEF Owes, InFlight
        <5>4. QED
          BY <1>1, <5>2, <5>3 DEF Reordering
      <4>3. QED
        BY <1>1, <1>4, <4>1, <4>2, DebtOfOthers DEF ParkedIsOwed
    <3>3. QED
      BY <3>1, <3>2
  <2>3. ASSUME NEW r \in Requests, req'[r].pc = "insert", req'[r].at < 0
        PROVE  req'[r].cart \in disturbed'
    <3>1. r # s
      BY <1>1, <2>1, <2>3 DEF Reordering
    <3>2. QED
      BY <1>1, <1>4, <2>3, <3>1, OnlyThis DEF ParkedIsOwed
  <2>4. QED
    BY <1>4, <2>2, <2>3 DEF ParkedIsOwed
<1>5. QED
  BY <1>3, <1>4 DEF Park, Place, ReorderCartItem, Goto

\* Every statement of an admitted request keeps ParkedIsOwed.
LEMMA ParkedProgress ==
  ASSUME TypeOK, ParkedIsOwed, NEW s \in Requests, Progress(s)
  PROVE  ParkedIsOwed'
<1>0. req[s] \in RequestRecord /\ WellFormed(s)
  BY DEF TypeOK
<1> USE DEF RequestRecord
<1>1. CASE CreateLink(s)
  <2>1. \A p \in items : ~Owes(s, p)
    BY <1>1 DEF CreateLink, Owes
  <2>2. req'[s].pc = "nextpos" /\ UNCHANGED <<items, pos>>
    BY <1>0, <1>1 DEF CreateLink, TypeOK
  <2> HIDE DEF RequestRecord
  <2>3. QED
    BY <2>1, <2>2, NothingMoves
<1>2. CASE NextCartItemPosition(s)
  <2> DEFINE c == req[s].cart
  <2>1. PICK x \in NextPosition(c) : req' = [req EXCEPT ![s].pc = "insert", ![s].at = x]
    BY <1>2 DEF NextCartItemPosition
  <2>2. req'[s].pc = "insert" /\ req'[s].at = x /\ req'[s].cart = c
    BY <1>0, <2>1 DEF TypeOK
  <2>3. \A p \in items : ~Owes(s, p)
    BY <1>2 DEF NextCartItemPosition, Owes
  <2>4. ASSUME x < 0 PROVE c \in disturbed'
    <3>1. PICK p \in InCart(c) : x = pos[p] + 1
      BY <2>1, <2>4 DEF NextPosition
    <3>2. Parked(p) /\ linkCart[p] = c
      BY <2>4, <3>1 DEF Parked, InCart, TypeOK
    <3>3. CASE c \in disturbed
      BY <3>3, OnlyThis
    <3>4. ASSUME NEW r \in Requests, Owes(r, p) PROVE c \in disturbed'
      BY <1>2, <3>2, <3>4 DEF NextCartItemPosition, Owes, Reordering
    <3>5. QED
      BY <3>2, <3>3, <3>4 DEF ParkedIsOwed, Parked
  <2>5. ASSUME NEW p \in items', Parked(p)'
        PROVE  linkCart'[p] \in disturbed' \/ \E r \in Requests : Owes(r, p)'
    <3>1. p \in items /\ Parked(p) /\ linkCart'[p] = linkCart[p]
      BY <1>2, <2>5 DEF NextCartItemPosition, Parked
    <3>2. QED
      BY <2>3, <3>1, DebtOfOthers, OnlyThis DEF ParkedIsOwed
  <2>6. ASSUME NEW r \in Requests, req'[r].pc = "insert", req'[r].at < 0
        PROVE  req'[r].cart \in disturbed'
    BY <2>2, <2>4, <2>6, OnlyThis DEF ParkedIsOwed
  <2>7. QED
    BY <2>5, <2>6 DEF ParkedIsOwed
<1>3. CASE AddCartItem(s)
  <2> DEFINE c == req[s].cart
             o == req[s].prod
  <2>1. /\ req'[s].pc # "insert" /\ o \in Products /\ linkCart[o] = c
        /\ UNCHANGED <<linkCart, disturbed>>
    BY <1>0, <1>3 DEF AddCartItem, Goto, TypeOK, WellFormed
  <2>2. \A p \in items : ~Owes(s, p)
    BY <1>3 DEF AddCartItem, Owes
  <2>3. ASSUME NEW p \in items', Parked(p)'
        PROVE  linkCart'[p] \in disturbed' \/ \E r \in Requests : Owes(r, p)'
    <3>1. CASE p \in items /\ Parked(p)
      BY <2>1, <2>2, <3>1, DebtOfOthers DEF ParkedIsOwed
    <3>2. CASE ~(p \in items /\ Parked(p))
      <4>1. p = o /\ pos'[o] = req[s].at
        BY <1>3, <2>1, <2>3, <3>2 DEF AddCartItem, Parked, TypeOK
      <4>2. QED
        BY <1>3, <2>1, <2>3, <4>1 DEF AddCartItem, Parked, ParkedIsOwed
    <3>3. QED
      BY <3>1, <3>2
  <2>4. ASSUME NEW r \in Requests, req'[r].pc = "insert", req'[r].at < 0
        PROVE  req'[r].cart \in disturbed'
    BY <2>1, <2>4, OnlyThis DEF ParkedIsOwed
  <2>5. QED
    BY <2>3, <2>4 DEF ParkedIsOwed
<1>4. CASE RemoveCartItem(s) \/ UpdateCartItem(s) \/ ArchiveCart(s) \/ AllPlaced(s) \/ Respond(s)
  <2>1. \A p \in items : ~Owes(s, p)
    BY <1>0, <1>4 DEF RemoveCartItem, UpdateCartItem, ArchiveCart, AllPlaced, Respond,
      Answered, Owes, WellFormed
  <2>2. req'[s].pc # "insert"
    BY <1>0, <1>4 DEF RemoveCartItem, UpdateCartItem, ArchiveCart, AllPlaced, Respond,
      Goto, Idle, TypeOK
  <2>3. items' \subseteq items /\ \A p \in items' : pos'[p] = pos[p]
    BY <1>4 DEF RemoveCartItem, UpdateCartItem, ArchiveCart, AllPlaced, Respond, TypeOK
  <2> HIDE DEF RequestRecord
  <2>4. QED
    BY <2>1, <2>2, <2>3, NothingMoves
<1>5. CASE AllParked(s)
  <2>1. /\ req'[s].pc = "place" /\ req'[s].idx = 1 /\ req'[s].list = req[s].list
        /\ req'[s].cart = req[s].cart /\ UNCHANGED <<items, pos, linkCart>>
    BY <1>0, <1>5 DEF AllParked, TypeOK
  <2>2. \A p \in items : Owes(s, p) => Owes(s, p)'
    <3> SUFFICES ASSUME NEW p \in items, Owes(s, p) PROVE Owes(s, p)'
      OBVIOUS
    <3>1. InFlight(s, linkCart[p]) /\ p \in Range(req[s].list)
      BY <1>5 DEF AllParked, Owes
    <3>2. PICK j \in DOMAIN req[s].list : req[s].list[j] = p
      BY <3>1 DEF Range
    <3>3. j \in 1 .. Len(req[s].list)
      BY <1>0
    <3>4. InFlight(s, linkCart[p])'
      BY <2>1, <3>1 DEF InFlight, Running
    <3> HIDE DEF RequestRecord
    <3>5. QED
      BY <2>1, <3>2, <3>3, <3>4 DEF Owes
  <2> HIDE DEF RequestRecord
  <2>3. QED
    BY <2>1, <2>2, NothingMoves
<1>6. QED
  BY <1>1, <1>2, <1>3, <1>4, <1>5, ParkedReorder DEF Progress

\* A reorder that stops half way disturbs its cart, any other request owes nothing.
LEMMA ParkedAbort ==
  ASSUME TypeOK, ParkedIsOwed, NEW s \in Requests, Abort(s)
  PROVE  ParkedIsOwed'
<1>1. req'[s].pc # "insert" /\ UNCHANGED <<items, pos>>
  BY DEF Abort, Idle, TypeOK
<1>2. \A p \in items : Owes(s, p) => linkCart[p] \in disturbed'
  BY DEF Abort, Owes, InFlight, Reordering
<1>3. QED
  BY <1>1, <1>2, NothingMoves

\* What the admission of a request changes.
LEMMA AdmitChanges ==
  ASSUME TypeOK, NEW r \in Requests, NEW u, NEW c, NEW call \in RequestRecord,
         Admit(r, u, c, call)
  PROVE  /\ UNCHANGED <<archived, linkCart, items, pos, text, disturbed>>
         /\ req[r] = Idle /\ req'[r].pc = call.pc /\ req'[r].list = call.list
         /\ req'[r].cart = c /\ req'[r].user = u /\ req'[r].idx = call.idx
         /\ req'[r].calm = CanBeCalm(c, call)
         /\ \A q \in Requests \ {r} :
              /\ req'[q].pc = req[q].pc /\ req'[q].cart = req[q].cart
              /\ req'[q].list = req[q].list /\ req'[q].idx = req[q].idx
              /\ req'[q].at = req[q].at /\ req'[q].user = req[q].user
              /\ req'[q].calm => req[q].calm /\ ~InFlight(q, c)
<1>1. req'[r] = [call EXCEPT !.user = u, !.cart = c, !.calm = CanBeCalm(c, call)]
  BY DEF Admit
<1>2. \A q \in Requests \ {r} :
        req'[q] = IF InFlight(q, c) THEN [req[q] EXCEPT !.calm = FALSE] ELSE req[q]
  BY DEF Admit
<1>3. \A q \in Requests : req[q] \in RequestRecord
  BY DEF TypeOK
<1>4. /\ req'[r].pc = call.pc /\ req'[r].list = call.list
      /\ req'[r].cart = c /\ req'[r].user = u /\ req'[r].idx = call.idx
      /\ req'[r].calm = CanBeCalm(c, call)
  BY <1>1 DEF RequestRecord
<1>5. ASSUME NEW q \in Requests \ {r}
      PROVE  /\ req'[q].pc = req[q].pc /\ req'[q].cart = req[q].cart
             /\ req'[q].list = req[q].list /\ req'[q].idx = req[q].idx
             /\ req'[q].at = req[q].at /\ req'[q].user = req[q].user
             /\ req'[q].calm => req[q].calm /\ ~InFlight(q, c)
  BY <1>2, <1>3 DEF RequestRecord
<1>6. QED
  BY <1>4, <1>5 DEF Admit

\* The record a call is admitted with.
CallOf(r, u, c, call) ==
  /\ Admit(r, u, c, call) /\ call.idx = 1
  /\ \/ call.pc \in {"link", "remove", "update", "archive"} /\ call.list = <<>>
     \/ call.pc = "park"
  /\ call.pc = "remove" => call.prod \in Products
  /\ call.pc = "park" /\ FreshLists => Lists(call.list, c) /\ IsInjective(call.list)

\* A call is refused or admitted with one of five kinds of records.
LEMMA CallIsAdmit ==
  ASSUME NEW r \in Requests, NEW u \in Users, NEW c \in Carts, Call(r, u, c), ~Refuse(r, u, c)
  PROVE  \E call \in RequestRecord : CallOf(r, u, c, call)
<1> USE IdleType DEF RequestRecord, PCs, Running, CallOf
<1>1. ASSUME NEW t \in Texts, StartAdd(r, u, c, t)
      PROVE  \E call \in RequestRecord : CallOf(r, u, c, call)
  <2> DEFINE call == [Idle EXCEPT !.pc = "link", !.text = t]
  <2>1. call \in RequestRecord /\ call.idx = 1 /\ call.pc = "link" /\ call.list = <<>>
    BY DEF Idle
  <2>2. Admit(r, u, c, call)
    BY <1>1 DEF StartAdd
  <2> HIDE DEF call
  <2>3. QED
    BY <2>1, <2>2
<1>2. ASSUME NEW p \in Products, StartRemove(r, u, c, p)
      PROVE  \E call \in RequestRecord : CallOf(r, u, c, call)
  <2> DEFINE call == [Idle EXCEPT !.pc = "remove", !.prod = p]
  <2>1. call \in RequestRecord /\ call.idx = 1 /\ call.pc = "remove" /\ call.list = <<>> /\ call.prod = p
    BY DEF Idle
  <2>2. Admit(r, u, c, call)
    BY <1>2 DEF StartRemove
  <2> HIDE DEF call
  <2>3. QED
    BY <2>1, <2>2
<1>3. ASSUME NEW p \in Products, NEW t \in Texts, StartUpdate(r, u, c, p, t)
      PROVE  \E call \in RequestRecord : CallOf(r, u, c, call)
  <2> DEFINE call == [Idle EXCEPT !.pc = "update", !.prod = p, !.text = t]
  <2>1. call \in RequestRecord /\ call.idx = 1 /\ call.pc = "update" /\ call.list = <<>>
    BY DEF Idle
  <2>2. Admit(r, u, c, call)
    BY <1>3 DEF StartUpdate
  <2> HIDE DEF call
  <2>3. QED
    BY <2>1, <2>2
<1>4. ASSUME StartDelete(r, u, c)
      PROVE  \E call \in RequestRecord : CallOf(r, u, c, call)
  <2> DEFINE call == [Idle EXCEPT !.pc = "archive"]
  <2>1. call \in RequestRecord /\ call.idx = 1 /\ call.pc = "archive" /\ call.list = <<>>
    BY DEF Idle
  <2>2. Admit(r, u, c, call)
    BY <1>4 DEF StartDelete
  <2> HIDE DEF call
  <2>3. QED
    BY <2>1, <2>2
<1>5. ASSUME NEW l \in ItemLists, StartReorder(r, u, c, l)
      PROVE  \E call \in RequestRecord : CallOf(r, u, c, call)
  <2> DEFINE call == [Idle EXCEPT !.pc = "park", !.list = l]
  <2>1. call \in RequestRecord /\ call.idx = 1 /\ call.pc = "park" /\ call.list = l
    BY ConstantsAssumption DEF Idle
  <2>2. Admit(r, u, c, call) /\ (FreshLists => Lists(l, c) /\ IsInjective(l))
    BY <1>5 DEF StartReorder
  <2> HIDE DEF call
  <2>3. QED
    BY <2>1, <2>2
<1> HIDE DEF RequestRecord, CallOf
<1>6. QED
  BY <1>1, <1>2, <1>3, <1>4, <1>5 DEF Call

\* A call moves no row and settles no debt.
LEMMA CallKeeps ==
  ASSUME TypeOK, NEW r \in Requests, NEW u \in Users, NEW c \in Carts, Call(r, u, c)
  PROVE  /\ UNCHANGED <<archived, linkCart, items, pos, text, disturbed>>
         /\ req[r] = Idle /\ req'[r].pc # "insert"
         /\ \A q \in Requests \ {r} :
              /\ req'[q].pc = req[q].pc /\ req'[q].cart = req[q].cart
              /\ req'[q].list = req[q].list /\ req'[q].idx = req[q].idx
              /\ req'[q].at = req[q].at
<1>1. CASE Refuse(r, u, c)
  BY <1>1 DEF Refuse, Idle, TypeOK
<1>2. CASE ~Refuse(r, u, c)
  <2>1. PICK call \in RequestRecord :
          Admit(r, u, c, call) /\ call.pc \in {"link", "remove", "update", "archive", "park"}
    BY <1>2, CallIsAdmit DEF CallOf
  <2>2. QED
    BY <2>1, AdmitChanges
<1>3. QED
  BY <1>1, <1>2

\* Hence it keeps ParkedIsOwed.
LEMMA ParkedCall ==
  ASSUME TypeOK, ParkedIsOwed, NEW r \in Requests, NEW u \in Users, NEW c \in Carts,
         Call(r, u, c)
  PROVE  ParkedIsOwed'
<1>1. \A p \in items : ~Owes(r, p)
  BY CallKeeps DEF Owes, Idle
<1>2. \A q \in Requests \ {r}, p \in items : Owes(q, p) => Owes(q, p)'
  BY CallKeeps, OwesKept
<1>3. QED
  BY <1>1, <1>2, CallKeeps DEF ParkedIsOwed, Parked

\* ParkedIsOwed is inductive relative to TypeOK.
LEMMA ParkedStep == TypeOK /\ ParkedIsOwed /\ [Next]_vars => ParkedIsOwed'
<1> SUFFICES ASSUME TypeOK, ParkedIsOwed, [Next]_vars PROVE ParkedIsOwed'
  OBVIOUS
<1>1. CASE UNCHANGED vars
  BY <1>1 DEF vars, ParkedIsOwed, Parked, Owes, InFlight
<1>2. CASE Next
  BY <1>2, ParkedCall, ParkedProgress, ParkedAbort DEF Next
<1>3. QED
  BY <1>1, <1>2

\* Negative positions are those a running reorder still has to overwrite; only an
\* interrupted reorder, or an add in the middle of one, leaves others behind.
THEOREM ParkedItemsAreOwed == Spec => []ParkedIsOwed
<1>1. Init => ParkedIsOwed
  BY DEF Init, ParkedIsOwed, Idle
<1>2. QED
  BY <1>1, TypeCorrect, ParkedStep, PTL DEF Spec
-----------------------------------------------------------------------------
(***************************************************************************)
(* Requests that have their cart to themselves.                            *)
(***************************************************************************)
\* A request touches the rows of its own cart only.
LEMMA OtherCarts ==
  ASSUME TypeOK, NEW s \in Requests, Progress(s) \/ Abort(s),
         NEW c \in Carts, ~InFlight(s, c)
  PROVE  /\ InCart(c)' = InCart(c)
         /\ \A p \in InCart(c) : pos'[p] = pos[p] /\ text'[p] = text[p]
<1>0. req[s] \in RequestRecord /\ WellFormed(s)
  BY DEF TypeOK
<1>1. CASE UNCHANGED <<items, pos, text>>
  BY <1>1, OnlyThis DEF InCart
<1>2. CASE AddCartItem(s)
  <2>1. req[s].cart # c
    BY <1>2 DEF AddCartItem, InFlight, Running
  <2>2. req[s].prod \in Products /\ linkCart[req[s].prod] = req[s].cart
    BY <1>0, <1>2 DEF AddCartItem, WellFormed
  <2>3. QED
    BY <1>2, <2>1, <2>2 DEF AddCartItem, InCart, TypeOK
<1>3. CASE RemoveCartItem(s)
  <2>1. req[s].cart # c
    BY <1>3 DEF RemoveCartItem, InFlight, Running
  <2>2. QED
    BY <1>3, <2>1 DEF RemoveCartItem, InCart, TypeOK
<1>4. CASE UpdateCartItem(s)
  <2>1. req[s].cart # c
    BY <1>4 DEF UpdateCartItem, InFlight, Running
  <2>2. QED
    BY <1>4, <2>1 DEF UpdateCartItem, InCart, TypeOK
<1>5. CASE Park(s) \/ Place(s)
  <2>1. req[s].cart # c
    BY <1>5 DEF Park, Place, InFlight, Running
  <2>2. QED
    BY <1>5, <2>1 DEF Park, Place, ReorderCartItem, InCart, TypeOK
<1>6. QED
  BY <1>1, <1>2, <1>3, <1>4, <1>5 DEF Progress, Abort, CreateLink, NextCartItemPosition,
    ArchiveCart, AllParked, AllPlaced, Respond

\* A request keeps its cart until it is idle again, and is not calm anew.
LEMMA StaysOnCart ==
  ASSUME TypeOK, NEW s \in Requests, Progress(s) \/ Abort(s)
  PROVE  \/ req'[s] = Idle
         \/ /\ req'[s].cart = req[s].cart /\ req'[s].list = req[s].list
            /\ req'[s].user = req[s].user /\ req'[s].calm = req[s].calm
            /\ req[s].pc \in Running
<1>1. req[s] \in RequestRecord
  BY DEF TypeOK
<1>2. CASE Respond(s) \/ Abort(s)
  BY <1>2 DEF Respond, Abort, TypeOK
<1>3. CASE ~(Respond(s) \/ Abort(s))
  BY <1>1, <1>3 DEF Progress, CreateLink, NextCartItemPosition, AddCartItem, RemoveCartItem,
    UpdateCartItem, ArchiveCart, Park, Place, ReorderCartItem, AllParked, AllPlaced,
    Goto, TypeOK, RequestRecord, Running
<1>4. QED
  BY <1>2, <1>3

\* The steps of the others leave a calm request as it is.
LEMMA CalmOther ==
  ASSUME TypeOK, NEW s \in Requests, Progress(s) \/ Abort(s),
         NEW r \in Requests \ {s}, CalmProgress(r)
  PROVE  CalmProgress(r)'
<1> DEFINE c == req[r].cart
<1>1. req'[r] = req[r] /\ c \in Carts /\ ~InFlight(s, c)
  BY OnlyThis DEF CalmProgress, InFlight, TypeOK, WellFormed, Running, Answered
<1>2. InCart(c)' = InCart(c) /\ \A p \in InCart(c) : pos'[p] = pos[p]
  BY <1>1, OtherCarts
<1>3. ~InFlight(s, c)'
  BY <1>1, StaysOnCart DEF InFlight, Idle, Running, Answered
<1>4. \A q \in Requests \ {r} : ~InFlight(q, c)'
  BY <1>1, <1>3, OnlyThis DEF CalmProgress, InFlight
<1>5. req[r].list \in Seq(Products)
  BY DEF TypeOK, RequestRecord
<1>6. Lists(req[r].list, c) =>
        \A j \in DOMAIN req[r].list : pos'[req[r].list[j]] = pos[req[r].list[j]]
  BY <1>2 DEF Lists, Range
<1>7. QED
  BY <1>1, <1>2, <1>4, <1>6 DEF CalmProgress, InFlight, Lists, Reordering

\* The part of CalmProgress that a request's own steps do not touch.
LEMMA CalmAlone ==
  ASSUME TypeOK, NEW s \in Requests, Progress(s), CalmProgress(s), req'[s] # Idle
  PROVE  /\ \A q \in Requests \ {s} : ~InFlight(q, req[s].cart)'
         /\ req'[s].cart = req[s].cart /\ req'[s].list = req[s].list
BY OnlyThis, StaysOnCart DEF CalmProgress, InFlight

\* A park or place update of a calm reorder finds its target position free and
\* advances the loop by one row.
LEMMA CalmReorder ==
  ASSUME TypeOK, NEW s \in Requests, Park(s) \/ Place(s), CalmProgress(s)
  PROVE  CalmProgress(s)'
<1> DEFINE c == req[s].cart
           l == req[s].list
           i == req[s].idx
           x == IF req[s].pc = "park" THEN ParkAt(i) ELSE PlaceAt(i)
<1>1. Progress(s) /\ Reordering(s)
  BY DEF Progress, Park, Place, Reordering
<1>2. /\ l \in Seq(Products) /\ i \in Nat \ {0} /\ pos \in [Products -> Int]
      /\ DOMAIN l = 1 .. Len(l) /\ Len(l) \in Nat
  BY DEF TypeOK, RequestRecord, WellFormed
<1>3. i \in DOMAIN l
  BY <1>2 DEF Park, Place
<1>4. /\ Lists(l, c) /\ IsInjective(l)
      /\ \A j \in DOMAIN l : l[j] \in InCart(c) /\ l[j] \in Products
  BY <1>1, <1>2 DEF CalmProgress, Lists, Range
<1>5. \A j, k \in DOMAIN l : j # k => l[j] # l[k]
  BY <1>4 DEF IsInjective
<1>6. \A j \in DOMAIN l \ {i} : pos[l[j]] # x
  <2>1. CASE req[s].pc = "park"
    BY <1>2, <1>3, <2>1 DEF CalmProgress, ParkAt
  <2>2. CASE req[s].pc = "place"
    BY <1>2, <1>3, <2>2 DEF CalmProgress, PlaceAt
  <2>3. QED
    BY <1>1, <2>1, <2>2 DEF Reordering
<1>7. ~Taken(c, l[i], x)
  <2>1. \A q \in InCart(c) : \E j \in DOMAIN l : l[j] = q
    BY <1>4 DEF Lists, Range
  <2>2. QED
    BY <1>6, <2>1 DEF Taken
<1>8. /\ pos' = [pos EXCEPT ![l[i]] = x] /\ req' = [req EXCEPT ![s].idx = @ + 1]
      /\ UNCHANGED <<items, linkCart>>
  BY <1>3, <1>4, <1>7 DEF Park, Place, ReorderCartItem
<1>9. /\ req'[s].pc = req[s].pc /\ req'[s].cart = c /\ req'[s].list = l /\ req'[s].idx = i + 1
  BY <1>8 DEF TypeOK, RequestRecord
<1>10. \A j \in DOMAIN l : pos'[l[j]] = IF j = i THEN x ELSE pos[l[j]]
  BY <1>2, <1>3, <1>4, <1>5, <1>8
<1>11. InCart(c)' = InCart(c) /\ \A q \in Requests \ {s} : ~InFlight(q, c)'
  BY <1>1, <1>8, <1>9, CalmAlone DEF InCart, Idle, Reordering
<1>12. req[s].pc = "park" =>
         \A j \in DOMAIN l : IF j < i + 1 THEN pos'[l[j]] = -j ELSE pos'[l[j]] >= 0
  <2> SUFFICES ASSUME req[s].pc = "park", NEW j \in DOMAIN l
               PROVE  IF j < i + 1 THEN pos'[l[j]] = -j ELSE pos'[l[j]] >= 0
    OBVIOUS
  <2>1. IF j < i THEN pos[l[j]] = -j ELSE pos[l[j]] >= 0
    BY DEF CalmProgress
  <2>2. pos'[l[j]] = IF j = i THEN -i ELSE pos[l[j]]
    BY <1>10 DEF ParkAt
  <2>3. j \in Nat /\ i \in Nat
    BY <1>2
  <2> HIDE DEF l, i
  <2>4. QED
    BY <2>1, <2>2, <2>3
<1>13. req[s].pc = "place" =>
         \A j \in DOMAIN l : pos'[l[j]] = IF j < i + 1 THEN j - 1 ELSE -j
  <2> SUFFICES ASSUME req[s].pc = "place", NEW j \in DOMAIN l
               PROVE  pos'[l[j]] = IF j < i + 1 THEN j - 1 ELSE -j
    OBVIOUS
  <2>1. pos[l[j]] = IF j < i THEN j - 1 ELSE -j
    BY DEF CalmProgress
  <2>2. pos'[l[j]] = IF j = i THEN i - 1 ELSE pos[l[j]]
    BY <1>10 DEF PlaceAt
  <2>3. j \in Nat /\ i \in Nat
    BY <1>2
  <2> HIDE DEF l, i
  <2>4. QED
    BY <2>1, <2>2, <2>3
<1>14. i + 1 <= Len(l) + 1
  BY <1>2, <1>3
<1>15. QED
  BY <1>1, <1>4, <1>9, <1>11, <1>12, <1>13, <1>14
     DEF CalmProgress, InFlight, Lists, Reordering, Running

\* A calm request's own statements keep CalmProgress.
LEMMA CalmSelf ==
  ASSUME TypeOK, NEW s \in Requests, Progress(s), CalmProgress(s), req'[s] # Idle
  PROVE  CalmProgress(s)'
<1> DEFINE c == req[s].cart
           l == req[s].list
<1>0. req[s] \in RequestRecord /\ WellFormed(s) /\ req \in [Requests -> RequestRecord]
  BY DEF TypeOK
<1>1. /\ \A q \in Requests \ {s} : ~InFlight(q, c)'
      /\ req'[s].cart = c /\ req'[s].list = l
  BY CalmAlone
<1>2. l \in Seq(Products) /\ DOMAIN l = 1 .. Len(l) /\ Len(l) \in Nat
  BY <1>0 DEF RequestRecord
<1>3. CASE CreateLink(s)
  <2>1. req'[s].pc = "nextpos" /\ l = <<>>
    BY <1>0, <1>3 DEF CreateLink, CalmProgress, RequestRecord, Running
  <2>2. QED
    BY <1>1, <2>1 DEF CalmProgress, InFlight, Reordering, Running
<1>4. CASE NextCartItemPosition(s)
  <2>1. PICK x \in NextPosition(c) : req' = [req EXCEPT ![s].pc = "insert", ![s].at = x]
    BY <1>4 DEF NextCartItemPosition
  <2>2. req'[s].pc = "insert" /\ req'[s].at = x /\ l = <<>>
    BY <1>0, <1>4, <2>1 DEF NextCartItemPosition, CalmProgress, RequestRecord, Running
  <2>3. \A p \in InCart(c) : pos[p] < x
    BY <2>1 DEF NextPosition
  <2>4. InCart(c)' = InCart(c) /\ pos' = pos
    BY <1>1, <1>4 DEF NextCartItemPosition, InCart
  <2>5. QED
    BY <1>1, <2>2, <2>3, <2>4 DEF CalmProgress, InFlight, Reordering, Running
<1>5. CASE AddCartItem(s)
  <2>1. l = <<>> /\ \A p \in InCart(c) : pos[p] < req[s].at
    BY <1>5 DEF AddCartItem, CalmProgress, Running
  <2>2. ~Taken(c, req[s].prod, req[s].at)
    BY <2>1, <1>0 DEF Taken, InCart, TypeOK, RequestRecord
  <2>3. req'[s].pc = "ok"
    BY <1>0, <1>5, <2>2 DEF AddCartItem, Goto, RequestRecord
  <2>4. QED
    BY <1>1, <2>1, <2>3 DEF CalmProgress, InFlight, Reordering, Running, Answered
<1>6. CASE RemoveCartItem(s) \/ UpdateCartItem(s) \/ ArchiveCart(s)
  <2>1. l = <<>>
    BY <1>6 DEF RemoveCartItem, UpdateCartItem, ArchiveCart, CalmProgress, Running
  <2>2. req'[s].pc \in {"ok", "norows"}
    BY <1>0, <1>6 DEF RemoveCartItem, UpdateCartItem, ArchiveCart, Goto, RequestRecord
  <2>3. QED
    BY <1>1, <2>1, <2>2 DEF CalmProgress, InFlight, Reordering, Running, Answered
<1>7. CASE AllParked(s)
  <2>1. /\ req'[s].pc = "place" /\ req'[s].idx = 1
        /\ InCart(c)' = InCart(c) /\ pos' = pos
    BY <1>0, <1>7 DEF AllParked, InCart, RequestRecord
  <2>2. Lists(l, c) /\ IsInjective(l) /\ \A j \in DOMAIN l : pos[l[j]] = -j
    BY <1>0, <1>2, <1>7 DEF AllParked, CalmProgress, Reordering, RequestRecord
  <2>3. QED
    BY <1>1, <1>2, <2>1, <2>2 DEF CalmProgress, InFlight, Lists, Reordering, Running
<1>8. CASE AllPlaced(s)
  <2>1. req'[s].pc = "ok" /\ InCart(c)' = InCart(c) /\ pos' = pos
    BY <1>0, <1>8 DEF AllPlaced, Goto, InCart, RequestRecord
  <2>2. Lists(l, c) /\ \A j \in DOMAIN l : pos[l[j]] = j - 1
    BY <1>0, <1>2, <1>8 DEF AllPlaced, CalmProgress, Reordering, RequestRecord
  <2>3. QED
    BY <1>1, <2>1, <2>2 DEF CalmProgress, InFlight, Lists, Reordering, Running, Answered
<1>9. CASE Respond(s)
  BY <1>0, <1>9 DEF Respond
<1>10. QED
  BY <1>3, <1>4, <1>5, <1>6, <1>7, <1>8, <1>9, CalmReorder DEF Progress

\* A call on a cart ends the calm of the others, and is calm itself only on a free
\* cart whose items it names.
LEMMA CalmCall ==
  ASSUME TypeOK, CalmInv, NEW r \in Requests, NEW u \in Users, NEW c \in Carts, Call(r, u, c)
  PROVE  CalmInv'
<1>1. CASE Refuse(r, u, c)
  <2>1. /\ ~req'[r].calm /\ req'[r].pc = "refused" /\ UNCHANGED <<items, linkCart, pos>>
        /\ \A q \in Requests \ {r} : req'[q] = req[q]
    BY <1>1 DEF Refuse, Idle, TypeOK
  <2>2. \A o \in Requests \ {r}, d \in Carts : InFlight(o, d)' = InFlight(o, d)
    BY <2>1 DEF InFlight
  <2>3. \A d : ~InFlight(r, d)'
    BY <2>1 DEF InFlight, Running, Answered
  <2>4. ASSUME NEW q \in Requests \ {r}, CalmProgress(q) PROVE CalmProgress(q)'
    <3>1. req[q].cart \in Carts
      BY <2>4 DEF CalmProgress, InFlight, Running, Answered, TypeOK, WellFormed
    <3>2. QED
      BY <2>1, <2>2, <2>3, <2>4, <3>1 DEF CalmProgress, Lists, InCart, Reordering
  <2>5. QED
    BY <2>1, <2>4 DEF CalmInv
<1>2. ASSUME NEW call \in RequestRecord, Admit(r, u, c, call), call.idx = 1,
             \/ call.pc \in {"link", "remove", "update", "archive"} /\ call.list = <<>>
             \/ call.pc = "park"
      PROVE  CalmInv'
  <2>1. UNCHANGED <<items, linkCart, pos>> /\ \A d : InCart(d)' = InCart(d)
    BY <1>2, AdmitChanges DEF InCart
  <2>2. \A q \in Requests \ {r}, d \in Carts : InFlight(q, d)' = InFlight(q, d)
    BY <1>2, AdmitChanges DEF InFlight
  <2>3. ASSUME req'[r].calm PROVE CalmProgress(r)'
    <3>1. CanBeCalm(c, call) /\ req'[r].cart = c /\ req'[r].pc = call.pc
          /\ req'[r].list = call.list /\ req'[r].idx = 1
      BY <1>2, <2>3, AdmitChanges
    <3>2. \A q \in Requests \ {r} : ~InFlight(q, c)'
      BY <2>2, <3>1 DEF CanBeCalm
    <3>3. CASE call.pc = "park"
      <4>1. /\ Lists(call.list, c) /\ IsInjective(call.list)
            /\ \A p \in InCart(c) : pos[p] >= 0
        BY <3>1, <3>3 DEF CanBeCalm
      <4>2. \A j \in DOMAIN call.list : call.list[j] \in InCart(c)
        BY <4>1 DEF Lists, Range
      <4>3. DOMAIN call.list = 1 .. Len(call.list) /\ Len(call.list) \in Nat
        BY DEF RequestRecord
      <4>4. QED
        BY <2>1, <3>1, <3>2, <3>3, <4>1, <4>2, <4>3
           DEF CalmProgress, InFlight, Lists, Reordering, Running
    <3>4. CASE call.pc \in {"link", "remove", "update", "archive"} /\ call.list = <<>>
      BY <3>1, <3>2, <3>4 DEF CalmProgress, InFlight, Reordering, Running
    <3>5. QED
      BY <1>2, <3>3, <3>4
  <2>4. ASSUME NEW q \in Requests \ {r}, req'[q].calm PROVE CalmProgress(q)'
    <3>1. /\ req[q].calm /\ ~InFlight(q, c) /\ req'[r].cart = c
          /\ req'[q].pc = req[q].pc /\ req'[q].cart = req[q].cart
          /\ req'[q].list = req[q].list /\ req'[q].idx = req[q].idx
          /\ req'[q].at = req[q].at
      BY <1>2, <2>4, AdmitChanges
    <3>2. CalmProgress(q) /\ req[q].cart # c /\ req[q].cart \in Carts
      BY <3>1 DEF CalmInv, CalmProgress, InFlight, Running, Answered, TypeOK, WellFormed
    <3>3. \A o \in Requests \ {q} : ~InFlight(o, req[q].cart)'
      BY <2>2, <3>1, <3>2 DEF CalmProgress, InFlight
    <3>4. QED
      BY <2>1, <3>1, <3>2, <3>3 DEF CalmProgress, InFlight, Lists, Reordering
  <2>5. QED
    BY <2>3, <2>4 DEF CalmInv
<1>3. QED
  BY <1>1, <1>2, CallIsAdmit DEF CallOf

\* CalmInv is inductive relative to TypeOK.
LEMMA CalmStep == TypeOK /\ CalmInv /\ [Next]_vars => CalmInv'
<1> SUFFICES ASSUME TypeOK, CalmInv, [Next]_vars PROVE CalmInv'
  OBVIOUS
<1>1. CASE UNCHANGED vars
  BY <1>1 DEF vars, CalmInv, CalmProgress, InFlight, InCart, Lists, Reordering
<1>2. ASSUME NEW s \in Requests, Progress(s) \/ Abort(s) PROVE CalmInv'
  <2>1. ASSUME NEW r \in Requests \ {s}, req'[r].calm PROVE CalmProgress(r)'
    BY <1>2, <2>1, OnlyThis, CalmOther DEF CalmInv
  <2>2. ASSUME req'[s].calm PROVE CalmProgress(s)'
    <3>1. req'[s] # Idle /\ Progress(s)
      BY <1>2, <2>2 DEF Idle, Abort, TypeOK
    <3>2. req[s].calm
      BY <2>2, <3>1, StaysOnCart
    <3>3. QED
      BY <3>1, <3>2, CalmSelf DEF CalmInv
  <2>3. QED
    BY <2>1, <2>2 DEF CalmInv
<1>3. QED
  BY <1>1, <1>2, CalmCall DEF Next

\* A request that had its cart to itself finds the positions as its own statements
\* left them.
THEOREM CalmRequestsAreExact == Spec => []CalmInv
<1>1. Init => CalmInv
  BY DEF Init, CalmInv, Idle
<1>2. QED
  BY <1>1, TypeCorrect, CalmStep, PTL DEF Spec

\* Hence it never meets UNIQUE(cart_id, position).
THEOREM CalmRequestsDoNotConflict == Spec => []CalmNeverConflicts
<1>1. CalmInv => CalmNeverConflicts
  BY DEF CalmInv, CalmProgress, CalmNeverConflicts
<1>2. QED
  BY <1>1, CalmRequestsAreExact, PTL

\* And a reorder leaves exactly the list it was sent, at positions 0, 1, 2...
THEOREM CalmReordersAreExact == Spec => []CalmReorderExact
<1>1. CalmInv => CalmReorderExact
  BY DEF CalmInv, CalmProgress, CalmReorderExact
<1>2. QED
  BY <1>1, CalmRequestsAreExact, PTL
-----------------------------------------------------------------------------
(***************************************************************************)
(* Who may change a cart, and when.                                        *)
(***************************************************************************)
\* Rows(c) depends on the items, links, positions and texts of c only.
LEMMA SameRows ==
  ASSUME NEW c, InCart(c)' = InCart(c),
         \A p \in InCart(c) : pos'[p] = pos[p] /\ text'[p] = text[p]
  PROVE  Rows(c)' = Rows(c)
BY DEF Rows

\* An admitted request runs for the account that owns its cart.
OwnerInv ==
  \A r \in Requests : req[r].pc \in Running \cup Answered => req[r].user = Owner[req[r].cart]

\* An admitted request is one of the owner of its cart.
LEMMA OwnerStep == TypeOK /\ OwnerInv /\ [Next]_vars => OwnerInv'
<1> SUFFICES ASSUME TypeOK, OwnerInv, [Next]_vars PROVE OwnerInv'
  OBVIOUS
<1> USE DEF OwnerInv
<1>1. CASE UNCHANGED vars
  BY <1>1 DEF vars
<1>2. ASSUME NEW r \in Requests, NEW u \in Users, NEW c \in Carts, Call(r, u, c)
      PROVE  OwnerInv'
  <2>1. CASE Refuse(r, u, c)
    BY <2>1 DEF Refuse, Idle, TypeOK, Running, Answered
  <2>2. CASE ~Refuse(r, u, c)
    <3>1. PICK call \in RequestRecord : Admit(r, u, c, call)
      BY <1>2, <2>2, CallIsAdmit DEF CallOf
    <3>2. Owner[c] = u
      BY <3>1 DEF Admit
    <3>3. QED
      BY <3>1, <3>2, AdmitChanges
  <2>3. QED
    BY <2>1, <2>2
<1>3. ASSUME NEW s \in Requests, Progress(s) \/ Abort(s) PROVE OwnerInv'
  <2>1. Idle.pc \notin Running \cup Answered
    BY DEF Idle, Running, Answered
  <2>2. QED
    BY <1>3, <2>1, OnlyThis, StaysOnCart
<1>4. QED
  BY <1>1, <1>2, <1>3 DEF Next

\* The rows of a cart change only by running requests of its owner.
THEOREM OnlyTheOwnerChanges == Spec => OnlyOwnerChanges
<1> DEFINE A == \A c \in Carts : Rows(c)' # Rows(c) =>
                  \E r \in Requests : /\ InFlight(r, c) /\ req[r].pc \in Running
                                      /\ req[r].user = Owner[c]
<1>1. Init => OwnerInv
  BY DEF Init, OwnerInv, Idle, Running, Answered
<1>2. TypeOK /\ OwnerInv /\ [Next]_vars => [A]_vars
  <2> SUFFICES ASSUME TypeOK, OwnerInv, Next, NEW c \in Carts, Rows(c)' # Rows(c)
               PROVE  \E r \in Requests : /\ InFlight(r, c) /\ req[r].pc \in Running
                                          /\ req[r].user = Owner[c]
    OBVIOUS
  <2>1. ASSUME NEW r \in Requests, NEW u \in Users, NEW d \in Carts, Call(r, u, d)
        PROVE  FALSE
    BY <2>1, CallKeeps, SameRows DEF InCart
  <2>2. PICK s \in Requests : Progress(s) \/ Abort(s)
    BY <2>1 DEF Next
  <2>3. InFlight(s, c)
    BY <2>2, OtherCarts, SameRows
  <2>4. CASE Respond(s)
    BY <2>4, SameRows DEF Respond, InCart
  <2>5. CASE ~Respond(s)
    <3>1. req[s].pc \in Running
      BY <2>2, <2>5 DEF Progress, Abort, CreateLink, NextCartItemPosition, AddCartItem,
        RemoveCartItem, UpdateCartItem, ArchiveCart, Park, Place, AllParked, AllPlaced, Running
    <3>2. QED
      BY <2>3, <3>1 DEF OwnerInv, InFlight
  <2>6. QED
    BY <2>4, <2>5
<1> HIDE DEF A
<1>3. Spec => [][A]_vars
  BY <1>1, <1>2, TypeCorrect, OwnerStep, PTL DEF Spec
<1>4. QED
  BY <1>3 DEF OnlyOwnerChanges, A

\* An archived cart without admitted requests never gets one and keeps its rows.
THEOREM ArchivedCartsComeToRest == Spec => ArchivedComesToRest
<1> DEFINE A == \A c \in Carts : AtRest(c) => AtRest(c)' /\ Rows(c)' = Rows(c)
<1>1. TypeOK /\ [Next]_vars => [A]_vars
  <2> SUFFICES ASSUME TypeOK, Next, NEW c \in Carts, AtRest(c)
               PROVE  AtRest(c)' /\ Rows(c)' = Rows(c)
    OBVIOUS
  <2>1. ASSUME NEW r \in Requests, NEW u \in Users, NEW d \in Carts, Call(r, u, d)
        PROVE  AtRest(c)' /\ Rows(c)' = Rows(c)
    <3>1. Rows(c)' = Rows(c) /\ archived' = archived
      BY <2>1, CallKeeps, SameRows DEF InCart
    <3>2. \A q \in Requests \ {r} : ~InFlight(q, c)'
      BY <2>1, CallKeeps DEF AtRest, InFlight
    <3>3. ~InFlight(r, c)'
      <4>1. CASE Refuse(r, u, d)
        BY <4>1 DEF Refuse, InFlight, Idle, TypeOK, Running, Answered
      <4>2. CASE ~Refuse(r, u, d)
        <5>1. PICK call \in RequestRecord : Admit(r, u, d, call)
          BY <2>1, <4>2, CallIsAdmit DEF CallOf
        <5>2. d # c
          BY <5>1 DEF Admit, GetCartByID, AtRest
        <5> HIDE DEF A
        <5>3. req'[r].cart = d
          BY <5>1, AdmitChanges
        <5>4. QED
          BY <5>2, <5>3 DEF InFlight
      <4>3. QED
        BY <4>1, <4>2
    <3>4. QED
      BY <3>1, <3>2, <3>3 DEF AtRest
  <2>2. ASSUME NEW s \in Requests, Progress(s) \/ Abort(s)
        PROVE  AtRest(c)' /\ Rows(c)' = Rows(c)
    <3>1. Rows(c)' = Rows(c)
      BY <2>2, OtherCarts, SameRows DEF AtRest
    <3>2. ~InFlight(s, c)'
      BY <2>2, StaysOnCart DEF AtRest, InFlight, Idle, Running, Answered
    <3>3. \A q \in Requests \ {s} : ~InFlight(q, c)'
      BY <2>2, OnlyThis DEF AtRest, InFlight
    <3>4. archived \subseteq archived'
      BY <2>2 DEF Progress, Abort, CreateLink, NextCartItemPosition, AddCartItem,
        RemoveCartItem, UpdateCartItem, ArchiveCart, Park, Place, ReorderCartItem,
        AllParked, AllPlaced, Respond
    <3>5. QED
      BY <3>1, <3>2, <3>3, <3>4 DEF AtRest
  <2>3. QED
    BY <2>1, <2>2 DEF Next
<1> HIDE DEF A
<1>2. Spec => [][A]_vars
  BY <1>1, TypeCorrect, PTL DEF Spec
<1>3. QED
  BY <1>2 DEF ArchivedComesToRest, A
-----------------------------------------------------------------------------
(***************************************************************************)
(* Lists by position: ORDER BY position ASC, for every finite cart.        *)
(***************************************************************************)
\* s has the members of S by the numbers f gives them, each once.
Sorts(s, S, f) ==
  /\ s \in [1 .. Cardinality(S) -> S]
  /\ \A p \in S : \E i \in 1 .. Cardinality(S) : s[i] = p
  /\ \A i, j \in 1 .. Cardinality(S) : i < j => f[s[i]] < f[s[j]]

\* There is one such list, and it is the Listing.
LEMMA SortsIsListing ==
  ASSUME NEW S, IsFiniteSet(S), NEW f, \A p \in S : f[p] \in Int, NEW s, Sorts(s, S, f)
  PROVE  Listing(S, f) = s
<1> DEFINE n == Cardinality(S)
           below(p) == {q \in S : f[q] < f[p]}
<1>1. n \in Nat
  BY FS_CardinalityType
<1>2. /\ s \in [1 .. n -> S]
      /\ \A p \in S : \E i \in 1 .. n : s[i] = p
      /\ \A i, j \in 1 .. n : i < j => f[s[i]] < f[s[j]]
  BY DEF Sorts
<1> HIDE DEF n
<1>3. ASSUME NEW i \in 1 .. n PROVE Cardinality(below(s[i])) = i - 1
  <2> DEFINE g == [j \in 1 .. i - 1 |-> s[j]]
  <2>1. ASSUME NEW j \in 1 .. i - 1 PROVE j \in 1 .. n /\ j < i
    BY <1>1
  <2>2. g \in [1 .. i - 1 -> below(s[i])]
    BY <1>2, <2>1
  <2>3. ASSUME NEW j \in 1 .. i - 1, NEW k \in 1 .. i - 1, g[j] = g[k] PROVE j = k
    <3>1. s[j] = s[k] /\ f[s[j]] \in Int
      BY <1>2, <2>1, <2>3
    <3>2. ~(j < k) /\ ~(k < j)
      BY <1>2, <2>1, <3>1
    <3> QED
      BY <3>2
  <2>4. ASSUME NEW q \in below(s[i]) PROVE \E j \in 1 .. i - 1 : g[j] = q
    <3>1. PICK j \in 1 .. n : s[j] = q
      BY <1>2
    <3>2. f[s[j]] < f[s[i]] /\ f[s[i]] \in Int /\ f[s[j]] \in Int
      BY <1>2, <3>1
    <3>3. ~(i < j) /\ i # j
      BY <1>2, <3>2
    <3>4. j \in 1 .. i - 1
      BY <3>3
    <3> QED
      BY <3>1, <3>4
  <2>5. i - 1 \in Nat
    OBVIOUS
  <2>6. g \in Bijection(1 .. i - 1, below(s[i]))
    <3> HIDE DEF g
    <3>1. IsInjective(g)
      BY <2>2, <2>3 DEF IsInjective
    <3> QED
      BY <2>2, <2>4, <3>1 DEF Bijection, Injection, Surjection
  <2>7. ExistsBijection(1 .. i - 1, below(s[i]))
    BY <2>6 DEF ExistsBijection
  <2> HIDE DEF g, below
  <2> QED
    BY <2>5, <2>7, FS_CountingElements
<1>4. ASSUME NEW i \in 1 .. n
      PROVE  (CHOOSE p \in S : Cardinality(below(p)) = i - 1) = s[i]
  <2>1. s[i] \in S /\ Cardinality(below(s[i])) = i - 1
    BY <1>2, <1>3
  <2>2. ASSUME NEW p \in S, Cardinality(below(p)) = i - 1 PROVE p = s[i]
    <3>1. PICK k \in 1 .. n : s[k] = p
      BY <1>2
    <3>2. k - 1 = i - 1
      BY <1>3, <2>2, <3>1
    <3> QED
      BY <3>1, <3>2
  <2> HIDE DEF below
  <2> QED
    BY <2>1, <2>2
<1>5. Listing(S, f) = [i \in 1 .. n |-> CHOOSE p \in S : Cardinality(below(p)) = i - 1]
  BY DEF Listing, n
<1> HIDE DEF below
<1> QED
  BY <1>2, <1>4, <1>5

\* With distinct numbers the Listing is such a list.
LEMMA ListingSorts ==
  ASSUME NEW S, IsFiniteSet(S), NEW f, \A p \in S : f[p] \in Int,
         \A p, q \in S : p # q => f[p] # f[q]
  PROVE  Sorts(Listing(S, f), S, f)
<1> DEFINE n == Cardinality(S)
           below(p) == {q \in S : f[q] < f[p]}
           rank(p) == Cardinality(below(p))
           l == Listing(S, f)
<1>1. n \in Nat
  BY FS_CardinalityType
<1>2. ASSUME NEW p \in S PROVE IsFiniteSet(below(p)) /\ rank(p) \in Nat /\ rank(p) < n
  <2>1. below(p) \in SUBSET (S \ {p})
    OBVIOUS
  <2>2. IsFiniteSet(S \ {p}) /\ Cardinality(S \ {p}) = n - 1
    BY FS_RemoveElement
  <2> HIDE DEF below, n
  <2>3. IsFiniteSet(below(p)) /\ Cardinality(below(p)) <= n - 1
    BY <2>1, <2>2, FS_Subset
  <2>4. Cardinality(below(p)) \in Nat
    BY <2>3, FS_CardinalityType
  <2> QED
    BY <1>1, <2>3, <2>4
<1>11. ASSUME NEW p \in S PROVE rank(p) + 1 \in 1 .. n /\ \E i \in 1 .. n : i - 1 = rank(p)
  <2>1. rank(p) \in Nat /\ rank(p) < n
    BY <1>2
  <2> HIDE DEF rank, n
  <2> QED
    BY <1>1, <2>1
<1>3. ASSUME NEW p \in S, NEW q \in S, f[p] < f[q] PROVE rank(p) < rank(q)
  <2>1. below(p) \in SUBSET below(q) /\ p \in below(q) /\ p \notin below(p)
    BY <1>3
  <2>2. IsFiniteSet(below(q)) /\ rank(p) \in Nat /\ rank(q) \in Nat
    BY <1>2
  <2> HIDE DEF below
  <2>3. rank(p) <= rank(q) /\ (rank(q) = rank(p) => below(q) = below(p))
    BY <2>1, <2>2, FS_Subset
  <2> QED
    BY <2>1, <2>2, <2>3
<1>4. ASSUME NEW p \in S, NEW q \in S, rank(p) = rank(q) PROVE p = q
  <2>1. ~(f[p] < f[q]) /\ ~(f[q] < f[p])
    <3>1. rank(p) \in Nat /\ rank(q) \in Nat
      BY <1>2
    <3> HIDE DEF rank
    <3> QED
      BY <1>3, <1>4, <3>1
  <2> QED
    BY <2>1
<1>5. ASSUME NEW i \in 1 .. n PROVE \E p \in S : rank(p) = i - 1
  <2> DEFINE g == [p \in S |-> rank(p) + 1]
  <2>1. g \in [S -> 1 .. n]
    <3>1. \A p \in S : rank(p) + 1 \in 1 .. n
      BY <1>11
    <3> QED
      BY <3>1
  <2>2. ASSUME NEW p \in S, NEW q \in S, g[p] = g[q] PROVE p = q
    <3>1. rank(p) + 1 = rank(q) + 1 /\ rank(p) \in Nat /\ rank(q) \in Nat
      BY <1>2, <2>2
    <3>2. rank(p) = rank(q)
      <4> HIDE DEF rank
      <4> QED
        BY <3>1
    <3> QED
      BY <1>4, <3>2
  <2> HIDE DEF g
  <2>3. g \in Injection(S, 1 .. n)
    BY <2>1, <2>2 DEF Injection, IsInjective
  <2>4. IsFiniteSet(1 .. n) /\ Cardinality(1 .. n) = n
    <3> HIDE DEF n
    <3> QED
      BY <1>1, FS_Interval
  <2>5. g \in Surjection(S, 1 .. n)
    <3>1. Cardinality(S) = Cardinality(1 .. n)
      BY <2>4
    <3> HIDE DEF n
    <3> QED
      BY <2>3, <2>4, <3>1, FS_Injection
  <2>6. PICK p \in S : g[p] = i
    BY <2>5 DEF Surjection
  <2>7. rank(p) + 1 = i /\ rank(p) \in Nat
    BY <1>2, <2>6 DEF g
  <2> HIDE DEF rank
  <2>8. rank(p) = i - 1
    BY <2>7
  <2> QED
    BY <2>8
<1>6. l = [i \in 1 .. n |-> CHOOSE p \in S : rank(p) = i - 1]
  BY DEF Listing
<1> HIDE DEF rank, l, n
<1>7. ASSUME NEW i \in 1 .. n PROVE l[i] \in S /\ rank(l[i]) = i - 1
  BY <1>5, <1>6
<1>8. l \in [1 .. n -> S]
  BY <1>6, <1>7
<1>9. ASSUME NEW p \in S PROVE \E i \in 1 .. n : l[i] = p
  <2>1. PICK i \in 1 .. n : i - 1 = rank(p)
    BY <1>11
  <2>2. l[i] \in S /\ rank(l[i]) = rank(p)
    BY <1>7, <2>1
  <2>3. l[i] = p
    BY <1>4, <2>2
  <2> QED
    BY <2>1, <2>3
<1>10. ASSUME NEW i \in 1 .. n, NEW j \in 1 .. n, i < j PROVE f[l[i]] < f[l[j]]
  <2>1. l[i] \in S /\ l[j] \in S /\ rank(l[i]) = i - 1 /\ rank(l[j]) = j - 1
    BY <1>7
  <2>2. ~(f[l[j]] < f[l[i]])
    BY <1>3, <1>10, <2>1
  <2>3. l[i] # l[j]
    BY <1>10, <2>1
  <2>4. f[l[i]] # f[l[j]] /\ f[l[i]] \in Int /\ f[l[j]] \in Int
    BY <2>1, <2>3
  <2> QED
    BY <2>2, <2>4
<1> QED
  BY <1>8, <1>9, <1>10 DEF Sorts, n, l

\* A member with the greatest number goes to the end.
LEMMA SortsAppend ==
  ASSUME NEW S, IsFiniteSet(S), NEW f, \A p \in S : f[p] \in Int, NEW s, Sorts(s, S, f),
         NEW p, p \notin S, NEW h, \A q \in S : h[q] = f[q] /\ f[q] < h[p]
  PROVE  Sorts(Append(s, p), S \cup {p}, h)
<1> DEFINE n == Cardinality(S)
           T == S \cup {p}
           t == Append(s, p)
<1>1. n \in Nat /\ Cardinality(T) = n + 1
  BY FS_CardinalityType, FS_AddElement
<1>2. /\ s \in [1 .. n -> S]
      /\ \A q \in S : \E i \in 1 .. n : s[i] = q
      /\ \A i, j \in 1 .. n : i < j => f[s[i]] < f[s[j]]
  BY DEF Sorts
<1> HIDE DEF n
<1>3. s \in Seq(T) /\ Len(s) = n
  BY <1>1, <1>2
<1>4. /\ t \in Seq(T) /\ Len(t) = n + 1
      /\ \A i \in 1 .. n : t[i] = s[i]
      /\ t[n + 1] = p
  <2> DEFINE U == T
  <2>1. s \in Seq(U) /\ p \in U
    BY <1>3
  <2> HIDE DEF U
  <2>2. /\ Append(s, p) \in Seq(U) /\ Len(Append(s, p)) = Len(s) + 1
        /\ \A i \in 1 .. Len(s) : Append(s, p)[i] = s[i]
        /\ Append(s, p)[Len(s) + 1] = p
    BY <2>1, AppendProperties
  <2> QED
    BY <1>3, <2>2 DEF U
<1> HIDE DEF t
<1>5. /\ \A i \in 1 .. n : t[i] = s[i] /\ t[i] \in S
      /\ t[n + 1] = p
  BY <1>1, <1>2, <1>4
<1>6. \A i \in 1 .. n + 1 : i \in 1 .. n \/ i = n + 1
  BY <1>1
<1>7. t \in [1 .. n + 1 -> T]
  BY <1>1, <1>4
<1>8. ASSUME NEW q \in T PROVE \E i \in 1 .. n + 1 : t[i] = q
  <2>1. CASE q = p
    BY <1>1, <1>5, <2>1
  <2>2. CASE q \in S
    <3>1. PICK i \in 1 .. n : s[i] = q
      BY <1>2, <2>2
    <3>2. i \in 1 .. n + 1 /\ t[i] = q
      BY <1>1, <1>5, <3>1
    <3> QED
      BY <3>2
  <2> QED
    BY <2>1, <2>2
<1>9. ASSUME NEW i \in 1 .. n + 1, NEW j \in 1 .. n + 1, i < j PROVE h[t[i]] < h[t[j]]
  <2>1. i \in 1 .. n
    BY <1>1, <1>9
  <2>2. t[i] = s[i] /\ s[i] \in S /\ h[s[i]] = f[s[i]]
    BY <1>5, <2>1
  <2>3. CASE j = n + 1
    BY <1>5, <2>2, <2>3
  <2>4. CASE j \in 1 .. n
    <3>1. t[j] = s[j] /\ s[j] \in S /\ h[s[j]] = f[s[j]]
      BY <1>5, <2>4
    <3> QED
      BY <1>2, <1>9, <2>1, <2>2, <2>4, <3>1
  <2> QED
    BY <1>6, <2>3, <2>4
<1>10. /\ t \in [1 .. Cardinality(T) -> T]
       /\ \A q \in T : \E i \in 1 .. Cardinality(T) : t[i] = q
       /\ \A i, j \in 1 .. Cardinality(T) : i < j => h[t[i]] < h[t[j]]
  BY <1>1, <1>7, <1>8, <1>9
<1> QED
  BY <1>10 DEF Sorts, t

\* RemoveAt leaves the others in their order.
LEMMA SortsRemove ==
  ASSUME NEW S, IsFiniteSet(S), NEW f, NEW s, Sorts(s, S, f),
         NEW k \in 1 .. Cardinality(S), NEW h, \A q \in S \ {s[k]} : h[q] = f[q],
         \A p \in S : f[p] \in Int
  PROVE  Sorts(Promise!RemoveAt(s, k), S \ {s[k]}, h)
<1> DEFINE n == Cardinality(S)
           T == S \ {s[k]}
           t == Promise!RemoveAt(s, k)
<1>1. n \in Nat /\ n > 0 /\ k \in 1 .. n
  BY FS_CardinalityType
<1>2. /\ s \in [1 .. n -> S]
      /\ \A q \in S : \E i \in 1 .. n : s[i] = q
      /\ \A i, j \in 1 .. n : i < j => f[s[i]] < f[s[j]]
  BY DEF Sorts
<1>3. Cardinality(T) = n - 1
  BY <1>2, FS_RemoveElement
<1> HIDE DEF n
<1>4. s \in Seq(S) /\ Len(s) = n
  BY <1>1, <1>2
<1>5. /\ Len(t) = n - 1 /\ t \in Seq(S)
      /\ \A i \in 1 .. n - 1 : t[i] = s[IF i < k THEN i ELSE i + 1]
  <2> DEFINE front == SubSeq(s, 1, k - 1)
             back == SubSeq(s, k + 1, n)
  <2>1. /\ front \in Seq(S) /\ Len(front) = k - 1
        /\ \A i \in 1 .. k - 1 : front[i] = s[i]
    BY <1>1, <1>2, <1>4
  <2>2. /\ back \in Seq(S) /\ Len(back) = n - k
        /\ \A i \in 1 .. n - k : back[i] = s[k + i]
    BY <1>1, <1>2, <1>4
  <2>3. t = front \o back
    BY <1>4 DEF Promise!RemoveAt
  <2> HIDE DEF front, back, t
  <2>4. /\ t \in Seq(S) /\ Len(t) = (k - 1) + (n - k)
        /\ \A i \in 1 .. (k - 1) + (n - k) : t[i] = IF i <= k - 1 THEN front[i] ELSE back[i - (k - 1)]
    <3>1. /\ front \o back \in Seq(S) /\ Len(front \o back) = Len(front) + Len(back)
          /\ \A i \in 1 .. Len(front) + Len(back) :
               (front \o back)[i] = IF i <= Len(front) THEN front[i] ELSE back[i - Len(front)]
      BY <2>1, <2>2, ConcatProperties
    <3> QED
      BY <2>1, <2>2, <2>3, <3>1
  <2>5. (k - 1) + (n - k) = n - 1
    BY <1>1
  <2>6. ASSUME NEW i \in 1 .. n - 1 PROVE t[i] = s[IF i < k THEN i ELSE i + 1]
    <3>1. CASE i < k
      <4>1. i \in 1 .. k - 1 /\ i <= k - 1
        BY <1>1, <3>1
      <4> QED
        BY <2>1, <2>4, <2>5, <3>1, <4>1
    <3>2. CASE ~(i < k)
      <4>1. i - (k - 1) \in 1 .. n - k /\ k + (i - (k - 1)) = i + 1 /\ ~(i <= k - 1)
        BY <1>1, <3>2
      <4> QED
        BY <2>2, <2>4, <2>5, <3>2, <4>1
    <3> QED
      BY <3>1, <3>2
  <2> QED
    BY <2>4, <2>5, <2>6
<1> HIDE DEF t
<1> DEFINE old(i) == IF i < k THEN i ELSE i + 1
<1>6. ASSUME NEW i \in 1 .. n - 1 PROVE old(i) \in 1 .. n /\ old(i) # k /\ t[i] = s[old(i)]
  <2>1. old(i) \in 1 .. n /\ old(i) # k
    BY <1>1
  <2> QED
    BY <1>5, <2>1
<1>7. \A i, j \in 1 .. n - 1 : i < j => old(i) < old(j)
  BY <1>1
<1>8. \A j \in 1 .. n : j # k => \E i \in 1 .. n - 1 : old(i) = j
  <2> SUFFICES ASSUME NEW j \in 1 .. n, j # k PROVE \E i \in 1 .. n - 1 : old(i) = j
    OBVIOUS
  <2>1. CASE j < k
    <3>1. j \in 1 .. n - 1 /\ old(j) = j
      BY <1>1, <2>1
    <3> QED
      BY <3>1
  <2>2. CASE j > k
    <3>1. j - 1 \in 1 .. n - 1 /\ old(j - 1) = j
      BY <1>1, <2>2
    <3> QED
      BY <3>1
  <2> QED
    BY <1>1, <2>1, <2>2
<1> HIDE DEF old
<1>9. ASSUME NEW i \in 1 .. n, NEW j \in 1 .. n, i # j PROVE s[i] # s[j]
  <2>1. i < j \/ j < i
    BY <1>9
  <2>2. f[s[i]] < f[s[j]] \/ f[s[j]] < f[s[i]]
    BY <1>2, <2>1
  <2>3. f[s[i]] \in Int /\ f[s[j]] \in Int
    BY <1>2
  <2> QED
    BY <2>2, <2>3
<1>10. ASSUME NEW i \in 1 .. n - 1 PROVE t[i] \in T
  BY <1>1, <1>2, <1>6, <1>9
<1>11. t \in [1 .. n - 1 -> T]
  BY <1>1, <1>5, <1>10
<1>12. ASSUME NEW q \in T PROVE \E i \in 1 .. n - 1 : t[i] = q
  <2>1. PICK j \in 1 .. n : s[j] = q
    BY <1>2
  <2>2. PICK i \in 1 .. n - 1 : old(i) = j
    BY <1>8, <2>1
  <2> QED
    BY <1>6, <2>1, <2>2
<1>13. ASSUME NEW i \in 1 .. n - 1, NEW j \in 1 .. n - 1, i < j PROVE h[t[i]] < h[t[j]]
  <2>1. old(i) \in 1 .. n /\ old(j) \in 1 .. n /\ old(i) < old(j) /\ t[i] = s[old(i)] /\ t[j] = s[old(j)]
    BY <1>6, <1>7, <1>13
  <2>2. h[t[i]] = f[t[i]] /\ h[t[j]] = f[t[j]]
    BY <1>10
  <2> QED
    BY <1>2, <2>1, <2>2
<1>14. /\ t \in [1 .. Cardinality(T) -> T]
       /\ \A q \in T : \E i \in 1 .. Cardinality(T) : t[i] = q
       /\ \A i, j \in 1 .. Cardinality(T) : i < j => h[t[i]] < h[t[j]]
  BY <1>3, <1>11, <1>12, <1>13
<1> QED
  BY <1>14 DEF Sorts, t

\* A list of all members whose numbers are their places.
LEMMA SortsPlaced ==
  ASSUME NEW S, IsFiniteSet(S), NEW s \in Seq(S), IsInjective(s), Range(s) = S
  PROVE  /\ Len(s) = Cardinality(S)
         /\ \A f : (\A j \in DOMAIN s : f[s[j]] = j - 1) => Sorts(s, S, f)
<1> DEFINE n == Len(s)
<1>1. n \in Nat /\ s \in [1 .. n -> S] /\ DOMAIN s = 1 .. n
  BY SeqDef, LenProperties
<1> HIDE DEF n
<1>2. \A q \in S : \E i \in 1 .. n : s[i] = q
  BY <1>1 DEF Range
<1>3. s \in Bijection(1 .. n, S)
  BY <1>1, <1>2 DEF Bijection, Injection, Surjection
<1>4. ExistsBijection(1 .. n, S)
  BY <1>3 DEF ExistsBijection
<1>5. Cardinality(S) = n
  BY <1>1, <1>4, FS_CountingElements
<1>6. ASSUME NEW f, \A j \in DOMAIN s : f[s[j]] = j - 1 PROVE Sorts(s, S, f)
  <2>1. \A i, j \in 1 .. n : i < j => f[s[i]] < f[s[j]]
    BY <1>1, <1>6
  <2> QED
    BY <1>1, <1>2, <1>5, <2>1 DEF Sorts
<1> QED
  BY <1>5, <1>6 DEF n

-----------------------------------------------------------------------------
(***************************************************************************)
(* Requests that are apart: no two admitted requests for the same cart.    *)
(***************************************************************************)
\* No two admitted requests are for the same cart.
NoOverlap == \A c \in Carts : \A q, r \in Requests : InFlight(q, c) /\ InFlight(r, c) => q = r

\* UNIQUE(cart_id, position)
RowsAreDistinct == \A p, q \in items : linkCart[p] = linkCart[q] /\ p # q => pos[p] # pos[q]

\* Every statement that sets a position checks it against the other rows of the cart.
LEMMA DistinctStep == TypeOK /\ RowsAreDistinct /\ [Next]_vars => RowsAreDistinct'
<1> SUFFICES ASSUME TypeOK, RowsAreDistinct, [Next]_vars PROVE RowsAreDistinct'
  OBVIOUS
<1>1. CASE UNCHANGED <<linkCart, items, pos>>
  BY <1>1 DEF RowsAreDistinct
<1>2. ASSUME NEW s \in Requests, CreateLink(s) PROVE RowsAreDistinct'
  <2>1. items' = items /\ pos' = pos
    BY <1>2 DEF CreateLink
  <2>2. \A p \in items : linkCart'[p] = linkCart[p]
    BY <1>2, OnlyThis DEF Progress
  <2> QED
    BY <2>1, <2>2 DEF RowsAreDistinct
<1>3. ASSUME NEW s \in Requests, AddCartItem(s) PROVE RowsAreDistinct'
  <2> DEFINE c == req[s].cart
             p == req[s].prod
             x == req[s].at
  <2>1. p \in Products /\ linkCart[p] = c /\ linkCart' = linkCart
    BY <1>3 DEF AddCartItem, TypeOK, WellFormed
  <2>2. CASE Taken(c, p, x)
    BY <1>3, <2>1, <2>2 DEF AddCartItem, RowsAreDistinct
  <2>3. CASE ~Taken(c, p, x)
    <3>1. items' = items \cup {p} /\ pos' = [pos EXCEPT ![p] = x]
      BY <1>3, <2>3 DEF AddCartItem
    <3>2. \A q \in items \ {p} : linkCart[q] = c => pos[q] # x
      BY <2>3 DEF Taken, InCart
    <3>3. pos'[p] = x /\ \A q \in items \ {p} : pos'[q] = pos[q]
      BY <2>1, <3>1 DEF TypeOK
    <3> HIDE DEF c, p, x
    <3> QED
      BY <2>1, <3>1, <3>2, <3>3 DEF RowsAreDistinct
  <2> QED
    BY <2>2, <2>3
<1>4. ASSUME NEW s \in Requests, RemoveCartItem(s) PROVE RowsAreDistinct'
  <2>1. items' \subseteq items /\ linkCart' = linkCart
    BY <1>4 DEF RemoveCartItem
  <2>2. \A q \in items' : pos'[q] = pos[q]
    BY <1>4 DEF RemoveCartItem, TypeOK
  <2> QED
    BY <2>1, <2>2 DEF RowsAreDistinct
<1>5. ASSUME NEW s \in Requests, NEW x, ReorderCartItem(s, x) PROVE RowsAreDistinct'
  <2> DEFINE c == req[s].cart
             p == req[s].list[req[s].idx]
  <2>1. items' = items /\ linkCart' = linkCart
    BY <1>5 DEF ReorderCartItem
  <2>2. CASE UNCHANGED pos
    BY <2>1, <2>2 DEF RowsAreDistinct
  <2>3. CASE p \in InCart(c) /\ ~Taken(c, p, x)
    <3>1. pos' = [pos EXCEPT ![p] = x] /\ p \in items /\ linkCart[p] = c
      BY <1>5, <2>3 DEF ReorderCartItem, InCart
    <3>2. \A q \in items \ {p} : linkCart[q] = c => pos[q] # x
      BY <2>3 DEF Taken, InCart
    <3>3. pos'[p] = x /\ \A q \in items \ {p} : pos'[q] = pos[q]
      BY <3>1 DEF TypeOK
    <3> HIDE DEF c, p
    <3> QED
      BY <2>1, <3>1, <3>2, <3>3 DEF RowsAreDistinct
  <2> QED
    BY <1>5, <2>2, <2>3 DEF ReorderCartItem
<1>6. ASSUME NEW s \in Requests, Progress(s) PROVE RowsAreDistinct'
  BY <1>1, <1>2, <1>3, <1>4, <1>5, <1>6
     DEF Progress, NextCartItemPosition, UpdateCartItem, ArchiveCart, Park, Place, AllParked, AllPlaced, Respond
<1>7. ASSUME NEW s \in Requests, Abort(s) PROVE RowsAreDistinct'
  BY <1>1, <1>7 DEF Abort
<1>8. ASSUME NEW r \in Requests, NEW u \in Users, NEW c \in Carts, Call(r, u, c) PROVE RowsAreDistinct'
  BY <1>1, <1>8, CallKeeps
<1> QED
  BY <1>1, <1>6, <1>7, <1>8 DEF Next, vars

\* The rows stay finitely many.
LEMMA FiniteStep == TypeOK /\ IsFiniteSet(items) /\ [Next]_vars => IsFiniteSet(items')
<1> SUFFICES ASSUME TypeOK, IsFiniteSet(items), [Next]_vars PROVE IsFiniteSet(items')
  OBVIOUS
<1>1. CASE items' \subseteq items
  BY <1>1, FS_Subset
<1>2. ASSUME NEW p, items' = items \cup {p} PROVE IsFiniteSet(items')
  BY <1>2, FS_AddElement
<1>3. ASSUME NEW s \in Requests, Progress(s) PROVE IsFiniteSet(items')
  BY <1>1, <1>2, <1>3
     DEF Progress, CreateLink, NextCartItemPosition, AddCartItem, RemoveCartItem, UpdateCartItem,
         ArchiveCart, Park, Place, ReorderCartItem, AllParked, AllPlaced, Respond
<1>4. ASSUME NEW s \in Requests, Abort(s) PROVE IsFiniteSet(items')
  BY <1>1, <1>4 DEF Abort
<1>5. ASSUME NEW r \in Requests, NEW u \in Users, NEW c \in Carts, Call(r, u, c) PROVE IsFiniteSet(items')
  BY <1>1, <1>5, CallKeeps
<1> QED
  BY <1>1, <1>3, <1>4, <1>5 DEF Next, vars

\* Without overlap, faults and stale lists every admitted request is calm, no cart is
\* disturbed, and the product of an add has no row yet.
Undisturbed ==
  /\ disturbed = {}
  /\ \A r \in Requests : req[r].pc \in Running \cup Answered => req[r].calm
  /\ \A r \in Requests : req[r].pc \in {"nextpos", "insert"} => req[r].prod \notin items

\* The admission of a request that has its cart to itself.
LEMMA UndisturbedCall ==
  ASSUME TypeOK, ParkedIsOwed, Undisturbed, NoOverlap', FreshLists,
         NEW r \in Requests, NEW u \in Users, NEW c \in Carts, Call(r, u, c)
  PROVE  Undisturbed'
<1>1. CASE Refuse(r, u, c)
  <2>1. /\ req'[r].pc = "refused" /\ UNCHANGED <<items, disturbed>>
        /\ \A q \in Requests \ {r} : req'[q] = req[q]
    BY <1>1 DEF Refuse, Idle, TypeOK
  <2> QED
    BY <2>1 DEF Undisturbed, Running, Answered
<1>2. CASE ~Refuse(r, u, c)
  <2>0. PICK call \in RequestRecord :
          /\ Admit(r, u, c, call)
          /\ call.pc \in {"link", "remove", "update", "archive", "park"}
          /\ call.pc = "park" => Lists(call.list, c) /\ IsInjective(call.list)
    BY <1>2, CallIsAdmit DEF CallOf
  <2>1. /\ UNCHANGED <<linkCart, items, pos, disturbed>>
        /\ req[r] = Idle /\ req'[r].pc = call.pc /\ req'[r].cart = c
        /\ req'[r].calm = CanBeCalm(c, call)
        /\ \A q \in Requests \ {r} : req'[q].pc = req[q].pc /\ req'[q].cart = req[q].cart
    BY <2>0, AdmitChanges
  <2>2. InFlight(r, c)'
    BY <2>0, <2>1 DEF InFlight, Running
  <2>3. \A q \in Requests \ {r} : ~InFlight(q, c)
    BY <2>1, <2>2 DEF NoOverlap, InFlight
  <2>4. \A q \in Requests : ~InFlight(q, c)
    BY <2>1, <2>3 DEF InFlight, Idle, Running, Answered
  <2>5. \A p \in InCart(c) : pos[p] >= 0
    <3> SUFFICES ASSUME NEW p \in InCart(c), ~(pos[p] >= 0) PROVE FALSE
      OBVIOUS
    <3>1. p \in items /\ linkCart[p] = c /\ pos[p] \in Int
      BY DEF InCart, TypeOK
    <3>2. Parked(p)
      BY <3>1 DEF Parked
    <3>3. \E q \in Requests : Owes(q, p)
      BY <3>1, <3>2 DEF ParkedIsOwed, Undisturbed
    <3> QED
      BY <2>4, <3>1, <3>3 DEF Owes
  <2>6. CanBeCalm(c, call)
    BY <2>0, <2>4, <2>5 DEF CanBeCalm
  <2>7. ASSUME NEW q \in Requests \ {r} PROVE req'[q] = req[q]
    BY <2>0, <2>3 DEF Admit
  <2>8. req'[r].pc \notin {"nextpos", "insert"}
    BY <2>0, <2>1
  <2> QED
    BY <2>1, <2>6, <2>7, <2>8 DEF Undisturbed
<1> QED
  BY <1>1, <1>2

\* Without overlap no statement of a request finds its position taken or joins a reorder.
LEMMA UndisturbedProgress ==
  ASSUME TypeOK, CalmInv, CalmInv', Undisturbed, NoOverlap, NEW s \in Requests, Progress(s)
  PROVE  Undisturbed'
<1> DEFINE c == req[s].cart
<1>1. /\ req[s] \in RequestRecord /\ WellFormed(s) /\ req \in [Requests -> RequestRecord]
      /\ \A q \in Requests \ {s} : req'[q] = req[q]
  BY OnlyThis DEF TypeOK
<1>2. req[s].pc \in Running => InFlight(s, c) /\ c \in Carts /\ req[s].calm
  BY <1>1 DEF InFlight, WellFormed, Undisturbed, Running
<1>3. req'[s].pc \in Running \cup Answered => req'[s].calm
  <2>1. req'[s] = Idle \/ req'[s].calm
    BY <1>2, StaysOnCart
  <2> QED
    BY <2>1 DEF Idle, Running, Answered
<1>4. req'[s].pc # "conflict"
  BY <1>3 DEF CalmInv, CalmProgress, Answered
<1>5. disturbed' = {}
  <2>1. CASE NextCartItemPosition(s)
    <3>1. req[s].pc = "nextpos" /\ InFlight(s, c) /\ c \in Carts
      BY <1>2, <2>1 DEF NextCartItemPosition, Running
    <3>2. ~\E q \in Requests : InFlight(q, c) /\ Reordering(q)
      BY <3>1 DEF NoOverlap, Reordering
    <3> QED
      BY <2>1, <3>2 DEF NextCartItemPosition, Undisturbed
  <2>2. ASSUME NEW x, ReorderCartItem(s, x) PROVE disturbed' = {}
    <3>1. Goto(s, "conflict") => req'[s].pc = "conflict"
      BY <1>1 DEF Goto, RequestRecord
    <3> QED
      BY <1>4, <2>2, <3>1 DEF ReorderCartItem, Undisturbed
  <2> QED
    BY <2>1, <2>2 DEF Undisturbed, Progress, CreateLink, AddCartItem, RemoveCartItem, UpdateCartItem,
         ArchiveCart, Park, Place, AllParked, AllPlaced, Respond
<1>6. ASSUME NEW q \in Requests, req'[q].pc \in {"nextpos", "insert"} PROVE req'[q].prod \notin items'
  <2>1. CASE CreateLink(s)
    <3>1. PICK p \in Unused : req' = [req EXCEPT ![s].pc = "nextpos", ![s].prod = p]
      BY <2>1 DEF CreateLink
    <3>2. p \notin items /\ items' = items
      BY <2>1, <3>1 DEF CreateLink, Unused, TypeOK
    <3>3. CASE q = s
      <4>1. req'[s].prod = p
        BY <1>1, <3>1 DEF RequestRecord
      <4> QED
        BY <3>2, <3>3, <4>1
    <3>4. CASE q # s
      BY <1>1, <1>6, <3>2, <3>4 DEF Undisturbed
    <3> QED
      BY <3>3, <3>4
  <2>2. CASE NextCartItemPosition(s)
    <3>1. PICK x : req' = [req EXCEPT ![s].pc = "insert", ![s].at = x]
      BY <2>2 DEF NextCartItemPosition
    <3>2. req'[s].prod = req[s].prod /\ req[s].pc = "nextpos" /\ items' = items
      BY <1>1, <2>2, <3>1 DEF NextCartItemPosition, RequestRecord
    <3> QED
      BY <1>1, <1>6, <3>2 DEF Undisturbed
  <2>3. CASE AddCartItem(s)
    <3>1. /\ req[s].pc = "insert" /\ items' \subseteq items \cup {req[s].prod}
          /\ req'[s].pc \in {"ok", "conflict"}
      BY <1>1, <2>3 DEF AddCartItem, Goto, RequestRecord
    <3>2. q # s /\ req'[q] = req[q] /\ req[q].pc \in {"nextpos", "insert"} /\ req[q].prod \notin items
      BY <1>1, <1>6, <3>1 DEF Undisturbed
    <3>3. linkCart[req[q].prod] = req[q].cart /\ linkCart[req[s].prod] = req[s].cart /\ req[q].cart \in Carts
      BY <3>1, <3>2 DEF TypeOK, WellFormed
    <3>4. req[q].prod # req[s].prod
      <4>1. ASSUME req[q].prod = req[s].prod PROVE FALSE
        <5>1. InFlight(q, c) /\ InFlight(s, c) /\ c \in Carts
          BY <3>1, <3>2, <3>3, <4>1 DEF InFlight, Running
        <5> QED
          BY <3>2, <5>1 DEF NoOverlap
      <4> QED
        BY <4>1
    <3> QED
      BY <3>1, <3>2, <3>4
  <2>4. CASE ~(CreateLink(s) \/ NextCartItemPosition(s) \/ AddCartItem(s))
    <3>1. items' \subseteq items
      BY <2>4 DEF Progress, RemoveCartItem, UpdateCartItem, ArchiveCart, Park, Place, ReorderCartItem,
           AllParked, AllPlaced, Respond
    <3>2. req'[s].pc \notin {"nextpos", "insert"}
      BY <1>1, <2>4 DEF Progress, RemoveCartItem, UpdateCartItem, ArchiveCart, Park, Place,
           ReorderCartItem, AllParked, AllPlaced, Respond, Goto, RequestRecord, Idle
    <3> QED
      BY <1>1, <1>6, <3>1, <3>2 DEF Undisturbed
  <2> QED
    BY <2>1, <2>2, <2>3, <2>4
<1>7. \A q \in Requests : req'[q].pc \in Running \cup Answered => req'[q].calm
  BY <1>1, <1>3 DEF Undisturbed
<1> QED
  BY <1>5, <1>6, <1>7 DEF Undisturbed

\* Undisturbed is inductive while no two requests hold one cart.
LEMMA UndisturbedStep ==
  ASSUME FreshLists, ~Faults
  PROVE  TypeOK /\ ParkedIsOwed /\ CalmInv /\ CalmInv' /\ Undisturbed /\ NoOverlap /\ NoOverlap' /\ [Next]_vars
           => Undisturbed'
<1> SUFFICES ASSUME TypeOK, ParkedIsOwed, CalmInv, CalmInv', Undisturbed, NoOverlap, NoOverlap', [Next]_vars
             PROVE  Undisturbed'
  OBVIOUS
<1>1. CASE UNCHANGED vars
  BY <1>1 DEF vars, Undisturbed
<1>2. \A s \in Requests : ~Abort(s)
  BY DEF Abort
<1> QED
  BY <1>1, <1>2, UndisturbedCall, UndisturbedProgress DEF Next

-----------------------------------------------------------------------------
(***************************************************************************)
(* The rows of a cart as the list of CartOrder.                            *)
(***************************************************************************)
\* What a cart shows while a reorder runs in it, and otherwise, before and after a step.
LEMMA ShownIs ==
  ASSUME NEW c \in Carts
  PROVE  /\ Movers(c) = {} => Shown(c) = ListCartItems(c)
         /\ (Movers(c) = {})' => Shown(c)' = Listing(InCart(c)', pos')
         /\ NoOverlap => \A r \in Movers(c) : Shown(c) = req[r].list
         /\ NoOverlap' => \A r \in Movers(c)' : Shown(c)' = req'[r].list
<1>1. /\ Movers(c) = {} => Shown(c) = ListCartItems(c)
      /\ (Movers(c) = {})' => Shown(c)' = Listing(InCart(c)', pos')
  BY DEF Shown, ListCartItems
<1>2. ASSUME NoOverlap, NEW r \in Movers(c) PROVE Shown(c) = req[r].list
  <2>1. \A q \in Movers(c) : q = r
    BY <1>2 DEF NoOverlap, Movers
  <2>2. (CHOOSE q \in Movers(c) : TRUE) = r
    BY <2>1
  <2> QED
    BY <2>2 DEF Shown
<1>3. ASSUME NoOverlap', NEW r \in Movers(c)' PROVE Shown(c)' = req'[r].list
  <2>1. \A q \in Movers(c)' : q = r
    BY <1>3 DEF NoOverlap, Movers
  <2>2. (CHOOSE q \in Movers(c)' : TRUE) = r
    BY <2>1
  <2> QED
    BY <2>2 DEF Shown
<1> QED
  BY <1>1, <1>2, <1>3

\* What the proof below needs of a state.
Quiet ==
  /\ TypeOK /\ ParkedIsOwed /\ CalmInv /\ RowsAreDistinct
  /\ IsFiniteSet(items) /\ Undisturbed

\* ORDER BY position lists the items of a cart, each once, by their positions.
LEMMA ListFacts ==
  ASSUME Quiet, NEW c \in Carts
  PROVE  /\ IsFiniteSet(InCart(c))
         /\ \A p \in InCart(c) : pos[p] \in Int
         /\ Sorts(ListCartItems(c), InCart(c), pos)
<1>1. IsFiniteSet(InCart(c))
  BY FS_Subset DEF Quiet, InCart
<1>2. \A p \in InCart(c) : pos[p] \in Int
  BY DEF Quiet, InCart, TypeOK
<1>3. \A p, q \in InCart(c) : p # q => pos[p] # pos[q]
  BY DEF Quiet, InCart, RowsAreDistinct
<1> QED
  BY <1>1, <1>2, <1>3, ListingSorts DEF ListCartItems

\* A reorder that runs has the items of its cart as its list, each once.
LEMMA MoverFacts ==
  ASSUME Quiet, NEW c \in Carts, NEW r \in Movers(c)
  PROVE  /\ r \in Requests /\ req[r].cart = c /\ CalmProgress(r)
         /\ req[r].list \in Seq(InCart(c)) /\ IsInjective(req[r].list)
         /\ Range(req[r].list) = InCart(c)
<1>1. r \in Requests /\ InFlight(r, c) /\ Reordering(r) /\ req[r].list \in Seq(Products)
  BY DEF Movers, Quiet, TypeOK, RequestRecord
<1>2. CalmProgress(r) /\ req[r].cart = c
  BY <1>1 DEF InFlight, Quiet, Undisturbed, CalmInv
<1>3. Range(req[r].list) = InCart(c) /\ IsInjective(req[r].list)
  BY <1>1, <1>2 DEF CalmProgress, Lists
<1>4. req[r].list \in Seq(InCart(c))
  BY <1>1, <1>3 DEF Range
<1> QED
  BY <1>1, <1>2, <1>3, <1>4

\* The list has the products of the cart, each once.
LEMMA ShownFacts ==
  ASSUME Quiet, NoOverlap, NEW c \in Carts
  PROVE  /\ Shown(c) \in [1 .. Cardinality(InCart(c)) -> InCart(c)]
         /\ DOMAIN Shown(c) = 1 .. Cardinality(InCart(c))
         /\ Range(Shown(c)) = InCart(c)
<1>1. ASSUME NEW s \in [1 .. Cardinality(InCart(c)) -> InCart(c)],
             \A p \in InCart(c) : \E i \in 1 .. Cardinality(InCart(c)) : s[i] = p
      PROVE  Range(s) = InCart(c)
  BY <1>1 DEF Range
<1>2. CASE Movers(c) = {}
  <2>1. Shown(c) = ListCartItems(c) /\ Sorts(ListCartItems(c), InCart(c), pos)
    BY <1>2, ShownIs, ListFacts
  <2> QED
    BY <1>1, <2>1 DEF Sorts
<1>3. ASSUME NEW r \in Movers(c)
      PROVE  /\ Shown(c) \in [1 .. Cardinality(InCart(c)) -> InCart(c)]
             /\ Range(Shown(c)) = InCart(c)
  <2>1. /\ Shown(c) = req[r].list /\ IsFiniteSet(InCart(c))
        /\ req[r].list \in Seq(InCart(c)) /\ IsInjective(req[r].list)
        /\ Range(req[r].list) = InCart(c)
    BY ShownIs, ListFacts, MoverFacts
  <2>2. Len(Shown(c)) = Cardinality(InCart(c))
    BY <2>1, SortsPlaced
  <2>3. Shown(c) \in [1 .. Len(Shown(c)) -> InCart(c)]
    BY <2>1, SeqDef, LenProperties
  <2> QED
    BY <2>1, <2>2, <2>3
<1> QED
  BY <1>2, <1>3

\* A list whose products keep their positions stays, unless a reorder of it begins or ends.
LEMMA ShownKept ==
  ASSUME Quiet, NoOverlap, NoOverlap', NEW c \in Carts,
         InCart(c)' = InCart(c), \A p \in InCart(c) : pos'[p] = pos[p],
         Movers(c)' = Movers(c), \A r \in Movers(c) : req'[r].list = req[r].list
  PROVE  Shown(c)' = Shown(c)
<1>1. CASE Movers(c) = {}
  <2> DEFINE S == InCart(c)
             l == ListCartItems(c)
  <2>1. /\ IsFiniteSet(S) /\ \A p \in S : pos[p] \in Int
        /\ Sorts(l, S, pos)
    BY ListFacts
  <2>2. Sorts(l, S, pos')
    BY <2>1 DEF Sorts
  <2>3. \A p \in S : pos'[p] \in Int
    BY <2>1
  <2>4. Shown(c) = l /\ Shown(c)' = Listing(S, pos')
    BY <1>1, ShownIs
  <2> HIDE DEF S, l
  <2> QED
    BY <2>1, <2>2, <2>3, <2>4, SortsIsListing
<1>2. ASSUME NEW r \in Movers(c) PROVE Shown(c)' = Shown(c)
  BY ShownIs
<1> QED
  BY <1>1, <1>2

\* A request shows in the cart it holds only, and what the others have left to do stays.
LEMMA ProgressFrame ==
  ASSUME Quiet, NoOverlap, NoOverlap', NEW s \in Requests, Progress(s)
  PROVE  /\ \A q \in Requests \ {s} : Remaining(q)' = Remaining(q)
         /\ \A d \in Carts : ~InFlight(s, d) => Shown(d)' = Shown(d)
<1>1. TypeOK /\ \A q \in Requests \ {s} : req'[q] = req[q]
  BY OnlyThis DEF Quiet
<1>2. \A q \in Requests \ {s} : Remaining(q)' = Remaining(q)
  BY <1>1 DEF Remaining
<1>3. ASSUME NEW d \in Carts, ~InFlight(s, d) PROVE Shown(d)' = Shown(d)
  <2>1. InCart(d)' = InCart(d) /\ \A p \in InCart(d) : pos'[p] = pos[p]
    BY <1>1, <1>3, OtherCarts
  <2>2. ~InFlight(s, d)'
    BY <1>1, <1>3, StaysOnCart DEF InFlight, Idle, Running, Answered
  <2>3. Movers(d)' = Movers(d) /\ \A r \in Movers(d) : req'[r].list = req[r].list
    BY <1>1, <1>3, <2>2 DEF Movers, InFlight, Reordering
  <2> QED
    BY <2>1, <2>3, ShownKept
<1> QED
  BY <1>2, <1>3

\* An admission shows in no other cart, and in its own only if it is a reorder's.
LEMMA CallFrame ==
  ASSUME Quiet, NoOverlap, NoOverlap', NEW r \in Requests, NEW u \in Users, NEW c \in Carts, Call(r, u, c)
  PROVE  /\ \A q \in Requests \ {r} : Remaining(q)' = Remaining(q)
         /\ \A d \in Carts \ {c} : Shown(d)' = Shown(d)
         /\ ~Reordering(r)' => Shown(c)' = Shown(c)
<1>0. TypeOK
  BY DEF Quiet
<1>1. /\ UNCHANGED <<items, pos, linkCart>> /\ req[r] = Idle
      /\ \A q \in Requests \ {r} : /\ req'[q].pc = req[q].pc /\ req'[q].cart = req[q].cart
                                   /\ req'[q].list = req[q].list
  BY <1>0, CallKeeps
<1>2. \A q \in Requests \ {r} : req'[q].prod = req[q].prod
  <2>1. CASE Refuse(r, u, c)
    BY <1>0, <2>1 DEF Refuse, TypeOK
  <2>2. CASE ~Refuse(r, u, c)
    <3>1. PICK call \in RequestRecord : Admit(r, u, c, call)
      BY <2>2, CallIsAdmit DEF CallOf
    <3> QED
      BY <1>0, <3>1 DEF Admit, TypeOK, RequestRecord
  <2> QED
    BY <2>1, <2>2
<1>3. \A q \in Requests \ {r} : Remaining(q)' = Remaining(q)
  BY <1>1, <1>2 DEF Remaining
<1>4. req'[r].cart = c
  <2>1. CASE Refuse(r, u, c)
    BY <1>0, <2>1 DEF Refuse, TypeOK, Idle
  <2>2. CASE ~Refuse(r, u, c)
    <3>1. PICK call \in RequestRecord : Admit(r, u, c, call)
      BY <2>2, CallIsAdmit DEF CallOf
    <3> QED
      BY <1>0, <3>1, AdmitChanges
  <2> QED
    BY <2>1, <2>2
<1>5. ASSUME NEW d \in Carts, d # c \/ ~Reordering(r)' PROVE Shown(d)' = Shown(d)
  <2>1. InCart(d)' = InCart(d)
    BY <1>1 DEF InCart
  <2>2. r \notin Movers(d) /\ r \notin Movers(d)'
    BY <1>1, <1>4, <1>5 DEF Movers, InFlight, Reordering, Idle
  <2>3. \A q \in Requests \ {r} : q \in Movers(d)' <=> q \in Movers(d)
    BY <1>1 DEF Movers, InFlight, Reordering
  <2>4. Movers(d)' = Movers(d)
    BY <2>2, <2>3 DEF Movers
  <2>5. \A q \in Movers(d) : req'[q].list = req[q].list
    BY <1>1, <2>2 DEF Movers
  <2> QED
    BY <1>1, <2>1, <2>4, <2>5, ShownKept
<1> QED
  BY <1>3, <1>5

-----------------------------------------------------------------------------
(***************************************************************************)
(* The steps of CartOrder, one request and one cart at a time.             *)
(***************************************************************************)
\* Request r and cart c are all that a step shows.
OnlyShows(r, c) ==
  /\ \A q \in Requests \ {r} : Remaining(q)' = Remaining(q)
  /\ \A d \in Carts \ {c} : Shown(d)' = Shown(d)

\* A step that keeps what its request has left to do and its cart's list is a stutter.
LEMMA ShowsNothing ==
  ASSUME NEW r \in Requests, NEW c \in Carts, OnlyShows(r, c),
         Remaining(r)' = Remaining(r), Shown(c)' = Shown(c)
  PROVE  UNCHANGED Promise!vars
<1>1. \A q \in Requests : Remaining(q)' = Remaining(q)
  BY DEF OnlyShows
<1>2. \A d \in Carts : Shown(d)' = Shown(d)
  BY DEF OnlyShows
<1> QED
  BY <1>1, <1>2 DEF Promise!vars

\* What a step does to the abstract variables.
LEMMA ShowsOne ==
  ASSUME NEW r \in Requests, NEW c \in Carts, OnlyShows(r, c)
  PROVE  LET order == [d \in Carts |-> Shown(d)]
             call == [q \in Requests |-> Remaining(q)]
         IN /\ [q \in Requests |-> Remaining(q)]' = [call EXCEPT ![r] = Remaining(r)']
            /\ [d \in Carts |-> Shown(d)]' = [order EXCEPT ![c] = Shown(c)']
            /\ Shown(c)' = Shown(c) => [d \in Carts |-> Shown(d)]' = order
<1>1. \A q \in Requests \ {r} : Remaining(q)' = Remaining(q)
  BY DEF OnlyShows
<1>2. \A d \in Carts \ {c} : Shown(d)' = Shown(d)
  BY DEF OnlyShows
<1>3. Shown(c)' = Shown(c) => \A d \in Carts : Shown(d)' = Shown(d)
  BY <1>2
<1> QED
  BY <1>1, <1>2, <1>3

\* CartOrder's instance of Functions has a Range of its own.
LEMMA SameRange == \A s : Promise!Range(s) = Range(s)
  BY DEF Promise!Range, Range

\* When a step is a call of CartOrder being taken ...
LEMMA ShowsAsk ==
  ASSUME NEW r \in Requests, NEW c \in Carts, OnlyShows(r, c), Remaining(r) = Promise!Free
  PROVE  /\ Shown(c)' = Shown(c) /\ Remaining(r)' \in {Promise!Done, Promise!Add(c)} => Promise!Next
         /\ Shown(c)' = Shown(c) => \A p \in Products : Remaining(r)' = Promise!TakeOut(c, p) => Promise!Next
         /\ /\ Remaining(r)' = Promise!Done
            /\ Shown(c)' \in [DOMAIN Shown(c) -> Range(Shown(c))]
            /\ DOMAIN Shown(c)' = DOMAIN Shown(c)
            /\ Range(Shown(c)') = Range(Shown(c))
            => Promise!Next
<1> DEFINE order == [d \in Carts |-> Shown(d)]
           call == [q \in Requests |-> Remaining(q)]
<1>1. /\ [q \in Requests |-> Remaining(q)]' = [call EXCEPT ![r] = Remaining(r)']
      /\ [d \in Carts |-> Shown(d)]' = [order EXCEPT ![c] = Shown(c)']
      /\ Shown(c)' = Shown(c) => [d \in Carts |-> Shown(d)]' = order
  BY ShowsOne
<1>2. call[r] = Remaining(r) /\ order[c] = Shown(c)
  OBVIOUS
<1>3. ASSUME Shown(c)' = Shown(c), Remaining(r)' \in {Promise!Done, Promise!Add(c)} PROVE Promise!Next
  <2>1. Promise!Ask(r)
    BY <1>1, <1>2, <1>3 DEF Promise!Ask, Promise!Take
  <2> QED
    BY <2>1 DEF Promise!Next
<1>4. ASSUME Shown(c)' = Shown(c), NEW p \in Products, Remaining(r)' = Promise!TakeOut(c, p) PROVE Promise!Next
  <2>1. Promise!Ask(r)
    BY <1>1, <1>2, <1>4 DEF Promise!Ask, Promise!Take
  <2> QED
    BY <2>1 DEF Promise!Next
<1>5. ASSUME Remaining(r)' = Promise!Done,
             Shown(c)' \in [DOMAIN Shown(c) -> Range(Shown(c))],
             DOMAIN Shown(c)' = DOMAIN Shown(c), Range(Shown(c)') = Range(Shown(c))
      PROVE  Promise!Next
  <2>1. Promise!Ask(r)
    BY <1>1, <1>2, <1>5, SameRange DEF Promise!Ask, Promise!Take, Promise!Permutes
  <2> QED
    BY <2>1 DEF Promise!Next
<1> QED
  BY <1>3, <1>4, <1>5

\* ... an add that takes effect ...
LEMMA ShowsAdd ==
  ASSUME NEW r \in Requests, NEW c \in Carts, OnlyShows(r, c),
         Remaining(r) = Promise!Add(c), Remaining(r)' = Promise!Done,
         NEW p \in Products, \A d \in Carts : p \notin Range(Shown(d)),
         Shown(c)' = Append(Shown(c), p)
  PROVE  Promise!Next
<1> DEFINE order == [d \in Carts |-> Shown(d)]
           call == [q \in Requests |-> Remaining(q)]
<1>1. /\ [q \in Requests |-> Remaining(q)]' = [call EXCEPT ![r] = Remaining(r)']
      /\ [d \in Carts |-> Shown(d)]' = [order EXCEPT ![c] = Shown(c)']
  BY ShowsOne
<1>2. call[r] = Remaining(r) /\ order[c] = Shown(c)
  OBVIOUS
<1>3. p \in Products \ Promise!Listed
  BY SameRange DEF Promise!Listed
<1>4. /\ [q \in Requests |-> Remaining(q)]' = [call EXCEPT ![r] = Promise!Done]
      /\ call[r] = Promise!Add(c)
      /\ [d \in Carts |-> Shown(d)]' = [order EXCEPT ![c] = Append(order[c], p)]
  BY <1>1, <1>2
<1>5. Promise!Effect(r)
  BY <1>3, <1>4 DEF Promise!Effect, Promise!Put
<1> QED
  BY <1>5 DEF Promise!Next

\* ... a removal that takes effect ...
LEMMA ShowsTakeOut ==
  ASSUME NEW r \in Requests, NEW c \in Carts, OnlyShows(r, c), NEW p \in Products,
         Remaining(r) = Promise!TakeOut(c, p), Remaining(r)' = Promise!Done,
         \/ \E i \in DOMAIN Shown(c) : Shown(c)[i] = p /\ Shown(c)' = Promise!RemoveAt(Shown(c), i)
         \/ p \notin Range(Shown(c)) /\ Shown(c)' = Shown(c)
  PROVE  Promise!Next
<1> DEFINE order == [d \in Carts |-> Shown(d)]
           call == [q \in Requests |-> Remaining(q)]
<1>1. /\ [q \in Requests |-> Remaining(q)]' = [call EXCEPT ![r] = Remaining(r)']
      /\ [d \in Carts |-> Shown(d)]' = [order EXCEPT ![c] = Shown(c)']
      /\ Shown(c)' = Shown(c) => [d \in Carts |-> Shown(d)]' = order
  BY ShowsOne
<1>2. call[r] = Remaining(r) /\ order[c] = Shown(c)
  OBVIOUS
<1>3. Promise!Drop(r, c, p)
  <2>1. CASE p \notin Range(Shown(c)) /\ Shown(c)' = Shown(c)
    BY <1>1, <1>2, <2>1, SameRange DEF Promise!Drop
  <2>2. ASSUME NEW i \in DOMAIN Shown(c), Shown(c)[i] = p, Shown(c)' = Promise!RemoveAt(Shown(c), i)
        PROVE  Promise!Drop(r, c, p)
    BY <1>1, <1>2, <2>2 DEF Promise!Drop
  <2> QED
    BY <2>1, <2>2
<1>4. Promise!Effect(r)
  BY <1>3 DEF Promise!Effect
<1> QED
  BY <1>4 DEF Promise!Next

\* ... or an answer.
LEMMA ShowsAnswer ==
  ASSUME NEW r \in Requests, NEW c \in Carts, OnlyShows(r, c), Shown(c)' = Shown(c),
         Remaining(r) = Promise!Done, Remaining(r)' = Promise!Free
  PROVE  Promise!Next
<1> DEFINE order == [d \in Carts |-> Shown(d)]
           call == [q \in Requests |-> Remaining(q)]
<1>1. /\ [q \in Requests |-> Remaining(q)]' = [call EXCEPT ![r] = Remaining(r)']
      /\ [d \in Carts |-> Shown(d)]' = order
  BY ShowsOne
<1>2. call[r] = Remaining(r)
  OBVIOUS
<1>3. Promise!Answer(r)
  BY <1>1, <1>2 DEF Promise!Answer
<1> QED
  BY <1>3 DEF Promise!Next

-----------------------------------------------------------------------------
(***************************************************************************)
(* Every step of CartItems is a step of CartOrder or shows nothing.        *)
(***************************************************************************)
\* What a request has left to do, by the statement it is about to run.
LEMMA RemainingIs ==
  ASSUME NEW r \in Requests
  PROVE  /\ req[r].pc = "idle" => Remaining(r) = Promise!Free
         /\ req[r].pc \in {"link", "nextpos", "insert"} => Remaining(r) = Promise!Add(req[r].cart)
         /\ req[r].pc = "remove" => Remaining(r) = Promise!TakeOut(req[r].cart, req[r].prod)
         /\ req[r].pc \notin {"idle", "link", "nextpos", "insert", "remove"} => Remaining(r) = Promise!Done
         /\ req'[r].pc = "idle" => Remaining(r)' = Promise!Free
         /\ req'[r].pc \in {"link", "nextpos", "insert"} => Remaining(r)' = Promise!Add(req'[r].cart)
         /\ req'[r].pc = "remove" => Remaining(r)' = Promise!TakeOut(req'[r].cart, req'[r].prod)
         /\ req'[r].pc \notin {"idle", "link", "nextpos", "insert", "remove"} => Remaining(r)' = Promise!Done
BY DEF Remaining, Promise!Free, Promise!Add, Promise!TakeOut, Promise!Done

\* A call is taken when the service has checked it; a reorder shows at that moment.
LEMMA CallShows ==
  ASSUME Quiet, NoOverlap, NoOverlap', FreshLists,
         NEW r \in Requests, NEW u \in Users, NEW c \in Carts, Call(r, u, c)
  PROVE  Promise!Next
<1>1. OnlyShows(r, c) /\ (~Reordering(r)' => Shown(c)' = Shown(c))
  BY CallFrame DEF OnlyShows
<1>2. TypeOK /\ req[r] = Idle /\ UNCHANGED <<items, linkCart>>
  BY CallKeeps DEF Quiet
<1>3. Remaining(r) = Promise!Free
  BY <1>2, RemainingIs DEF Idle
<1>4. CASE Refuse(r, u, c)
  <2>1. req'[r].pc = "refused"
    BY <1>2, <1>4 DEF Refuse, Idle, TypeOK
  <2>2. Remaining(r)' = Promise!Done /\ ~Reordering(r)'
    BY <2>1, RemainingIs DEF Reordering
  <2> QED
    BY <1>1, <1>3, <2>2, ShowsAsk
<1>5. CASE ~Refuse(r, u, c)
  <2>1. PICK call \in RequestRecord : CallOf(r, u, c, call)
    BY <1>5, CallIsAdmit
  <2>2. /\ req'[r].pc = call.pc /\ req'[r].cart = c /\ req'[r].list = call.list
        /\ req'[r].prod = call.prod
    <3>1. Admit(r, u, c, call)
      BY <2>1 DEF CallOf
    <3>2. req'[r].prod = call.prod
      BY <3>1 DEF Admit, RequestRecord
    <3> QED
      BY <1>2, <3>1, <3>2, AdmitChanges
  <2>3. CASE call.pc \in {"link", "update", "archive"}
    <3>1. Remaining(r)' \in {Promise!Done, Promise!Add(c)} /\ ~Reordering(r)'
      BY <2>2, <2>3, RemainingIs DEF Reordering
    <3> QED
      BY <1>1, <1>3, <3>1, ShowsAsk
  <2>4. CASE call.pc = "remove"
    <3>1. call.prod \in Products /\ Remaining(r)' = Promise!TakeOut(c, call.prod) /\ ~Reordering(r)'
      BY <2>1, <2>2, <2>4, RemainingIs DEF Reordering, CallOf
    <3> QED
      BY <1>1, <1>3, <3>1, ShowsAsk
  <2>5. CASE call.pc = "park"
    <3> DEFINE S == InCart(c)
               l == call.list
    <3>1. l \in Seq(Products) /\ Range(l) = S /\ IsInjective(l)
      BY <2>1, <2>5 DEF CallOf, RequestRecord, Lists
    <3>2. l \in Seq(S)
      BY <3>1 DEF Range
    <3>3. r \in Movers(c)' /\ Remaining(r)' = Promise!Done
      BY <2>2, <2>5, RemainingIs DEF Movers, InFlight, Reordering, Running
    <3>4. Shown(c)' = l
      BY <2>2, <3>3, ShownIs
    <3>5. IsFiniteSet(S) /\ DOMAIN Shown(c) = 1 .. Cardinality(S) /\ Range(Shown(c)) = S
      BY ListFacts, ShownFacts
    <3> HIDE DEF S, l
    <3>6. Len(l) = Cardinality(S)
      BY <3>1, <3>2, <3>5, SortsPlaced
    <3>7. l \in [1 .. Cardinality(S) -> S] /\ DOMAIN l = 1 .. Cardinality(S)
      BY <3>2, <3>6, SeqDef, LenProperties
    <3>8. /\ Shown(c)' \in [DOMAIN Shown(c) -> Range(Shown(c))]
          /\ DOMAIN Shown(c)' = DOMAIN Shown(c) /\ Range(Shown(c)') = Range(Shown(c))
      BY <3>1, <3>4, <3>5, <3>7
    <3> QED
      BY <1>1, <1>3, <3>3, <3>8, ShowsAsk
  <2> QED
    BY <2>1, <2>3, <2>4, <2>5 DEF CallOf
<1> QED
  BY <1>4, <1>5

\* A step that moves no row and neither begins nor ends a reorder.
LEMMA StillShown ==
  ASSUME Quiet, NoOverlap, NoOverlap', NEW s \in Requests, Progress(s), NEW c \in Carts,
         ~Reordering(s), ~Reordering(s)', items' = items, \A p \in items : pos'[p] = pos[p]
  PROVE  Shown(c)' = Shown(c)
<1>1. TypeOK
  BY DEF Quiet
<1>2. /\ \A q \in Requests \ {s} : req'[q] = req[q]
      /\ \A p \in items : linkCart'[p] = linkCart[p]
  BY <1>1, OnlyThis
<1>3. InCart(c)' = InCart(c) /\ \A p \in InCart(c) : pos'[p] = pos[p]
  BY <1>2 DEF InCart
<1>4. s \notin Movers(c) /\ s \notin Movers(c)'
  BY DEF Movers
<1>5. \A q \in Requests \ {s} : q \in Movers(c)' <=> q \in Movers(c)
  BY <1>2 DEF Movers, InFlight, Reordering
<1>6. Movers(c)' = Movers(c) /\ \A q \in Movers(c) : req'[q].list = req[q].list
  BY <1>2, <1>4, <1>5 DEF Movers
<1> QED
  BY <1>3, <1>6, ShownKept

\* The request that runs, its cart, and how it ends.
LEMMA ProgressFacts ==
  ASSUME Quiet, Quiet', NoOverlap, NoOverlap', NEW s \in Requests, Progress(s)
  PROVE  /\ req[s] \in RequestRecord /\ req[s].cart \in Carts /\ req \in [Requests -> RequestRecord]
         /\ OnlyShows(s, req[s].cart)
         /\ req'[s].pc # "conflict"
         /\ req[s].pc \in Running => CalmProgress(s)
<1>1. TypeOK /\ WellFormed(s)
  BY DEF Quiet, TypeOK
<1>2. req[s].pc # "idle"
  BY DEF Progress, CreateLink, NextCartItemPosition, AddCartItem, RemoveCartItem, UpdateCartItem,
    ArchiveCart, Park, Place, AllParked, AllPlaced, Respond, Answered
<1>3. req[s] \in RequestRecord /\ req[s].cart \in Carts /\ req \in [Requests -> RequestRecord]
  BY <1>1, <1>2 DEF TypeOK, WellFormed
<1>4. OnlyShows(s, req[s].cart)
  <2>1. \A d \in Carts \ {req[s].cart} : ~InFlight(s, d)
    BY DEF InFlight
  <2> QED
    BY <2>1, ProgressFrame DEF OnlyShows
<1>5. req[s].pc \in Running => CalmProgress(s)
  BY DEF Quiet, Undisturbed, CalmInv
<1>6. req'[s].pc # "conflict"
  BY DEF Quiet, Undisturbed, CalmInv, CalmProgress, Answered
<1> QED
  BY <1>3, <1>4, <1>5, <1>6

\* The insert of AddProduct puts the product at the end.
LEMMA AddShows ==
  ASSUME Quiet, Quiet', NoOverlap, NoOverlap', NEW s \in Requests, AddCartItem(s),
         NEW c, c = req[s].cart, NEW p, p = req[s].prod
  PROVE  Promise!Next
<1> DEFINE S == InCart(c)
           l == ListCartItems(c)
<1>1. /\ Progress(s) /\ req[s].pc = "insert" /\ TypeOK
      /\ req[s] \in RequestRecord /\ c \in Carts /\ req \in [Requests -> RequestRecord]
      /\ OnlyShows(s, c) /\ req'[s].pc # "conflict" /\ CalmProgress(s)
  BY ProgressFacts DEF Progress, AddCartItem, Running, Quiet
<1>2. p \in Products /\ linkCart[p] = c /\ p \notin items
  BY <1>1 DEF TypeOK, WellFormed, Quiet, Undisturbed
<1>3. ~Taken(c, p, req[s].at)
  <2>1. Goto(s, "conflict") => req'[s].pc = "conflict"
    BY <1>1 DEF Goto, RequestRecord
  <2> QED
    BY <1>1, <2>1 DEF AddCartItem
<1>4. /\ items' = items \cup {p} /\ pos' = [pos EXCEPT ![p] = req[s].at] /\ linkCart' = linkCart
      /\ req'[s].pc = "ok"
  BY <1>1, <1>3 DEF AddCartItem, Goto, RequestRecord
<1>5. InCart(c)' = S \cup {p} /\ p \notin S
  BY <1>2, <1>4 DEF InCart
<1>6. pos'[p] = req[s].at /\ \A q \in S : pos'[q] = pos[q] /\ pos[q] < pos'[p]
  <2>1. pos'[p] = req[s].at /\ \A q \in S : q \in Products /\ pos'[q] = pos[q]
    BY <1>1, <1>2, <1>4, <1>5 DEF TypeOK, InCart
  <2> QED
    BY <1>1, <2>1 DEF CalmProgress
<1>7. Movers(c) = {} /\ Movers(c)' = {}
  <2>1. \A q \in Requests \ {s} : ~InFlight(q, c) /\ ~InFlight(q, c)'
    BY <1>1, OnlyThis DEF CalmProgress, InFlight
  <2>2. ~Reordering(s) /\ ~Reordering(s)'
    BY <1>1, <1>4 DEF Reordering
  <2> QED
    BY <2>1, <2>2 DEF Movers
<1>8. /\ IsFiniteSet(S) /\ \A q \in S : pos[q] \in Int
      /\ Sorts(l, S, pos) /\ Shown(c) = l /\ Shown(c)' = Listing(S \cup {p}, pos')
  BY <1>1, <1>5, <1>7, ListFacts, ShownIs
<1>9. \A q \in S \cup {p} : pos'[q] \in Int
  BY <1>1, <1>6, <1>8 DEF RequestRecord
<1>10. \A d \in Carts : p \notin Range(Shown(d))
  BY <1>2, ShownFacts DEF InCart
<1>11. Remaining(s) = Promise!Add(c) /\ Remaining(s)' = Promise!Done
  BY <1>1, <1>4, RemainingIs
<1> HIDE DEF S, l
<1>12. Sorts(Append(l, p), S \cup {p}, pos')
  BY <1>5, <1>6, <1>8, SortsAppend
<1>13. IsFiniteSet(S \cup {p})
  BY <1>8, FS_AddElement
<1>14. Shown(c)' = Append(Shown(c), p)
  BY <1>8, <1>9, <1>12, <1>13, SortsIsListing
<1> QED
  BY <1>1, <1>2, <1>10, <1>11, <1>14, ShowsAdd

\* The delete of RemoveProduct takes the product out and leaves the others in order.
LEMMA RemoveShows ==
  ASSUME Quiet, Quiet', NoOverlap, NoOverlap', NEW s \in Requests, RemoveCartItem(s),
         NEW c, c = req[s].cart, NEW p, p = req[s].prod
  PROVE  Promise!Next
<1> DEFINE S == InCart(c)
           l == ListCartItems(c)
<1>1. /\ Progress(s) /\ req[s].pc = "remove" /\ TypeOK
      /\ req[s] \in RequestRecord /\ c \in Carts /\ req \in [Requests -> RequestRecord]
      /\ OnlyShows(s, c) /\ CalmProgress(s)
  BY ProgressFacts DEF Progress, RemoveCartItem, Running, Quiet
<1>2. p \in Products /\ req'[s].pc = "ok"
  BY <1>1 DEF TypeOK, WellFormed, RemoveCartItem, Goto, RequestRecord
<1>3. ~Reordering(s) /\ ~Reordering(s)'
  BY <1>1, <1>2 DEF Reordering
<1>4. Remaining(s) = Promise!TakeOut(c, p) /\ Remaining(s)' = Promise!Done
  BY <1>1, <1>2, RemainingIs
<1>5. /\ items' = items \ ({p} \cap S)
      /\ \A q \in Products : pos'[q] = IF q \in {p} \cap S THEN 0 ELSE pos[q]
      /\ linkCart' = linkCart
  BY <1>1 DEF RemoveCartItem
<1>6. CASE p \notin S
  <2>1. items' = items /\ \A q \in items : pos'[q] = pos[q]
    BY <1>1, <1>5, <1>6 DEF TypeOK
  <2>2. Shown(c)' = Shown(c)
    BY <1>1, <1>3, <2>1, StillShown
  <2>3. p \notin Range(Shown(c))
    BY <1>1, <1>6, ShownFacts
    <2> QED
    BY <1>1, <1>2, <1>4, <2>2, <2>3, ShowsTakeOut
<1>7. CASE p \in S
  <2>1. InCart(c)' = S \ {p}
    BY <1>5, <1>7 DEF InCart
  <2>2. \A q \in S \ {p} : pos'[q] = pos[q]
    BY <1>1, <1>5 DEF TypeOK, InCart
  <2>3. Movers(c) = {} /\ Movers(c)' = {}
    <3>1. \A q \in Requests \ {s} : ~InFlight(q, c) /\ ~InFlight(q, c)'
      BY <1>1, OnlyThis DEF CalmProgress, InFlight
    <3> QED
      BY <1>3, <3>1 DEF Movers
  <2>4. /\ IsFiniteSet(S) /\ \A q \in S : pos[q] \in Int
        /\ Sorts(l, S, pos) /\ Shown(c) = l /\ Shown(c)' = Listing(S \ {p}, pos')
    BY <1>1, <2>1, <2>3, ListFacts, ShownIs
  <2> HIDE DEF S, l
  <2>5. PICK k \in 1 .. Cardinality(S) : l[k] = p
    BY <1>7, <2>4 DEF Sorts
  <2>6. Sorts(Promise!RemoveAt(l, k), S \ {p}, pos')
    BY <2>2, <2>4, <2>5, SortsRemove
  <2>7. IsFiniteSet(S \ {p}) /\ \A q \in S \ {p} : pos'[q] \in Int
    BY <2>2, <2>4, FS_Subset
  <2>8. Shown(c)' = Promise!RemoveAt(Shown(c), k)
    BY <2>4, <2>6, <2>7, SortsIsListing
  <2>9. k \in DOMAIN Shown(c) /\ Shown(c)[k] = p
    BY <2>4, <2>5 DEF Sorts
    <2> QED
    BY <1>1, <1>2, <1>4, <2>8, <2>9, ShowsTakeOut
<1> QED
  BY <1>6, <1>7

\* While a reorder runs the list it was sent is shown, and when it has run it is there.
LEMMA ReorderShows ==
  ASSUME Quiet, Quiet', NoOverlap, NoOverlap', NEW s \in Requests,
         Park(s) \/ AllParked(s) \/ Place(s) \/ AllPlaced(s),
         NEW c, c = req[s].cart
  PROVE  UNCHANGED Promise!vars
<1> DEFINE l == req[s].list
<1>1. /\ Progress(s) /\ Reordering(s) /\ req[s].pc \in Running /\ TypeOK
      /\ req[s] \in RequestRecord /\ c \in Carts /\ req \in [Requests -> RequestRecord]
      /\ OnlyShows(s, c) /\ req'[s].pc # "conflict" /\ CalmProgress(s)
  BY ProgressFacts DEF Progress, Park, AllParked, Place, AllPlaced, Running, Reordering, Quiet
<1>2. s \in Movers(c)
  BY <1>1 DEF Movers, CalmProgress
<1>3. Shown(c) = l /\ Remaining(s) = Promise!Done
  BY <1>1, <1>2, ShownIs, RemainingIs DEF Reordering
<1>4. CASE Park(s) \/ AllParked(s) \/ Place(s)
  <2>1. Goto(s, "conflict") => req'[s].pc = "conflict"
    BY <1>1 DEF Goto, RequestRecord
  <2>2. req'[s].pc \in {"park", "place"} /\ req'[s].cart = c /\ req'[s].list = l
    BY <1>1, <1>4, <2>1 DEF Park, AllParked, Place, ReorderCartItem, RequestRecord
  <2>3. s \in Movers(c)' /\ Remaining(s)' = Promise!Done
    BY <2>2, RemainingIs DEF Movers, InFlight, Reordering, Running
  <2>4. Shown(c)' = l
    BY <1>1, <2>2, <2>3, ShownIs
  <2> HIDE DEF l
  <2> QED
    BY <1>1, <1>3, <2>3, <2>4, ShowsNothing
<1>5. CASE AllPlaced(s)
  <2> DEFINE S == InCart(c)
  <2>1. req'[s].pc = "ok" /\ UNCHANGED <<items, linkCart, pos>>
    BY <1>1, <1>5 DEF AllPlaced, Goto, RequestRecord
  <2>2. Movers(c)' = {}
    <3>1. \A q \in Requests \ {s} : ~InFlight(q, c)'
      BY <1>1, OnlyThis DEF CalmProgress, InFlight
    <3>2. ~Reordering(s)'
      BY <2>1 DEF Reordering
    <3> QED
      BY <3>1, <3>2 DEF Movers
  <2>3. Remaining(s)' = Promise!Done /\ Shown(c)' = Listing(S, pos)
    <3>1. InCart(c)' = S
      BY <2>1 DEF InCart
    <3> QED
      BY <1>1, <2>1, <2>2, <3>1, ShownIs, RemainingIs
  <2>4. /\ IsFiniteSet(S) /\ \A q \in S : pos[q] \in Int
        /\ l \in Seq(S) /\ IsInjective(l) /\ Range(l) = S
    BY <1>1, <1>2, ListFacts, MoverFacts
  <2>5. \A j \in DOMAIN l : pos[l[j]] = j - 1
    <3>1. req[s].pc = "place" /\ req[s].idx > Len(l) /\ req[s].idx \in Nat
      BY <1>1, <1>5 DEF AllPlaced, RequestRecord
    <3>2. \A j \in DOMAIN l : pos[l[j]] = IF j < req[s].idx THEN j - 1 ELSE -j
      BY <1>1, <3>1 DEF CalmProgress
    <3>3. \A j \in DOMAIN l : j \in Nat /\ j <= Len(l)
      BY <2>4, LenProperties
    <3>4. Len(l) \in Nat
      BY <2>4, LenProperties
    <3> QED
      BY <3>1, <3>2, <3>3, <3>4
  <2> HIDE DEF S, l
  <2>6. Sorts(l, S, pos)
    BY <2>4, <2>5, SortsPlaced
  <2>7. Shown(c)' = l
    BY <2>3, <2>4, <2>6, SortsIsListing
  <2> QED
    BY <1>1, <1>3, <2>3, <2>7, ShowsNothing
<1> QED
  BY <1>4, <1>5

\* A statement of a request shows once, or not at all.
LEMMA ProgressShows ==
  ASSUME Quiet, Quiet', NoOverlap, NoOverlap', NEW s \in Requests, Progress(s)
  PROVE  Promise!Next \/ UNCHANGED Promise!vars
<1>1. PICK c \in Carts : c = req[s].cart
  BY ProgressFacts
<1>2. /\ TypeOK /\ req[s] \in RequestRecord /\ req \in [Requests -> RequestRecord]
      /\ OnlyShows(s, c)
  BY <1>1, ProgressFacts DEF Quiet
<1>3. CASE CreateLink(s) \/ NextCartItemPosition(s)
  <2>1. /\ req[s].pc \in {"link", "nextpos"} /\ req'[s].pc \in {"nextpos", "insert"}
        /\ req'[s].cart = c /\ items' = items /\ pos' = pos
    BY <1>1, <1>2, <1>3 DEF CreateLink, NextCartItemPosition, RequestRecord
  <2>2. Remaining(s)' = Remaining(s) /\ ~Reordering(s) /\ ~Reordering(s)'
    BY <1>1, <2>1, RemainingIs DEF Reordering
  <2>3. Shown(c)' = Shown(c)
    BY <2>1, <2>2, StillShown
  <2> QED
    BY <1>2, <2>2, <2>3, ShowsNothing
<1>4. CASE UpdateCartItem(s) \/ ArchiveCart(s)
  <2>1. /\ req[s].pc \in {"update", "archive"} /\ req'[s].pc \in {"ok", "norows"}
        /\ items' = items /\ pos' = pos
    BY <1>2, <1>4 DEF UpdateCartItem, ArchiveCart, Goto, RequestRecord
  <2>2. Remaining(s)' = Remaining(s) /\ ~Reordering(s) /\ ~Reordering(s)'
    BY <2>1, RemainingIs DEF Reordering
  <2>3. Shown(c)' = Shown(c)
    BY <2>1, <2>2, StillShown
  <2> QED
    BY <1>2, <2>2, <2>3, ShowsNothing
<1>5. CASE Respond(s)
  <2>1. req[s].pc \in Answered \cup {"refused"} /\ req'[s] = Idle /\ items' = items /\ pos' = pos
    BY <1>2, <1>5 DEF Respond
  <2>2. /\ Remaining(s) = Promise!Done /\ Remaining(s)' = Promise!Free
        /\ ~Reordering(s) /\ ~Reordering(s)'
    BY <2>1, RemainingIs DEF Reordering, Idle, Answered
  <2>3. Shown(c)' = Shown(c)
    BY <2>1, <2>2, StillShown
  <2> QED
    BY <1>2, <2>2, <2>3, ShowsAnswer
<1>6. CASE AddCartItem(s)
  BY <1>1, <1>6, AddShows
<1>7. CASE RemoveCartItem(s)
  BY <1>1, <1>7, RemoveShows
<1>8. CASE Park(s) \/ AllParked(s) \/ Place(s) \/ AllPlaced(s)
  BY <1>1, <1>8, ReorderShows
<1> QED
  BY <1>3, <1>4, <1>5, <1>6, <1>7, <1>8 DEF Progress

\* Quiet is inductive while no two requests hold one cart.
LEMMA QuietStep ==
  ASSUME FreshLists, ~Faults
  PROVE  Quiet /\ NoOverlap /\ NoOverlap' /\ [Next]_vars => Quiet'
<1> SUFFICES ASSUME Quiet, NoOverlap, NoOverlap', [Next]_vars PROVE Quiet'
  OBVIOUS
<1>1. TypeOK' /\ ParkedIsOwed' /\ CalmInv' /\ RowsAreDistinct' /\ IsFiniteSet(items')
  BY TypeStep, ParkedStep, CalmStep, DistinctStep, FiniteStep DEF Quiet
<1>2. Undisturbed'
  BY <1>1, UndisturbedStep DEF Quiet
<1> QED
  BY <1>1, <1>2 DEF Quiet

\* Step simulation.
LEMMA NextShows ==
  ASSUME FreshLists, ~Faults
  PROVE  Quiet /\ Quiet' /\ NoOverlap /\ NoOverlap' /\ [Next]_vars => [Promise!Next]_(Promise!vars)
<1> SUFFICES ASSUME Quiet, Quiet', NoOverlap, NoOverlap', [Next]_vars
             PROVE  Promise!Next \/ UNCHANGED Promise!vars
  OBVIOUS
<1>1. CASE UNCHANGED vars
  <2>1. \A c \in Carts : Shown(c)' = Shown(c)
    BY <1>1 DEF vars, Shown, Movers, InFlight, Reordering, ListCartItems, InCart
  <2>2. \A r \in Requests : Remaining(r)' = Remaining(r)
    BY <1>1 DEF vars, Remaining
  <2> QED
    BY <2>1, <2>2 DEF Promise!vars
<1>2. \A s \in Requests : ~Abort(s)
  BY DEF Abort
<1> QED
  BY <1>1, <1>2, CallShows, ProgressShows DEF Next

\* Empty tables show empty lists.
LEMMA BeginsEmpty == Init => Quiet /\ Promise!Init
<1> SUFFICES ASSUME Init PROVE Quiet /\ Promise!Init
  OBVIOUS
<1>1. TypeOK /\ ParkedIsOwed /\ CalmInv
  <2>1. TypeOK
    BY IdleType DEF Init, TypeOK, WellFormed, Idle
  <2>2. ParkedIsOwed
    BY DEF Init, ParkedIsOwed, Idle
  <2>3. CalmInv
    BY DEF Init, CalmInv, Idle
  <2> QED
    BY <2>1, <2>2, <2>3
<1>2. RowsAreDistinct /\ IsFiniteSet(items) /\ Undisturbed
  BY FS_EmptySet DEF Init, RowsAreDistinct, Undisturbed, Idle, Running, Answered
<1>3. ASSUME NEW c \in Carts PROVE Shown(c) = <<>>
  <2>1. InCart(c) = {} /\ Movers(c) = {}
    BY DEF Init, InCart, Movers, Reordering, Idle
  <2>2. Sorts(<<>>, {}, pos)
    BY FS_EmptySet DEF Sorts
  <2>3. Listing({}, pos) = <<>>
    BY <2>2, FS_EmptySet, SortsIsListing
  <2> QED
    BY <2>1, <2>3, ShownIs DEF ListCartItems
<1>4. \A r \in Requests : Remaining(r) = Promise!Free
  BY RemainingIs DEF Init, Idle
<1> QED
  BY <1>1, <1>2, <1>3, <1>4 DEF Quiet, Promise!Init

(***************************************************************************)
(* With fresh lists and a server that does not fail, and as long as no two *)
(* admitted requests hold the same cart, the statements of AddProduct,     *)
(* RemoveProduct and ReorderProducts are single steps of the carts' lists, *)
(* for any number of accounts, carts, products and requests.               *)
(***************************************************************************)
THEOREM RequestsApartKeepTheOrder ==
  ASSUME FreshLists, ~Faults
  PROVE  Spec /\ []NoOverlap => ImplementsCartOrder
<1>1. Init => Quiet /\ Promise!Init
  BY BeginsEmpty
<1>2. Quiet /\ NoOverlap /\ NoOverlap' /\ [Next]_vars => Quiet'
  BY QuietStep
<1>3. Quiet /\ Quiet' /\ NoOverlap /\ NoOverlap' /\ [Next]_vars => [Promise!Next]_(Promise!vars)
  BY NextShows
<1> QED
  BY <1>1, <1>2, <1>3, PTL DEF Spec, ImplementsCartOrder, Promise!Spec

\* One tab that waits for each answer never has two requests: the run's instance.
THEOREM OneTabKeepsTheOrder ==
  ASSUME FreshLists, ~Faults, \A q, r \in Requests : q = r
  PROVE  Spec => ImplementsCartOrder
<1>1. TypeOK => NoOverlap
  BY DEF NoOverlap
<1> QED
  BY <1>1, TypeCorrect, RequestsApartKeepTheOrder, PTL
=============================================================================
