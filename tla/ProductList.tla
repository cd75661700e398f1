----------------------------- MODULE ProductList -----------------------------
(***************************************************************************)
(* The products of one cart in the cart editor                             *)
(* (web/app/dashboard/carts/[id]/editor.tsx) and their rows on the server. *)
(* Every product call is two requests, the change and getCartById          *)
(* (web/lib/api-client.ts), and its answer replaces the whole list; a drag *)
(* also reorders the list at once.  Calls run side by side.                *)
(*                                                                         *)
(* The editor is left and opened again: its calls run on and their answers *)
(* find nobody, and it may come up with the page that the router kept from *)
(* an earlier visit instead of the server's.                               *)
(*                                                                         *)
(* The statements of a change are module CartItems.  Here a change is one  *)
(* step, except that a reorder which another call runs beside, or whose    *)
(* list lacks a row, may leave the rows in any order.                      *)
(***************************************************************************)
EXTENDS Naturals, Sequences, FiniteSets, SequencesExt

CONSTANTS
  Calls,    \* product calls at the same time
  Titles,   \* texts of a product
  MaxItems, \* bounds the ids of the items
  MaxCalls  \* bounds the calls of one tab

ASSUME ProductsAssumption == {MaxItems, MaxCalls} \subseteq Nat /\ IsFiniteSet(Calls)

VARIABLES
  rows,      \* items of the cart on the server, in their order
  deleted,   \* the cart is archived
  products,  \* cart.products of the editor
  keptList,  \* the products on the page the router keeps, if it keeps one
  editing,   \* the row that is edited with its draft, or nothing
  call,      \* product calls
  calls,     \* how many were started
  deletion,  \* "asked", "refused" by the server, or "archived" without an answer yet
  shown,     \* the editor is there
  strayed    \* history: calls overlapped or failed half way, or the editor came up with an
             \* older list or beside calls of the editor before, and no call that ran by
             \* itself has been answered since

listVars == <<rows, deleted, products, keptList, editing, call, calls, deletion, shown, strayed>>
-----------------------------------------------------------------------------
Items == [id : 1 .. MaxItems, title : Titles]
Ids(list) == [i \in DOMAIN list |-> list[i].id]
NotEditing == << >>

NoCall == [pc |-> "idle", op |-> "none", item |-> << >>, ids |-> << >>, answer |-> << >>,
           mine |-> FALSE, alone |-> FALSE]

ListInit ==
  /\ rows \in {[i \in 1 .. n |-> [id |-> i, title |-> t]] : n \in 0 .. MaxItems, t \in Titles}
  /\ deleted = FALSE /\ deletion = "none"
  /\ products = rows /\ keptList = {rows} /\ editing = NotEditing /\ shown = TRUE
  /\ call = [c \in Calls |-> NoCall] /\ calls = 0
  /\ strayed = FALSE

Running == {c \in Calls : call[c].pc # "idle"}

\* A call that starts is one more in flight for all of them.
Start(c, op, item, ids) ==
  /\ shown /\ c \notin Running
  /\ calls < MaxCalls /\ calls' = calls + 1
  /\ call' = [d \in Calls |->
       IF d = c THEN [pc |-> "sent", op |-> op, item |-> item, ids |-> ids, answer |-> << >>,
                      mine |-> TRUE, alone |-> Running = {}]
                ELSE [call[d] EXCEPT !.alone = FALSE]]
  /\ UNCHANGED <<rows, deleted, keptList, deletion, shown, strayed>>
-----------------------------------------------------------------------------
\* The id the next item gets.  Ids come from a small pool: one that no list has any more may
\* come again.
FreshIds == 1 .. MaxItems \ UNION {ToSet(Ids(list)) : list \in {rows, products} \cup keptList}

AddProduct(c, t) ==
  /\ Start(c, "add", <<[id |-> MaxItems, title |-> t]>>, << >>)
  /\ UNCHANGED <<products, editing>>

RemoveProduct(c, i) ==
  /\ i \in DOMAIN products
  /\ Start(c, "remove", <<products[i]>>, << >>)
  /\ UNCHANGED <<products, editing>>

\* move: the arrows of a row; the first has no way up and the last none down.
Move(c, i, j) ==
  /\ {i, j} \subseteq DOMAIN products /\ j \in {i + 1, i - 1}
  /\ Start(c, "order", << >>, [Ids(products) EXCEPT ![i] = products[j].id, ![j] = products[i].id])
  /\ UNCHANGED <<products, editing>>

\* arrayMove
ArrayMove(list, from, to) == InsertAt(RemoveAt(list, from), to, list[from])

\* handleDragEnd: the list is reordered before the server has answered.
DragEnd(c, i, j) ==
  /\ {i, j} \subseteq DOMAIN products /\ i # j
  /\ Start(c, "order", << >>, Ids(ArrayMove(products, i, j)))
  /\ products' = ArrayMove(products, i, j)
  /\ UNCHANGED editing

\* startEdit of a row: the fields are those of the product.
StartEdit(i) ==
  /\ shown /\ i \in DOMAIN products
  /\ editing' = <<products[i]>>
  /\ UNCHANGED <<rows, deleted, products, keptList, call, calls, deletion, shown, strayed>>

TypeInRow(t) ==
  /\ shown /\ editing # NotEditing /\ editing[1].title # t
  /\ editing' = <<[editing[1] EXCEPT !.title = t]>>
  /\ UNCHANGED <<rows, deleted, products, keptList, call, calls, deletion, shown, strayed>>

CancelEdit ==
  /\ shown /\ editing # NotEditing
  /\ editing' = NotEditing
  /\ UNCHANGED <<rows, deleted, products, keptList, call, calls, deletion, shown, strayed>>

\* save of a row: editProduct with all of its fields
EditProduct(c) ==
  /\ editing # NotEditing
  /\ Start(c, "edit", editing, << >>)
  /\ editing' = NotEditing
  /\ UNCHANGED products
-----------------------------------------------------------------------------
Shuffles(list) ==
  {[i \in DOMAIN list |-> list[p[i]]] :
     p \in {q \in [DOMAIN list -> DOMAIN list] : \A i, j \in DOMAIN list : i # j => q[i] # q[j]}}

\* The list is in the order in which the ids name its rows.
InOrderOf(ids, list) ==
  \A i, j \in DOMAIN list, k, l \in DOMAIN ids :
    i < j /\ ids[k] = list[i].id /\ ids[l] = list[j].id => k < l

\* The rows after a change, as long as nothing reorders them beside it.
Changed(c) ==
  LET item == call[c].item[1]
      at == {i \in DOMAIN rows : rows[i].id = item.id}
  IN  CASE call[c].op = "add" -> {Append(rows, [item EXCEPT !.id = id]) : id \in FreshIds}
        [] call[c].op = "remove" -> IF at = {} THEN {rows} ELSE {RemoveAt(rows, i) : i \in at}
        [] call[c].op = "edit" -> {[i \in DOMAIN rows |-> IF i \in at THEN item ELSE rows[i]]}
        [] OTHER -> {list \in Shuffles(rows) : InOrderOf(call[c].ids, list)}

\* A reorder runs beside this call, or this call is one with a list that lacks a row.
Disorderly(c) ==
  \/ \E d \in Running \ {c} : call[d].op = "order" /\ call[d].pc = "sent"
  \/ call[c].op = "order" /\ ~ToSet(Ids(rows)) \subseteq ToSet(call[c].ids)

Change(c) ==
  /\ call[c].pc = "sent" /\ ~deleted
  /\ call[c].op = "add" => FreshIds # {}
  /\ rows' \in IF ~Disorderly(c) THEN Changed(c)
               ELSE UNION {Shuffles(list) : list \in IF call[c].op = "order" THEN {rows} ELSE Changed(c)}
  /\ call' = [call EXCEPT ![c].pc = "changed"]
  /\ UNCHANGED <<calls, deleted, products, keptList, editing, deletion, shown, strayed>>

GetCart(c) ==
  /\ call[c].pc = "changed" /\ ~deleted
  /\ call' = [call EXCEPT ![c].pc = "answered", ![c].answer = rows]
  /\ UNCHANGED <<calls, rows, deleted, products, keptList, editing, deletion, shown, strayed>>

\* Mutant: a reorder's answer is not shown, the list having been reordered already.
ListAfterDrag(c) == IF call[c].op = "order" THEN products ELSE call[c].answer

\* setCart(updated)
ListAfter(c) == call[c].answer

SetProducts(c) ==
  /\ call[c].pc = "answered" /\ call[c].mine
  /\ products' = ListAfter(c)
  /\ editing' = IF editing # NotEditing /\ editing[1].id \in ToSet(Ids(products')) THEN editing ELSE NotEditing
  /\ strayed' = ~call[c].alone
  /\ call' = [call EXCEPT ![c] = NoCall]
  /\ UNCHANGED <<calls, rows, deleted, keptList, deletion, shown>>

\* The answer of a call finds its editor gone.
AnswerFindsNobody(c) ==
  /\ call[c].pc = "answered" /\ ~call[c].mine
  /\ call' = [call EXCEPT ![c] = NoCall]
  /\ UNCHANGED <<calls, rows, deleted, products, keptList, editing, deletion, shown, strayed>>

\* A toast, and the list stays: after a drag the new order, and the server's rows
\* where the call left them.
ProductCallBreaks(c) ==
  /\ call[c].pc \in {"sent", "changed", "answered"}
  /\ rows' \in IF call[c].pc = "sent" /\ call[c].op = "order" /\ ~deleted THEN Shuffles(rows) ELSE {rows}
  /\ strayed' = (strayed \/ (call[c].mine /\ (call[c].pc # "sent" \/ call[c].op = "order")))
  /\ call' = [call EXCEPT ![c] = NoCall]
  /\ UNCHANGED <<calls, deleted, products, keptList, editing, deletion, shown>>
-----------------------------------------------------------------------------
\* The editor is left: its calls run on without it.
Leave ==
  /\ shown' = FALSE /\ editing' = NotEditing /\ products' = << >> /\ strayed' = FALSE
  /\ call' = [c \in Calls |-> [call[c] EXCEPT !.mine = FALSE, !.alone = FALSE]]

LeaveList ==
  /\ shown
  /\ Leave
  /\ UNCHANGED <<rows, deleted, keptList, calls, deletion>>

\* The editor comes up with what the server renders, unless the cart is deleted, or with the
\* page of an earlier visit that the router has kept.
OpenList ==
  /\ ~shown
  /\ \E list \in keptList \cup (IF deleted THEN {} ELSE {rows}) :
       /\ products' = list /\ keptList' = {list}
       /\ strayed' = (Running # {} \/ list # rows)
  /\ shown' = TRUE
  /\ UNCHANGED <<rows, deleted, editing, call, calls, deletion>>
-----------------------------------------------------------------------------
\* handleDelete: the button waits for the answer.  One deletion at a time.
HandleDelete ==
  /\ shown /\ deletion = "none"
  /\ deletion' = "asked"
  /\ UNCHANGED <<rows, deleted, products, keptList, editing, call, calls, shown, strayed>>

DeleteOnServer ==
  /\ deletion = "asked"
  /\ deletion' = IF deleted THEN "refused" ELSE "archived"
  /\ deleted' = TRUE
  /\ UNCHANGED <<rows, products, keptList, editing, call, calls, shown, strayed>>

\* To the dashboard, also from an editor opened since.
DeleteAnswered ==
  /\ deletion = "archived"
  /\ deletion' = "none"
  /\ Leave
  /\ UNCHANGED <<calls, rows, deleted, keptList>>

DeleteFails ==
  /\ deletion # "none"
  /\ deletion' = "none"
  /\ UNCHANGED <<rows, deleted, products, keptList, editing, call, calls, shown, strayed>>
-----------------------------------------------------------------------------
ListNext ==
  \/ \E c \in Calls :
       \/ \E t \in Titles : AddProduct(c, t)
       \/ \E i \in 1 .. MaxItems : RemoveProduct(c, i)
       \/ \E i, j \in 1 .. MaxItems : Move(c, i, j) \/ DragEnd(c, i, j)
       \/ EditProduct(c)
       \/ Change(c) \/ GetCart(c) \/ SetProducts(c) \/ AnswerFindsNobody(c)
       \/ ProductCallBreaks(c)
  \/ \E i \in 1 .. MaxItems : StartEdit(i)
  \/ \E t \in Titles : TypeInRow(t)
  \/ CancelEdit \/ LeaveList \/ OpenList
  \/ HandleDelete \/ DeleteOnServer \/ DeleteAnswered \/ DeleteFails

ListSpec == ListInit /\ [][ListNext]_listVars
-----------------------------------------------------------------------------
ListTypeOK ==
  /\ {rows, products} \cup keptList \subseteq BoundedSeq(Items, MaxItems)
  /\ \A list \in {rows, products} \cup keptList : IsInjective(Ids(list))
  /\ {deleted, shown, strayed} \subseteq BOOLEAN
  /\ editing \in BoundedSeq(Items, 1)
  /\ deletion \in {"none", "asked", "refused", "archived"}
  /\ \A c \in Calls :
       /\ call[c].pc \in {"idle", "sent", "changed", "answered"}
       /\ call[c].op \in {"none", "add", "remove", "edit", "order"}
       /\ call[c].answer \in BoundedSeq(Items, MaxItems)
  /\ \A c, d \in Running : call[c].alone => c = d

\* At rest the editor shows the cart's products as the server has them: a call that
\* runs by itself leaves the list right whatever it did, and whatever had gone wrong
\* before, an older page that the editor came up with included.  Only until such a call
\* another list or another order may be on the page: after calls that overlapped, calls of
\* an earlier visit and calls that failed half way among them, or where the router brought
\* back a list that was not the server's any more.
ListIsTheCart == shown /\ Running = {} /\ ~strayed => products = rows
=============================================================================
