------------------------ MODULE CartItemsRefinement ------------------------
(***************************************************************************)
(* CartItems implements CartOrder as long as requests come one at a time,  *)
(* none stops half way and reorder bodies name what the cart holds: one    *)
(* dashboard tab and a server that does not fail.                          *)
(***************************************************************************)
EXTENDS CartItems

\* The members of S by their positions: the i-th of them has i - 1 before it.
Listing(S, position) ==
  [i \in 1 .. Cardinality(S) |->
     CHOOSE p \in S : Cardinality({q \in S : position[q] < position[p]}) = i - 1]

\* ORDER BY position ASC
ListCartItems(c) == Listing(InCart(c), pos)

\* The reorders of cart c that are running.
Movers(c) == {r \in Requests : InFlight(r, c) /\ Reordering(r)}

(* A reorder takes effect, as the owner sees it, when it is admitted: while it
   runs the rows are on their way to the list it was sent.                    *)
Shown(c) ==
  IF Movers(c) = {} THEN ListCartItems(c) ELSE req[CHOOSE r \in Movers(c) : TRUE].list

Remaining(r) ==
  LET c == req[r].cart  pc == req[r].pc IN
  IF pc = "idle" THEN [op |-> "free"]
  ELSE IF pc \in {"link", "nextpos", "insert"} THEN [op |-> "add", cart |-> c]
  ELSE IF pc = "remove" THEN [op |-> "remove", cart |-> c, product |-> req[r].prod]
  ELSE [op |-> "done"]

Promise == INSTANCE CartOrder
  WITH order <- [c \in Carts |-> Shown(c)], call <- [r \in Requests |-> Remaining(r)]

\* Without overlap, faults or stale lists, the many statements of AddProduct,
\* RemoveProduct and ReorderProducts are single steps of a list: each acts on the
\* one cart it was sent to, once, and no product is lost, doubled or out of place
\* by the time the request is answered.
ImplementsCartOrder == Promise!Spec
=============================================================================
