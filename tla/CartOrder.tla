----------------------------- MODULE CartOrder -----------------------------
(***************************************************************************)
(* What the owner of a cart is promised: each cart is a list of products,  *)
(* and every call acts on one list, in one step, once.  An add appends a   *)
(* new product, a removal takes one out wherever it is, a reorder makes    *)
(* the list the one that was sent; other calls change no list.             *)
(***************************************************************************)
EXTENDS Sequences, SequencesExt

CONSTANTS Carts, Products, Requests

VARIABLES
  order,   \* the products of each cart, first to last
  call     \* what each request has still to do

vars == <<order, call>>

Free == [op |-> "free"]
Done == [op |-> "done"]
Add(c) == [op |-> "add", cart |-> c]
TakeOut(c, p) == [op |-> "remove", cart |-> c, product |-> p]

Init ==
  /\ order = [c \in Carts |-> <<>>]
  /\ call = [r \in Requests |-> Free]

Listed == UNION {Range(order[c]) : c \in Carts}

Permutes(s, c) ==
  /\ DOMAIN s = DOMAIN order[c]
  /\ Range(s) = Range(order[c])

Take(r, what) ==
  /\ call[r] = Free
  /\ call' = [call EXCEPT ![r] = what]

\* A call is taken.  A reorder takes effect at once, and never again.
Ask(r) ==
  \/ \E c \in Carts : Take(r, Add(c)) /\ UNCHANGED order
  \/ \E c \in Carts, p \in Products : Take(r, TakeOut(c, p)) /\ UNCHANGED order
  \/ Take(r, Done) /\ UNCHANGED order
  \/ \E c \in Carts : \E s \in [DOMAIN order[c] -> Range(order[c])] :
       /\ Take(r, Done)
       /\ Permutes(s, c)
       /\ order' = [order EXCEPT ![c] = s]

\* An add or a removal takes effect, once: at the end of the list, or wherever p is.
Put(r, c, p) ==
  /\ call[r] = Add(c)
  /\ call' = [call EXCEPT ![r] = Done]
  /\ order' = [order EXCEPT ![c] = Append(@, p)]

Drop(r, c, p) ==
  /\ call[r] = TakeOut(c, p)
  /\ call' = [call EXCEPT ![r] = Done]
  /\ \/ \E i \in DOMAIN order[c] :
          order[c][i] = p /\ order' = [order EXCEPT ![c] = RemoveAt(@, i)]
     \/ p \notin Range(order[c]) /\ UNCHANGED order

Effect(r) ==
  \/ \E c \in Carts : \E p \in Products \ Listed : Put(r, c, p)
  \/ \E c \in Carts, p \in Products : Drop(r, c, p)

Answer(r) ==
  /\ call[r] = Done
  /\ call' = [call EXCEPT ![r] = Free]
  /\ UNCHANGED order

Next == \E r \in Requests : Ask(r) \/ Effect(r) \/ Answer(r)

Spec == Init /\ [][Next]_vars
=============================================================================
