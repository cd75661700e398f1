----------------------- MODULE MCCartItemsRefinement -----------------------
(* Instance of CartItemsRefinement for TLC: two accounts, a cart each. *)
EXTENDS CartItemsRefinement, TLC

CONSTANTS u1, u2, c1, c2

OwnerEach == c1 :> u1 @@ c2 :> u2

\* Lists of distinct products.  Reorder bodies name what the cart holds here.
DistinctLists ==
  {l \in UNION {[1..n -> Products] : n \in 0..Cardinality(Products)} : IsInjective(l)}
=============================================================================
