---------------------------- MODULE MCCartItems ----------------------------
(* Instances of CartItems for TLC. *)
EXTENDS CartItems, TLC

CONSTANTS u1, c1

OneOwner == c1 :> u1

\* Every list: complete ones, the stale ones of a tab that has not seen an add or
\* a removal, the empty one, and lists that repeat an id.
AnyLists == UNION {[1..n -> Products] : n \in 0..Cardinality(Products)}

\* service.go:366-370 says of the two-phase reorder that the parked positions
\* "can't collide with the 0..n-1 range or each other": then no reorder is ever
\* answered with a unique violation.
ReorderNeverCollides ==
  \A r \in Requests : req[r].pc = "conflict" => req[r].list = <<>>
=============================================================================
