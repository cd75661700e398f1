SPECIFICATION Spec
CONSTANTS
  u1 = u1
  c1 = c1
  None = None
  Users = {u1}
  Carts = {c1}
  Owner <- OneOwner
  Products = {p1, p2, p3}
  Requests = {r1}
  Texts = {t1}
  ItemLists <- AnyLists
  Faults = TRUE
  FreshLists = TRUE
INVARIANTS ReorderNeverCollides
