SPECIFICATION Spec
CONSTANTS
  u1 = u1
  u2 = u2
  c1 = c1
  c2 = c2
  None = None
  Users = {u1, u2}
  Carts = {c1, c2}
  Owner <- OwnerEach
  Products = {p1, p2, p3}
  Requests = {r1}
  Texts = {t1, t2}
  ItemLists <- DistinctLists
  Faults = FALSE
  FreshLists = TRUE
PROPERTIES ImplementsCartOrder OnlyOwnerChanges
