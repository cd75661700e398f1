SPECIFICATION FairSpec
CONSTANTS
  u1 = u1
  c1 = c1
  None = None
  Users = {u1}
  Carts = {c1}
  Owner <- OneOwner
  Products = {p1, p2}
  Requests = {r1, r2}
  Texts = {t1}
  ItemLists <- AnyLists
  Faults = TRUE
  FreshLists = FALSE
INVARIANTS TypeOK ParkedIsOwed CalmNeverConflicts CalmReorderExact CalmInv
PROPERTIES ArchivedComesToRest ParkedReturns
