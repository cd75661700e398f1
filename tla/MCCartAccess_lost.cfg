SPECIFICATION Spec
CONSTANTS
  None = None
  Users = {u1}
  Carts = {c1}
  Slugs = {s1}
  Titles = {t1, t2}
  Requests = {r1, r2}
  MaxAttempts = 2
  MaxShown = 0
  Faults = FALSE
PROPERTIES UnsetFieldsLeftUnchanged
