SPECIFICATION FairSpec
CONSTANTS
  None = None
  Fields = {f1, f2}
  Values = {v1, v2}
  Saves = {s1, s2}
  Echoes = {e1}
  GoesOn = FALSE
  Faults = TRUE
INVARIANTS TypeOK UnsavedIsOnItsWay
PROPERTIES SavedInTheEnd
