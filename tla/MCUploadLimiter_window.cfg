SPECIFICATION FairSpec
CONSTANTS
  None = None
  Users = {u1}
  Requests = {r1, r2, r3}
  Max = 2
  Window = 2
  Faults = TRUE
INVARIANTS TypeOK AtMostMax
PROPERTIES WindowNotExtended LimitedComesBack
