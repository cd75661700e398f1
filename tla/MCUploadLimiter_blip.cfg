SPECIFICATION FairSpec
CONSTANTS
  None = None
  Users = {u1}
  Requests = {r1, r2, r3}
  Max = 1
  Window = 2
  Faults = TRUE
PROPERTIES BlipNeverBlocks
