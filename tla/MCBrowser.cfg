SPECIFICATION Spec
CONSTANTS
  None = None
  Queries = {q1, q2}
  Finds = {q1}
  MaxId = 2
  Taps = {t1, t2}
  MaxInFlight = 2
  MaxTroubles = 1
  Carts = {1, 2}
  Limit = 1
  MaxOpens = 2
  Goods = {p1}
  Elsewhere = Elsewhere
  Unknown = Unknown
  Requests = {r1, r2}
  MaxBreaks = 1
  ExtensionId = TRUE
INVARIANTS TypeOK ResultsMatchQuery HonestButton CardsAddUp BadgeStaysCleared SeenIsListed FormAddsOnce
PROPERTIES SearchSettles MenuLoads FormSettles
