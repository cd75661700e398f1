SPECIFICATION FairSpec
CONSTANTS
  None = None
  Users = {u1, u2}
  Carts = {c1, c2}
  Slugs = {s1}
  Titles = {t1}
  Requests = {r1, r2}
  MaxAttempts = 2
  MaxShown = 1
  Faults = TRUE
INVARIANTS TypeOK ViewsAreVisits
PROPERTIES UnracedUpdateIsThePatch SealedUntilPublished ViewsCatchUp CreateAnswers
