SPECIFICATION Spec
CONSTANTS
  MyCarts = {c1, c2}
  Week = 2
  LastDay = 4
  MaxVisits = 2
  Logs = {g1, g2}
  NoBaseline = NoBaseline
  Products = {p1, p2}
  Fetches = {f1, f2}
  Photos = {u1}
  Nothing = Nothing
  Calls = {k1, k2}
  Titles = {t1, t2}
  MaxItems = 2
  MaxCalls = 3
  Shared = {s1, s2}
  Pictured = {s1}
  CartIds = {d1, d2}
  MaxLost = 2
  Empty = Empty
  Windows = {w1, w2}
  Members = {a1}
  Shares = {s1, s2}
  Nobody = Nobody
  NoNext = NoNext
  MaxStarts = 3
  MaxMishaps = 1
  People = {u1, u2}
  Admins = {u1}
  Named = {u1}
  Newcomers = {u2}
  Anonymous = Anonymous
  Messages = {m1, m2}
  Torn = {m2}
  NoMessage = NoMessage
  InboxLimit = 1
  MaxSends = 3
  Curated = {b1}
  Own = {o1}
  Gradient = Gradient
  Accents = {House}
  House = House
  Used = {b1, o1}
  Keep = Keep
SYMMETRY Alike
INVARIANTS TypeOK EventsMatchTotals HeadlineIsTheCarts DraftIsOneProduct EditorShowsTheCart SentOnce SignInKeepsItsWord ChromeIsHonest
CHECK_DEADLOCK FALSE
