SPECIFICATION LookSpec
CONSTANTS
  Curated = {b1}
  Own = {o1}
  Gradient = Gradient
  Accents = {House, teal}
  Used = {b1, o1}
  House = House
  Keep = Keep
INVARIANT AccentIsKept
