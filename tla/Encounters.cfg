SPECIFICATION Spec
CONSTANTS
  p = p
  q = q
  r = r
  Token = {p, q}
  NoOne = NoOne
  Parties <- Parties2
  MaxId = 4
  MaxSpawns = 5
  MaxDepartures = 1
CHECK_DEADLOCK FALSE
INVARIANTS CleanedUp WilhelmPresent InWorldTogether
