SPECIFICATION Spec
CONSTANTS
  p = p
  q = q
  r = r
  Token = {p, q, r}
  NoOne = NoOne
  Parties <- Parties3
  MaxId = 4
  MaxSpawns = 5
  MaxDepartures = 0
CHECK_DEADLOCK FALSE
PROPERTIES OnlyLeavers
