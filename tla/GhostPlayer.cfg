SPECIFICATION Spec
CONSTANTS
  c1 = c1
  c2 = c2
  c3 = c3
  t1 = t1
  t2 = t2
  Conn = {c1, c2}
  Token = {t1}
  NoToken = NoToken
  NoConn = NoConn
  Deleted = Deleted
CHECK_DEADLOCK FALSE
INVARIANTS NoGhosts
