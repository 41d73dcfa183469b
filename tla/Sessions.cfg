SPECIFICATION FairSpec
CONSTANTS
  c1 = c1
  c2 = c2
  c3 = c3
  t1 = t1
  t2 = t2
  Conn = {c1, c2, c3}
  Token = {t1, t2}
  NoToken = NoToken
  NoConn = NoConn
  Deleted = Deleted
CHECK_DEADLOCK FALSE
INVARIANTS Served InStep
PROPERTIES WorldEmpties
