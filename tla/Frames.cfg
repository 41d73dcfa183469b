SPECIFICATION Spec
CONSTANTS
  Bad = Bad
  Scenes <- Links
CHECK_DEADLOCK FALSE
INVARIANTS ReadAsWritten Realigned
