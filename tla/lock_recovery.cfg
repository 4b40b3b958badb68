SPECIFICATION SpecRecovery
CONSTANTS
  Proc = {p1, p2}
  Gone = None
  Nonce = {1, 2, 3}
  Dir = {d1, d2}
  None = None
PROPERTY Recovery
CHECK_DEADLOCK FALSE
