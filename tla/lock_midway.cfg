SPECIFICATION SpecMidway
CONSTANTS
  Proc = {p0, p1, p2, p3}
  Gone = p0
  Displacer = p1
  Quarantiner = p2
  FirstDir = d1
  Nonce = {1, 2, 3, 4}
  Dir = {d1, d2}
  None = None
INVARIANT LossShows
CHECK_DEADLOCK FALSE
