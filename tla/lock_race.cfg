SPECIFICATION SpecTurns
CONSTANTS
  Proc = {p0, p1, p2, p3}
  Gone = p0
  Breakers = {p1, p2, p3}
  MaxTurns = 5
  Nonce = {1, 2, 3, 4, 5}
  Dir = {d1, d2, d3}
  None = None
SYMMETRY SymmetryTurns
INVARIANT MutualExclusion
CHECK_DEADLOCK FALSE
