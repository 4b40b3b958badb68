SPECIFICATION SpecPrompt
CONSTANTS
  Proc = {p1, p2, p3}
  Gone = None
  Nonce = {1, 2, 3}
  Dir = {d1, d2}
  None = None
SYMMETRY Symmetry
INVARIANTS ClaimKept NoLeak
PROPERTY Serialized
CHECK_DEADLOCK FALSE
