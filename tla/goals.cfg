SPECIFICATION FairSpec
CONSTANTS
  Goals = {g1, g2}
  Runs = {r1, r2}
  Predicates = {p}
  Days = 1
  Changes = 1
  None = None
INVARIANTS Loud EditsKept PassOnRecord
PROPERTY RunsEnd
CHECK_DEADLOCK FALSE
