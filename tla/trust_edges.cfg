SPECIFICATION Spec
CONSTANTS
  Proc = {p1, p2}
  Skill = {s1, s2}
  Start <- EdgeLedgers
  NoCall = NoCall
  MaxResults = 2
SYMMETRY Symmetry
INVARIANT NoLostUpdate
PROPERTIES CountsOneByOne AlertsMatchLedger NoTierJump
CHECK_DEADLOCK FALSE
