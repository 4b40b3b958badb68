SPECIFICATION Spec
CONSTANTS
  Sessions = {s1, s2}
  Calls <- TheCalls
  Agents = {"developer"}
  Branches = {"main", "topic"}
  Marked = {"main"}
  Chain <- TheChain
  Failures <- TheFailures
  Limit = 2
  MaxCalls = 3
SYMMETRY Symmetry
INVARIANTS  ChildrenWork NoStuckAgent RepeatEarned
CHECK_DEADLOCK FALSE
