SPECIFICATION Spec
CONSTANTS
  Tasks = 2
  Cap = 2
  MaxResumes = 2
  MaxFaults = 2
INVARIANTS RecordedOnce ParkedOnce ParkedEarned LoopBounded CalmSignalled
CHECK_DEADLOCK FALSE
