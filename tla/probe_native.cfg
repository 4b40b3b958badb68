SPECIFICATION FairSpec
CONSTANTS
  Engines <- MCEngines
  Requests <- MCRequests
  Meddles = 2
  None = None
INVARIANTS NativeEvidence SilentOnceSettled
PROPERTIES KeepsPromise Ends
CHECK_DEADLOCK FALSE
