SPECIFICATION Spec
CONSTANTS
  Docs <- MCDocs
  Elsewhere = {"user"}
  Bodies <- MCBodies
  MaxElements = 2
  MaxDepth = 2
  MaxAttributes = 1
  MaxModelBytes = 1
  MaxSvgBytes = 2
  MaxAggregateBytes = 5
  Changes = 2
  None = None
INVARIANTS ManifestHonest Provenance SourceCanonical OwnDiagrams RecheckExact
CHECK_DEADLOCK FALSE
