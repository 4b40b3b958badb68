SPECIFICATION SpecFew
CONSTANTS
  Renders = {r1, r2}
  Cleans = {c1}
  Faults = {"SOURCE", "DOCKER", "DSL", "SVG", "CONSISTENCY", "PUBLISH"}
  MaxWrong = 2
  None = None
SYMMETRY Symmetry
INVARIANTS Exclusive PublishedWhole Released
PROPERTIES FirstFault NoStaleSuccess
CHECK_DEADLOCK FALSE
