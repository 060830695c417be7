CONSTANTS
  None = None
  Path <- Paths
  Artifact <- OneFamily
SPECIFICATION Spec
INVARIANTS NeverAsserts DevelIsTheTree SonamesThere OneCopy StubsRun
CHECK_DEADLOCK FALSE
