CONSTANTS
  None = None
  Path <- Paths
  Artifact <- TwoFamilies
SPECIFICATION Spec
INVARIANT SonamesThere
CHECK_DEADLOCK FALSE
