CONSTANTS
  clr = clr
  solver = solver
  so = so
  hdr = hdr
  Comps <- Parts
  Stage = {clr, solver}
  Optional = {solver}
  Kind = {so, hdr}
  Has <- TwoAll
  Matched <- MatchedKinds
  Descriptors <- TwoTomls
  MaxRev = 2
  MaxDisturb = 2
  None = None
SPECIFICATION Spec
INVARIANTS ArtifactsExact ArchivesExact DistComplete SortedOnce
CHECK_DEADLOCK FALSE
