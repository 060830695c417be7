CONSTANTS
  llvm = llvm
  rocr = rocr
  comgr = comgr
  hip = hip
  Proj <- DiamondProj
  Deps <- DiamondDeps
  Runtime <- DiamondRuntime
  Globbed = {rocr, hip}
  MaxRev = 2
  MaxDisturb = 1
SPECIFICATION FairSpec
INVARIANTS CohInv DistCoherent
PROPERTY OneRunConverges
CHECK_DEADLOCK FALSE
