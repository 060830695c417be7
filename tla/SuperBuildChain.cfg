CONSTANTS
  llvm = llvm
  rocr = rocr
  comgr = comgr
  hip = hip
  Proj <- ChainProj
  Deps <- ChainDeps
  Runtime <- ChainRuntime
  Globbed = {rocr, hip}
  MaxRev = 2
  MaxDisturb = 3
SPECIFICATION BuiltSpec
INVARIANTS NoLostEdit DistMatchesStage BuildSeesConfigured NoTornReads
PROPERTY PromiseKept
CHECK_DEADLOCK FALSE
