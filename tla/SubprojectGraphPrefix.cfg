CONSTANTS
  llvm = llvm
  rocr = rocr
  hip = hip
  none = none
  hsa = hsa
  dir1 = dir1
  dir2 = dir2
  dir3 = dir3
  Proj = {llvm, rocr, hip}
  Toolchain = {llvm}
  Package = {}
  Parent = {dir1}
  Prefix = {1, 2}
  MaxBuild = 1
  MaxRuntime = 2
  FreePackage = {}
  None = none
SPECIFICATION Spec
INVARIANT OwnInitFile
CHECK_DEADLOCK FALSE
