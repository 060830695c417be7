CONSTANTS
  llvm = llvm
  rocr = rocr
  hip = hip
  none = none
  hsa = hsa
  dir1 = dir1
  dir2 = dir2
  dir3 = dir3
  Proj = {llvm, rocr, hip}
  Toolchain = {llvm}
  Package = {hsa}
  Parent = {dir1, dir2, dir3}
  Prefix = {none}
  MaxBuild = 1
  MaxRuntime = 2
  FreePackage = {}
  None = none
SPECIFICATION Spec
SYMMETRY Symmetry
INVARIANTS RuntimeClosed DependsCoverReads Acyclic NoEscape
CHECK_DEADLOCK FALSE
