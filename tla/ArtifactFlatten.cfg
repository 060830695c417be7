CONSTANTS
  lib = lib
  lib64 = lib64
  so = so
  a = a
  b = b
  Top = {lib, lib64}
  Leaf = {so}
  Inode = {a, b}
  Layouts <- BothLayouts
  Modes = {"dir", "tar"}
  MaxRestarts = 1
SPECIFICATION Spec
SYMMETRY Symmetry
INVARIANTS FlattenIsUnion CompatibleNeverFails ArchiveFilesFound
CHECK_DEADLOCK FALSE
