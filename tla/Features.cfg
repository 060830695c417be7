CONSTANTS
  COMPILER = COMPILER
  CORE_RUNTIME = CORE_RUNTIME
  HIP_RUNTIME = HIP_RUNTIME
  BLAS = BLAS
  ALL = ALL
  CORE = CORE
  MATH_LIBS = MATH_LIBS
  Feature = {COMPILER, CORE_RUNTIME, HIP_RUNTIME, BLAS}
  Tables <- Slices
  Requires <- SliceRequires
  Group = {ALL, CORE, MATH_LIBS}
  GroupOf <- SliceGroups
  All = ALL
  Dependent = {CORE, MATH_LIBS}
  MaxFlags = 1
SPECIFICATION FeaturesSpec
INVARIANTS RequirementsOn MinimumOnly UserDecides
