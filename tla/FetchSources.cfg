CONSTANTS
  rocBLAS = rocBLAS
  sdk = sdk
  p1 = p1
  p2 = p2
  therock = therock
  none = none
  Project = {rocBLAS, sdk}
  Ancillary = {sdk}
  Patch = {p1, p2}
  Subsumed = {p1}
  TheRock = therock
  None = none
  MaxUnusual = 3
SPECIFICATION FairSpec
INVARIANTS CleanState PristineRecorded
PROPERTIES TheRockUntouched Recovers
