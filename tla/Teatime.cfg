CONSTANTS
  group = group
  endgroup = endgroup
  summary = summary
  Group = group
  EndGroup = endgroup
  Summary = summary
  MaxLines = 4
  Cleanup = 2
  PipeCap = 2
SPECIFICATION FairSpec
INVARIANTS LogComplete FailureShown SuccessIsReal GroupsClosed
PROPERTY Ends
CHECK_DEADLOCK FALSE
