CONSTANTS
  Size = 10
  AsmBite = 3
  AsmBark = 3
  InitEdges = 2
  Chips <- MCChips
SPECIFICATION FairSpec
INVARIANTS IInv BarkBehind Guarded
PROPERTIES ArmsClean ResetsForCause PollEnds ShutdownEnds
