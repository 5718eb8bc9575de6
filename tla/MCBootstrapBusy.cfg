SPECIFICATION FairUpdateSpec
CONSTANTS
  WordsPerWindow = 2
  WordsPerProgPage = 4
  ProgPagesPerPage = 1
  PagesPerBank = 2
  Erased = Erased
  Mixed = Mixed
  None = None
  Data = {"a", "b", "old"}
  OldFlash <- OldWords
  Commands <- NoCommands
  MaxCommands = 0
  MaxResets = 0
  FlashFaults = FALSE
  WeakErase = FALSE
  Images <- NoCommands
  Scripts <- EarlyReset
PROPERTIES BusyEnds
CHECK_DEADLOCK FALSE
