SPECIFICATION FairUpdateSpec
CONSTANTS
  WordsPerWindow = 2
  WordsPerProgPage = 4
  ProgPagesPerPage = 1
  PagesPerBank = 2
  Erased = Erased
  Mixed = Mixed
  None = None
  Data = {"a", "b", "old"}
  OldFlash <- OldWords
  Commands <- NoCommands
  MaxCommands = 0
  MaxResets = 0
  FlashFaults = TRUE
  WeakErase = FALSE
  Images <- MCImages
  Scripts <- MCScripts
INVARIANTS DoneIsDone InStep ImageWritten
CHECK_DEADLOCK FALSE
PROPERTIES UpdateEnds
