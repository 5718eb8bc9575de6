SPECIFICATION Spec
CONSTANTS
  WordsPerWindow = 1
  WordsPerProgPage = 2
  ProgPagesPerPage = 1
  PagesPerBank = 2
  Erased = Erased
  Mixed = Mixed
  None = None
  Data = {"a", "b", "old"}
  OldFlash <- OldWords
  Commands <- AllCommands
  MaxCommands = 2
  MaxResets = 1
  FlashFaults = TRUE
  WeakErase = TRUE
INVARIANTS TypeOK PopsACommand PermissionsMatch
PROPERTIES NorFlash
