SPECIFICATION FairSpec
CONSTANTS
  EntriesPerPage = 2
  Versions = {0, 1}
  DefaultVersion = 0
  DefaultCounter = 5
  ProdDefaultEn = FALSE
  None = None
  WeakFlash = TRUE
  LcArgs = {"Dev", "Prod"}
  Erased = Erased
  Torn = Torn
  MaxCounter = 9
INVARIANTS IInv NoTrap ErasureSparesNewest ProgramsErasedWords
PROPERTIES CrashAtomic CallsEnd
