SPECIFICATION Spec
CONSTANTS
  Regs = {"a", "b", "s"}
  Shadowed = {"s"}
  Values = {0, 1}
  ResetValue = 0
  Mask <- Flip
  None = None
  Size = 2
  RndRange = 4
  Garbage <- Leftover
  MaxCount = 2
INVARIANTS IInv
PROPERTIES NoFalseTrap RegisterMap
