SPECIFICATION Spec
CONSTANTS
  Regs = {"ra", "a0"}
  Words <- MCWords
  Window = {0, 1, 2}
  Reset = 0
  Succ <- MCSucc
  Flip <- MCFlip
  Comp = {1, 3}
  Ctc = {2, 3}
  Mpie = {1}
  None = None
INVARIANTS TypeOK 
CONSTRAINT NotBlind
  
