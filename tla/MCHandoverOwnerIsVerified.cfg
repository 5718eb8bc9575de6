SPECIFICATION Spec
CONSTANTS
  AddressEnd = 64
  None = None
  Rom <- MCRom
  ResetText <- MCResetText
  RomText <- MCRomText
  DebugRom <- MCDebugRom
  Ram <- MCRam
  Guard = 17
  Mmio <- MCMmio
  ResetMmio <- MCResetMmio
  Flash <- MCFlash
  RomExtVirtual <- MCRomExtVirtual
  OwnerVirtual <- MCOwnerVirtual
  RomExtSizeMax = 4
  OwnerSizeMax = 4
  Images <- MCImages
INVARIANT OwnerIsVerified
