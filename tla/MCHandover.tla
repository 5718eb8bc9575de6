----------------------------- MODULE MCHandover -----------------------------
EXTENDS HandoverInv

Reg(a, b) == [start |-> a, end |-> b]

MCRom == Reg(0, 8)
MCResetText == Reg(0, 4)
MCRomText == Reg(0, 6)
MCDebugRom == Reg(8, 10)
MCResetMmio == Reg(12, 14)
MCMmio == Reg(12, 16)
MCRam == Reg(16, 20)
MCFlash == Reg(32, 48)
MCRomExtVirtual == Reg(48, 56)
MCOwnerVirtual == Reg(56, 64)

\* Code in the middle or at the end of an image, or longer than an image may be.
Image(v, good, translated) ==
  [code |-> IF v = 0 THEN Reg(1, 3) ELSE Reg(2, 4), entry |-> 2, version |-> v,
   good |-> good, translated |-> translated]

MCImages == {Image(0, TRUE, TRUE), Image(1, TRUE, FALSE), Image(1, TRUE, TRUE),
             Image(1, FALSE, TRUE),
             [Image(1, TRUE, TRUE) EXCEPT !.code = Reg(2, 8)]}
=============================================================================
