---------------------------- MODULE MCBootstrap ----------------------------
EXTENDS Bootstrap

OldWords == {[w \in Words |-> "old"]}

Program(a, d) == Command("PAGE_PROGRAM", a, TRUE, d, FALSE)
Sector(a)     == Command("SECTOR_ERASE", a, TRUE, <<>>, FALSE)

\* Commands that reach flash: erases, a program that wraps in its page.
FlashCommands == {Bare("CHIP_ERASE"), Sector(3), Program(1, <<"a", "b">>)}

\* Commands that do not, or only in part: reset, unknown opcode, missing or bad
\* address, more payload than fits.
OtherCommands ==
  {Bare("RESET"), Bare("OTHER"), Bare("SECTOR_ERASE"), Sector(MaxAddress),
   Command("PAGE_PROGRAM", 2, FALSE, <<"a">>, FALSE),
   Command("PAGE_PROGRAM", 2, TRUE, <<"a", "b">>, TRUE)}

AllCommands == FlashCommands \cup OtherCommands
=============================================================================
