-------------------------- MODULE MCBootstrapTool --------------------------
EXTENDS BootstrapToolInv

OldWords == {[w \in Words |-> "old"]}

\* An image of two values over three pages with a page of ones, one that begins
\* with ones and one that ends with them.
MCImages ==
  {<<"a", "b", "a", "b", Erased, Erased, Erased, Erased, "b", "a", Erased>>,
   <<Erased, "a">>, <<"a", Erased, Erased, Erased, Erased, Erased>>}

\* SpiFlash::program() at an address that is not that of a page, and a sector
\* erase of what it wrote, after an erase of a sector that erases everything.
EditScript ==
  <<Item(Command("SECTOR_ERASE", 9, TRUE, <<>>, FALSE), TRUE, TRUE)>>
    \o ProgramItems(3, <<"a", "b", "a">>)
    \o <<Item(Command("SECTOR_ERASE", 6, TRUE, <<>>, FALSE), TRUE, TRUE)>>
    \o ProgramItems(6, <<"b", "a", "b", "a">>)

\* A page program that wraps in its page, after one that is ignored.
WrapScript ==
  LET wrap == Item(Command("PAGE_PROGRAM", 6, TRUE, <<"a", "b", "b", "a">>, FALSE), TRUE, TRUE)
  IN  <<wrap, Item(Bare("CHIP_ERASE"), TRUE, TRUE), wrap,
        Item(Bare("CHIP_ERASE"), TRUE, TRUE), wrap>>

MCScripts == {EditScript, WrapScript}

\* SpiFlash::chip_reset() before any erase, and wait_for_busy_clear().
EarlyReset == {<<Item(Bare("RESET"), FALSE, TRUE)>>}

NoCommands == {}
=============================================================================
