--------------------------- MODULE BootstrapTool ---------------------------
(***************************************************************************)
(* Bootstrap with the host tool of this tree: do_update() and              *)
(* Eeprom::update() of opentitanlib, with the SpiFlash functions they call.*)
(* The tool sets the straps, resets the chip, erases, programs page by     *)
(* page, polls the busy bit after each command, sends RESET, releases the  *)
(* straps and resets the chip.                                             *)
(***************************************************************************)
EXTENDS Bootstrap

CONSTANTS
  Images,  \* images to write with Update
  Scripts  \* other sequences of items that a tool may send

\* Commands that the tool uploads: an address that was not sent is no wrong one.
ToolCommands ==
  {c \in HostCommands : c.op \in Uploaded /\ (c.at = None => c.aligned)}

Items == [cmd : ToolCommands, wren : BOOLEAN, poll : BOOLEAN]

\* The tool polls after each command, except for a RESET with which it ends.
GoodScript(s) ==
  /\ s \in Seq(Items)
  /\ \A i \in DOMAIN s : s[i].poll \/ (i = Len(s) /\ s[i].cmd.op = "RESET")

ASSUME ToolAssumption ==
  /\ Images \subseteq Seq(Data \cup {Erased})
  /\ \A s \in Scripts : GoodScript(s)
  /\ None \notin [Words -> Values] \cup HostCommands

VARIABLES
  tool,  \* next step of the tool, what it sends between its two resets, the
         \* item it is at, and the image it writes (None if it is no update)
  view   \* flash as the tool must believe it to be (None: it does not know),
         \* and whether no reset came that it does not know of

toolVars == <<vars, tool, view>>

\* A command, with WRITE_ENABLE before it and polling behind it or not.
Item(c, wren, poll) == [cmd |-> c, wren |-> wren, poll |-> poll]

\* Mutant: a chunk is skipped if it starts with ones.
IsOnesAtStart(words) == words[1] = Erased

IsOnes(words) == \A k \in DOMAIN words : words[k] = Erased

\* program_with_progress(): a chunk for each programming page.
ProgramItems(at, image) ==
  LET end     == at + Len(image)
      page(a) == a \div WordsPerProgPage
      from(k) == IF k = 1 THEN at ELSE (page(at) + k - 1) * WordsPerProgPage
      to(k)   == IF from(k + 1) < end THEN from(k + 1) ELSE end
      words(k) == SubSeq(image, from(k) - at + 1, to(k) - at)
  IN  IF image = <<>> THEN <<>>
      ELSE [k \in 1 .. page(end - 1) - page(at) + 1 |->
              Item(Command("PAGE_PROGRAM", from(k), TRUE, words(k), FALSE), TRUE, TRUE)]

\* A chunk of ones is not sent.
Skipped(item) == item.cmd.op = "PAGE_PROGRAM" /\ IsOnes(item.cmd.data)

\* Eeprom::update()
Update(image) ==
  <<Item(Bare("CHIP_ERASE"), TRUE, TRUE)>> \o ProgramItems(0, image)
    \o <<Item(Bare("RESET"), FALSE, FALSE)>>

Current   == tool.script[tool.i]
InSession == tool.pc \in {"skip", "wren", "cmd", "poll"}

AtItem(i) ==
  [tool EXCEPT !.pc = IF i > Len(tool.script) THEN "unstrap"
                      ELSE IF Skipped(tool.script[i]) THEN "skip"
                      ELSE IF tool.script[i].wren THEN "wren" ELSE "cmd",
               !.i = i]

ToolStart ==
  /\ tool.pc = "start"
  /\ strap' = TRUE
  /\ ChipReset
  /\ tool' = AtItem(1)
  /\ view' = [mem |-> None, sure |-> TRUE]
  /\ UNCHANGED count

\* The tool begins when it has read the SFDP table, which is set up with the
\* rest of spi_device.
HasSfdp == tool = AtItem(1) => spi.on

ToolSkip ==
  /\ tool.pc = "skip" /\ HasSfdp
  /\ tool' = AtItem(tool.i + 1)
  /\ UNCHANGED <<vars, view>>

ToolShift ==
  /\ tool.pc \in {"wren", "cmd", "poll"} /\ HasSfdp
  /\ Shift(CASE tool.pc = "wren" -> Bare("WREN")
             [] tool.pc = "cmd"  -> Current.cmd
             [] tool.pc = "poll" -> Bare("READ_STATUS"))
  /\ UNCHANGED <<flash, perms, rom, strap, count, tool, view>>

\* What flash is after command c if it was m: the tool knows a serial NOR flash.
Believed(m, c) ==
  IF c.op = "CHIP_ERASE" THEN NorEffect(c, m)
  ELSE IF m = None \/ c.op \notin HasAddress THEN m
  ELSE LET e == NorEffect(c, m)
       IN  [w \in Words |-> IF w \in DOMAIN e THEN e[w] ELSE m[w]]

\* wait_for_busy_clear()
PollsAgain == spi.seen

ToolRelease ==
  /\ spi.txn # None
  /\ spi' = Released(spi)
  /\ \/ /\ tool.pc = "wren"
        /\ tool' = [tool EXCEPT !.pc = "cmd"] /\ view' = view
     \/ /\ tool.pc = "cmd"
        /\ tool' = IF Current.poll THEN [tool EXCEPT !.pc = "poll"] ELSE AtItem(tool.i + 1)
        /\ view' = view
     \/ /\ tool.pc = "poll" /\ PollsAgain
        /\ UNCHANGED <<tool, view>>
     \/ /\ tool.pc = "poll" /\ ~PollsAgain
        /\ tool' = AtItem(tool.i + 1)
        /\ view' = [view EXCEPT !.mem = Believed(@, Current.cmd)]
  /\ UNCHANGED <<flash, perms, rom, strap, count>>

ToolUnstrap ==
  /\ tool.pc = "unstrap"
  /\ strap' = FALSE
  /\ tool' = [tool EXCEPT !.pc = "reset"]
  /\ UNCHANGED <<flash, perms, rom, spi, count, view>>

ToolReset ==
  /\ tool.pc = "reset"
  /\ ChipReset
  /\ tool' = [tool EXCEPT !.pc = "done"]
  /\ UNCHANGED <<strap, count, view>>

ToolNext == ToolStart \/ ToolSkip \/ ToolShift \/ ToolRelease \/ ToolUnstrap \/ ToolReset

\* A step of the chip, which may be a reset that the tool does not know of.
ChipNext(A) ==
  /\ A
  /\ view' = [view EXCEPT !.sure = @ /\ ~(InSession /\ rom' = IdleRom)]
  /\ UNCHANGED tool

UpdateInit ==
  /\ Init
  /\ tool \in {[pc |-> "start", i |-> 1, script |-> s, image |-> None] : s \in Scripts}
              \cup {[pc |-> "start", i |-> 1, script |-> Update(m), image |-> m] : m \in Images}
  /\ view = [mem |-> None, sure |-> FALSE]

UpdateNext == ChipNext(RomNext \/ LatePop \/ AnyReset) \/ ToolNext

UpdateSpec == UpdateInit /\ [][UpdateNext]_toolVars

\* The ROM runs, and so does the tool.  No reset has to come.
FairUpdateSpec == UpdateSpec /\ WF_toolVars(ChipNext(RomNext)) /\ WF_toolVars(ToolNext)

-----------------------------------------------------------------------------
(* Properties *)

\* What the tool was told is done is done: while no command is under way, flash
\* is what the commands that the tool saw end make of it, unless the chip was
\* reset in the session.  Three copies of the status register, the late effect
\* of software's writes to it and the work after the flag must fit together.
DoneIsDone ==
  view.sure /\ view.mem # None /\ tool.pc # "poll" => flash = view.mem

\* The ROM never executes another command than the one the tool waits for, and
\* write enable is still set when it looks.
InStep ==
  view.sure /\ rom.pc \in {"dispatch", "work", "verify"} /\ tool.pc = "poll" =>
    /\ rom.cmd = Current.cmd
    /\ rom.pc = "dispatch" /\ Current.wren => Wel
    /\ spi.sys.wip

\* When the tool is done with an update the image is in flash, behind it and in
\* the chunks that were skipped flash is erased; unless the chip was reset in
\* the session.
ImageWritten ==
  tool.pc = "done" /\ view.sure /\ tool.image # None =>
    \A w \in Words :
      flash[w] = IF w < Len(tool.image) THEN tool.image[w + 1] ELSE Erased

\* An update in which the chip is not reset ends with the tool done and the chip
\* on its way to boot.
UpdateEnds ==
  \/ <>(tool.pc # "start" /\ ~view.sure)
  \/ <>[](tool.pc = "done" /\ rom.pc = "boot")

\* A busy bit is cleared some time.
BusyEnds == spi.committed.wip ~> ~spi.committed.wip
=============================================================================
